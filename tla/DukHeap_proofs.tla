-------------------------- MODULE DukHeap_proofs --------------------------
(***************************************************************************)
(* Proofs about DukHeap: type correctness, exact reference counts, and the *)
(* absence of dangling references, for every number of objects, fields,    *)
(* root slots and every marking recursion limit (SafeHeap); and, in the    *)
(* second part, resting on SafeHeap: the flags say where the finalizer     *)
(* call of an object stands, only garbage is queued for finalization,      *)
(* nothing is freed before its finalizer was called, and no zero reference *)
(* count goes unnoticed.                                                   *)
(***************************************************************************)
EXTENDS DukHeap, FiniteSetTheorems, SequenceTheorems, TLAPS

-----------------------------------------------------------------------------
(* Counting references. *)

\* Slots of D that hold o in the slot assignment r.
Refs(r, D, o) == {s \in D : r[s] = o}

\* There are finitely many slots.
LEMMA SlotFinite == IsFiniteSet(Slot)
<1>1. IsFiniteSet(Obj \X Field)
  BY HeapAssumption, FS_Product
<1>2. IsFiniteSet(Reg \cup {FINARG})
  BY HeapAssumption, FS_AddElement
<1>3. IsFiniteSet({ROOT})
  BY FS_Singleton
<1>4. IsFiniteSet({ROOT} \X (Reg \cup {FINARG}))
  BY <1>2, <1>3, FS_Product
<1> QED
  BY <1>1, <1>4, FS_Union DEF Slot, RootSlot

\* So the slots holding an object can be counted.
LEMMA RefsFinite ==
  ASSUME NEW r, NEW D \in SUBSET Slot, NEW o
  PROVE  /\ IsFiniteSet(Refs(r, D, o))
         /\ Cardinality(Refs(r, D, o)) \in Nat
<1>1. Refs(r, D, o) \in SUBSET Slot
  BY DEF Refs
<1>2. IsFiniteSet(Refs(r, D, o))
  BY <1>1, SlotFinite, FS_Subset
<1> QED
  BY <1>2, FS_CardinalityType

\* Dropping the references held in D lowers the count by those in D.
LEMMA DropCount ==
  ASSUME NEW r \in [Slot -> Obj \cup {NULL}], NEW D \in SUBSET Slot, NEW o \in Obj,
         NEW q, q = [s \in Slot |-> IF s \in D THEN NULL ELSE r[s]]
  PROVE  Cardinality(Refs(q, Slot, o))
           = Cardinality(Refs(r, Slot, o)) - Cardinality(Refs(r, D, o))
<1>1. Refs(q, Slot, o) = Refs(r, Slot, o) \ Refs(r, D, o)
  BY HeapAssumption DEF Refs
<1>2. Refs(r, Slot, o) \cap Refs(r, D, o) = Refs(r, D, o)
  BY DEF Refs
<1>3. IsFiniteSet(Refs(r, Slot, o)) /\ IsFiniteSet(Refs(r, D, o))
  BY RefsFinite
<1> DEFINE A == Refs(r, Slot, o)
           B == Refs(r, D, o)
<1>4. IsFiniteSet(A) /\ IsFiniteSet(B) /\ A \cap B = B /\ Refs(q, Slot, o) = A \ B
  BY <1>1, <1>2, <1>3
<1> HIDE DEF A, B
<1>5. Cardinality(A \ B) = Cardinality(A) - Cardinality(A \cap B)
  BY <1>4, FS_Difference
<1>6. Cardinality(Refs(q, Slot, o)) = Cardinality(A) - Cardinality(B)
  BY <1>4, <1>5
<1> QED
  BY <1>6 DEF A, B

\* Storing v in slot t takes one reference from the old value and gives one to
\* v.
LEMMA StoreCount ==
  ASSUME NEW r \in [Slot -> Obj \cup {NULL}], NEW t \in Slot, NEW o \in Obj,
         NEW v \in Obj \cup {NULL}, v # r[t],
         NEW q, q[t] = v, \A s \in Slot \ {t} : q[s] = r[s]
  PROVE  Cardinality(Refs(q, Slot, o))
           = Cardinality(Refs(r, Slot, o)) + (IF o = v THEN 1 ELSE 0)
                                           - (IF o = r[t] THEN 1 ELSE 0)
<1>1. IsFiniteSet(Refs(r, Slot, o)) /\ Cardinality(Refs(r, Slot, o)) \in Nat
  BY RefsFinite
<1>2. CASE o = v
  <2>1. Refs(q, Slot, o) = Refs(r, Slot, o) \cup {t} /\ t \notin Refs(r, Slot, o)
    BY <1>2 DEF Refs
  <2>2. Cardinality(Refs(q, Slot, o)) = Cardinality(Refs(r, Slot, o)) + 1
    BY <1>1, <2>1, FS_AddElement
  <2> QED
    BY <1>1, <1>2, <2>2
<1>3. CASE o = r[t]
  <2>1. Refs(q, Slot, o) = Refs(r, Slot, o) \ {t} /\ t \in Refs(r, Slot, o)
    BY <1>3 DEF Refs
  <2>2. Cardinality(Refs(q, Slot, o)) = Cardinality(Refs(r, Slot, o)) - 1
    BY <1>1, <2>1, FS_RemoveElement
  <2> QED
    BY <1>1, <1>3, <2>2
<1>4. CASE o # v /\ o # r[t]
  <2>1. Refs(q, Slot, o) = Refs(r, Slot, o)
    BY <1>4 DEF Refs
  <2> QED
    BY <1>1, <1>4, <2>1
<1> QED
  BY <1>2, <1>3, <1>4

\* A single slot holds at most one reference.
LEMMA OneSlotCount ==
  ASSUME NEW r, NEW t \in Slot, NEW o
  PROVE  Cardinality(Refs(r, {t}, o)) = IF r[t] = o THEN 1 ELSE 0
<1>1. CASE r[t] = o
  <2>1. Refs(r, {t}, o) = {t}
    BY <1>1 DEF Refs
  <2> QED
    BY <1>1, <2>1, FS_Singleton
<1>2. CASE r[t] # o
  <2>1. Refs(r, {t}, o) = {}
    BY <1>2 DEF Refs
  <2> QED
    BY <1>2, <2>1, FS_EmptySet
<1> QED
  BY <1>1, <1>2

-----------------------------------------------------------------------------
(* The marking recursion. *)

\* Entering an object puts it on the recursion and nothing else.
LEMMA PushFacts ==
  ASSUME NEW st \in Seq(Obj), NEW o \in Obj
  PROVE  /\ <<o>> \o st \in Seq(Obj)
         /\ \A p : OnStack(<<o>> \o st, p) <=> p = o \/ OnStack(st, p)
<1>1. <<o>> \in Seq(Obj) /\ Len(<<o>>) = 1 /\ <<o>>[1] = o
  OBVIOUS
<1>2. /\ <<o>> \o st \in Seq(Obj)
      /\ Len(<<o>> \o st) = 1 + Len(st)
      /\ \A i \in 1..(1 + Len(st)) :
           (<<o>> \o st)[i] = IF i <= 1 THEN o ELSE st[i - 1]
  BY <1>1, ConcatProperties
<1>3. ASSUME NEW p PROVE OnStack(<<o>> \o st, p) <=> p = o \/ OnStack(st, p)
  <2>1. Len(st) \in Nat
    OBVIOUS
  <2>2. ASSUME OnStack(<<o>> \o st, p) PROVE p = o \/ OnStack(st, p)
    <3>1. PICK i \in 1..(1 + Len(st)) : (<<o>> \o st)[i] = p
      BY <1>2, <2>2 DEF OnStack
    <3>2. CASE i = 1
      BY <1>2, <2>1, <3>1, <3>2
    <3>3. CASE i # 1
      <4>1. i - 1 \in 1..Len(st) /\ st[i - 1] = p
        BY <1>2, <2>1, <3>1, <3>3
      <4> QED
        BY <4>1 DEF OnStack
    <3> QED
      BY <3>2, <3>3
  <2>3. ASSUME p = o PROVE OnStack(<<o>> \o st, p)
    <3>1. 1 \in 1..(1 + Len(st)) /\ (<<o>> \o st)[1] = p
      BY <1>2, <2>1, <2>3
    <3> QED
      BY <1>2, <3>1 DEF OnStack
  <2>4. ASSUME OnStack(st, p) PROVE OnStack(<<o>> \o st, p)
    <3>1. PICK i \in 1..Len(st) : st[i] = p
      BY <2>4 DEF OnStack
    <3>2. i + 1 \in 1..(1 + Len(st)) /\ (<<o>> \o st)[i + 1] = p
      BY <1>2, <2>1, <3>1
    <3> QED
      BY <1>2, <3>2 DEF OnStack
  <2> QED
    BY <2>2, <2>3, <2>4
<1> QED
  BY <1>2, <1>3

\* Leaving the innermost object takes at most that object off the recursion.
LEMMA PopFacts ==
  ASSUME NEW st \in Seq(Obj), st # <<>>
  PROVE  /\ Tail(st) \in Seq(Obj)
         /\ Head(st) \in Obj
         /\ OnStack(st, Head(st))
         /\ \A p : OnStack(Tail(st), p) => OnStack(st, p)
         /\ \A p : OnStack(st, p) => p = Head(st) \/ OnStack(Tail(st), p)
<1>1. /\ Head(st) \in Obj /\ Tail(st) \in Seq(Obj)
      /\ Len(Tail(st)) = Len(st) - 1
      /\ \A i \in 1..Len(Tail(st)) : Tail(st)[i] = st[i + 1]
  BY HeadTailProperties
<1>2. Len(st) \in Nat \ {0} /\ Head(st) = st[1]
  OBVIOUS
<1>3. OnStack(st, Head(st))
  BY <1>2 DEF OnStack
<1>4. ASSUME NEW p, OnStack(Tail(st), p) PROVE OnStack(st, p)
  <2>1. PICK i \in 1..(Len(st) - 1) : st[i + 1] = p
    BY <1>1, <1>2, <1>4 DEF OnStack
  <2>2. i + 1 \in 1..Len(st)
    BY <1>2, <2>1
  <2> QED
    BY <2>1, <2>2 DEF OnStack
<1>5. ASSUME NEW p, OnStack(st, p) PROVE p = Head(st) \/ OnStack(Tail(st), p)
  <2>1. PICK i \in 1..Len(st) : st[i] = p
    BY <1>5 DEF OnStack
  <2>2. CASE i = 1
    BY <1>2, <2>1, <2>2
  <2>3. CASE i # 1
    <3>1. i - 1 \in 1..Len(Tail(st)) /\ Tail(st)[i - 1] = p
      BY <1>1, <1>2, <2>1, <2>3
    <3> QED
      BY <3>1 DEF OnStack
  <2> QED
    BY <2>2, <2>3
<1> QED
  BY <1>1, <1>3, <1>4, <1>5

\* Nothing is on an empty recursion.
LEMMA EmptyStack == \A p : ~OnStack(<<>>, p)
  BY DEF OnStack

-----------------------------------------------------------------------------
(* Type correctness. *)

\* The operators that compute counts and slots return counts and slots.
LEMMA CountTypes ==
  ASSUME NEW c \in [Obj -> Int], NEW D, IsFiniteSet(D), TypeOK
  PROVE  /\ DropRc(c, D) \in [Obj -> Int]
         /\ DropRef(D) \in [Slot -> Obj \cup {NULL}]
         /\ \A F : Bumped(c, F) \in [Obj -> Int]
         /\ \A v \in Obj \cup {NULL} : IncRef(c, v) \in [Obj -> Int]
<1>1. \A o \in Obj : Cardinality(RefsIn(D, o)) \in Nat
  <2> TAKE o \in Obj
  <2>1. RefsIn(D, o) \in SUBSET D
    BY DEF RefsIn
  <2>2. IsFiniteSet(RefsIn(D, o))
    BY <2>1, FS_Subset
  <2> QED
    BY <2>2, FS_CardinalityType
<1>2. DropRc(c, D) \in [Obj -> Int]
  BY <1>1 DEF DropRc
<1>3. DropRef(D) \in [Slot -> Obj \cup {NULL}]
  BY DEF DropRef, TypeOK
<1>4. \A F : Bumped(c, F) \in [Obj -> Int]
  BY DEF Bumped
<1>5. \A v \in Obj \cup {NULL} : IncRef(c, v) \in [Obj -> Int]
  BY DEF IncRef
<1> QED
  BY <1>2, <1>3, <1>4, <1>5

\* The slots of an object, and those ordinary code writes, are slots.
LEMMA SlotFacts ==
  ASSUME TypeOK
  PROVE  /\ FinSlot \in Slot
         /\ RootSlot \subseteq Slot
         /\ \A o \in Obj : OwnSlots(o) \subseteq Slot
         /\ \A o \in Obj, f \in Field : <<o, f>> \in Slot
         /\ \A r \in Reg : <<ROOT, r>> \in RootSlot
         /\ InHand \subseteq Obj
         /\ Unreachable \X Field \subseteq Slot
         /\ IsFiniteSet(Unreachable \X Field)
         /\ \A o : IsFiniteSet(OwnSlots(o))
         /\ Writable \subseteq Slot
         /\ Readable \subseteq Obj \cup {NULL}
<1>1. FinSlot \in Slot /\ RootSlot \subseteq Slot
  BY DEF FinSlot, Slot, RootSlot
<1>2. /\ \A o \in Obj : OwnSlots(o) \subseteq Slot
      /\ \A o \in Obj, f \in Field : <<o, f>> \in Slot
      /\ \A r \in Reg : <<ROOT, r>> \in RootSlot
  BY DEF OwnSlots, Slot, RootSlot
<1>3. InHand \subseteq Obj
  BY <1>1 DEF InHand, TypeOK
<1>4. Unreachable \X Field \subseteq Slot
  BY DEF Unreachable, Slot, TypeOK
<1>5. Writable \subseteq Slot
  BY <1>3 DEF Writable, Slot, RootSlot
<1>6. Readable \subseteq Obj \cup {NULL}
  BY <1>1, <1>3 DEF Readable, Slot, TypeOK
<1>7. IsFiniteSet(Unreachable \X Field)
  BY <1>4, SlotFinite, FS_Subset
<1>8. \A o : IsFiniteSet(OwnSlots(o))
  BY HeapAssumption, FS_Singleton, FS_Product DEF OwnSlots
<1> QED
  BY <1>1, <1>2, <1>3, <1>4, <1>5, <1>6, <1>7, <1>8

\* Marking an object keeps the marking state well typed.
LEMMA MarkTypes ==
  ASSUME TypeOK, NEW o \in Obj, Mark(o)
  PROVE  /\ reachable' \subseteq Obj /\ temproot' \subseteq Obj
         /\ stack' \in Seq(Obj) /\ reclimit_reached' \in BOOLEAN
<1>1. /\ reachable \subseteq Obj /\ temproot \subseteq Obj
      /\ stack \in Seq(Obj) /\ reclimit_reached \in BOOLEAN
  BY DEF TypeOK
<1>2. /\ reachable' = reachable \cup {o}
      /\ temproot' = temproot \/ temproot' = temproot \cup {o}
  BY DEF Mark
<1>3. reachable' \subseteq Obj /\ temproot' \subseteq Obj
  BY <1>1, <1>2
<1>4. stack' \in Seq(Obj)
  BY <1>1, PushFacts DEF Mark
<1>5. reclimit_reached' \in BOOLEAN
  BY <1>1, Zenon DEF Mark
<1> QED
  BY <1>3, <1>4, <1>5

\* Every step of the heap keeps its state well typed.
LEMMA TypeStep == TypeOK /\ [Next]_vars => TypeOK'
<1> SUFFICES ASSUME TypeOK, [Next]_vars PROVE TypeOK'
  OBVIOUS
<1> USE HeapAssumption
<1>1. ASSUME NEW r \in Reg, Alloc(r) PROVE TypeOK'
  BY <1>1, SlotFacts DEF Alloc, TypeOK, flags, lists, marking
<1>2. ASSUME NEW s \in Slot, NEW v \in Obj \cup {NULL}, NEW n \in BOOLEAN,
             SetSlot(s, v, n)
      PROVE TypeOK'
  <2>1. IsFiniteSet({s}) /\ rc \in [Obj -> Int]
    BY FS_Singleton DEF TypeOK
  <2>2. DropRc(IncRef(rc, v), {s}) \in [Obj -> Int]
    BY <2>1, CountTypes
  <2>3. \A F : Bumped(DropRc(IncRef(rc, v), {s}), F) \in [Obj -> Int]
    BY <2>1, <2>2, CountTypes
  <2>4. Zeroed(IncRef(rc, v), {s}) \subseteq Obj
    BY DEF Zeroed
  <2> QED
    BY <1>2, <2>3, <2>4
    DEF SetSlot, AfterDecref, QueueZeroed, ToFree, ToFinalize, TypeOK, flags, lists, marking, Phase
<1>3. ASSUME NEW o \in Obj, SetFinalizer(o) PROVE TypeOK'
  BY <1>3 DEF SetFinalizer, TypeOK, flags, lists, marking
<1>4. ASSUME NEW o \in Obj, NEW r \in Reg, PushHeapptr(o, r) PROVE TypeOK'
  BY <1>4, SlotFacts DEF PushHeapptr, TypeOK, flags, lists, marking
<1>5. CASE RefzeroCheck
  BY <1>5 DEF RefzeroCheck, TypeOK, flags, lists, marking, Phase
<1>6. CASE PreventFinalizers
  BY <1>6 DEF PreventFinalizers, TypeOK, flags, lists, marking
<1>7. CASE AllowFinalizers
  BY <1>7 DEF AllowFinalizers, TypeOK, flags, lists, marking
<1>8. CASE DebugPause
  BY <1>8 DEF DebugPause, TypeOK, flags, lists, marking
<1>9. CASE DebugResume
  BY <1>9 DEF DebugResume, TypeOK, flags, lists, marking
<1>10. CASE FinalizerReturn
  <2>1. /\ ref' \in [Slot -> Obj \cup {NULL}]
        /\ rc' \in [Obj -> Int]
        /\ finalize_list' \subseteq Obj /\ heap_allocated' \subseteq Obj
    BY <1>10, SlotFacts DEF FinalizerReturn, TypeOK
  <2>2. finalized' \subseteq Obj
    BY <1>10 DEF FinalizerReturn, TypeOK
  <2>3. curr' \in Obj \cup {NULL} /\ phase' \in Phase /\ had_zero' \in BOOLEAN
    BY <1>10 DEF FinalizerReturn, TypeOK, Phase
  <2>4. UNCHANGED <<mem, hasFin, refzero_list, reachable, temproot, finalizable,
                    ms_running, pf_prevent_count, marking, after, paused, ran>>
    BY <1>10 DEF FinalizerReturn
  <2> QED
    BY <2>1, <2>2, <2>3, <2>4 DEF TypeOK, marking
<1>11. CASE MarkAndSweep
  BY <1>11 DEF MarkAndSweep, TypeOK, flags, lists, marking, Phase, MsPhase, MarkPhase
<1>12. CASE FreePending
  <2>1. PICK o \in refzero_list : FreePending!2!(o)
    BY <1>12 DEF FreePending
  <2>2. IsFiniteSet(OwnSlots(o)) /\ rc \in [Obj -> Int]
    BY SlotFacts DEF TypeOK
  <2>3. DropRc(rc, OwnSlots(o)) \in [Obj -> Int]
    BY <2>2, CountTypes
  <2>4. \A F : Bumped(DropRc(rc, OwnSlots(o)), F) \in [Obj -> Int]
    BY <2>2, <2>3, CountTypes
  <2>5. DropRef(OwnSlots(o)) \in [Slot -> Obj \cup {NULL}]
    BY <2>2, CountTypes
  <2>6. Zeroed(rc, OwnSlots(o)) \subseteq Obj
    BY DEF Zeroed
  <2> QED
    BY <1>12, <2>1, <2>4, <2>5, <2>6
    DEF FreePending, QueueZeroed, ToFree, ToFinalize, Freed, TypeOK, flags, lists,
        marking, Phase
<1>13. CASE PfEnter
  BY <1>13 DEF PfEnter, TypeOK, flags, lists, marking, Phase
<1>14. CASE PfRunFinalizer
  BY <1>14, SlotFacts DEF PfRunFinalizer, TypeOK, flags, lists, marking, Phase
<1>15. CASE PfFree
  <2> DEFINE D == OwnSlots(curr)
             c == [rc EXCEPT ![curr] = 0]
             Z == Zeroed(c, D)
  <2>0. IsFiniteSet(D)
    BY SlotFacts
  <2>01. c \in [Obj -> Int]
    <3>1. rc \in [Obj -> Int] /\ 0 \in Int
      BY DEF TypeOK
    <3> QED
      BY <3>1
  <2>1. IsFiniteSet(D) /\ c \in [Obj -> Int]
    BY <2>0, <2>01
  <2>2. DropRc(c, D) \in [Obj -> Int] /\ DropRef(D) \in [Slot -> Obj \cup {NULL}]
    BY <2>1, CountTypes
  <2>3. Bumped(DropRc(c, D), ToFinalize(Z)) \in [Obj -> Int]
    BY <2>1, <2>2, CountTypes
  <2>4. Z \subseteq Obj
    BY DEF Zeroed
  <2> HIDE DEF c, D, Z
  <2>5. /\ heap_allocated' = heap_allocated \ Z
        /\ finalize_list' = finalize_list \cup ToFinalize(Z)
        /\ finalizable' = finalizable \cup ToFinalize(Z)
        /\ rc' = Bumped(DropRc(c, D), ToFinalize(Z))
        /\ refzero_list' = ToFree(Z)
        /\ ref' = DropRef(D)
        /\ phase' \in {"free_pending", "pf"} /\ after' \in {"pf", after}
    BY <1>15 DEF PfFree, QueueZeroed, c, D, Z
  <2>6. /\ Freed({curr}) /\ curr' = NULL
        /\ UNCHANGED <<reachable, temproot, ms_running, pf_prevent_count, marking,
                       had_zero, paused>>
    BY <1>15 DEF PfFree
  <2>7. /\ heap_allocated' \subseteq Obj /\ finalize_list' \subseteq Obj
        /\ finalizable' \subseteq Obj /\ refzero_list' \subseteq Obj
        /\ finalized' \subseteq Obj /\ mem' \subseteq Obj
        /\ hasFin' \subseteq Obj /\ ran' \subseteq Obj
    BY <2>4, <2>5, <2>6 DEF ToFree, ToFinalize, Freed, TypeOK
  <2>8. phase' \in Phase /\ after' \in {"run", "pf_enter", "pf"}
    BY <2>5 DEF Phase, TypeOK
  <2> QED
    BY <2>2, <2>3, <2>5, <2>6, <2>7, <2>8 DEF TypeOK, marking
<1>16. CASE PfEnd
  BY <1>16 DEF PfEnd, TypeOK, flags, lists, marking, Phase
<1>17. CASE Marking
  <2> USE <1>17 DEF TypeOK, flags, lists, marking, unmarked, Phase, MsPhase, MarkPhase
  <2>1. ASSUME NEW o \in Obj, Mark(o)
        PROVE /\ reachable' \subseteq Obj /\ temproot' \subseteq Obj
              /\ stack' \in Seq(Obj) /\ reclimit_reached' \in BOOLEAN
    BY <2>1, MarkTypes
  <2>2. CASE MarkRoot
    <3>1. MarkRoots \subseteq Obj
      BY SlotFacts DEF MarkRoots
    <3>2. PICK o \in MarkRoots : Mark(o)
      BY <2>2 DEF MarkRoot
    <3>3. /\ reachable' \subseteq Obj /\ temproot' \subseteq Obj
          /\ stack' \in Seq(Obj) /\ reclimit_reached' \in BOOLEAN
      BY <2>1, <3>1, <3>2
    <3> QED
      BY <2>2, <3>3 DEF MarkRoot
  <2>3. CASE MarkChild
    <3>1. \A f \in Field : ref[<<Head(stack), f>>] \in Obj \cup {NULL}
      BY <2>3, SlotFacts DEF MarkChild
    <3> QED
      BY <2>1, <2>3, <3>1 DEF MarkChild
  <2>4. CASE MarkReturn
    BY <2>4, PopFacts DEF MarkReturn
  <2>5. CASE TemprootScan
    BY <2>5 DEF TemprootScan, TemprootLists
  <2>6. CASE HandleTemproot
    <3>1. PICK o \in scan : HandleTemproot!3!(o)
      BY <2>6 DEF HandleTemproot
    <3>2. scan' \subseteq Obj /\ temproot' \subseteq Obj
      BY <3>1
    <3>3. o \in Obj /\ <<o>> \in Seq(Obj)
      OBVIOUS
    <3>4. stack' \in Seq(Obj)
      BY <3>1, <3>3
    <3> QED
      BY <2>6, <3>2, <3>4 DEF HandleTemproot
  <2>7. CASE MarkPhaseDone
    BY <2>7 DEF MarkPhaseDone, NextMarkPhase, Finalizable
  <2> QED
    BY <2>2, <2>3, <2>4, <2>5, <2>6, <2>7 DEF Marking
<1>18. CASE FinalizeRefcounts
  <2>1. IsFiniteSet(Unreachable \X Field) /\ rc \in [Obj -> Int]
    BY SlotFacts DEF TypeOK
  <2>2. /\ DropRc(rc, Unreachable \X Field) \in [Obj -> Int]
        /\ DropRef(Unreachable \X Field) \in [Slot -> Obj \cup {NULL}]
    BY <2>1, CountTypes
  <2> QED
    BY <1>18, <2>2 DEF FinalizeRefcounts, TypeOK, flags, lists, marking, Phase, MsPhase
<1>19. CASE SweepHeap
  <2>1. \A F : Bumped(rc, F) \in [Obj -> Int]
    BY CountTypes, FS_EmptySet DEF TypeOK
  <2>2. /\ heap_allocated' \subseteq Obj /\ finalize_list' \subseteq Obj
        /\ finalized' \subseteq Obj /\ mem' \subseteq Obj
        /\ hasFin' \subseteq Obj /\ ran' \subseteq Obj
    BY <1>19 DEF SweepHeap, TypeOK
  <2>3. rc' \in [Obj -> Int] /\ reachable' = {} /\ ms_running' = 0
    BY <1>19, <2>1 DEF SweepHeap
  <2>4. phase' \in Phase /\ postpone_rescue' = FALSE
    BY <1>19 DEF SweepHeap, Phase
  <2>5. UNCHANGED <<ref, refzero_list, temproot, finalizable, pf_prevent_count,
                    reclimit_reached, stack, scan, after, curr, had_zero, paused>>
    BY <1>19 DEF SweepHeap
  <2>6. /\ postpone_rescue' \in BOOLEAN /\ reclimit_reached' \in BOOLEAN
        /\ had_zero' \in BOOLEAN
    BY <2>4, <2>5, Zenon DEF TypeOK
  <2> QED
    BY <2>2, <2>3, <2>4, <2>5, <2>6 DEF TypeOK
<1>20. CASE UNCHANGED vars
  BY <1>20 DEF vars, TypeOK, flags, lists, marking
<1> QED
  BY <1>1, <1>2, <1>3, <1>4, <1>5, <1>6, <1>7, <1>8, <1>9, <1>10, <1>11, <1>12,
     <1>13, <1>14, <1>15, <1>16, <1>17, <1>18, <1>19, <1>20
  DEF Next, Mutator, Engine

\* The empty heap is well typed.
LEMMA InitTypes == Init => TypeOK
<1> SUFFICES ASSUME Init PROVE TypeOK
  OBVIOUS
<1>1. stack \in Seq(Obj) /\ phase \in Phase
  BY DEF Init, Phase
<1>2. /\ postpone_rescue \in BOOLEAN /\ reclimit_reached \in BOOLEAN
      /\ had_zero \in BOOLEAN
  BY Zenon DEF Init
<1>3. ref \in [Slot -> Obj \cup {NULL}] /\ rc \in [Obj -> Int]
  BY DEF Init
<1>4. ms_running \in 0..2 /\ pf_prevent_count \in 0..(MaxPrevent + 1)
  BY HeapAssumption DEF Init
<1> QED
  BY <1>1, <1>2, <1>3, <1>4 DEF Init, TypeOK

\* Every variable of the heap keeps its type; in particular pf_prevent_count
\* never leaves its range.
THEOREM TypeCorrect == Spec => []TypeOK
  BY InitTypes, TypeStep, PTL DEF Spec

-----------------------------------------------------------------------------
(* The inductive invariant: what every action has in common. *)

\* RefsIn is Refs of the current slots.
LEMMA RefsInRefs == \A D, o : RefsIn(D, o) = Refs(ref, D, o)
  BY DEF RefsIn, Refs

\* An object with no references is in no slot, and the other way around.
LEMMA NoRefs ==
  ASSUME NEW r, NEW o
  PROVE  Cardinality(Refs(r, Slot, o)) = 0 <=> \A s \in Slot : r[s] # o
<1>1. IsFiniteSet(Refs(r, Slot, o))
  BY RefsFinite
<1>2. Cardinality(Refs(r, Slot, o)) = 0 <=> Refs(r, Slot, o) = {}
  BY <1>1, FS_EmptySet
<1> QED
  BY <1>2 DEF Refs

\* The references in D are some of all references, and all of them are positive
\* in number where there is one.
LEMMA SomeRefs ==
  ASSUME NEW r, NEW D \in SUBSET Slot, NEW o
  PROVE  /\ Cardinality(Refs(r, D, o)) <= Cardinality(Refs(r, Slot, o))
         /\ Refs(r, D, o) # {} => Cardinality(Refs(r, D, o)) > 0
         /\ Refs(r, D, o) = {} => Cardinality(Refs(r, D, o)) = 0
<1>1. Refs(r, D, o) \subseteq Refs(r, Slot, o)
  BY DEF Refs
<1>2. /\ IsFiniteSet(Refs(r, D, o)) /\ Cardinality(Refs(r, D, o)) \in Nat
      /\ IsFiniteSet(Refs(r, Slot, o))
  BY RefsFinite
<1>3. Cardinality(Refs(r, D, o)) <= Cardinality(Refs(r, Slot, o))
  BY <1>1, <1>2, FS_Subset
<1>4. Cardinality(Refs(r, D, o)) = 0 <=> Refs(r, D, o) = {}
  BY <1>2, FS_EmptySet
<1> QED
  BY <1>2, <1>3, <1>4

\* A step that moves no reference, count or object keeps the heap consistent.
LEMMA Frame ==
  ASSUME SafeHeap,
         UNCHANGED <<mem, ref, rc, heap_allocated, refzero_list, finalize_list, curr>>,
         refzero_list # {} => phase' = "free_pending",
         phase' = "pf_free" => phase = "pf_free"
  PROVE  /\ RefcountExact' /\ NoDangling' /\ ListsPartition' /\ RefzeroInline'
         /\ FreeCellsEmpty' /\ QueuedUnreferenced'
<1>1. RefcountExact' /\ NoDangling'
  BY DEF SafeHeap, RefcountExact, NoDangling, RefsIn, Bump
<1>2. ListsPartition' /\ RefzeroInline'
  BY DEF SafeHeap, ListsPartition, RefzeroInline
<1>3. FreeCellsEmpty' /\ QueuedUnreferenced'
  BY DEF SafeHeap, FreeCellsEmpty, QueuedUnreferenced
<1> QED
  BY <1>1, <1>2, <1>3

idle == <<reachable, temproot, stack, scan, reclimit_reached>>

\* Outside mark-and-sweep the marking state is empty.
LEMMA MarkIdle ==
  ASSUME SafeHeap, phase \notin MsPhase, phase' \notin MsPhase, UNCHANGED idle
  PROVE  MarkState'
<1>1. reachable = {} /\ temproot = {} /\ stack = <<>> /\ scan = {} /\ ~reclimit_reached
  BY DEF SafeHeap, MarkState
<1>2. reachable' = {} /\ temproot' = {} /\ stack' = <<>> /\ scan' = {}
        /\ ~reclimit_reached'
  BY <1>1 DEF idle
<1>3. \A o : ~Grey(o)'
  BY <1>2, EmptyStack DEF Grey
<1> QED
  BY <1>2, <1>3 DEF MarkState, MsPhase, MarkPhase

\* The phases a step starts from, in terms of MsPhase.
LEMMA PhaseFacts ==
  /\ "run" \notin MsPhase /\ "free_pending" \notin MsPhase
  /\ "pf_enter" \notin MsPhase /\ "pf" \notin MsPhase /\ "pf_free" \notin MsPhase
  /\ "run" # "pf_free" /\ "pf_enter" # "pf_free" /\ "pf" # "pf_free"
  /\ "run" # "free_pending" /\ "pf_enter" # "free_pending" /\ "pf" # "free_pending"
  BY DEF MsPhase, MarkPhase

\* Steps of ordinary code that move no reference.
LEMMA QuietSteps ==
  ASSUME SafeHeap, TypeOK',
         \/ \E o \in Obj : SetFinalizer(o)
         \/ RefzeroCheck \/ PreventFinalizers \/ AllowFinalizers
         \/ DebugPause \/ DebugResume \/ PfEnter \/ PfEnd
  PROVE  SafeHeap'
<1>1. /\ phase \in {"run", "pf_enter", "pf"} /\ phase' \in {"run", "pf_enter", "pf"}
      /\ UNCHANGED <<mem, ref, rc, heap_allocated, refzero_list, finalize_list, curr>>
      /\ UNCHANGED idle
  BY DEF SetFinalizer, RefzeroCheck, PreventFinalizers, AllowFinalizers, DebugPause,
         DebugResume, PfEnter, PfEnd, Running, lists, flags, marking, idle
<1>2. phase \notin MsPhase /\ phase' \notin MsPhase
  BY <1>1, PhaseFacts
<1>3. MarkState'
  BY <1>1, <1>2, MarkIdle
<1>4. refzero_list = {}
  BY <1>1 DEF SafeHeap, RefzeroInline
<1>5. /\ RefcountExact' /\ NoDangling' /\ ListsPartition' /\ RefzeroInline'
      /\ FreeCellsEmpty' /\ QueuedUnreferenced'
  BY <1>1, <1>4, Frame
<1>6. FinalizerContext'
  BY <1>1, HeapAssumption
  DEF SafeHeap, FinalizerContext, TypeOK, SetFinalizer, RefzeroCheck,
      PreventFinalizers, AllowFinalizers, DebugPause, DebugResume, PfEnter, PfEnd,
      Running, flags, lists, marking
<1> QED
  BY <1>3, <1>5, <1>6 DEF SafeHeap

-----------------------------------------------------------------------------
(* Steps that store one reference. *)

\* What the invariant says about the objects and slots a store deals with.
LEMMA HeapFacts ==
  ASSUME SafeHeap
  PROVE  /\ TypeOK
         /\ \A o \in mem : o \in Obj /\ o # NULL
         /\ curr # NULL => curr \in mem
         /\ finalize_list \subseteq mem /\ heap_allocated \subseteq mem
         /\ refzero_list \subseteq mem
         /\ \A o \in mem : rc[o] = Cardinality(Refs(ref, Slot, o)) + Bump(o)
         /\ \A o : Bump(o) \in {0, 1}
         /\ \A o : Cardinality(Refs(ref, Slot, o)) \in Nat
         /\ \A o \in Obj \ mem : Cardinality(Refs(ref, Slot, o)) = 0
         /\ \A o \in refzero_list : Cardinality(Refs(ref, Slot, o)) = 0
<1>1. TypeOK /\ mem \subseteq Obj /\ NULL \notin Obj
  BY HeapAssumption DEF SafeHeap, TypeOK
<1>2. /\ curr # NULL => curr \in mem
      /\ finalize_list \subseteq mem /\ heap_allocated \subseteq mem
      /\ refzero_list \subseteq mem
  BY DEF SafeHeap, ListsPartition
<1>3. \A o \in mem : rc[o] = Cardinality(Refs(ref, Slot, o)) + Bump(o)
  BY RefsInRefs DEF SafeHeap, RefcountExact
<1>4. \A o : Bump(o) \in {0, 1}
  BY DEF Bump
<1>5. \A o : Cardinality(Refs(ref, Slot, o)) \in Nat
  BY RefsFinite
<1>6. \A o \in Obj \ mem : Cardinality(Refs(ref, Slot, o)) = 0
  <2> TAKE o \in Obj \ mem
  <2>1. \A s \in Slot : ref[s] # o
    BY <1>1 DEF SafeHeap, NoDangling
  <2> QED
    BY <2>1, NoRefs
<1>7. \A o \in refzero_list : Cardinality(Refs(ref, Slot, o)) = 0
  <2> TAKE o \in refzero_list
  <2>1. rc[o] = 0 /\ o \in mem
    BY <1>2 DEF SafeHeap, QueuedUnreferenced
  <2> QED
    BY <1>3, <1>4, <1>5, <2>1
<1> QED
  BY <1>1, <1>2, <1>3, <1>4, <1>5, <1>6, <1>7

\* A reference stored in an empty slot, or the emptying of a slot.
LEMMA StoreExact ==
  ASSUME SafeHeap, NEW t \in Slot, NEW v \in Obj \cup {NULL}, v # ref[t],
         ref' = [ref EXCEPT ![t] = v]
  PROVE  \A o \in Obj :
           Cardinality(Refs(ref', Slot, o))
             = Cardinality(Refs(ref, Slot, o)) + (IF o = v THEN 1 ELSE 0)
                                               - (IF o = ref[t] THEN 1 ELSE 0)
<1>1. ref \in [Slot -> Obj \cup {NULL}]
  BY DEF SafeHeap, TypeOK
<1>2. ref'[t] = v /\ \A s \in Slot \ {t} : ref'[s] = ref[s]
  BY <1>1
<1>3. ASSUME NEW o \in Obj, NEW q, q[t] = v, \A s \in Slot \ {t} : q[s] = ref[s]
      PROVE  Cardinality(Refs(q, Slot, o))
               = Cardinality(Refs(ref, Slot, o)) + (IF o = v THEN 1 ELSE 0)
                                                 - (IF o = ref[t] THEN 1 ELSE 0)
  BY <1>1, <1>3, StoreCount
<1> QED
  BY <1>2, <1>3

\* The reference counts of r and q differ by one for v and one for w.
Moved(q, r, v, w) ==
  \A o \in Obj : Cardinality(Refs(q, Slot, o))
                  = Cardinality(Refs(r, Slot, o)) + (IF o = v THEN 1 ELSE 0)
                                                  - (IF o = w THEN 1 ELSE 0)

\* The same for a slot whose value is known, w before the store and v after it.
LEMMA StoreOver ==
  ASSUME SafeHeap, NEW t \in Slot, NEW v \in Obj \cup {NULL}, NEW w, ref[t] = w, v # w,
         ref'[t] = v, \A s \in Slot \ {t} : ref'[s] = ref[s]
  PROVE  Moved(ref', ref, v, w)
<1>1. ref \in [Slot -> Obj \cup {NULL}]
  BY DEF SafeHeap, TypeOK
<1>2. ASSUME NEW o \in Obj, NEW q, q[t] = v, \A s \in Slot \ {t} : q[s] = ref[s]
      PROVE  Cardinality(Refs(q, Slot, o))
               = Cardinality(Refs(ref, Slot, o)) + (IF o = v THEN 1 ELSE 0)
                                                 - (IF o = w THEN 1 ELSE 0)
  BY <1>1, <1>2, StoreCount
<1> QED
  BY <1>2 DEF Moved

\* RefcountExact in terms of Refs, after a step.
LEMMA ExactPrime ==
  ASSUME \A o \in mem' : rc'[o] = Cardinality(Refs(ref', Slot, o)) + Bump(o)'
  PROVE  RefcountExact'
<1>1. \A o : RefsIn(Slot, o)' = Refs(ref', Slot, o)
  BY DEF RefsIn, Refs, Slot, RootSlot
<1> QED
  BY <1>1 DEF RefcountExact, Slot, RootSlot

\* A new object starts with a count of one and one reference.
LEMMA AllocStep ==
  ASSUME SafeHeap, TypeOK', NEW r \in Reg, Alloc(r)
  PROVE  SafeHeap'
<1> USE HeapAssumption
<1>1. PICK o \in Obj \ mem :
        /\ mem' = mem \cup {o}
        /\ heap_allocated' = heap_allocated \cup {o}
        /\ ref' = [ref EXCEPT ![<<ROOT, r>>] = o]
        /\ rc' = [rc EXCEPT ![o] = 1]
  BY DEF Alloc
<1>2. /\ phase = "run" /\ phase' = "run" /\ ref[<<ROOT, r>>] = NULL
      /\ UNCHANGED <<refzero_list, finalize_list, finalizable, curr, after,
                     pf_prevent_count>>
      /\ UNCHANGED idle
  BY DEF Alloc, Running, flags, marking, idle
<1>3. <<ROOT, r>> \in Slot /\ <<ROOT, r>> # FinSlot
  BY DEF Slot, RootSlot, FinSlot
<1>4. TypeOK /\ refzero_list = {} /\ o # NULL
  BY <1>2 DEF SafeHeap, RefzeroInline
<1>5. RefcountExact'
  <2>1. \A p \in Obj : Cardinality(Refs(ref', Slot, p))
          = Cardinality(Refs(ref, Slot, p)) + (IF p = o THEN 1 ELSE 0)
                                            - (IF p = NULL THEN 1 ELSE 0)
    <3> DEFINE t == <<ROOT, r>>
    <3>1. t \in Slot /\ o \in Obj \cup {NULL} /\ ref[t] = NULL /\ o # NULL /\ ref' = [ref EXCEPT ![t] = o]
      BY <1>1, <1>2, <1>3, <1>4
    <3> HIDE DEF t
    <3>2. ref'[t] = o /\ \A s \in Slot \ {t} : ref'[s] = ref[s]
      BY <3>1 DEF SafeHeap, TypeOK
    <3>3. Moved(ref', ref, o, NULL)
      BY <3>1, <3>2, StoreOver
    <3> QED
      BY <3>3 DEF Moved
  <2>2. \A p : Bump(p)' = Bump(p)
    BY <1>2 DEF Bump
  <2>3. Bump(o) = 0 /\ Cardinality(Refs(ref, Slot, o)) = 0
    BY <1>4, HeapFacts DEF Bump
  <2>4. ASSUME NEW p \in mem' PROVE rc'[p] = Cardinality(Refs(ref', Slot, p)) + Bump(p)'
    <3>1. CASE p = o
      <4>1. rc'[o] = 1
        BY <1>1, <1>4 DEF TypeOK
      <4>2. Cardinality(Refs(ref', Slot, o)) = 1
        BY <1>4, <2>1, <2>3
      <4> QED
        BY <2>2, <2>3, <3>1, <4>1, <4>2
    <3>2. CASE p # o
      <4>1. p \in mem /\ p \in Obj /\ p # NULL
        BY <1>1, <3>2, HeapFacts
      <4>2. rc'[p] = rc[p]
        BY <1>1, <1>4, <3>2, <4>1 DEF TypeOK
      <4> QED
        BY <2>1, <2>2, <3>2, <4>1, <4>2, HeapFacts
    <3> QED
      BY <3>1, <3>2
  <2> QED
    BY <2>4, ExactPrime
<1>6. NoDangling'
  BY <1>1, <1>4 DEF SafeHeap, NoDangling, TypeOK, Slot, RootSlot
<1>7. ListsPartition' /\ RefzeroInline' /\ QueuedUnreferenced'
  BY <1>1, <1>2, <1>4, HeapFacts
  DEF SafeHeap, ListsPartition, RefzeroInline, QueuedUnreferenced
<1>8. FreeCellsEmpty'
  BY <1>1, <1>3, <1>4 DEF SafeHeap, FreeCellsEmpty, TypeOK, Slot
<1>9. FinalizerContext'
  <2>1. ref'[FinSlot] = ref[FinSlot]
    BY <1>1, <1>3, <1>4, SlotFacts DEF TypeOK
  <2> QED
    BY <1>2, <2>1 DEF SafeHeap, FinalizerContext
<1>10. MarkState'
  BY <1>2, PhaseFacts, MarkIdle
<1> QED
  BY <1>5, <1>6, <1>7, <1>8, <1>9, <1>10 DEF SafeHeap

\* duk_push_heapptr() trades the bump of a queued object for the pushed
\* reference.
LEMMA PushHeapptrStep ==
  ASSUME SafeHeap, TypeOK', NEW o \in Obj, NEW r \in Reg, PushHeapptr(o, r)
  PROVE  SafeHeap'
<1> USE HeapAssumption
<1>1. /\ o \in finalize_list /\ ref' = [ref EXCEPT ![<<ROOT, r>>] = o]
      /\ phase = "run" /\ phase' = "run" /\ ref[<<ROOT, r>>] = NULL
      /\ UNCHANGED <<mem, refzero_list, curr, after, pf_prevent_count>>
      /\ UNCHANGED idle
  BY DEF PushHeapptr, Running, flags, marking, idle
<1>2. \/ /\ o \in finalizable
         /\ finalizable' = finalizable \ {o}
         /\ finalize_list' = finalize_list \ {o}
         /\ heap_allocated' = heap_allocated \cup {o}
         /\ rc' = [rc EXCEPT ![o] = (@ - 1) + 1]
      \/ /\ o \notin finalizable
         /\ rc' = [rc EXCEPT ![o] = @ + 1]
         /\ UNCHANGED <<finalizable, finalize_list, heap_allocated>>
  BY DEF PushHeapptr
<1>3. <<ROOT, r>> \in Slot /\ <<ROOT, r>> # FinSlot
  BY DEF Slot, RootSlot, FinSlot
<1>4. TypeOK /\ refzero_list = {} /\ o # NULL /\ o \in mem
  BY <1>1, HeapFacts DEF SafeHeap, RefzeroInline
<1>5. o \in finalizable => o # curr
  BY DEF SafeHeap, FinalizerContext
<1>6. RefcountExact'
  <2>1. \A p \in Obj : Cardinality(Refs(ref', Slot, p))
          = Cardinality(Refs(ref, Slot, p)) + (IF p = o THEN 1 ELSE 0)
                                            - (IF p = NULL THEN 1 ELSE 0)
    <3> DEFINE t == <<ROOT, r>>
    <3>1. t \in Slot /\ o \in Obj \cup {NULL} /\ ref[t] = NULL /\ o # NULL /\ ref' = [ref EXCEPT ![t] = o]
      BY <1>1, <1>3, <1>4
    <3> HIDE DEF t
    <3>2. ref'[t] = o /\ \A s \in Slot \ {t} : ref'[s] = ref[s]
      BY <3>1 DEF SafeHeap, TypeOK
    <3>3. Moved(ref', ref, o, NULL)
      BY <3>1, <3>2, StoreOver
    <3> QED
      BY <3>3 DEF Moved
  <2>2. ASSUME NEW p \in mem' PROVE rc'[p] = Cardinality(Refs(ref', Slot, p)) + Bump(p)'
    <3>1. /\ p \in mem /\ p \in Obj /\ p # NULL
          /\ rc[p] = Cardinality(Refs(ref, Slot, p)) + Bump(p)
          /\ Cardinality(Refs(ref, Slot, p)) \in Nat
      BY <1>1, HeapFacts
    <3>2. CASE p # o
      <4>1. rc'[p] = rc[p]
        BY <1>2, <1>4, <3>1, <3>2 DEF TypeOK
      <4>2. Bump(p)' = Bump(p)
        BY <1>1, <1>2, <3>2 DEF Bump
      <4> QED
        BY <2>1, <3>1, <3>2, <4>1, <4>2
    <3>3. CASE p = o /\ o \in finalizable
      <4>1. rc'[o] = rc[o]
        BY <1>2, <1>4, <3>3 DEF TypeOK
      <4>2. Bump(o)' = 0 /\ Bump(o) = 1
        BY <1>1, <1>2, <1>5, <3>3 DEF Bump
      <4> QED
        BY <2>1, <3>1, <3>3, <4>1, <4>2
    <3>4. CASE p = o /\ o \notin finalizable
      <4>1. rc'[o] = rc[o] + 1
        BY <1>2, <1>4, <3>4 DEF TypeOK
      <4>2. Bump(o)' = 1 /\ Bump(o) = 1
        BY <1>1, <1>2, <3>4 DEF Bump
      <4> QED
        BY <2>1, <3>1, <3>4, <4>1, <4>2
    <3> QED
      BY <3>2, <3>3, <3>4
  <2> QED
    BY <2>2, ExactPrime
<1>7. NoDangling'
  BY <1>1, <1>4 DEF SafeHeap, NoDangling, TypeOK, Slot, RootSlot
<1>8. ListsPartition'
  BY <1>1, <1>2, <1>4, <1>5 DEF SafeHeap, ListsPartition
<1>9. RefzeroInline' /\ QueuedUnreferenced'
  BY <1>1, <1>4 DEF RefzeroInline, QueuedUnreferenced
<1>10. FreeCellsEmpty'
  BY <1>1, <1>3, <1>4 DEF SafeHeap, FreeCellsEmpty, TypeOK, Slot
<1>11. FinalizerContext'
  <2>1. ref'[FinSlot] = ref[FinSlot]
    BY <1>1, <1>3, <1>4, SlotFacts DEF TypeOK
  <2> QED
    BY <1>1, <1>2, <1>5, <2>1 DEF SafeHeap, FinalizerContext
<1>12. MarkState'
  BY <1>1, PhaseFacts, MarkIdle
<1> QED
  BY <1>6, <1>7, <1>8, <1>9, <1>10, <1>11, <1>12 DEF SafeHeap

\* The finalizer call adds the reference of its argument.
LEMMA PfRunFinalizerStep ==
  ASSUME SafeHeap, TypeOK', PfRunFinalizer
  PROVE  SafeHeap'
<1> USE HeapAssumption
<1>1. PICK o \in finalize_list :
        /\ curr' = o
        /\ finalizable' = finalizable \ {o}
        /\ ref' = [ref EXCEPT ![FinSlot] = o]
        /\ rc' = [rc EXCEPT ![o] = @ + 1]
  BY DEF PfRunFinalizer
<1>2. /\ phase = "pf" /\ phase' = "run"
      /\ UNCHANGED <<mem, heap_allocated, refzero_list, finalize_list, after,
                     pf_prevent_count>>
      /\ UNCHANGED idle
  BY DEF PfRunFinalizer, lists, marking, idle
<1>3. /\ TypeOK /\ refzero_list = {} /\ o # NULL /\ o \in mem /\ o \in Obj
      /\ FinSlot \in Slot /\ FinSlot \in RootSlot
  BY <1>1, <1>2, HeapFacts, SlotFacts DEF SafeHeap, RefzeroInline, FinSlot, RootSlot
<1>4. curr = NULL /\ ref[FinSlot] = NULL /\ pf_prevent_count # 0
  BY <1>2 DEF SafeHeap, FinalizerContext
<1>5. RefcountExact'
  <2>1. \A p \in Obj : Cardinality(Refs(ref', Slot, p))
          = Cardinality(Refs(ref, Slot, p)) + (IF p = o THEN 1 ELSE 0)
                                            - (IF p = NULL THEN 1 ELSE 0)
    <3> DEFINE t == FinSlot
    <3>1. t \in Slot /\ o \in Obj \cup {NULL} /\ ref[t] = NULL /\ o # NULL /\ ref' = [ref EXCEPT ![t] = o]
      BY <1>1, <1>3, <1>4
    <3> HIDE DEF t
    <3>2. ref'[t] = o /\ \A s \in Slot \ {t} : ref'[s] = ref[s]
      BY <3>1 DEF SafeHeap, TypeOK
    <3>3. Moved(ref', ref, o, NULL)
      BY <3>1, <3>2, StoreOver
    <3> QED
      BY <3>3 DEF Moved
  <2>2. ASSUME NEW p \in mem' PROVE rc'[p] = Cardinality(Refs(ref', Slot, p)) + Bump(p)'
    <3>1. /\ p \in mem /\ p \in Obj /\ p # NULL
          /\ rc[p] = Cardinality(Refs(ref, Slot, p)) + Bump(p)
          /\ Cardinality(Refs(ref, Slot, p)) \in Nat
      BY <1>2, HeapFacts
    <3>2. Bump(p)' = Bump(p)
      BY <1>1, <1>2, <1>4, <3>1 DEF Bump
    <3>3. rc'[p] = rc[p] + (IF p = o THEN 1 ELSE 0)
      BY <1>1, <1>3, <3>1 DEF TypeOK
    <3>4. Bump(p) \in {0, 1}
      BY DEF Bump
    <3> QED
      BY <2>1, <3>1, <3>2, <3>3, <3>4
  <2> QED
    BY <2>2, ExactPrime
<1>6. NoDangling'
  BY <1>1, <1>2, <1>3 DEF SafeHeap, NoDangling, TypeOK
<1>7. ListsPartition'
  BY <1>1, <1>2, <1>3, <1>4 DEF SafeHeap, ListsPartition
<1>8. RefzeroInline' /\ QueuedUnreferenced'
  BY <1>2, <1>3 DEF RefzeroInline, QueuedUnreferenced
<1>9. FreeCellsEmpty'
  <2>1. \A p \in Obj, f \in Field : <<p, f>> \in Slot /\ <<p, f>> # FinSlot
    BY DEF Slot, FinSlot
  <2> QED
    BY <1>1, <1>2, <1>3, <2>1 DEF SafeHeap, FreeCellsEmpty, TypeOK
<1>10. FinalizerContext'
  <2>1. ref'[FinSlot] = o
    BY <1>1, <1>3 DEF TypeOK
  <2>2. after' = "run"
    BY <1>2 DEF SafeHeap, FinalizerContext
  <2> QED
    BY <1>1, <1>2, <1>3, <1>4, <2>1, <2>2 DEF FinalizerContext
<1>11. MarkState'
  BY <1>2, PhaseFacts, MarkIdle
<1> QED
  BY <1>5, <1>6, <1>7, <1>8, <1>9, <1>10, <1>11 DEF SafeHeap

\* After a finalizer the object loses its argument reference, and its bump unless
\* it is freed next.
LEMMA FinalizerReturnStep ==
  ASSUME SafeHeap, TypeOK', FinalizerReturn
  PROVE  SafeHeap'
<1> USE HeapAssumption
<1>1. /\ phase = "run" /\ curr # NULL /\ pf_prevent_count = 1
      /\ ref' = [ref EXCEPT ![FinSlot] = NULL]
      /\ finalize_list' = finalize_list \ {curr}
      /\ UNCHANGED <<mem, refzero_list, finalizable, pf_prevent_count, after>>
      /\ UNCHANGED idle
  BY DEF FinalizerReturn, Running, marking, idle
<1>2. \/ /\ rc[curr] - 1 = 1
         /\ rc' = [rc EXCEPT ![curr] = @ - 1]
         /\ phase' = "pf_free"
         /\ UNCHANGED <<heap_allocated, curr>>
      \/ /\ rc' = [rc EXCEPT ![curr] = @ - 2]
         /\ heap_allocated' = heap_allocated \cup {curr}
         /\ curr' = NULL
         /\ phase' = "pf"
  BY DEF FinalizerReturn, OnlyBumpLeft
<1>3. /\ TypeOK /\ refzero_list = {} /\ curr \in mem /\ curr \in Obj
      /\ FinSlot \in Slot
  BY <1>1, HeapFacts, SlotFacts DEF SafeHeap, RefzeroInline
<1>4. /\ ref[FinSlot] = curr /\ curr \in finalize_list /\ curr \notin finalizable
      /\ after = "run"
  BY <1>1 DEF SafeHeap, FinalizerContext
<1>5. NULL \notin finalizable /\ NULL \in Obj \cup {NULL}
  BY <1>3 DEF TypeOK
<1>6. RefcountExact'
  <2>1. \A p \in Obj : Cardinality(Refs(ref', Slot, p))
          = Cardinality(Refs(ref, Slot, p)) + (IF p = NULL THEN 1 ELSE 0)
                                            - (IF p = curr THEN 1 ELSE 0)
    <3> DEFINE t == FinSlot
    <3>1. t \in Slot /\ NULL \in Obj \cup {NULL} /\ ref[t] = curr /\ NULL # curr /\ ref' = [ref EXCEPT ![t] = NULL]
      BY <1>1, <1>3, <1>4, <1>5
    <3> HIDE DEF t
    <3>2. ref'[t] = NULL /\ \A s \in Slot \ {t} : ref'[s] = ref[s]
      BY <3>1 DEF SafeHeap, TypeOK
    <3>3. Moved(ref', ref, NULL, curr)
      BY <3>1, <3>2, StoreOver
    <3> QED
      BY <3>3 DEF Moved
  <2>2. ASSUME NEW p \in mem' PROVE rc'[p] = Cardinality(Refs(ref', Slot, p)) + Bump(p)'
    <3>1. /\ p \in mem /\ p \in Obj /\ p # NULL
          /\ rc[p] = Cardinality(Refs(ref, Slot, p)) + Bump(p)
          /\ Cardinality(Refs(ref, Slot, p)) \in Nat
          /\ Bump(p) \in {0, 1}
      BY <1>1, HeapFacts
    <3>2. CASE p # curr
      <4>1. rc'[p] = rc[p]
        BY <1>2, <1>3, <3>1, <3>2 DEF TypeOK
      <4>2. Bump(p)' = Bump(p)
        BY <1>1, <1>2, <3>1, <3>2 DEF Bump
      <4> QED
        BY <2>1, <3>1, <3>2, <4>1, <4>2
    <3>3. CASE p = curr /\ phase' = "pf_free"
      <4>1. rc'[curr] = rc[curr] - 1
        BY <1>2, <1>3, <3>3 DEF TypeOK
      <4>2. Bump(curr) = 1 /\ Bump(p)' = 1
        BY <1>2, <3>3 DEF Bump
      <4> QED
        BY <2>1, <3>1, <3>3, <4>1, <4>2
    <3>4. CASE p = curr /\ phase' = "pf"
      <4>1. rc'[curr] = rc[curr] - 2
        BY <1>2, <1>3, <3>4 DEF TypeOK
      <4>2. Bump(curr) = 1 /\ Bump(p)' = 0
        BY <1>1, <1>2, <3>1, <3>4 DEF Bump
      <4> QED
        BY <2>1, <3>1, <3>4, <4>1, <4>2
    <3> QED
      BY <1>2, <3>2, <3>3, <3>4
  <2> QED
    BY <2>2, ExactPrime
<1>7. NoDangling'
  BY <1>1, <1>3 DEF SafeHeap, NoDangling, TypeOK
<1>8. ListsPartition'
  BY <1>1, <1>2, <1>3, <1>4 DEF SafeHeap, ListsPartition
<1>9. RefzeroInline' /\ QueuedUnreferenced'
  <2>1. phase' = "pf_free" => rc'[curr'] = 1
    BY <1>2, <1>3 DEF TypeOK
  <2> QED
    BY <1>1, <1>3, <2>1 DEF RefzeroInline, QueuedUnreferenced
<1>10. FreeCellsEmpty'
  <2>1. \A p \in Obj, f \in Field : <<p, f>> \in Slot
    BY DEF Slot
  <2> QED
    BY <1>1, <1>3, <2>1 DEF SafeHeap, FreeCellsEmpty, TypeOK
<1>11. FinalizerContext'
  <2>1. ref'[FinSlot] = NULL
    BY <1>1, <1>3 DEF TypeOK
  <2> QED
    BY <1>1, <1>2, <1>4, <1>5, <2>1 DEF FinalizerContext
<1>12. MarkState'
  <2>1. phase \notin MsPhase /\ phase' \notin MsPhase
    BY <1>1, <1>2, PhaseFacts
  <2> QED
    BY <1>1, <2>1, MarkIdle
<1> QED
  BY <1>6, <1>7, <1>8, <1>9, <1>10, <1>11, <1>12 DEF SafeHeap

-----------------------------------------------------------------------------
(* Steps that drop references and so may start a refzero cascade. *)

\* An object that comes to zero is on heap_allocated: the bump protects those
\* on finalize_list, and those on refzero_list have no reference left to drop.
LEMMA ZeroedAllocated ==
  ASSUME SafeHeap, NEW c \in [Obj -> Int], NEW D \in SUBSET Slot,
         \A o \in Obj : RefsIn(D, o) # {} => c[o] >= rc[o]
  PROVE  /\ Zeroed(c, D) \subseteq heap_allocated
         /\ Zeroed(c, D) \cap finalize_list = {}
         /\ Zeroed(c, D) \cap refzero_list = {}
         /\ curr \notin Zeroed(c, D)
<1> SUFFICES ASSUME NEW o \in Zeroed(c, D)
             PROVE  o \in heap_allocated /\ o \notin finalize_list /\ o \notin refzero_list
                      /\ o # curr
  OBVIOUS
<1>1. o \in Obj /\ RefsIn(D, o) # {} /\ DropRc(c, D)[o] = 0
  BY DEF Zeroed
<1>2. c[o] - Cardinality(Refs(ref, D, o)) = 0
  BY <1>1, RefsInRefs DEF DropRc
<1>3. /\ Cardinality(Refs(ref, D, o)) \in Nat
      /\ Cardinality(Refs(ref, D, o)) > 0
      /\ Cardinality(Refs(ref, D, o)) <= Cardinality(Refs(ref, Slot, o))
  BY <1>1, RefsInRefs, RefsFinite, SomeRefs
<1>4. o \in mem
  <2>1. PICK s \in Slot : ref[s] = o
    BY <1>1 DEF RefsIn
  <2> QED
    BY <1>1, <2>1, HeapAssumption DEF SafeHeap, NoDangling
<1>5. /\ rc[o] = Cardinality(Refs(ref, Slot, o)) + Bump(o) /\ Bump(o) \in {0, 1}
      /\ Cardinality(Refs(ref, Slot, o)) \in Nat /\ c[o] \in Int
      /\ o \in refzero_list => Cardinality(Refs(ref, Slot, o)) = 0
  BY <1>1, <1>4, HeapFacts
<1>6. Bump(o) = 0
  BY <1>1, <1>2, <1>3, <1>5
<1>7. o \notin finalize_list /\ o # curr
  BY <1>6 DEF Bump
<1>8. o \notin refzero_list
  BY <1>3, <1>5
<1> QED
  BY <1>4, <1>7, <1>8 DEF SafeHeap, ListsPartition

\* What queueing the zeroed objects does to counts.
LEMMA QueuedCounts ==
  ASSUME NEW c \in [Obj -> Int], NEW D \in SUBSET Slot, NEW Z,
         QueueZeroed(Z, DropRc(c, D))
  PROVE  \A o \in Obj : rc'[o] = c[o] - Cardinality(Refs(ref, D, o))
                                   + (IF o \in ToFinalize(Z) THEN 1 ELSE 0)
<1> TAKE o \in Obj
<1>1. DropRc(c, D)[o] = c[o] - Cardinality(Refs(ref, D, o))
  BY RefsInRefs DEF DropRc
<1>2. rc'[o] = IF o \in ToFinalize(Z) THEN DropRc(c, D)[o] + 1 ELSE DropRc(c, D)[o]
  BY DEF QueueZeroed, Bumped
<1>3. c[o] \in Int /\ Cardinality(Refs(ref, D, o)) \in Nat
  BY RefsFinite
<1> QED
  BY <1>1, <1>2, <1>3

\* Of the zeroed objects, those freed are left with a zero count.
LEMMA FreedZero ==
  ASSUME NEW c \in [Obj -> Int], NEW D \in SUBSET Slot,
         QueueZeroed(Zeroed(c, D), DropRc(c, D))
  PROVE  \A o \in ToFree(Zeroed(c, D)) : rc'[o] = 0
<1> TAKE o \in ToFree(Zeroed(c, D))
<1>1. o \in Obj /\ DropRc(c, D)[o] = 0 /\ o \notin ToFinalize(Zeroed(c, D))
  BY DEF ToFree, Zeroed
<1> QED
  BY <1>1 DEF QueueZeroed, Bumped

\* A store moves one reference and queues the old value if that was its last.
LEMMA SetSlotStep ==
  ASSUME SafeHeap, TypeOK', NEW s \in Slot, NEW v \in Obj \cup {NULL},
         NEW norz \in BOOLEAN, SetSlot(s, v, norz)
  PROVE  SafeHeap'
<1> USE HeapAssumption
<1> DEFINE c == IncRef(rc, v)
           Z == Zeroed(c, {s})
<1>1. /\ phase = "run" /\ s \in Writable /\ v \in Readable \cup {NULL} /\ v # ref[s]
      /\ QueueZeroed(Z, DropRc(c, {s}))
      /\ refzero_list' = ToFree(Z)
      /\ phase' = AfterDecref(Z, norz)
      /\ after' = IF ToFree(Z) # {} /\ ~norz THEN "pf_enter" ELSE "run"
      /\ ref' = [ref EXCEPT ![s] = v]
      /\ UNCHANGED <<mem, pf_prevent_count, curr>>
      /\ UNCHANGED idle
  BY DEF SetSlot, Running, marking, idle
<1>2. TypeOK /\ rc \in [Obj -> Int] /\ refzero_list = {}
  BY <1>1 DEF SafeHeap, TypeOK, RefzeroInline
<1>3. c \in [Obj -> Int] /\ \A o \in Obj : c[o] = rc[o] + (IF o = v THEN 1 ELSE 0)
  BY <1>2 DEF IncRef
<1>4. {s} \in SUBSET Slot /\ \A o \in Obj : c[o] >= rc[o]
  BY <1>2, <1>3
<1>5. /\ Z \subseteq heap_allocated /\ Z \cap finalize_list = {}
      /\ Z \cap refzero_list = {} /\ curr \notin Z
  BY <1>3, <1>4, ZeroedAllocated
<1>6. \A o \in Obj : rc'[o] = c[o] - Cardinality(Refs(ref, {s}, o))
                                + (IF o \in ToFinalize(Z) THEN 1 ELSE 0)
  BY <1>1, <1>3, <1>4, QueuedCounts
<1>7. \A o \in ToFree(Z) : rc'[o] = 0
  BY <1>1, <1>3, <1>4, FreedZero
<1> HIDE DEF c, Z
<1>8. /\ heap_allocated' = heap_allocated \ Z
      /\ finalize_list' = finalize_list \cup ToFinalize(Z)
      /\ finalizable' = finalizable \cup ToFinalize(Z)
      /\ ToFinalize(Z) \subseteq Z /\ ToFree(Z) = Z \ ToFinalize(Z)
  BY <1>1 DEF QueueZeroed, ToFinalize, ToFree
<1>9. /\ phase' \in {"run", "pf_enter", "free_pending"}
      /\ ToFree(Z) # {} => phase' = "free_pending"
      /\ phase' # "free_pending" => after' = "run"
      /\ after' # "pf"
  <2>0. after' = "run" \/ after' = "pf_enter"
    BY <1>1
  <2>1. CASE ToFree(Z) # {}
    <3>1. AfterDecref(Z, norz) = "free_pending"
      BY <2>1 DEF AfterDecref
    <3> QED
      BY <1>1, <2>0, <3>1
  <2>2. CASE ToFree(Z) = {}
    <3>1. after' = "run"
      BY <1>1, <2>2
    <3>2. phase' = "run" \/ phase' = "pf_enter"
      BY <1>1, <2>2 DEF AfterDecref
    <3> QED
      BY <2>2, <3>1, <3>2
  <2> QED
    BY <2>1, <2>2
<1>10. RefcountExact'
  <2>1. \A p \in Obj : Cardinality(Refs(ref', Slot, p))
          = Cardinality(Refs(ref, Slot, p)) + (IF p = v THEN 1 ELSE 0)
                                            - (IF p = ref[s] THEN 1 ELSE 0)
    BY <1>1, StoreExact
  <2>2. \A p : Cardinality(Refs(ref, {s}, p)) = IF ref[s] = p THEN 1 ELSE 0
    BY OneSlotCount
  <2>3. ASSUME NEW p \in mem' PROVE rc'[p] = Cardinality(Refs(ref', Slot, p)) + Bump(p)'
    <3>1. /\ p \in mem /\ p \in Obj
          /\ rc[p] = Cardinality(Refs(ref, Slot, p)) + Bump(p)
          /\ Cardinality(Refs(ref, Slot, p)) \in Nat
          /\ Bump(p) \in {0, 1}
      BY <1>1, HeapFacts
    <3>2. Bump(p)' = Bump(p) + (IF p \in ToFinalize(Z) THEN 1 ELSE 0)
      BY <1>1, <1>5, <1>8 DEF Bump
    <3>3. rc'[p] = rc[p] + (IF p = v THEN 1 ELSE 0) - (IF ref[s] = p THEN 1 ELSE 0)
                     + (IF p \in ToFinalize(Z) THEN 1 ELSE 0)
      <4>1. c[p] = rc[p] + (IF p = v THEN 1 ELSE 0) /\ rc[p] \in Int
        BY <1>2, <1>3, <3>1
      <4>2. rc'[p] = c[p] - Cardinality(Refs(ref, {s}, p))
                       + (IF p \in ToFinalize(Z) THEN 1 ELSE 0)
        BY <1>6, <3>1
      <4>3. Cardinality(Refs(ref, {s}, p)) = IF ref[s] = p THEN 1 ELSE 0
        BY <2>2
      <4> QED
        BY <4>1, <4>2, <4>3
    <3> QED
      BY <2>1, <3>1, <3>2, <3>3
  <2> QED
    BY <2>3, ExactPrime
<1>11. Readable \subseteq mem \cup {NULL}
  <2>1. RootSlot \subseteq Slot /\ InHand \X Field \subseteq Slot
    BY <1>2, SlotFacts DEF Slot
  <2> QED
    BY <2>1 DEF SafeHeap, NoDangling, Readable
<1>12. NoDangling'
  BY <1>1, <1>2, <1>11 DEF SafeHeap, NoDangling, TypeOK, Slot, RootSlot
<1>13. ListsPartition'
  BY <1>1, <1>2, <1>5, <1>8, <1>9 DEF SafeHeap, ListsPartition
<1>14. RefzeroInline' /\ QueuedUnreferenced'
  BY <1>1, <1>7, <1>9 DEF RefzeroInline, QueuedUnreferenced
<1>15. FreeCellsEmpty'
  <2>1. ASSUME NEW o \in Obj \ mem, NEW f \in Field PROVE s # <<o, f>>
    <3>1. InHand \subseteq mem
      <4>1. RootSlot \subseteq Slot
        BY <1>2, SlotFacts
      <4> QED
        BY <4>1 DEF InHand, SafeHeap, NoDangling
    <3> QED
      BY <1>1, <3>1 DEF Writable
  <2>2. \A o \in Obj, f \in Field : <<o, f>> \in Slot
    BY DEF Slot
  <2> QED
    BY <1>1, <1>2, <2>1, <2>2 DEF SafeHeap, FreeCellsEmpty, TypeOK
<1>16. FinalizerContext'
  <2>1. s # FinSlot /\ FinSlot \in Slot
    <3>1. InHand \subseteq Obj /\ FinSlot \in Slot
      BY <1>2, SlotFacts
    <3> QED
      BY <1>1, <3>1 DEF Writable, FinSlot
  <2>2. ref'[FinSlot] = ref[FinSlot]
    BY <1>1, <1>2, <2>1 DEF TypeOK
  <2>3. curr \notin finalizable'
    BY <1>5, <1>8 DEF SafeHeap, FinalizerContext
  <2>4. curr # NULL => curr \in finalize_list'
    BY <1>1, <1>8 DEF SafeHeap, FinalizerContext
  <2> QED
    BY <1>1, <1>9, <2>2, <2>3, <2>4 DEF SafeHeap, FinalizerContext
<1>17. MarkState'
  <2>1. phase \notin MsPhase /\ phase' \notin MsPhase
    BY <1>1, <1>9, PhaseFacts
  <2> QED
    BY <1>1, <2>1, MarkIdle
<1> QED
  BY <1>10, <1>12, <1>13, <1>14, <1>15, <1>16, <1>17 DEF SafeHeap

\* Dropping the references of one object: what its slots and counts become.
LEMMA DropFacts ==
  ASSUME SafeHeap, NEW D \in SUBSET Slot, ref' = DropRef(D)
  PROVE  /\ \A s \in D : ref'[s] = NULL
         /\ \A s \in Slot : ref'[s] = ref[s] \/ ref'[s] = NULL
         /\ \A s \in Slot \ D : ref'[s] = ref[s]
         /\ \A o \in Obj : Cardinality(Refs(ref', Slot, o))
              = Cardinality(Refs(ref, Slot, o)) - Cardinality(Refs(ref, D, o))
<1>1. ref' = [s \in Slot |-> IF s \in D THEN NULL ELSE ref[s]]
  BY DEF DropRef
<1>2. ref \in [Slot -> Obj \cup {NULL}]
  BY DEF SafeHeap, TypeOK
<1>3. ASSUME NEW o \in Obj, NEW q, q = [s \in Slot |-> IF s \in D THEN NULL ELSE ref[s]]
      PROVE  Cardinality(Refs(q, Slot, o))
               = Cardinality(Refs(ref, Slot, o)) - Cardinality(Refs(ref, D, o))
  BY <1>2, <1>3, DropCount
<1>4. \A o \in Obj : Cardinality(Refs(ref', Slot, o))
        = Cardinality(Refs(ref, Slot, o)) - Cardinality(Refs(ref, D, o))
  BY <1>1, <1>3
<1> QED
  BY <1>1, <1>4

\* One round of a refzero cascade frees an object nothing refers to.
LEMMA FreePendingStep ==
  ASSUME SafeHeap, TypeOK', FreePending
  PROVE  SafeHeap'
<1> USE HeapAssumption
<1>1. PICK o \in refzero_list : FreePending!2!(o)
  BY DEF FreePending
<1> DEFINE D == OwnSlots(o)
           Z == Zeroed(rc, D)
<1>2. /\ QueueZeroed(Z, DropRc(rc, D))
      /\ refzero_list' = (refzero_list \cup ToFree(Z)) \ {o}
      /\ ref' = DropRef(D)
      /\ mem' = mem \ {o}
      /\ \/ refzero_list' = {} /\ phase' = after /\ after' = "run"
         \/ refzero_list' # {} /\ phase' = phase /\ after' = after
  BY <1>1 DEF Freed
<1>3. /\ phase = "free_pending"
      /\ UNCHANGED <<pf_prevent_count, curr>>
      /\ UNCHANGED idle
  BY DEF FreePending, marking, idle
<1>4. TypeOK /\ rc \in [Obj -> Int] /\ o \in mem /\ o \in Obj /\ D \in SUBSET Slot
  BY <1>1, HeapFacts, SlotFacts DEF TypeOK
<1>5. \A p \in Obj : RefsIn(D, p) # {} => rc[p] >= rc[p]
  BY <1>4
<1>6. /\ Z \subseteq heap_allocated /\ Z \cap finalize_list = {}
      /\ Z \cap refzero_list = {} /\ curr \notin Z
  BY <1>4, <1>5, ZeroedAllocated
<1>7. \A p \in Obj : rc'[p] = rc[p] - Cardinality(Refs(ref, D, p))
                                + (IF p \in ToFinalize(Z) THEN 1 ELSE 0)
  BY <1>2, <1>4, QueuedCounts
<1>8. \A p \in ToFree(Z) : rc'[p] = 0
  BY <1>2, <1>4, FreedZero
<1>9. /\ \A s \in D : ref'[s] = NULL
      /\ \A s \in Slot : ref'[s] = ref[s] \/ ref'[s] = NULL
      /\ \A s \in Slot \ D : ref'[s] = ref[s]
      /\ \A p \in Obj : Cardinality(Refs(ref', Slot, p))
           = Cardinality(Refs(ref, Slot, p)) - Cardinality(Refs(ref, D, p))
  BY <1>2, <1>4, DropFacts
<1> HIDE DEF Z
<1>10. /\ heap_allocated' = heap_allocated \ Z
       /\ finalize_list' = finalize_list \cup ToFinalize(Z)
       /\ finalizable' = finalizable \cup ToFinalize(Z)
       /\ ToFinalize(Z) \subseteq Z /\ ToFree(Z) = Z \ ToFinalize(Z)
  BY <1>2 DEF QueueZeroed, ToFinalize, ToFree
<1>11. /\ o \notin finalize_list /\ o \notin heap_allocated /\ o # curr
       /\ curr # NULL => curr \in finalize_list
  <2>1. curr # NULL => curr \in finalize_list
    BY <1>3 DEF SafeHeap, FinalizerContext
  <2>2. o \notin finalize_list /\ o \notin heap_allocated
    BY <1>1 DEF SafeHeap, ListsPartition
  <2> QED
    BY <1>4, <2>1, <2>2
<1>12. RefcountExact'
  <2>1. ASSUME NEW p \in mem' PROVE rc'[p] = Cardinality(Refs(ref', Slot, p)) + Bump(p)'
    <3>1. /\ p \in mem /\ p \in Obj
          /\ rc[p] = Cardinality(Refs(ref, Slot, p)) + Bump(p)
          /\ Cardinality(Refs(ref, Slot, p)) \in Nat
          /\ Bump(p) \in {0, 1}
      BY <1>2, HeapFacts
    <3>2. Bump(p)' = Bump(p) + (IF p \in ToFinalize(Z) THEN 1 ELSE 0)
      BY <1>3, <1>6, <1>10 DEF Bump
    <3>3. Cardinality(Refs(ref, D, p)) \in Nat
      BY <1>4, RefsFinite
    <3>4. rc'[p] = rc[p] - Cardinality(Refs(ref, D, p))
                     + (IF p \in ToFinalize(Z) THEN 1 ELSE 0)
      BY <1>7, <3>1
    <3>5. Cardinality(Refs(ref', Slot, p))
            = Cardinality(Refs(ref, Slot, p)) - Cardinality(Refs(ref, D, p))
      BY <1>9, <3>1
    <3> QED
      BY <3>1, <3>2, <3>3, <3>4, <3>5
  <2> QED
    BY <2>1, ExactPrime
<1>13. \A p \in refzero_list, s \in Slot : ref[s] # p
  BY HeapFacts, NoRefs
<1>14. NoDangling'
  <2>1. \A s \in Slot : ref'[s] \in mem' \cup {NULL}
    BY <1>1, <1>2, <1>9, <1>13 DEF SafeHeap, NoDangling
  <2> QED
    BY <2>1 DEF NoDangling, Slot, RootSlot
<1>15. /\ after \in {"run", "pf_enter", "pf"}
       /\ phase' = "free_pending" \/ phase' = after
       /\ phase' # "pf_free"
  BY <1>2, <1>3, <1>4, PhaseFacts DEF TypeOK
<1>16. ListsPartition'
  BY <1>1, <1>2, <1>3, <1>6, <1>10, <1>11, <1>15 DEF SafeHeap, ListsPartition
<1>17. RefzeroInline' /\ QueuedUnreferenced'
  <2>1. ASSUME NEW p \in refzero_list' PROVE rc'[p] = 0
    <3>1. CASE p \in ToFree(Z)
      BY <1>8, <3>1
    <3>2. CASE p \in refzero_list
      <4>1. p \in Obj /\ rc[p] = 0
        BY <1>4, <3>2 DEF SafeHeap, QueuedUnreferenced, TypeOK
      <4>2. Refs(ref, D, p) = {}
        BY <1>4, <1>13, <3>2 DEF Refs
      <4>3. Cardinality(Refs(ref, D, p)) = 0
        BY <1>4, <4>2, SomeRefs
      <4>4. p \notin ToFinalize(Z)
        BY <1>6, <1>10, <3>2
      <4> QED
        BY <1>7, <4>1, <4>3, <4>4
    <3> QED
      BY <1>2, <3>1, <3>2
  <2> QED
    BY <1>2, <1>3, <1>15, <2>1 DEF RefzeroInline, QueuedUnreferenced
<1>18. FreeCellsEmpty'
  <2>1. \A p \in Obj, f \in Field : <<p, f>> \in Slot /\ (p = o => <<p, f>> \in D)
    BY DEF Slot, OwnSlots
  <2> QED
    BY <1>2, <1>9, <2>1 DEF SafeHeap, FreeCellsEmpty
<1>19. FinalizerContext'
  <2>1. FinSlot \in Slot \ D
    BY <1>4, SlotFacts DEF OwnSlots, FinSlot
  <2>2. ref'[FinSlot] = curr
    BY <1>3, <1>9, <2>1 DEF SafeHeap, FinalizerContext
  <2>3. curr \notin finalizable'
    BY <1>6, <1>10 DEF SafeHeap, FinalizerContext
  <2>4. curr # NULL => curr \in finalize_list' /\ after # "pf"
    BY <1>10, <1>11 DEF SafeHeap, FinalizerContext
  <2>5. curr # NULL \/ after = "pf" => pf_prevent_count # 0
    BY DEF SafeHeap, FinalizerContext
  <2> QED
    BY <1>2, <1>3, <1>15, <2>2, <2>3, <2>4, <2>5 DEF FinalizerContext
<1>20. MarkState'
  <2>1. phase \notin MsPhase /\ phase' \notin MsPhase
    BY <1>3, <1>15, PhaseFacts
  <2> QED
    BY <1>3, <2>1, MarkIdle
<1> QED
  BY <1>12, <1>14, <1>16, <1>17, <1>18, <1>19, <1>20 DEF SafeHeap

\* A finalized object that is freed has only its bump left.
LEMMA PfFreeStep ==
  ASSUME SafeHeap, TypeOK', PfFree
  PROVE  SafeHeap'
<1> USE HeapAssumption
<1> DEFINE D == OwnSlots(curr)
           c == [rc EXCEPT ![curr] = 0]
           Z == Zeroed(c, D)
<1>1. /\ QueueZeroed(Z, DropRc(c, D))
      /\ refzero_list' = ToFree(Z)
      /\ ref' = DropRef(D)
      /\ mem' = mem \ {curr}
      /\ \/ ToFree(Z) # {} /\ phase' = "free_pending" /\ after' = "pf"
         \/ ToFree(Z) = {} /\ phase' = "pf" /\ after' = after
  BY DEF PfFree, Freed
<1>2. /\ phase = "pf_free" /\ curr' = NULL
      /\ UNCHANGED <<pf_prevent_count>>
      /\ UNCHANGED idle
  BY DEF PfFree, marking, idle
<1>3. /\ curr # NULL /\ curr \notin finalize_list /\ pf_prevent_count # 0
      /\ after = "run" /\ ref[FinSlot] = NULL /\ curr \notin finalizable
  BY <1>2 DEF SafeHeap, FinalizerContext
<1>4. TypeOK /\ curr \in mem /\ curr \in Obj /\ D \in SUBSET Slot /\ refzero_list = {}
  <2>1. TypeOK /\ curr \in mem /\ curr \in Obj
    BY <1>3, HeapFacts
  <2>2. refzero_list = {}
    BY <1>2 DEF SafeHeap, RefzeroInline
  <2> QED
    BY <2>1, <2>2, SlotFacts
<1>5. Cardinality(Refs(ref, Slot, curr)) = 0
  <2>1. rc[curr] = 1 /\ Bump(curr) = 1
    BY <1>2 DEF SafeHeap, QueuedUnreferenced, Bump
  <2> QED
    BY <1>4, <2>1, HeapFacts
<1>6. \A s \in Slot : ref[s] # curr
  BY <1>5, NoRefs
<1>7. /\ c \in [Obj -> Int] /\ \A p \in Obj \ {curr} : c[p] = rc[p]
      /\ \A p \in Obj : rc[p] \in Int
  BY <1>4 DEF TypeOK
<1>8. \A p \in Obj : RefsIn(D, p) # {} => c[p] >= rc[p]
  <2>1. RefsIn(D, curr) = {}
    BY <1>4, <1>6 DEF RefsIn
  <2> QED
    BY <1>7, <2>1
<1>9. /\ Z \subseteq heap_allocated /\ Z \cap finalize_list = {}
      /\ Z \cap refzero_list = {} /\ curr \notin Z
  BY <1>4, <1>7, <1>8, ZeroedAllocated
<1>10. \A p \in Obj : rc'[p] = c[p] - Cardinality(Refs(ref, D, p))
                                + (IF p \in ToFinalize(Z) THEN 1 ELSE 0)
  BY <1>1, <1>4, <1>7, QueuedCounts
<1>11. \A p \in ToFree(Z) : rc'[p] = 0
  BY <1>1, <1>4, <1>7, FreedZero
<1>12. /\ \A s \in D : ref'[s] = NULL
       /\ \A s \in Slot : ref'[s] = ref[s] \/ ref'[s] = NULL
       /\ \A s \in Slot \ D : ref'[s] = ref[s]
       /\ \A p \in Obj : Cardinality(Refs(ref', Slot, p))
            = Cardinality(Refs(ref, Slot, p)) - Cardinality(Refs(ref, D, p))
  BY <1>1, <1>4, DropFacts
<1> HIDE DEF c, Z
<1>13. /\ heap_allocated' = heap_allocated \ Z
       /\ finalize_list' = finalize_list \cup ToFinalize(Z)
       /\ finalizable' = finalizable \cup ToFinalize(Z)
       /\ ToFinalize(Z) \subseteq Z /\ ToFree(Z) = Z \ ToFinalize(Z)
       /\ NULL \notin finalizable'
  <2>1. NULL \notin finalizable /\ NULL \notin heap_allocated
    BY <1>4 DEF TypeOK
  <2>2. /\ heap_allocated' = heap_allocated \ Z
        /\ finalize_list' = finalize_list \cup ToFinalize(Z)
        /\ finalizable' = finalizable \cup ToFinalize(Z)
        /\ ToFinalize(Z) \subseteq Z /\ ToFree(Z) = Z \ ToFinalize(Z)
    BY <1>1 DEF QueueZeroed, ToFinalize, ToFree
  <2> QED
    BY <1>9, <2>1, <2>2
<1>14. RefcountExact'
  <2>1. ASSUME NEW p \in mem' PROVE rc'[p] = Cardinality(Refs(ref', Slot, p)) + Bump(p)'
    <3>1. /\ p \in mem /\ p \in Obj /\ p # NULL /\ p # curr
          /\ rc[p] = Cardinality(Refs(ref, Slot, p)) + Bump(p)
          /\ Cardinality(Refs(ref, Slot, p)) \in Nat
          /\ Bump(p) \in {0, 1}
      BY <1>1, HeapFacts
    <3>2. Bump(p)' = Bump(p) + (IF p \in ToFinalize(Z) THEN 1 ELSE 0)
      BY <1>2, <1>9, <1>13, <3>1 DEF Bump
    <3>3. Cardinality(Refs(ref, D, p)) \in Nat
      BY <1>4, RefsFinite
    <3>4. rc'[p] = rc[p] - Cardinality(Refs(ref, D, p))
                     + (IF p \in ToFinalize(Z) THEN 1 ELSE 0)
      BY <1>7, <1>10, <3>1
    <3>5. Cardinality(Refs(ref', Slot, p))
            = Cardinality(Refs(ref, Slot, p)) - Cardinality(Refs(ref, D, p))
      BY <1>12, <3>1
    <3> QED
      BY <3>1, <3>2, <3>3, <3>4, <3>5
  <2> QED
    BY <2>1, ExactPrime
<1>15. NoDangling'
  <2>1. \A s \in Slot : ref'[s] \in mem' \cup {NULL}
    BY <1>1, <1>6, <1>12 DEF SafeHeap, NoDangling
  <2> QED
    BY <2>1 DEF NoDangling, Slot, RootSlot
<1>16. ListsPartition'
  <2>1. curr \notin heap_allocated /\ phase' # "pf_free"
    BY <1>1, <1>2, PhaseFacts DEF SafeHeap, ListsPartition
  <2> QED
    BY <1>1, <1>2, <1>3, <1>4, <1>9, <1>13, <2>1 DEF SafeHeap, ListsPartition
<1>17. RefzeroInline' /\ QueuedUnreferenced'
  <2>1. phase' # "pf_free"
    BY <1>1, PhaseFacts
  <2> QED
    BY <1>1, <1>11, <2>1 DEF RefzeroInline, QueuedUnreferenced
<1>18. FreeCellsEmpty'
  <2>1. \A p \in Obj, f \in Field : <<p, f>> \in Slot /\ (p = curr => <<p, f>> \in D)
    BY DEF Slot, OwnSlots
  <2> QED
    BY <1>1, <1>12, <2>1 DEF SafeHeap, FreeCellsEmpty
<1>19. FinalizerContext'
  <2>1. ref'[FinSlot] = NULL
    BY <1>3, <1>4, <1>12, SlotFacts
  <2> QED
    BY <1>1, <1>2, <1>3, <1>13, <2>1 DEF FinalizerContext
<1>20. MarkState'
  <2>1. phase \notin MsPhase /\ phase' \notin MsPhase
    BY <1>1, <1>2, PhaseFacts
  <2> QED
    BY <1>2, <2>1, MarkIdle
<1> QED
  BY <1>14, <1>15, <1>16, <1>17, <1>18, <1>19, <1>20 DEF SafeHeap

-----------------------------------------------------------------------------
(* Mark-and-sweep. *)

\* Mark-and-sweep starts with no object marked.
LEMMA MarkAndSweepStep ==
  ASSUME SafeHeap, TypeOK', MarkAndSweep
  PROVE  SafeHeap'
<1>1. /\ phase = "run" /\ phase' = "mark_roots"
      /\ UNCHANGED <<mem, ref, rc, heap_allocated, refzero_list, finalize_list, curr>>
      /\ UNCHANGED <<finalizable, after, pf_prevent_count>>
      /\ UNCHANGED idle
  BY DEF MarkAndSweep, Running, lists, flags, idle
<1>2. refzero_list = {}
  BY <1>1 DEF SafeHeap, RefzeroInline
<1>3. /\ RefcountExact' /\ NoDangling' /\ ListsPartition' /\ RefzeroInline'
      /\ FreeCellsEmpty' /\ QueuedUnreferenced'
  BY <1>1, <1>2, Frame
<1>4. FinalizerContext'
  BY <1>1 DEF SafeHeap, FinalizerContext
<1>5. MarkState'
  <2>1. reachable = {} /\ temproot = {} /\ stack = <<>> /\ scan = {} /\ ~reclimit_reached
    BY <1>1, PhaseFacts DEF SafeHeap, MarkState
  <2>2. reachable' = {} /\ temproot' = {} /\ stack' = <<>> /\ scan' = {}
          /\ ~reclimit_reached'
    BY <1>1, <2>1 DEF idle
  <2>3. \A o : ~Grey(o)'
    BY <2>2, EmptyStack DEF Grey
  <2> QED
    BY <1>1, <2>2, <2>3 DEF MarkState, MsPhase, MarkPhase
<1> QED
  BY <1>3, <1>4, <1>5 DEF SafeHeap

\* A marking step changes only the marking state, and while marking the
\* finalized object is on finalize_list and nothing is on refzero_list.
LEMMA MarkingFrame ==
  ASSUME SafeHeap, phase \in MarkPhase, phase' \in MsPhase,
         UNCHANGED <<mem, ref, rc, heap_allocated, refzero_list, finalize_list, curr>>,
         UNCHANGED <<after, pf_prevent_count>>, curr \notin finalizable'
  PROVE  /\ RefcountExact' /\ NoDangling' /\ ListsPartition' /\ RefzeroInline'
         /\ FreeCellsEmpty' /\ QueuedUnreferenced' /\ FinalizerContext'
         /\ mem = heap_allocated \cup finalize_list
<1>1. phase \notin {"run", "free_pending", "pf_enter", "pf", "pf_free"}
  BY DEF MarkPhase
<1>2. phase' \notin {"run", "free_pending", "pf_enter", "pf", "pf_free"}
  BY PhaseFacts
<1>3. refzero_list = {}
  BY <1>1 DEF SafeHeap, RefzeroInline
<1>4. /\ RefcountExact' /\ NoDangling' /\ ListsPartition' /\ RefzeroInline'
      /\ FreeCellsEmpty' /\ QueuedUnreferenced'
  BY <1>2, <1>3, Frame
<1>5. FinalizerContext'
  BY <1>1, <1>2 DEF SafeHeap, FinalizerContext
<1>6. curr # NULL => curr \in finalize_list
  BY <1>1 DEF SafeHeap, FinalizerContext
<1>7. mem = heap_allocated \cup finalize_list
  BY <1>3, <1>6 DEF SafeHeap, ListsPartition
<1> QED
  BY <1>4, <1>5, <1>7

\* Marking one more allocated object keeps the marking invariant.
LEMMA MarkStep ==
  ASSUME SafeHeap, NEW o \in mem, Mark(o), phase \in MarkPhase,
         UNCHANGED <<scan, unmarked>>
  PROVE  MarkState'
<1>1. /\ UNCHANGED <<mem, ref, heap_allocated, finalize_list, scan, phase>>
      /\ reachable' = reachable \cup {o}
  BY DEF Mark, unmarked, lists
<1>2. /\ stack \in Seq(Obj) /\ o \in Obj
  BY HeapFacts DEF TypeOK
<1>3. \/ /\ temproot' = temproot \cup {o} /\ reclimit_reached' /\ stack' = stack
      \/ /\ temproot' = temproot /\ reclimit_reached' = reclimit_reached
         /\ stack' = <<o>> \o stack
  BY DEF Mark
<1>4. \A p : Grey(p)' <=> Grey(p) \/ p = o
  BY <1>2, <1>3, PushFacts DEF Grey
<1>5. \A p \in temproot' : reclimit_reached' \/ p \in scan'
  BY <1>1, <1>3 DEF SafeHeap, MarkState
<1>6. /\ reachable' \subseteq mem'
      /\ \A p \in Obj : Grey(p)' => p \in reachable'
  BY <1>1, <1>4 DEF SafeHeap, MarkState
<1>7. \A p \in reachable' : Grey(p)' \/
        \A f \in Field : ref'[<<p, f>>] \in reachable' \cup {NULL}
  BY <1>1, <1>4 DEF SafeHeap, MarkState
<1>8. phase \notin {"finalize_refcounts", "sweep"} /\ phase \in MsPhase
  BY DEF MarkPhase, MsPhase
<1>9. /\ phase' # "mark_roots" =>
           \A s \in RootSlot : ref'[s] \in reachable' \cup {NULL}
      /\ phase' = "mark_temproots2" => finalize_list' \subseteq reachable'
  BY <1>1, <1>8 DEF SafeHeap, MarkState
<1> QED
  BY <1>1, <1>5, <1>6, <1>7, <1>8, <1>9 DEF MarkState, RootSlot

\* Marking keeps the invariant: an object with an unmarked reference is on the
\* recursion stack or a temproot until all it refers to is marked.
LEMMA MarkingStep ==
  ASSUME SafeHeap, TypeOK', Marking
  PROVE  SafeHeap'
<1> USE HeapAssumption
<1>1. /\ phase \in MarkPhase
      /\ UNCHANGED <<mem, ref, rc, heap_allocated, refzero_list, finalize_list, curr>>
      /\ UNCHANGED <<after, pf_prevent_count>>
  BY DEF Marking, MarkRoot, MarkChild, MarkReturn, TemprootScan, HandleTemproot,
         MarkPhaseDone, TemprootPhase, unmarked, lists, MarkPhase
<1>2. TypeOK /\ stack \in Seq(Obj)
  BY HeapFacts DEF TypeOK
<1>3. SUFFICES /\ phase' \in MsPhase
               /\ curr \notin finalizable'
               /\ mem = heap_allocated \cup finalize_list => MarkState'
  <2>1. /\ RefcountExact' /\ NoDangling' /\ ListsPartition' /\ RefzeroInline'
        /\ FreeCellsEmpty' /\ QueuedUnreferenced' /\ FinalizerContext'
        /\ mem = heap_allocated \cup finalize_list
    BY <1>1, <1>3, MarkingFrame
  <2> QED
    BY <1>3, <2>1 DEF SafeHeap
<1>4. curr \notin finalizable /\ phase \in MsPhase
  BY <1>1 DEF SafeHeap, FinalizerContext, MsPhase
<1>5. CASE MarkRoot
  <2>1. PICK o \in MarkRoots : Mark(o)
    BY <1>5 DEF MarkRoot
  <2>2. UNCHANGED <<scan, unmarked>> /\ phase' = phase /\ finalizable' = finalizable
    BY <1>5 DEF MarkRoot, unmarked
  <2>3. InHand \subseteq mem
    BY <1>2, SlotFacts DEF InHand, SafeHeap, NoDangling
  <2>4. MarkRoots \subseteq mem
    BY <2>3, HeapFacts DEF MarkRoots
  <2> QED
    BY <1>1, <1>4, <2>1, <2>2, <2>4, MarkStep
<1>6. CASE MarkChild
  <2>1. PICK f \in Field : /\ ref[<<Head(stack), f>>] \notin reachable \cup {NULL}
                           /\ Mark(ref[<<Head(stack), f>>])
    BY <1>6 DEF MarkChild
  <2>2. UNCHANGED <<scan, unmarked>> /\ phase' = phase /\ finalizable' = finalizable
    BY <1>6 DEF MarkChild, unmarked
  <2>3. Head(stack) \in Obj
    BY <1>2, <1>6, PopFacts DEF MarkChild
  <2>4. ref[<<Head(stack), f>>] \in mem
    BY <2>1, <2>3 DEF SafeHeap, NoDangling, Slot
  <2> QED
    BY <1>1, <1>4, <2>1, <2>2, <2>4, MarkStep
<1>7. CASE MarkReturn
  <2>1. /\ stack # <<>> /\ stack' = Tail(stack)
        /\ \A f \in Field : ref[<<Head(stack), f>>] \in reachable \cup {NULL}
        /\ UNCHANGED <<reachable, temproot, reclimit_reached, scan, phase, finalizable>>
    BY <1>7 DEF MarkReturn, unmarked
  <2>2. /\ \A p : Grey(p)' => Grey(p)
        /\ \A p : Grey(p) => p = Head(stack) \/ Grey(p)'
    BY <1>2, <2>1, PopFacts DEF Grey
  <2>3. phase \notin {"finalize_refcounts", "sweep"}
    BY <1>1 DEF MarkPhase
  <2> QED
    BY <1>1, <1>4, <2>1, <2>2, <2>3 DEF SafeHeap, MarkState, RootSlot
<1>8. CASE TemprootScan
  <2>1. /\ scan' = heap_allocated \cup finalize_list
        /\ UNCHANGED <<reachable, temproot, stack, phase, finalizable>>
    BY <1>8 DEF TemprootScan, TemprootLists, unmarked
  <2>2. \A p : Grey(p)' <=> Grey(p)
    BY <2>1 DEF Grey
  <2>3. phase \notin {"finalize_refcounts", "sweep"}
    BY <1>1 DEF MarkPhase
  <2>4. mem = heap_allocated \cup finalize_list => temproot' \subseteq scan'
    <3>1. temproot \subseteq reachable /\ reachable \subseteq mem
      BY <1>2 DEF SafeHeap, MarkState, Grey, TypeOK
    <3> QED
      BY <2>1, <3>1
  <2> QED
    BY <1>1, <1>4, <2>1, <2>2, <2>3, <2>4 DEF SafeHeap, MarkState, RootSlot
<1>9. CASE HandleTemproot
  <2>1. PICK o \in scan : HandleTemproot!3!(o)
    BY <1>9 DEF HandleTemproot
  <2>2. stack = <<>> /\ UNCHANGED <<reachable, reclimit_reached, phase, finalizable>>
    BY <1>9 DEF HandleTemproot, unmarked
  <2>3. o \in Obj /\ OnStack(<<o>>, o) /\ \A p : OnStack(<<o>>, p) => p = o
    BY <1>2 DEF TypeOK, OnStack
  <2>4. \A p : Grey(p)' <=> Grey(p)
    BY <2>1, <2>2, <2>3, EmptyStack DEF Grey
  <2>5. \A p \in temproot' : reclimit_reached' \/ p \in scan'
    BY <2>1, <2>2 DEF SafeHeap, MarkState
  <2>6. phase \notin {"finalize_refcounts", "sweep"}
    BY <1>1 DEF MarkPhase
  <2> QED
    BY <1>1, <1>4, <2>2, <2>4, <2>5, <2>6 DEF SafeHeap, MarkState, RootSlot
<1>10. CASE MarkPhaseDone
  <2>1. /\ stack = <<>> /\ scan = {} /\ MarkRoots \subseteq reachable
        /\ TemprootPhase => ~reclimit_reached
        /\ phase' = NextMarkPhase
        /\ UNCHANGED <<reachable, temproot, reclimit_reached, stack, scan>>
    BY <1>10 DEF MarkPhaseDone, Marked, marking
  <2>2. /\ finalizable' \subseteq finalizable \cup heap_allocated
        /\ phase' \in MsPhase \ {"mark_roots", "sweep"}
        /\ phase' = "mark_temproots2" => phase = "mark_finalize_list"
        /\ phase' = "finalize_refcounts" => phase = "mark_temproots2"
    BY <1>1, <1>10, <2>1
    DEF MarkPhaseDone, Finalizable, NextMarkPhase, MarkPhase, MsPhase
  <2>3. curr \notin heap_allocated
    BY <1>1, <1>2 DEF SafeHeap, FinalizerContext, ListsPartition, MarkPhase, TypeOK
  <2>4. \A p : Grey(p)' <=> Grey(p)
    BY <2>1 DEF Grey
  <2>5. \A s \in RootSlot : ref[s] \in reachable \cup {NULL}
    BY <1>4, <2>1 DEF SafeHeap, MarkState, MarkRoots, InHand
  <2>6. phase' \in {"mark_temproots2", "finalize_refcounts"} =>
          finalize_list \subseteq reachable
    BY <2>1, <2>2 DEF SafeHeap, MarkState, MarkRoots
  <2>7. phase' = "finalize_refcounts" => ~reclimit_reached /\ temproot = {}
    BY <2>1, <2>2 DEF SafeHeap, MarkState, TemprootPhase
  <2>8. MarkState'
    BY <1>1, <2>1, <2>2, <2>4, <2>5, <2>6, <2>7 DEF SafeHeap, MarkState, RootSlot
  <2> QED
    BY <1>4, <2>2, <2>3, <2>8
<1> QED
  BY <1>5, <1>6, <1>7, <1>8, <1>9, <1>10 DEF Marking

\* Before the sweep nothing refers to an unreachable object any more: the roots
\* and every marked object refer to marked objects only, and the references of
\* the unreachable objects themselves, cycles included, have been dropped.
LEMMA FinalizeRefcountsStep ==
  ASSUME SafeHeap, TypeOK', FinalizeRefcounts
  PROVE  SafeHeap'
<1> USE HeapAssumption
<1> DEFINE D == Unreachable \X Field
<1>1. /\ phase = "finalize_refcounts" /\ phase' = "sweep"
      /\ rc' = DropRc(rc, D) /\ ref' = DropRef(D)
      /\ UNCHANGED <<mem, heap_allocated, refzero_list, finalize_list, curr>>
      /\ UNCHANGED <<finalizable, after, pf_prevent_count>>
      /\ UNCHANGED idle
  BY DEF FinalizeRefcounts, lists, flags, marking, idle
<1>2. /\ TypeOK /\ rc \in [Obj -> Int] /\ D \in SUBSET Slot
      /\ heap_allocated \subseteq Obj
  BY HeapFacts, SlotFacts DEF TypeOK
<1>3. /\ \A s \in D : ref'[s] = NULL
      /\ \A s \in Slot : ref'[s] = ref[s] \/ ref'[s] = NULL
      /\ \A s \in Slot \ D : ref'[s] = ref[s]
      /\ \A p \in Obj : Cardinality(Refs(ref', Slot, p))
           = Cardinality(Refs(ref, Slot, p)) - Cardinality(Refs(ref, D, p))
  BY <1>1, <1>2, DropFacts
<1>4. phase \in MsPhase /\ phase \notin MarkPhase /\ refzero_list = {}
  BY <1>1 DEF MsPhase, MarkPhase, SafeHeap, RefzeroInline
<1>5. RefcountExact'
  <2>1. ASSUME NEW p \in mem' PROVE rc'[p] = Cardinality(Refs(ref', Slot, p)) + Bump(p)'
    <3>1. /\ p \in Obj /\ rc[p] = Cardinality(Refs(ref, Slot, p)) + Bump(p)
          /\ Cardinality(Refs(ref, Slot, p)) \in Nat
          /\ Bump(p) \in {0, 1}
      BY <1>1, HeapFacts
    <3>2. Bump(p)' = Bump(p)
      BY <1>1 DEF Bump
    <3>3. Cardinality(Refs(ref, D, p)) \in Nat
      BY <1>2, RefsFinite
    <3>4. rc'[p] = rc[p] - Cardinality(Refs(ref, D, p))
      BY <1>1, <3>1, RefsInRefs DEF DropRc
    <3>5. Cardinality(Refs(ref', Slot, p))
            = Cardinality(Refs(ref, Slot, p)) - Cardinality(Refs(ref, D, p))
      BY <1>3, <3>1
    <3> QED
      BY <3>1, <3>2, <3>3, <3>4, <3>5
  <2> QED
    BY <2>1, ExactPrime
<1>6. NoDangling'
  <2>1. \A s \in Slot : ref'[s] \in mem' \cup {NULL}
    BY <1>1, <1>3 DEF SafeHeap, NoDangling
  <2> QED
    BY <2>1 DEF NoDangling, Slot, RootSlot
<1>7. ListsPartition' /\ RefzeroInline' /\ QueuedUnreferenced'
  BY <1>1, <1>4 DEF SafeHeap, ListsPartition, RefzeroInline, QueuedUnreferenced
<1>8. FreeCellsEmpty'
  BY <1>1, <1>2, <1>3, SlotFacts DEF SafeHeap, FreeCellsEmpty
<1>9. FinalizerContext'
  <2>1. FinSlot \in Slot \ D
    BY <1>2, SlotFacts DEF FinSlot, Unreachable
  <2>2. ref'[FinSlot] = ref[FinSlot]
    BY <1>3, <2>1
  <2> QED
    BY <1>1, <2>2 DEF SafeHeap, FinalizerContext
<1>10. MarkState'
  <2>1. /\ reachable' = reachable /\ temproot' = {} /\ stack' = <<>> /\ scan' = {}
        /\ ~reclimit_reached' /\ stack = <<>> /\ temproot = {}
        /\ finalize_list \subseteq reachable /\ reachable \subseteq mem
        /\ \A s \in RootSlot : ref[s] \in reachable \cup {NULL}
    BY <1>1, <1>4 DEF SafeHeap, MarkState, idle
  <2>2. \A o : ~Grey(o) /\ ~Grey(o)'
    BY <2>1, EmptyStack DEF Grey
  <2>3. \A o \in reachable, f \in Field : ref[<<o, f>>] \in reachable \cup {NULL}
    BY <2>2 DEF SafeHeap, MarkState
  <2>4. /\ \A o \in reachable, f \in Field : ref'[<<o, f>>] \in reachable \cup {NULL}
        /\ \A s \in RootSlot : ref'[s] \in reachable \cup {NULL}
    <3>1. RootSlot \subseteq Slot /\ \A o \in reachable, f \in Field : <<o, f>> \in Slot
      BY <1>2, SlotFacts DEF TypeOK
    <3> QED
      BY <1>3, <2>1, <2>3, <3>1
  <2>5. \A o \in Unreachable, f \in Field : ref'[<<o, f>>] = NULL
    BY <1>3
  <2>6. \A s \in Slot : ref'[s] \notin Unreachable
    <3> SUFFICES ASSUME NEW s \in Slot PROVE ref'[s] \notin Unreachable
      OBVIOUS
    <3>1. CASE s \in RootSlot
      BY <1>2, <2>4, <3>1 DEF Unreachable
    <3>2. CASE s \in Obj \X Field
      <4>1. PICK o \in Obj, f \in Field : s = <<o, f>>
        BY <3>2
      <4>2. o \in reachable \/ o \in Unreachable \/ o \in Obj \ mem
        <5>1. curr # NULL => curr \in finalize_list
          BY <1>1 DEF SafeHeap, FinalizerContext
        <5>2. mem = heap_allocated \cup finalize_list
          BY <1>4, <5>1 DEF SafeHeap, ListsPartition
        <5> QED
          BY <2>1, <5>2 DEF Unreachable
      <4>3. CASE o \in reachable
        BY <1>2, <2>4, <4>1, <4>3 DEF Unreachable
      <4>4. CASE o \in Unreachable
        BY <1>2, <2>5, <4>1, <4>4 DEF Unreachable
      <4>5. CASE o \in Obj \ mem
        <5>1. ref'[s] = NULL
          BY <1>3, <4>1, <4>5 DEF SafeHeap, FreeCellsEmpty
        <5> QED
          BY <1>2, <5>1 DEF Unreachable
      <4> QED
        BY <4>2, <4>3, <4>4, <4>5
    <3> QED
      BY <3>1, <3>2 DEF Slot
  <2>7. Unreachable' = Unreachable
    BY <1>1, <2>1 DEF Unreachable
  <2>8. /\ \A s \in Slot : ref'[s] \notin Unreachable'
        /\ \A o \in Unreachable', f \in Field : ref'[<<o, f>>] = NULL
    BY <2>5, <2>6, <2>7
  <2> QED
    BY <1>1, <2>1, <2>2, <2>4, <2>8
    DEF MarkState, MsPhase, MarkPhase, Slot, RootSlot
<1> QED
  BY <1>5, <1>6, <1>7, <1>8, <1>9, <1>10 DEF SafeHeap

\* The sweep frees unreferenced objects only, and bumps what it queues for
\* finalization.
LEMMA SweepHeapStep ==
  ASSUME SafeHeap, TypeOK', SweepHeap
  PROVE  SafeHeap'
<1> USE HeapAssumption
<1> DEFINE queue == heap_allocated \cap reachable \cap finalizable
           keep == (heap_allocated \cap reachable) \ finalizable
<1>1. /\ phase = "sweep" /\ phase' = "pf_enter"
      /\ heap_allocated' = keep /\ finalize_list' = finalize_list \cup queue
      /\ rc' = Bumped(rc, queue) /\ mem' = mem \ Unreachable /\ reachable' = {}
      /\ UNCHANGED <<ref, refzero_list, temproot, finalizable, pf_prevent_count>>
      /\ UNCHANGED <<reclimit_reached, stack, scan, after, curr>>
  BY DEF SweepHeap
<1>2. TypeOK /\ rc \in [Obj -> Int] /\ heap_allocated \subseteq Obj
  BY HeapFacts DEF TypeOK
<1>3. /\ phase \in MsPhase /\ refzero_list = {}
      /\ curr # NULL => curr \in finalize_list
  BY <1>1 DEF MsPhase, MarkPhase, SafeHeap, RefzeroInline, FinalizerContext
<1>4. /\ stack = <<>> /\ temproot = {} /\ scan = {} /\ ~reclimit_reached
      /\ finalize_list \subseteq reachable
      /\ \A s \in Slot : ref[s] \notin Unreachable
      /\ \A o \in Unreachable, f \in Field : ref[<<o, f>>] = NULL
  BY <1>1, <1>3 DEF SafeHeap, MarkState
<1>5. mem = heap_allocated \cup finalize_list /\ heap_allocated \cap finalize_list = {}
  BY <1>3 DEF SafeHeap, ListsPartition
<1>6. RefcountExact'
  <2>1. ASSUME NEW p \in mem' PROVE rc'[p] = Cardinality(Refs(ref', Slot, p)) + Bump(p)'
    <3>1. /\ p \in Obj /\ p \in mem
          /\ rc[p] = Cardinality(Refs(ref, Slot, p)) + Bump(p)
          /\ Cardinality(Refs(ref, Slot, p)) \in Nat
          /\ Bump(p) \in {0, 1}
      BY <1>1, HeapFacts
    <3>2. Bump(p)' = Bump(p) + (IF p \in queue THEN 1 ELSE 0)
      <4>1. queue \cap finalize_list = {} /\ curr \notin queue
        BY <1>2, <1>3, <1>5
      <4> HIDE DEF queue
      <4> QED
        BY <1>1, <4>1 DEF Bump
    <3>3. rc'[p] = rc[p] + (IF p \in queue THEN 1 ELSE 0)
      BY <1>1, <1>2, <3>1 DEF Bumped
    <3>4. Cardinality(Refs(ref', Slot, p)) = Cardinality(Refs(ref, Slot, p))
      BY <1>1
    <3> HIDE DEF queue
    <3> QED
      BY <3>1, <3>2, <3>3, <3>4
  <2> QED
    BY <2>1, ExactPrime
<1>7. NoDangling'
  BY <1>1, <1>4 DEF SafeHeap, NoDangling, Slot, RootSlot
<1>8. ListsPartition'
  BY <1>1, <1>3, <1>4, <1>5 DEF ListsPartition, Unreachable
<1>9. RefzeroInline' /\ QueuedUnreferenced'
  BY <1>1, <1>3 DEF RefzeroInline, QueuedUnreferenced
<1>10. FreeCellsEmpty'
  BY <1>1, <1>4 DEF SafeHeap, FreeCellsEmpty
<1>11. FinalizerContext'
  BY <1>1, <1>3 DEF SafeHeap, FinalizerContext
<1>12. MarkState'
  <2>1. \A o : ~Grey(o)'
    BY <1>1, <1>4, EmptyStack DEF Grey
  <2> QED
    BY <1>1, <1>4, <2>1, PhaseFacts DEF MarkState, MsPhase, MarkPhase
<1> QED
  BY <1>6, <1>7, <1>8, <1>9, <1>10, <1>11, <1>12 DEF SafeHeap

-----------------------------------------------------------------------------
(* The theorems. *)

\* The invariant holds of an empty heap.
LEMMA SafeInit == Init => SafeHeap
<1> SUFFICES ASSUME Init PROVE SafeHeap
  OBVIOUS
<1> USE HeapAssumption
<1>1. TypeOK
  BY InitTypes
<1>2. RefcountExact /\ NoDangling
  BY DEF Init, RefcountExact, NoDangling
<1>3. ListsPartition /\ RefzeroInline /\ QueuedUnreferenced
  BY DEF Init, ListsPartition, RefzeroInline, QueuedUnreferenced
<1>4. FreeCellsEmpty
  BY DEF Init, FreeCellsEmpty, Slot
<1>5. FinalizerContext
  BY <1>1, SlotFacts DEF Init, FinalizerContext
<1>6. MarkState
  <2>1. \A o : ~Grey(o)
    BY EmptyStack DEF Init, Grey
  <2> QED
    BY <2>1, PhaseFacts DEF Init, MarkState, MsPhase, MarkPhase
<1> QED
  BY <1>1, <1>2, <1>3, <1>4, <1>5, <1>6 DEF SafeHeap

\* Every step of the heap keeps the invariant.
LEMMA SafeStep == SafeHeap /\ [Next]_vars => SafeHeap'
<1> SUFFICES ASSUME SafeHeap, [Next]_vars PROVE SafeHeap'
  OBVIOUS
<1>1. TypeOK'
  BY TypeStep DEF SafeHeap
<1>2. CASE \E r \in Reg : Alloc(r)
  BY <1>1, <1>2, AllocStep
<1>3. CASE \E s \in Slot, v \in Obj \cup {NULL}, norz \in BOOLEAN : SetSlot(s, v, norz)
  BY <1>1, <1>3, SetSlotStep
<1>4. CASE \E o \in Obj, r \in Reg : PushHeapptr(o, r)
  BY <1>1, <1>4, PushHeapptrStep
<1>5. CASE \/ \E o \in Obj : SetFinalizer(o)
           \/ RefzeroCheck \/ PreventFinalizers \/ AllowFinalizers
           \/ DebugPause \/ DebugResume \/ PfEnter \/ PfEnd
  BY <1>1, <1>5, QuietSteps
<1>6. CASE FinalizerReturn
  BY <1>1, <1>6, FinalizerReturnStep
<1>7. CASE FreePending
  BY <1>1, <1>7, FreePendingStep
<1>8. CASE PfRunFinalizer
  BY <1>1, <1>8, PfRunFinalizerStep
<1>9. CASE PfFree
  BY <1>1, <1>9, PfFreeStep
<1>10. CASE MarkAndSweep
  BY <1>1, <1>10, MarkAndSweepStep
<1>11. CASE Marking
  BY <1>1, <1>11, MarkingStep
<1>12. CASE FinalizeRefcounts
  BY <1>1, <1>12, FinalizeRefcountsStep
<1>13. CASE SweepHeap
  BY <1>1, <1>13, SweepHeapStep
<1>14. CASE UNCHANGED vars
  <2>1. /\ UNCHANGED <<mem, ref, rc, heap_allocated, refzero_list, finalize_list, curr>>
        /\ UNCHANGED <<phase, after, pf_prevent_count, finalizable>>
        /\ UNCHANGED idle
    BY <1>14 DEF vars, lists, flags, marking, idle
  <2>2. /\ RefcountExact' /\ NoDangling' /\ ListsPartition' /\ RefzeroInline'
        /\ FreeCellsEmpty' /\ QueuedUnreferenced'
    BY <2>1, Frame DEF SafeHeap, RefzeroInline
  <2>3. FinalizerContext'
    BY <2>1 DEF SafeHeap, FinalizerContext
  <2>4. MarkState'
    BY <2>1 DEF SafeHeap, MarkState, Grey, Unreachable, Slot, RootSlot, idle
  <2> QED
    BY <1>1, <2>2, <2>3, <2>4 DEF SafeHeap
<1> QED
  BY <1>2, <1>3, <1>4, <1>5, <1>6, <1>7, <1>8, <1>9, <1>10, <1>11, <1>12, <1>13,
     <1>14
  DEF Next, Mutator, Engine

\* The inductive invariant of the heap, for any number of objects, fields and
\* root slots and any marking recursion limit.
THEOREM HeapSafe == Spec => []SafeHeap
  BY SafeInit, SafeStep, PTL DEF Spec

\* Reference counts are exact in every state: an object's h_refcount is the
\* number of slots that hold it, plus the bump of a pending finalizer call.
THEOREM CountsExact == Spec => []RefcountExact
<1>1. SafeHeap => RefcountExact
  BY DEF SafeHeap
<1> QED
  BY <1>1, HeapSafe, PTL

\* No slot ever refers to a freed cell, whether a refzero cascade, the end of a
\* finalizer or a sweep freed it.
THEOREM NothingDangles == Spec => []NoDangling
<1>1. SafeHeap => NoDangling
  BY DEF SafeHeap
<1> QED
  BY <1>1, HeapSafe, PTL

\* Every allocated object is on exactly one of heap_allocated, refzero_list and
\* finalize_list, except the finalized object that is being freed.
THEOREM OneListEach == Spec => []ListsPartition
<1>1. SafeHeap => ListsPartition
  BY DEF SafeHeap
<1> QED
  BY <1>1, HeapSafe, PTL

\* Whenever ordinary code, a finalizer or mark-and-sweep runs, refzero_list is
\* empty.
THEOREM RefzeroCompletes == Spec => []RefzeroInline
<1>1. SafeHeap => RefzeroInline
  BY DEF SafeHeap
<1> QED
  BY <1>1, HeapSafe, PTL

\* Marking is sound in every state of a mark-and-sweep, the recursion limit and
\* its temproot scans included: the sweep finds no reference to what it frees.
THEOREM MarkingSound == Spec => []MarkState
<1>1. SafeHeap => MarkState
  BY DEF SafeHeap
<1> QED
  BY <1>1, HeapSafe, PTL


-----------------------------------------------------------------------------
(* Flags, the finalization queue, and the order of finalizing and freeing.  *)

\* The phases of mark-and-sweep after FINALIZABLE has been decided.
Late == {"mark_finalizable", "mark_finalize_list", "mark_temproots2",
         "finalize_refcounts", "sweep"}

\* An object on finalize_list is to be finalized, the one in its finalizer call is not.
QueueFlags ==
  /\ finalize_list \ {curr} \subseteq finalizable
  /\ finalizable \cap finalized = {}
  /\ curr # NULL => curr \in finalized

\* FINALIZABLE is for objects on finalize_list, and in mark-and-sweep for those
\* that will be queued, which are marked.
FinalizableWhere ==
  /\ finalizable \subseteq finalize_list \cup heap_allocated
  /\ phase \notin Late => finalizable \subseteq finalize_list
  /\ phase \in Late \ {"mark_finalizable"} => heap_allocated \cap finalizable \subseteq reachable

\* FINALIZED means that the finalizer was called; what is about to be freed has
\* no finalizer or has FINALIZED.
Called ==
  /\ finalized \subseteq ran
  /\ refzero_list \cap hasFin \subseteq finalized
  /\ phase \in Late => (heap_allocated \cap hasFin) \ reachable \subseteq finalized \cup finalizable

\* Reachability in the slot assignment r.
LiveIn(r) == {o \in Obj :
                \A S \in SUBSET Obj :
                  (/\ {r[s] : s \in RootSlot} \ {NULL} \subseteq S
                   /\ \A p \in S, f \in Field : r[<<p, f>>] \in S \cup {NULL})
                  => o \in S}

\* What mark-and-sweep is going to queue is garbage.
QueueDead == phase \in Late => \A o \in heap_allocated \cap finalizable : o \notin LiveIn(ref)

FlagInv == QueueFlags /\ FinalizableWhere /\ Called /\ QueueDead

\* A marked object that stays is referred to by a root or by a marked object.
Anchored(o) == \E s \in Slot : ref[s] = o /\ (s \in RootSlot \/ s[1] \in reachable)

\* Without a debugger, refzero handling is off only during mark-and-sweep, and
\* the count of an object on heap_allocated is positive but for refcount finalization.
CountInv ==
  /\ phase \notin MsPhase => ms_running = 0
  /\ phase # "sweep" => \A o \in heap_allocated : rc[o] > 0
  /\ \A o \in (heap_allocated \cap reachable) \ finalizable : Anchored(o)

-----------------------------------------------------------------------------
(* Reachability. *)

LEMMA LiveIsLiveIn == Live = LiveIn(ref)
BY DEF Live, LiveIn, InHand

\* An object no slot holds is not reachable.
LEMMA UnheldNotLive ==
  ASSUME NEW r \in [Slot -> Obj \cup {NULL}], NEW o, \A s \in Slot : r[s] # o
  PROVE  o \notin LiveIn(r)
<1> DEFINE S == Obj \ {o}
<1>1. \A s \in Slot : r[s] \in S \cup {NULL}
  OBVIOUS
<1>2. RootSlot \subseteq Slot /\ \A p \in S, f \in Field : <<p, f>> \in Slot
  BY DEF Slot
<1>3. /\ {r[s] : s \in RootSlot} \ {NULL} \subseteq S
      /\ \A p \in S, f \in Field : r[<<p, f>>] \in S \cup {NULL}
  BY <1>1, <1>2
<1>4. S \in SUBSET Obj /\ o \notin S
  OBVIOUS
<1> HIDE DEF S
<1> QED
  BY <1>3, <1>4 DEF LiveIn

\* Dropping references makes nothing reachable.
LEMMA DropNotLive ==
  ASSUME NEW r, NEW q, \A s \in Slot : q[s] = r[s] \/ q[s] = NULL, NEW o \in Obj, o \notin LiveIn(r)
  PROVE  o \notin LiveIn(q)
<1>1. PICK S \in SUBSET Obj : /\ {r[s] : s \in RootSlot} \ {NULL} \subseteq S
                              /\ \A p \in S, f \in Field : r[<<p, f>>] \in S \cup {NULL}
                              /\ o \notin S
  BY DEF LiveIn
<1>2. RootSlot \subseteq Slot /\ \A p \in S, f \in Field : <<p, f>> \in Slot
  BY DEF Slot
<1>3. {q[s] : s \in RootSlot} \ {NULL} \subseteq S
  BY <1>1, <1>2
<1>4. \A p \in S, f \in Field : q[<<p, f>>] \in S \cup {NULL}
  BY <1>1, <1>2
<1> QED
  BY <1>1, <1>3, <1>4 DEF LiveIn

-----------------------------------------------------------------------------
(* Steps outside mark-and-sweep. *)

\* Objects whose count reached zero are queued, and refzero handling leaves the
\* rest alone.
LEMMA QueueZeroedFlags ==
  ASSUME SafeHeap, FlagInv, NEW c \in [Obj -> Int], NEW D \in SUBSET Slot, NEW F \in SUBSET Obj,
         \A o \in Obj : RefsIn(D, o) # {} => c[o] >= rc[o],
         QueueZeroed(Zeroed(c, D), DropRc(c, D)),
         F \cap finalize_list = {}, F \cap finalizable = {},
         refzero_list' \subseteq (refzero_list \cup ToFree(Zeroed(c, D))) \ F,
         finalized' = finalized \ F, hasFin' = hasFin \ F, ran' = ran \ F,
         (curr' = curr /\ curr \notin F) \/ (curr' = NULL /\ curr \notin finalize_list),
         phase \notin MsPhase, phase' \notin MsPhase
  PROVE  FlagInv'
<1> DEFINE Z == Zeroed(c, D)
           Q == ToFinalize(Z)
<1>1. /\ finalize_list' = finalize_list \cup Q /\ finalizable' = finalizable \cup Q
      /\ heap_allocated' = heap_allocated \ Z
  BY DEF QueueZeroed
<1>2. curr \notin Z
  BY ZeroedAllocated
<1>3. /\ Q \subseteq Z /\ Q \cap finalized = {} /\ ToFree(Z) = Z \ Q
      /\ Q = (Z \cap hasFin) \ finalized
  BY DEF ToFinalize, ToFree
<1>4. phase \notin Late /\ phase' \notin Late
  BY DEF Late, MsPhase, MarkPhase
<1> HIDE DEF Z, Q
<1>5. QueueFlags'
  BY <1>1, <1>2, <1>3, <1>4 DEF FlagInv, QueueFlags
<1>6. FinalizableWhere'
  BY <1>1, <1>3, <1>4 DEF FlagInv, FinalizableWhere
<1>7. Called'
  BY <1>1, <1>3, <1>4 DEF FlagInv, Called, Z
<1>8. QueueDead'
  BY <1>4 DEF QueueDead
<1> QED
  BY <1>5, <1>6, <1>7, <1>8 DEF FlagInv

\* Outside mark-and-sweep the flags depend on the lists only.
LEMMA FlagsOutside ==
  ASSUME phase' \notin Late, QueueFlags', finalizable' \subseteq finalize_list',
         finalized' \subseteq ran', refzero_list' \cap hasFin' \subseteq finalized'
  PROVE  FlagInv'
BY DEF FlagInv, FinalizableWhere, Called, QueueDead

\* What holds of the flags whenever no mark-and-sweep is in its later phases.
LEMMA FlagFacts ==
  ASSUME SafeHeap, FlagInv, phase \notin MsPhase
  PROVE  /\ finalize_list \ {curr} \subseteq finalizable /\ finalizable \subseteq finalize_list
         /\ finalizable \cap finalized = {} /\ finalized \subseteq ran
         /\ curr # NULL => curr \in finalized
         /\ curr \notin finalizable /\ refzero_list \cap hasFin \subseteq finalized
         /\ phase # "free_pending" => refzero_list = {}
<1>1. phase \notin Late
  BY DEF Late, MsPhase, MarkPhase
<1> QED
  BY <1>1 DEF FlagInv, QueueFlags, FinalizableWhere, Called, SafeHeap, FinalizerContext, RefzeroInline

\* Steps of ordinary code and of the finalizer loop that move no object.
LEMMA QuietFlags ==
  ASSUME SafeHeap, FlagInv,
         \/ \E r \in Reg : Alloc(r)
         \/ \E o \in Obj : SetFinalizer(o)
         \/ RefzeroCheck \/ PreventFinalizers \/ AllowFinalizers
         \/ DebugPause \/ DebugResume \/ PfEnter \/ PfEnd \/ MarkAndSweep
  PROVE  FlagInv'
<1>1. /\ phase \in {"run", "pf_enter", "pf"} /\ phase' \in {"run", "pf_enter", "pf", "mark_roots"}
      /\ UNCHANGED <<refzero_list, finalize_list, finalizable, finalized, curr, ran>>
  BY DEF Alloc, SetFinalizer, RefzeroCheck, PreventFinalizers, AllowFinalizers, DebugPause,
         DebugResume, PfEnter, PfEnd, MarkAndSweep, Running, lists, flags
<1>2. phase \notin MsPhase /\ phase' \notin Late /\ phase # "free_pending"
  BY <1>1 DEF MsPhase, MarkPhase, Late
<1>3. QueueFlags' /\ finalizable' \subseteq finalize_list' /\ finalized' \subseteq ran'
        /\ refzero_list' = {}
  BY <1>1, <1>2, FlagFacts DEF QueueFlags
<1> QED
  BY <1>2, <1>3, FlagsOutside

\* duk_push_heapptr() cancels a pending finalizer call with both flags.
LEMMA PushHeapptrFlags ==
  ASSUME SafeHeap, FlagInv, NEW o \in Obj, NEW r \in Reg, PushHeapptr(o, r)
  PROVE  FlagInv'
<1>1. /\ phase = "run" /\ phase' = phase
      /\ UNCHANGED <<refzero_list, curr, ran, hasFin>>
      /\ \/ /\ o \in finalizable /\ finalizable' = finalizable \ {o}
            /\ finalized' = finalized \ {o} /\ finalize_list' = finalize_list \ {o}
         \/ UNCHANGED <<finalizable, finalized, finalize_list>>
  BY DEF PushHeapptr, Running
<1>2. phase \notin MsPhase /\ phase' \notin Late /\ phase # "free_pending"
  BY <1>1 DEF MsPhase, MarkPhase, Late
<1>3. QueueFlags' /\ finalizable' \subseteq finalize_list' /\ finalized' \subseteq ran'
        /\ refzero_list' = {}
  BY <1>1, <1>2, FlagFacts DEF QueueFlags
<1> QED
  BY <1>2, <1>3, FlagsOutside

\* The finalizer call swaps FINALIZABLE for FINALIZED.
LEMMA PfRunFinalizerFlags ==
  ASSUME SafeHeap, FlagInv, PfRunFinalizer
  PROVE  FlagInv'
<1>1. PICK o \in finalize_list :
        /\ curr' = o /\ finalizable' = finalizable \ {o}
        /\ finalized' = finalized \cup {o} /\ ran' = ran \cup {o}
  BY DEF PfRunFinalizer
<1>2. phase = "pf" /\ phase' = "run" /\ UNCHANGED <<refzero_list, finalize_list, hasFin>>
  BY DEF PfRunFinalizer, lists
<1>3. phase \notin MsPhase /\ phase' \notin Late /\ phase # "free_pending"
  BY <1>2 DEF MsPhase, MarkPhase, Late
<1>4. curr = NULL /\ NULL \notin finalize_list
  BY <1>2, HeapFacts, HeapAssumption DEF SafeHeap, FinalizerContext
<1>5. QueueFlags' /\ finalizable' \subseteq finalize_list' /\ finalized' \subseteq ran'
        /\ refzero_list' = {}
  BY <1>1, <1>2, <1>3, <1>4, FlagFacts DEF QueueFlags
<1> QED
  BY <1>3, <1>5, FlagsOutside

\* After the finalizer call the object leaves finalize_list.
LEMMA FinalizerReturnFlags ==
  ASSUME SafeHeap, FlagInv, FinalizerReturn
  PROVE  FlagInv'
<1>1. /\ phase = "run" /\ phase' \in {"pf", "pf_free"} /\ curr # NULL
      /\ finalize_list' = finalize_list \ {curr}
      /\ \/ UNCHANGED <<finalized, curr>>
         \/ curr' = NULL /\ finalized' \subseteq finalized
      /\ UNCHANGED <<refzero_list, finalizable, ran, hasFin>>
  BY DEF FinalizerReturn, Running
<1>2. phase \notin MsPhase /\ phase' \notin Late /\ phase # "free_pending"
  BY <1>1 DEF MsPhase, MarkPhase, Late
<1>3. QueueFlags' /\ finalizable' \subseteq finalize_list' /\ finalized' \subseteq ran'
        /\ refzero_list' = {}
  BY <1>1, <1>2, FlagFacts DEF QueueFlags
<1> QED
  BY <1>2, <1>3, FlagsOutside

\* A store queues the old value.
LEMMA SetSlotFlags ==
  ASSUME SafeHeap, FlagInv, NEW s \in Slot, NEW v \in Obj \cup {NULL},
         NEW norz \in BOOLEAN, SetSlot(s, v, norz)
  PROVE  FlagInv'
<1> DEFINE c == IncRef(rc, v)
           D == {s}
<1>1. /\ phase = "run" /\ phase' \in {"run", "pf_enter", "free_pending"}
      /\ QueueZeroed(Zeroed(c, D), DropRc(c, D))
      /\ refzero_list' = ToFree(Zeroed(c, D))
      /\ UNCHANGED <<hasFin, finalized, curr, ran>>
  BY DEF SetSlot, Running, AfterDecref
<1>2. phase \notin MsPhase /\ phase' \notin MsPhase
  BY <1>1, PhaseFacts
<1>3. D \in SUBSET Slot /\ rc \in [Obj -> Int]
  BY DEF SafeHeap, TypeOK
<1>4. c \in [Obj -> Int] /\ \A o \in Obj : c[o] >= rc[o]
  BY <1>3 DEF IncRef
<1> DEFINE F == {}
<1>5. /\ F \in SUBSET Obj /\ F \cap finalize_list = {} /\ F \cap finalizable = {} /\ curr \notin F
      /\ refzero_list' \subseteq (refzero_list \cup ToFree(Zeroed(c, D))) \ F
      /\ finalized' = finalized \ F /\ hasFin' = hasFin \ F /\ ran' = ran \ F
  BY <1>1
<1> HIDE DEF c, D, F
<1> QED
  BY <1>1, <1>2, <1>3, <1>4, <1>5, QueueZeroedFlags

\* What a freed object referred to is queued.
LEMMA FreePendingFlags ==
  ASSUME SafeHeap, FlagInv, SafeHeap', FreePending
  PROVE  FlagInv'
<1>1. PICK o \in refzero_list : FreePending!2!(o)
  BY DEF FreePending
<1> DEFINE D == OwnSlots(o)
           F == {o}
<1>2. /\ QueueZeroed(Zeroed(rc, D), DropRc(rc, D))
      /\ refzero_list' = (refzero_list \cup ToFree(Zeroed(rc, D))) \ F
      /\ finalized' = finalized \ F /\ hasFin' = hasFin \ F /\ ran' = ran \ F
      /\ \/ phase' = after
         \/ phase' = phase
  BY <1>1 DEF Freed
<1>3. phase = "free_pending" /\ curr' = curr
  BY DEF FreePending
<1>4. /\ D \in SUBSET Slot /\ rc \in [Obj -> Int] /\ F \in SUBSET Obj /\ o \in Obj
      /\ \A p \in Obj : rc[p] >= rc[p]
  BY <1>1, HeapFacts, SlotFacts DEF TypeOK
<1>5. phase \notin MsPhase /\ phase' \notin MsPhase
  <2>1. after \in {"run", "pf_enter", "pf"}
    BY DEF SafeHeap, TypeOK
  <2> QED
    BY <1>2, <1>3, <2>1, PhaseFacts
<1>6. o \notin finalize_list /\ o \notin finalizable /\ o # curr
  <2>1. o \notin finalize_list
    BY <1>1 DEF SafeHeap, ListsPartition
  <2>2. curr # NULL => curr \in finalize_list
    BY <1>3 DEF SafeHeap, FinalizerContext
  <2> QED
    BY <1>4, <1>5, <2>1, <2>2, FlagFacts, HeapAssumption
<1>7. /\ F \cap finalize_list = {} /\ F \cap finalizable = {} /\ curr \notin F
  BY <1>6
<1> HIDE DEF D, F
<1> QED
  BY <1>2, <1>3, <1>4, <1>5, <1>7, QueueZeroedFlags

\* What a finalized object referred to is queued.
LEMMA PfFreeFlags ==
  ASSUME SafeHeap, FlagInv, PfFree
  PROVE  FlagInv'
<1> DEFINE D == OwnSlots(curr)
           F == {curr}
           c == [rc EXCEPT ![curr] = 0]
<1>1. /\ QueueZeroed(Zeroed(c, D), DropRc(c, D))
      /\ refzero_list' = ToFree(Zeroed(c, D))
      /\ finalized' = finalized \ F /\ hasFin' = hasFin \ F /\ ran' = ran \ F
      /\ phase = "pf_free" /\ phase' \in {"free_pending", "pf"} /\ curr' = NULL
  BY DEF PfFree, Freed
<1>2. phase \notin MsPhase /\ phase' \notin MsPhase
  BY <1>1, PhaseFacts
<1>3. curr # NULL /\ curr \notin finalize_list
  BY <1>1 DEF SafeHeap, FinalizerContext
<1>4. D \in SUBSET Slot /\ F \in SUBSET Obj /\ curr \in Obj /\ rc \in [Obj -> Int]
  BY <1>3, HeapFacts, SlotFacts DEF TypeOK
<1>5. c \in [Obj -> Int] /\ \A o \in Obj \ {curr} : c[o] = rc[o]
  BY <1>4
<1>6. \A s \in Slot : ref[s] # curr
  <2>1. rc[curr] = 1 /\ curr \in mem /\ Bump(curr) = 1
    BY <1>1, <1>3, HeapFacts DEF SafeHeap, QueuedUnreferenced, Bump
  <2>2. Cardinality(Refs(ref, Slot, curr)) = 0
    BY <2>1, HeapFacts
  <2> QED
    BY <2>2, NoRefs
<1>7. RefsIn(D, curr) = {}
  BY <1>4, <1>6 DEF RefsIn
<1>8. \A o \in Obj : RefsIn(D, o) # {} => c[o] >= rc[o]
  BY <1>4, <1>5, <1>7
<1>9. F \cap finalize_list = {} /\ F \cap finalizable = {}
  BY <1>2, <1>3, FlagFacts
<1>10. ToFree(Zeroed(c, D)) \cap F = {}
  BY <1>7 DEF ToFree, Zeroed
<1>11. refzero_list' \subseteq (refzero_list \cup ToFree(Zeroed(c, D))) \ F
  BY <1>1, <1>10
<1> HIDE DEF D, F, c
<1> QED
  BY <1>1, <1>2, <1>3, <1>4, <1>5, <1>8, <1>9, <1>11, QueueZeroedFlags

-----------------------------------------------------------------------------
(* Mark-and-sweep. *)

\* Marking more objects changes no flag but REACHABLE and TEMPROOT.
LEMMA MarkingFlags ==
  ASSUME FlagInv, UNCHANGED unmarked, reachable \subseteq reachable'
  PROVE  FlagInv'
<1>1. UNCHANGED <<ref, hasFin, heap_allocated, refzero_list, finalize_list,
                  finalizable, finalized, phase, curr, ran>>
  BY DEF unmarked, lists
<1>2. QueueFlags' /\ FinalizableWhere'
  BY <1>1 DEF FlagInv, QueueFlags, FinalizableWhere
<1>3. Called'
  BY <1>1 DEF FlagInv, Called
<1>4. QueueDead'
  BY <1>1 DEF FlagInv, QueueDead
<1> QED
  BY <1>2, <1>3, <1>4 DEF FlagInv

\* When the first temproot scan is over, every reachable object is marked.
LEMMA MarkedIsClosed ==
  ASSUME SafeHeap, phase = "mark_temproots1", Marked, NEW o \in Obj, o \notin reachable
  PROVE  o \notin LiveIn(ref)
<1>1. stack = <<>> /\ temproot = {}
  BY DEF SafeHeap, MarkState, Marked, TemprootPhase
<1>2. \A p : ~Grey(p)
  BY <1>1, EmptyStack DEF Grey
<1>3. \A p \in reachable, f \in Field : ref[<<p, f>>] \in reachable \cup {NULL}
  BY <1>2 DEF SafeHeap, MarkState
<1>4. \A s \in RootSlot : ref[s] \in reachable \cup {NULL}
  BY DEF SafeHeap, MarkState, MsPhase, MarkPhase
<1>5. reachable \in SUBSET Obj /\ {ref[s] : s \in RootSlot} \ {NULL} \subseteq reachable
  BY <1>4 DEF SafeHeap, TypeOK
<1> QED
  BY <1>3, <1>5 DEF LiveIn

\* The end of a marking phase; after the first temproot scan FINALIZABLE is decided.
LEMMA MarkPhaseDoneFlags ==
  ASSUME SafeHeap, FlagInv, MarkPhaseDone
  PROVE  FlagInv'
<1>1. /\ phase \in MarkPhase /\ Marked /\ phase' = NextMarkPhase
      /\ UNCHANGED <<ref, hasFin, heap_allocated, refzero_list, finalize_list,
                     reachable, finalized, curr, ran>>
      /\ phase = "mark_temproots1" => finalizable' = finalizable \cup Finalizable
      /\ phase # "mark_temproots1" => finalizable' = finalizable
  BY DEF MarkPhaseDone, lists
<1>2. CASE phase = "mark_roots"
  <2>1. phase' = "mark_temproots1"
    BY <1>1, <1>2 DEF NextMarkPhase
  <2>2. phase \notin Late /\ phase' \notin Late
    BY <1>2, <2>1 DEF Late
  <2>3. QueueFlags'
    BY <1>1, <1>2 DEF FlagInv, QueueFlags
  <2> QED
    BY <1>1, <1>2, <2>2, <2>3, FlagsOutside DEF FlagInv, FinalizableWhere, Called
<1>3. CASE phase = "mark_temproots1"
  <2>1. phase' = "mark_finalizable" /\ finalizable' = finalizable \cup Finalizable
    BY <1>1, <1>3 DEF NextMarkPhase
  <2>2. phase \notin Late /\ phase' \in Late /\ phase' = "mark_finalizable"
    BY <1>3, <2>1 DEF Late
  <2>3. finalizable \subseteq finalize_list /\ heap_allocated \cap finalize_list = {}
    BY <2>2 DEF FlagInv, FinalizableWhere, SafeHeap, ListsPartition
  <2>4. Finalizable = {o \in heap_allocated : o \notin reachable /\ o \notin finalized /\ o \in hasFin}
    BY DEF Finalizable
  <2>5. QueueFlags'
    BY <1>1, <2>1, <2>4 DEF FlagInv, QueueFlags
  <2>6. FinalizableWhere'
    BY <1>1, <2>1, <2>2, <2>3, <2>4 DEF FinalizableWhere
  <2>7. Called'
    BY <1>1, <2>1, <2>4 DEF FlagInv, Called
  <2>8. QueueDead'
    <3>1. ASSUME NEW o \in heap_allocated, o \in finalizable' PROVE o \notin LiveIn(ref)
      <4>1. o \in Obj /\ o \notin reachable
        BY <2>1, <2>3, <2>4, <3>1 DEF SafeHeap, TypeOK
      <4> QED
        BY <1>1, <1>3, <4>1, MarkedIsClosed
    <3> QED
      BY <1>1, <3>1 DEF QueueDead
  <2> QED
    BY <2>5, <2>6, <2>7, <2>8 DEF FlagInv
<1>4. CASE phase \in {"mark_finalizable", "mark_finalize_list", "mark_temproots2"}
  <2>1. /\ phase \in Late /\ phase' \in Late \ {"mark_finalizable"} /\ finalizable' = finalizable
    BY <1>1, <1>4 DEF NextMarkPhase, Late
  <2>2. heap_allocated \cap finalizable \subseteq reachable
    <3>1. CASE phase = "mark_finalizable"
      <4>1. MarkRoots = heap_allocated \cap finalizable
        BY <3>1 DEF MarkRoots
      <4> QED
        BY <1>1, <4>1 DEF Marked
    <3>2. CASE phase # "mark_finalizable"
      BY <2>1, <3>2 DEF FlagInv, FinalizableWhere
    <3> QED
      BY <3>1, <3>2
  <2>3. QueueFlags'
    BY <1>1, <2>1 DEF FlagInv, QueueFlags
  <2>4. FinalizableWhere'
    BY <1>1, <2>1, <2>2 DEF FlagInv, FinalizableWhere
  <2>5. Called' /\ QueueDead'
    BY <1>1, <2>1 DEF FlagInv, Called, QueueDead
  <2> QED
    BY <2>3, <2>4, <2>5 DEF FlagInv
<1> QED
  BY <1>1, <1>2, <1>3, <1>4 DEF MarkPhase

\* Refcount finalization drops references, so garbage stays garbage.
LEMMA FinalizeRefcountsFlags ==
  ASSUME SafeHeap, FlagInv, FinalizeRefcounts
  PROVE  FlagInv'
<1> DEFINE D == Unreachable \X Field
<1>1. /\ phase = "finalize_refcounts" /\ phase' = "sweep" /\ ref' = DropRef(D)
      /\ UNCHANGED <<hasFin, heap_allocated, refzero_list, finalize_list,
                     reachable, finalizable, finalized, curr, ran>>
  BY DEF FinalizeRefcounts, lists, flags
<1>2. phase \in Late \ {"mark_finalizable"} /\ phase' \in Late \ {"mark_finalizable"}
  BY <1>1 DEF Late
<1>3. heap_allocated \subseteq Obj /\ D \in SUBSET Slot
  <2>1. heap_allocated \subseteq Obj
    BY DEF SafeHeap, TypeOK
  <2> QED
    BY <2>1 DEF Unreachable, Slot
<1>4. \A s \in Slot : ref'[s] = ref[s] \/ ref'[s] = NULL
  BY <1>1, <1>3, DropFacts
<1>5. QueueFlags' /\ FinalizableWhere'
  BY <1>1, <1>2 DEF FlagInv, QueueFlags, FinalizableWhere
<1>6. Called'
  BY <1>1, <1>2 DEF FlagInv, Called
<1>7. QueueDead'
  <2>1. ASSUME NEW o \in heap_allocated \cap finalizable, NEW q, q = ref'
        PROVE  o \notin LiveIn(q)
    <3>1. o \in Obj /\ o \notin LiveIn(ref)
      BY <1>2, <1>3 DEF FlagInv, QueueDead
    <3>2. \A s \in Slot : q[s] = ref[s] \/ q[s] = NULL
      BY <1>4, <2>1
    <3> QED
      BY <3>1, <3>2, DropNotLive
  <2>2. \A o \in heap_allocated \cap finalizable : o \notin LiveIn(ref')
    BY <2>1
  <2> QED
    BY <1>1, <2>2 DEF QueueDead
<1> QED
  BY <1>5, <1>6, <1>7 DEF FlagInv

\* The sweep frees what is not marked and queues what is FINALIZABLE.
LEMMA SweepHeapFlags ==
  ASSUME SafeHeap, FlagInv, SweepHeap
  PROVE  FlagInv'
<1> DEFINE queue == heap_allocated \cap reachable \cap finalizable
           keep == (heap_allocated \cap reachable) \ finalizable
<1>1. /\ phase = "sweep" /\ phase' = "pf_enter"
      /\ finalize_list' = finalize_list \cup queue
      /\ finalized' = (finalized \ Unreachable) \ (IF postpone_rescue THEN {} ELSE keep)
      /\ hasFin' = hasFin \ Unreachable /\ ran' = ran \ Unreachable
      /\ UNCHANGED <<refzero_list, finalizable, curr>>
  BY DEF SweepHeap
<1>2. phase \in Late \ {"mark_finalizable"} /\ phase' \notin Late
  BY <1>1 DEF Late
<1>3. refzero_list = {} /\ (curr # NULL => curr \in finalize_list) /\ heap_allocated \cap finalize_list = {}
  BY <1>1 DEF SafeHeap, RefzeroInline, FinalizerContext, ListsPartition
<1>4. finalized' \subseteq finalized \ Unreachable /\ (finalized \ heap_allocated) \subseteq finalized'
  BY <1>1 DEF Unreachable
<1>5. QueueFlags'
  <2>1. finalize_list' \ {curr} \subseteq finalizable
    BY <1>1 DEF FlagInv, QueueFlags
  <2>2. finalizable \cap finalized' = {}
    BY <1>4 DEF FlagInv, QueueFlags
  <2>3. curr # NULL => curr \in finalized'
    BY <1>3, <1>4 DEF FlagInv, QueueFlags
  <2> QED
    BY <1>1, <2>1, <2>2, <2>3 DEF QueueFlags
<1>6. finalizable' \subseteq finalize_list'
  BY <1>1, <1>2 DEF FlagInv, FinalizableWhere
<1>7. finalized' \subseteq ran'
  BY <1>1, <1>4 DEF FlagInv, Called
<1> QED
  BY <1>1, <1>2, <1>3, <1>5, <1>6, <1>7, FlagsOutside

-----------------------------------------------------------------------------
(* The flags in every step. *)

LEMMA FlagInit == Init => FlagInv
BY DEF Init, FlagInv, QueueFlags, FinalizableWhere, Called, QueueDead, Late

LEMMA FlagStep == SafeHeap /\ FlagInv /\ [Next]_vars => FlagInv'
<1> SUFFICES ASSUME SafeHeap, FlagInv, [Next]_vars PROVE FlagInv'
  OBVIOUS
<1>1. SafeHeap'
  BY SafeStep
<1>2. CASE \E s \in Slot, v \in Obj \cup {NULL}, norz \in BOOLEAN : SetSlot(s, v, norz)
  BY <1>2, SetSlotFlags
<1>3. CASE \E o \in Obj, r \in Reg : PushHeapptr(o, r)
  BY <1>3, PushHeapptrFlags
<1>4. CASE \/ \E r \in Reg : Alloc(r)
           \/ \E o \in Obj : SetFinalizer(o)
           \/ RefzeroCheck \/ PreventFinalizers \/ AllowFinalizers
           \/ DebugPause \/ DebugResume \/ PfEnter \/ PfEnd \/ MarkAndSweep
  BY <1>4, QuietFlags
<1>5. CASE FinalizerReturn
  BY <1>5, FinalizerReturnFlags
<1>6. CASE FreePending
  BY <1>1, <1>6, FreePendingFlags
<1>7. CASE PfRunFinalizer
  BY <1>7, PfRunFinalizerFlags
<1>8. CASE PfFree
  BY <1>8, PfFreeFlags
<1>9. CASE MarkRoot \/ MarkChild \/ MarkReturn \/ TemprootScan \/ HandleTemproot
  <2>1. UNCHANGED unmarked /\ reachable \subseteq reachable'
    BY <1>9 DEF MarkRoot, MarkChild, MarkReturn, TemprootScan, HandleTemproot, Mark
  <2> QED
    BY <2>1, MarkingFlags
<1>10. CASE MarkPhaseDone
  BY <1>10, MarkPhaseDoneFlags
<1>11. CASE FinalizeRefcounts
  BY <1>11, FinalizeRefcountsFlags
<1>12. CASE SweepHeap
  BY <1>12, SweepHeapFlags
<1>13. CASE UNCHANGED vars
  <2>1. UNCHANGED unmarked /\ reachable \subseteq reachable'
    BY <1>13 DEF vars, unmarked, lists, flags, marking
  <2> QED
    BY <2>1, MarkingFlags
<1> QED
  BY <1>2, <1>3, <1>4, <1>5, <1>6, <1>7, <1>8, <1>9, <1>10, <1>11, <1>12, <1>13
  DEF Next, Mutator, Engine, Marking

\* The flags of every object say where its finalizer call stands, in every state,
\* also across a finalizer, a debugger pause and a mark-and-sweep.
THEOREM FlagsAlways == Spec => []FlagInv
BY FlagInit, FlagStep, HeapSafe, PTL DEF Spec

\* The object is queued with a count of one, its bump, so nothing refers to it.
LEMMA ZeroedGarbage ==
  ASSUME SafeHeap', NEW c, NEW D, QueueZeroed(Zeroed(c, D), DropRc(c, D)),
         NEW o \in ToFinalize(Zeroed(c, D))
  PROVE  o \notin LiveIn(ref')
<1>1. o \in finalize_list' /\ o \in Obj /\ rc' = Bumped(DropRc(c, D), ToFinalize(Zeroed(c, D)))
      /\ DropRc(c, D)[o] = 0
  BY DEF QueueZeroed, ToFinalize, Zeroed
<1>2. rc'[o] = 1
  BY <1>1 DEF Bumped
<1>3. Bump(o)' = 1 /\ o \in mem'
  BY <1>1 DEF Bump, SafeHeap, ListsPartition
<1> DEFINE r == ref'
<1>4. r \in [Slot -> Obj \cup {NULL}]
  BY DEF SafeHeap, TypeOK
<1>5. rc'[o] = Cardinality(Refs(r, Slot, o)) + 1
  BY <1>3 DEF SafeHeap, RefcountExact, RefsIn, Refs
<1> HIDE DEF r
<1>6. Cardinality(Refs(r, Slot, o)) = 0
  BY <1>2, <1>5, RefsFinite
<1>7. \A s \in Slot : r[s] # o
  BY <1>6, NoRefs
<1>8. o \notin LiveIn(r)
  BY <1>4, <1>7, UnheldNotLive
<1> QED
  BY <1>8 DEF r

\* Every step queues garbage only.
LEMMA QueueStep ==
  ASSUME SafeHeap, FlagInv, [Next]_vars, NEW o \in finalize_list' \ finalize_list
  PROVE  o \notin Live'
<1>1. SafeHeap'
  BY SafeStep
<1> SUFFICES o \notin LiveIn(ref')
  BY DEF Live, LiveIn, InHand
<1>2. CASE \E s \in Slot, v \in Obj \cup {NULL}, norz \in BOOLEAN : SetSlot(s, v, norz)
  <2>1. PICK s \in Slot, v \in Obj \cup {NULL}, norz \in BOOLEAN : SetSlot(s, v, norz)
    BY <1>2
  <2> DEFINE c == IncRef(rc, v)
             D == {s}
  <2>2. QueueZeroed(Zeroed(c, D), DropRc(c, D))
    BY <2>1 DEF SetSlot
  <2> HIDE DEF c, D
  <2>3. o \in ToFinalize(Zeroed(c, D))
    BY <2>2 DEF QueueZeroed
  <2> QED
    BY <1>1, <2>2, <2>3, ZeroedGarbage
<1>3. CASE FreePending
  <2>1. PICK p \in refzero_list : FreePending!2!(p)
    BY <1>3 DEF FreePending
  <2> DEFINE D == OwnSlots(p)
  <2>2. QueueZeroed(Zeroed(rc, D), DropRc(rc, D))
    BY <2>1
  <2> HIDE DEF D
  <2>3. o \in ToFinalize(Zeroed(rc, D))
    BY <2>2 DEF QueueZeroed
  <2> QED
    BY <1>1, <2>2, <2>3, ZeroedGarbage
<1>4. CASE PfFree
  <2> DEFINE D == OwnSlots(curr)
             c == [rc EXCEPT ![curr] = 0]
  <2>2. QueueZeroed(Zeroed(c, D), DropRc(c, D))
    BY <1>4 DEF PfFree
  <2> HIDE DEF c, D
  <2>3. o \in ToFinalize(Zeroed(c, D))
    BY <2>2 DEF QueueZeroed
  <2> QED
    BY <1>1, <2>2, <2>3, ZeroedGarbage
<1>5. CASE SweepHeap
  <2>1. o \in heap_allocated \cap finalizable /\ ref' = ref /\ phase \in Late
    BY <1>5 DEF SweepHeap, Late
  <2> QED
    BY <2>1 DEF FlagInv, QueueDead
<1>6. CASE finalize_list' \subseteq finalize_list
  BY <1>6
<1> QED
  BY <1>2, <1>3, <1>4, <1>5, <1>6
  DEF Next, Mutator, Engine, Marking, Alloc, SetFinalizer, PushHeapptr, RefzeroCheck,
      PreventFinalizers, AllowFinalizers, DebugPause, DebugResume, FinalizerReturn, MarkAndSweep,
      PfEnter, PfRunFinalizer, PfEnd, MarkRoot, MarkChild, MarkReturn, TemprootScan,
      HandleTemproot, MarkPhaseDone, FinalizeRefcounts, unmarked, lists, vars

\* Every step frees only objects without a finalizer or with a finalizer that was called.
LEMMA FreeStep ==
  ASSUME SafeHeap, FlagInv, [Next]_vars, NEW o \in mem \ mem', o \in hasFin
  PROVE  o \in ran
<1>1. CASE FreePending
  <2>1. o \in refzero_list
    BY <1>1 DEF FreePending, Freed
  <2> QED
    BY <2>1 DEF FlagInv, Called
<1>2. CASE PfFree
  <2>1. o = curr /\ curr # NULL
    BY <1>2, HeapFacts DEF PfFree, Freed
  <2> QED
    BY <2>1 DEF FlagInv, QueueFlags, Called
<1>3. CASE SweepHeap
  <2>1. o \in heap_allocated /\ o \notin reachable /\ phase \in Late \ {"mark_finalizable"}
    BY <1>3 DEF SweepHeap, Late, Unreachable
  <2>2. o \in finalized \cup finalizable /\ o \notin finalizable
    BY <2>1 DEF FlagInv, Called, FinalizableWhere
  <2> QED
    BY <2>2 DEF FlagInv, Called
<1>4. CASE mem \subseteq mem'
  BY <1>4
<1> QED
  BY <1>1, <1>2, <1>3, <1>4
  DEF Next, Mutator, Engine, Marking, Alloc, SetSlot, SetFinalizer, PushHeapptr, RefzeroCheck,
      PreventFinalizers, AllowFinalizers, DebugPause, DebugResume, FinalizerReturn, MarkAndSweep,
      PfEnter, PfRunFinalizer, PfEnd, MarkRoot, MarkChild, MarkReturn, TemprootScan,
      HandleTemproot, MarkPhaseDone, FinalizeRefcounts, unmarked, vars

\* Only objects ordinary code cannot reach are queued for finalization, by a
\* refzero or by mark-and-sweep, whatever the recursion limit of marking.
THEOREM OnlyGarbageQueued == Spec => QueuedIsGarbage
<1>1. SafeHeap /\ FlagInv /\ [Next]_vars => [\A o \in finalize_list' \ finalize_list : o \notin Live']_vars
  BY QueueStep
<1> QED
  BY <1>1, HeapSafe, FlagsAlways, PTL DEF Spec, QueuedIsGarbage

\* An object with a finalizer is never freed before its finalizer was called,
\* whether a refzero cascade, the end of a finalizer or a sweep frees it.
THEOREM FinalizedFirst == Spec => FinalizedBeforeFree
<1>1. SafeHeap /\ FlagInv /\ [Next]_vars => [\A o \in mem \ mem' : o \in hasFin => o \in ran]_vars
  BY FreeStep
<1> QED
  BY <1>1, HeapSafe, FlagsAlways, PTL DEF Spec, FinalizedBeforeFree

\* FINALIZABLE, FINALIZED, REACHABLE and TEMPROOT agree with the lists and with the
\* finalizer call in progress, whatever the debugger, nested code and the
\* recursion limit do.
THEOREM FlagsHold == Spec => []FlagDiscipline
<1>1. SafeHeap /\ FlagInv => FlagDiscipline
  <2> SUFFICES ASSUME SafeHeap, FlagInv PROVE FlagDiscipline
    OBVIOUS
  <2>1. finalize_list \ {curr} \subseteq finalizable \ finalized
    BY DEF FlagInv, QueueFlags
  <2>2. curr # NULL => curr \in finalized \ finalizable
    BY DEF FlagInv, QueueFlags
  <2>3. phase \notin MsPhase => finalizable \subseteq finalize_list
    BY FlagFacts
  <2>4. phase \notin MsPhase => reachable = {} /\ temproot = {}
    BY DEF SafeHeap, MarkState
  <2> QED
    BY <2>1, <2>2, <2>3, <2>4 DEF FlagDiscipline
<1> QED
  BY <1>1, HeapSafe, FlagsAlways, PTL

-----------------------------------------------------------------------------
(* Reference counts of zero. *)

\* An object some slot holds has a positive count.
LEMMA HeldCount ==
  ASSUME SafeHeap, NEW o \in mem, NEW s \in Slot, ref[s] = o
  PROVE  rc[o] > 0
<1>1. Cardinality(Refs(ref, Slot, o)) # 0
  BY NoRefs
<1> QED
  BY <1>1, HeapFacts

\* Counts are never negative.
LEMMA CountNat ==
  ASSUME SafeHeap, NEW o \in mem
  PROVE  rc[o] \in Nat
<1>1. rc[o] = Cardinality(Refs(ref, Slot, o)) + Bump(o) /\ Bump(o) \in {0, 1}
      /\ Cardinality(Refs(ref, Slot, o)) \in Nat
  BY HeapFacts
<1> QED
  BY <1>1

\* Dropping references takes every object whose count reaches zero off heap_allocated.
LEMMA QueueZeroedCounts ==
  ASSUME SafeHeap, SafeHeap', CountInv, NEW c \in [Obj -> Int], NEW D \in SUBSET Slot,
         \A o \in heap_allocated : c[o] > 0,
         QueueZeroed(Zeroed(c, D), DropRc(c, D)), ms_running' = ms_running,
         phase \notin MsPhase, phase' \notin MsPhase, reachable' = reachable
  PROVE  CountInv'
<1>1. ms_running = 0 /\ reachable = {}
  BY DEF CountInv, SafeHeap, MarkState
<1>2. ASSUME NEW o \in heap_allocated' PROVE rc'[o] > 0
  <2>1. o \in heap_allocated /\ o \notin Zeroed(c, D) /\ o \in Obj
    BY <1>2 DEF QueueZeroed, SafeHeap, TypeOK
  <2>2. rc'[o] = c[o] - Cardinality(Refs(ref, D, o))
                   + (IF o \in ToFinalize(Zeroed(c, D)) THEN 1 ELSE 0)
    BY <2>1, QueuedCounts
  <2>3. o \notin ToFinalize(Zeroed(c, D))
    BY <2>1 DEF ToFinalize
  <2>4. rc'[o] \in Nat
    <3>1. o \in mem'
      BY <1>2 DEF SafeHeap, ListsPartition
    <3>2. rc'[o] = Cardinality(Refs(ref', Slot, o)) + Bump(o)'
      BY <3>1 DEF SafeHeap, RefcountExact, RefsIn, Refs
    <3>3. Bump(o)' \in {0, 1} /\ Cardinality(Refs(ref', Slot, o)) \in Nat
      BY RefsFinite DEF Bump
    <3> QED
      BY <3>2, <3>3
  <2>5. CASE Refs(ref, D, o) = {}
    <3>1. Cardinality(Refs(ref, D, o)) = 0
      BY <2>5, SomeRefs
    <3>2. c[o] > 0 /\ c[o] \in Int
      BY <2>1
    <3> QED
      BY <2>2, <2>3, <3>1, <3>2
  <2>6. CASE Refs(ref, D, o) # {}
    <3>1. DropRc(c, D)[o] # 0
      BY <1>1, <2>1, <2>6, RefsInRefs DEF Zeroed
    <3>2. DropRc(c, D)[o] = c[o] - Cardinality(Refs(ref, D, o))
      BY <2>1, RefsInRefs DEF DropRc
    <3>3. rc'[o] = c[o] - Cardinality(Refs(ref, D, o)) /\ c[o] \in Int
          /\ Cardinality(Refs(ref, D, o)) \in Nat
      BY <2>1, <2>2, <2>3, RefsFinite
    <3> QED
      BY <2>4, <3>1, <3>2, <3>3
  <2> QED
    BY <2>5, <2>6
<1>3. reachable' = {} /\ phase' # "sweep"
  BY <1>1 DEF MsPhase
<1> QED
  BY <1>1, <1>2, <1>3 DEF CountInv

\* Steps outside mark-and-sweep that queue nothing.
LEMMA CountsOutside ==
  ASSUME SafeHeap, SafeHeap', CountInv, phase \notin MsPhase, ms_running' = ms_running,
         reachable' = reachable, phase' \notin MsPhase,
         \A o \in heap_allocated' : rc'[o] > 0
  PROVE  CountInv'
<1>1. ms_running' = 0 /\ reachable' = {}
  BY DEF CountInv, SafeHeap, MarkState
<1> QED
  BY <1>1 DEF CountInv

\* Steps of ordinary code that leave counts and lists alone; there is no debugger.
LEMMA QuietCounts ==
  ASSUME ~Debugger, SafeHeap, SafeHeap', CountInv,
         \/ \E o \in Obj : SetFinalizer(o)
         \/ RefzeroCheck \/ PreventFinalizers \/ AllowFinalizers
         \/ DebugPause \/ DebugResume \/ PfEnter \/ PfEnd
  PROVE  CountInv'
<1>1. /\ phase \in {"run", "pf_enter", "pf"} /\ phase' \in {"run", "pf_enter", "pf"}
      /\ UNCHANGED <<rc, heap_allocated, reachable>>
      /\ ms_running' = ms_running \/ ms_running' = 0
  BY DEF SetFinalizer, RefzeroCheck, PreventFinalizers, AllowFinalizers, DebugPause,
         DebugResume, PfEnter, PfEnd, Running, lists, flags
<1>2. phase \notin MsPhase /\ phase' \notin MsPhase /\ phase # "sweep"
  BY <1>1, PhaseFacts
<1>3. ms_running' = ms_running
  BY <1>1, <1>2 DEF CountInv
<1>4. \A o \in heap_allocated' : rc'[o] > 0
  BY <1>1, <1>2 DEF CountInv
<1> QED
  BY <1>1, <1>2, <1>3, <1>4, CountsOutside

LEMMA AllocCounts ==
  ASSUME SafeHeap, SafeHeap', CountInv, NEW r \in Reg, Alloc(r)
  PROVE  CountInv'
<1>1. PICK o \in Obj \ mem : heap_allocated' = heap_allocated \cup {o} /\ rc' = [rc EXCEPT ![o] = 1]
  BY DEF Alloc
<1>2. /\ phase = "run" /\ phase' = phase /\ UNCHANGED <<ms_running, reachable>>
  BY DEF Alloc, Running, flags
<1>3. phase \notin MsPhase /\ phase # "sweep" /\ rc \in [Obj -> Int] /\ heap_allocated \subseteq Obj
  BY <1>2, PhaseFacts DEF SafeHeap, TypeOK
<1>4. \A p \in heap_allocated' : rc'[p] > 0
  BY <1>1, <1>3 DEF CountInv
<1> QED
  BY <1>2, <1>3, <1>4, CountsOutside

\* An object queued back by duk_push_heapptr() has the pushed reference.
LEMMA PushHeapptrCounts ==
  ASSUME SafeHeap, SafeHeap', CountInv, NEW o \in Obj, NEW r \in Reg, PushHeapptr(o, r)
  PROVE  CountInv'
<1>1. /\ phase = "run" /\ phase' = phase /\ UNCHANGED <<ms_running, reachable>> /\ o \in finalize_list
      /\ \/ rc' = [rc EXCEPT ![o] = (@ - 1) + 1]
         \/ rc' = [rc EXCEPT ![o] = @ + 1]
      /\ heap_allocated' \subseteq heap_allocated \cup {o}
  BY DEF PushHeapptr, Running
<1>2. phase \notin MsPhase /\ phase # "sweep" /\ rc \in [Obj -> Int] /\ heap_allocated \subseteq Obj
  BY <1>1, PhaseFacts DEF SafeHeap, TypeOK
<1>3. rc[o] > 0
  <2>1. o \in mem /\ Bump(o) = 1
    BY <1>1, HeapFacts DEF Bump
  <2> QED
    BY <2>1, HeapFacts
<1>4. \A p \in heap_allocated' : rc'[p] > 0
  BY <1>1, <1>2, <1>3 DEF CountInv
<1> QED
  BY <1>1, <1>2, <1>4, CountsOutside

LEMMA PfRunFinalizerCounts ==
  ASSUME SafeHeap, SafeHeap', CountInv, PfRunFinalizer
  PROVE  CountInv'
<1>1. PICK o \in finalize_list : rc' = [rc EXCEPT ![o] = @ + 1]
  BY DEF PfRunFinalizer
<1>2. /\ phase = "pf" /\ phase' = "run" /\ UNCHANGED <<ms_running, reachable, heap_allocated>>
  BY DEF PfRunFinalizer, lists
<1>3. /\ phase \notin MsPhase /\ phase' \notin MsPhase /\ phase # "sweep"
      /\ rc \in [Obj -> Int] /\ heap_allocated \subseteq Obj
  BY <1>2, PhaseFacts DEF SafeHeap, TypeOK
<1>4. \A p \in heap_allocated' : rc'[p] > 0
  BY <1>1, <1>2, <1>3 DEF CountInv
<1> QED
  BY <1>2, <1>3, <1>4, CountsOutside

\* An object queued back after its finalizer has a reference left without the bump.
LEMMA FinalizerReturnCounts ==
  ASSUME SafeHeap, SafeHeap', CountInv, FinalizerReturn
  PROVE  CountInv'
<1>1. /\ phase = "run" /\ phase' \in {"pf", "pf_free"} /\ curr # NULL
      /\ UNCHANGED <<ms_running, reachable>>
      /\ \/ heap_allocated' = heap_allocated /\ rc' = [rc EXCEPT ![curr] = @ - 1]
         \/ /\ rc[curr] - 1 # 1 /\ rc' = [rc EXCEPT ![curr] = @ - 2]
            /\ heap_allocated' = heap_allocated \cup {curr}
  BY DEF FinalizerReturn, Running, OnlyBumpLeft
<1>2. /\ phase \notin MsPhase /\ phase' \notin MsPhase /\ phase # "sweep" /\ phase # "pf_free"
      /\ rc \in [Obj -> Int] /\ heap_allocated \subseteq Obj
  BY <1>1, PhaseFacts DEF SafeHeap, TypeOK
<1>3. /\ curr \in mem /\ curr \in finalize_list /\ ref[FinSlot] = curr /\ curr \in Obj
      /\ curr \notin heap_allocated
  BY <1>1, <1>2, HeapFacts DEF SafeHeap, FinalizerContext, ListsPartition
<1>4. rc[curr] >= 2
  <2>1. FinSlot \in Slot
    BY SlotFacts, HeapFacts
  <2>2. Cardinality(Refs(ref, Slot, curr)) # 0
    BY <1>3, <2>1, NoRefs
  <2>3. Bump(curr) = 1
    BY DEF Bump
  <2> QED
    BY <1>3, <2>2, <2>3, HeapFacts
<1>5. rc[curr] \in Int
  BY <1>2, <1>3
<1>6. \A p \in heap_allocated' : rc'[p] > 0
  BY <1>1, <1>2, <1>3, <1>4, <1>5 DEF CountInv
<1> QED
  BY <1>1, <1>2, <1>6, CountsOutside

LEMMA SetSlotCounts ==
  ASSUME SafeHeap, SafeHeap', CountInv, NEW s \in Slot, NEW v \in Obj \cup {NULL},
         NEW norz \in BOOLEAN, SetSlot(s, v, norz)
  PROVE  CountInv'
<1> DEFINE c == IncRef(rc, v)
           D == {s}
<1>1. /\ phase = "run" /\ phase' \in {"run", "pf_enter", "free_pending"}
      /\ QueueZeroed(Zeroed(c, D), DropRc(c, D))
      /\ UNCHANGED <<ms_running, reachable>>
  BY DEF SetSlot, Running, AfterDecref
<1>2. phase \notin MsPhase /\ phase' \notin MsPhase /\ phase # "sweep"
  BY <1>1, PhaseFacts
<1>3. D \in SUBSET Slot /\ rc \in [Obj -> Int] /\ heap_allocated \subseteq Obj
  BY DEF SafeHeap, TypeOK
<1>4. c \in [Obj -> Int] /\ \A o \in Obj : c[o] >= rc[o]
  BY <1>3 DEF IncRef
<1>5. \A o \in heap_allocated : c[o] > 0
  BY <1>2, <1>3, <1>4 DEF CountInv
<1> HIDE DEF c, D
<1> QED
  BY <1>1, <1>2, <1>3, <1>4, <1>5, QueueZeroedCounts

LEMMA FreePendingCounts ==
  ASSUME SafeHeap, SafeHeap', CountInv, FreePending
  PROVE  CountInv'
<1>1. PICK o \in refzero_list : FreePending!2!(o)
  BY DEF FreePending
<1> DEFINE D == OwnSlots(o)
<1>2. QueueZeroed(Zeroed(rc, D), DropRc(rc, D)) /\ (phase' = after \/ phase' = phase)
  BY <1>1
<1>3. phase = "free_pending" /\ UNCHANGED <<ms_running, reachable>>
  BY DEF FreePending
<1>4. D \in SUBSET Slot /\ rc \in [Obj -> Int]
  BY <1>1, HeapFacts, SlotFacts DEF TypeOK
<1>5. phase \notin MsPhase /\ phase' \notin MsPhase /\ phase # "sweep"
  <2>1. after \in {"run", "pf_enter", "pf"}
    BY DEF SafeHeap, TypeOK
  <2> QED
    BY <1>2, <1>3, <2>1, PhaseFacts
<1>6. \A p \in heap_allocated : rc[p] > 0
  BY <1>5 DEF CountInv
<1> HIDE DEF D
<1> QED
  BY <1>2, <1>3, <1>4, <1>5, <1>6, QueueZeroedCounts

LEMMA PfFreeCounts ==
  ASSUME SafeHeap, SafeHeap', CountInv, PfFree
  PROVE  CountInv'
<1> DEFINE D == OwnSlots(curr)
           c == [rc EXCEPT ![curr] = 0]
<1>1. /\ QueueZeroed(Zeroed(c, D), DropRc(c, D)) /\ UNCHANGED <<ms_running, reachable>>
      /\ phase = "pf_free" /\ phase' \in {"free_pending", "pf"}
  BY DEF PfFree
<1>2. phase \notin MsPhase /\ phase' \notin MsPhase /\ phase # "sweep"
  BY <1>1, PhaseFacts
<1>3. curr # NULL /\ curr \notin heap_allocated
  BY <1>1 DEF SafeHeap, FinalizerContext, ListsPartition
<1>4. D \in SUBSET Slot /\ curr \in Obj /\ rc \in [Obj -> Int] /\ heap_allocated \subseteq Obj
  BY <1>3, HeapFacts, SlotFacts DEF TypeOK
<1>5. c \in [Obj -> Int] /\ \A o \in heap_allocated : c[o] > 0
  BY <1>2, <1>3, <1>4 DEF CountInv
<1> HIDE DEF c, D
<1> QED
  BY <1>1, <1>2, <1>4, <1>5, QueueZeroedCounts

\* Mark-and-sweep starts with no object marked and positive counts.
LEMMA MarkAndSweepCounts ==
  ASSUME SafeHeap, CountInv, MarkAndSweep
  PROVE  CountInv'
<1>1. phase = "run" /\ phase' = "mark_roots" /\ UNCHANGED <<rc, heap_allocated, reachable>>
  BY DEF MarkAndSweep, Running, lists, flags
<1>2. phase \notin MsPhase /\ phase' \in MsPhase /\ phase # "sweep"
  BY <1>1 DEF MsPhase, MarkPhase
<1>3. reachable' = {}
  BY <1>1, <1>2 DEF SafeHeap, MarkState
<1> QED
  BY <1>1, <1>2, <1>3 DEF CountInv

\* Marking touches no count, and what it marks is referred to or FINALIZABLE.
LEMMA MarkingCounts ==
  ASSUME SafeHeap, CountInv, NEW S \in SUBSET Obj, reachable' = reachable \cup S,
         UNCHANGED <<rc, ref, heap_allocated, ms_running>>, phase \in MsPhase \ {"sweep"},
         phase' \in MsPhase, finalizable \subseteq finalizable',
         \A o \in (S \cap heap_allocated) \ finalizable : Anchored(o)
  PROVE  CountInv'
<1>1. \A o \in heap_allocated' : rc'[o] > 0
  BY DEF CountInv
<1>2. \A o \in (heap_allocated' \cap reachable') \ finalizable' : Anchored(o)'
  <2> SUFFICES ASSUME NEW o \in (heap_allocated' \cap reachable') \ finalizable'
               PROVE  Anchored(o)'
    OBVIOUS
  <2>1. Anchored(o)
    BY DEF CountInv
  <2> QED
    BY <2>1 DEF Anchored
<1> QED
  BY <1>1, <1>2 DEF CountInv

\* Each marking step.
LEMMA MarkingStepCounts ==
  ASSUME SafeHeap, CountInv, Marking
  PROVE  CountInv'
<1> USE HeapAssumption
<1>1. /\ phase \in MsPhase \ {"sweep"} /\ phase' \in MsPhase
      /\ UNCHANGED <<rc, ref, heap_allocated, ms_running>> /\ finalizable \subseteq finalizable'
  <2>1. phase \in MarkPhase /\ UNCHANGED <<rc, ref, heap_allocated, ms_running>>
    BY DEF Marking, MarkRoot, MarkChild, MarkReturn, TemprootScan, HandleTemproot, MarkPhaseDone,
           unmarked, lists, TemprootPhase, MarkPhase
  <2>2. phase' \in MsPhase /\ finalizable \subseteq finalizable'
    <3>1. CASE MarkPhaseDone
      BY <2>1, <3>1 DEF MarkPhaseDone, NextMarkPhase, MarkPhase, MsPhase
    <3>2. CASE ~MarkPhaseDone
      <4>1. UNCHANGED unmarked
        BY <3>2 DEF Marking, MarkRoot, MarkChild, MarkReturn, TemprootScan, HandleTemproot
      <4> QED
        BY <2>1, <4>1 DEF unmarked, MsPhase
    <3> QED
      BY <3>1, <3>2
  <2> QED
    BY <2>1, <2>2 DEF MsPhase, MarkPhase
<1>2. CASE MarkReturn \/ TemprootScan \/ HandleTemproot \/ MarkPhaseDone
  <2> DEFINE S == {}
  <2>1. S \in SUBSET Obj /\ reachable' = reachable \cup S /\ (S \cap heap_allocated) \ finalizable = {}
    BY <1>2 DEF MarkReturn, TemprootScan, HandleTemproot, MarkPhaseDone
  <2> HIDE DEF S
  <2> QED
    BY <1>1, <2>1, MarkingCounts
<1>3. CASE MarkRoot
  <2>1. PICK o \in MarkRoots : reachable' = reachable \cup {o} /\ phase \in MarkPhase
    BY <1>3 DEF MarkRoot, Mark
  <2>2. /\ InHand \subseteq Obj /\ finalize_list \subseteq Obj /\ heap_allocated \subseteq Obj
        /\ RootSlot \subseteq Slot
    BY HeapFacts, SlotFacts DEF TypeOK
  <2>3. o \in InHand \/ o \in heap_allocated \cap finalizable \/ o \in finalize_list
    BY <2>1 DEF MarkRoots
  <2>4. o \in Obj
    BY <2>2, <2>3
  <2>5. CASE o \in InHand
    <3>1. Anchored(o)
      BY <2>2, <2>5 DEF InHand, Anchored
    <3> DEFINE S == {o}
    <3>2. /\ S \in SUBSET Obj /\ reachable' = reachable \cup S
          /\ \A p \in (S \cap heap_allocated) \ finalizable : Anchored(p)
      BY <2>1, <2>4, <3>1
    <3> HIDE DEF S
    <3> QED
      BY <1>1, <3>2, MarkingCounts
  <2>6. CASE o \in heap_allocated \cap finalizable \/ o \in finalize_list
    <3>1. o \notin heap_allocated \ finalizable
      BY <2>6 DEF SafeHeap, ListsPartition
    <3> DEFINE S == {o}
    <3>2. S \in SUBSET Obj /\ reachable' = reachable \cup S /\ (S \cap heap_allocated) \ finalizable = {}
      BY <2>1, <2>4, <3>1
    <3> HIDE DEF S
    <3> QED
      BY <1>1, <3>2, MarkingCounts
  <2> QED
    BY <2>3, <2>5, <2>6
<1>4. CASE MarkChild
  <2> DEFINE h == Head(stack)
  <2>1. PICK f \in Field : /\ ref[<<h, f>>] \notin reachable \cup {NULL}
                           /\ reachable' = reachable \cup {ref[<<h, f>>]} /\ stack # <<>>
    BY <1>4 DEF MarkChild, Mark
  <2>2. stack \in Seq(Obj) /\ h \in Obj /\ OnStack(stack, h)
    <3>1. stack \in Seq(Obj)
      BY DEF SafeHeap, TypeOK
    <3>2. 1 \in 1..Len(stack) /\ stack[1] = h /\ h \in Obj
      BY <2>1, <3>1
    <3> QED
      BY <3>1, <3>2 DEF OnStack
  <2>3. h \in reachable
    BY <2>2 DEF SafeHeap, MarkState, Grey
  <2> HIDE DEF h
  <2> DEFINE o == ref[<<h, f>>]
  <2>4. <<h, f>> \in Slot /\ o \in Obj
    <3>1. <<h, f>> \in Slot
      BY <2>2 DEF Slot
    <3> QED
      BY <2>1, <3>1 DEF SafeHeap, TypeOK
  <2>5. Anchored(o)
    <3> DEFINE s == <<h, f>>
    <3>1. s \in Slot /\ ref[s] = o /\ s[1] = h
      BY <2>4
    <3> HIDE DEF s
    <3> QED
      BY <2>3, <3>1 DEF Anchored
  <2>6. reachable' = reachable \cup {o}
    BY <2>1
  <2> HIDE DEF o
  <2> QED
    BY <1>1, <2>4, <2>5, <2>6, MarkingCounts
<1> QED
  BY <1>2, <1>3, <1>4 DEF Marking

\* Refcount finalization keeps the slots of roots and of marked objects.
LEMMA FinalizeRefcountsCounts ==
  ASSUME SafeHeap, CountInv, FinalizeRefcounts
  PROVE  CountInv'
<1> USE HeapAssumption
<1> DEFINE D == Unreachable \X Field
<1>1. /\ phase' = "sweep" /\ ref' = DropRef(D)
      /\ UNCHANGED <<heap_allocated, reachable, finalizable>>
  BY DEF FinalizeRefcounts, lists, flags
<1>2. heap_allocated \subseteq Obj /\ D \in SUBSET Slot
  <2>1. heap_allocated \subseteq Obj
    BY DEF SafeHeap, TypeOK
  <2> QED
    BY <2>1 DEF Unreachable, Slot
<1>3. \A s \in Slot \ D : ref'[s] = ref[s]
  BY <1>1, <1>2, DropFacts
<1>4. ASSUME NEW o, Anchored(o) PROVE Anchored(o)'
  <2>1. PICK s \in Slot : ref[s] = o /\ (s \in RootSlot \/ s[1] \in reachable)
    BY <1>4 DEF Anchored
  <2>2. s \notin D
    <3>1. \A t \in D : t[1] \in Unreachable
      OBVIOUS
    <3>2. \A t \in RootSlot : t[1] = ROOT
      BY DEF RootSlot
    <3>3. Unreachable \subseteq Obj /\ Unreachable \cap reachable = {} /\ ROOT \notin Obj
      BY <1>2 DEF Unreachable
    <3> HIDE DEF D
    <3> QED
      BY <2>1, <3>1, <3>2, <3>3
  <2> QED
    BY <1>1, <1>3, <2>1, <2>2 DEF Anchored
<1> QED
  BY <1>1, <1>4 DEF CountInv, MsPhase

\* What the sweep keeps is referred to.
LEMMA SweepHeapCounts ==
  ASSUME SafeHeap, CountInv, SweepHeap
  PROVE  CountInv'
<1> DEFINE queue == heap_allocated \cap reachable \cap finalizable
           keep == (heap_allocated \cap reachable) \ finalizable
<1>1. /\ heap_allocated' = keep /\ rc' = Bumped(rc, queue) /\ reachable' = {} /\ ms_running' = 0
  BY DEF SweepHeap
<1>2. ASSUME NEW o \in keep PROVE rc'[o] > 0
  <2>1. o \in mem /\ o \in Obj /\ o \notin queue
    BY HeapFacts
  <2>2. PICK s \in Slot : ref[s] = o
    BY DEF CountInv, Anchored
  <2>3. rc[o] > 0
    BY <2>1, <2>2, HeldCount
  <2> HIDE DEF queue
  <2> QED
    BY <1>1, <2>1, <2>3 DEF Bumped
<1> QED
  BY <1>1, <1>2 DEF CountInv

LEMMA CountInit == Init => CountInv
BY DEF Init, CountInv

\* Every step of a heap without a debugger keeps counts positive.
LEMMA CountStep ==
  ASSUME ~Debugger
  PROVE  SafeHeap /\ CountInv /\ [Next]_vars => CountInv'
<1> SUFFICES ASSUME SafeHeap, CountInv, [Next]_vars PROVE CountInv'
  OBVIOUS
<1>1. SafeHeap'
  BY SafeStep
<1>2. CASE \E s \in Slot, v \in Obj \cup {NULL}, norz \in BOOLEAN : SetSlot(s, v, norz)
  BY <1>1, <1>2, SetSlotCounts
<1>3. CASE \E o \in Obj, r \in Reg : PushHeapptr(o, r)
  BY <1>1, <1>3, PushHeapptrCounts
<1>4. CASE \E r \in Reg : Alloc(r)
  BY <1>1, <1>4, AllocCounts
<1>5. CASE \/ \E o \in Obj : SetFinalizer(o)
           \/ RefzeroCheck \/ PreventFinalizers \/ AllowFinalizers
           \/ DebugPause \/ DebugResume \/ PfEnter \/ PfEnd
  BY <1>1, <1>5, QuietCounts
<1>6. CASE FinalizerReturn
  BY <1>1, <1>6, FinalizerReturnCounts
<1>7. CASE FreePending
  BY <1>1, <1>7, FreePendingCounts
<1>8. CASE PfRunFinalizer
  BY <1>1, <1>8, PfRunFinalizerCounts
<1>9. CASE PfFree
  BY <1>1, <1>9, PfFreeCounts
<1>10. CASE MarkAndSweep
  BY <1>10, MarkAndSweepCounts
<1>11. CASE Marking
  BY <1>11, MarkingStepCounts
<1>12. CASE FinalizeRefcounts
  BY <1>12, FinalizeRefcountsCounts
<1>13. CASE SweepHeap
  BY <1>13, SweepHeapCounts
<1>14. CASE UNCHANGED vars
  BY <1>14 DEF vars, lists, flags, marking, CountInv, Anchored
<1> QED
  BY <1>2, <1>3, <1>4, <1>5, <1>6, <1>7, <1>8, <1>9, <1>10, <1>11, <1>12, <1>13, <1>14
  DEF Next, Mutator, Engine

\* Without a debugger pause, no object is ever left on heap_allocated with a zero
\* count outside mark-and-sweep, the counts of what a sweep frees are zero, and the
\* flags agree with the lists.
THEOREM CountsAndFlagsHold ==
  ASSUME ~Debugger
  PROVE  Spec => []CountsAndFlags
<1>1. SafeHeap /\ CountInv => NoMissedRefzero
  BY DEF CountInv, NoMissedRefzero, MsPhase
<1>2. SafeHeap => SweptHaveZeroRefs
  <2> SUFFICES ASSUME SafeHeap, phase = "sweep", NEW o \in Unreachable PROVE rc[o] = 0
    BY DEF SweptHaveZeroRefs
  <2>1. \A s \in Slot : ref[s] # o
    BY DEF SafeHeap, MarkState
  <2>2. o \in mem /\ o \in heap_allocated /\ o \notin finalize_list
    BY HeapFacts DEF Unreachable, SafeHeap, ListsPartition
  <2>3. o # curr
    BY <2>2, HeapFacts, HeapAssumption DEF SafeHeap, FinalizerContext
  <2>4. Bump(o) = 0 /\ Cardinality(Refs(ref, Slot, o)) = 0
    BY <2>1, <2>2, <2>3, NoRefs DEF Bump
  <2> QED
    BY <2>2, <2>4, HeapFacts
<1>3. Spec => []CountInv
  BY CountInit, CountStep, HeapSafe, PTL DEF Spec
<1> QED
  BY <1>1, <1>2, <1>3, HeapSafe, FlagsHold, PTL DEF CountsAndFlags
=============================================================================
