------------------------------ MODULE DukHeap ------------------------------
(***************************************************************************)
(* The Duktape heap: reference counting, the refzero cascade, finalizers,  *)
(* and mark-and-sweep, as they share one set of object headers and three   *)
(* object lists.                                                           *)
(*                                                                         *)
(* The engine is single threaded, but its activities nest: ordinary code   *)
(* drops a reference, which runs a refzero cascade, which runs finalizers, *)
(* which run ordinary code again, which allocates and so runs              *)
(* mark-and-sweep.  The variable phase names the innermost activity; the   *)
(* suspended ones are recorded by curr (a finalizer is running), by        *)
(* pf_prevent_count, and by after (where a cascade returns to).            *)
(*                                                                         *)
(* Objects are the members of Obj.  An object's outgoing references sit in *)
(* slots <<o, f>> with f in Field; the slots <<ROOT, r>> stand for what    *)
(* keeps values alive from outside: value stacks, builtins, lj.value1/2.   *)
(* Lists are sets: list order only decides the order of independent steps, *)
(* and every order is explored.                                            *)
(***************************************************************************)
EXTENDS Integers, Sequences, FiniteSets

CONSTANTS Obj,         \* heap object cells
          Field,       \* property slots of an object
          Reg,         \* root slots ordinary code can read and write
          FINARG,      \* the value stack slot of a running finalizer's argument
          ROOT, NULL,
          RecLimit,    \* DUK_USE_MARK_AND_SWEEP_RECLIMIT
          MaxPrevent,  \* bound on nested pf_prevent_count sections
          Debugger     \* TRUE when a debugger may pause execution

ASSUME HeapAssumption ==
  /\ IsFiniteSet(Obj) /\ IsFiniteSet(Field) /\ IsFiniteSet(Reg)
  /\ ROOT \notin Obj /\ NULL \notin Obj /\ FINARG \notin Reg
  /\ RecLimit \in Nat \ {0}
  /\ MaxPrevent \in Nat
  /\ Debugger \in BOOLEAN

RootSlot == {ROOT} \X (Reg \cup {FINARG})
Slot == (Obj \X Field) \cup RootSlot
FinSlot == <<ROOT, FINARG>>

VARIABLES
  mem,               \* cells currently allocated
  ref,               \* the value of every slot
  rc,                \* h_refcount
  hasFin,            \* objects for which DUK_HOBJECT_HAS_FINALIZER_FAST holds
  heap_allocated, refzero_list, finalize_list,
  reachable, temproot, finalizable, finalized,   \* heaphdr flags
  ms_running,        \* 1: mark-and-sweep, 2: paused in the debugger; non-zero
                     \* exactly when ms_prevent_count is
  pf_prevent_count,
  postpone_rescue,   \* DUK_MS_FLAG_POSTPONE_RESCUE of this mark-and-sweep
  reclimit_reached,  \* DUK_HEAP_FLAG_MARKANDSWEEP_RECLIMIT_REACHED
  stack,             \* objects on the marking recursion, innermost first
  scan,              \* headers the current temproot heap scan has yet to visit
  phase, after,
  curr, had_zero,    \* locals of duk_heap_process_finalize_list()
  paused,            \* where a debugger pause began
  ran                \* history: objects whose finalizer was called since allocation

flags == <<reachable, temproot, finalizable, finalized>>
lists == <<heap_allocated, refzero_list, finalize_list>>
marking == <<postpone_rescue, reclimit_reached, stack, scan>>
vars == <<mem, ref, rc, hasFin, lists, flags, ms_running, pf_prevent_count,
          marking, phase, after, curr, had_zero, paused, ran>>

MarkPhase == {"mark_roots", "mark_temproots1", "mark_finalizable",
              "mark_finalize_list", "mark_temproots2"}
MsPhase == MarkPhase \cup {"finalize_refcounts", "sweep"}
Phase == {"run", "free_pending", "pf_enter", "pf", "pf_free"} \cup MsPhase

TypeOK ==
  /\ mem \subseteq Obj
  /\ ref \in [Slot -> Obj \cup {NULL}]
  /\ rc \in [Obj -> Int]
  /\ hasFin \subseteq Obj
  /\ heap_allocated \subseteq Obj
  /\ refzero_list \subseteq Obj
  /\ finalize_list \subseteq Obj
  /\ reachable \subseteq Obj /\ temproot \subseteq Obj
  /\ finalizable \subseteq Obj /\ finalized \subseteq Obj
  /\ ms_running \in 0..2
  /\ pf_prevent_count \in 0..(MaxPrevent + 1)
  /\ postpone_rescue \in BOOLEAN /\ reclimit_reached \in BOOLEAN
  /\ stack \in Seq(Obj) /\ scan \subseteq Obj
  /\ phase \in Phase /\ after \in {"run", "pf_enter", "pf"}
  /\ curr \in Obj \cup {NULL} /\ had_zero \in BOOLEAN
  /\ paused \in {"no", "main", "finalizer"}
  /\ ran \subseteq Obj

Init ==
  /\ mem = {} /\ ref = [s \in Slot |-> NULL] /\ rc = [o \in Obj |-> 0]
  /\ hasFin = {}
  /\ heap_allocated = {} /\ refzero_list = {} /\ finalize_list = {}
  /\ reachable = {} /\ temproot = {} /\ finalizable = {} /\ finalized = {}
  /\ ms_running = 0 /\ pf_prevent_count = 0
  /\ postpone_rescue = FALSE /\ reclimit_reached = FALSE
  /\ stack = <<>> /\ scan = {}
  /\ phase = "run" /\ after = "run" /\ curr = NULL /\ had_zero = FALSE
  /\ paused = "no" /\ ran = {}

-----------------------------------------------------------------------------
(* Reference counts. *)

IncRef(c, v) == IF v = NULL THEN c ELSE [c EXCEPT ![v] = @ + 1]

\* Slots of D that refer to o.
RefsIn(D, o) == {s \in D : ref[s] = o}

\* Counts and slots after every reference held in D is dropped.
DropRc(c, D) == [o \in Obj |-> c[o] - Cardinality(RefsIn(D, o))]
DropRef(D) == [s \in Slot |-> IF s \in D THEN NULL ELSE ref[s]]

\* Objects whose last reference goes when D is dropped.  Refzero handling is
\* skipped entirely while ms_running is set.
Zeroed(c, D) == IF ms_running # 0 THEN {}
                ELSE {o \in Obj : RefsIn(D, o) # {} /\ DropRc(c, D)[o] = 0}

OwnSlots(o) == {o} \X Field

\* Of the objects whose count reached zero, those with a finalizer to run and
\* those to free at once.
ToFinalizeOutermost(Z) == IF phase = "free_pending" THEN {}   \* mutant of ToFinalize
                          ELSE (Z \cap hasFin) \ finalized
ToFinalize(Z) == (Z \cap hasFin) \ finalized
ToFree(Z) == Z \ ToFinalize(Z)

BumpForgotten(c, F) == c   \* mutant of Bumped
Bumped(c, F) == [o \in Obj |-> IF o \in F THEN c[o] + 1 ELSE c[o]]

\* duk__refcount_refzero_hobject() for every object of Z, under counts c: an
\* object to finalize gets a refcount bump and waits on finalize_list; the
\* callers put the others on refzero_list.
QueueZeroedStillLinked(Z, c) ==   \* mutant of QueueZeroed
  /\ heap_allocated' = heap_allocated \ ToFree(Z)
  /\ finalize_list' = finalize_list \cup ToFinalize(Z)
  /\ finalizable' = finalizable \cup ToFinalize(Z)
  /\ rc' = Bumped(c, ToFinalize(Z))
QueueZeroed(Z, c) ==
  /\ heap_allocated' = heap_allocated \ Z
  /\ finalize_list' = finalize_list \cup ToFinalize(Z)
  /\ finalizable' = finalizable \cup ToFinalize(Z)
  /\ rc' = Bumped(c, ToFinalize(Z))

-----------------------------------------------------------------------------
(* Ordinary code: the application, or a finalizer when curr # NULL.  It     *)
(* reaches objects through root slots, one reference at a time.             *)

Running == phase = "run"
InHand == {ref[s] : s \in RootSlot} \ {NULL}
Readable == {ref[s] : s \in RootSlot \cup (InHand \X Field)}
Writable == ({ROOT} \X Reg) \cup (InHand \X Field)

\* duk_hobject_alloc() and the push of the new object to the value stack.
Alloc(r) ==
  /\ Running
  /\ ref[<<ROOT, r>>] = NULL
  /\ \E o \in Obj \ mem :
       /\ mem' = mem \cup {o}
       /\ heap_allocated' = heap_allocated \cup {o}
       /\ ref' = [ref EXCEPT ![<<ROOT, r>>] = o]
       /\ rc' = [rc EXCEPT ![o] = 1]
  /\ UNCHANGED <<hasFin, refzero_list, finalize_list, flags, ms_running,
                 pf_prevent_count, marking, phase, after, curr, had_zero,
                 paused, ran>>

\* Where a DECREF that brought the objects Z to zero continues: refzero_list is
\* freed inline, finalizers run right away except after a NORZ decref.
AfterDecrefLazy(Z, norz) ==   \* mutant of AfterDecref
  IF ToFree(Z) # {} /\ ~norz THEN "free_pending"
  ELSE IF ToFinalize(Z) # {} /\ ~norz THEN "pf_enter" ELSE "run"
AfterDecref(Z, norz) ==
  IF ToFree(Z) # {} THEN "free_pending"
  ELSE IF ToFinalize(Z) # {} /\ ~norz THEN "pf_enter" ELSE "run"

\* DUK_TVAL_SET_TVAL_UPDREF and its NORZ variant: store, INCREF the new value,
\* then DECREF the old one, whose refzero side effects come last.
SetSlot(s, v, norz) ==
  /\ Running
  /\ s \in Writable
  /\ v \in Readable \cup {NULL}
  /\ v # ref[s]
  /\ LET c == IncRef(rc, v)
         Z == Zeroed(c, {s})
     IN  /\ QueueZeroed(Z, DropRc(c, {s}))
         /\ refzero_list' = ToFree(Z)
         /\ phase' = AfterDecref(Z, norz)
         /\ after' = IF ToFree(Z) # {} /\ ~norz THEN "pf_enter" ELSE "run"
  /\ ref' = [ref EXCEPT ![s] = v]
  /\ UNCHANGED <<mem, hasFin, reachable, temproot, finalized, ms_running,
                 pf_prevent_count, marking, curr, had_zero, paused, ran>>

\* duk_set_finalizer() / Duktape.fin(), and prototype changes that make an
\* object inherit a finalizer or stop inheriting one.
SetFinalizer(o) ==
  /\ Running
  /\ o \in InHand
  /\ hasFin' = IF o \in hasFin THEN hasFin \ {o} ELSE hasFin \cup {o}
  /\ UNCHANGED <<mem, ref, rc, lists, flags, ms_running, pf_prevent_count,
                 marking, phase, after, curr, had_zero, paused, ran>>

\* duk_push_heapptr() of an object on finalize_list.  If the object is not the
\* one being finalized its finalizer call is cancelled.
PushHeapptr(o, r) ==
  /\ Running
  /\ o \in finalize_list
  /\ ref[<<ROOT, r>>] = NULL
  /\ ref' = [ref EXCEPT ![<<ROOT, r>>] = o]
  /\ IF o \in finalizable
     THEN /\ finalizable' = finalizable \ {o}
          /\ finalized' = finalized \ {o}
          /\ finalize_list' = finalize_list \ {o}
          /\ heap_allocated' = heap_allocated \cup {o}
          /\ rc' = [rc EXCEPT ![o] = (@ - 1) + 1]
     ELSE /\ rc' = [rc EXCEPT ![o] = @ + 1]
          /\ UNCHANGED <<finalizable, finalized, finalize_list, heap_allocated>>
  /\ UNCHANGED <<mem, hasFin, refzero_list, reachable, temproot, ms_running,
                 pf_prevent_count, marking, phase, after, curr, had_zero,
                 paused, ran>>

\* DUK_REFZERO_CHECK_FAST/SLOW after NORZ decrefs.
RefzeroCheck ==
  /\ Running
  /\ finalize_list # {}
  /\ phase' = "pf_enter"
  /\ UNCHANGED <<mem, ref, rc, hasFin, lists, flags, ms_running,
                 pf_prevent_count, marking, after, curr, had_zero, paused, ran>>

\* Sections in which finalizers may not run: property table and string table
\* resizes, and the unwinding of a longjmp.
PreventFinalizers ==
  /\ Running
  /\ pf_prevent_count < MaxPrevent + (IF curr = NULL THEN 0 ELSE 1)
  /\ pf_prevent_count' = pf_prevent_count + 1
  /\ UNCHANGED <<mem, ref, rc, hasFin, lists, flags, ms_running, marking, phase,
                 after, curr, had_zero, paused, ran>>

AllowFinalizers ==
  /\ Running
  /\ pf_prevent_count > (IF curr = NULL THEN 0 ELSE 1)
  /\ pf_prevent_count' = pf_prevent_count - 1
  /\ UNCHANGED <<mem, ref, rc, hasFin, lists, flags, ms_running, marking, phase,
                 after, curr, had_zero, paused, ran>>

\* duk_debug_set_paused() and duk_debug_clear_paused().  While paused, debugger
\* commands such as Eval still run ordinary code.
DebugPause ==
  /\ Debugger
  /\ Running
  /\ paused = "no"
  /\ ms_running' = 2
  /\ paused' = IF curr = NULL THEN "main" ELSE "finalizer"
  /\ UNCHANGED <<mem, ref, rc, hasFin, lists, flags, pf_prevent_count, marking,
                 phase, after, curr, had_zero, ran>>

DebugResume ==
  /\ Running
  /\ paused = (IF curr = NULL THEN "main" ELSE "finalizer")
  /\ ms_running' = 0
  /\ paused' = "no"
  /\ UNCHANGED <<mem, ref, rc, hasFin, lists, flags, pf_prevent_count, marking,
                 phase, after, curr, had_zero, ran>>

-----------------------------------------------------------------------------
(* Freeing. *)

\* What duk_free_hobject(o) leaves of a cell.
Freed(S) == /\ mem' = mem \ S
            /\ finalized' = finalized \ S
            /\ hasFin' = hasFin \ S
            /\ ran' = ran \ S

\* One round of duk__refcount_free_pending(): refcount finalize the object,
\* free it, continue with what the decrefs queued.
FreePending ==
  /\ phase = "free_pending"
  /\ \E o \in refzero_list :
       LET D == OwnSlots(o)
           Z == Zeroed(rc, D)
       IN  /\ QueueZeroed(Z, DropRc(rc, D))
           /\ refzero_list' = (refzero_list \cup ToFree(Z)) \ {o}
           /\ ref' = DropRef(D)
           /\ Freed({o})
           /\ IF refzero_list' = {}
              THEN phase' = after /\ after' = "run"
              ELSE UNCHANGED <<phase, after>>
  /\ UNCHANGED <<reachable, temproot, ms_running, pf_prevent_count, marking,
                 curr, had_zero, paused>>

-----------------------------------------------------------------------------
(* duk_heap_process_finalize_list(). *)

\* Entry: nested and prevented calls return at once.
PfEnter ==
  /\ phase = "pf_enter"
  /\ IF pf_prevent_count # 0
     THEN phase' = "run" /\ UNCHANGED pf_prevent_count
     ELSE phase' = "pf" /\ pf_prevent_count' = 1
  /\ UNCHANGED <<mem, ref, rc, hasFin, lists, flags, ms_running, marking, after,
                 curr, had_zero, paused, ran>>

\* Top of the loop up to the finalizer call: duk_heap_run_finalizer() sets
\* FINALIZED and pushes the object.  (For a Proxy the call itself is skipped;
\* that is a finalizer that does nothing.)
PfRunFinalizer ==
  /\ phase = "pf"
  /\ \E o \in finalize_list :
       /\ curr' = o
       /\ finalizable' = finalizable \ {o}
       /\ had_zero' = (rc[o] = 1)
       /\ finalized' = finalized \cup {o}
       /\ ran' = ran \cup {o}
       /\ ref' = [ref EXCEPT ![FinSlot] = o]
       /\ rc' = [rc EXCEPT ![o] = @ + 1]
  /\ phase' = "run"
  /\ UNCHANGED <<mem, hasFin, lists, reachable, temproot, ms_running,
                 pf_prevent_count, marking, after, paused>>

\* The decision of duk_heap_process_finalize_list() to free after a finalizer.
NeverFree == FALSE   \* mutant of OnlyBumpLeft
OnlyBumpLeft == rc[curr] - 1 = 1

\* The finalizer returned and its argument was popped.  A remaining reference
\* puts the object back to heap_allocated, without the bump; FINALIZED stays
\* set for mark-and-sweep to decide about unless the object was queued by a
\* zero refcount.  Otherwise only the bump is left and the object is freed.
FinalizerReturn ==
  /\ Running
  /\ curr # NULL
  /\ pf_prevent_count = 1
  /\ paused # "finalizer"
  /\ ref' = [ref EXCEPT ![FinSlot] = NULL]
  /\ finalize_list' = finalize_list \ {curr}
  /\ IF OnlyBumpLeft
     THEN /\ rc' = [rc EXCEPT ![curr] = @ - 1]
          /\ phase' = "pf_free"
          /\ UNCHANGED <<heap_allocated, finalized, curr>>
     ELSE /\ rc' = [rc EXCEPT ![curr] = @ - 2]
          /\ heap_allocated' = heap_allocated \cup {curr}
          /\ finalized' = IF had_zero THEN finalized \ {curr} ELSE finalized
          /\ curr' = NULL
          /\ phase' = "pf"
  /\ had_zero' = FALSE
  /\ UNCHANGED <<mem, hasFin, refzero_list, reachable, temproot, finalizable,
                 ms_running, pf_prevent_count, marking, after, paused, ran>>

\* duk_hobject_refcount_finalize_norz() and duk_free_hobject() of the
\* finalized object.
PfFree ==
  /\ phase = "pf_free"
  /\ LET D == OwnSlots(curr)
         c == [rc EXCEPT ![curr] = 0]
         Z == Zeroed(c, D)
     IN  /\ QueueZeroed(Z, DropRc(c, D))
         /\ refzero_list' = ToFree(Z)
         /\ ref' = DropRef(D)
         /\ IF ToFree(Z) # {}
            THEN phase' = "free_pending" /\ after' = "pf"
            ELSE phase' = "pf" /\ UNCHANGED after
  /\ Freed({curr})
  /\ curr' = NULL
  /\ UNCHANGED <<reachable, temproot, ms_running, pf_prevent_count, marking,
                 had_zero, paused>>

PfEnd ==
  /\ phase = "pf"
  /\ finalize_list = {}
  /\ pf_prevent_count' = 0
  /\ phase' = "run"
  /\ UNCHANGED <<mem, ref, rc, hasFin, lists, flags, ms_running, marking, after,
                 curr, had_zero, paused, ran>>

-----------------------------------------------------------------------------
(* duk_heap_mark_and_sweep().  It is entered from an allocation or an       *)
(* explicit request, so from ordinary code only.                            *)

MarkAndSweep ==
  /\ Running
  /\ ms_running = 0
  /\ ms_running' = 1
  /\ postpone_rescue' = (finalize_list # {})
  /\ phase' = "mark_roots"
  /\ UNCHANGED <<mem, ref, rc, hasFin, lists, flags, pf_prevent_count,
                 reclimit_reached, stack, scan, after, curr, had_zero, paused,
                 ran>>

\* duk__mark_heaphdr() of an object not yet marked: recurse into it, or leave
\* it to a heap scan if the recursion is too deep already.
Mark(o) ==
  /\ reachable' = reachable \cup {o}
  /\ IF Len(stack) >= RecLimit
     THEN /\ temproot' = temproot \cup {o}
          /\ reclimit_reached' = TRUE
          /\ UNCHANGED stack
     ELSE /\ stack' = <<o>> \o stack
          /\ UNCHANGED <<temproot, reclimit_reached>>

unmarked == <<mem, ref, rc, hasFin, lists, finalizable, finalized, ms_running,
              pf_prevent_count, postpone_rescue, phase, after, curr, had_zero,
              paused, ran>>

\* duk__mark_hobject(): the next unmarked object the innermost one refers to.
MarkChild ==
  /\ phase \in MarkPhase
  /\ stack # <<>>
  /\ \E f \in Field :
       /\ ref[<<Head(stack), f>>] \notin reachable \cup {NULL}
       /\ Mark(ref[<<Head(stack), f>>])
  /\ UNCHANGED <<scan, unmarked>>

MarkReturn ==
  /\ phase \in MarkPhase
  /\ stack # <<>>
  /\ \A f \in Field : ref[<<Head(stack), f>>] \in reachable \cup {NULL}
  /\ stack' = Tail(stack)
  /\ UNCHANGED <<reachable, temproot, reclimit_reached, scan, unmarked>>

\* The objects marked directly by duk__mark_roots_heap(), by
\* duk__mark_finalizable() and by duk__mark_finalize_list().
MarkRootsNotQueued ==   \* mutant of MarkRoots
  CASE phase = "mark_roots" -> InHand
    [] phase = "mark_finalizable" -> heap_allocated \cap finalizable
    [] OTHER -> {}
MarkRoots ==
  CASE phase = "mark_roots" -> InHand
    [] phase = "mark_finalizable" -> heap_allocated \cap finalizable
    [] phase = "mark_finalize_list" -> finalize_list
    [] OTHER -> {}

MarkRoot ==
  /\ phase \in MarkPhase
  /\ stack = <<>>
  /\ \E o \in MarkRoots \ reachable : Mark(o)
  /\ UNCHANGED <<scan, unmarked>>

\* duk__mark_temproots_by_heap_scan(): while the recursion limit was hit, scan
\* heap_allocated and finalize_list and mark again from every temproot found.
TemprootPhase == phase \in {"mark_temproots1", "mark_temproots2"}

TemprootLists == heap_allocated \cup finalize_list

TemprootScan ==
  /\ TemprootPhase
  /\ stack = <<>> /\ scan = {}
  /\ reclimit_reached
  /\ reclimit_reached' = FALSE
  /\ scan' = TemprootLists
  /\ UNCHANGED <<reachable, temproot, stack, unmarked>>

HandleTemproot ==
  /\ TemprootPhase
  /\ stack = <<>>
  /\ \E o \in scan :
       /\ scan' = scan \ {o}
       /\ IF o \in temproot
          THEN /\ temproot' = temproot \ {o}
               /\ stack' = <<o>>
          ELSE UNCHANGED <<temproot, stack>>
  /\ UNCHANGED <<reachable, reclimit_reached, unmarked>>

\* duk__mark_finalizable(), first pass: unreachable, not finalized yet, and
\* with a finalizer.
FinalizableAgain == {o \in heap_allocated : o \notin reachable /\ o \in hasFin}   \* mutant of Finalizable
Finalizable == {o \in heap_allocated :
                  o \notin reachable /\ o \notin finalized /\ o \in hasFin}

NextMarkPhase ==
  CASE phase = "mark_roots" -> "mark_temproots1"
    [] phase = "mark_temproots1" -> "mark_finalizable"
    [] phase = "mark_finalizable" -> "mark_finalize_list"
    [] phase = "mark_finalize_list" -> "mark_temproots2"
    [] phase = "mark_temproots2" -> "finalize_refcounts"

\* A marking function returns: for the temproot scan, only when a whole scan
\* did not hit the recursion limit again.
MarkedOnce == stack = <<>> /\ scan = {} /\ MarkRoots \subseteq reachable   \* mutant of Marked
Marked == /\ stack = <<>> /\ scan = {} /\ MarkRoots \subseteq reachable
          /\ TemprootPhase => ~reclimit_reached

MarkPhaseDone ==
  /\ phase \in MarkPhase
  /\ Marked
  /\ phase' = NextMarkPhase
  /\ finalizable' = IF phase = "mark_temproots1"
                    THEN finalizable \cup Finalizable ELSE finalizable
  /\ UNCHANGED <<mem, ref, rc, hasFin, lists, reachable, temproot, finalized,
                 ms_running, pf_prevent_count, marking, after, curr, had_zero,
                 paused, ran>>

Unreachable == heap_allocated \ reachable

\* duk__finalize_refcounts(): drop all references held by objects about to be
\* swept; ms_running keeps refzero handling away.
FinalizeRefcounts ==
  /\ phase = "finalize_refcounts"
  /\ LET D == Unreachable \X Field
     IN  /\ rc' = DropRc(rc, D)
         /\ ref' = DropRef(D)
  /\ phase' = "sweep"
  /\ UNCHANGED <<mem, hasFin, lists, flags, ms_running, pf_prevent_count,
                 marking, after, curr, had_zero, paused, ran>>

\* duk__sweep_heap(), duk__clear_finalize_list_flags() and the end of
\* mark-and-sweep, which tries to process finalize_list.
SweepHeap ==
  /\ phase = "sweep"
  /\ LET queue == heap_allocated \cap reachable \cap finalizable
         keep == (heap_allocated \cap reachable) \ finalizable
     IN  /\ heap_allocated' = keep
         /\ finalize_list' = finalize_list \cup queue
         /\ rc' = Bumped(rc, queue)
         /\ finalized' = (finalized \ Unreachable)
                           \ (IF postpone_rescue THEN {} ELSE keep)
  /\ mem' = mem \ Unreachable
  /\ hasFin' = hasFin \ Unreachable
  /\ ran' = ran \ Unreachable
  /\ reachable' = {}
  /\ ms_running' = 0
  /\ postpone_rescue' = FALSE
  /\ phase' = "pf_enter"
  /\ UNCHANGED <<ref, refzero_list, temproot, finalizable, pf_prevent_count,
                 reclimit_reached, stack, scan, after, curr, had_zero, paused>>

-----------------------------------------------------------------------------
Mutator ==
  \/ \E r \in Reg : Alloc(r)
  \/ \E s \in Slot, v \in Obj \cup {NULL}, norz \in BOOLEAN : SetSlot(s, v, norz)
  \/ \E o \in Obj : SetFinalizer(o)
  \/ \E o \in Obj, r \in Reg : PushHeapptr(o, r)
  \/ RefzeroCheck
  \/ PreventFinalizers \/ AllowFinalizers
  \/ DebugPause \/ DebugResume

Marking == MarkRoot \/ MarkChild \/ MarkReturn \/ TemprootScan
             \/ HandleTemproot \/ MarkPhaseDone

\* What the C code does without returning to ordinary code.
Engine ==
  \/ FreePending
  \/ PfEnter \/ PfRunFinalizer \/ PfFree \/ PfEnd
  \/ Marking \/ FinalizeRefcounts \/ SweepHeap

Next == Mutator \/ FinalizerReturn \/ MarkAndSweep \/ Engine

Spec == Init /\ [][Next]_vars

\* Liveness is stated for finalizers that return without touching the heap.
\* The C code always runs on; a finalizer call returns; and mark-and-sweep is
\* requested again and again, as the voluntary trigger counter of every
\* allocation guarantees for a program that keeps allocating.
InertNext == (curr = NULL /\ Mutator) \/ FinalizerReturn \/ MarkAndSweep \/ Engine

InertSpec ==
  /\ Init /\ [][InertNext]_vars
  /\ WF_vars(Engine) /\ SF_vars(FinalizerReturn) /\ SF_vars(MarkAndSweep)

-----------------------------------------------------------------------------
(* Properties. *)

\* The artificial bump of an object waiting for, or in, its finalizer call.
Bump(o) == IF o \in finalize_list \cup {curr} THEN 1 ELSE 0

\* Every reference count is exactly the number of slots that hold the object,
\* plus one while the object is on finalize_list: duk__check_assert_refcounts()
\* in the source, here in every state and not only during mark-and-sweep.
RefcountExact ==
  \A o \in mem : rc[o] = Cardinality(RefsIn(Slot, o)) + Bump(o)

\* No slot anywhere refers to a freed cell, whatever freed it: a refzero
\* cascade, the end of a finalizer, or a sweep.
NoDangling == \A s \in Slot : ref[s] \in mem \cup {NULL}

\* Each allocated object is on exactly one heap list, or is the finalized object
\* being freed and on none, so a list removal never corrupts another list.
ListsPartition ==
  /\ heap_allocated \cap finalize_list = {}
  /\ heap_allocated \cap refzero_list = {}
  /\ finalize_list \cap refzero_list = {}
  /\ mem = heap_allocated \cup finalize_list \cup refzero_list
             \cup ({curr} \ {NULL})
  /\ phase = "pf_free" =>
       curr \notin heap_allocated \cup finalize_list \cup refzero_list

\* Refzero_list is processed to completion inline: whenever ordinary code, a
\* finalizer or mark-and-sweep runs, it is empty.
RefzeroInline == refzero_list # {} => phase = "free_pending"

\* All objects on finalize_list have FINALIZABLE and not FINALIZED, except the
\* one being finalized, for which it is the other way around; and outside
\* mark-and-sweep no other object has FINALIZABLE, REACHABLE or TEMPROOT.
FlagDiscipline ==
  /\ finalize_list \ {curr} \subseteq finalizable \ finalized
  /\ curr # NULL => curr \in finalized \ finalizable
  /\ phase \notin MsPhase => /\ finalizable \subseteq finalize_list
                             /\ reachable = {} /\ temproot = {}

\* Objects reachable from the root slots, by definition of reachability.
Live == {o \in Obj :
           \A S \in SUBSET Obj :
             (/\ InHand \subseteq S
              /\ \A p \in S, f \in Field : ref[<<p, f>>] \in S \cup {NULL})
             => o \in S}

\* Only objects ordinary code cannot reach are queued for finalization, even
\* when marking overran its recursion limit.
QueuedIsGarbage ==
  [][\A o \in finalize_list' \ finalize_list : o \notin Live']_vars

\* A zero refcount never goes unnoticed: without a debugger pause no object is
\* left on heap_allocated with a zero count, although queueing back from
\* finalize_list removes the bump without a refzero check.
NoMissedRefzero ==
  phase \notin MsPhase => \A o \in heap_allocated : rc[o] > 0

\* Refcount finalization cancels out the counts of all unreachable objects,
\* cycles included, before any of them is freed.
SweptHaveZeroRefs == phase = "sweep" => \A o \in Unreachable : rc[o] = 0

\* Counts and flags never fall behind the lists: no zero count goes unnoticed, what
\* a sweep frees has been cancelled out, and the flags of an object say where its
\* finalizer call stands.
CountsAndFlags == NoMissedRefzero /\ SweptHaveZeroRefs /\ FlagDiscipline

\* An object with a finalizer is never freed before its finalizer was called.
FinalizedBeforeFree ==
  [][\A o \in mem \ mem' : o \in hasFin => o \in ran]_vars

\* Every object that ordinary code can no longer reach is eventually freed,
\* reference cycles and finalizers included, unless duk_push_heapptr() revives
\* it while it waits for its finalizer.  (Inside its own finalizer call an
\* object is briefly reachable; that does not count as revived.)
Garbage(o) == curr = NULL /\ o \in mem \ Live
FreedOrRevived(o) == o \notin mem \/ (curr = NULL /\ o \in Live)
GarbageFreed == \A o \in Obj : Garbage(o) ~> FreedOrRevived(o)

-----------------------------------------------------------------------------
(* The inductive invariant behind RefcountExact and NoDangling. *)

\* A free cell holds no references.
FreeCellsEmpty == \A o \in Obj \ mem, f \in Field : ref[<<o, f>>] = NULL

\* Nothing refers to an object queued for freeing.
QueuedUnreferenced ==
  /\ \A o \in refzero_list : rc[o] = 0
  /\ phase = "pf_free" => rc[curr] = 1

\* Where a finalizer call can be suspended, and what it has pushed.
FinalizerContext ==
  /\ curr # NULL => /\ phase # "pf" /\ after # "pf"
                    /\ curr \in finalize_list <=> phase # "pf_free"
  /\ curr # NULL \/ phase = "pf" \/ after = "pf" => pf_prevent_count # 0
  /\ curr \notin finalizable
  /\ phase = "pf_free" => curr # NULL
  /\ phase # "free_pending" => after = "run"
  /\ ref[FinSlot] = IF phase = "pf_free" THEN NULL ELSE curr

OnStack(st, o) == \E i \in 1..Len(st) : st[i] = o
Grey(o) == o \in temproot \/ OnStack(stack, o)

\* The marking state: empty outside mark-and-sweep; inside, whatever a fully
\* visited object refers to is marked, the roots of finished phases are marked,
\* and every temproot has a heap scan coming.
MarkState ==
  /\ phase \notin MsPhase =>
       reachable = {} /\ temproot = {} /\ stack = <<>> /\ scan = {}
         /\ ~reclimit_reached
  /\ reachable \subseteq mem
  /\ \A o \in Obj : Grey(o) => o \in reachable
  /\ \A o \in temproot : reclimit_reached \/ o \in scan
  /\ \A o \in reachable : Grey(o) \/
       \A f \in Field : ref[<<o, f>>] \in reachable \cup {NULL}
  /\ phase \in MsPhase \ {"mark_roots"} =>
       \A s \in RootSlot : ref[s] \in reachable \cup {NULL}
  /\ phase \in {"mark_temproots2", "finalize_refcounts", "sweep"} =>
       finalize_list \subseteq reachable
  /\ phase \in {"finalize_refcounts", "sweep"} =>
       stack = <<>> /\ temproot = {} /\ scan = {} /\ ~reclimit_reached
  /\ phase = "sweep" =>
       /\ \A s \in Slot : ref[s] \notin Unreachable
       /\ \A o \in Unreachable, f \in Field : ref[<<o, f>>] = NULL

\* The heap is sound in every state, also in the middle of a refzero cascade, of
\* finalizers and of mark-and-sweep: exact counts, no dangling reference, one list
\* for each object, an empty refzero_list whenever other code runs, and a marking
\* that reaches everything it should.
SafeHeap ==
  /\ TypeOK /\ RefcountExact /\ NoDangling /\ ListsPartition /\ RefzeroInline
  /\ FreeCellsEmpty /\ QueuedUnreferenced /\ FinalizerContext /\ MarkState

=============================================================================
