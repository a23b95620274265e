---------------------------- MODULE DukWeakRefs ----------------------------
(***************************************************************************)
(* WeakRef, WeakMap, WeakSet and FinalizationRegistry                      *)
(* (duk_rp_weak_refs.c) with the garbage collector that calls their hooks. *)
(*                                                                         *)
(* Weak pointers are raw: neither counted nor marked.  A back-table knows  *)
(* the holders of every target and clears their pointers when the target   *)
(* dies, by a reference count that reaches zero or by mark-and-sweep.      *)
(* Clearing a WeakMap entry drops a counted value, whose death clears      *)
(* further entries; that nesting is what the operators on the stored state *)
(* s reproduce.  It may reach the holder it started from, whose arrays are *)
(* then half shrunk; and an object may be freed while weak pointers or the *)
(* back-table still name it.  An operation that leaves such damage behind  *)
(* is recorded and not followed any further.  A freed cell can be          *)
(* allocated again.                                                        *)
(*                                                                         *)
(* An operation is one step, with the refzero cascade and the native       *)
(* finalizers of dying holders, which call no user code.                   *)
(***************************************************************************)
EXTENDS Integers, Sequences, SequencesExt, FiniteSets, FiniteSetsExt

CONSTANTS Obj,      \* heap cells
          NULL,
          Kinds,    \* the classes cells are allocated for, one function per program
          Held,     \* what registrations hold for their callbacks
          MaxLen    \* entries of one holder, and pending callbacks

Kind == {"plain", "leaf", "ref", "map", "set", "freg"}   \* a leaf has no properties

VARIABLES
  kind,       \* class and hidden "wk" property of the objects of each cell
  roots,      \* objects the program holds, one counted reference each
  s,          \* the stored state below
  cur         \* held value whose callback is being run by a drain

\* where: "free", "heap" (heap_allocated) or "fin" (finalize_list); rc: h_refcount;
\* child: the property of a plain object; keys: wk_target, wk_keys or wk_targets;
\* vals: wk_values or wk_held; toks: wk_tokens; back: the back-table; pend: the
\* pending callbacks; note: the notifier was called and no drain started since;
\* marking: mark-and-sweep is past its mark phase, which left REACHABLE on reach;
\* ran: the holders whose finalizer has run (for the properties); busy: the holders
\* an operation is changing now; torn: the damage, "nested" for one of them another removal
\* has reached, "holder" and "target" for an object freed while named as one, "stale"
\* for a freed one the program got.
Store == [where : [Obj -> {"free", "heap", "fin"}], rc : [Obj -> Int],
          finalized : SUBSET Obj, child : [Obj -> Obj \cup {NULL}],
          keys : [Obj -> Seq(Obj)], vals : [Obj -> Seq(Obj \cup {NULL})],
          toks : [Obj -> Seq(Obj \cup {NULL})], back : [Obj -> Seq(Obj)],
          pend : Seq(Obj \cup {NULL}), note : BOOLEAN, marking : BOOLEAN,
          reach : SUBSET Obj, ran : SUBSET Obj, busy : SUBSET Obj,
          torn : SUBSET ({"nested", "holder", "target", "stale"} \X Obj)]

vars == <<kind, roots, s, cur>>

Init ==
  /\ kind \in Kinds
  /\ roots = {}
  /\ s = [where |-> [o \in Obj |-> "free"], rc |-> [o \in Obj |-> 0],
          finalized |-> {}, child |-> [o \in Obj |-> NULL],
          keys |-> [o \in Obj |-> <<>>], vals |-> [o \in Obj |-> <<>>],
          toks |-> [o \in Obj |-> <<>>], back |-> [o \in Obj |-> <<>>],
          pend |-> <<>>, note |-> FALSE, marking |-> FALSE, reach |-> {}, ran |-> {},
          busy |-> {}, torn |-> {}]
  /\ cur = <<>>

Heap(t) == {o \in Obj : t.where[o] = "heap"}
IsHolder(o) == kind[o] \in {"ref", "map", "set", "freg"}

-----------------------------------------------------------------------------
(* The buffers.                                                            *)

\* duk__wk_ptrbuf_find: the first entry, 0 if absent.
Find(q, o) == SelectInSeq(q, LAMBDA x : x = o)

\* duk__wk_ptrbuf_remove_at and duk__wk_array_swap_shrink_at: the last entry
\* takes the place of entry i.
SwapRemove(q, i) == SubSeq([q EXCEPT ![i] = Last(q)], 1, Len(q) - 1)

Incref(t, v) == IF v = NULL THEN t ELSE [t EXCEPT !.rc[v] = @ + 1]

\* duk__wk_back_add: a new entry at the head of the list of target o.
BackAdd(t, o, h) == [t EXCEPT !.back[o] = <<h>> \o @]

\* duk__wk_back_remove_holder: the first entry of holder h.
BackRemove(t, o, h) ==
  LET i == Find(t.back[o], h)
  IN  IF i = 0 THEN t ELSE [t EXCEPT !.back[o] = RemoveAt(@, i)]

RECURSIVE Decref(_, _), Cleanup(_, _, _), Dying(_, _, _), DecrefAll(_, _)

\* References q are dropped in the middle of an operation on h: its code has pointers
\* into the buffers of h, or has shrunk only some of its arrays.
DropIn(t, h, q) == [DecrefAll([t EXCEPT !.busy = @ \cup {h}], q) EXCEPT !.busy = t.busy]

\* duk__wk_tvalbuf_swap_shrink_at.  Inside mark-and-sweep an unreachable value
\* is left to the sweep.
SwapShrink(t, h, i) ==
  LET v == t.vals[h][i]
      u == IF t.marking /\ v \in Obj \ t.reach THEN t ELSE DropIn(t, h, <<v>>)
  IN  IF i > Len(t.vals[h]) THEN t ELSE [u EXCEPT !.vals[h] = SwapRemove(@, i)]

\* duk__wk_tvalbuf_set.
TvalSet(t, h, i, v) ==
  IF i > Len(t.vals[h]) THEN t
  ELSE Incref([DropIn(t, h, <<t.vals[h][i]>>) EXCEPT !.vals[h][i] = v], v)

\* Entry i of a FinalizationRegistry leaves its three arrays.
Unregistered(t, h, i) ==
  DropIn([t EXCEPT !.keys[h] = SwapRemove(@, i), !.vals[h] = SwapRemove(@, i),
                   !.toks[h] = SwapRemove(@, i)],
         h, <<t.vals[h][i], t.toks[h][i]>>)

\* A callback is queued; the notifier is called when the queue was empty.
OnlyFirst(t, v) ==   \* mutant of Queued
  IF t.pend = <<>> THEN [Incref(t, v) EXCEPT !.pend = <<v>>, !.note = TRUE] ELSE t
Queued(t, v) ==
  [Incref(t, v) EXCEPT !.pend = Append(@, v), !.note = @ \/ t.pend = <<>>]

\* duk__wk_cleanup_for_target.
KeyRemoved(t, h, i) == [t EXCEPT !.keys[h] = SwapRemove(@, i)]
EntryCleared(t, h, i) ==
  CASE i = 0 -> t
    [] i > 0 /\ kind[h] \in {"ref", "set"} -> KeyRemoved(t, h, i)
    [] i > 0 /\ kind[h] = "map"  -> SwapShrink(KeyRemoved(t, h, i), h, i)
    [] i > 0 /\ kind[h] = "freg" -> Unregistered(Queued(t, t.vals[h][i]), h, i)
\* The holder's count is bumped meanwhile, and put back with no check for zero.
Cleanup(t, o, h) ==
  LET i == Find(t.keys[h], o)
  IN  IF i > 0 /\ h \in t.busy THEN [t EXCEPT !.torn = @ \cup {<<"nested", h>>}]
      ELSE [EntryCleared([t EXCEPT !.rc[h] = @ + 1], h, i) EXCEPT !.rc[h] = @ - 1]

\* duk_rp_weak_back_target_dying for the entries es of target o.
Dying(t, o, es) ==
  IF es = <<>> THEN [t EXCEPT !.back[o] = <<>>]
  ELSE Dying(Cleanup(t, o, Head(es)), o, Tail(es))

DecrefAll(t, q) == IF q = <<>> THEN t ELSE DecrefAll(Decref(t, Head(q)), Tail(q))

\* The counted references an object holds, without WeakMap values, which only
\* the holder's finalizer knows of.
Strong(t, o) == <<t.child[o]>> \o (IF kind[o] = "freg" THEN t.vals[o] \o t.toks[o] ELSE <<>>)

\* An object is released with the references it holds.
Released(t, o) ==
  [t EXCEPT !.torn = @ \cup {<<"holder", o>> : k \in {x \in Obj : o \in Range(t.back[x])}}
                        \cup {<<"target", o>> : h \in Range(t.back[o])},
            !.where[o] = "free", !.finalized = @ \ {o}, !.ran = @ \ {o}, !.child[o] = NULL,
            !.keys[o] = <<>>, !.vals[o] = <<>>, !.toks[o] = <<>>]

\* DECREF, with duk__refcount_refzero_hobject: the weak pointers to the object
\* are cleared first, then it is freed or waits for its finalizer.
NotYetDying(t, v) == t   \* mutant of ClearWeak
ClearWeak(t, v) == Dying(t, v, t.back[v])

Unreferenced(t, v) ==
  IF IsHolder(v) /\ v \notin t.finalized
    THEN [t EXCEPT !.where[v] = "fin", !.rc[v] = @ + 1]
    ELSE DecrefAll(Released(t, v), Strong(t, v))
RefZero(t, v) ==
  IF t.rc[v] # 0 \/ t.marking \/ t.where[v] # "heap" THEN t ELSE Unreferenced(ClearWeak(t, v), v)
Decref(t, v) == IF v = NULL THEN t ELSE RefZero([t EXCEPT !.rc[v] = @ - 1], v)

-----------------------------------------------------------------------------
(* Finalizers of holders.                                                  *)

RECURSIVE UnregisterAll(_, _, _), Finalize(_, _)

\* duk__wk_holder_unregister_all for the pointers q of h.
UnregisterAll(t, h, q) ==
  IF q = <<>> THEN t ELSE UnregisterAll(BackRemove(t, Head(q), h), h, Tail(q))

\* duk__weak_kind_finalizer.
ValuesDropped(t, h) ==
  IF kind[h] = "map" THEN [DecrefAll(t, t.vals[h]) EXCEPT !.vals[h] = <<>>] ELSE t
HolderFinalizer(t, h) == ValuesDropped(UnregisterAll(t, h, t.keys[h]), h)

\* duk_heap_process_finalize_list: the finalizer runs; with only the bump left
\* the object is freed, else it goes back to heap_allocated.  zero is
\* had_zero_refcount.
AfterFinalizer(t, h, zero) ==
  IF t.rc[h] = 1 THEN DecrefAll(Released([t EXCEPT !.rc[h] = 0], h), Strong(t, h))
  ELSE [t EXCEPT !.where[h] = "heap", !.rc[h] = @ - 1,
                 !.finalized = IF zero THEN @ \ {h} ELSE @]
FinalizeOne(t, h, zero) ==
  AfterFinalizer(HolderFinalizer([t EXCEPT !.finalized = @ \cup {h}, !.ran = @ \cup {h}], h), h, zero)
Finalize(t, zero) ==
  IF \A o \in Obj : t.where[o] # "fin" THEN t
  ELSE Finalize(FinalizeOne(t, CHOOSE o \in Obj : t.where[o] = "fin", zero), zero)

\* The end of every operation; one that tears a holder is recorded before it began.
Ended(t, zero) == LET u == Finalize(t, zero) IN IF u.torn = {} THEN u ELSE [s EXCEPT !.torn = u.torn]
Done(t) == s' = Ended(t, TRUE)

-----------------------------------------------------------------------------
(* The program.                                                            *)

Room(h) == Len(s.keys[h]) < MaxLen
Has(h, k) == h \in roots /\ kind[h] = k
Storable == {NULL} \cup roots

\* Allocation of an object or of an empty holder (duk__wkmap_ctor, duk__wkset_ctor,
\* duk__finreg_ctor) in a free cell.
New(o) ==
  /\ s.where[o] = "free" /\ kind[o] # "ref"
  /\ roots' = roots \cup {o}
  /\ s' = [s EXCEPT !.where[o] = "heap", !.rc[o] = 1]
  /\ UNCHANGED <<kind, cur>>

\* duk__wkref_ctor.
WeakRef(h, o) ==
  /\ s.where[h] = "free" /\ kind[h] = "ref" /\ o \in roots
  /\ roots' = roots \cup {h}
  /\ s' = BackAdd([s EXCEPT !.where[h] = "heap", !.rc[h] = 1, !.keys[h] = <<o>>], o, h)
  /\ UNCHANGED <<kind, cur>>

\* The program stores v in a plain object, or drops a reference.
SetChild(o, v) ==
  /\ Has(o, "plain") /\ v \in Storable
  /\ s.child[o] # v
  /\ Done(Decref(Incref([s EXCEPT !.child[o] = v], v), s.child[o]))
  /\ UNCHANGED <<kind, roots, cur>>

DropRoot(o) ==
  /\ o \in roots
  /\ roots' = roots \ {o}
  /\ Done(Decref(s, o))
  /\ UNCHANGED <<kind, cur>>

\* What the program can get hold of: a property, the target of a WeakRef
\* (duk__wkref_deref), a WeakMap value (duk__wkmap_get), the argument of a
\* callback.
Fetched ==
  {s.child[o] : o \in roots} \cup {s.keys[w][1] : w \in {h \in roots : kind[h] = "ref" /\ s.keys[h] # <<>>}}
  \cup UNION {{s.vals[m][i] : i \in {j \in DOMAIN s.keys[m] \cap DOMAIN s.vals[m] : s.keys[m][j] \in roots}} :
              m \in {h \in roots : kind[h] = "map"}}
  \cup Range(cur)

Fetch(v) ==
  /\ v \in Fetched \ (roots \cup {NULL})
  /\ IF s.where[v] = "free" THEN s' = [s EXCEPT !.torn = {<<"stale", v>>}] /\ UNCHANGED roots
                            ELSE s' = Incref(s, v) /\ roots' = roots \cup {v}
  /\ UNCHANGED <<kind, cur>>

\* duk__wkmap_set.
MapSet(m, k, v) ==
  /\ Has(m, "map") /\ k \in roots /\ v \in Storable
  /\ LET i == Find(s.keys[m], k)
     IN  IF i > 0 THEN Done(TvalSet(s, m, i, v))
         ELSE /\ Room(m)
              /\ s' = Incref([BackAdd(s, k, m) EXCEPT !.keys[m] = Append(@, k),
                                                      !.vals[m] = Append(@, v)], v)
  /\ UNCHANGED <<kind, roots, cur>>

\* duk__wkmap_delete.
MapDelete(m, k) ==
  /\ Has(m, "map") /\ k \in roots
  /\ LET i == Find(s.keys[m], k)
     IN  i > 0 /\ Done(BackRemove(SwapShrink(KeyRemoved(s, m, i), m, i), k, m))
  /\ UNCHANGED <<kind, roots, cur>>

\* duk__wkset_add and duk__wkset_delete.
SetAdd(h, k) ==
  /\ Has(h, "set") /\ k \in roots /\ Room(h)
  /\ Find(s.keys[h], k) = 0
  /\ s' = [BackAdd(s, k, h) EXCEPT !.keys[h] = Append(@, k)]
  /\ UNCHANGED <<kind, roots, cur>>

SetDelete(h, k) ==
  /\ Has(h, "set") /\ k \in roots
  /\ LET i == Find(s.keys[h], k)
     IN  i > 0 /\ s' = BackRemove([s EXCEPT !.keys[h] = SwapRemove(@, i)], k, h)
  /\ UNCHANGED <<kind, roots, cur>>

\* duk__finreg_register, with a held value and a token or none; the token is, as
\* usual, the target.
Register(f, o, v, tok) ==
  /\ Has(f, "freg") /\ o \in roots /\ Len(s.keys[f]) + Len(s.pend) < MaxLen
  /\ v \in Held \cap Storable /\ tok \in {o, NULL}
  /\ s' = Incref(Incref([BackAdd(s, o, f) EXCEPT !.keys[f] = Append(@, o),
                                                 !.vals[f] = Append(@, v),
                                                 !.toks[f] = Append(@, tok)], v), tok)
  /\ UNCHANGED <<kind, roots, cur>>

\* duk__finreg_unregister, from the last entry to the first.
RECURSIVE UnregisterFrom(_, _, _, _)
UnregisterFrom(t, f, tok, i) ==
  IF i = 0 THEN t
  ELSE IF i > Len(t.keys[f]) \/ t.toks[f][i] # tok THEN UnregisterFrom(t, f, tok, i - 1)
  ELSE UnregisterFrom(BackRemove(Unregistered(t, f, i), t.keys[f][i], f), f, tok, i - 1)

Unregister(f, tok) ==
  /\ Has(f, "freg") /\ tok \in roots
  /\ tok \in Range(s.toks[f])
  /\ Done(UnregisterFrom(s, f, tok, Len(s.keys[f])))
  /\ UNCHANGED <<kind, roots, cur>>

\* duk_rp_weak_drain_pending_finalizers and cleanupSome: an entry is dequeued
\* before its callback is called; the held value is then on the value stack too.
Dequeue(t) ==
  IF t.pend = <<>> THEN cur' = <<>> /\ s' = t
  ELSE /\ cur' = <<Head(t.pend)>>
       /\ s' = [Incref(t, Head(t.pend)) EXCEPT !.pend = Tail(@)]

DrainCall ==
  /\ cur = <<>> /\ s.pend # <<>>
  /\ Dequeue([s EXCEPT !.note = FALSE])
  /\ UNCHANGED <<kind, roots>>

DrainReturn ==
  /\ cur # <<>>
  /\ Dequeue(Ended(Decref(Decref(s, cur[1]), cur[1]), TRUE))
  /\ UNCHANGED <<kind, roots>>

-----------------------------------------------------------------------------
(* Mark-and-sweep.                                                         *)

RECURSIVE Closure(_), Ephemerons(_), SweepRefs(_, _), PostMark(_, _)

Closed(R) == \A o \in R : Range(Strong(s, o)) \cap Obj \subseteq R
Closure(R) == IF Closed(R) THEN R ELSE Closure(R \cup UNION {Range(Strong(s, o)) \cap Obj : o \in R})

\* duk_rp_weak_ephemeron_pass until nothing changes.
ValueMarked(m, i, R) == s.keys[m][i] \in R
MapValues(R) ==
  UNION {{s.vals[m][i] : i \in {j \in DOMAIN s.keys[m] \cap DOMAIN s.vals[m] : ValueMarked(m, j, R)}} \cap Obj :
         m \in {h \in R \cap Heap(s) : kind[h] = "map"}}
Ephemerons(R) == IF MapValues(R) \subseteq R THEN R ELSE Ephemerons(Closure(R \cup MapValues(R)))

\* duk_rp_weak_postmark_cleanup for the dead targets D.
PostMark(t, D) ==
  IF D = {} THEN t
  ELSE LET o == CHOOSE x \in D : TRUE
       IN  PostMark(Dying(t, o, SelectSeq(t.back[o], LAMBDA h : h \in t.reach)), D \ {o})

SweepRefs(t, D) ==
  IF D = {} THEN t
  ELSE LET o == CHOOSE x \in D : TRUE
       IN  SweepRefs(Released(DecrefAll(t, Strong(t, o)), o), D \ {o})

MarkPending == Range(s.pend) \cap Obj

\* The sweep frees the dead D; the unreachable holders F wait for their finalizers.
Swept(t, R, F, D) ==
  [t EXCEPT !.marking = FALSE, !.reach = {}, !.finalized = @ \ R,
            !.where = [o \in Obj |-> IF o \in F THEN "fin" ELSE @[o]],
            !.rc = [o \in Obj |-> CASE o \in F -> @[o] + 1
                                    [] o \in D -> 0
                                    [] OTHER   -> @[o]]]

Sweep(R, F, D) ==
  /\ D \cup F # {} \/ s.finalized # {}
  /\ LET t == PostMark([s EXCEPT !.marking = TRUE, !.reach = R], {o \in Obj \ R : s.back[o] # <<>>})
     IN  s' = Ended(Swept(SweepRefs(t, D), R, F, D), FALSE)
  /\ UNCHANGED <<kind, roots, cur>>

SweepBut(R, F) == Sweep(R, F, Heap(s) \ R)
Mark(R, F) == SweepBut(Ephemerons(Closure(R \cup F \cup MarkPending)), F)
MarkFrom(R) == Mark(R, {o \in Heap(s) \ R : IsHolder(o) /\ o \notin s.finalized})
MarkAndSweep == MarkFrom(Closure(roots \cup (Range(cur) \cap Obj)))

-----------------------------------------------------------------------------
Operation ==
  \/ \E o \in Obj : New(o)
  \/ \E h, o \in Obj : WeakRef(h, o)
  \/ \E o \in Obj, v \in Obj \cup {NULL} : SetChild(o, v)
  \/ \E o \in Obj : DropRoot(o) \/ Fetch(o)
  \/ \E m, k \in Obj, v \in Obj \cup {NULL} : MapSet(m, k, v)
  \/ \E m, k \in Obj : MapDelete(m, k) \/ SetAdd(m, k) \/ SetDelete(m, k)
  \/ \E f, o \in Obj, v, tok \in Obj \cup {NULL} : Register(f, o, v, tok)
  \/ \E f, tok \in Obj : Unregister(f, tok)
  \/ DrainCall \/ DrainReturn
  \/ MarkAndSweep

Untorn == s.torn = {}
Next == Untorn /\ Operation

Spec == Init /\ [][Next]_vars

-----------------------------------------------------------------------------
(* Properties.                                                             *)

Times(x, q) == Cardinality({i \in DOMAIN q : q[i] = x})
SumOver(S, f(_)) == FoldSet(LAMBDA o, n : n + f(o), 0, S)

\* What dies with the objects of S, at most: what they refer to, and the values of
\* WeakMap entries they are the keys of.
Drops(o) ==
  (Range(Strong(s, o) \o s.vals[o])
   \cup {s.vals[e[1]][e[2]] : e \in {d \in Obj \X (1..MaxLen) : /\ d[2] \in DOMAIN s.vals[d[1]]
                                                             /\ s.keys[d[1]][d[2]] = o}}) \cap Obj
RECURSIVE Downstream(_)
Downstream(S) ==
  LET T == S \cup UNION {Drops(o) : o \in S} IN IF T = S THEN S ELSE Downstream(T)

\* The arrays of a holder are torn, in the middle of a swap-with-last removal or of an
\* overwrite, only when a value it held is or leads to one of its own keys: any other death,
\* in whatever nesting, finds them aligned, as the comment at duk__wk_array_swap_shrink_at
\* says of all of them.  A holder that the back-table still names is freed only when it was
\* used after its finalizer had run (it was reachable as a WeakMap value, or from a pending
\* callback: duk__mark_finalizable comes before the passes that mark those).  A target that
\* weak pointers still name is freed only when it is a holder itself: its finalizer ends,
\* and the object with it, without the hook.  A WeakRef gives a freed object only when its
\* own finalizer had run.
TornOnly ==
  \A d \in s.torn :
    LET h == d[2]
        below == Downstream(Range(s.vals[h] \o s.toks[h]) \cap Obj)
    IN  CASE d[1] = "nested" -> kind[h] \in {"map", "freg"} /\ below \cap Range(s.keys[h]) # {}
          [] d[1] = "holder" -> h \in s.finalized \cap s.ran
          [] d[1] = "target" -> IsHolder(h) /\ h \notin roots
          [] d[1] = "stale"  -> \E w \in s.ran : kind[w] = "ref" /\ s.keys[w] = <<h>>

\* Until a holder's finalizer runs, its weak pointers and the back-table entries
\* (duk__wk_back_add, target_dying, holder_unregister_all) match one to one, whoever
\* died and in whatever order, and no weak pointer refers to a freed cell.
WeakExact ==
  \A h, o \in Obj :
    h \notin s.ran =>
      /\ Times(h, s.back[o]) = Times(o, s.keys[h])
      /\ o \in Range(s.keys[h]) => s.where[o] # "free"

\* The entries of a WeakMap or FinalizationRegistry stay aligned over its
\* arrays through every swap-with-last removal.
Aligned ==
  \A h \in Obj \ s.ran : /\ kind[h] \in {"map", "freg"} => Len(s.keys[h]) = Len(s.vals[h])
                         /\ kind[h] = "freg" => Len(s.toks[h]) = Len(s.keys[h])

\* Every counted reference, in the program, a property, a WeakMap value, a held
\* value, a token, a pending callback or a running one, is counted exactly.
CountsExact ==
  \A o \in Obj :
    s.rc[o] = (IF o \in roots THEN 1 ELSE 0) + Times(o, s.pend) + 2 * Times(o, cur)
              + SumOver(Obj, LAMBDA h : Times(o, <<s.child[h]>> \o s.vals[h] \o s.toks[h]))

\* What the program can still get at: a value only while both its WeakMap and
\* its key can be got at (the ephemeron rule).
Needed(S) ==
  /\ (roots \cup Range(cur) \cup Range(s.pend)) \cap Obj \subseteq S
  /\ \A o \in S : Range(Strong(s, o)) \cap Obj \subseteq S
  /\ \A m \in S : kind[m] = "map" =>
       \A i \in DOMAIN s.keys[m] \cap DOMAIN s.vals[m] : s.keys[m][i] \in S => s.vals[m][i] \in S \cup {NULL}

\* Neither reference counting nor mark-and-sweep frees a needed object; every set
\* closed under the rule contains the needed ones, so none of them may consist of
\* live cells only but miss one.
NeededLive ==
  \E S \in SUBSET {o \in Obj : s.where[o] = "heap"} : Needed(S)

\* The entries of the registries F, with tokens in T, whose target dies in this step.
Dead(F, T) ==
  {<<f, i>> \in F \X (1..MaxLen) :
     /\ kind[f] = "freg" /\ i <= Len(s.keys[f]) /\ s.toks[f][i] \in T
     /\ s'.where[s.keys[f][i]] = "free"}

\* A callback is queued exactly once for each registered target that dies while
\* the registry lives (duk__wk_cleanup_for_target), in refzero and mark-and-sweep
\* alike; an entry with a token may be unregistered first.
CallbackQueued ==
  LET begun == IF DrainCall \/ (DrainReturn /\ cur' # <<>>) THEN 1 ELSE 0
      n == Len(s'.pend) - Len(s.pend) + begun
  IN  /\ n >= Cardinality(Dead({f \in Obj \ s.ran : s'.where[f] = "heap"}, {NULL}))
      /\ n <= Cardinality(Dead(Obj, Obj \cup {NULL}))

\* While callbacks are pending, either the notifier was called after the last
\* drain began or a drain is still running.
NotifierCalled == s.pend # <<>> => s.note \/ cur # <<>>
=============================================================================
