---------------------------- MODULE DukHeapLife ----------------------------
(***************************************************************************)
(* Creation and destruction of a heap (duk_heap_alloc.c).  Any allocation  *)
(* of the creation may fail, which destroys what there is of the heap; at  *)
(* destruction the finalizers of all objects run, and finalizers may       *)
(* rescue objects and create new ones as long as they run.                 *)
(***************************************************************************)
EXTENDS Integers, Sequences, FiniteSets

CONSTANTS Objs,     \* objects the program or a finalizer may create
          MaxSpawn  \* objects one forced finalizer creates at most

VARIABLES
  pc,      \* what duk_heap_alloc or duk_heap_free does next
  blocks,  \* allocated parts of the heap
  obj,     \* Objs -> [st, fin, reach, done, owed]
  late,    \* finalizable objects created by forced finalizers
  round,   \* round_no = 0 and curr_limit of duk__free_run_finalizers
  prevent  \* ms_prevent_count and pf_prevent_count

vars == <<pc, blocks, obj, late, round, prevent>>

\* st: "none", "live" or "freed"; fin: has a finalizer; reach: reachable from
\* heap_thread; done: the FINALIZED flag; owed (for the properties): a finalizer
\* call is due since creation or the last rescue.
NoObject == [st |-> "none", fin |-> FALSE, reach |-> FALSE, done |-> FALSE, owed |-> FALSE]

\* The allocations of duk_heap_alloc in their order (duk__init_heap_strings,
\* duk__init_heap_thread and the heap object included).
Stages == <<"heap", "strtable", "strings", "thread", "stacks", "heap_object">>

Init ==
  /\ pc = <<"create", 1>> /\ blocks = {}
  /\ obj = [o \in Objs |-> NoObject]
  /\ late = 0 /\ round = [first |-> TRUE, limit |-> 0] /\ prevent = 1

LiveObjs == {o \in Objs : obj[o].st = "live"}

\* One allocation of the creation succeeds; the last one ends it.
CreateOk ==
  /\ pc[1] = "create"
  /\ blocks' = blocks \cup {Stages[pc[2]]}
  /\ IF pc[2] = Len(Stages) THEN pc' = <<"run", 0>> /\ prevent' = 0
     ELSE pc' = <<"create", pc[2] + 1>> /\ UNCHANGED prevent
  /\ UNCHANGED <<obj, late, round>>

\* It fails: with a heap structure the heap is destroyed, with collections
\* enabled if there is a thread to run them on.
CreateFails ==
  /\ pc[1] = "create"
  /\ pc' = IF "heap" \in blocks THEN <<"ms", 1>> ELSE <<"failed", 0>>
  /\ prevent' = IF "thread" \in blocks THEN 0 ELSE prevent
  /\ UNCHANGED <<blocks, obj, late, round>>

-----------------------------------------------------------------------------
(* The program.                                                            *)

NewObject(o, fin) ==
  /\ pc[1] = "run" /\ obj[o].st = "none"
  /\ obj' = [obj EXCEPT ![o] = [st |-> "live", fin |-> fin, reach |-> TRUE, done |-> FALSE, owed |-> fin]]
  /\ UNCHANGED <<pc, blocks, late, round, prevent>>

\* The last reference from outside a cycle goes.
Drop(o) ==
  /\ pc[1] = "run" /\ obj[o].st = "live" /\ obj[o].reach
  /\ obj' = [obj EXCEPT ![o].reach = FALSE]
  /\ UNCHANGED <<pc, blocks, late, round, prevent>>

\* WeakRef and promise support allocate their tables on first use.
UseTable(b) ==
  /\ pc[1] = "run" /\ b \notin blocks
  /\ blocks' = blocks \cup {b}
  /\ UNCHANGED <<pc, obj, late, round, prevent>>

Destroy ==
  /\ pc[1] = "run"
  /\ pc' = <<"ms", 1>>
  /\ UNCHANGED <<blocks, obj, late, round, prevent>>

-----------------------------------------------------------------------------
(* duk_heap_free.                                                          *)

\* The three collections; the last one with pf_skip_finalizers.  Unreachable
\* objects are freed unless their finalizer is still to be called; a finalizer
\* may rescue its object or create another; a rescued one loses FINALIZED.
Finalizable == {o \in LiveObjs : ~obj[o].reach /\ obj[o].fin /\ ~obj[o].done}
Swept == {o \in LiveObjs : ~obj[o].reach} \ Finalizable

KeepFinalized(x) == x   \* mutant of Rescued
Rescued(x) == [x EXCEPT !.done = FALSE]

AfterGC(run, back, new) ==
  [o \in Objs |->
     LET x == obj[o]
     IN  CASE o \in Swept -> [x EXCEPT !.st = "freed"]
           [] o \in run   -> [x EXCEPT !.done = TRUE, !.owed = o \in back, !.reach = o \in back]
           [] o \in new   -> [st |-> "live", fin |-> TRUE, reach |-> FALSE, done |-> FALSE, owed |-> TRUE]
           [] x.st = "live" /\ x.reach /\ x.done -> Rescued(x)
           [] OTHER -> x]

MarkAndSweep ==
  /\ pc[1] = "ms"
  /\ pc' = IF pc[2] = 3 THEN <<"finalize", 0>> ELSE <<"ms", pc[2] + 1>>
  /\ IF prevent > 0 THEN UNCHANGED obj
     ELSE LET run == IF pc[2] = 3 THEN {} ELSE Finalizable
          IN  \E back \in SUBSET run :
              \E new \in SUBSET {o \in Objs : obj[o].st = "none"} :
                /\ Cardinality(new) <= Cardinality(run)
                /\ obj' = AfterGC(run, back, new)
  /\ UNCHANGED <<blocks, late, round, prevent>>

\* duk__free_run_finalizers, a round: every object on heap_allocated whose
\* finalizer has not run gets its call; new objects go to the head of the list
\* and wait for the next round.
Due(o) == obj[o].fin /\ ~obj[o].done
NeverLess(l, first, all) == IF first THEN all * 2 ELSE l   \* mutant of NextLimit
NextLimit(l, first, all) == IF first THEN all * 2 ELSE (l * 3) \div 4

FinalizeRound ==
  /\ pc[1] = "finalize" /\ "thread" \in blocks
  /\ LET due == {o \in LiveObjs : Due(o)}
         count == Cardinality(due) + late
         all == Cardinality(LiveObjs) + late
         limit == NextLimit(round.limit, round.first, all)
     IN  /\ obj' = [o \in Objs |-> IF o \in due THEN [obj[o] EXCEPT !.done = TRUE, !.owed = FALSE] ELSE obj[o]]
         /\ late' \in IF count = 0 THEN {0} ELSE 0..count * MaxSpawn
         /\ round' = [first |-> FALSE, limit |-> limit]
         /\ pc' = IF count = 0 \/ count >= limit THEN <<"free", 1>> ELSE pc
  /\ UNCHANGED <<blocks, prevent>>

FinalizeSkipped ==
  /\ pc[1] = "finalize" /\ "thread" \notin blocks
  /\ pc' = <<"free", 1>>
  /\ UNCHANGED <<blocks, obj, late, round, prevent>>

\* Lists and tables are freed, the heap structure last: freelists and
\* heap_allocated with finalize_list (which hold the thread with its stacks and
\* the heap object), the string table with its strings, the weak reference table,
\* the microtask queue, the heap.
FreeOrder == <<{"thread", "stacks", "heap_object"}, {"strtable", "strings"}, {"weak"},
               {"microtasks"}, {"heap"}>>

Free ==
  /\ pc[1] = "free"
  /\ blocks' = blocks \ FreeOrder[pc[2]]
  /\ obj' = IF pc[2] = 1 THEN [o \in Objs |-> IF obj[o].st = "live" THEN [obj[o] EXCEPT !.st = "freed"] ELSE obj[o]]
            ELSE obj
  /\ late' = 0
  /\ pc' = IF pc[2] = Len(FreeOrder) THEN <<"done", 0>> ELSE <<"free", pc[2] + 1>>
  /\ UNCHANGED <<round, prevent>>

Next ==
  \/ CreateOk \/ CreateFails \/ Destroy
  \/ \E o \in Objs : Drop(o) \/ \E fin \in BOOLEAN : NewObject(o, fin)
  \/ \E b \in {"weak", "microtasks"} : UseTable(b)
  \/ MarkAndSweep \/ FinalizeRound \/ FinalizeSkipped \/ Free

\* The C code of a destruction that has begun runs on.
Spec == Init /\ [][Next]_vars /\ WF_vars(MarkAndSweep \/ FinalizeRound \/ FinalizeSkipped \/ Free)

-----------------------------------------------------------------------------
(* Properties.                                                             *)

\* Whatever allocation failed, all that was obtained is given back.
NothingLeaks ==
  pc[1] \in {"done", "failed"} => blocks = {} /\ LiveObjs = {}

\* No object is freed without the finalizer call it is due: the one all objects
\* get, and one more for an object rescued by its finalizer during destruction
\* (duk_heap_free's "finalizer guarantees").
FinalizersHonored ==
  \A o \in Objs : obj[o].st = "freed" => ~obj[o].owed

\* Whatever allocation failed while a heap was created, and after it is destroyed, all
\* that was obtained is given back, and no object is freed without the finalizer calls it
\* is due, the one for an object that its finalizer rescued during destruction included.
HeapGivenBack == NothingLeaks /\ FinalizersHonored

\* Destruction comes to an end, though every forced finalizer may create objects
\* with finalizers (the curr_limit of duk__free_run_finalizers).
Destroying == pc[1] \in {"ms", "finalize", "free"}
Destroyed == pc[1] = "done"
DestructionEnds == Destroying ~> Destroyed
=============================================================================
