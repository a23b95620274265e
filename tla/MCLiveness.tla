------------------------------ MODULE MCLiveness ------------------------------
(***************************************************************************)
(* The liveness of four components on small instances, checked side by     *)
(* side: the heap with inert finalizers (InertSpec of DukHeap), the        *)
(* promises (FairSpec of DukPromise), destruction of a heap, and the       *)
(* message loop of the debugger.  A behaviour is one of the instance that  *)
(* part names.  Destruction has its own variables, which stay as they      *)
(* begin in the other parts; the other instances share x1, ..., x23, and   *)
(* those an instance does not use stay 0.                                  *)
(***************************************************************************)
EXTENDS DukHeapLife, TLC

CONSTANTS o1, o2, o3, NULL, f1, f2, r1, r2, FINARG, ROOT,
          PLAIN, ERR, THENABLE, BADTHEN, NONE, USER

VARIABLES part, x1, x2, x3, x4, x5, x6, x7, x8, x9, x10, x11, x12, x13, x14,
          x15, x16, x17, x18, x19, x20, x21, x22, x23

From17 == <<x17, x18, x19, x20, x21, x22, x23>>
From5 == <<x5, x6, x7, x8, x9, x10, x11, x12, x13, x14, x15, x16, From17>>
X == <<x1, x2, x3, x4, From5>>
all == <<part, X, vars>>

Heap == INSTANCE DukHeap WITH
  Obj <- {o1, o2}, Field <- {f1, f2}, Reg <- {r1, r2},
  RecLimit <- 1, MaxPrevent <- 0, Debugger <- FALSE,
  mem <- x1, ref <- x2, rc <- x3, hasFin <- x4, heap_allocated <- x5, refzero_list <- x6,
  finalize_list <- x7, reachable <- x8, temproot <- x9, finalizable <- x10, finalized <- x11,
  ms_running <- x12, pf_prevent_count <- x13, postpone_rescue <- x14, reclimit_reached <- x15,
  stack <- x16, scan <- x17, phase <- x18, after <- x19, curr <- x20, had_zero <- x21,
  paused <- x22, ran <- x23

Promises == INSTANCE DukPromise WITH
  MaxPromise <- 5, MaxPair <- 7, MaxOps <- 3, MaxDepth <- 5, Rooms <- {9}, Reentrant <- FALSE,
  state <- x1, result <- x2, fq <- x3, rq <- x4, target <- x5, done <- x6, held <- x7,
  known <- x8, queue <- x9, unlinked <- x10, wake <- x11, frames <- x12, ops <- x13,
  source <- x14, ran <- x15, lost <- x16

Dbg == INSTANCE DukDebugger WITH
  Fns <- {"f"}, Lines <- [f |-> {1, 2}], MainFn <- "f", First <- [f |-> 1], Final <- [f |-> 2],
  Inner <- [f |-> {"f"}], Cmds <- {"PAUSE", "STEPOVER", "DETACH"},
  MaxDepth <- 2, MaxBreaks <- 0, MaxQueue <- 1,
  m <- x1, pc <- x2, inq <- x3, peer <- x4

-----------------------------------------------------------------------------
Zero17 == x17 = 0 /\ x18 = 0 /\ x19 = 0 /\ x20 = 0 /\ x21 = 0 /\ x22 = 0 /\ x23 = 0
Zero5 == /\ x5 = 0 /\ x6 = 0 /\ x7 = 0 /\ x8 = 0 /\ x9 = 0 /\ x10 = 0 /\ x11 = 0 /\ x12 = 0 /\ x13 = 0
         /\ x14 = 0 /\ x15 = 0 /\ x16 = 0 /\ Zero17

OtherInit == \/ part = "heap" /\ Heap!Init
             \/ part = "promises" /\ Promises!Init /\ Zero17
             \/ part = "life" /\ x1 = 0 /\ x2 = 0 /\ x3 = 0 /\ x4 = 0 /\ Zero5
             \/ part = "debugger" /\ Dbg!Init /\ Zero5

InHeap == part = "heap" /\ UNCHANGED <<part, vars>>
InPromises == part = "promises" /\ UNCHANGED <<part, From17, vars>>
InLife == part = "life" /\ UNCHANGED <<part, X>>
InDebugger == part = "debugger" /\ UNCHANGED <<part, From5, vars>>

PartsInit == Init /\ OtherInit
PartsNext == \/ InHeap /\ Heap!InertNext
             \/ InPromises /\ Promises!Next
             \/ InLife /\ Next
             \/ InDebugger /\ Dbg!Next

\* The fairness of each part is that of its own specification.  part never changes, so
\* weak fairness of a disjunction over parts is weak fairness of the disjunct of the part:
\* the first two formulas each state one condition of several parts.
Fairness ==
  /\ WF_all(\/ InHeap /\ Heap!Engine
            \/ InPromises /\ Promises!Return
            \/ InLife /\ (MarkAndSweep \/ FinalizeRound \/ FinalizeSkipped \/ Free)
            \/ InDebugger /\ Dbg!Loop)
  /\ WF_all(\/ InPromises /\ (Promises!RunJob \/ Promises!DrainEnd)
            \/ InDebugger /\ ~x1.conn /\ Dbg!ReadFails)
  /\ WF_all(InPromises /\ Promises!WakeDrain)
  /\ SF_all(InHeap /\ Heap!FinalizerReturn)
  /\ SF_all(InHeap /\ Heap!MarkAndSweep)

PartsSpec == PartsInit /\ [][PartsNext]_all /\ Fairness

-----------------------------------------------------------------------------
(* The properties of the parts; those of destruction are HeapGivenBack and *)
(* DestructionEnds of DukHeapLife.                                         *)

\* With finalizers that change nothing, every object that ordinary code can no longer
\* reach is freed in the end, cycles included, unless it is revived first.
GarbageFreed ==
  \A o \in {o1, o2} : (part = "heap" /\ Heap!Garbage(o)) ~> (part = "heap" /\ Heap!FreedOrRevived(o))

\* Every then() handler of a settled promise is run in the end, and a promise resolved
\* with another promise settles once the other has settled.
PromisesProgress ==
  /\ \A i \in Promises!Pair : (part = "promises" /\ Promises!Due(i)) ~> (part = "promises" /\ Promises!Ran(i))
  /\ \A p \in Promises!Promise :
       (part = "promises" /\ Promises!AdoptsSettled(p)) ~> (part = "promises" /\ Promises!Settled(p))

\* A target whose transport broke in the message loop runs on, unless the application
\* attaches again; or unless that attach was made from the detached callback inside a
\* debugger statement or a throw and its handshake failed (duk_debug_halt_execution).
BrokenRunsOn == (part = "debugger" /\ Dbg!Lost) ~> (part = "debugger" /\ Dbg!RunsOn)
=============================================================================
