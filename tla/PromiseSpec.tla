---------------------------- MODULE PromiseSpec ----------------------------
(***************************************************************************)
(* What promises promise, whatever queues and jobs implement them: a       *)
(* promise settles once and for good, and the reaction of each then() call *)
(* runs at most once, after its promise settled, in the order of the       *)
(* then() calls on that promise.                                           *)
(***************************************************************************)
EXTENDS Naturals, Sequences

CONSTANTS Promise,  \* promises
          Pair,     \* then() calls, numbered in the order they are made
          NONE

VARIABLES state, result,  \* of each promise
          source,         \* the promise a then() call was made on
          ran,            \* then() calls whose reaction ran, in order
          lost            \* then() calls abandoned for want of memory

vars == <<state, result, source, ran, lost>>

Settled(p) == state[p] \in {"fulfilled", "rejected"}
Done == {ran[i] : i \in 1..Len(ran)} \cup lost

Init ==
  /\ \A p \in Promise : state[p] = "free"
  /\ \A c \in Pair : source[c] = NONE
  /\ ran = <<>> /\ lost = {}

\* A promise is created, pending or settled, and settles once.
PromiseStep(p) ==
  \/ state'[p] = state[p] /\ result'[p] = result[p]
  \/ state[p] = "free" /\ state'[p] # "free"
  \/ state[p] = "pending" /\ state'[p] \in {"fulfilled", "rejected"}

\* then() on an existing promise, after all earlier calls.
Attach(c) ==
  /\ source[c] = NONE
  /\ \A d \in Pair : source[d] # NONE => d < c
  /\ \E p \in Promise :
       state[p] # "free" /\ source' = [source EXCEPT ![c] = p]
  /\ ran' = ran

\* The reaction of c runs, the earlier ones of the same promise having run.
Run(c) ==
  /\ source[c] # NONE /\ Settled(source[c]) /\ c \notin Done
  /\ \A d \in Pair : source[d] = source[c] /\ d < c => d \in Done
  /\ ran' = Append(ran, c)
  /\ source' = source

\* Memory can run out only for reactions that have not run.
Abandon == /\ lost \subseteq lost'
           /\ \A c \in lost' \ lost : source'[c] # NONE /\ c \notin Done

Next ==
  /\ \A p \in Promise : PromiseStep(p)
  /\ UNCHANGED <<source, ran>> \/ \E c \in Pair : Attach(c) \/ Run(c)
  /\ Abandon

Spec == Init /\ [][Next]_vars

=============================================================================
