---------------------------- MODULE MCDukPromise ----------------------------
(* DukPromise for TLC, with the abstract specification it implements. *)
EXTENDS DukPromise
=============================================================================
