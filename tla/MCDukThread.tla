----------------------------- MODULE MCDukThread -----------------------------
(* DukThread for TLC: the coroutines other than heap_thread are alike. *)
EXTENDS DukThread

Symmetry == Permutations(Thread \ {MAIN})
=============================================================================
