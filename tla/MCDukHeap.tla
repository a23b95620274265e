----------------------------- MODULE MCDukHeap -----------------------------
(* Small instances of DukHeap for TLC: the cells, fields and root slots are  *)
(* model values, interchangeable with one another.                           *)
EXTENDS DukHeap, TLC

Symm == Permutations(Obj) \cup Permutations(Field) \cup Permutations(Reg)
=============================================================================
