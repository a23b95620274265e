SPECIFICATION Spec
CONSTANTS
  Obj = {o1, o2}
  Field = {f1, f2}
  Reg = {r1, r2}
  FINARG = FINARG
  ROOT = ROOT
  NULL = NULL
  RecLimit = 1
  MaxPrevent = 1
  Debugger = TRUE
SYMMETRY Symm
INVARIANTS RefcountExact NoDangling ListsPartition MarkState SafeHeap
