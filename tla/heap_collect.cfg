SPECIFICATION Spec
CONSTANTS
  Obj = {o1, o2, o3}
  Field = {f1}
  Reg = {r1, r2}
  FINARG = FINARG
  ROOT = ROOT
  NULL = NULL
  RecLimit = 1
  MaxPrevent = 0
  Debugger = FALSE
SYMMETRY Symm
INVARIANT CountsAndFlags
PROPERTIES QueuedIsGarbage FinalizedBeforeFree
