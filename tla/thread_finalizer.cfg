SPECIFICATION Spec
CONSTANTS
  Thread = {MAIN, t1}
  MAIN = MAIN
  t1 = t1
  NONE = NONE
  MaxCall = 3
  MaxC = 3
  Stmts = {}
  MaxStmt = 0
  Finalizers = TRUE
  Cancel = FALSE
INVARIANT FinalizerAccepted
