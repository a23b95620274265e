SPECIFICATION Spec
CONSTANTS
  Thread = {MAIN, t1}
  MAIN = MAIN
  t1 = t1
  NONE = NONE
  MaxCall = 3
  MaxC = 3
  Stmts = {"catchfinally"}
  MaxStmt = 1
  Finalizers = FALSE
  Cancel = FALSE
INVARIANT FinallyAfterCatch
