SPECIFICATION Spec
CONSTANTS
  Thread = {MAIN, t1, t2}
  MAIN = MAIN
  t1 = t1
  t2 = t2
  NONE = NONE
  MaxCall = 4
  MaxC = 4
  Stmts = {"catchfinally"}
  MaxStmt = 1
  Finalizers = TRUE
  Cancel = FALSE
INVARIANTS ThreadsConsistent CountersExact
SYMMETRY Symmetry
