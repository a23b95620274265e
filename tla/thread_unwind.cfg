SPECIFICATION Spec
CONSTANTS
  Thread = {MAIN, t1}
  MAIN = MAIN
  t1 = t1
  NONE = NONE
  MaxCall = 3
  MaxC = 3
  Stmts = {"catch", "finally", "catchfinally", "with", "label"}
  MaxStmt = 2
  Finalizers = FALSE
  Cancel = TRUE
INVARIANT FramesMatch
PROPERTIES FinallyNeverSkipped HandlingEnds
