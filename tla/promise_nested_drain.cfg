SPECIFICATION Spec
CONSTANTS
  MaxPromise = 8
  MaxPair = 11
  MaxOps = 2
  MaxDepth = 5
  Rooms = {9}
  Reentrant = TRUE
  PLAIN = PLAIN
  ERR = ERR
  THENABLE = THENABLE
  BADTHEN = BADTHEN
  NONE = NONE
  USER = USER
INVARIANT UnlinkedOnce
CHECK_DEADLOCK FALSE
