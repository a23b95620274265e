SPECIFICATION Spec
CONSTANTS
  MaxPromise = 8
  MaxPair = 11
  MaxOps = 3
  MaxDepth = 5
  Rooms = {9}
  Reentrant = FALSE
  PLAIN = PLAIN
  ERR = ERR
  THENABLE = THENABLE
  BADTHEN = BADTHEN
  NONE = NONE
  USER = USER
PROPERTY OtherCallsNoOp
CHECK_DEADLOCK FALSE
