SPECIFICATION Spec
CONSTANTS
  MaxPromise = 3
  MaxPair = 5
  MaxOps = 4
  MaxDepth = 5
  Rooms = {0, 1, 9}
  Reentrant = FALSE
  PLAIN = PLAIN
  ERR = ERR
  THENABLE = THENABLE
  BADTHEN = BADTHEN
  NONE = NONE
  USER = USER
INVARIANTS PromiseState ReactionOnce NoLostWakeup
PROPERTY ImplementsPromises
CHECK_DEADLOCK FALSE
