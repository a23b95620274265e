SPECIFICATION PartsSpec
CONSTANTS
  o1 = o1
  o2 = o2
  o3 = o3
  Objs = {o1, o2, o3}
  MaxSpawn = 2
  NULL = NULL
  f1 = f1
  f2 = f2
  r1 = r1
  r2 = r2
  FINARG = FINARG
  ROOT = ROOT
  PLAIN = PLAIN
  ERR = ERR
  THENABLE = THENABLE
  BADTHEN = BADTHEN
  NONE = NONE
  USER = USER
INVARIANTS HeapGivenBack
PROPERTIES GarbageFreed PromisesProgress DestructionEnds BrokenRunsOn
CHECK_DEADLOCK FALSE
