SPECIFICATION MachineSpec
CONSTANTS
  o1 = o1
  o2 = o2
  o3 = o3
  NULL = NULL
  t1 = t1
  t2 = t2
  UNSET = UNSET
  NUM = NUM
  Fns <- MCFns
  Lines <- MCLines
  First <- MCFirst
  Final <- MCFinal
  Inner <- MCInner
  MainFn = "f"
  Cmds <- MCCmds
  MaxDepth = 2
  MaxBreaks = 1
  MaxQueue = 1
  Templates <- MCTemplates
  Globals <- MCGlobals
  Starts <- MCStarts
  Ends <- MCEnds
INVARIANTS WeakSound DebuggerSound StackSound ScopesAgree BuffersAgree
PROPERTIES CallbackQueued FramesKept
CHECK_DEADLOCK FALSE
