SPECIFICATION LanguageSpec
CONSTANTS
  keyA = keyA
  keyB = keyB
  val1 = val1
  val2 = val2
  g1 = g1
  UNSET = UNSET
  NULL = NULL
  text1 = text1
  text2 = text2
  text3 = text3
  lit1 = lit1
  lit2 = lit2
  adr1 = adr1
  adr2 = adr2
  Addr <- MCAddr
  Contents <- MCText
  Hash <- MCHash
  Utf8 <- MCData
  Lit <- MCLit
  LitKey <- MCLitKey
  MinSize = 1
  MaxSize = 4
  LoadUnit = 1
  GrowLimit = 1
  ShrinkLimit = 0
  CheckEvery = 1
  CacheSize = 1
  NoCache = 1
  RetryLimit = 2
  EmergencyLimit = 2
  Scalars <- MCScalars
  MapValues = {1, 2}
  Addrs = {8}
  MaxObjs = 2
  MaxIters = 1
  MaxSteps = 5
  KeyHash <- MCKeyHash
  Programs <- MCProgs
  ParseStmt <- MCParseStmt
  ProgramMeaning <- MCProgramMeaning
  RegexpPatterns <- MCPatterns
  JsonCases <- MCCases
  Texts <- MCTexts
  BindArgs <- MCBindArgs
  CallArgs <- MCCallArgs
  ThisArgs <- MCThisArgs
  CborTrees <- MCTrees
  Encodings <- MCEncodings
  Starts <- MCStarts
  Pieces <- MCPieces
INVARIANTS
  StringsSound
  TablesSound CodeAgrees RegexpAgrees JsonAgrees CborAgrees MapSetAgrees ArraysAgree LinesExact TargetAgrees
PROPERTY ImplementsObject
CHECK_DEADLOCK FALSE
