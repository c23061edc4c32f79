SPECIFICATION MCSpec
CONSTANTS
  Width = 5
  Lengths <- ShortLengths
  MayReturn = TRUE
  MaxPackets = 3
  Capacity = 2
  MaxSignals = 5
  Threads = {main, worker}
  Main = main
  Nobody = nobody
  UsedLevels <- InfoAndError
  MaxCalls = 2
  MaxClock = 1
  a = a
  b = b
  x = x
  y = y
  Callers = {t1, t2}
  NoCaller = nobody
  Routes <- AllRoutes
  CompIds = {a, b}
  CustomIds = {x, y}
  None = none
  Hub = hub
  Messages <- Samples
  MaxAsked = 2
  MaxInt = 4095
  Texts <- AllTexts
  CustomTags <- Rules
  Senders = {a, b}
  Targets = {a, b}
  NoTarget = none
  KeyOrder <- Names
  Files <- SomeFiles
  MaxRules = 2
INVARIANTS
  PacketsComeOutAsSent
  ReadNeverBlocks
  NoDumpUnasked
  FileFollowsConsole
  AnswersFromOneTable
  LastRouteHolds
  ReadBackAsWritten
  ReceiverCanCheck
  AcceptedWereRegistered
  RulesAreWhole
  NothingSkipped
PROPERTIES
  RefinesChannel
  RequestIsAnswered
  LoadsOnlyAdd
