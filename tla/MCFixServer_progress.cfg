SPECIFICATION FairSpec
CONSTANTS
  Sockets = {s1, s2}
  NoSocket = NoSocket
  A = A
  B = B
  C = C
  NoComp = NoComp
  NoFile = NoFile
  Logon = "A"
  SupportedMsgTypes = {}
  InitOutcomes = {TRUE}
  StoringMayFail = FALSE
  ClockMaySlip = FALSE
  MaxClock = 0
  MaxWire = 2
  MaxSends = 1
  CompIds <- MCCompIds
  AppTypes <- MCAppTypes
  AllowedCompIds <- Companies
  RuledCompIds <- OnlyA
  Packets <- ProgressPackets
INVARIANTS
  RefusedStayOut
PROPERTIES
  BuffersDrain
  EveryoneIsServed
  WaitingAreReplayed
