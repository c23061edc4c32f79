SPECIFICATION Spec
CONSTANTS
  Sockets = {s1, s2}
  NoSocket = NoSocket
  A = A
  B = B
  C = C
  NoComp = NoComp
  NoFile = NoFile
  Logon = "A"
  SupportedMsgTypes = {"D"}
  InitOutcomes = {TRUE, FALSE}
  StoringMayFail = TRUE
  ClockMaySlip = FALSE
  MaxClock = 2
  MaxWire = 1
  MaxSends = 3
  CompIds <- MCCompIds
  AppTypes <- MCAppTypes
  AllowedCompIds <- Companies
  RuledCompIds <- Companies
  Packets <- OrderPackets
SYMMETRY SocketSymmetry
INVARIANTS
  AtMostOneCopy
  InRoutingOrder
PROPERTIES
  RefinesRelay
