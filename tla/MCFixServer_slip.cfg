SPECIFICATION Spec
CONSTANTS
  Sockets = {s1, s2}
  NoSocket = NoSocket
  A = A
  B = B
  C = C
  NoComp = NoComp
  NoFile = NoFile
  Logon = "A"
  SupportedMsgTypes = {"D"}
  InitOutcomes = {TRUE}
  StoringMayFail = FALSE
  ClockMaySlip = TRUE
  MaxClock = 1
  MaxWire = 1
  MaxSends = 2
  CompIds <- MCCompIds
  AppTypes <- MCAppTypes
  AllowedCompIds <- Companies
  RuledCompIds <- Companies
  Packets <- TradePackets
INVARIANTS
  InRoutingOrder
