SPECIFICATION Spec
CONSTANTS
  Sockets = {s1, s2, s3}
  NoSocket = NoSocket
  A = A
  B = B
  C = C
  NoComp = NoComp
  NoFile = NoFile
  Logon = "A"
  SupportedMsgTypes = {"D"}
  InitOutcomes = {TRUE}
  StoringMayFail = TRUE
  ClockMaySlip = FALSE
  MaxClock = 1
  MaxWire = 1
  MaxSends = 2
  CompIds <- MCCompIds
  AppTypes <- MCAppTypes
  AllowedCompIds <- Companies
  RuledCompIds <- Companies
  Packets <- RoutingPackets
SYMMETRY SocketSymmetry
INVARIANTS
  TypeOK
  RoutesAreLive
  OnlyToAddressee
  NothingWaitsForOnline
PROPERTIES
  LostOnlyWithConnection
