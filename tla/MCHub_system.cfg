SPECIFICATION HubFairSpec
CONSTANTS
  Sockets = {s1, s2, s3}
  NoSocket = NoSocket
  A = A
  B = B
  C = C
  ka = ka
  kb = kb
  kc = kc
  NoComp = NoComp
  NoFile = NoFile
  Logon = "A"
  NewOrder = "D"
  SupportedMsgTypes = {"D"}
  InitOutcomes = {TRUE}
  StoringMayFail = FALSE
  ClockMaySlip = FALSE
  MaxClock = 0
  MaxWire = 2
  MaxSends = 2
  CompIds <- MCCompIds
  AppTypes <- MCAppTypes
  AllowedCompIds <- Companies
  RuledCompIds <- OnlyA
  Packets <- ClientPackets
  Clients <- ThreeClients
  Config <- MCConfig
CHECK_DEADLOCK FALSE
INVARIANTS
  LogonComesFirst
  SessionIsClient
PROPERTIES
  OrderArrives
