SPECIFICATION Spec
CONSTANTS
  Targets = {A, B}
  NoTarget = NoTarget
  NoFile = NoFile
  Faults = {"init", "mkdir", "create", "write", "list", "open", "remove"}
  ClockMaySlip = FALSE
  MaxClock = 1
  MaxTickets = 2
  MaxHanded = 3
SYMMETRY TargetSymmetry
INVARIANTS
  NothingUnaccounted
  TornOnlyByFailure
  ReturnedOnce
  HandedInOrder
PROPERTIES
  RefinesQueue
