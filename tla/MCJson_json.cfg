SPECIFICATION MCSpec
CONSTANTS
  KeyOrder <- Tokens
  Values <- SomeValues
  MaxLength = 2
  MaxNodes = 3
  Patches <- SomePatches
  Compared <- Comparable
  Nesting <- Depth
  Precision = 2
  Variables = {v1, v2}
  Blocks = {b1, b2, b3, b4}
  NoBlock = NoBlock
  MaxElements = 2
SYMMETRY HeapSymmetry
VIEW MCView
CHECK_DEADLOCK FALSE
INVARIANTS
  DiffLeadsThere
  OneTotalOrder
  OneOwner
PROPERTIES
  CopyIsUndone
  FailedCallsChangeNothing
  UpdateTakesOver
