SPECIFICATION Spec
CONSTANTS
  NumBlocks = 2
  BlockSize = 2
  NumSlots = 2
  CallerPages <- MCCallerPages
  Data = {d1, d2}
  Blank = Blank
  MaxFaults = 2
PROPERTIES
  FlushReportsFailure
CHECK_DEADLOCK TRUE
