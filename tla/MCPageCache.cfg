SPECIFICATION FairSpec
CONSTANTS
  NumBlocks = 2
  BlockSize = 2
  NumSlots = 2
  CallerPages <- MCCallerPages
  Data = {d1, d2}
  Blank = Blank
  MaxFaults = 1
INVARIANTS
  TypeOK
  UniquePages
  Coherent
PROPERTIES
  OnlyDirtyBlocksChange
  ImplementsStore
  CallEnds
CHECK_DEADLOCK TRUE
