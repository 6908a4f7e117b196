CONSTANTS
  NumHandles = 2
  MaxEntries = 4
  Lists <- PackageLists
SPECIFICATION Spec
INVARIANT FinalSyncHasAWrite
CHECK_DEADLOCK FALSE
