CONSTANTS
  NumClusters = 9
  PagesPerCluster = 2
  AllocStart = 41
  MaxFaults = 2
  Names <- AllNames
  FileAlias <- AliasTable
  Own = 2
  MaxEntries = 2
  Cards <- MCCards
SPECIFICATION Spec
INVARIANT NewClusterOrZero
CHECK_DEADLOCK FALSE
