CONSTANTS
  NumHandles = 2
  MaxEntries = 4
  Lists <- PackageLists
SPECIFICATION FairSpec
INVARIANTS TypeOK SuccessIsWhole WriteFromOwnBuffer NoDoubleFree CardLeftBusyOnlyBySource
PROPERTIES Returns ImplementsSequentialCopy
CHECK_DEADLOCK FALSE
