CONSTANTS
  NumUnits = 3
  Junk = Junk
SPECIFICATION FairSpec
INVARIANTS TypeOK SuccessIsComplete ParametersAlive PowerOffSafe LateStoreOnlyAfterWriteError OneWakeupPerCommand
PROPERTIES CommandsAnswered OperationReturns
CHECK_DEADLOCK FALSE
