CONSTANTS
  MaxTasks = 2
  Interactive = {1}
  ReadsInput = {1}
  MayResist = TRUE
  LogsMayFail = {2}
  Limit = 2
  Prints <- PrintsUsed
  MaxRunning = 1
  MaxRetained = 1
SPECIFICATION FairSpec
INVARIANTS TypeOK EveryByteAccounted EndHasAllOutput
PROPERTIES EndIsReported CloseEnds
CHECK_DEADLOCK FALSE
