CONSTANTS
  MaxTasks = 1
  Interactive = {1}
  ReadsInput = {}
  MayResist = FALSE
  LogsMayFail = {}
  Limit = 2
  Prints <- PrintsUsed
  MaxRunning = 1
  MaxRetained = 1
SPECIFICATION FairSpec
PROPERTIES CloseEnds
CHECK_DEADLOCK FALSE
