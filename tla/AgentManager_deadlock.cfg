CONSTANTS
  Agents = {a1}
  MaxRunning = 1
  MaxRetained = 1
  MaxTurns = 1
  MaxRuns = 2
  MaxStops = 1
  MayClose = TRUE
SPECIFICATION FairSpec
PROPERTIES CloseReturns
CHECK_DEADLOCK FALSE
