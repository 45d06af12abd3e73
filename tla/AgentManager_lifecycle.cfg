CONSTANTS
  Agents = {a1, a2, a3}
  MaxRunning = 2
  MaxRetained = 2
  MaxTurns = 2
  MaxRuns = 3
  MaxStops = 1
  MayClose = TRUE
SPECIFICATION FairSpec
INVARIANTS TypeOK EveryRunReportedOnce NoneRunsPastClose
PROPERTIES AgentsSettle CloseReturnsUnlessStopped
\* The root model may never call the manager again.
CHECK_DEADLOCK FALSE
