CONSTANTS
  Responses <- ResponsesUsed
  MaxSteps = 2
  MaxToolCalls = 2
  MaxRecoveries = 1
  MaxOutputRecoveries = 1
  MaxEmptyResponses = 2
  MaxCompactionFailures = 1
  MaxAttempts = 2
  MaxTurns = 2
  MaxHistory = 2
  MaxCompactions = 1
  MaxSummaryDrops = 1
SPECIFICATION FairSpec
INVARIANTS TypeOK ViewIsWhole LatestUserVisible
PROPERTIES KeepsHistory
CHECK_DEADLOCK FALSE
