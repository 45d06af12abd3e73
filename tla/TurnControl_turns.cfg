CONSTANTS
  Texts = {t1, t2, t3, t4}
  MaxPending = 2
  MaxActivities = 1
  CommitsMayFail = TRUE
  WorkersMayRaise = TRUE
SPECIFICATION FairSpec
INVARIANTS TypeOK StepPollsLiveToken FirstComeFirstServed
PROPERTIES EscIsFinal ActivityEnds SteerIsHeard
\* The user may stop; a worker that died never goes on.
CHECK_DEADLOCK FALSE
