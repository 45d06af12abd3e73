CONSTANTS
  Procs = {p1, p2}
  MaxTokens = 3
  MaxTurns = 2
SPECIFICATION Spec
SYMMETRY ProcSymmetry
INVARIANTS TypeOK ChainBreaksOnlyByMishap RetryCanSave
PROPERTIES SavesTurns
CHECK_DEADLOCK FALSE
