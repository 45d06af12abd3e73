CONSTANTS
  p1 = p1
  p2 = p2
  Procs = {p1, p2}
  MaxSessions = 2
  MaxSeq <- SeqUsed
  MaxMemories = 1
  MaxStartup = 2
  Own <- OwnUsed
  Forces <- ForcesUsed
  Keen = {p2}
SPECIFICATION FairSpec
INVARIANTS TypeOK OneMaintainer ForgottenStaysForgotten
PROPERTY EvidenceReachesMemory
