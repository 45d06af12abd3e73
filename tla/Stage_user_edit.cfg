CONSTANTS
  Root = root
  Children = {}
  Tasks = {}
  Paths = {p1, p2}
  Present = {p1}
  Absent = absent
  Contents = {absent, v1}
  Edited = {mine}
  Free = free
  Policies = {"best-effort"}
  Interruptible = FALSE
  MayCrash = FALSE
  MaxStages = 1
  MaxEffects = 2
  MaxWrites = 1
  MaxEdits = 1
  MaxMishaps = 1
  MaxUncovered = 1
SPECIFICATION Spec
PROPERTIES RollbackSparesUserEdits
CHECK_DEADLOCK FALSE
