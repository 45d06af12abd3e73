CONSTANTS
  Root = root
  Children = {c1}
  Tasks = {}
  Paths = {p1, p2}
  Present = {p1}
  Absent = absent
  Contents = {absent, v1}
  Edited = {mine}
  Free = free
  Policies = {"best-effort", "off"}
  Interruptible = TRUE
  MayCrash = TRUE
  MaxStages = 2
  MaxEffects = 2
  MaxWrites = 1
  MaxEdits = 1
  MaxMishaps = 1
  MaxUncovered = 1
SPECIFICATION Spec
INVARIANTS TypeOK LockMatchesEffect OwnEffectsNeverConflict
PROPERTIES FullRollbackSparesUserEdits RollbackRestoresStage
CHECK_DEADLOCK FALSE
