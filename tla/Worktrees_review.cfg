CONSTANTS
  Owners = {a1, a2}
  Paths = {p1}
  Contents = {v0, v1, v2}
  First = v0
  Markers = markers
  Gone = gone
  MaxWrites = 2
  MaxStages = 2
  MaxStarts = 1
SPECIFICATION Spec
SYMMETRY Symmetry
INVARIANTS WorkspacesTypeOK StatusTellsRoot NoDeltaLost MarkersComeUnresolved
CHECK_DEADLOCK FALSE
