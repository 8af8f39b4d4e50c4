SPECIFICATION Spec
CONSTANTS
  Syncers = {s1, s2}
  Registries = {r1, r2}
  LastPage = 2
  MaxRuns = 4
SYMMETRY Symmetry
INVARIANTS TypeOK CursorEarned
PROPERTIES OnlySuccessAdvances
CHECK_DEADLOCK FALSE
