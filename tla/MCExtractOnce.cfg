SPECIFICATION Spec
CONSTANTS
  Processes = {p1, p2, p3}
  Keys = {k1}
  MaxRuns = 3
  MaxCrashes = 1
  MaxFaults = 2
SYMMETRY Symmetry
INVARIANTS TypeOK OneAtATime LockHasOwner
PROPERTIES RepeatNeedsFailure
CHECK_DEADLOCK FALSE
