SPECIFICATION Spec
CONSTANTS
  Processes = {p1}
  Keys = {k1}
  MaxRuns = 1
  MaxCrashes = 0
  MaxFaults = 1
INVARIANTS FailedRunHasNoResult
CHECK_DEADLOCK FALSE
