SPECIFICATION Spec
CONSTANTS
  Workers = {w1, w2}
  Producers = {p1}
  Identities = {i1}
  ErrorCodes = {"timeout"}
  MaxAttempts = 2
  BaseDelay = 1
  MaxDelay = 2
  MaxCrashes = 0
  None = None
INVARIANTS BoundedExecutions
CHECK_DEADLOCK FALSE
