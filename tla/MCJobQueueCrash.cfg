SPECIFICATION FairSpec
CONSTANTS
  Workers = {w1, w2}
  Producers = {p1}
  Identities = {i1, i2}
  ErrorCodes = {"timeout", "invalid_pdf"}
  MaxAttempts = 2
  BaseDelay = 1
  MaxDelay = 2
  MaxCrashes = 1
  None = None
PROPERTIES EventuallySettled
CHECK_DEADLOCK FALSE
