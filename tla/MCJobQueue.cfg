SPECIFICATION FairSpec
CONSTANTS
  Workers = {w1, w2}
  Producers = {p1, p2}
  Identities = {i1, i2}
  ErrorCodes = {"timeout", "invalid_pdf"}
  MaxAttempts = 3
  BaseDelay = 1
  MaxDelay = 2
  MaxCrashes = 1
  None = None
INVARIANTS TypeOK SingleExecution DeadLetterEarned
PROPERTIES ImplementsQueue SettledIsFinal SettledOrStranded
CHECK_DEADLOCK FALSE
