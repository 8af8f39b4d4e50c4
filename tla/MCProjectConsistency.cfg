CONSTANTS
  None = None
  r1 = r1
  r2 = r2
  r3 = r3
  Runs = {r1, r2, r3}
  SourceOf <- Sources
  VersionOf <- Versions
  Observations <- Sample
  MaxObservations = 4
SPECIFICATION Spec
INVARIANTS
  ReportsAreValid
  DisagreementSurfaces
  OnlyConflictEscapes
PROPERTIES
  NothingSilenced
  UrgencyKept
CHECK_DEADLOCK FALSE
