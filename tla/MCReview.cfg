SPECIFICATION Spec
CONSTANTS
  p = p
  c1 = c1
  c2 = c2
  c3 = c3
  c4 = c4
  Projects = {p}
  Fields = {"crediting_period_start", "crediting_period_end", "methodology"}
  Values = {1, 2}
  Decisions = {d1, d2, d3, d4}
  Candidates = {c1, c2, c3, c4}
  CandidateScope <- MCCandidateScope
  Reports <- MCReports
  Grounded <- MCGrounded
  None = None
SYMMETRY Symmetry
INVARIANTS TypeOK HeadIsLatest ChainedHistory CreditingPeriodOrdered
PROPERTIES ImmutableHistory ImplementsLedger
CHECK_DEADLOCK FALSE
