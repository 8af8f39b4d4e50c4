SPECIFICATION Spec
CONSTANTS
  p = p
  v1 = v1
  v2 = v2
  er = er
  a1 = a1
  a1x = a1x
  a2 = a2
  x = x
  y = y
  c1 = c1
  c2 = c2
  Projects = {p}
  Fields = {"crediting_period_start", "crediting_period_end"}
  Values = {1}
  Decisions = {d1, d2}
  Candidates = {c1, c2}
  CandidateScope <- MCCandidateScope
  Grounded <- MCGrounded
  Importers = {i1, i2}
  Runs = {v1, v2, er}
  Contents = {a1, a1x, a2}
  RunRows = {x, y}
  RunOf <- MCRunOf
  SourceOf <- MCSourceOf
  Sound <- MCSound
  CandidatesOf <- MCCandidatesOf
  Desks = {k1, k2}
  None = None
SYMMETRY Symmetry
INVARIANTS TypeOK AnswersHold ItemIsRecent NoUnseenApproval
PROPERTIES ImplementsReview
CHECK_DEADLOCK FALSE
