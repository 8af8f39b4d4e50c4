CONSTANTS
  Processes = {p1, p2}
  s1 = s1
  s2 = s2
  c1 = c1
  c2 = c2
  Sources = {s1, s2}
  Metas = {m1, m2}
  Contents = {c1, c2}
  Configs = {k1}
  Files <- SharedFiles
  MaxCommands = 4
  MaxFailures = 2
  None = None
SPECIFICATION FairSpec
INVARIANTS
  TypeOK
  VersionHasBytes
  TextHasProvenance
  AnswerIsOwn
PROPERTIES
  ImmutableRecords
  RerunsSucceed
CHECK_DEADLOCK FALSE
