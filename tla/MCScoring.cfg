SPECIFICATION FairSpec
CONSTANTS
  None = None
  Fields <- MCFields
  Facts <- MCFacts
  FieldOf <- MCFieldOf
  Initial <- MCInitial
  Acm0002 = {"name"}
  Worded = {"name", "version"}
  Measured <- MCMeasured
  Dimensions <- MCDimensions
  InputFields <- MCInputFields
  PeriodFields <- MCPeriodFields
  ErFields <- MCErFields
  CriteriaOf <- MCCriteriaOf
  Contexts <- MCContexts
  Judgments <- MCJudgments
  Processes = {p1, p2}
  MaxFailures = 1
INVARIANTS
  TypeOK
  OneEvaluation
  AnswerIsStored
PROPERTIES
  AttestedWhenChecked
  JudgmentsCompleted
