SPECIFICATION PartsSpec
CONSTANTS
  Conditions = {k1, k2}
  Enrolments = {e1, e2}
  Handlers = {h1, h2}
  ConditionStatuses = {"PENDING", "MET"}
  Applications = {k1, k2}
  BursaryCalls = {h1, h2}
  Budget = 2
  AwardCaps = {1, 2}
  PostedRows <- AnyApplication
  OverrideStatuses = {"PAID"}
  RemainingBound = 2
  Refunds = {f1}
  Staff = {k1, k2}
  RefundCalls = {d1, d2, d3}
  Returns = {k1, k2}
  ReturnType = "STUDENT"
  Cohorts <- ReturnCohorts
  RuleSets <- ReturnRules
  ReturnCalls = {h1, h2}
SYMMETRY Symmetry
INVARIANT PartsTypeOK  OneJourney AwardsAreReserved OverdraftBounded PaidNeedsTwo ReturnsStand
PROPERTY TerminalStands DecisionStands
CHECK_DEADLOCK FALSE
