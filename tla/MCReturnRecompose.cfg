SPECIFICATION PartsSpec
CONSTANTS
  Conditions = {k1}
  Enrolments = {e1}
  Handlers = {h1}
  ConditionStatuses = {"MET"}
  Applications = {b1}
  BursaryCalls = {c1}
  Budget = 2
  AwardCaps = {1, 2}
  PostedRows <- BlankApplication
  OverrideStatuses = {}
  RemainingBound = 2
  Refunds = {f1}
  Staff = {u1, u2}
  RefundCalls = {d1}
  Returns = {t1}
  ReturnType = "STUDENT"
  Cohorts <- ReturnCohorts
  RuleSets <- ReturnRules
  ReturnCalls = {c1}
INVARIANT SnapshotIsLatest
CHECK_DEADLOCK FALSE
