SPECIFICATION PartsSpec
CONSTANTS
  Registrations = {x1, x2}
  Enrolled = {n1}
  Years = {u1, u2}
  RegistrationCalls = {r1, r2}
  ModuleCredits = {1, 2}
  CreditLimits = {2, 3}
  Same = Same
  Attempts = {a1}
  Users = {u1, u2}
  Marks = {m1}
  Requests = {r1, r2}
  CreateStatuses = {"PENDING", "MARKED", "CONFIRMED"}
  None = None
  Records = {x1, x2}
  Markers = {u1, u2}
  RawMarks = {40}
  SecondMarks = {43}
  ReconciledMarks = {50}
  Tolerances = {5}
  MarkingCalls = {r1, r2}
  NotGiven = NotGiven
  Labels = {x1, x2, l3}
  OtherLabels = {l3}
  LabelTries = 3
  LabelCalls = {r1, r2}
  Rows = {x1, x2}
  Results = {1, 2}
  Calls = {r1, r2}
  ForceOptions = {FALSE, TRUE}
  PostStatuses = {"CONFIRMED", "REFERRED"}
  MoveStatuses = {"PROVISIONAL", "CONFIRMED"}
  Components <- YearComponents
  Shapes <- YearShapes
  Levels = {"LEVEL_5", "LEVEL_6", "LEVEL_7", "LEVEL_8"}
  Rules <- YearRules
  MarksGiven = {20, 70}
SYMMETRY Symmetry
INVARIANT PartsTypeOK CheckedCreditsFit OutcomeRecorded ModeratorIsIndependent RatifiedAttemptsStand OneLiveResult AgreedIsBacked OnePerScript
PROPERTY ConfirmedIsTerminal ConfirmedMarkStands BetterMarkNeverHurts BetterMarkKeepsClass
CHECK_DEADLOCK FALSE
