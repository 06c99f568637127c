\* four charges of one penny and payments that do not divide by them, split pro
\* rata; one plan to go with it
CONSTANTS
    Requests = {r1}
    Crons = {k1}
    Instalments = {i1}
    Payments = {p1}
    ForceOptions = {FALSE}
    PlanPatches = {}
    InstalmentPatches = {}
    Strategies = {"PROPORTIONAL"}
    PaymentAmounts = {1, 2, 3}
    ChargeAmounts = {1}
    PriorAmounts = {0}
    DueDates = {1}
    MaxCharges = 4
    PlanTotals = {100}
    MaxInstalments = 1
    StartDays = {1}
SPECIFICATION PartsSpec
INVARIANTS MoneyConserved
\* a call has one answer
CHECK_DEADLOCK FALSE
