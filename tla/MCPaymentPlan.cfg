\* two recordings and a cron run over two instalments, forced or not
CONSTANTS
    Requests = {r1, r2}
    Crons = {k1}
    Instalments = {i1, i2}
    Payments = {p1, p2}
    ForceOptions = {TRUE, FALSE}
    PlanPatches = {"ACTIVE"}
    InstalmentPatches = {"PENDING", "COMPLETED"}
    \* both strategies, every list of up to four open charges; plans of up to nine
    \* instalments from any day that months differ on
    Strategies = {"FIFO", "PROPORTIONAL"}
    PaymentAmounts = {0, 1, 2, 3, 5, 9}
    ChargeAmounts = {0, 1, 3}
    PriorAmounts = {0, 2}
    DueDates = {1}
    MaxCharges = 4
    PlanTotals = {1, 3, 100, 1001}
    MaxInstalments = 9
    StartDays = {1, 28, 29, 30, 31}
SPECIFICATION PartsSpec
INVARIANTS MoneyContract FifoReference ScheduleContract
INVARIANTS PaymentUsedOnce CompletedIsPosted LastOnePromotes ChargedOnce
SYMMETRY Symmetry
\* the plan may be done or deleted, and a call has one answer
CHECK_DEADLOCK FALSE
