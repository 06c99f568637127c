\* two handlers, two payments, with and without forced runs
CONSTANTS
    Requests = {r1, r2}
    Payments = {p1, p2}
    Invoices = {1}
    AdHoc = {2}
    ChargeAmount <- ThreeThenTwo
    MaxChargeAmount = 3
    PaymentAmounts = {2, 4}
    PaymentStatuses = {"COMPLETED"}
    PatchStatuses = {"CANCELLED"}
    Strategies = {"FIFO"}
    ForceOptions = {TRUE, FALSE}
    Allocate <- AllocateOpen
SPECIFICATION BookSpec
INVARIANTS NoUnbackedSettlement
PROPERTIES SettledChargeFrozen UnforcedPostOnce
SYMMETRY Symmetry
\* the account may be done: everything billed, paid and allocated
CHECK_DEADLOCK FALSE
