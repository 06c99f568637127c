\* one handler at a time over a long history
CONSTANTS
    Requests = {r1}
    Payments = {p1, p2}
    Invoices = {1}
    AdHoc = {2}
    ChargeAmount <- ThreeThenTwo
    MaxChargeAmount = 3
    PaymentAmounts = {1, 2, 4}
    PaymentStatuses = {"COMPLETED", "PENDING"}
    PatchStatuses = {"ISSUED", "CANCELLED"}
    Strategies = {"FIFO", "PROPORTIONAL"}
    ForceOptions = {TRUE, FALSE}
    Allocate <- AllocateOpen
SPECIFICATION Spec
INVARIANTS InvoiceReconciles OpenChargeOwes
PROPERTIES PostedInFull
SYMMETRY Symmetry
\* the account may be done: everything billed, paid and allocated
CHECK_DEADLOCK FALSE
