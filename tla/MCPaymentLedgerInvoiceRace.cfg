\* two unforced allocations of two payments to one invoice
CONSTANTS
    Requests = {r1, r2}
    Payments = {p1, p2}
    Invoices = {1}
    AdHoc = {}
    ChargeAmount <- JustThree
    MaxChargeAmount = 3
    PaymentAmounts = {4}
    PaymentStatuses = {"COMPLETED"}
    PatchStatuses = {}
    Strategies = {"FIFO"}
    ForceOptions = {FALSE}
    Allocate <- AllocateOpen
SPECIFICATION Spec
INVARIANTS InvoiceReconciles
SYMMETRY Symmetry
\* the account may be done: everything billed, paid and allocated
CHECK_DEADLOCK FALSE
