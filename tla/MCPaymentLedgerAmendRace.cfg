\* an unforced allocation of a payment while another handler amends it
CONSTANTS
    Requests = {r1, r2}
    Payments = {p1}
    Invoices = {1}
    AdHoc = {}
    ChargeAmount <- JustThree
    MaxChargeAmount = 3
    PaymentAmounts = {3, 4}
    PaymentStatuses = {"COMPLETED"}
    PatchStatuses = {}
    Strategies = {"FIFO"}
    ForceOptions = {FALSE}
    Allocate <- AllocateOpen
SPECIFICATION Spec
PROPERTIES AllocatedPaymentFrozen
SYMMETRY Symmetry
\* the account may be done: everything billed, paid and allocated
CHECK_DEADLOCK FALSE
