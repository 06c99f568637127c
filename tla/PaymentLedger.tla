--------------------------- MODULE PaymentLedger ---------------------------
(***************************************************************************)
(* One student account: its invoices and ad-hoc charges, the payments      *)
(* recorded on it, and the concurrent HTTP handlers that amend, delete and *)
(* allocate those payments (server/src/api/payments/payments.service.ts).  *)
(*                                                                         *)
(* Handlers interleave at every await.  A handler that reads a row, checks *)
(* it and then writes is two steps: req[r] is what it has read.            *)
(* allocateForPayment is three: the read outside the transaction, the      *)
(* transaction's claim of the payment row with its read of the open        *)
(* charges, and the transaction's writes.  Under READ COMMITTED with row   *)
(* locks those writes may be taken at the commit: each is an increment or  *)
(* is guarded by a status re-evaluated on the locked row.  The claim holds *)
(* the payment's row lock from the second step to the third.               *)
(*                                                                         *)
(* composeInvoiceFromAssessment gives an invoice exactly one charge line,  *)
(* so invoice i and its line share the name i.                             *)
(***************************************************************************)
EXTENDS Integers, FiniteSets, Functions

CONSTANTS
    Requests,          \* request handlers that may be in flight at once
    Payments,
    Invoices,          \* invoices, each with its line
    AdHoc,             \* charges without an invoice (finance.createCharge)
    ChargeAmount,      \* the amount of each charge
    MaxChargeAmount,   \* bound of ChargeAmount
    PaymentAmounts,    \* the amounts a payment may have
    PaymentStatuses,   \* the statuses a payment may be given
    PatchStatuses,     \* the statuses staff PATCH an invoice to
    Strategies,        \* the allocation strategies a caller may ask for
    ForceOptions,      \* values of the "force" option callers use
    Allocate(_, _, _)  \* allocatePayment: strategy, amount, outstanding per
                       \* charge |-> [amounts per charge, totalAllocated]

Charges == Invoices \cup AdHoc

OpenStatuses    == {"PENDING", "INVOICED"}
ChargeStatuses  == OpenStatuses \cup {"PAID"}
InvoiceStatuses == {"DRAFT", "ISSUED", "PARTIALLY_PAID", "PAID", "OVERDUE",
                    "CANCELLED", "WRITTEN_OFF"}
Absent   == "ABSENT"   \* the row does not exist yet, or the patch has no status
NoAmount == 0          \* the patch has no amount
Amounts  == PaymentAmounts \cup {NoAmount}
Statuses == PaymentStatuses \cup {Absent}

ASSUME ChargesAssumption ==
    /\ IsFiniteSet(Charges)
    /\ Invoices \cap AdHoc = {}
    /\ MaxChargeAmount \in Nat
    /\ ChargeAmount \in [Charges -> 1..MaxChargeAmount]

ASSUME RequestAssumption ==
    /\ PaymentAmounts \subseteq Nat \ {0}
    /\ ForceOptions \subseteq BOOLEAN
    /\ PatchStatuses \subseteq InvoiceStatuses
    /\ "ABSENT" \notin PaymentStatuses

\* the money in a family of amounts
AddedUp(amounts) == FoldFunction(+, 0, amounts)

\* what utils/payment-allocation.ts promises of every answer: no charge takes
\* more than it owes, and the total is what the charges take
ASSUME AllocationContract ==
    \A strategy \in Strategies, amount \in Amounts :
    \A open \in SUBSET Charges : \A outstanding \in [open -> 0..MaxChargeAmount] :
        LET answer == Allocate(strategy, amount, outstanding)
        IN  /\ answer.amounts \in [open -> Nat]
            /\ \A c \in open : answer.amounts[c] <= outstanding[c]
            /\ answer.totalAllocated \in Nat
            /\ answer.totalAllocated = AddedUp(answer.amounts)

\* and what only FIFO promises: the rounded shares of PROPORTIONAL can add up to
\* a few pence more than the payment
NeverOverallocates ==
    \A strategy \in Strategies, amount \in Amounts :
    \A open \in SUBSET Charges : \A outstanding \in [open -> 0..MaxChargeAmount] :
        Allocate(strategy, amount, outstanding).totalAllocated <= amount

VARIABLES
    chargeStatus, chargePaid,                    \* ChargeLine rows
    invoiceStatus, invoicePaid, invoiceDeleted,  \* Invoice rows
    payStatus, payAmount, payDeleted, allocated, \* Payment rows
    balance, debits, credits,                    \* the StudentAccount row
    req                                          \* what each handler holds

chargeVars  == <<chargeStatus, chargePaid>>
invoiceVars == <<invoiceStatus, invoicePaid, invoiceDeleted>>
payVars     == <<payStatus, payAmount, payDeleted, allocated>>
accountVars == <<balance, debits, credits>>
vars == <<chargeVars, invoiceVars, payVars, accountVars, req>>

Idle == [op |-> "idle"]
Updating  == [op : {"update"}, pay : Payments, amount : Amounts, status : Statuses]
Removing  == [op : {"remove"}, pay : Payments]
Reading   == [op : {"allocate"}, pay : Payments, strategy : Strategies,
              force : ForceOptions, amount : Amounts, first : BOOLEAN]
Claiming  == [op : {"commit"}, pay : Payments, stamped : BOOLEAN,
              amounts : [Charges -> Nat], covered : SUBSET Charges, credit : Nat]
Handlers  == {Idle} \cup Updating \cup Removing \cup Reading \cup Claiming

TypeOK ==
    /\ chargeStatus \in [Charges -> ChargeStatuses \cup {Absent}]
    /\ chargePaid \in [Charges -> Nat]
    /\ invoiceStatus \in [Invoices -> InvoiceStatuses \cup {Absent}]
    /\ invoicePaid \in [Invoices -> Nat]
    /\ invoiceDeleted \in [Invoices -> BOOLEAN]
    /\ payStatus \in [Payments -> Statuses]
    /\ payAmount \in [Payments -> Amounts]
    /\ payDeleted \in [Payments -> BOOLEAN]
    /\ allocated \in [Payments -> BOOLEAN]
    /\ balance \in Int /\ debits \in Nat /\ credits \in Nat
    /\ req \in [Requests -> Handlers]
-----------------------------------------------------------------------------
Init ==
    /\ chargeStatus = [c \in Charges |-> Absent]
    /\ chargePaid = [c \in Charges |-> 0]
    /\ invoiceStatus = [i \in Invoices |-> Absent]
    /\ invoicePaid = [i \in Invoices |-> 0]
    /\ invoiceDeleted = [i \in Invoices |-> FALSE]
    /\ payStatus = [p \in Payments |-> Absent]
    /\ payAmount = [p \in Payments |-> NoAmount]
    /\ payDeleted = [p \in Payments |-> FALSE]
    /\ allocated = [p \in Payments |-> FALSE]
    /\ balance = 0 /\ debits = 0 /\ credits = 0
    /\ req = [r \in Requests |-> Idle]

(* ---- billing ---------------------------------------------------------- *)

\* generateForFeeAssessment -> createWithLines: invoice, line and balance in one
\* transaction; an invoice number that exists is returned, not created again
IssueInvoice(i) ==
    /\ invoiceStatus[i] = Absent
    /\ invoiceStatus' = [invoiceStatus EXCEPT ![i] = "DRAFT"]
    /\ chargeStatus' = [chargeStatus EXCEPT ![i] = "PENDING"]
    /\ balance' = balance + ChargeAmount[i]
    /\ debits' = debits + ChargeAmount[i]
    /\ UNCHANGED <<chargePaid, invoicePaid, invoiceDeleted, payVars, credits, req>>

\* finance.repository.createCharge: totalDebits is not touched
CreateCharge(c) ==
    /\ chargeStatus[c] = Absent
    /\ chargeStatus' = [chargeStatus EXCEPT ![c] = "PENDING"]
    /\ balance' = balance + ChargeAmount[c]
    /\ UNCHANGED <<chargePaid, invoiceVars, payVars, debits, credits, req>>

\* PATCH /invoices: a status, with no transition rule and no ledger effect
PatchInvoice(i, status) ==
    /\ invoiceStatus[i] # Absent /\ ~invoiceDeleted[i]
    /\ invoiceStatus' = [invoiceStatus EXCEPT ![i] = status]
    /\ UNCHANGED <<chargeVars, invoicePaid, invoiceDeleted, payVars, accountVars, req>>

\* DELETE /invoices: the line stays open and the balance stays charged
RemoveInvoice(i) ==
    /\ invoiceStatus[i] # Absent /\ ~invoiceDeleted[i]
    /\ invoiceDeleted' = [invoiceDeleted EXCEPT ![i] = TRUE]
    /\ UNCHANGED <<chargeVars, invoiceStatus, invoicePaid, payVars, accountVars, req>>

(* ---- payments: create, update, remove --------------------------------- *)

CreatePayment(p, amount, status) ==
    /\ payStatus[p] = Absent
    /\ payStatus' = [payStatus EXCEPT ![p] = status]
    /\ payAmount' = [payAmount EXCEPT ![p] = amount]
    /\ UNCHANGED <<chargeVars, invoiceVars, payDeleted, allocated, accountVars, req>>

Readable(p) == payStatus[p] # Absent /\ ~payDeleted[p]   \* payment.repository.getById

Holds(r, p) == req[r].op = "commit" /\ req[r].pay = p /\ req[r].stamped
Locked(p)   == \E r \in Requests : Holds(r, p)

\* update() reads the payment and refuses the financial fields once allocated
BeginUpdate(r, p, amount, status) ==
    /\ req[r] = Idle /\ Readable(p)
    /\ amount # NoAmount \/ status # Absent
    /\ ~allocated[p]
    /\ req' = [req EXCEPT ![r] =
                 [op |-> "update", pay |-> p, amount |-> amount, status |-> status]]
    /\ UNCHANGED <<chargeVars, invoiceVars, payVars, accountVars>>

\* ... and writes what the patch has by id, whatever has happened to the row
FinishUpdate(r) ==
    /\ req[r].op = "update"
    /\ ~Locked(req[r].pay)
    /\ payAmount' = [payAmount EXCEPT ![req[r].pay] =
                         IF req[r].amount = NoAmount THEN @ ELSE req[r].amount]
    /\ payStatus' = [payStatus EXCEPT ![req[r].pay] =
                         IF req[r].status = Absent THEN @ ELSE req[r].status]
    /\ req' = [req EXCEPT ![r] = Idle]
    /\ UNCHANGED <<chargeVars, invoiceVars, payDeleted, allocated, accountVars>>

BeginRemove(r, p) ==
    /\ req[r] = Idle /\ Readable(p)
    /\ ~allocated[p]
    /\ req' = [req EXCEPT ![r] = [op |-> "remove", pay |-> p]]
    /\ UNCHANGED <<chargeVars, invoiceVars, payVars, accountVars>>

FinishRemove(r) ==
    /\ req[r].op = "remove"
    /\ ~Locked(req[r].pay)
    /\ payDeleted' = [payDeleted EXCEPT ![req[r].pay] = TRUE]
    /\ req' = [req EXCEPT ![r] = Idle]
    /\ UNCHANGED <<chargeVars, invoiceVars, payStatus, payAmount, allocated, accountVars>>

(* ---- allocateForPayment ----------------------------------------------- *)

\* the read outside the transaction: status, amount and first-allocation flag
BeginAllocate(r, p, strategy, force) ==
    /\ req[r] = Idle /\ Readable(p)
    /\ force \/ (payStatus[p] = "COMPLETED" /\ ~allocated[p])
    /\ req' = [req EXCEPT ![r] =
                 [op |-> "allocate", pay |-> p, strategy |-> strategy, force |-> force,
                  amount |-> payAmount[p], first |-> ~allocated[p]]]
    /\ UNCHANGED <<chargeVars, invoiceVars, payVars, accountVars>>

\* findOpenForAccount: lines without an invoice, or of a live, uncancelled one
OpenCharges ==
    {c \in Charges : /\ chargeStatus[c] \in OpenStatuses
                     /\ c \in Invoices => ~invoiceDeleted[c] /\ invoiceStatus[c] # "CANCELLED"}

OutstandingOfUntouched(c) == ChargeAmount[c]   \* regression: part payments forgotten

Outstanding(c) == IF chargePaid[c] >= ChargeAmount[c] THEN 0
                  ELSE ChargeAmount[c] - chargePaid[c]

StampAlwaysMatches(q) == ~payDeleted[q.pay]    \* regression: WHERE allocatedAt IS NULL lost

\* stampAllocatedAtInTx matches the row: forced stamps are unconditional
StampMatches(q) == ~payDeleted[q.pay] /\ (q.force \/ ~allocated[q.pay])

\* regressions of the ledger amount: no credit for a re-run, leftover never posted
LedgerFirstOnly(q, answer)  == IF q.first THEN q.amount ELSE 0
LedgerAllocated(q, answer)  == answer.totalAllocated

\* Step 8 posts the whole payment the first time, what was allocated after that
LedgerAmount(q, answer) == IF q.first THEN q.amount ELSE answer.totalAllocated

\* steps 1 and 2 of the transaction, and the answer of allocatePayment; a forced
\* run goes on even when its stamp found no row
ClaimPayment(r) ==
    LET q == req[r]
        outstanding == [c \in OpenCharges |-> Outstanding(c)]
        answer == Allocate(q.strategy, q.amount, outstanding)
        Amount(c) == IF c \in OpenCharges THEN answer.amounts[c] ELSE 0
    IN  /\ q.op = "allocate"
        /\ ~Locked(q.pay)
        /\ StampMatches(q) \/ q.force
        /\ req' = [req EXCEPT ![r] =
                     [op |-> "commit", pay |-> q.pay, stamped |-> StampMatches(q),
                      amounts |-> [c \in Charges |-> Amount(c)],
                      covered |-> {c \in OpenCharges :
                                      Amount(c) > 0 /\ Amount(c) >= outstanding[c]},
                      credit |-> LedgerAmount(q, answer)]]
        /\ UNCHANGED <<chargeVars, invoiceVars, payVars, accountVars>>

\* markPaidBulk: the covered charges that are still open
Flipped(q) == {c \in q.covered : chargeStatus[c] \in OpenStatuses}

\* actuallyFlippedIds: every covered charge when the count matches, otherwise
\* the covered charges that are now PAID, whoever paid them
Settled(q) == {c \in q.covered : c \in Flipped(q) \/ chargeStatus[c] = "PAID"}

\* the charges whose amount goes to the line and its invoice
Counted(q) == {c \in Charges : q.amounts[c] > 0 /\ (c \in q.covered => c \in Settled(q))}

\* regressions: the status guard lost; part payments not written to the line
IncrementedAnyStatus(q) == Counted(q) \ Flipped(q)
IncrementedNever(q)     == {}

\* updatePartialPaidAmounts runs after the flip and skips rows no longer open
Incremented(q) == {c \in Counted(q) \ Flipped(q) : chargeStatus[c] \in OpenStatuses}

Promoted(i, paid) == IF paid >= ChargeAmount[i] THEN "PAID"
                     ELSE IF paid > 0 THEN "PARTIALLY_PAID" ELSE invoiceStatus[i]

\* steps 3 to 8 and the commit
CommitAllocation(r) ==
    LET q == req[r]
    IN  /\ q.op = "commit"
        /\ chargeStatus' = [c \in Charges |->
                              IF c \in Flipped(q) THEN "PAID" ELSE chargeStatus[c]]
        /\ chargePaid' = [c \in Charges |->
                            IF c \in Incremented(q)
                            THEN chargePaid[c] + q.amounts[c] ELSE chargePaid[c]]
        /\ invoicePaid' = [i \in Invoices |->
                             IF i \in Counted(q)
                             THEN invoicePaid[i] + q.amounts[i] ELSE invoicePaid[i]]
        /\ invoiceStatus' = [i \in Invoices |->
                               IF i \in Counted(q)
                               THEN Promoted(i, invoicePaid[i] + q.amounts[i])
                               ELSE invoiceStatus[i]]
        /\ balance' = balance - q.credit
        /\ credits' = credits + q.credit
        /\ allocated' = [allocated EXCEPT ![q.pay] = @ \/ q.stamped]
        /\ req' = [req EXCEPT ![r] = Idle]
        /\ UNCHANGED <<invoiceDeleted, payStatus, payAmount, payDeleted, debits>>

\* the handler dies: a crash, a lost connection, the 5 s transaction limit, a
\* deadlock victim, or the conditional stamp matching no row.  A transaction
\* rolls back and its row lock goes.
Abandon(r) ==
    /\ req[r] # Idle
    /\ req' = [req EXCEPT ![r] = Idle]
    /\ UNCHANGED <<chargeVars, invoiceVars, payVars, accountVars>>

Billing ==
    \/ \E i \in Invoices : IssueInvoice(i) \/ RemoveInvoice(i)
    \/ \E i \in Invoices, status \in PatchStatuses : PatchInvoice(i, status)
    \/ \E c \in AdHoc : CreateCharge(c)

Handler(r) ==
    \/ \E p \in Payments, amount \in Amounts, status \in Statuses :
          BeginUpdate(r, p, amount, status)
    \/ \E p \in Payments : BeginRemove(r, p)
    \/ \E p \in Payments, strategy \in Strategies, force \in ForceOptions :
          BeginAllocate(r, p, strategy, force)
    \/ FinishUpdate(r) \/ FinishRemove(r)
    \/ ClaimPayment(r) \/ CommitAllocation(r)
    \/ Abandon(r)

Next ==
    \/ Billing
    \/ \E p \in Payments, amount \in PaymentAmounts, status \in PaymentStatuses :
          CreatePayment(p, amount, status)
    \/ \E r \in Requests : Handler(r)

Spec == Init /\ [][Next]_vars
-----------------------------------------------------------------------------
\* What the account counts as paid of a charge: all of it once it is PAID
Worth(c) == IF chargeStatus[c] = "PAID" THEN ChargeAmount[c] ELSE chargePaid[c]

\* A settled charge is never reopened and takes no more money, whichever
\* handlers raced to settle it (the status guards of markPaidBulk and
\* updatePartialPaidAmounts are all that stops a handler with a stale answer).
SettledChargeFrozen ==
    [][\A c \in Charges : chargeStatus[c] = "PAID" =>
          chargeStatus'[c] = "PAID" /\ chargePaid'[c] = chargePaid[c]]_vars

\* No charge is paid out of nothing: what the account's charges count as paid
\* is covered by the credits posted, even when forced runs, stale answers and
\* vanished payments interleave.
NoUnbackedSettlement == AddedUp([c \in Charges |-> Worth(c)]) <= credits

\* One handler at a time: an invoice has been paid exactly what its line has
\* been paid, over every series of partial, full, forced and abandoned runs.
InvoiceReconciles == \A i \in Invoices : invoicePaid[i] = Worth(i)

\* One handler at a time: an open charge still owes something.  One paid up to
\* its amount but left open is skipped by every later run and never closes.
OpenChargeOwes ==
    \A c \in Charges : chargeStatus[c] \in OpenStatuses => chargePaid[c] < ChargeAmount[c]

\* PAYMENT_ALLOCATED_PROTECTED_FIELDS and the guard of remove(): once allocated, a
\* payment's amount, status and existence are fixed, whoever is in the middle of
\* an amendment, so the record cannot diverge from the totals already posted.
AllocatedPaymentFrozen ==
    [][\A p \in Payments : allocated[p] =>
          /\ payAmount'[p] = payAmount[p] /\ payStatus'[p] = payStatus[p]
          /\ payDeleted'[p] = payDeleted[p]]_vars

\* One handler at a time: the allocation that stamps a payment credits the
\* account with the whole payment as it is recorded, leftover included.
PostedInFull ==
    [][\A p \in Payments : ~allocated[p] /\ allocated'[p] =>
          credits' = credits + payAmount[p]]_vars

\* Without force, the handlers of the account behave like the posting book:
\* the stamp and the status guards make every payment and every charge count
\* once, in any interleaving of allocations, amendments and deletions.
Posting == INSTANCE PostingBook WITH
    posted  <- {p \in Payments : allocated[p]},
    settled <- {c \in Charges : chargeStatus[c] = "PAID"}
PostsOnce == Posting!Spec
=============================================================================
