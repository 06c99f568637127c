------------------------ MODULE PaymentLedgerProofs ------------------------
(***************************************************************************)
(* Theorems of PaymentLedger, for every set of handlers, payments and      *)
(* charges and for every allocation that keeps AllocationContract.         *)
(***************************************************************************)
EXTENDS MCPostingBook, SumTheorems

USE DEF Charges, OpenStatuses, ChargeStatuses, InvoiceStatuses, Absent, NoAmount,
        Amounts, Statuses, chargeVars, invoiceVars, payVars, accountVars

LEMMA AmountsAreNat == \A a \in Amounts : a \in Nat
BY RequestAssumption DEF RequestAssumption

\* What kind of call a handler serves says what it holds.
LEMMA ReqTyped ==
    ASSUME TypeOK, NEW r \in Requests
    PROVE  /\ req[r].op = "update" => req[r] \in Updating
           /\ req[r].op = "remove" => req[r] \in Removing
           /\ req[r].op = "allocate" => req[r] \in Reading
           /\ req[r].op = "commit" => req[r] \in Claiming
           /\ req[r].op \in {"update", "remove", "allocate", "commit"} => req[r].pay \in Payments
BY DEF TypeOK, Handlers, Idle, Updating, Removing, Reading, Claiming

\* The amounts asked of a claim are the answer's, the charges covered among them.
LEMMA OutstandingInRange ==
    ASSUME TypeOK, NEW c \in Charges
    PROVE  Outstanding(c) \in 0..MaxChargeAmount
BY ChargesAssumption DEF TypeOK, Outstanding

LEMMA ClaimedAnswer ==
    ASSUME TypeOK, NEW strategy \in Strategies, NEW amount \in Amounts
    PROVE  LET answer == Allocate(strategy, amount, [c \in OpenCharges |-> Outstanding(c)])
           IN  /\ answer.amounts \in [OpenCharges -> Nat]
               /\ \A c \in OpenCharges : answer.amounts[c] <= Outstanding(c)
               /\ answer.totalAllocated \in Nat
               /\ answer.totalAllocated = AddedUp(answer.amounts)
               /\ NeverOverallocates => answer.totalAllocated <= amount
<1> DEFINE outstanding == [c \in OpenCharges |-> Outstanding(c)]
<1>1. OpenCharges \in SUBSET Charges
  BY DEF OpenCharges
<1>2. outstanding \in [OpenCharges -> 0..MaxChargeAmount]
  BY <1>1, OutstandingInRange
<1>3. \A c \in OpenCharges : outstanding[c] = Outstanding(c)
  OBVIOUS
<1> HIDE DEF outstanding
<1>4. QED
  BY <1>1, <1>2, <1>3, AllocationContract DEF outstanding, AllocationContract, NeverOverallocates

\* What ClaimPayment stores in the handler.
LEMMA ClaimTyped ==
    ASSUME TypeOK, NEW r \in Requests, ClaimPayment(r)
    PROVE  req' \in [Requests -> Handlers]
<1> DEFINE q == req[r]
           answer == Allocate(q.strategy, q.amount, [c \in OpenCharges |-> Outstanding(c)])
           Amount(c) == IF c \in OpenCharges THEN answer.amounts[c] ELSE 0
           claim == [op |-> "commit", pay |-> q.pay, stamped |-> StampMatches(q),
                     amounts |-> [c \in Charges |-> Amount(c)],
                     covered |-> {c \in OpenCharges :
                                     Amount(c) > 0 /\ Amount(c) >= Outstanding(c)},
                     credit |-> LedgerAmount(q, answer)]
<1>1. q \in Reading
  BY DEF TypeOK, ClaimPayment, Handlers, Idle, Updating, Removing, Claiming
<1>2. q.pay \in Payments /\ q.strategy \in Strategies /\ q.amount \in Amounts
      /\ q.force \in BOOLEAN /\ q.first \in BOOLEAN
  BY <1>1, RequestAssumption DEF Reading
<1>3. answer.amounts \in [OpenCharges -> Nat] /\ answer.totalAllocated \in Nat
  BY <1>2, ClaimedAnswer
<1>4. [c \in Charges |-> Amount(c)] \in [Charges -> Nat]
  BY <1>3
<1>5. LedgerAmount(q, answer) \in Nat
  <2> HIDE DEF q, answer
  <2>1. q.amount \in Nat
    BY <1>2, AmountsAreNat
  <2>2. CASE q.first
    BY <1>3, <2>1, <2>2 DEF LedgerAmount
  <2>3. CASE ~q.first
    BY <1>3, <2>1, <2>3 DEF LedgerAmount
  <2>4. QED BY <2>2, <2>3
<1>6. StampMatches(q) \in BOOLEAN
  BY <1>2 DEF StampMatches, TypeOK
<1>7. claim \in Claiming
  BY <1>2, <1>4, <1>5, <1>6 DEF Claiming, OpenCharges
<1>8. req' = [req EXCEPT ![r] = claim]
  BY DEF ClaimPayment
<1>9. QED
  BY <1>7, <1>8 DEF TypeOK, Handlers
-----------------------------------------------------------------------------
LEMMA CommitTyped ==
    ASSUME TypeOK, NEW r \in Requests, CommitAllocation(r)
    PROVE  TypeOK'
<1> DEFINE q == req[r]
<1>1. q \in Claiming
  BY DEF TypeOK, CommitAllocation, Handlers, Idle, Updating, Removing, Reading
<1>2. q.pay \in Payments /\ q.stamped \in BOOLEAN /\ q.amounts \in [Charges -> Nat]
      /\ q.credit \in Nat
  BY <1>1 DEF Claiming
<1> HIDE DEF q
<1>3. chargeStatus' \in [Charges -> ChargeStatuses \cup {Absent}]
  BY <1>2 DEF TypeOK, CommitAllocation, q
<1>4. chargePaid' \in [Charges -> Nat]
  BY <1>2 DEF TypeOK, CommitAllocation, q
<1>5. invoicePaid' \in [Invoices -> Nat]
  BY <1>2 DEF TypeOK, CommitAllocation, q
<1>6. invoiceStatus' \in [Invoices -> InvoiceStatuses \cup {Absent}]
  BY <1>2 DEF TypeOK, CommitAllocation, Promoted, q
<1>7. balance' \in Int /\ debits' \in Nat /\ credits' \in Nat
  BY <1>2 DEF TypeOK, CommitAllocation, q
<1>8. allocated' \in [Payments -> BOOLEAN]
  BY <1>2 DEF TypeOK, CommitAllocation, q
<1>9. req' \in [Requests -> Handlers]
  BY DEF TypeOK, CommitAllocation, Handlers
<1>10. QED
  BY <1>3, <1>4, <1>5, <1>6, <1>7, <1>8, <1>9 DEF TypeOK, CommitAllocation

LEMMA UpdateTyped ==
    ASSUME TypeOK, NEW r \in Requests, FinishUpdate(r)
    PROVE  TypeOK'
<1>1. req[r] \in Updating
  BY DEF TypeOK, FinishUpdate, Handlers, Idle, Removing, Reading, Claiming
<1>2. req[r].amount \in Amounts /\ req[r].status \in Statuses /\ req[r].pay \in Payments
  BY <1>1 DEF Updating
<1>3. QED
  BY <1>2 DEF TypeOK, FinishUpdate, Handlers

\* One obligation per action: the types survive it.
LEMMA StepTyped ==
    ASSUME TypeOK, [Next]_vars
    PROVE  TypeOK'
<1>1. ASSUME NEW i \in Invoices, IssueInvoice(i)
      PROVE  TypeOK'
  <2>1. ChargeAmount[i] \in Nat
    BY ChargesAssumption DEF ChargesAssumption
  <2>2. QED BY <1>1, <2>1 DEF TypeOK, IssueInvoice
<1>2. ASSUME NEW i \in Invoices, RemoveInvoice(i)
      PROVE  TypeOK'
  BY <1>2 DEF TypeOK, RemoveInvoice
<1>3. ASSUME NEW i \in Invoices, NEW status \in PatchStatuses, PatchInvoice(i, status)
      PROVE  TypeOK'
  BY <1>3, RequestAssumption DEF TypeOK, PatchInvoice, RequestAssumption
<1>4. ASSUME NEW c \in AdHoc, CreateCharge(c)
      PROVE  TypeOK'
  <2>1. ChargeAmount[c] \in Nat
    BY ChargesAssumption DEF ChargesAssumption
  <2>2. QED BY <1>4, <2>1 DEF TypeOK, CreateCharge
<1>5. ASSUME NEW p \in Payments, NEW amount \in PaymentAmounts,
             NEW status \in PaymentStatuses, CreatePayment(p, amount, status)
      PROVE  TypeOK'
  BY <1>5 DEF TypeOK, CreatePayment
<1>6. ASSUME NEW r \in Requests, NEW p \in Payments, NEW amount \in Amounts,
             NEW status \in Statuses, BeginUpdate(r, p, amount, status)
      PROVE  TypeOK'
  BY <1>6 DEF TypeOK, BeginUpdate, Handlers, Updating
<1>7. ASSUME NEW r \in Requests, NEW p \in Payments, BeginRemove(r, p)
      PROVE  TypeOK'
  BY <1>7 DEF TypeOK, BeginRemove, Handlers, Removing
<1>8. ASSUME NEW r \in Requests, NEW p \in Payments, NEW strategy \in Strategies,
             NEW force \in ForceOptions, BeginAllocate(r, p, strategy, force)
      PROVE  TypeOK'
  BY <1>8 DEF TypeOK, BeginAllocate, Handlers, Reading
<1>9. ASSUME NEW r \in Requests, FinishUpdate(r)
      PROVE  TypeOK'
  BY <1>9, UpdateTyped
<1>10. ASSUME NEW r \in Requests, FinishRemove(r)
       PROVE  TypeOK'
  BY <1>10 DEF TypeOK, FinishRemove, Handlers
<1>11. ASSUME NEW r \in Requests, ClaimPayment(r)
       PROVE  TypeOK'
  BY <1>11, ClaimTyped DEF TypeOK, ClaimPayment
<1>12. ASSUME NEW r \in Requests, CommitAllocation(r)
       PROVE  TypeOK'
  BY <1>12, CommitTyped
<1>13. ASSUME NEW r \in Requests, Abandon(r)
       PROVE  TypeOK'
  BY <1>13 DEF TypeOK, Abandon, Handlers
<1>14. CASE UNCHANGED vars
  BY <1>14 DEF TypeOK, vars
<1>15. QED
  BY <1>1, <1>2, <1>3, <1>4, <1>5, <1>6, <1>7, <1>8, <1>9, <1>10, <1>11, <1>12, <1>13,
     <1>14 DEF Next, Billing, Handler

\* Every row and every handler keeps its type, whatever the handlers race on.
THEOREM TypeCorrect == Spec => []TypeOK
<1>1. Init => TypeOK
  BY DEF Init, TypeOK, Handlers
<1>2. TypeOK /\ [Next]_vars => TypeOK'
  BY StepTyped
<1>3. QED
  BY <1>1, <1>2, PTL DEF Spec
-----------------------------------------------------------------------------
\* A line has its invoice, so issuing an invoice cannot overwrite a settled line.
LinesWithInvoices == \A i \in Invoices : invoiceStatus[i] = Absent => chargeStatus[i] = Absent

LEMMA LinesStep ==
    ASSUME TypeOK, LinesWithInvoices, [Next]_vars
    PROVE  LinesWithInvoices'
<1> USE DEF LinesWithInvoices
<1>1. ASSUME NEW i \in Invoices, IssueInvoice(i)
      PROVE  LinesWithInvoices'
  BY <1>1 DEF TypeOK, IssueInvoice
<1>2. ASSUME NEW i \in Invoices, NEW status \in PatchStatuses, PatchInvoice(i, status)
      PROVE  LinesWithInvoices'
  BY <1>2, RequestAssumption DEF TypeOK, PatchInvoice, RequestAssumption
<1>3. ASSUME NEW c \in AdHoc, CreateCharge(c)
      PROVE  LinesWithInvoices'
  BY <1>3, ChargesAssumption DEF TypeOK, CreateCharge, ChargesAssumption
<1>4. ASSUME NEW r \in Requests, CommitAllocation(r)
      PROVE  LinesWithInvoices'
  <2>1. \A i \in Invoices : invoiceStatus'[i] = Absent => invoiceStatus[i] = Absent
    BY <1>4 DEF TypeOK, CommitAllocation, Promoted
  <2>2. \A i \in Invoices : chargeStatus[i] = Absent => chargeStatus'[i] = Absent
    BY <1>4 DEF TypeOK, CommitAllocation, Flipped
  <2>3. QED BY <2>1, <2>2
<1>5. CASE UNCHANGED <<chargeStatus, invoiceStatus>>
  BY <1>5
<1>6. QED
  BY <1>1, <1>2, <1>3, <1>4, <1>5
  DEF Next, Billing, Handler, vars, RemoveInvoice, CreatePayment, BeginUpdate, BeginRemove,
      BeginAllocate, FinishUpdate, FinishRemove, ClaimPayment, Abandon

\* The step that could touch a settled charge is the commit of a handler with a
\* stale answer: its flip and its increment both re-check the row's status.
LEMMA FrozenStep ==
    ASSUME TypeOK, LinesWithInvoices, [Next]_vars,
           NEW c \in Charges, chargeStatus[c] = "PAID"
    PROVE  chargeStatus'[c] = "PAID" /\ chargePaid'[c] = chargePaid[c]
<1> DEFINE Frozen == chargeStatus'[c] = "PAID" /\ chargePaid'[c] = chargePaid[c]
<1>1. ASSUME NEW i \in Invoices, IssueInvoice(i)
      PROVE  Frozen
  <2>1. chargeStatus[i] = Absent
    BY <1>1 DEF IssueInvoice, LinesWithInvoices
  <2>2. QED BY <1>1, <2>1 DEF TypeOK, IssueInvoice
<1>2. ASSUME NEW d \in AdHoc, CreateCharge(d)
      PROVE  Frozen
  BY <1>2 DEF TypeOK, CreateCharge
<1>3. ASSUME NEW r \in Requests, CommitAllocation(r)
      PROVE  Frozen
  <2>1. c \notin Flipped(req[r]) /\ c \notin Incremented(req[r])
    BY DEF Flipped, Incremented
  <2>2. QED BY <1>3, <2>1 DEF TypeOK, CommitAllocation
<1>4. CASE UNCHANGED chargeVars
  BY <1>4
<1>5. QED
  BY <1>1, <1>2, <1>3, <1>4
  DEF Next, Billing, Handler, vars, RemoveInvoice, PatchInvoice, CreatePayment, BeginUpdate,
      BeginRemove, BeginAllocate, FinishUpdate, FinishRemove, ClaimPayment, Abandon

\* Settlement is final: no interleaving of handlers, forced or not, reopens a
\* PAID charge or puts more money on it.
THEOREM SettlementIsFinal == Spec => SettledChargeFrozen
<1>1. Init => LinesWithInvoices
  BY DEF Init, LinesWithInvoices
<1>2. TypeOK /\ LinesWithInvoices /\ [Next]_vars => LinesWithInvoices'
  BY LinesStep
<1>3. TypeOK /\ LinesWithInvoices /\ [Next]_vars =>
        [\A c \in Charges : chargeStatus[c] = "PAID" =>
            chargeStatus'[c] = "PAID" /\ chargePaid'[c] = chargePaid[c]]_vars
  BY FrozenStep
<1>4. QED
  BY <1>1, <1>2, <1>3, TypeCorrect, PTL DEF Spec, SettledChargeFrozen
-----------------------------------------------------------------------------
(* Without force, every claim is a stamp that nobody else holds.            *)
Committing(r) == req[r].op = "commit"

ClaimsExclusive ==
    /\ \A r \in Requests : Committing(r) => req[r].stamped /\ ~allocated[req[r].pay]
    /\ \A r, s \in Requests :
          Committing(r) /\ Committing(s) /\ req[r].pay = req[s].pay => r = s

NobodyForces == \A r \in Requests : req[r].op = "allocate" => ~req[r].force

LEMMA ExclusiveStep ==
    ASSUME TypeOK, ClaimsExclusive, NobodyForces, [Next]_vars
    PROVE  ClaimsExclusive'
<1> USE DEF ClaimsExclusive, Committing
<1>1. ASSUME NEW r \in Requests, NEW held, held.op # "commit",
             req' = [req EXCEPT ![r] = held], UNCHANGED allocated
      PROVE  ClaimsExclusive'
  BY <1>1 DEF TypeOK
<1>2. ASSUME NEW r \in Requests, ClaimPayment(r)
      PROVE  ClaimsExclusive'
  <2>1. req[r] \in Reading
    BY <1>2 DEF TypeOK, ClaimPayment, Handlers, Idle, Updating, Removing, Claiming
  <2>2. ~req[r].force /\ req[r].pay \in Payments
    BY <1>2, <2>1 DEF Reading, ClaimPayment, NobodyForces
  <2>3. StampMatches(req[r]) /\ ~allocated[req[r].pay]
    BY <1>2, <2>2 DEF ClaimPayment, StampMatches
  <2>4. \A s \in Requests : Committing(s) => req[s].pay # req[r].pay
    BY <1>2 DEF ClaimPayment, Locked, Holds
  <2>5. /\ req'[r].op = "commit" /\ req'[r].pay = req[r].pay /\ req'[r].stamped
        /\ \A s \in Requests : s # r => req'[s] = req[s]
        /\ allocated' = allocated
    BY <1>2, <2>3 DEF ClaimPayment, TypeOK, payVars
  <2>6. QED BY <2>3, <2>4, <2>5
<1>3. ASSUME NEW r \in Requests, CommitAllocation(r)
      PROVE  ClaimsExclusive'
  <2>1. \A s \in Requests : s # r /\ Committing(s) => req[s].pay # req[r].pay
    BY <1>3 DEF CommitAllocation
  <2>2. /\ req'[r] = Idle
        /\ \A s \in Requests : s # r => req'[s] = req[s]
        /\ \A p \in Payments : p # req[r].pay => allocated'[p] = allocated[p]
    BY <1>3 DEF CommitAllocation, TypeOK
  <2>3. \A s \in Requests : Committing(s) => req[s].pay \in Payments
    BY DEF TypeOK, Handlers, Idle, Updating, Removing, Reading, Claiming
  <2>4. QED BY <2>1, <2>2, <2>3 DEF Idle
<1>4. CASE UNCHANGED <<allocated, req>>
  BY <1>4
<1>5. ASSUME NEW r \in Requests,
             \/ FinishUpdate(r) \/ FinishRemove(r) \/ Abandon(r)
             \/ \E p \in Payments, amount \in Amounts, status \in Statuses :
                   BeginUpdate(r, p, amount, status)
             \/ \E p \in Payments : BeginRemove(r, p)
             \/ \E p \in Payments, strategy \in Strategies, force \in ForceOptions :
                   BeginAllocate(r, p, strategy, force)
      PROVE  ClaimsExclusive'
  <2>1. \E held : held.op # "commit" /\ req' = [req EXCEPT ![r] = held]
    BY <1>5 DEF FinishUpdate, FinishRemove, Abandon, BeginUpdate, BeginRemove, BeginAllocate, Idle
  <2>2. UNCHANGED allocated
    BY <1>5 DEF FinishUpdate, FinishRemove, Abandon, BeginUpdate, BeginRemove, BeginAllocate
  <2>3. QED BY <2>1, <2>2, <1>1
<1>6. QED
  BY <1>2, <1>3, <1>4, <1>5
  DEF Next, Billing, Handler, vars, IssueInvoice, RemoveInvoice, PatchInvoice, CreateCharge,
      CreatePayment

\* A commit posts its payment to the book; every other step leaves the book as
\* it is.
LEMMA PostingStep ==
    ASSUME TypeOK, LinesWithInvoices, ClaimsExclusive, [Next]_vars
    PROVE  [Posting!Next]_(Posting!vars)
<1> USE DEF Posting!vars
<1>1. ASSUME NEW r \in Requests, CommitAllocation(r)
      PROVE  Posting!Next
  <2> DEFINE q == req[r]
  <2>1. q \in Claiming /\ q.stamped /\ ~allocated[q.pay]
    BY <1>1 DEF CommitAllocation, ClaimsExclusive, Committing, TypeOK, Handlers, Idle,
               Updating, Removing, Reading
  <2>2. q.pay \in Payments /\ q.credit \in Nat /\ q.covered \in SUBSET Charges
    BY <2>1 DEF Claiming
  <2>3. allocated' = [allocated EXCEPT ![q.pay] = TRUE]
    BY <1>1, <2>1, <2>2 DEF CommitAllocation, TypeOK
  <2> HIDE DEF q
  <2>4. {p \in Payments : allocated'[p]} = {p \in Payments : allocated[p]} \cup {q.pay}
    BY <2>2, <2>3 DEF TypeOK
  <2>5. {c \in Charges : chargeStatus'[c] = "PAID"}
          = {c \in Charges : chargeStatus[c] = "PAID"} \cup Flipped(q)
    BY <1>1, <2>2 DEF CommitAllocation, Flipped, q
  <2>6. credits' \in {n \in Nat : n >= credits}
    BY <1>1, <2>2 DEF CommitAllocation, TypeOK, q
  <2>7. Flipped(q) \in SUBSET Charges
    BY <2>2 DEF Flipped
  <2>8. PICK p \in Payments : p = q.pay
    BY <2>2
  <2>9. Posting!Post(p)
    BY <2>1, <2>4, <2>5, <2>6, <2>7, <2>8 DEF Posting!Post, q
  <2>10. QED BY <2>9 DEF Posting!Next
<1>2. ASSUME NEW c \in Charges, chargeStatus[c] = Absent,
             chargeStatus' = [chargeStatus EXCEPT ![c] = "PENDING"],
             UNCHANGED <<allocated, credits>>
      PROVE  UNCHANGED Posting!vars
  BY <1>2 DEF TypeOK
<1>3. ASSUME NEW i \in Invoices, IssueInvoice(i)
      PROVE  UNCHANGED Posting!vars
  BY <1>2, <1>3 DEF IssueInvoice, LinesWithInvoices
<1>4. ASSUME NEW c \in AdHoc, CreateCharge(c)
      PROVE  UNCHANGED Posting!vars
  BY <1>2, <1>4 DEF CreateCharge
<1>5. CASE UNCHANGED <<chargeStatus, allocated, credits>>
  BY <1>5
<1>6. QED
  BY <1>1, <1>3, <1>4, <1>5
  DEF Next, Billing, Handler, vars, RemoveInvoice, PatchInvoice, CreatePayment, BeginUpdate,
      BeginRemove, BeginAllocate, FinishUpdate, FinishRemove, ClaimPayment, Abandon

\* The handlers implement the posting book when nobody forces: each payment is
\* credited once and each charge is settled once, by a credit, although every
\* handler works from a stale read.
THEOREM UnforcedPostsOnce ==
    ASSUME ForceOptions \subseteq {FALSE}
    PROVE  Spec => PostsOnce
<1>1. Init => LinesWithInvoices /\ ClaimsExclusive
  BY DEF Init, LinesWithInvoices, ClaimsExclusive, Committing, Idle
<1>2. TypeOK /\ LinesWithInvoices /\ [Next]_vars => LinesWithInvoices'
  BY LinesStep
<1>3. TypeOK => NobodyForces
  BY ReqTyped DEF NobodyForces, Reading
<1>4. TypeOK /\ ClaimsExclusive /\ [Next]_vars => ClaimsExclusive'
  BY <1>3, ExclusiveStep
<1>5. Init => Posting!Init
  BY DEF Init, Posting!Init
<1>6. TypeOK /\ LinesWithInvoices /\ ClaimsExclusive /\ [Next]_vars
        => [Posting!Next]_(Posting!vars)
  BY PostingStep
<1>7. QED
  BY <1>1, <1>2, <1>4, <1>5, <1>6, TypeCorrect, PTL DEF Spec, PostsOnce, Posting!Spec

\* The accounts of MCPostingBook are accounts.
LEMMA BookIsLedger == BookSpec => Spec
<1>1. BookInit => Init
  BY DEF BookInit
<1>2. [BookNext]_<<vars, unforced>> => [Next]_vars
  BY DEF BookNext
<1>3. QED
  BY <1>1, <1>2, PTL DEF BookSpec, Spec

UnforcedKept == unforced => NobodyForces /\ ClaimsExclusive

LEMMA UnforcedStep ==
    ASSUME TypeOK, UnforcedKept, [BookNext]_<<vars, unforced>>
    PROVE  UnforcedKept'
<1>1. [Next]_vars /\ unforced' = unforced
  BY DEF BookNext
<1>2. SUFFICES ASSUME unforced PROVE NobodyForces' /\ ClaimsExclusive'
  BY <1>1 DEF UnforcedKept
<1>3. ClaimsExclusive'
  BY <1>1, <1>2, ExclusiveStep DEF UnforcedKept
<1>4. NobodyForces'
  BY <1>2 DEF UnforcedKept, NobodyForces, BookNext, vars
<1>5. QED BY <1>3, <1>4

LEMMA BookStep ==
    ASSUME TypeOK, LinesWithInvoices, UnforcedKept, [BookNext]_<<vars, unforced>>
    PROVE  [Book!Next]_(Book!vars)
<1>1. [Next]_vars /\ unforced' = unforced
  BY DEF BookNext
<1>2. CASE unforced
  <2>1. [Posting!Next]_(Posting!vars)
    BY <1>1, <1>2, PostingStep DEF UnforcedKept
  <2>2. ASSUME NEW p \in Payments, Posting!Post(p)
        PROVE  Book!Post(p)
    BY <1>1, <1>2, <2>2 DEF Posting!Post, Book!Post
  <2>3. ASSUME UNCHANGED Posting!vars
        PROVE  UNCHANGED Book!vars
    BY <1>1, <1>2, <2>3 DEF Posting!vars, Book!vars
  <2>4. QED BY <2>1, <2>2, <2>3 DEF Posting!Next, Book!Next
<1>3. CASE ~unforced
  BY <1>1, <1>3 DEF Book!vars
<1>4. QED BY <1>2, <1>3

\* In the accounts where nobody forces, among accounts where anybody may, every
\* payment is credited once and every charge settled once, by a credit.
THEOREM UnforcedPostOnceHolds == BookSpec => UnforcedPostOnce
<1>1. BookInit => LinesWithInvoices /\ UnforcedKept
  BY DEF BookInit, Init, LinesWithInvoices, UnforcedKept, NobodyForces, ClaimsExclusive,
         Committing, Idle
<1>2. TypeOK /\ LinesWithInvoices /\ [Next]_vars => LinesWithInvoices'
  BY LinesStep
<1>3. TypeOK /\ UnforcedKept /\ [BookNext]_<<vars, unforced>> => UnforcedKept'
  BY UnforcedStep
<1>4. BookInit => Book!Init
  BY DEF BookInit, Init, Book!Init
<1>5. TypeOK /\ LinesWithInvoices /\ UnforcedKept /\ [BookNext]_<<vars, unforced>>
        => [Book!Next]_(Book!vars)
  BY BookStep
<1>6. [BookNext]_<<vars, unforced>> => [Next]_vars
  BY DEF BookNext
<1>7. QED
  BY <1>1, <1>2, <1>3, <1>4, <1>5, <1>6, TypeCorrect, BookIsLedger, PTL
  DEF BookSpec, UnforcedPostOnce, Book!Spec
-----------------------------------------------------------------------------
(* Every settled charge is backed by a credit: what a claim credits covers  *)
(* what it allocates, and the commit adds to the account's credits at least *)
(* what it adds to the worth of its charges.                                *)

WorthOf == [c \in Charges |-> Worth(c)]

ClaimBacked(q) ==
    q.op = "commit" =>
        /\ Total(q.amounts, Charges) <= q.credit
        /\ \A c \in q.covered : chargePaid[c] + q.amounts[c] >= ChargeAmount[c]
ClaimsBacked == \A r \in Requests : ClaimBacked(req[r])

LEMMA AddedUpIsTotal ==
    ASSUME NEW S, IsFiniteSet(S), NEW f \in [S -> Nat]
    PROVE  AddedUp(f) = Total(f, S)
<1> DEFINE Summed(g) == [s \in SUBSET S |->
              IF s = {} THEN 0 ELSE LET x == CHOOSE x \in s : TRUE IN f[x] + g[s \ {x}]]
           sum == CHOOSE g : g = Summed(g)
<1>1. AddedUp(f) = sum[S]
  BY DEF AddedUp, FoldFunction, FoldFunctionOnSet, MapThenFoldSet
<1>2. \A g : Summing(f, S, g) = Summed(g)
  BY DEF Summing
<1> HIDE DEF Summed
<1>3. \E g : g = Summing(f, S, g)
  BY SumExists
<1>4. sum = Summing(f, S, sum)
  BY <1>2, <1>3
<1> HIDE DEF sum
<1>5. sum[S] = Total(f, S)
  BY <1>4, SumIsTotal
<1>6. QED BY <1>1, <1>5

LEMMA WorthTyped == TypeOK => WorthOf \in [Charges -> Nat]
BY ChargesAssumption DEF TypeOK, WorthOf, Worth, ChargesAssumption

LEMMA WorthIsTotal == TypeOK => AddedUp(WorthOf) = Total(WorthOf, Charges)
BY WorthTyped, AddedUpIsTotal, ChargesAssumption DEF ChargesAssumption

LEMMA WorthNext ==
    (TypeOK => /\ WorthOf \in [Charges -> Nat]
               /\ AddedUp(WorthOf) = Total(WorthOf, Charges))'
BY WorthTyped, WorthIsTotal, PTL

\* The claim: the charges it does not name take nothing, so its total is the answer's.
LEMMA ClaimIsBacked ==
    ASSUME NeverOverallocates, TypeOK, NEW r \in Requests, ClaimPayment(r)
    PROVE  ClaimBacked(req[r])'
<1> DEFINE q == req[r]
           answer == Allocate(q.strategy, q.amount, [c \in OpenCharges |-> Outstanding(c)])
           Amount(c) == IF c \in OpenCharges THEN answer.amounts[c] ELSE 0
           asked == [c \in Charges |-> Amount(c)]
<1>1. q \in Reading
  BY ReqTyped DEF ClaimPayment
<1>2. q.strategy \in Strategies /\ q.amount \in Amounts
  BY <1>1 DEF Reading
<1>3. /\ answer.amounts \in [OpenCharges -> Nat]
      /\ answer.totalAllocated = AddedUp(answer.amounts)
      /\ answer.totalAllocated <= q.amount
  BY <1>2, ClaimedAnswer
<1>4. /\ req'[r].amounts = asked
      /\ req'[r].covered = {c \in OpenCharges : Amount(c) > 0 /\ Amount(c) >= Outstanding(c)}
      /\ req'[r].credit = LedgerAmount(q, answer)
      /\ chargePaid' = chargePaid
  BY DEF ClaimPayment, TypeOK
<1>5. OpenCharges \subseteq Charges /\ IsFiniteSet(OpenCharges)
  BY ChargesAssumption, FS_Subset DEF OpenCharges, ChargesAssumption
<1>6. \A c \in OpenCharges : asked[c] = answer.amounts[c]
  BY <1>5
<1>7. \A c \in Charges \ OpenCharges : asked[c] = 0
  OBVIOUS
<1> HIDE DEF answer, asked
<1>8. Total(answer.amounts, OpenCharges) = Total(asked, Charges)
  BY <1>5, <1>6, <1>7, TotalSame
<1>9. Total(asked, Charges) = answer.totalAllocated
  BY <1>3, <1>5, <1>8, AddedUpIsTotal
<1>10. Total(asked, Charges) <= LedgerAmount(q, answer)
  <2>1. answer.totalAllocated \in Nat /\ q.amount \in Nat
    BY <1>2, AmountsAreNat, ClaimedAnswer DEF answer
  <2> HIDE DEF q
  <2>2. CASE q.first
    BY <1>3, <1>9, <2>1, <2>2 DEF LedgerAmount
  <2>3. CASE ~q.first
    BY <1>3, <1>9, <2>1, <2>3 DEF LedgerAmount
  <2>4. QED BY <2>2, <2>3
<1>11. ASSUME NEW c \in OpenCharges, asked[c] >= Outstanding(c)
       PROVE  chargePaid[c] + asked[c] >= ChargeAmount[c]
  <2>1. chargePaid[c] \in Nat /\ ChargeAmount[c] \in Nat /\ asked[c] \in Nat
    BY <1>3, <1>5, <1>6, ChargesAssumption DEF TypeOK, ChargesAssumption
  <2>2. QED BY <1>11, <2>1 DEF Outstanding
<1>12. \A c \in req'[r].covered : chargePaid'[c] + req'[r].amounts[c] >= ChargeAmount[c]
  BY <1>4, <1>6, <1>11
<1>13. QED
  BY <1>4, <1>10, <1>12 DEF ClaimBacked

\* The commit: a charge's worth grows by no more than its amount, whatever other
\* handlers have done to it since the claim.
LEMMA CommitIsBacked ==
    ASSUME TypeOK, TypeOK', ClaimsBacked, NoUnbackedSettlement,
           NEW r \in Requests, CommitAllocation(r)
    PROVE  NoUnbackedSettlement' /\ ClaimsBacked'
<1> DEFINE q == req[r]
           before == WorthOf
           after == WorthOf'
<1>1. q \in Claiming /\ ClaimBacked(q) /\ q.op = "commit"
  BY ReqTyped DEF CommitAllocation, ClaimsBacked
<1>2. q.amounts \in [Charges -> Nat] /\ q.covered \in SUBSET Charges /\ q.credit \in Nat
  BY <1>1 DEF Claiming
<1>3. /\ Total(q.amounts, Charges) <= q.credit
      /\ \A c \in q.covered : chargePaid[c] + q.amounts[c] >= ChargeAmount[c]
  BY <1>1 DEF ClaimBacked
<1>4. \A c \in Charges :
         /\ chargeStatus'[c] = IF c \in Flipped(q) THEN "PAID" ELSE chargeStatus[c]
         /\ chargePaid'[c] = IF c \in Incremented(q) THEN chargePaid[c] + q.amounts[c]
                                                     ELSE chargePaid[c]
  BY DEF CommitAllocation
<1>5. credits' = credits + q.credit /\ credits \in Nat
  BY DEF CommitAllocation, TypeOK
<1>6. \A s \in Requests : s # r => req'[s] = req[s]
  BY DEF CommitAllocation, TypeOK
<1>7. req'[r] = Idle
  BY DEF CommitAllocation, TypeOK
<1> HIDE DEF q
<1>8. \A c \in Charges : chargePaid[c] \in Nat /\ ChargeAmount[c] \in Nat /\ q.amounts[c] \in Nat
  BY <1>2, ChargesAssumption DEF TypeOK, ChargesAssumption
<1>9. ASSUME NEW c \in Charges
      PROVE  Worth(c)' <= Worth(c) + q.amounts[c]
  <2>1. CASE c \in Flipped(q)
    <3>1. c \in q.covered /\ chargeStatus[c] # "PAID"
      BY <2>1 DEF Flipped
    <3>2. Worth(c)' = ChargeAmount[c] /\ Worth(c) = chargePaid[c]
      BY <1>4, <2>1, <3>1 DEF Worth
    <3>3. QED BY <1>3, <3>1, <3>2
  <2>2. CASE c \notin Flipped(q)
    BY <1>4, <1>8, <2>2 DEF Worth
  <2>3. QED BY <2>1, <2>2
<1>10. before \in [Charges -> Nat] /\ after \in [Charges -> Nat]
  BY WorthTyped, WorthNext
<1>11. \A c \in Charges : after[c] <= before[c] + q.amounts[c]
  BY <1>9 DEF WorthOf
<1>12. AddedUp(WorthOf)' = Total(after, Charges)
  BY WorthNext
<1>13. Total(before, Charges) <= credits
  BY WorthIsTotal DEF NoUnbackedSettlement, WorthOf
<1> HIDE DEF before, after
<1>14. IsFiniteSet(Charges)
  BY ChargesAssumption DEF ChargesAssumption
<1>15. \A c \in Charges : /\ before[c] \in Nat /\ q.amounts[c] \in Nat /\ after[c] \in Nat
                          /\ after[c] <= before[c] + q.amounts[c]
  BY <1>8, <1>10, <1>11
<1>16. Total(after, Charges) <= Total(before, Charges) + Total(q.amounts, Charges)
  BY <1>14, <1>15, TotalSum
<1>17. /\ Total(after, Charges) \in Nat /\ Total(before, Charges) \in Nat
       /\ Total(q.amounts, Charges) \in Nat
  BY <1>14, <1>15, TotalType
<1>18. AddedUp(WorthOf)' <= credits'
  BY <1>2, <1>3, <1>5, <1>12, <1>13, <1>16, <1>17
<1>19. NoUnbackedSettlement'
  BY <1>18 DEF NoUnbackedSettlement, WorthOf
<1>20. ASSUME NEW s \in Requests PROVE ClaimBacked(req[s])'
  <2>1. CASE s = r
    BY <1>7, <2>1 DEF ClaimBacked, Idle
  <2>2. CASE s # r
    <3>1. ClaimBacked(req[s]) /\ req'[s] = req[s]
      BY <1>6, <2>2 DEF ClaimsBacked
    <3>2. req[s].op = "commit" => req[s].covered \subseteq Charges /\ req[s].amounts \in [Charges -> Nat]
      BY ReqTyped DEF Claiming
    <3>3. \A c \in Charges : chargePaid'[c] >= chargePaid[c] /\ chargePaid'[c] \in Nat
      BY <1>4, <1>8
    <3>4. req[s].op = "commit" =>
            \A c \in req[s].covered : chargePaid'[c] + req[s].amounts[c] >= ChargeAmount[c]
      <4> SUFFICES ASSUME req[s].op = "commit", NEW c \in req[s].covered
                   PROVE  chargePaid'[c] + req[s].amounts[c] >= ChargeAmount[c]
        OBVIOUS
      <4>1. c \in Charges /\ req[s].amounts[c] \in Nat
        BY <3>2
      <4>2. chargePaid[c] + req[s].amounts[c] >= ChargeAmount[c]
        BY <3>1 DEF ClaimBacked
      <4>3. QED BY <1>8, <3>3, <4>1, <4>2
    <3>5. QED BY <3>1, <3>4 DEF ClaimBacked
  <2>3. QED BY <2>1, <2>2
<1>21. QED BY <1>19, <1>20 DEF ClaimsBacked

LEMMA BackedStep ==
    ASSUME NeverOverallocates, TypeOK, TypeOK', LinesWithInvoices,
           ClaimsBacked, NoUnbackedSettlement, [Next]_vars
    PROVE  NoUnbackedSettlement' /\ ClaimsBacked'
<1> DEFINE Backed == NoUnbackedSettlement' /\ ClaimsBacked'
<1>1. ASSUME NEW c \in Charges, chargeStatus[c] = Absent,
             chargeStatus' = [chargeStatus EXCEPT ![c] = "PENDING"],
             UNCHANGED <<chargePaid, credits, req>>
      PROVE  Backed
  <2>1. \A d \in Charges : chargeStatus'[d] = "PAID" <=> chargeStatus[d] = "PAID"
    BY <1>1 DEF TypeOK
  <2>2. WorthOf' = WorthOf
    BY <1>1, <2>1 DEF WorthOf, Worth
  <2>3. NoUnbackedSettlement'
    BY <1>1, <2>2 DEF NoUnbackedSettlement, WorthOf
  <2>4. QED BY <1>1, <2>3 DEF ClaimsBacked, ClaimBacked
<1>2. ASSUME NEW i \in Invoices, IssueInvoice(i)
      PROVE  Backed
  <2>1. chargeStatus[i] = Absent
    BY <1>2 DEF IssueInvoice, LinesWithInvoices
  <2>2. QED BY <1>1, <1>2, <2>1 DEF IssueInvoice
<1>3. ASSUME NEW c \in AdHoc, CreateCharge(c)
      PROVE  Backed
  BY <1>1, <1>3 DEF CreateCharge
<1>4. ASSUME UNCHANGED <<chargeVars, credits>>
      PROVE  NoUnbackedSettlement'
  BY <1>4 DEF NoUnbackedSettlement, Worth
<1>5. ASSUME NEW r \in Requests, NEW held, held.op # "commit",
             req' = [req EXCEPT ![r] = held], UNCHANGED <<chargeVars, credits>>
      PROVE  Backed
  <2>1. ASSUME NEW s \in Requests PROVE ClaimBacked(req[s])'
    <3>1. req'[s] = held \/ req'[s] = req[s]
      BY <1>5 DEF TypeOK
    <3>2. QED BY <1>5, <3>1 DEF ClaimsBacked, ClaimBacked
  <2>2. QED BY <1>4, <1>5, <2>1 DEF ClaimsBacked
<1>6. ASSUME NEW r \in Requests,
             \/ FinishUpdate(r) \/ FinishRemove(r) \/ Abandon(r)
             \/ \E p \in Payments, amount \in Amounts, status \in Statuses :
                   BeginUpdate(r, p, amount, status)
             \/ \E p \in Payments : BeginRemove(r, p)
             \/ \E p \in Payments, strategy \in Strategies, force \in ForceOptions :
                   BeginAllocate(r, p, strategy, force)
      PROVE  Backed
  <2>1. \E held : held.op # "commit" /\ req' = [req EXCEPT ![r] = held]
    BY <1>6 DEF FinishUpdate, FinishRemove, Abandon, BeginUpdate, BeginRemove, BeginAllocate, Idle
  <2>2. UNCHANGED <<chargeVars, credits>>
    BY <1>6 DEF FinishUpdate, FinishRemove, Abandon, BeginUpdate, BeginRemove, BeginAllocate
  <2>3. QED BY <2>1, <2>2, <1>5
<1>7. ASSUME NEW r \in Requests, ClaimPayment(r)
      PROVE  Backed
  <2>1. UNCHANGED <<chargeVars, credits>> /\ \A s \in Requests : s # r => req'[s] = req[s]
    BY <1>7 DEF ClaimPayment, TypeOK
  <2>2. ASSUME NEW s \in Requests PROVE ClaimBacked(req[s])'
    <3>1. CASE s = r
      BY <1>7, <3>1, ClaimIsBacked
    <3>2. CASE s # r
      BY <2>1, <3>2 DEF ClaimsBacked, ClaimBacked
    <3>3. QED BY <3>1, <3>2
  <2>3. QED BY <1>4, <2>1, <2>2 DEF ClaimsBacked
<1>8. ASSUME NEW r \in Requests, CommitAllocation(r)
      PROVE  Backed
  BY <1>8, CommitIsBacked
<1>9. CASE UNCHANGED <<chargeVars, credits, req>>
  BY <1>4, <1>9 DEF ClaimsBacked, ClaimBacked
<1>10. QED
  BY <1>2, <1>3, <1>6, <1>7, <1>8, <1>9
  DEF Next, Billing, Handler, vars, RemoveInvoice, PatchInvoice, CreatePayment

\* No charge is paid out of nothing: in every interleaving of handlers, forced,
\* stale, abandoned or overlapping, what the charges of the account count as paid
\* stays within the credits posted, whenever the allocation stays within the
\* payment, as FIFO does.
THEOREM SettlementIsBacked ==
    ASSUME NeverOverallocates
    PROVE  Spec => []NoUnbackedSettlement
<1>1. Init => NoUnbackedSettlement /\ ClaimsBacked
  <2> SUFFICES ASSUME Init PROVE NoUnbackedSettlement /\ ClaimsBacked
    OBVIOUS
  <2>1. TypeOK
    BY DEF Init, TypeOK, Handlers
  <2>2. \A c \in Charges : WorthOf[c] \in Nat /\ WorthOf[c] <= 0
    BY DEF Init, WorthOf, Worth
  <2>3. Total(WorthOf, Charges) = 0
    <3>1. Total({}, {}) = 0
      BY TotalEmpty
    <3>2. Points(WorthOf, Charges) = Points({}, {})
      BY <2>2 DEF Points
    <3>3. QED BY <3>1, <3>2 DEF Total
  <2>4. NoUnbackedSettlement
    BY <2>1, <2>3, WorthIsTotal DEF NoUnbackedSettlement, WorthOf, Init
  <2>5. ClaimsBacked
    BY DEF Init, ClaimsBacked, ClaimBacked, Idle
  <2>6. QED BY <2>4, <2>5
<1>2. Init => LinesWithInvoices
  BY DEF Init, LinesWithInvoices
<1>3. TypeOK /\ LinesWithInvoices /\ [Next]_vars => LinesWithInvoices'
  BY LinesStep
<1>4. TypeOK /\ LinesWithInvoices /\ NoUnbackedSettlement /\ ClaimsBacked /\ [Next]_vars
        => NoUnbackedSettlement' /\ ClaimsBacked'
  BY StepTyped, BackedStep
<1>5. QED
  BY <1>1, <1>2, <1>3, <1>4, TypeCorrect, PTL DEF Spec
-----------------------------------------------------------------------------
(* What is guaranteed when handlers of an account never overlap (forced     *)
(* runs, amendments and abandoned handlers included): the same properties   *)
(* fail as soon as two of them interleave.                                  *)

OneHandler == \A r, s \in Requests : r = s

Owed(c) == ChargeAmount[c] - chargePaid[c]
UnbilledUnpaid == \A c \in Charges : chargeStatus[c] = Absent => chargePaid[c] = 0

\* What a handler read is still so: with one handler, nobody else wrote.
FreshRead(q) ==
    q.op = "allocate" =>
        /\ q.first = ~allocated[q.pay]
        /\ q.amount = payAmount[q.pay]
        /\ payStatus[q.pay] # Absent
FreshClaim(q) ==
    q.op = "commit" =>
        /\ payStatus[q.pay] # Absent
        /\ ~allocated[q.pay] => q.credit = payAmount[q.pay]
        /\ \A c \in Charges : q.amounts[c] > 0 =>
              /\ chargeStatus[c] \in OpenStatuses
              /\ q.amounts[c] <= Owed(c)
              /\ c \in q.covered <=> q.amounts[c] = Owed(c)
        /\ \A c \in q.covered : q.amounts[c] > 0
HandlerFresh ==
    \A r \in Requests : FreshRead(req[r]) /\ FreshClaim(req[r])

Inv == InvoiceReconciles /\ OpenChargeOwes /\ UnbilledUnpaid /\ HandlerFresh

USE DEF OneHandler

\* The commit: each line and its invoice move by the same amount, and a line is
\* flipped exactly when that amount is all it owed.
LEMMA CommitReconciles ==
    ASSUME TypeOK, Inv, NEW r \in Requests, CommitAllocation(r)
    PROVE  InvoiceReconciles' /\ OpenChargeOwes' /\ UnbilledUnpaid'
<1> DEFINE q == req[r]
<1>1. q \in Claiming /\ FreshClaim(q) /\ q.op = "commit"
  BY ReqTyped DEF CommitAllocation, Inv, HandlerFresh
<1>2. q.amounts \in [Charges -> Nat] /\ q.covered \in SUBSET Charges
  BY <1>1 DEF Claiming
<1>3. /\ \A c \in Charges : q.amounts[c] > 0 =>
            /\ chargeStatus[c] \in OpenStatuses
            /\ q.amounts[c] <= Owed(c)
            /\ c \in q.covered <=> q.amounts[c] = Owed(c)
      /\ \A c \in q.covered : q.amounts[c] > 0
  BY <1>1 DEF FreshClaim
<1> HIDE DEF q
<1>4. /\ \A c \in Charges : c \in Flipped(q) <=> c \in q.covered
      /\ \A c \in Charges : c \in Counted(q) <=> q.amounts[c] > 0
      /\ \A c \in Charges : c \in Incremented(q) <=> q.amounts[c] > 0 /\ c \notin q.covered
  BY <1>2, <1>3 DEF Flipped, Settled, Counted, Incremented
<1>5. /\ \A c \in Charges :
            /\ chargeStatus'[c] = IF c \in Flipped(q) THEN "PAID" ELSE chargeStatus[c]
            /\ chargePaid'[c] = IF c \in Incremented(q) THEN chargePaid[c] + q.amounts[c]
                                                        ELSE chargePaid[c]
      /\ \A i \in Invoices :
            invoicePaid'[i] = IF i \in Counted(q) THEN invoicePaid[i] + q.amounts[i]
                                                  ELSE invoicePaid[i]
  BY DEF CommitAllocation, q
<1>6. \A c \in Charges : chargePaid[c] \in Nat /\ ChargeAmount[c] \in Nat /\ q.amounts[c] \in Nat
  BY <1>2, ChargesAssumption DEF TypeOK, ChargesAssumption
<1>7. InvoiceReconciles'
  <2> SUFFICES ASSUME NEW i \in Invoices PROVE (invoicePaid[i] = Worth(i))'
    BY DEF InvoiceReconciles
  <2>1. invoicePaid[i] = Worth(i) /\ i \in Charges /\ invoicePaid[i] \in Nat
    BY DEF Inv, InvoiceReconciles, TypeOK, Worth
  <2>2. CASE q.amounts[i] = 0
    <3>1. i \notin q.covered
      BY <1>3, <2>2
    <3>2. QED BY <1>4, <1>5, <1>6, <2>1, <2>2, <3>1 DEF Worth
  <2>3. CASE q.amounts[i] > 0
    <3>1. /\ chargeStatus[i] # "PAID" /\ invoicePaid[i] = chargePaid[i]
          /\ i \in q.covered => q.amounts[i] = ChargeAmount[i] - chargePaid[i]
      BY <1>3, <2>1, <2>3 DEF Worth, Owed
    <3>2. /\ invoicePaid'[i] = chargePaid[i] + q.amounts[i]
          /\ i \in q.covered => chargeStatus'[i] = "PAID"
          /\ i \notin q.covered => /\ chargeStatus'[i] # "PAID"
                                  /\ chargePaid'[i] = chargePaid[i] + q.amounts[i]
      BY <1>4, <1>5, <2>1, <2>3, <3>1
    <3>3. QED BY <1>6, <2>1, <3>1, <3>2 DEF Worth
  <2>4. QED BY <1>6, <2>1, <2>2, <2>3
<1>8. OpenChargeOwes'
  BY <1>3, <1>4, <1>5, <1>6 DEF OpenChargeOwes, Inv, Owed
<1>9. UnbilledUnpaid'
  <2> SUFFICES ASSUME NEW c \in Charges, chargeStatus'[c] = Absent PROVE chargePaid'[c] = 0
    BY DEF UnbilledUnpaid
  <2>1. chargeStatus[c] = Absent /\ chargePaid[c] = 0
    BY <1>5 DEF UnbilledUnpaid, Inv
  <2>2. c \notin Incremented(q)
    BY <1>3, <1>4, <2>1
  <2>3. QED BY <1>5, <2>1, <2>2
<1>10. QED BY <1>7, <1>8, <1>9

\* The claim: no other handler can have moved what BeginAllocate read.
LEMMA ClaimFresh ==
    ASSUME TypeOK, Inv, OneHandler, NEW r \in Requests, ClaimPayment(r)
    PROVE  HandlerFresh'
<1> DEFINE q == req[r]
           answer == Allocate(q.strategy, q.amount, [c \in OpenCharges |-> Outstanding(c)])
           Amount(c) == IF c \in OpenCharges THEN answer.amounts[c] ELSE 0
<1>1. q \in Reading /\ FreshRead(q) /\ q.op = "allocate"
  BY ReqTyped DEF ClaimPayment, Inv, HandlerFresh
<1>2. q.pay \in Payments /\ q.strategy \in Strategies /\ q.amount \in Amounts
  BY <1>1, AmountsAreNat DEF Reading
<1>3. /\ answer.amounts \in [OpenCharges -> Nat]
      /\ \A c \in OpenCharges : answer.amounts[c] <= Outstanding(c)
  BY <1>2, ClaimedAnswer
<1>4. /\ req'[r].op = "commit" /\ req'[r].pay = q.pay
      /\ \A c \in Charges : req'[r].amounts[c] = Amount(c)
      /\ req'[r].covered = {c \in OpenCharges : Amount(c) > 0 /\ Amount(c) >= Outstanding(c)}
      /\ req'[r].credit = LedgerAmount(q, answer)
  BY DEF ClaimPayment, TypeOK
<1>5. UNCHANGED <<chargeStatus, chargePaid, payStatus, payAmount, allocated>>
  BY DEF ClaimPayment
<1>6. ~allocated[q.pay] => LedgerAmount(q, answer) = payAmount[q.pay]
  BY <1>1, <1>2 DEF FreshRead, LedgerAmount, TypeOK
<1>7. \A c \in OpenCharges : c \in Charges /\ chargeStatus[c] \in OpenStatuses
  BY DEF OpenCharges
<1>8. \A c \in Charges : chargePaid[c] \in Nat /\ ChargeAmount[c] \in Nat
  BY ChargesAssumption DEF TypeOK, ChargesAssumption
<1>9. \A c \in OpenCharges : Outstanding(c) = Owed(c)
  BY <1>7, <1>8 DEF Inv, OpenChargeOwes, Outstanding, Owed
<1> HIDE DEF answer, q
<1>10. \A c \in Charges : req'[r].amounts[c] > 0 =>
          /\ chargeStatus'[c] \in OpenStatuses
          /\ req'[r].amounts[c] <= Owed(c)'
          /\ c \in req'[r].covered <=> req'[r].amounts[c] = Owed(c)'
  <2> SUFFICES ASSUME NEW c \in Charges, Amount(c) > 0
               PROVE  /\ chargeStatus[c] \in OpenStatuses
                      /\ Amount(c) <= Owed(c)
                      /\ c \in req'[r].covered <=> Amount(c) = Owed(c)
    BY <1>4, <1>5 DEF Owed
  <2>1. c \in OpenCharges
    OBVIOUS
  <2>2. Amount(c) \in Nat /\ Owed(c) \in Int /\ Amount(c) <= Outstanding(c)
    BY <1>3, <1>8, <2>1 DEF Owed
  <2>3. QED BY <1>4, <1>7, <1>9, <2>1, <2>2
<1>11. \A c \in req'[r].covered : req'[r].amounts[c] > 0
  BY <1>4, <1>7
<1>12. FreshClaim(req[r])'
  BY <1>1, <1>4, <1>5, <1>6, <1>10, <1>11 DEF FreshClaim, FreshRead
<1>13. QED
  BY <1>4, <1>12 DEF HandlerFresh, FreshRead

LEMMA ReconcileStep ==
    ASSUME TypeOK, Inv, LinesWithInvoices, [Next]_vars
    PROVE  InvoiceReconciles' /\ OpenChargeOwes' /\ UnbilledUnpaid'
<1> DEFINE Kept == InvoiceReconciles' /\ OpenChargeOwes' /\ UnbilledUnpaid'
<1>1. ASSUME NEW c \in Charges, chargeStatus[c] = Absent,
             chargeStatus' = [chargeStatus EXCEPT ![c] = "PENDING"],
             UNCHANGED <<chargePaid, invoicePaid>>
      PROVE  Kept
  <2>1. chargePaid[c] = 0 /\ ChargeAmount[c] > 0
    BY <1>1, ChargesAssumption DEF Inv, UnbilledUnpaid, ChargesAssumption
  <2>2. \A d \in Charges : d # c => chargeStatus'[d] = chargeStatus[d]
    BY <1>1 DEF TypeOK
  <2>3. chargeStatus'[c] = "PENDING"
    BY <1>1 DEF TypeOK
  <2>4. InvoiceReconciles'
    BY <1>1, <2>2, <2>3 DEF Inv, InvoiceReconciles, Worth
  <2>5. OpenChargeOwes'
    BY <1>1, <2>1, <2>2 DEF Inv, OpenChargeOwes
  <2>6. UnbilledUnpaid'
    BY <1>1, <2>2, <2>3 DEF Inv, UnbilledUnpaid
  <2>7. QED BY <2>4, <2>5, <2>6
<1>2. ASSUME NEW i \in Invoices, IssueInvoice(i)
      PROVE  Kept
  <2>1. chargeStatus[i] = Absent
    BY <1>2 DEF IssueInvoice, LinesWithInvoices
  <2>2. QED BY <1>1, <1>2, <2>1 DEF IssueInvoice
<1>3. ASSUME NEW c \in AdHoc, CreateCharge(c)
      PROVE  Kept
  BY <1>1, <1>3 DEF CreateCharge
<1>4. ASSUME NEW r \in Requests, CommitAllocation(r)
      PROVE  Kept
  BY <1>4, CommitReconciles
<1>5. CASE UNCHANGED <<chargeStatus, chargePaid, invoicePaid>>
  BY <1>5 DEF Inv, InvoiceReconciles, OpenChargeOwes, UnbilledUnpaid, Worth
<1>6. QED
  BY <1>2, <1>3, <1>4, <1>5
  DEF Next, Billing, Handler, vars, RemoveInvoice, PatchInvoice, CreatePayment, BeginUpdate,
      BeginRemove, BeginAllocate, FinishUpdate, FinishRemove, ClaimPayment, Abandon

LEMMA FreshStep ==
    ASSUME TypeOK, Inv, LinesWithInvoices, OneHandler, [Next]_vars
    PROVE  HandlerFresh'
<1> USE DEF HandlerFresh, FreshRead, FreshClaim, Owed
<1>1. HandlerFresh
  BY DEF Inv
<1>2. ASSUME NEW r \in Requests,
             FinishUpdate(r) \/ FinishRemove(r) \/ CommitAllocation(r) \/ Abandon(r)
      PROVE  HandlerFresh'
  <2>1. req'[r] = Idle
    BY <1>2 DEF FinishUpdate, FinishRemove, CommitAllocation, Abandon, TypeOK
  <2>2. \A s \in Requests : s = r
    OBVIOUS
  <2>3. QED BY <2>1, <2>2 DEF Idle
<1>3. ASSUME NEW r \in Requests, ClaimPayment(r)
      PROVE  HandlerFresh'
  BY <1>3, ClaimFresh
<1>4. ASSUME NEW r \in Requests, NEW p \in Payments, NEW amount \in Amounts,
             NEW status \in Statuses, BeginUpdate(r, p, amount, status)
      PROVE  HandlerFresh'
  <2>1. req'[r].op = "update" /\ req'[r].pay = p
    BY <1>4 DEF BeginUpdate, TypeOK
  <2>2. QED BY <2>1
<1>5. ASSUME NEW r \in Requests, NEW p \in Payments, BeginRemove(r, p)
      PROVE  HandlerFresh'
  <2>1. req'[r].op = "remove" /\ req'[r].pay = p
    BY <1>5 DEF BeginRemove, TypeOK
  <2>2. QED BY <2>1
<1>6. ASSUME NEW r \in Requests, NEW p \in Payments, NEW strategy \in Strategies,
             NEW force \in ForceOptions, BeginAllocate(r, p, strategy, force)
      PROVE  HandlerFresh'
  <2>1. /\ req'[r].op = "allocate" /\ req'[r].pay = p
        /\ req'[r].first = ~allocated'[p]
        /\ req'[r].amount = payAmount'[p]
        /\ payStatus'[p] # Absent
    BY <1>6 DEF BeginAllocate, Readable, TypeOK
  <2>2. QED BY <2>1
<1>7. ASSUME NEW c \in Charges, chargeStatus[c] = Absent,
             chargeStatus' = [chargeStatus EXCEPT ![c] = "PENDING"],
             UNCHANGED <<chargePaid, payStatus, payAmount, allocated, req>>
      PROVE  HandlerFresh'
  <2>1. \A d \in Charges : chargeStatus[d] \in OpenStatuses => chargeStatus'[d] \in OpenStatuses
    BY <1>7 DEF TypeOK
  <2>2. QED BY <1>1, <1>7, <2>1
<1>8. ASSUME NEW i \in Invoices, IssueInvoice(i)
      PROVE  HandlerFresh'
  <2>1. chargeStatus[i] = Absent
    BY <1>8 DEF IssueInvoice, LinesWithInvoices
  <2>2. QED BY <1>7, <1>8, <2>1 DEF IssueInvoice
<1>9. ASSUME NEW c \in AdHoc, CreateCharge(c)
      PROVE  HandlerFresh'
  BY <1>7, <1>9 DEF CreateCharge
<1>10. ASSUME NEW p \in Payments, NEW amount \in PaymentAmounts,
              NEW status \in PaymentStatuses, CreatePayment(p, amount, status)
       PROVE  HandlerFresh'
  <2>1. /\ \A o \in Payments : payStatus[o] # Absent =>
              o # p /\ payStatus'[o] = payStatus[o] /\ payAmount'[o] = payAmount[o]
        /\ UNCHANGED <<chargeStatus, chargePaid, allocated, req>>
    BY <1>10 DEF CreatePayment, TypeOK
  <2>2. \A r \in Requests :
           req[r].op \in {"allocate", "commit"} => req[r].pay \in Payments
    BY ReqTyped
  <2>3. QED BY <1>1, <2>1, <2>2
<1>11. CASE UNCHANGED <<chargeStatus, chargePaid, payStatus, payAmount, allocated, req>>
  BY <1>1, <1>11
<1>12. QED
  BY <1>2, <1>3, <1>4, <1>5, <1>6, <1>8, <1>9, <1>10, <1>11
  DEF Next, Billing, Handler, vars, RemoveInvoice, PatchInvoice

LEMMA OneHandlerInvariant ==
    ASSUME OneHandler
    PROVE  Spec => [](TypeOK /\ LinesWithInvoices /\ Inv)
<1>1. Init => LinesWithInvoices /\ Inv
  BY DEF Init, LinesWithInvoices, Inv, InvoiceReconciles, OpenChargeOwes, UnbilledUnpaid,
         HandlerFresh, FreshRead, FreshClaim, Worth, Idle
<1>2. TypeOK /\ LinesWithInvoices /\ [Next]_vars => LinesWithInvoices'
  BY LinesStep
<1>3. TypeOK /\ LinesWithInvoices /\ Inv /\ [Next]_vars => Inv'
  BY ReconcileStep, FreshStep DEF Inv
<1>4. QED
  BY <1>1, <1>2, <1>3, TypeCorrect, PTL DEF Spec

\* Without overlapping handlers an invoice always says what its line says, over
\* every history of full, partial, forced and abandoned allocations.
THEOREM OneHandlerReconciles ==
    ASSUME OneHandler
    PROVE  Spec => []InvoiceReconciles
<1>1. Inv => InvoiceReconciles
  BY DEF Inv
<1>2. QED
  BY <1>1, OneHandlerInvariant, PTL

\* ... and no line paid up to its amount is left open, where later runs would skip
\* it for ever.
THEOREM OneHandlerCloses ==
    ASSUME OneHandler
    PROVE  Spec => []OpenChargeOwes
<1>1. Inv => OpenChargeOwes
  BY DEF Inv
<1>2. QED
  BY <1>1, OneHandlerInvariant, PTL

\* Without overlapping handlers the first allocation of a payment credits all
\* of it, as the record says, whatever was allocated and whatever is left over.
THEOREM OneHandlerPostsInFull ==
    ASSUME OneHandler
    PROVE  Spec => PostedInFull
<1>1. ASSUME TypeOK, Inv, [Next]_vars, NEW p \in Payments, ~allocated[p], allocated'[p]
      PROVE  credits' = credits + payAmount[p]
  <2>1. ASSUME NEW r \in Requests, CommitAllocation(r)
        PROVE  credits' = credits + payAmount[p]
    <3>1. req[r].pay = p
      BY <1>1, <2>1 DEF CommitAllocation, TypeOK
    <3>2. req[r].credit = payAmount[p]
      BY <1>1, <2>1, <3>1 DEF CommitAllocation, Inv, HandlerFresh, FreshClaim
    <3>3. QED BY <2>1, <3>2 DEF CommitAllocation
  <2>2. CASE UNCHANGED allocated
    BY <1>1, <2>2
  <2>3. QED
    BY <1>1, <2>1, <2>2
    DEF Next, Billing, Handler, vars, IssueInvoice, RemoveInvoice, PatchInvoice, CreateCharge,
        CreatePayment, BeginUpdate, BeginRemove, BeginAllocate, FinishUpdate, FinishRemove,
        ClaimPayment, Abandon
<1>2. TypeOK /\ Inv /\ [Next]_vars =>
        [\A p \in Payments : ~allocated[p] /\ allocated'[p] =>
            credits' = credits + payAmount[p]]_vars
  BY <1>1
<1>3. QED
  BY <1>2, OneHandlerInvariant, PTL DEF Spec, PostedInFull
=============================================================================
