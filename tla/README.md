# Verification of SJMS-5

SJMS-5 is a student journey management system: an Express/Prisma server over PostgreSQL
(`src/server`), background workers, and a React client (`src/client`). This directory holds TLA+
models of its core logic, TLC runs that check them on small instances, and TLAPS proofs for every
size. Everything here is written from the code. Where a comment of the repository promises
something the code does not do, section 4 says so; for six of these a run exhibits it, and
`PROJECT.json` lists it as a finding.

## 1. Inventory

All server components share one shape: an Express router validates a body with zod, a service
function reads rows, checks rules, writes rows through a repository, writes an audit row and emits
a webhook event. There is one Node process for HTTP and one or more worker processes; PostgreSQL at
READ COMMITTED is the only shared state. A handler yields at every `await`, so two requests
interleave at every query, and only a `prisma.$transaction` with a conditional `updateMany` (or a
row lock) makes a check and its write one step. That is the source of nearly every hard behaviour
below.

| Component | State | Operations | Hard behaviours | What makes it correct |
|---|---|---|---|---|
| Payment allocation algorithm (`utils/payment-allocation.ts`) | none, pure | `allocatePayment` under FIFO or PROPORTIONAL | rounding drift, exact exhaustion, over-allocated and undated charges | no line takes more than it owes; the payment is neither stretched nor lost; FIFO is FIFO |
| Payments, charges, account ledger (`api/payments`, four repositories) | `Payment`, `ChargeLine`, `Invoice`, `StudentAccount` rows | create, update, remove, `allocateForPayment` | stale reads outside the transaction, two allocations of one account, force, crash between two statements | a payment is posted once, a charge settled once; lines, invoices and account totals agree |
| Invoices (`api/invoices`, `invoice-composition.ts`) | `Invoice` with its lines | generate for an assessment, update, remove | cancelled or deleted while a payment is being allocated | only live, uncancelled invoices take money |
| Transactional outbox (`utils/outbox*.ts`, `workers/outbox.worker.ts`) | `outbox_events` rows | emit, claim, dispatch, retry, give up | overlapping ticks, several processes, lost answers, crash with rows in hand | exclusive claims, at-least-once with a bound, settled rows final, backlog drains |
| Payment plans and instalments (`api/payment-instalments`, `api/payment-plans`, cron worker) | `PaymentInstalment`, `PaymentPlan` | generate a plan, record a payment (allocates it), overdue cron that charges instalments, plan completion | two recordings of one instalment, crash after allocation, a cron run that works from an old list | a payment pays for one instalment, an instalment is charged once, the plan completes with its last instalment |
| Refund approvals (`api/refund-approvals`) | `RefundApproval` | request, approve, reject, process, PATCH, delete | steps that race from one status, requester approving | four eyes, decisions final |
| Bursaries (`api/bursary-*`, `bursary-decision.ts`) | `BursaryFund`, `BursaryApplication` | decide automatically, force a new decision, override by hand, delete | budget read before the transaction, forced re-decisions | the fund has reserved what the rows say; overdraft bounded |
| Fee assessment (`api/fee-assessments`, `utils/fee-calculation.ts`) | `FeeAssessment` | calculate, persist | re-calculation, waivers at the boundary | fee is between 0 and gross; one live assessment |
| Ledger anomalies (`api/ledger-anomalies`, cron) | reads the ledger | scan | reads while allocations run | reports exactly the broken rows |
| Credit notes, sponsors | single rows | CRUD | — | — |
| Attempts and moderation (`api/marks/marks.service.ts`) | `AssessmentAttempt` | create, update, moderate, ratify, remove | read-check-write without a transaction; marks left from an earlier cycle | transition graph, independent moderator, confirmed rows fixed |
| Second and anonymous marking (`api/marks/*-marking.service.ts`) | `SecondMarkingRecord`, `AnonymousMarking` | assign, record, reconcile and propagate; anonymise, reveal | record racing reconcile, look-ups without a key | an agreed mark is backed by its two marks; one open record and one label per script |
| Module results, aggregation (`api/module-results`, `utils/marks-aggregation.ts`) | `ModuleResult` | aggregate, create, update, ratify | find-then-create, the attempts gate read before the write | ratified only over confirmed attempts; one result per registration and year |
| Progression, awards, transcripts | decision rows | decide, classify, generate | rounding, compensation, thresholds; find-then-create | a better mark never makes a decision worse |
| Exam boards | board rows | CRUD | — | — |
| Admissions (`api/applications`, `api/offers`, ...) | `Application`, `OfferCondition`, `Student`, `Enrolment` | transitions, conditions, promotion, conversion | fail-soft promotion against decisions, find-then-create | a satisfied offer is promoted; decided applications stay; one enrolment per journey |
| Enrolment, registration (`api/enrolments`, `api/module-registrations`) | `Enrolment`, `ModuleRegistration` | register, amend, remove, change the mode of study, status cascade | limit checked against an earlier read, re-pointed rows | registered credits within the limit |
| Appeals, EC claims, support | single-row state machines | transitions | stale transitions | graph respected |
| Statutory returns (`api/hesa`, `hesa-return-composition.ts`) | `HESAReturn`, `HESASnapshot` (deletes refused by a trigger) | compose, validate, export | snapshot and row written apart, racing and repeated runs | a return agrees with its snapshot |
| Attendance, timetable, UKVI; catalogue, governance; documents, communications, accommodation, clearance | single rows, reports | CRUD, export | — | — |
| Webhook dispatch (`utils/webhooks.ts`), queues and Redis, worker registration | job queue | fire and forget | lost events (what the outbox is for) | — |
| HTTP platform; dataset import; web client | sessions, files, view state | — | — | out of scope |

How they interact: an assessment generates an invoice with its charge lines, which debits the
account. A payment is allocated over the open charges, which flips lines, pays invoices, credits
the account and stamps the payment. An instalment recording calls the same allocation; the overdue
cron creates a charge. Attempts are aggregated into a module result, which feeds progression and
awards. Every service emits webhook events; the outbox exists so that an event can be committed
with its business change (no service calls `emitOutboxEvent` yet).

`PROJECT.json` lists every component with its sources and status, and under `hazards` everything in
this code that is hard to test, at its line.

## 2. Plan

Money first, then marks, then the rest. A module that will be proved about has no RECURSIVE
operator, one action per operation, and a read-check-write handler is split where it awaits.

1. Done. `PaymentAllocation` — the pure algorithm.
2. Done. `PaymentLedger` — composes the algorithm (as the constant operator `Allocate`, whose
   contract is an assumption that TLC evaluates on the real algorithm) with payments, charges,
   invoices and the account. `PostingBook` is its abstract specification; `PaymentLedgerProofs`
   proves about both.
3. Done. `Outbox`, `OutboxProofs`.
4. Done. `PaymentPlan`, `PaymentPlanProofs` — recordings against a plan's instalments and the
   overdue cron; `PlanSchedule` — the amounts and dates of a plan.
5. Done. Marks: `AssessmentAttempt` with its abstract specification `AttemptOutcomes`,
   `ModuleResults` on top of the latter, `SecondMarking`, `AnonymousMarking`, `YearDecision`;
   `AssessmentAttemptProofs`, `ModuleResultsProofs`, `AssessmentProofs`.
6. Done. `BursaryFund`, `RefundApproval`, `Admissions`, proved in `DecisionsProofs`.
7. Done. `ModuleRegistrations` — the credit limit, proved in `AssessmentProofs`.
8. Done. `HesaReturn` — composition and validation of a statutory return, proved in
   `DecisionsProofs`.
9. Done. `SumTheorems` — sums over finite sets and the induction they need, for the proofs about
   money and credits; the contracts of the pure algorithms: of payments, proved in
   `PaymentPlanProofs`, and of the decision on a year, proved in `AssessmentProofs`.
10. Left, in this order: the fee calculation against a reference definition; the ledger anomaly
    report as an observer of `PaymentLedger`; the upsert of a progression decision and the award
    row (find, then update or create, as in `ModuleResults`); a bursary fund's own CRUD; appeals,
    EC claims and support cases (single rows with a transition graph). Theorems
    left: none of the properties checked so far; those of the modules to come.

## 3. The modules

### PaymentAllocation, MCPaymentAllocation

`AllocatePayment(strategy, paymentAmount, open)` is `allocatePayment`: `PaidBefore` is
`compareForFifo`, `FifoQueue` the stable sort by it without the settled charges that the loop skips
(a charge's place is the number of charges that precede it, `Precedes`), `Remaining` the loop of
`allocateFifo` as a recursive function, `Line` an outcome line, `AllocateProportional` the rounded
shares with the drift pushed on the line `DriftIndex` finds. Money is in pence: amounts come from
the database with two decimals, so sums and differences are exact and only the proportional share
rounds (`RoundedQuotient`, half up, as `Math.round`). Operator notes and the per-invoice summary are
left out.

`PlanSchedule` is `generatePlanSchedule`: `GeneratePlanSchedule` splits a total with the rounding
drift on the last instalment, and `BuildDueDates` counts every date from the start date, clipped to
the month's last day (`AddMonthsClipped`).

`MCPaymentAllocation` enumerates the inputs of both: one initial state per call, one step, the
answer. `AlgorithmAssumption` types its constants: amounts are integers of either sign, a plan's
total is positive and it has an instalment, as the route's schema demands. Charges come in due-date
order, as `findOpenForAccount` returns them. `MCPaymentPlan` runs it beside the plan that calls the
two algorithms.

The contracts: `MoneyConserved` is the code's own promise, `totalAllocated + leftover ===
paymentAmount`, which PROPORTIONAL does not keep (section 4). `MoneyContract` is what it does keep:
no line takes more than it owes or is marked full too early, enough money settles everything, and
money is conserved to the penny except where PROPORTIONAL rounded up by more than its last owing
charge can give back, and left that charge with nothing. `FifoReference` compares FIFO with its
definition as overlapping intervals of running totals. `ScheduleContract`: a plan's amounts add up,
and its dates ascend without drift or repetition.

### PaymentLedger, PostingBook, MCPaymentLedger, MCPostingBook

State: the rows of one student account (`chargeStatus`, `chargePaid`; `invoiceStatus`,
`invoicePaid`, `invoiceDeleted`; `payStatus`, `payAmount`, `payDeleted`, `allocated`; `balance`,
`debits`, `credits`) and, per handler, `req[r]`: what it has read.

| Action | Code |
|---|---|
| `IssueInvoice` | `generateForFeeAssessment` → `createWithLines`, one transaction |
| `CreateCharge` | `finance.repository.createCharge` |
| `PatchInvoice`, `RemoveInvoice` | `PATCH` and `DELETE /invoices/:id` |
| `CreatePayment` | `payments.service.create` |
| `BeginUpdate` / `FinishUpdate`, `BeginRemove` / `FinishRemove` | read and check, then write by id |
| `BeginAllocate` | `allocateForPayment` before its transaction: status, amount, first-allocation flag |
| `ClaimPayment` | the stamp, the read of open charges and `allocatePayment` |
| `CommitAllocation` | flips, increments, invoices, account, commit |
| `Abandon` | a crash, a lost connection, a timed-out or deadlocked transaction, a stamp that matched no row |

Why a transaction is two steps: at READ COMMITTED its reads see what was committed before each
statement, and its writes are increments or are guarded by a status that PostgreSQL re-evaluates on
the locked row. A write held back until the commit therefore changes the rows as the code does; what
matters is that the open charges were read earlier (`ClaimPayment`) and that the payment's row stays
locked in between (`Locked`). The re-read of the charges that did not flip (`findStatusByIds`) may
be taken at the commit too, since no code takes a charge out of PAID. A forced run whose stamp finds
the row deleted holds no lock and goes on. `persist = false` previews change nothing and are left
out.

Abstractions: one line per invoice, which is what `composeInvoiceFromAssessment` builds
(`invoice-composition.ts:197-207`), so invoice and line share a name. Charge statuses CREDITED and
WRITTEN_OFF are set nowhere. REVERSED and REFUNDED payments behave as any status other than
COMPLETED. The PATCH of an invoice's amounts by hand is excluded: it overwrites the very sums the properties relate,
and no text says what it must keep (the hazard at `invoices.service.ts:65`).

`PostingBook` says what allocation promises without handlers, locks or stale reads: a payment is
credited once; charges are settled only by the posting that credits the account. `MCPostingBook`
adds the variable `unforced`, chosen once: an account in which nobody may force, whose handlers
must implement the book (`UnforcedPostOnce`), or one in which anybody may.

### Outbox, MCOutbox

`status` and `attempts` are the rows; `ready` is the due rows in `available_at` order (time is kept
only as that order: a row joins `ready` when its backoff is over); `received` counts the webhook's
accepted copies and is not visible to the code. Each drain (one `drainOutboxBatch` call) has a
`phase`, the rows it still holds, the one in hand, and the `attempts` it read. `Claim` is the claim
transaction (`FOR UPDATE SKIP LOCKED`, mark, read back); `Post`, `WebhookAccepts`, `WebhookRefuses`
the dispatch, whose answer may be lost after the webhook took the event; `RecordDelivery`,
`RecordFailure` the updates and `DeliveryNotRecorded`, `FailureNotRecorded` their failures; `Crash`
the end of a worker process. HMAC signing and the URL are left out, as is the DISCARDED status,
which nothing sets.

### PaymentPlan, MCPaymentPlan

State: the rows of one plan (`plan`, `instalment`), how many charges carry each instalment's
marker (`charges`), the payments with an `allocatedAt` stamp (`posted`), what each recording
(`req`) and each cron run (`run`) holds. `completions` and `excused` are history the code does not
see.

| Action | Code |
|---|---|
| `GeneratePlan`, `PatchPlan`, `RemovePlan` | `POST /payment-plans/generate` (direct creation is refused), `PATCH`, `DELETE` |
| `PatchInstalment`, `RemoveInstalment` | `PATCH` and `DELETE /payment-instalments/:id` |
| `AllocateDirectly` | `POST /payments/:id/allocate`, which needs no instalment |
| `BeginRecord` → `Post` → `Flip` → `Inspect` → `Promote` | `recordPayment`, cut at the awaits where what was read can go stale |
| `Abandon` | a crash, a failed query, a refused allocation at any of them |
| `StartRun` → `CheckMarker` → `IssueCharge` or `ChargeFails` | `processOverdueInstalments`: the list, then per row the marker check and the charge |
| `RunDies` | the worker dies or the job is stopped; a later `StartRun` is the rerun |

`Post` is a whole `allocateForPayment`: `PaymentLedger` shows what it does to a payment, and of
that this module keeps the stamp, which an unforced call sets once. Amounts, accounts and open
charges can only refuse a recording, so `BeginRecord` may or may not happen. Payments are neither
amended nor deleted here; `PaymentLedger` covers that.

### AttemptOutcomes, AssessmentAttempt

State: `attempt`, the rows (status, the three marks, marker, moderator); `req`, the completed patch
each call of `update()` is about to write, with what it has seen.

| Action | Code |
|---|---|
| `Create`, `Remove` | `POST` and `DELETE /marks` (any status may be posted; a removal is soft) |
| `Patch`, `ModerateAttempt`, `RatifyAttempt`, `PropagateAgreedMark` | the four callers of `update()`, each up to its write: `Accepts` is every check of the row read, `Stamped` the columns it adds |
| `Write` | the update by id: columns not in the patch keep the value they have by then (`Patched`) |
| `Abandon` | a crash or a failed query before the write |

`AttemptOutcomes` is what a module result relies on: an attempt is open until it is CONFIRMED and
confirmed for good, unless a write went by an outdated read (`Race`). `AssessmentAttempt`
implements it (`ConfirmedIsTerminal`, checked and proved), and `ModuleResults` extends it instead
of the detailed module: this is how the two compose without multiplying their states.

### SecondMarking, AnonymousMarking

One script. `record` holds the second-marking records, `marking` what a call holds between its
checks and its write: `BeginAssign`/`WriteAssignment` (assignSecondMarker; the second mark starts
as a placeholder, the first one), `BeginRecord`/`WriteSecondMark`, `BeginReconcile`/
`WriteAgreedMark` (the average, the caller's mark, or by force out of tolerance). What
`reconcileMarks` then does to an attempt is `AssessmentAttempt!PropagateAgreedMark`.

`label` holds the anonymous ids. `BeginAnonymise` looks for the script's rows, `CreateLabel` draws
an id, `DrawAgain` is a collision with the unique key, up to `LabelTries`; `Reveal` opens one.

### ModuleResults, YearDecision

`result` holds the rows of one registration and year; `call` what a handler has read. `Aggregate` →
`PersistUpdate` or `PersistCreate` is `aggregateForModuleRegistration`, `BeginMove` → `WriteMove` is
`PATCH` (ratification included, through the gate `AllAttemptsConfirmed`), `CreateResult` and
`RemoveResult` are `POST` and `DELETE`. A mark is only "computed" or "typed".

`YearDecision` is the arithmetic from there on: `AggregateMark`, the pass mark of the level (50 at
LEVEL_7 and LEVEL_8, 40 elsewhere) or the caller's, `DecideProgression` with greedy compensation
(`Granted`, `Compensated`), and `ClassifyAward` over the ratified results of every year
(`ConfirmedResults`) with the boundaries of the level. `rules` are the options both take, defaults
filled in; they may be anything of their type. Its state is the results of one enrolment, of which
those with `thisYear` are the year decided on; its steps correct a component's mark or ratify a
result, so that a property can compare two decisions. Lists of results are filtered as sets of
their places (`Passed`, `Failed`, `Compensable`); only compensation depends on their order. A result
of a module without credits, which decides nothing, is excluded by `YearAssumption`.

### ModuleRegistrations

`registration` holds the rows, `limit` the credit limit of each enrolment's mode of study.
`BeginRegister` and `BeginAmend` read and check, `WriteRegistration` writes, `RemoveRegistration`
deletes, `PatchMode` changes the mode without a look at what is registered. `BeginAmend` takes the
patch the route lets through: `moduleId` and `enrolmentId` as scalars, for which the service's
check, written for `data.module.connect`, does not run.

### Admissions

One application: `application`, `condition`, `student`, `enrolment` are rows, `doing[c]` the next
step of each call. `BeginPatch`/`WriteStatus` is `PATCH`, `CreateCondition`, `UpdateCondition`,
`RemoveCondition` commit first and then `Evaluate`, `Promote` and write, fail-soft (`Fail`);
`BeginConversion`, `CreateStudent`, `SearchEnrolment`, `CreateEnrolment` are `convertToStudent`;
`PostStudent`, `PostEnrolment`, `RemoveStudent`, `RemoveEnrolment` are the same rows written by
hand, which looks for nothing. `enrolment` says of a live row whether a conversion made it or staff
posted it. Deleting an application sets its `deletedAt`, which `getById` does not look at: a deleted
application is patched, promoted and converted as before, so the deletion is left out with it.

### BursaryFund, RefundApproval

`BeginDecision` reads an application and the fund and decides (`Decision`); `CommitDecision` is the
transaction, which writes the row and reserves or releases (`BudgetChange`); `PostApplication`,
which may carry a status and an award (`PostedRows`), `OverrideDecision` and `RemoveApplication`
write the row alone. `fund.remaining` may grow without bound through
the drift of section 4, so calls start only while it is at most `RemainingBound`, except in the run
that exhibits the drift.

`Propose`; `BeginStep`/`WriteStep` for approve, reject, process, each of which checks the status
and the person it reads and writes by id; `PatchRefund`, `RemoveRefund`.

### HesaReturn

`header` is the HESAReturn row, `snapshot` its body by run. `FindReturn`, `CreateReturn`,
`StartReplace`, `CommitReplace`, `WriteHeader` are `composeReturn`; `BeginValidate`,
`WriteValidation` are `validateReturn`; `Fails` is the rule evaluator over lines whose value is
empty or a code. `Replaceable` is the database's trigger `hesa_snapshot_immutable`: a transaction
whose DELETE sees a row fails. At READ COMMITTED two first composes see none and both insert.

### MCAssessment, MCDecisions: parts

Several of these modules share no state, and a run of each would ask the same kind of question. The
two MC modules put them side by side: `part`, chosen in the initial state, says which module a
behaviour belongs to, and the variables of the others stand still, so that the numbers of states
add up. Each disjunct of the next-state relation is one module's `Next`. `PartsTypeOK` is the
conjunction of the type invariants, `OnePerScript` that of one label and one open record.

### History variables

The code is full of checks that another request can outdate. A property that holds but for such a
write says so through state the actions never read. An exception covers the row, the slot or the
call that was hit and no other, and begins with the write that hit it. How it ends:

- `stale` and `late` (of a call): with the call. `TerminalStands` and `DecisionStands` excuse that
  one write; every later call is held to the row as it then is.
- `raced` (an enrolment made after an outdated search): with the deletion of that enrolment.
- `patched` (a refund written by PATCH): with the next approval, which checks the row again.
- `excused` (an offer without an evaluation): with the next change of a condition.
- `parted`, `torn`, `reopened`: never, because the code has no way back. The fund takes back no
  award that was recorded beside it; the trigger refuses every repair of a snapshot; nothing merges
  two returns.
- `overtaken`, `irregular`, `overwritten`, `relabelled`, `doubledUp`, `backfilled`, `unchecked`
  name rows of the assessment modules in the same way, where those modules say.

`completions`, `endorsers`, `reserved`, `settled`, `vouched`, `latest`, `received` record what
happened. For two races whose
outcome a comment denies there is a run of its own that exhibits them without the exception,
`ledger_invoice_race` and `ledger_amend_race`; section 4 names the others in words.

## 4. The runs

| Run | Question | Bounds | Size | Outcome |
|---|---|---|---|---|
| `ledger_concurrent` | Under any interleaving of two handlers, amendments, deletions and crashes: are settled charges final, is every settlement backed by a credit, and, where nobody forces, do the handlers implement `PostingBook`? | 2 handlers, 2 payments, one invoice of 3 and one charge of 2 | 1.25M states | holds |
| `ledger_one_handler` | One handler at a time over long histories: do invoices reconcile with lines, open charges owe, and payments get posted in full? | 1 handler, 2 payments, both strategies, force | 237k states | holds |
| `ledger_invoice_race` | Does `InvoiceReconciles` survive a second handler? | 2 handlers, 2 payments, 1 invoice | — | violated |
| `ledger_amend_race` | Does an allocated payment keep its amount and stay undeleted? | 2 handlers, 1 payment, no force | — | violated |
| `outbox` | Exclusive claims, honest deliveries, bounded copies, final settlements, and a backlog that drains | 3 events, 2 processes, batches of 2, 2 tries | 123k states | holds |
| `outbox_restart` | Does every event survive a worker's restart? | 2 events | — | violated |
| `plan` | Recordings, direct allocations, staff edits and a cron run over one plan: does a payment pay for one instalment, is what is completed posted, is the plan promoted by the last recording, is an instalment charged once? And do the two algorithms keep their contracts? | 2 recordings, 1 cron run, 2 instalments, 2 payments, forced or not; lists of up to 4 charges, plans of up to 9 instalments | 1.02M states | holds |
| `plan_overallocation` | Is `totalAllocated + leftover` the payment? | PROPORTIONAL, up to 4 charges of 1p, payments of 1p to 3p | — | violated |
| `assessment` | A student's year, part by part: do checked credits fit, is an outcome recorded and moderated by somebody else, does what is ratified stand, is there one result, one label and one open second mark, is an agreed mark backed; can a better mark or a ratification make the decision on a year or the class of an award worse? | 2 calls in flight per part, 1 attempt under update, 2 attempts under a result, 2 users, 2 results, 2 registrations; years of 2 or 3 results, one of an earlier year, levels 5 to 8, default rules and two sets of overrides | 630k states | holds |
| `decisions` | Part by part: is a satisfied offer promoted, does a conversion find the enrolment of another, does a final decision on an application hold for every call that checks after it; does the fund agree with its rows, and is its overdraft bounded; is a refund paid by two people, and its end final; does a return agree with its snapshot? | 2 calls in flight (3 for refunds), 2 conditions, 2 enrolments, 2 applications to a fund of 2, blank or posted as APPROVED, 1 refund, 2 returns | 1.59M states | holds |
| `bursary_drift` | Does the fund never have more left than its budget? | 1 application | — | violated |
| `hesa_recompose` | Is the snapshot always that of the most recent run? | 1 call | — | violated |

Why the bounds are enough. Allocation: four charges are the fewest for which three rounded-up shares
have a fourth line to overdraw; the amounts make payments that end before, on and after the end of a
charge. Schedules: nine monthly instalments from any late day cross a February of either length,
nine quarterly ones two years. Ledger: the races are between two transactions on one charge, or
between one transaction and one amendment; two payments of 2 and 4 over charges of 3 and 2 give part
payment, exact payment, overpayment and leftover; a second charge without an invoice separates the
line from the invoice rule. Outbox: two drains race for three events in batches of two, so a batch
is full, short or contended; two tries give a retry and a give-up. Plan: two recordings that finish
together, on one instalment or two, with one payment or two, are enough for each race between
recordings, and the proofs cover any number. Attempts: a row is written by id and two calls read it
before either writes; cycles of referral are not bounded. Results: two rows are a duplicate, two
attempts a gate that one passes and one does not. Registrations: a limit of 2 or 3 over modules of 1
and 2 credits is met, missed by one and exceeded by two. Years: modules of different credits, of
which one is graded without a mark, with marks below, on and above those for compensation and pass,
in a year of more credits than a full one, of fewer, and after another year; under the overrides two
modules that can be compensated do not fit together, in either order, so that a better one displaces
a later one. Refunds: with three steps in flight one can race with the two it
takes to pay. Funds: awards of 1 and 2 from a budget of 2 exhaust it exactly, in part, and twice at
once; an application posted as APPROVED has an award the fund never reserved. `CreateStatuses`,
`MoveStatuses` and `PostStatuses` leave out statuses the handlers treat as one they keep (a DEFERRED
result moves as a REFERRED one does, and REFERRED results are posted as such); the proofs cover every status. Symmetry over interchangeable model
values is used in the safety runs only; the parts of a run share their model values.

Deadlock checking is off where the system may be done: everything billed, paid and allocated;
every event settled or orphaned; the plan done or deleted; rows deleted and ids used up; one answer
per call.

### Findings

- `ledger_invoice_race`: two payments, two unforced allocations, one charge: the second transaction
  flips nothing, re-reads the line as PAID and pays the invoice again.
- `ledger_amend_race`: a PATCH (or DELETE) reads the payment, an allocation posts it, and the PATCH
  writes by id: the guard against changes of an allocated payment was read too early.
- `plan_overallocation`: four charges of 1p and a payment of 2p under PROPORTIONAL are allocated 3p,
  leftover 0. Shares round up, and the charge that takes the drift stops at 0.
- `outbox_restart`: a crash between the claim and the record leaves the row IN_FLIGHT for ever.
- `bursary_drift`: a forced REVIEW of an approved application releases its award and keeps
  `awardAmount`; the next REVIEW releases it again.
- `hesa_recompose`: the trigger refuses the DELETE that every compose after the first begins with,
  so the body stays that of the first run.

### Other disagreements met while modelling

These have no run of their own; most of it is in the models.

- `markPaidBulk` flips a covered line first, and the increment that should bring its `paidAmount` up
  (the comment at `chargeLine.repository.ts:171`) is guarded by an open status (`:197`): a PAID line
  keeps the `paidAmount` it had.
- `module-registrations.service.ts:118` promises the rules of `create()` for an update that names
  another module. The check (`:123`) reads `data.module.connect`, and the route lets only `moduleId`
  through, so a registration moves to a bigger module without it.
- DECLINED, WITHDRAWN and REJECTED are called terminal (`applications.service.ts:18`); a PATCH read
  before a withdrawal and written after it (`:182`) reopens the application.
- Conversion is called idempotent (`applications.controller.ts:46-48`); two at once both search
  before either creates (`applications.service.ts:443`) and leave two enrolments.
- REJECTED is called terminal for refunds (`refund-approvals.service.ts:25`); an approval read
  before a rejection and written after it (`:171`) approves the refund.
- REPEAT_YEAR stands for substantial failures (`progression-decision.ts:10`); a student who took 80
  of 120 credits and passed them all gets it (`:264`). REPEAT_MODULES asks for a failure that could
  be compensated (`:259-260`); one or two failures of any mark get it (`:263`).
- The overdue cron reads its list once; an instalment completed before the loop reaches it is
  charged after it was paid.
- `createSchema.partial()` keeps the defaults of zod 4 (`.default()` under `.partial()`; an
  assumption about an external library), and `validate.ts:38` replaces the body with the parsed
  one. A PATCH that names no status therefore carries that of a new row: an edited MET condition
  is PENDING again, a result PROVISIONAL, and a mark adjustment asks for a transition to PENDING,
  where the comment at `marks.service.ts:319-322` calls updates without a status unaffected.
- `reconcileMarks` accepts the placeholder second mark as it stands; the second marker's
  independence is checked at assignment only; the agreed mark goes to the newest attempt, which
  need not be the one that was marked twice.
- Two first composes that race leave two bodies under one return; `composeReturn` passes over
  `includeInactiveRules`; `validateReturn` sets VALIDATION with errors or without; a COURSE return
  stops at 100 programmes.
- A student number is made from a count of the students not deleted, so that a deletion can make
  the next number collide.
- A progression decision is found and then created, and the enrolment's status cascade asks for a
  body that the route's schema does not let through.

## 5. Fairness

Only `outbox` uses fairness: weak fairness of each drain's next step (the interval keeps ticking,
every await is bounded by the request timeout, a restarted process ticks again) and of each row
falling due (time passes). Nothing forces an emission, a successful request, or a fault.
`BacklogDrains` therefore holds although the webhook may refuse for ever: rows become FAILED. It
excepts rows whose drain was killed, which is what `outbox_restart` shows to be necessary.

## 6. The proofs

TLAPS checks every theorem for every value of the constants, under the ASSUMEs of the modules, which
TLC evaluates on every run: charges have positive bounded amounts and invoices and ad-hoc charges
are disjoint (`ChargesAssumption`), payments are positive (`RequestAssumption`), the algorithm gives
no charge more than it owes and totals what it gives (`AllocationContract`, which TLC evaluates
against the real algorithm), the charges, registrations, decisions and cohorts are finite sets, the
outbox's sizes are positive (`OutboxAssumption`), a plan has an instalment (`PlanAssumption`), marks
and credits are natural and a module has credits (`YearAssumption`), budgets and awards are naturals
(`BursaryAssumption`), and the statuses and options tried are ones the code has
(`AttemptAssumption`, `ResultAssumption`, `AdmissionsAssumption`).

- `PaymentLedgerProofs`. `TypeCorrect`: TypeOK is inductive once a claim's amounts are known to be
  naturals (from `AllocationContract`). `SettlementIsFinal`: no step changes a PAID charge. Only
  `CommitAllocation` writes charges; it flips and increments open ones. `UnforcedPostsOnce`: with
  `ForceOptions = {FALSE}` the ledger implements `PostingBook`. The step that matters is the
  commit: the invariant says that whoever holds an unforced claim on a payment stamped it while it
  was unallocated and still holds its lock, so the commit posts an unposted payment.
  `UnforcedPostOnceHolds` is the property the run checks, among accounts in which anybody may force:
  the accounts in which nobody does keep that invariant because no handler of theirs holds a forced
  read (`UnforcedKept`), and in the others the book is not claimed.
- `PaymentLedgerProofs`, the money. `SettlementIsBacked`: what the charges count as paid stays
  within the credits, whatever handlers race, force, or die. `NoUnbackedSettlement` alone is not
  inductive, because a commit settles by an answer computed earlier. `ClaimsBacked` adds that the
  amounts of a claim add up to no more than its credit, and that a charge it is to flip is paid
  off by what the line has and the claim brings, which stays true since lines only grow. At the
  commit each charge's worth grows by at most its amount, and none if somebody else has settled
  it. It assumes `NeverOverallocates`, that an answer allocates no more than the payment. FIFO does
  so, and TLC evaluates it on the real FIFO in `ledger_concurrent`; PROPORTIONAL does not (section
  4), and for it the statement would be false by those pence.
- `PaymentLedgerProofs`, one handler. Assumes that at most one handler is in flight (`OneHandler`)
  and shows what concurrency breaks: `OneHandlerReconciles`, `OneHandlerCloses`,
  `OneHandlerPostsInFull`. The invariant ties
  the handler's local state to the rows it read: an update or removal in hand is of a payment that
  is still unallocated, an allocation in hand has the payment's present amount and flag, and the
  amounts of a claim fit what the charges still owe. `ledger_invoice_race` shows the assumption is
  needed for the first.
- `OutboxProofs`. `Inv` strengthens `ExclusiveClaim` with: rows in `ready` are PENDING and distinct
  (`ReadyPending`), a drain's phase tells what it holds (`HandsInPhase`), the attempts a drain read
  are the row's (`TriesLeft`), an event was accepted at most once per attempt, one more while the
  accepted post is not recorded (`Counted`), and DELIVERED rows were received. `ExclusiveClaim` is
  not inductive alone: a claim must know that rows in `ready` are in nobody's hands.

- `PaymentPlanProofs`. `PaymentIsUsedOnce`: `PaymentUsedOnce` alone is not inductive, because the
  payment that completes an instalment was chosen two steps earlier. `ClaimsExclusive` adds that an
  unforced recording past its allocation holds a stamped payment that no completion used and no
  other such recording holds, which the conditional stamp gives. `CompletionIsPosted` follows from
  `AllocatedFirst`, which adds the recordings that have yet to flip. `LastRecordingPromotes`: the
  property is inductive with the types; the step that matters is `Inspect`, which must promote when
  it sees the plan complete. `OneCronChargesOnce` assumes that cron runs do not overlap (`OneCron`:
  the worker's concurrency is 1, `queue.ts:163`) and needs that the instalment a run has in hand has
  no charge yet (`HandUncharged`).

- `PaymentPlanProofs`, the algorithms. Their inputs and answers are variables of the run, so each
  contract follows from one small invariant: an answer is the algorithm's answer to the inputs
  (`AnswersAreAnswers`). The rest is about the algorithm. `ScheduleContractHolds`: the first n - 1
  amounts add up to n - 1 times the rounded one (`ScheduleSum`), the last is the difference.
  `FifoReferenceHolds`: the places of the queue are a bijection and put it in order
  (`RankOrders`, `QueueIsSorted`); the loop's remainder has a closed form, the payment less what
  the queue so far owes, or nothing (`RemainingIs`); and the order of payment is the order of
  `Place`, which does not depend on the order of the list (`PlaceOrders`), so that what a charge
  finds ahead of it is the same set either way. `MoneyContractHolds`, for FIFO, telescopes that
  remainder. For PROPORTIONAL each rounded share exceeds the exact one by at most half a penny
  (`SharesBound`). The drift brings the sum down to what is to be split, unless the last line would
  fall below zero: then that line is zero, and only the other n - 1 have been rounded up. This
  is the one exception `MoneyContract` names, and `plan_overallocation` shows that it happens.

- `AssessmentAttemptProofs`. `AttemptIInv` is the types, the two properties, and `WritesSound`: a
  patch in hand that confirms or moderates carries, with the row it read, the mark and the person it
  needs, and one that is not outdated still meets that row. `OutcomeRecordedHolds`,
  `ModeratorIsIndependentHolds` follow; `ConfirmedIsTerminalHolds` is the refinement of
  `AttemptOutcomes`, in which a write that is not outdated of a confirmed row is impossible because
  the row it read had no way on.
- `ModuleResultsProofs`. `ResultsIInv` adds to `RatifiedAttemptsStand` and `OneLiveResult` what
  calls in flight hold: an aggregation about to create one has missed no live result
  (`NothingMissed`), one about to write a row that is not outdated aims at an unratified one
  (`TargetOpen`), and the attempts a ratification has seen stand (`SeenStands`).
  `ConfirmedMarkStandsHolds` is the action property that follows.
- `AssessmentProofs`, one section per module. Second marking: `AgreedIsBackedHolds` needs that an
  agreement in hand, on a row that is not overwritten, was computed from the marks the row has;
  `OneOpenRecordHolds` and `OneLabelHolds` that a creation in hand whose look is not late has missed
  no open record and no label, so that `OpenRecords` and `Used` have no two different elements.
  Registrations: `RegistrationsInv` adds to `CheckedCreditsFit` that a call in flight whose check is
  not outdated still has room for its row (`ChecksHold`: the slot's credits with the row's stay
  within the limit) and that a row to be created is nobody else's (`CallsFit`). A slot's credits are
  a sum over all registrations, of which a write changes one summand.
- `AssessmentProofs`, the decision on a year. The invariant is that each result has the aggregate
  of its components (`YearInv`); the rest compares two lists of which one result is better in the
  second (`BetterYear`, from `YearSteps`) and none worse (`NoWorseYear`), under arbitrary `rules`.
  What was passed or could be compensated is passed or can be (`NoWorsePasses`). The greedy loop is
  the hard part: `GreedySame`, `GreedyLoses` and `GreedyGains` say by how much what it grants can
  change when one result stays, leaves or joins those on offer, by induction along the list. With
  one result more on offer it grants no less, unless that one is granted and a later one is not any
  more, and then it loses less than the later one's credits: fewer credits count only in the way the
  property names (`NoFewerEffective`). A
  year with few failures may lose its last one only by having passed in full, which is where the
  property needs the full year's credits (`DecisionKeepsRank`). For the class, an average whose
  members stay keeps its order (`ClassKeepsOrder`), and one that a ratified mark joins lies between
  the old average and that mark, rounding included (`AverageJoined`, `ClassJoined`).
- `DecisionsProofs`, one section per module. Admissions: `AdmissionsIInv` is `OneJourney` with
  `NoneEnrolled` (for a conversion past its search, not outdated, there is no live enrolment at
  all, posted ones included), `WritesAllowed` (a
  status write in hand is allowed from the present status unless outdated), `PromotionsPromote` (a
  promotion in hand leaves CONDITIONAL_OFFER) and `DuePromoted` (a satisfied offer has an evaluation
  to come, or is excused), from which `SatisfiedIsPromotedHolds` and `TerminalStandsHolds`. Refunds:
  in `RefundIInv`, `PaidNeedsTwo` needs that a step in hand was taken by somebody the check allowed
  (`StepsBacked`), and is still allowed by the row's status unless overtaken (`StepsFresh`), and
  `DecisionStandsHolds` that the approver on the row is not the proposer (`ApproverIsAnother`).
  Funds: `AwardsAreReserved` is inductive with `DecidingIsCurrent`: a decision that is not outdated
  has read the row as it is, so that the difference it reserves is to the award that the row has.
  `OverdraftBoundedHolds` rests on `OverdraftCovered`: what all decisions in flight are about to
  reserve is at most what remains and one cap for every call but one. A call that starts when the
  fund is overdrawn suggests nothing, and one that starts when it is not suggests no more than
  remains, so the worst case is that all of them read the fund before any commits. Returns:
  `ReturnIsItsSnapshotHolds` ties what a run in flight is about to write to the snapshot it has
  written, `OneReturnHolds` is the one-record argument again.
- The composed specifications. `PartsAreParts` shows that a behaviour of `PartsSpec` is a behaviour
  of each part's specification, so that the theorems of the parts give `PartsTypeCorrect`,
  `OnePerScriptHolds` and `ReturnsStandHolds` without a new induction.
- `SumTheorems`. Balances, budgets and credits are sums, folded in the models one chosen element at
  a time. The library's induction theorems take an operator, so induction is stated here over a set
  of sets (`StrongSubsetInduction`, from the well-foundedness of the strict subset order), and a
  total is defined without recursion, as the number of points under the graph (`Total`).
  `SumIsTotal` identifies the two; `TotalSplit`, `TotalChange` and `TotalSum` are what the proofs of
  `NoUnbackedSettlement`, `CheckedCreditsFit` and `OverdraftBounded` use, and `TotalInjection`,
  `TotalSubset`, `TotalUnion` and `UpToInduction` (induction over an interval, again over a set)
  those of the algorithms.

Model-checked only: `BacklogDrains`, which is liveness. Nothing is claimed of liveness but for the
outbox: every other handler serves one request and may fail.

## 7. What is not modelled, and why

Most of the repository by lines is CRUD over single rows, list queries, the React client, seed and
data generation, import and formatting. It has no rule between two pieces of state that a model
could break, and a module for it would restate assignments; the models cover the services with
checks, sums, races or algorithms.

Not modelled: everything with status `not_modelled` in `PROJECT.json`. Step 10 of the plan says
which parts would come next. Left out for good: the web client, HTTP platform and dataset import
(I/O and formatting), the CRUD services, the CSV of a return, transcripts (composition of a
document), the legacy webhook queue (a third-party job queue), letter grades and the tables of
settings. Of enrolments only the mode of study is modelled; prerequisites of a module can only
refuse a registration.

Hazards whose `properties` are empty say why nothing is claimed of them: a forced re-run that
credits leftovers, an invoice's amounts amended by hand, invoices cancelled while a payment is in
flight, an instalment charged after it was paid. But for the amended amounts the models contain these
behaviours, as they do applications for a bursary posted with an award and two payments recorded at
once against one instalment; the repository states no rule they would break.
