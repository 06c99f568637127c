----------------------------- MODULE PaymentPlan -----------------------------
(***************************************************************************)
(* One payment plan: staff record payments against its instalments         *)
(* (api/payment-instalments/payment-instalments.service.ts, recordPayment) *)
(* while the cron charges the overdue ones (processOverdueInstalments).    *)
(*                                                                         *)
(* recordPayment has no transaction of its own: it reads and checks the    *)
(* instalment, allocates the payment, flips the instalment, reads the plan *)
(* again and promotes it, and other requests run between these steps.  The *)
(* allocation is PaymentLedger's; what it does to a payment that is not    *)
(* forced is PostingBook's Post, so here it is the one step Post(r).       *)
(* Amounts, accounts and open charges only ever refuse a recording, so     *)
(* they are left out: BeginRecord may or may not happen.                   *)
(* Due dates only choose what a run finds overdue, and staff may move      *)
(* them: any PENDING instalment may be.  Payments are neither amended nor  *)
(* deleted here.                                                           *)
(***************************************************************************)
EXTENDS Naturals

CONSTANTS
    Requests,            \* recordings that may be in flight at once
    Crons,               \* cron runs that may be in flight at once
    Instalments,
    Payments,
    ForceOptions,        \* values of the "force" option callers use
    PlanPatches,         \* the statuses staff give a plan, at first or by PATCH
    InstalmentPatches    \* the statuses staff PATCH an instalment to

Absent  == "ABSENT"      \* the row does not exist yet
Deleted == "DELETED"
PlanStatuses       == {"ACTIVE", "COMPLETED", "DEFAULTED", "CANCELLED"}
InstalmentStatuses == {"PENDING", "COMPLETED", "FAILED", "REVERSED", "REFUNDED"}
NoInstalment       == "none"

\* generatePlan refuses an empty schedule
ASSUME PlanAssumption ==
    /\ Instalments # {} /\ NoInstalment \notin Instalments
    /\ ForceOptions \subseteq BOOLEAN
    /\ PlanPatches \subseteq PlanStatuses
    /\ InstalmentPatches \subseteq InstalmentStatuses

VARIABLES
    plan, instalment,    \* the PaymentPlan and PaymentInstalment rows
    charges,             \* ChargeLine rows carrying the instalment's marker
    posted,              \* the payments with an allocatedAt stamp
    req,                 \* what each recording holds
    run,                 \* what each cron run holds
    completions,         \* history: the instalments completed without force,
                         \* each with its payment
    excused              \* history: a recording died after its flip, or staff
                         \* completed an instalment or activated the plan by hand

rowVars     == <<plan, instalment, charges, posted>>
historyVars == <<completions, excused>>
vars == <<rowVars, req, run, historyVars>>

Idle == [op |-> "idle"]
Recording == [op : {"posting", "flipping", "inspecting", "promoting"},
              inst : Instalments, pay : Payments, force : ForceOptions]
Waiting == [todo |-> {}, hand |-> NoInstalment]

TypeOK ==
    /\ plan \in PlanStatuses \cup {Absent, Deleted}
    /\ instalment \in [Instalments -> InstalmentStatuses \cup {Absent}]
    /\ charges \in [Instalments -> Nat]
    /\ posted \subseteq Payments
    /\ req \in [Requests -> {Idle} \cup Recording]
    /\ run \in [Crons -> [todo : SUBSET Instalments, hand : Instalments \cup {NoInstalment}]]
    /\ completions \subseteq Instalments \X Payments
    /\ excused \in BOOLEAN
-----------------------------------------------------------------------------
Init ==
    /\ plan = Absent
    /\ instalment = [i \in Instalments |-> Absent]
    /\ charges = [i \in Instalments |-> 0]
    /\ posted = {}
    /\ req = [r \in Requests |-> Idle]
    /\ run = [c \in Crons |-> Waiting]
    /\ completions = {} /\ excused = FALSE

(* ---- the plan and its instalments --------------------------------------- *)

\* generatePlan -> createWithInstalments: the plan with its schedule, at once
GeneratePlan(status) ==
    /\ plan = Absent
    /\ plan' = status
    /\ instalment' = [i \in Instalments |-> "PENDING"]
    /\ UNCHANGED <<charges, posted, req, run, historyVars>>

PatchPlan(status) ==
    /\ plan \in PlanStatuses
    /\ plan' = status
    /\ excused' = (excused \/ status = "ACTIVE")
    /\ UNCHANGED <<instalment, charges, posted, req, run, completions>>

\* a hard delete, which cascades to the schedule
RemovePlan ==
    /\ plan \in PlanStatuses
    /\ plan' = Deleted
    /\ instalment' = [i \in Instalments |-> Absent]
    /\ UNCHANGED <<charges, posted, req, run, historyVars>>

PatchInstalment(i, status) ==
    /\ instalment[i] # Absent
    /\ instalment' = [instalment EXCEPT ![i] = status]
    /\ excused' = (excused \/ status = "COMPLETED")
    /\ UNCHANGED <<plan, charges, posted, req, run, completions>>

RemoveInstalment(i) ==
    /\ instalment[i] # Absent
    /\ instalment' = [instalment EXCEPT ![i] = Absent]
    /\ UNCHANGED <<plan, charges, posted, req, run, historyVars>>

\* POST /payments/:id/allocate, without an instalment
AllocateDirectly(p) ==
    /\ p \notin posted
    /\ posted' = posted \cup {p}
    /\ UNCHANGED <<plan, instalment, charges, req, run, historyVars>>

(* ---- recordPayment ------------------------------------------------------ *)

Step(r, op) == req' = [req EXCEPT ![r].op = op]

\* regression: the payment is bound without being allocated
BeginUnallocated(r, i, p, force) ==
    /\ req[r] = Idle
    /\ instalment[i] # Absent
    /\ instalment[i] = "COMPLETED" => force
    /\ req' = [req EXCEPT ![r] = [op |-> "flipping", inst |-> i, pay |-> p, force |-> force]]
    /\ UNCHANGED <<rowVars, run, historyVars>>

\* the reads and checks
BeginRecord(r, i, p, force) ==
    /\ req[r] = Idle
    /\ instalment[i] # Absent
    /\ instalment[i] = "COMPLETED" => force
    /\ req' = [req EXCEPT ![r] = [op |-> "posting", inst |-> i, pay |-> p, force |-> force]]
    /\ UNCHANGED <<rowVars, run, historyVars>>

\* regression: the stamp is not conditional
PostAgain(r) ==
    /\ req[r].op = "posting"
    /\ posted' = posted \cup {req[r].pay}
    /\ Step(r, "flipping")
    /\ UNCHANGED <<plan, instalment, charges, run, historyVars>>

\* allocateForPayment commits; without force it refuses a payment once stamped
Post(r) ==
    /\ req[r].op = "posting"
    /\ req[r].pay \in posted => req[r].force
    /\ posted' = posted \cup {req[r].pay}
    /\ Step(r, "flipping")
    /\ UNCHANGED <<plan, instalment, charges, run, historyVars>>

\* update() finds the row and sets COMPLETED, whatever its status is by now
Flip(r) ==
    LET i == req[r].inst
    IN  /\ req[r].op = "flipping"
        /\ instalment[i] # Absent
        /\ instalment' = [instalment EXCEPT ![i] = "COMPLETED"]
        /\ completions' = IF req[r].force THEN completions
                          ELSE completions \cup {<<i, req[r].pay>>}
        /\ Step(r, "inspecting")
        /\ UNCHANGED <<plan, charges, posted, run, excused>>

AllCompleted == \A i \in Instalments : instalment[i] \in {"COMPLETED", Absent}

\* regression: a recording leaves the promotion to another one in flight
InspectAlone(r) ==
    /\ req[r].op = "inspecting"
    /\ IF plan = "ACTIVE" /\ AllCompleted /\ \A s \in Requests \ {r} : req[s] = Idle
       THEN Step(r, "promoting") ELSE req' = [req EXCEPT ![r] = Idle]
    /\ UNCHANGED <<rowVars, run, historyVars>>

\* refreshedPlan: the plan and its instalments, read again
Inspect(r) ==
    /\ req[r].op = "inspecting"
    /\ IF plan = "ACTIVE" /\ AllCompleted
       THEN Step(r, "promoting") ELSE req' = [req EXCEPT ![r] = Idle]
    /\ UNCHANGED <<rowVars, run, historyVars>>

Promote(r) ==
    /\ req[r].op = "promoting"
    /\ plan \in PlanStatuses
    /\ plan' = "COMPLETED"
    /\ req' = [req EXCEPT ![r] = Idle]
    /\ UNCHANGED <<instalment, charges, posted, run, historyVars>>

\* a crash, a query that fails, a row that is gone, an allocation that refuses:
\* what the recording has written stays
Abandon(r) ==
    /\ req[r] # Idle
    /\ excused' = (excused \/ req[r].op \in {"inspecting", "promoting"})
    /\ req' = [req EXCEPT ![r] = Idle]
    /\ UNCHANGED <<rowVars, run, completions>>

(* ---- processOverdueInstalments ------------------------------------------ *)

\* findOverdue: those of the PENDING instalments whose due date has passed
StartRun(c) ==
    \E overdue \in SUBSET {i \in Instalments : instalment[i] = "PENDING"} :
        /\ run[c] = Waiting /\ overdue # {}
        /\ run' = [run EXCEPT ![c].todo = overdue]
        /\ UNCHANGED <<rowVars, req, historyVars>>

\* regression: no findByInstalmentMarker
TakeNext(c) ==
    \E i \in run[c].todo :
        /\ run[c].hand = NoInstalment
        /\ run' = [run EXCEPT ![c] = [todo |-> @.todo \ {i}, hand |-> i]]
        /\ UNCHANGED <<rowVars, req, historyVars>>

\* the next instalment of the list; one that has a charge is skipped
CheckMarker(c) ==
    \E i \in run[c].todo :
        /\ run[c].hand = NoInstalment
        /\ run' = [run EXCEPT ![c] =
                     [todo |-> @.todo \ {i},
                      hand |-> IF charges[i] = 0 THEN i ELSE NoInstalment]]
        /\ UNCHANGED <<rowVars, req, historyVars>>

\* createCharge
IssueCharge(c) ==
    /\ run[c].hand # NoInstalment
    /\ charges' = [charges EXCEPT ![run[c].hand] = @ + 1]
    /\ run' = [run EXCEPT ![c].hand = NoInstalment]
    /\ UNCHANGED <<plan, instalment, posted, req, historyVars>>

\* createCharge throws: the row is reported as failed and the loop goes on
ChargeFails(c) ==
    /\ run[c].hand # NoInstalment
    /\ run' = [run EXCEPT ![c].hand = NoInstalment]
    /\ UNCHANGED <<rowVars, req, historyVars>>

\* the worker dies; the queue or the next day starts the run again
RunDies(c) ==
    /\ run[c] # Waiting
    /\ run' = [run EXCEPT ![c] = Waiting]
    /\ UNCHANGED <<rowVars, req, historyVars>>

Staff ==
    \/ \E status \in PlanPatches : GeneratePlan(status) \/ PatchPlan(status)
    \/ RemovePlan
    \/ \E i \in Instalments, status \in InstalmentPatches : PatchInstalment(i, status)
    \/ \E i \in Instalments : RemoveInstalment(i)
    \/ \E p \in Payments : AllocateDirectly(p)

Record(r) ==
    \/ \E i \in Instalments, p \in Payments, force \in ForceOptions :
          BeginRecord(r, i, p, force)
    \/ Post(r) \/ Flip(r) \/ Inspect(r) \/ Promote(r) \/ Abandon(r)

Cron(c) ==
    StartRun(c) \/ CheckMarker(c) \/ IssueCharge(c) \/ ChargeFails(c) \/ RunDies(c)

Next ==
    \/ Staff
    \/ \E r \in Requests : Record(r)
    \/ \E c \in Crons : Cron(c)

Spec == Init /\ [][Next]_vars
-----------------------------------------------------------------------------
\* Without force, a payment pays for one instalment, however many recordings,
\* forced ones included, race with it: the status check is stale by the flip,
\* the stamp is what decides.
PaymentUsedOnce ==
    \A done, other \in completions : done[2] = other[2] => done[1] = other[1]

\* A recording marks its instalment paid only once its payment is on the ledger,
\* with or without force, whoever else allocates that payment.
CompletedIsPosted ==
    \A r \in Requests : req[r].op \in {"inspecting", "promoting"} => req[r].pay \in posted

\* The last recording promotes the plan: when every instalment is COMPLETED, an
\* ACTIVE plan has a recording left that will promote it, although each one
\* looks only once, unless one died on the way or staff forced the rows' hand.
LastOnePromotes ==
    plan = "ACTIVE" /\ (\A i \in Instalments : instalment[i] = "COMPLETED") =>
        excused \/ \E r \in Requests : req[r].op \in {"inspecting", "promoting"}

\* One cron run at a time: an instalment is charged once, over reruns, failures
\* and crashes at any row ("re-runs are idempotent").
ChargedOnce == \A i \in Instalments : charges[i] <= 1
=============================================================================
