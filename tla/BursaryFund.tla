----------------------------- MODULE BursaryFund -----------------------------
(***************************************************************************)
(* The automatic decisions on the applications to one bursary fund:        *)
(* autoDecideForApplication of api/bursary-applications, the rules of      *)
(* utils/bursary-decision.ts and the budget writes of                      *)
(* repositories/bursaryFund.repository.ts.                                 *)
(*                                                                         *)
(* A call reads the application and the fund, decides, and then commits    *)
(* one transaction that writes both; another call may run in between.  An  *)
(* amount of 0 stands for an awardAmount that is null or 0: the code takes *)
(* both for no previous award.  What income and circumstances say of an    *)
(* application is a free choice; previews write nothing and are left out.  *)
(***************************************************************************)
EXTENDS Integers, FiniteSets

CONSTANTS
    Applications,
    BursaryCalls,        \* decisions that may be in flight at once
    Budget,              \* the fund's total
    AwardCaps,           \* min(default award, cap) of the fund's and the caller's rules
    PostedRows,          \* the rows applications are created with: a status and an award
    OverrideStatuses,    \* the statuses rows are patched to by hand
    RemainingBound       \* bound: calls start while no more than this remains

BursaryStatuses == {"SUBMITTED", "UNDER_REVIEW", "APPROVED", "REJECTED", "PAID"}

ASSUME BursaryAssumption ==
    /\ IsFiniteSet(BursaryCalls) /\ BursaryCalls # {}
    /\ Budget \in Nat
    /\ AwardCaps \subseteq Nat
    /\ PostedRows \subseteq [status : BursaryStatuses, amount : Nat]
    /\ OverrideStatuses \subseteq BursaryStatuses

Terminal == {"APPROVED", "REJECTED", "PAID"}
Decisions == {"APPROVE", "REJECT", "REVIEW"}

VARIABLES
    award,       \* the BursaryApplication rows
    fund,        \* the BursaryFund row
    deciding,    \* what each call holds
    reserved,    \* history: what the fund has reserved, net, for an application
    parted       \* history: applications whose award was recorded without the fund,
                 \* for which "reserved" is not kept any more

bursaryVars == <<award, fund, deciding, reserved, parted>>

NotDeciding == [op |-> "idle"]
Deciding == [op : {"deciding"}, app : Applications, decision : Decisions, suggested : Nat,
             from : BursaryStatuses, prior : Nat, stale : BOOLEAN]

BursaryTypeOK ==
    /\ award \in [Applications -> [status : BursaryStatuses \cup {"ABSENT", "DELETED"}, amount : Nat]]
    /\ fund \in [allocated : Int, remaining : Int]
    /\ deciding \in [BursaryCalls -> {NotDeciding} \cup Deciding]
    /\ reserved \in [Applications -> Int]
    /\ parted \subseteq Applications

BursaryInit ==
    /\ award = [a \in Applications |-> [status |-> "ABSENT", amount |-> 0]]
    /\ fund = [allocated |-> 0, remaining |-> Budget]
    /\ deciding = [c \in BursaryCalls |-> NotDeciding]
    /\ reserved = [a \in Applications |-> 0]
    /\ parted = {}
-----------------------------------------------------------------------------
Existing(a) == award[a].status \in BursaryStatuses

\* what these calls have read of the application is out of date
Outdate(calls, a) ==
    [c \in BursaryCalls |->
       IF c \in calls /\ deciding[c] # NotDeciding
       THEN [deciding[c] EXCEPT !.stale = @ \/ deciding[c].app = a]
       ELSE deciding[c]]

(* ---- evaluateBursaryEligibility ------------------------------------------- *)

\* regression: the award is not limited to what remains
SuggestedUncapped(cap) == IF fund.remaining > 0 THEN cap ELSE 0

Suggested(cap) ==
    LET remaining == IF fund.remaining > 0 THEN fund.remaining ELSE 0
    IN  IF cap <= remaining THEN cap ELSE remaining

\* wish: what income, circumstances and fee status alone say
Decision(wish, cap) ==
    CASE wish = "REJECT" \/ (Suggested(cap) = 0 /\ cap > 0) -> "REJECT"
      [] wish = "APPROVE" /\ Suggested(cap) > 0 -> "APPROVE"
      [] OTHER -> "REVIEW"

(* ---- autoDecideForApplication ---------------------------------------------- *)

\* up to the transaction
BeginDecision(c, a, force) ==
    \E wish \in Decisions, cap \in AwardCaps :
        /\ deciding[c] = NotDeciding
        /\ fund.remaining <= RemainingBound
        /\ Existing(a)
        /\ award[a].status \in Terminal => force
        /\ LET decision == Decision(wish, cap)
           IN  deciding' = [deciding EXCEPT ![c] =
                 [op |-> "deciding", app |-> a, decision |-> decision,
                  suggested |-> IF decision = "APPROVE" THEN Suggested(cap) ELSE 0,
                  from |-> award[a].status, prior |-> award[a].amount, stale |-> FALSE]]
        /\ UNCHANGED <<award, fund, reserved, parted>>

\* regression: a new award is reserved on top of the previous one
BudgetChangeGross(d) ==
    CASE d.decision = "APPROVE"  -> d.suggested
      [] d.from = "APPROVED" /\ d.decision # "APPROVE" -> -d.prior
      [] OTHER -> 0

\* what the transaction reserves (negative: releases)
BudgetChange(d) ==
    CASE d.decision = "APPROVE"  -> d.suggested - d.prior
      [] d.from = "APPROVED" /\ d.decision # "APPROVE" -> -d.prior
      [] OTHER -> 0

\* regression: the row gets the change of its award instead of the award
DecidedChange(row, d) ==
    CASE d.decision = "APPROVE" -> [status |-> "APPROVED", amount |-> d.suggested - d.prior]
      [] d.decision = "REJECT"  -> [status |-> "REJECTED", amount |-> 0]
      [] d.decision = "REVIEW" /\ d.from # "UNDER_REVIEW"
                                -> [row EXCEPT !.status = "UNDER_REVIEW"]
      [] OTHER                  -> row

Decided(row, d) ==
    CASE d.decision = "APPROVE" -> [status |-> "APPROVED", amount |-> d.suggested]
      [] d.decision = "REJECT"  -> [status |-> "REJECTED", amount |-> 0]
      [] d.decision = "REVIEW" /\ d.from # "UNDER_REVIEW"
                                -> [row EXCEPT !.status = "UNDER_REVIEW"]
      [] OTHER                  -> row

\* a forced REVIEW releases an award and leaves its amount on the row, and a
\* forced REJECT of a paid row (or of one whose award such a REVIEW left) clears
\* the amount and releases nothing
Parts(d) ==
    d.prior > 0 /\ \/ d.decision = "REVIEW" /\ d.from = "APPROVED"
                   \/ d.decision = "REJECT" /\ d.from # "APPROVED"

\* the transaction; with the row gone it fails
CommitDecision(c) ==
    LET d == deciding[c]
    IN  /\ d # NotDeciding
        /\ Existing(d.app)
        /\ fund' = [allocated |-> fund.allocated + BudgetChange(d),
                    remaining |-> fund.remaining - BudgetChange(d)]
        /\ award' = [award EXCEPT ![d.app] = Decided(@, d)]
        /\ parted' = IF d.stale \/ Parts(d) THEN parted \cup {d.app} ELSE parted
        /\ reserved' = [reserved EXCEPT ![d.app] =
                          IF d.app \in parted' THEN 0 ELSE @ + BudgetChange(d)]
        /\ deciding' = [Outdate(BursaryCalls \ {c}, d.app) EXCEPT ![c] = NotDeciding]

\* a failure or a crash: the transaction is rolled back
LoseDecision(c) ==
    /\ deciding[c] # NotDeciding
    /\ deciding' = [deciding EXCEPT ![c] = NotDeciding]
    /\ UNCHANGED <<award, fund, reserved, parted>>

(* ---- create, update and remove: the fund is not touched ---------------------- *)

\* POST takes any status and award, as if decided elsewhere
PostApplication(a) ==
    /\ fund.remaining <= RemainingBound
    /\ award[a].status = "ABSENT"
    /\ \E row \in PostedRows :
          /\ award' = [award EXCEPT ![a] = row]
          /\ parted' = IF row.amount = award[a].amount THEN parted ELSE parted \cup {a}
    /\ UNCHANGED <<fund, deciding, reserved>>

\* PATCH of status and award: any to any (PAID after APPROVED, for one)
OverrideDecision(a, s, amount) ==
    /\ fund.remaining <= RemainingBound
    /\ Existing(a)
    /\ award' = [award EXCEPT ![a] = [status |-> s, amount |-> amount]]
    /\ parted' = IF amount = award[a].amount THEN parted ELSE parted \cup {a}
    /\ reserved' = [reserved EXCEPT ![a] = IF a \in parted' THEN 0 ELSE @]
    /\ deciding' = Outdate(BursaryCalls, a)
    /\ UNCHANGED fund

RemoveApplication(a) ==
    /\ Existing(a)
    /\ award' = [award EXCEPT ![a] = [status |-> "DELETED", amount |-> 0]]
    /\ parted' = parted \cup {a}
    /\ reserved' = [reserved EXCEPT ![a] = IF a \in parted' THEN 0 ELSE @]
    /\ deciding' = Outdate(BursaryCalls, a)
    /\ UNCHANGED fund

BursaryNext ==
    \/ \E c \in BursaryCalls :
          \/ \E a \in Applications, force \in BOOLEAN : BeginDecision(c, a, force)
          \/ CommitDecision(c)
          \/ LoseDecision(c)
    \/ \E a \in Applications :
          \/ \E s \in OverrideStatuses, amount \in AwardCaps \cup {0} : OverrideDecision(a, s, amount)
          \/ PostApplication(a)
          \/ RemoveApplication(a)

BursarySpec == BursaryInit /\ [][BursaryNext]_bursaryVars
-----------------------------------------------------------------------------
\* The fund has reserved for an application exactly the award on its row, over any
\* sequence of decisions, forced ones included, and with other applications' racing
\* it.  "Parted" are the rows whose award was posted or patched by hand, those some
\* decision on which went by an outdated read, and those a forced REVIEW or REJECT
\* left behind; the fund never takes them back.
AwardsAreReserved ==
    \A a \in Applications \ parted : reserved[a] = award[a].amount

\* Decisions read what remains before their transaction, so racing ones overdraw
\* the fund, but by no more than the largest award for each call but one.
OverdraftBounded ==
    \A cap \in AwardCaps :
        (\A other \in AwardCaps : other <= cap) =>
            fund.remaining >= -(cap * (Cardinality(BursaryCalls) - 1))

\* "The fund ledger never drifts out of sync with the application status": what
\* remains of the fund is never more than there was to begin with.
RemainingWithinBudget == fund.remaining <= Budget
=============================================================================
