--------------------------- MODULE AttemptOutcomes ---------------------------
(***************************************************************************)
(* Assessment attempts as a module result sees them: an attempt is open    *)
(* until it is CONFIRMED, and CONFIRMED is terminal (the lifecycle comment *)
(* of api/marks/marks.service.ts).  AssessmentAttempt implements this, and *)
(* ModuleResults builds on it.  The service checks a row it has read and   *)
(* writes it by its id, so a write can meet a row that changed in between: *)
(* an attempt this happened to is in "overtaken", and may be reopened.     *)
(***************************************************************************)
CONSTANT Rows               \* the AssessmentAttempt rows

NoRow     == "ABSENT"       \* the row does not exist yet
Unsettled == "UNSETTLED"    \* any status but CONFIRMED
Confirmed == "CONFIRMED"
Gone      == "DELETED"      \* soft-deleted: no read returns it any more

VARIABLES
    outcome,      \* of each attempt
    overtaken     \* the attempts some write of which went by an outdated read

outcomeVars == <<outcome, overtaken>>

Existing == {a \in Rows : outcome[a] \in {Unsettled, Confirmed}}

OutcomesTypeOK ==
    /\ outcome \in [Rows -> {NoRow, Unsettled, Confirmed, Gone}]
    /\ overtaken \subseteq Rows

OutcomesInit ==
    /\ outcome = [a \in Rows |-> NoRow]
    /\ overtaken = {}

\* POST /marks takes any status
Open(a, o) ==
    /\ outcome[a] = NoRow
    /\ outcome' = [outcome EXCEPT ![a] = o]
    /\ UNCHANGED overtaken

Confirm(a) ==
    /\ outcome[a] = Unsettled
    /\ outcome' = [outcome EXCEPT ![a] = Confirmed]
    /\ UNCHANGED overtaken

Race(a, o) ==
    /\ a \in Existing
    /\ outcome' = [outcome EXCEPT ![a] = o]
    /\ overtaken' = overtaken \cup {a}

Withdraw(a) ==
    /\ a \in Existing
    /\ outcome' = [outcome EXCEPT ![a] = Gone]
    /\ overtaken' = overtaken \ {a}

OutcomesNext ==
    \E a \in Rows :
        \/ \E o \in {Unsettled, Confirmed} : Open(a, o) \/ Race(a, o)
        \/ Confirm(a)
        \/ Withdraw(a)

OutcomesSpec == OutcomesInit /\ [][OutcomesNext]_outcomeVars
=============================================================================
