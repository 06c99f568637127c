----------------------------- MODULE MCDecisions -----------------------------
(***************************************************************************)
(* Four workflows that share no state: admissions, bursary funds, refunds  *)
(* and a statutory return.  "part" says which one a behaviour is about;    *)
(* the variables of the others stand still, so that the states of the      *)
(* workflows of a run add up and do not multiply.                          *)
(***************************************************************************)
EXTENDS Admissions, BursaryFund, RefundApproval, HesaReturn, TLC

VARIABLE part

\* an application as staff enter one, and one that was decided before it was entered
BlankApplication == {[status |-> "SUBMITTED", amount |-> 0]}
AnyApplication == BlankApplication \cup {[status |-> "APPROVED", amount |-> 1]}

\* a student whose code is empty, alone or with another student and a module
ReturnCohorts ==
    LET Line(kind, value) == [kind |-> kind, value |-> value]
        blank == Line("student", "empty")
    IN  {{blank}, {blank, Line("student", "11"), Line("module", "11")}}

\* that students have a code, and, not active, that it is 12
ReturnRules ==
    LET required == [kind |-> "student", checks |-> "REQUIRED", accepts |-> {}, active |-> TRUE]
        coded == [kind |-> "student", checks |-> "CODE_LIST", accepts |-> {"12"}, active |-> FALSE]
    IN  {{required}, {required, coded}}

\* the parts share their model values, two by two, to keep this group small
Symmetry == Permutations(Conditions) \cup Permutations(Handlers) \cup Permutations(Enrolments)

PartsInit ==
    /\ part \in {"admissions", "bursary", "refund", "return"}
    /\ AdmissionsInit /\ BursaryInit /\ RefundInit /\ ReturnInit

partVars == <<part, admissionsVars, bursaryVars, refundVars, returnVars>>

Admitting ==
    /\ part = "admissions" /\ AdmissionsNext
    /\ UNCHANGED <<part, bursaryVars, refundVars, returnVars>>
Awarding ==
    /\ part = "bursary" /\ BursaryNext
    /\ UNCHANGED <<part, admissionsVars, refundVars, returnVars>>
Refunding ==
    /\ part = "refund" /\ RefundNext
    /\ UNCHANGED <<part, admissionsVars, bursaryVars, returnVars>>
Returning ==
    /\ part = "return" /\ ReturnNext
    /\ UNCHANGED <<part, admissionsVars, bursaryVars, refundVars>>

PartsNext == Admitting \/ Awarding \/ Refunding \/ Returning
PartsSpec == PartsInit /\ [][PartsNext]_partVars

PartsTypeOK == AdmissionsTypeOK /\ BursaryTypeOK /\ RefundTypeOK /\ ReturnTypeOK
-----------------------------------------------------------------------------
\* Whatever runs fail, race or are abandoned on the way, there is one return of a
\* type for a year, and its row says what its snapshot holds; only an outdated look
\* makes another, and only a run cut short or overtaken parts row and snapshot.
ReturnsStand == OneReturn /\ ReturnIsItsSnapshot
=============================================================================
