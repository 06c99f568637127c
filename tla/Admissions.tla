------------------------------ MODULE Admissions ------------------------------
(***************************************************************************)
(* One application, its offer conditions, and its conversion to a student  *)
(* and an enrolment: api/applications/applications.service.ts and          *)
(* api/offers/offers.service.ts.                                           *)
(*                                                                         *)
(* No call is a transaction.  What a call still has to do is in "doing";   *)
(* between two of its steps other calls run, and it may fail or die.  A    *)
(* mutation of a condition commits first and is then evaluated, fail-soft. *)
(* Reads in a row are one step; offers, interviews and dates are left out. *)
(* Deleting an application sets its deletedAt, which no call here reads (a *)
(* deleted one is patched, promoted and converted as before), and is left  *)
(* out with it.                                                            *)
(***************************************************************************)
CONSTANTS
    Conditions, Enrolments,
    Handlers,            \* calls that may be in flight at once
    ConditionStatuses    \* the statuses conditions are written with

ASSUME AdmissionsAssumption == ConditionStatuses \subseteq {"PENDING", "MET", "NOT_MET", "WAIVED"}

ValidTransitions ==
    [SUBMITTED           |-> {"UNDER_REVIEW", "WITHDRAWN", "REJECTED"},
     UNDER_REVIEW        |-> {"INTERVIEW", "CONDITIONAL_OFFER", "UNCONDITIONAL_OFFER",
                              "REJECTED", "WITHDRAWN"},
     INTERVIEW           |-> {"CONDITIONAL_OFFER", "UNCONDITIONAL_OFFER", "REJECTED", "WITHDRAWN"},
     CONDITIONAL_OFFER   |-> {"UNCONDITIONAL_OFFER", "FIRM", "INSURANCE", "DECLINED", "WITHDRAWN"},
     UNCONDITIONAL_OFFER |-> {"FIRM", "INSURANCE", "DECLINED", "WITHDRAWN"},
     FIRM                |-> {"WITHDRAWN"},
     INSURANCE           |-> {"FIRM", "WITHDRAWN"},
     DECLINED            |-> {},
     WITHDRAWN           |-> {},
     REJECTED            |-> {}]

ApplicationStatuses == DOMAIN ValidTransitions
Final == {s \in ApplicationStatuses : ValidTransitions[s] = {}}
Convertible == {"FIRM", "UNCONDITIONAL_OFFER"}

VARIABLES
    application,   \* the status of the Application row
    condition,     \* the statuses of its OfferCondition rows
    student,       \* the Student row of the applicant's person
    enrolment,     \* Enrolment rows of that student for the programme and year: live
                   \* ones by their origin
    doing,         \* what each call does next
    excused,       \* history: the conditions were satisfied before the offer was made,
                   \* or an evaluation has failed, since a condition last changed
    raced          \* history: live enrolments that an outdated search let through

admissionsVars == <<application, condition, student, enrolment, doing, excused, raced>>

AtRest == [op |-> "idle"]
Doing ==
    [op : {"evaluate", "promote", "student", "search", "enrol"}, stale : BOOLEAN]
      \cup [op : {"write"}, to : ApplicationStatuses, promotion : BOOLEAN, stale : BOOLEAN]

AdmissionsTypeOK ==
    /\ application \in ApplicationStatuses
    /\ condition \in [Conditions -> {"ABSENT", "PENDING", "MET", "NOT_MET", "WAIVED", "DELETED"}]
    /\ student \in {"none", "live", "deleted"}
    /\ enrolment \in [Enrolments -> {"absent", "converted", "posted", "deleted"}]
    /\ doing \in [Handlers -> {AtRest} \cup Doing]
    /\ excused \in BOOLEAN
    /\ raced \subseteq Enrolments

AdmissionsInit ==
    /\ application = "SUBMITTED"
    /\ condition = [k \in Conditions |-> "ABSENT"]
    /\ student = "none"
    /\ enrolment = [e \in Enrolments |-> "absent"]
    /\ doing = [c \in Handlers |-> AtRest]
    /\ excused = FALSE /\ raced = {}
-----------------------------------------------------------------------------
enrolments == <<student, enrolment, raced>>

Goto(c, step) == doing' = [doing EXCEPT ![c] = step]
At(op) == [op |-> op, stale |-> FALSE]

\* calls at one of these steps have read what has just changed
Outdated(ops) ==
    [d \in Handlers |->
        IF doing[d].op \in ops THEN [doing[d] EXCEPT !.stale = TRUE] ELSE doing[d]]

LiveConditions(cond) == {k \in Conditions : cond[k] \notin {"ABSENT", "DELETED"}}

AllSatisfied(cond) ==
    /\ LiveConditions(cond) # {}
    /\ \A k \in LiveConditions(cond) : cond[k] \in {"MET", "WAIVED"}

(* ---- applications.service.update -------------------------------------------- *)

\* regression: no transition is checked
AllowedAnything(to) == TRUE

Allowed(to) == to = application \/ to \in ValidTransitions[application]

\* PATCH /applications/:id up to its write
BeginPatch(c, to) ==
    /\ doing[c] = AtRest
    /\ Allowed(to)
    /\ Goto(c, [op |-> "write", to |-> to, promotion |-> FALSE, stale |-> FALSE])
    /\ UNCHANGED <<application, condition, excused, enrolments>>

\* repo.update(id, data): by id, whatever the row is by now
WriteStatus(c) ==
    /\ doing[c].op = "write"
    /\ application' = doing[c].to
    /\ excused' = (excused \/ /\ application # "CONDITIONAL_OFFER"
                              /\ doing[c].to = "CONDITIONAL_OFFER" /\ AllSatisfied(condition))
    /\ doing' = [Outdated(IF application' = application THEN {} ELSE {"write"}) EXCEPT ![c] = AtRest]
    /\ UNCHANGED <<condition, enrolments>>

(* ---- offers.service: create, update, remove ---------------------------------- *)

\* the committed mutation; its evaluation is still to come
Mutate(c, k, s) ==
    /\ doing[c] = AtRest
    /\ condition' = [condition EXCEPT ![k] = s]
    /\ excused' = FALSE
    /\ Goto(c, At("evaluate"))
    /\ UNCHANGED <<application, enrolments>>

\* regression: a removed condition is not evaluated
RemoveConditionQuietly(c, k) ==
    /\ k \in LiveConditions(condition)
    /\ doing[c] = AtRest
    /\ condition' = [condition EXCEPT ![k] = "DELETED"]
    /\ excused' = FALSE
    /\ UNCHANGED <<application, doing, enrolments>>

CreateCondition(c, k, s) == condition[k] = "ABSENT" /\ Mutate(c, k, s)
\* (updateSchema makes PENDING of a status left out)
UpdateCondition(c, k, s) == k \in LiveConditions(condition) /\ Mutate(c, k, s)
RemoveCondition(c, k)    == k \in LiveConditions(condition) /\ Mutate(c, k, "DELETED")

\* evaluateOfferConditionsAndAutoPromote: one read of the application with its
\* conditions ...
Evaluate(c) ==
    /\ doing[c].op = "evaluate"
    /\ Goto(c, IF application = "CONDITIONAL_OFFER" /\ AllSatisfied(condition)
               THEN At("promote") ELSE AtRest)
    /\ UNCHANGED <<application, condition, excused, enrolments>>

\* ... and update(), which reads and checks the row again
Promote(c) ==
    /\ doing[c].op = "promote"
    /\ Goto(c, IF Allowed("UNCONDITIONAL_OFFER")
               THEN [op |-> "write", to |-> "UNCONDITIONAL_OFFER", promotion |-> TRUE, stale |-> FALSE]
               ELSE AtRest)
    /\ UNCHANGED <<application, condition, excused, enrolments>>

(* ---- convertToStudent --------------------------------------------------------- *)

\* the check of the status, and getByPersonId
BeginConversion(c) ==
    /\ doing[c] = AtRest
    /\ application \in Convertible
    /\ Goto(c, At(IF student = "live" THEN "search" ELSE "student"))
    /\ UNCHANGED <<application, condition, excused, enrolments>>

\* a person has at most one Student row, a soft-deleted one included
CreateStudent(c) ==
    /\ doing[c].op = "student"
    /\ IF student = "none"
       THEN student' = "live" /\ Goto(c, At("search"))
       ELSE UNCHANGED student /\ Goto(c, AtRest)
    /\ UNCHANGED <<application, condition, enrolment, excused, raced>>

Enrolled(e) == enrolment[e] \in {"converted", "posted"}

\* regression: an enrolment counts as found only while the application is firm
FoundIfFirm == application = "FIRM" /\ \E e \in Enrolments : Enrolled(e)

FoundForJourney == \E e \in Enrolments : Enrolled(e)

\* findForJourney
SearchEnrolment(c) ==
    /\ doing[c].op = "search"
    /\ Goto(c, IF FoundForJourney THEN AtRest ELSE At("enrol"))
    /\ UNCHANGED <<application, condition, excused, enrolments>>

\* nothing keeps a student to one enrolment a programme and year
CreateEnrolment(c, e) ==
    /\ doing[c].op = "enrol"
    /\ enrolment[e] = "absent"
    /\ enrolment' = [enrolment EXCEPT ![e] = "converted"]
    /\ raced' = IF doing[c].stale THEN raced \cup {e} ELSE raced
    /\ doing' = [Outdated({"enrol"}) EXCEPT ![c] = AtRest]
    /\ UNCHANGED <<application, condition, student, excused>>

\* POST /students and POST /enrolments search for nothing
PostStudent ==
    /\ student = "none"
    /\ student' = "live"
    /\ UNCHANGED <<application, condition, enrolment, doing, excused, raced>>

PostEnrolment(e) ==
    /\ student # "none"
    /\ enrolment[e] = "absent"
    /\ enrolment' = [enrolment EXCEPT ![e] = "posted"]
    /\ doing' = Outdated({"enrol"})
    /\ UNCHANGED <<application, condition, student, excused, raced>>

RemoveEnrolment(e) ==
    /\ Enrolled(e)
    /\ enrolment' = [enrolment EXCEPT ![e] = "deleted"]
    /\ raced' = raced \ {e}
    /\ UNCHANGED <<application, condition, student, doing, excused>>

RemoveStudent ==
    /\ student = "live"
    /\ student' = "deleted"
    /\ UNCHANGED <<application, condition, enrolment, doing, excused, raced>>

\* a call fails or dies between two of its steps
Fail(c) ==
    /\ doing[c] # AtRest
    /\ excused' = (excused \/ doing[c].op \in {"evaluate", "promote"}
                           \/ (doing[c].op = "write" /\ doing[c].promotion))
    /\ Goto(c, AtRest)
    /\ UNCHANGED <<application, condition, enrolments>>

AdmissionsNext ==
    \/ \E c \in Handlers :
          \/ \E to \in ApplicationStatuses : BeginPatch(c, to)
          \/ WriteStatus(c)
          \/ \E k \in Conditions, s \in ConditionStatuses :
                CreateCondition(c, k, s) \/ UpdateCondition(c, k, s)
          \/ \E k \in Conditions : RemoveCondition(c, k)
          \/ Evaluate(c) \/ Promote(c)
          \/ BeginConversion(c) \/ CreateStudent(c) \/ SearchEnrolment(c)
          \/ \E e \in Enrolments : CreateEnrolment(c, e)
          \/ Fail(c)
    \/ \E e \in Enrolments : PostEnrolment(e) \/ RemoveEnrolment(e)
    \/ PostStudent \/ RemoveStudent

AdmissionsSpec == AdmissionsInit /\ [][AdmissionsNext]_admissionsVars
-----------------------------------------------------------------------------
\* Once every call is done, an offer whose conditions are all met or waived is not
\* conditional any more, whichever call satisfied the last one and whatever ran in
\* between; "excused" names the cases that no evaluation follows.
SatisfiedIsPromoted ==
    (\A c \in Handlers : doing[c].op \notin {"evaluate", "promote", "write"}) =>
        (application = "CONDITIONAL_OFFER" /\ AllSatisfied(condition) => excused)

\* A declined, withdrawn or rejected application stays so, automatic promotions
\* included; only the write of a call that had checked an earlier status reopens it,
\* and every call that checks afterwards is held to the decision again.
TerminalStands ==
    [][(application \in Final /\ application' # application) =>
          \E c \in Handlers :
              doing[c].op = "write" /\ doing[c].stale /\ doing'[c] = AtRest]_admissionsVars

\* However often conversions are repeated or cut short, and whatever is posted or
\* deleted by hand in between, of the live enrolments that they have made all but one
\* come from a search that another enrolment had outdated.  (convertToStudent)
OneJourney ==
    \A e, f \in Enrolments :
        enrolment[e] = "converted" /\ enrolment[f] = "converted" /\ e # f => {e, f} \cap raced # {}
=============================================================================
