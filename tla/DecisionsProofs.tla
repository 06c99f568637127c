--------------------------- MODULE DecisionsProofs ---------------------------
(***************************************************************************)
(* Theorems of the decisions: admissions, the bursary fund, refunds and    *)
(* the statutory return, for any number of calls in flight, and of the run *)
(* that puts the four together.                                            *)
(***************************************************************************)
EXTENDS MCDecisions, SumTheorems

-----------------------------------------------------------------------------
(* Admissions.                                                              *)

USE AdmissionsAssumption
    DEF AdmissionsAssumption, ValidTransitions, ApplicationStatuses, enrolments

Stepping == [op : {"evaluate", "promote", "student", "search", "enrol"}, stale : BOOLEAN]
Writing == [op : {"write"}, to : ApplicationStatuses, promotion : BOOLEAN, stale : BOOLEAN]

\* What each call does next is one of the steps of its handler, or nothing.
LEMMA DoingTyped ==
    ASSUME AdmissionsTypeOK, NEW c \in Handlers
    PROVE  /\ doing[c] \in {AtRest} \cup Stepping \cup Writing
           /\ doing[c].op = "write" => doing[c] \in Writing
           /\ doing[c].op \in {"evaluate", "promote", "student", "search", "enrol"} =>
                 doing[c] \in Stepping
           /\ doing[c].op \in {"idle", "evaluate", "promote", "student", "search", "enrol", "write"}
           /\ doing[c].op = "idle" <=> doing[c] = AtRest
<1>1. doing[c] \in {AtRest} \cup Stepping \cup Writing
  BY DEF AdmissionsTypeOK, Doing, Stepping, Writing
<1>2. QED
  BY <1>1 DEF AtRest, Stepping, Writing

\* A call that goes on to its next step leaves the others alone.
LEMMA GotoKeeps ==
    ASSUME AdmissionsTypeOK, NEW c \in Handlers, Goto(c, AtRest)
    PROVE  /\ doing' \in [Handlers -> {AtRest} \cup Doing]
           /\ doing'[c] = AtRest /\ \A d \in Handlers \ {c} : doing'[d] = doing[d]
  BY DEF Goto, AdmissionsTypeOK

LEMMA GotoStep ==
    ASSUME AdmissionsTypeOK, NEW c \in Handlers, NEW step \in Doing, Goto(c, step)
    PROVE  /\ doing' \in [Handlers -> {AtRest} \cup Doing]
           /\ doing'[c] = step /\ \A d \in Handlers \ {c} : doing'[d] = doing[d]
  BY DEF Goto, AdmissionsTypeOK

LEMMA StepsAreSteps ==
    /\ \A op \in {"evaluate", "promote", "student", "search", "enrol"} : At(op) \in Doing
    /\ \A to \in ApplicationStatuses, promotion \in BOOLEAN :
          [op |-> "write", to |-> to, promotion |-> promotion, stale |-> FALSE] \in Doing
  BY DEF At, Doing

\* Outdated calls go on as they were.
LEMMA OutdatedKeeps ==
    ASSUME AdmissionsTypeOK, NEW ops, "idle" \notin ops
    PROVE  /\ Outdated(ops) \in [Handlers -> {AtRest} \cup Doing]
           /\ \A d \in Handlers :
                 /\ Outdated(ops)[d].op = doing[d].op
                 /\ doing[d].op = "write" =>
                       /\ Outdated(ops)[d].to = doing[d].to
                       /\ Outdated(ops)[d].promotion = doing[d].promotion
                 /\ doing[d].op # "idle" =>
                       (Outdated(ops)[d].stale <=> doing[d].stale \/ doing[d].op \in ops)
<1>1. ASSUME NEW d \in Handlers, doing[d] # AtRest
      PROVE  LET held == [doing[d] EXCEPT !.stale = TRUE]
             IN  /\ held \in Doing /\ held.op = doing[d].op /\ held.stale
                 /\ doing[d].op = "write" =>
                       held.to = doing[d].to /\ held.promotion = doing[d].promotion
  <2>1. CASE doing[d] \in Stepping
    BY <2>1 DEF Stepping, Doing
  <2>2. CASE doing[d] \in Writing
    BY <2>2 DEF Writing, Doing
  <2>3. QED
    BY <1>1, <2>1, <2>2, DoingTyped
<1>2. ASSUME NEW d \in Handlers
      PROVE  Outdated(ops)[d] =
                IF doing[d].op \in ops THEN [doing[d] EXCEPT !.stale = TRUE] ELSE doing[d]
  BY DEF Outdated
<1>3. ASSUME NEW d \in Handlers, doing[d].op \in ops PROVE doing[d] # AtRest
  BY <1>3 DEF AtRest
<1>4. Outdated(ops) \in [Handlers -> {AtRest} \cup Doing]
  <2>1. \A d \in Handlers : Outdated(ops)[d] \in {AtRest} \cup Doing
    BY <1>1, <1>2, <1>3, ZenonT(40) DEF AdmissionsTypeOK
  <2>2. QED
    BY <2>1 DEF Outdated
<1>5. ASSUME NEW d \in Handlers
      PROVE  /\ Outdated(ops)[d].op = doing[d].op
             /\ doing[d].op = "write" =>
                   /\ Outdated(ops)[d].to = doing[d].to
                   /\ Outdated(ops)[d].promotion = doing[d].promotion
             /\ doing[d].op # "idle" =>
                   (Outdated(ops)[d].stale <=> doing[d].stale \/ doing[d].op \in ops)
  <2>1. CASE doing[d].op \in ops
    BY <1>1, <1>2, <1>3, <2>1
  <2>2. CASE doing[d].op \notin ops
    BY <1>2, <2>2
  <2>3. QED
    BY <2>1, <2>2
<1>6. QED
  BY <1>4, <1>5

\* A call that is done outdates others, and changes nothing else of them.
LEMMA OutdatingKeeps ==
    ASSUME AdmissionsTypeOK, NEW c \in Handlers, NEW ops, "idle" \notin ops,
           doing' = [Outdated(ops) EXCEPT ![c] = AtRest]
    PROVE  /\ doing' \in [Handlers -> {AtRest} \cup Doing]
           /\ doing'[c] = AtRest
           /\ \A d \in Handlers \ {c} :
                 /\ doing'[d].op = doing[d].op
                 /\ doing[d].op = "write" =>
                       doing'[d].to = doing[d].to /\ doing'[d].promotion = doing[d].promotion
                 /\ doing[d].op # "idle" =>
                       (doing'[d].stale <=> doing[d].stale \/ doing[d].op \in ops)
<1>1. Outdated(ops) \in [Handlers -> {AtRest} \cup Doing]
  BY OutdatedKeeps
<1>2. /\ doing' \in [Handlers -> {AtRest} \cup Doing] /\ doing'[c] = AtRest
      /\ \A d \in Handlers \ {c} : doing'[d] = Outdated(ops)[d]
  BY <1>1
<1>3. QED
  BY <1>2, OutdatedKeeps

(* The actions, by what each one is a case of: a call that goes on with its *)
(* next step, and the other writes.                                         *)
Condition(c) == \E k \in Conditions, s \in {"PENDING", "MET", "NOT_MET", "WAIVED", "DELETED"} :
                    Mutate(c, k, s)

LEMMA NextCases ==
    ASSUME AdmissionsNext
    PROVE  \/ \E c \in Handlers :
                \/ \E to \in ApplicationStatuses : BeginPatch(c, to)
                \/ WriteStatus(c) \/ Condition(c) \/ Evaluate(c) \/ Promote(c)
                \/ BeginConversion(c) \/ CreateStudent(c) \/ SearchEnrolment(c)
                \/ \E e \in Enrolments : CreateEnrolment(c, e)
                \/ Fail(c)
           \/ \E e \in Enrolments : PostEnrolment(e) \/ RemoveEnrolment(e)
           \/ PostStudent \/ RemoveStudent
<1>1. ASSUME NEW c \in Handlers, NEW k \in Conditions, NEW s \in ConditionStatuses,
             CreateCondition(c, k, s) \/ UpdateCondition(c, k, s)
      PROVE  Condition(c)
  BY <1>1 DEF CreateCondition, UpdateCondition, Condition
<1>2. ASSUME NEW c \in Handlers, NEW k \in Conditions, RemoveCondition(c, k)
      PROVE  Condition(c)
  BY <1>2 DEF RemoveCondition, Condition
<1>3. QED
  BY <1>1, <1>2 DEF AdmissionsNext

\* The rows, the calls in flight and the histories keep their type.
THEOREM AdmissionsTypeCorrect == AdmissionsSpec => []AdmissionsTypeOK
<1>1. AdmissionsInit => AdmissionsTypeOK
  BY DEF AdmissionsInit, AdmissionsTypeOK
<1>2. AdmissionsTypeOK /\ [AdmissionsNext]_admissionsVars => AdmissionsTypeOK'
  <2> SUFFICES ASSUME AdmissionsTypeOK, [AdmissionsNext]_admissionsVars PROVE AdmissionsTypeOK'
    OBVIOUS
  <2>1. ASSUME NEW c \in Handlers, NEW to \in ApplicationStatuses, BeginPatch(c, to)
        PROVE  AdmissionsTypeOK'
    <3>1. doing' \in [Handlers -> {AtRest} \cup Doing]
      BY <2>1, GotoStep, StepsAreSteps DEF BeginPatch
    <3>2. QED
      BY <2>1, <3>1 DEF BeginPatch, AdmissionsTypeOK
  <2>2. ASSUME NEW c \in Handlers, WriteStatus(c) PROVE AdmissionsTypeOK'
    <3>1. doing[c].to \in ApplicationStatuses
      BY <2>2, DoingTyped DEF WriteStatus, Writing
    <3>2. doing' \in [Handlers -> {AtRest} \cup Doing]
      BY <2>2, OutdatingKeeps DEF WriteStatus
    <3>3. QED
      BY <2>2, <3>1, <3>2 DEF WriteStatus, AdmissionsTypeOK
  <2>3. ASSUME NEW c \in Handlers, Condition(c) PROVE AdmissionsTypeOK'
    <3>1. doing' \in [Handlers -> {AtRest} \cup Doing]
      BY <2>3, GotoStep, StepsAreSteps DEF Condition, Mutate
    <3>2. QED
      BY <2>3, <3>1 DEF Condition, Mutate, AdmissionsTypeOK
  <2>4. ASSUME NEW c \in Handlers, Evaluate(c) PROVE AdmissionsTypeOK'
    <3>1. doing' \in [Handlers -> {AtRest} \cup Doing]
      BY <2>4, GotoKeeps, GotoStep, StepsAreSteps DEF Evaluate
    <3>2. QED
      BY <2>4, <3>1 DEF Evaluate, AdmissionsTypeOK
  <2>5. ASSUME NEW c \in Handlers, Promote(c) PROVE AdmissionsTypeOK'
    <3>1. doing' \in [Handlers -> {AtRest} \cup Doing]
      BY <2>5, GotoKeeps, GotoStep, StepsAreSteps DEF Promote
    <3>2. QED
      BY <2>5, <3>1 DEF Promote, AdmissionsTypeOK
  <2>6. ASSUME NEW c \in Handlers, BeginConversion(c) PROVE AdmissionsTypeOK'
    <3>1. doing' \in [Handlers -> {AtRest} \cup Doing]
      BY <2>6, GotoStep, StepsAreSteps DEF BeginConversion
    <3>2. QED
      BY <2>6, <3>1 DEF BeginConversion, AdmissionsTypeOK
  <2>7. ASSUME NEW c \in Handlers, CreateStudent(c) PROVE AdmissionsTypeOK'
    <3>1. doing' \in [Handlers -> {AtRest} \cup Doing]
      BY <2>7, GotoKeeps, GotoStep, StepsAreSteps DEF CreateStudent
    <3>2. QED
      BY <2>7, <3>1 DEF CreateStudent, AdmissionsTypeOK
  <2>8. ASSUME NEW c \in Handlers, SearchEnrolment(c) PROVE AdmissionsTypeOK'
    <3>1. doing' \in [Handlers -> {AtRest} \cup Doing]
      BY <2>8, GotoKeeps, GotoStep, StepsAreSteps DEF SearchEnrolment
    <3>2. QED
      BY <2>8, <3>1 DEF SearchEnrolment, AdmissionsTypeOK
  <2>9. ASSUME NEW c \in Handlers, NEW e \in Enrolments, CreateEnrolment(c, e)
        PROVE  AdmissionsTypeOK'
    <3>1. doing' \in [Handlers -> {AtRest} \cup Doing]
      BY <2>9, OutdatingKeeps DEF CreateEnrolment
    <3>2. QED
      BY <2>9, <3>1 DEF CreateEnrolment, AdmissionsTypeOK
  <2>10. ASSUME NEW c \in Handlers, Fail(c) PROVE AdmissionsTypeOK'
    <3>1. doing' \in [Handlers -> {AtRest} \cup Doing]
      BY <2>10, GotoKeeps DEF Fail
    <3>2. QED
      BY <2>10, <3>1 DEF Fail, AdmissionsTypeOK
  <2>11. ASSUME NEW e \in Enrolments, RemoveEnrolment(e) PROVE AdmissionsTypeOK'
    BY <2>11 DEF RemoveEnrolment, AdmissionsTypeOK
  <2>12. CASE PostStudent \/ RemoveStudent
    BY <2>12 DEF PostStudent, RemoveStudent, AdmissionsTypeOK
  <2>13. CASE UNCHANGED admissionsVars
    BY <2>13 DEF admissionsVars, AdmissionsTypeOK
  <2>14. ASSUME NEW e \in Enrolments, PostEnrolment(e) PROVE AdmissionsTypeOK'
    <3>1. doing' \in [Handlers -> {AtRest} \cup Doing]
      BY <2>14, OutdatedKeeps DEF PostEnrolment
    <3>2. QED
      BY <2>14, <3>1 DEF PostEnrolment, AdmissionsTypeOK
  <2>15. QED
    BY <2>1, <2>2, <2>3, <2>4, <2>5, <2>6, <2>7, <2>8, <2>9, <2>10, <2>11, <2>12, <2>13, <2>14,
       NextCases
<1>3. QED
  BY <1>1, <1>2, PTL DEF AdmissionsSpec
-----------------------------------------------------------------------------
(* What is known of the calls in flight: a status about to be written is    *)
(* the row's or one its graph allows, and a search that found nothing is    *)
(* still right, unless they are outdated; and while a conditional offer has *)
(* its conditions satisfied, some call is on its way to promote it.         *)
WritesAllowed ==
    \A c \in Handlers :
        doing[c].op = "write" /\ ~doing[c].stale =>
            doing[c].to = application \/ doing[c].to \in ValidTransitions[application]

PromotionsPromote ==
    \A c \in Handlers :
        doing[c].op = "write" /\ doing[c].promotion => doing[c].to = "UNCONDITIONAL_OFFER"

NoneEnrolled ==
    \A c \in Handlers :
        doing[c].op = "enrol" /\ ~doing[c].stale => \A e \in Enrolments : ~Enrolled(e)

Promoting(c) ==
    \/ doing[c].op \in {"evaluate", "promote"}
    \/ doing[c].op = "write" /\ doing[c].promotion

DuePromoted ==
    application = "CONDITIONAL_OFFER" /\ AllSatisfied(condition) /\ ~excused =>
        \E c \in Handlers : Promoting(c)

AdmissionsIInv == OneJourney /\ WritesAllowed /\ PromotionsPromote /\ NoneEnrolled /\ DuePromoted

\* A step that leaves application and enrolments alone, and in which one call that
\* was not promoting goes on with a step that is not a write or an enrolment.
LEMMA QuietStep ==
    ASSUME AdmissionsTypeOK, AdmissionsIInv, NEW c \in Handlers,
           doing'[c].op \in {"idle", "evaluate", "promote", "student", "search"},
           \A d \in Handlers \ {c} : doing'[d] = doing[d],
           UNCHANGED <<application, enrolment, raced>>
    PROVE  OneJourney' /\ WritesAllowed' /\ PromotionsPromote' /\ NoneEnrolled'
  BY DEF AdmissionsIInv, OneJourney, WritesAllowed, PromotionsPromote, NoneEnrolled, Enrolled

LEMMA StillDue ==
    ASSUME AdmissionsIInv, NEW c \in Handlers, ~Promoting(c),
           \A d \in Handlers \ {c} : doing'[d] = doing[d],
           UNCHANGED <<application, condition, excused>>
    PROVE  DuePromoted'
  BY DEF AdmissionsIInv, DuePromoted, Promoting, AllSatisfied, LiveConditions

LEMMA AdmissionsInvariantHolds == AdmissionsSpec => [](AdmissionsTypeOK /\ AdmissionsIInv)
<1>1. AdmissionsInit => AdmissionsIInv
  BY DEF AdmissionsInit, AdmissionsIInv, OneJourney, WritesAllowed, PromotionsPromote,
         NoneEnrolled, Enrolled, DuePromoted, AtRest
<1>2. AdmissionsTypeOK /\ AdmissionsIInv /\ [AdmissionsNext]_admissionsVars => AdmissionsIInv'
  <2> SUFFICES ASSUME AdmissionsTypeOK, AdmissionsIInv, [AdmissionsNext]_admissionsVars
               PROVE  AdmissionsIInv'
    OBVIOUS
  <2>1. ASSUME NEW c \in Handlers, NEW to \in ApplicationStatuses, BeginPatch(c, to)
        PROVE  AdmissionsIInv'
    <3>1. /\ doing'[c] = [op |-> "write", to |-> to, promotion |-> FALSE, stale |-> FALSE]
          /\ \A d \in Handlers \ {c} : doing'[d] = doing[d]
          /\ UNCHANGED <<application, condition, enrolment, excused, raced>>
      BY <2>1, GotoStep, StepsAreSteps DEF BeginPatch
    <3>2. Allowed(to) /\ ~Promoting(c)
      BY <2>1 DEF BeginPatch, Promoting, AtRest
    <3>3. OneJourney' /\ WritesAllowed' /\ PromotionsPromote' /\ NoneEnrolled'
      BY <3>1, <3>2 DEF AdmissionsIInv, OneJourney, WritesAllowed, PromotionsPromote,
                        NoneEnrolled, Enrolled, Allowed
    <3>4. QED
      BY <3>1, <3>2, <3>3, StillDue DEF AdmissionsIInv
  <2>2. ASSUME NEW c \in Handlers, WriteStatus(c) PROVE AdmissionsIInv'
    <3> DEFINE ops == IF application' = application THEN {} ELSE {"write"}
    <3>1. /\ doing[c].op = "write" /\ doing[c].to \in ApplicationStatuses
          /\ application' = doing[c].to
          /\ UNCHANGED <<condition, enrolment, raced>>
      BY <2>2, DoingTyped DEF WriteStatus, Writing
    <3>2. /\ doing'[c] = AtRest
          /\ \A d \in Handlers \ {c} :
                /\ doing'[d].op = doing[d].op
                /\ doing[d].op = "write" =>
                      doing'[d].to = doing[d].to /\ doing'[d].promotion = doing[d].promotion
                /\ doing[d].op # "idle" =>
                      (doing'[d].stale <=> doing[d].stale \/ doing[d].op \in ops)
      BY <2>2, OutdatingKeeps DEF WriteStatus
    <3>3. OneJourney' /\ PromotionsPromote' /\ NoneEnrolled'
      BY <3>1, <3>2 DEF AdmissionsIInv, OneJourney, PromotionsPromote, NoneEnrolled, Enrolled, AtRest
    <3>4. WritesAllowed'
      <4>1. CASE application' = application
        BY <3>2, <4>1 DEF AdmissionsIInv, WritesAllowed, AtRest
      <4>2. CASE application' # application
        BY <3>2, <4>2 DEF WritesAllowed, AtRest
      <4>3. QED
        BY <4>1, <4>2
    <3>5. DuePromoted'
      <4> SUFFICES ASSUME doing[c].to = "CONDITIONAL_OFFER", AllSatisfied(condition), ~excused'
                   PROVE  \E d \in Handlers : Promoting(d)'
        BY <3>1 DEF DuePromoted, AllSatisfied, LiveConditions
      <4>1. application = "CONDITIONAL_OFFER" /\ ~excused
        BY <2>2 DEF WriteStatus
      <4>2. PICK d \in Handlers : Promoting(d)
        BY <4>1 DEF AdmissionsIInv, DuePromoted
      <4>3. d # c
        BY <3>1, <4>2 DEF AdmissionsIInv, PromotionsPromote, Promoting
      <4>4. Promoting(d)'
        BY <3>2, <4>2, <4>3 DEF Promoting
      <4>5. QED
        BY <4>4
    <3>6. QED
      BY <3>3, <3>4, <3>5 DEF AdmissionsIInv
  <2>3. ASSUME NEW c \in Handlers, Condition(c) PROVE AdmissionsIInv'
    <3>1. /\ doing'[c] = At("evaluate") /\ \A d \in Handlers \ {c} : doing'[d] = doing[d]
          /\ UNCHANGED <<application, enrolment, raced>>
      BY <2>3, GotoStep, StepsAreSteps DEF Condition, Mutate
    <3>2. OneJourney' /\ WritesAllowed' /\ PromotionsPromote' /\ NoneEnrolled'
      BY <3>1, QuietStep DEF At
    <3>3. Promoting(c)'
      BY <3>1 DEF Promoting, At
    <3>4. QED
      BY <3>2, <3>3 DEF AdmissionsIInv, DuePromoted
  <2>4. ASSUME NEW c \in Handlers, Evaluate(c) PROVE AdmissionsIInv'
    <3>1. /\ doing'[c] = IF application = "CONDITIONAL_OFFER" /\ AllSatisfied(condition)
                         THEN At("promote") ELSE AtRest
          /\ \A d \in Handlers \ {c} : doing'[d] = doing[d]
          /\ UNCHANGED <<application, condition, enrolment, excused, raced>>
      BY <2>4, GotoKeeps, GotoStep, StepsAreSteps DEF Evaluate
    <3>2. OneJourney' /\ WritesAllowed' /\ PromotionsPromote' /\ NoneEnrolled'
      BY <3>1, QuietStep DEF At, AtRest
    <3>3. application = "CONDITIONAL_OFFER" /\ AllSatisfied(condition) => Promoting(c)'
      BY <3>1 DEF Promoting, At
    <3>4. DuePromoted'
      BY <3>1, <3>3 DEF DuePromoted, AllSatisfied, LiveConditions
    <3>5. QED
      BY <3>2, <3>4 DEF AdmissionsIInv
  <2>5. ASSUME NEW c \in Handlers, Promote(c) PROVE AdmissionsIInv'
    <3> DEFINE write == [op |-> "write", to |-> "UNCONDITIONAL_OFFER", promotion |-> TRUE,
                         stale |-> FALSE]
    <3>1. /\ doing'[c] = IF Allowed("UNCONDITIONAL_OFFER") THEN write ELSE AtRest
          /\ \A d \in Handlers \ {c} : doing'[d] = doing[d]
          /\ UNCHANGED <<application, condition, enrolment, excused, raced>>
      BY <2>5, GotoKeeps, GotoStep, StepsAreSteps DEF Promote
    <3>2. OneJourney' /\ WritesAllowed' /\ PromotionsPromote' /\ NoneEnrolled'
      BY <3>1 DEF AdmissionsIInv, OneJourney, WritesAllowed, PromotionsPromote, NoneEnrolled,
                  Enrolled, Allowed, AtRest
    <3>3. application = "CONDITIONAL_OFFER" => Allowed("UNCONDITIONAL_OFFER")
      BY DEF Allowed
    <3>4. application = "CONDITIONAL_OFFER" => Promoting(c)'
      BY <3>1, <3>3 DEF Promoting
    <3>5. DuePromoted'
      BY <3>1, <3>4 DEF DuePromoted
    <3>6. QED
      BY <3>2, <3>5 DEF AdmissionsIInv
  <2>6. ASSUME NEW c \in Handlers, BeginConversion(c) \/ CreateStudent(c) PROVE AdmissionsIInv'
    <3>1. /\ doing'[c].op \in {"idle", "student", "search"}
          /\ \A d \in Handlers \ {c} : doing'[d] = doing[d]
      <4>1. CASE BeginConversion(c)
        <5> DEFINE step == At(IF student = "live" THEN "search" ELSE "student")
        <5>1. step \in Doing /\ step.op \in {"student", "search"}
          BY DEF At, Doing
        <5>2. Goto(c, step)
          BY <4>1 DEF BeginConversion
        <5> HIDE DEF step
        <5>3. doing'[c] = step /\ \A d \in Handlers \ {c} : doing'[d] = doing[d]
          BY <5>1, <5>2, GotoStep
        <5>4. QED
          BY <5>1, <5>3
      <4>2. CASE CreateStudent(c)
        BY <4>2, GotoKeeps, GotoStep, StepsAreSteps DEF CreateStudent, At, AtRest
      <4>3. QED
        BY <2>6, <4>1, <4>2
    <3>2. ~Promoting(c) /\ UNCHANGED <<application, condition, enrolment, excused, raced>>
      BY <2>6 DEF BeginConversion, CreateStudent, Promoting, AtRest
    <3>3. QED
      BY <3>1, <3>2, QuietStep, StillDue DEF AdmissionsIInv
  <2>7. ASSUME NEW c \in Handlers, SearchEnrolment(c) PROVE AdmissionsIInv'
    <3>1. /\ doing'[c] = IF FoundForJourney THEN AtRest ELSE At("enrol")
          /\ \A d \in Handlers \ {c} : doing'[d] = doing[d]
          /\ UNCHANGED <<application, condition, enrolment, excused, raced>> /\ ~Promoting(c)
      BY <2>7, GotoKeeps, GotoStep, StepsAreSteps DEF SearchEnrolment, Promoting
    <3>2. OneJourney' /\ WritesAllowed' /\ PromotionsPromote' /\ NoneEnrolled'
      BY <3>1 DEF AdmissionsIInv, OneJourney, WritesAllowed, PromotionsPromote, NoneEnrolled,
                  Enrolled, FoundForJourney, At, AtRest
    <3>3. QED
      BY <3>1, <3>2, StillDue DEF AdmissionsIInv
  <2>8. ASSUME NEW c \in Handlers, NEW e \in Enrolments, CreateEnrolment(c, e)
        PROVE  AdmissionsIInv'
    <3>0. doing' = [Outdated({"enrol"}) EXCEPT ![c] = AtRest] /\ "idle" \notin {"enrol"}
      BY <2>8 DEF CreateEnrolment
    <3>1. /\ doing'[c] = AtRest
          /\ \A d \in Handlers \ {c} :
                /\ doing'[d].op = doing[d].op
                /\ doing[d].op = "write" =>
                      doing'[d].to = doing[d].to /\ doing'[d].promotion = doing[d].promotion
                /\ doing[d].op # "idle" =>
                      (doing'[d].stale <=> doing[d].stale \/ doing[d].op \in {"enrol"})
      BY ONLY <3>0, OutdatingKeeps, AdmissionsTypeOK
    <3>2. /\ \A f \in Enrolments \ {e} : enrolment'[f] = enrolment[f]
          /\ doing[c].stale => e \in raced'
          /\ raced \subseteq raced'
          /\ doing[c].op = "enrol"
          /\ UNCHANGED <<application, condition, excused>>
      BY <2>8 DEF CreateEnrolment, AdmissionsTypeOK
    <3>3. OneJourney'
      BY <3>2 DEF AdmissionsIInv, OneJourney, NoneEnrolled, Enrolled
    <3>4. WritesAllowed' /\ PromotionsPromote'
      BY <3>1, <3>2 DEF AdmissionsIInv, WritesAllowed, PromotionsPromote, AtRest
    <3>5. NoneEnrolled'
      <4>1. ASSUME NEW d \in Handlers, doing'[d].op = "enrol" PROVE doing'[d].stale
        BY <3>1, <4>1 DEF AtRest
      <4>2. QED
        BY <4>1 DEF NoneEnrolled, Enrolled
    <3>6. DuePromoted'
      <4>1. \A d \in Handlers : Promoting(d) => Promoting(d)'
        BY <3>1, <3>2 DEF Promoting
      <4>2. QED
        BY <3>2, <4>1 DEF AdmissionsIInv, DuePromoted, AllSatisfied, LiveConditions
    <3>7. QED
      BY <3>3, <3>4, <3>5, <3>6 DEF AdmissionsIInv
  <2>9. ASSUME NEW c \in Handlers, Fail(c) PROVE AdmissionsIInv'
    <3>1. /\ doing'[c] = AtRest /\ \A d \in Handlers \ {c} : doing'[d] = doing[d]
          /\ UNCHANGED <<application, condition, enrolment, raced>>
          /\ excused' <=> excused \/ Promoting(c)
      BY <2>9, GotoKeeps DEF Fail, Promoting
    <3>2. OneJourney' /\ WritesAllowed' /\ PromotionsPromote' /\ NoneEnrolled'
      BY <3>1, QuietStep DEF AtRest
    <3>3. DuePromoted'
      <4>1. CASE Promoting(c)
        BY <3>1, <4>1 DEF DuePromoted
      <4>2. CASE ~Promoting(c)
        BY <3>1, <4>2 DEF AdmissionsIInv, DuePromoted, Promoting, AllSatisfied, LiveConditions
      <4>3. QED
        BY <4>1, <4>2
    <3>4. QED
      BY <3>2, <3>3 DEF AdmissionsIInv
  <2>10. ASSUME NEW e \in Enrolments, RemoveEnrolment(e) PROVE AdmissionsIInv'
    <3>1. /\ enrolment'[e] = "deleted" /\ \A f \in Enrolments \ {e} : enrolment'[f] = enrolment[f]
          /\ raced' = raced \ {e}
          /\ UNCHANGED <<application, condition, doing, excused>>
      BY <2>10 DEF RemoveEnrolment, AdmissionsTypeOK
    <3>2. OneJourney' /\ WritesAllowed' /\ PromotionsPromote' /\ NoneEnrolled'
      BY <3>1 DEF AdmissionsIInv, OneJourney, WritesAllowed, PromotionsPromote, NoneEnrolled,
                  Enrolled
    <3>3. DuePromoted'
      BY <3>1 DEF AdmissionsIInv, DuePromoted, Promoting, AllSatisfied, LiveConditions
    <3>4. QED
      BY <3>2, <3>3 DEF AdmissionsIInv
  <2>11. CASE PostStudent \/ RemoveStudent \/ UNCHANGED admissionsVars
    <3>1. UNCHANGED <<application, condition, enrolment, doing, excused, raced>>
      BY <2>11 DEF PostStudent, RemoveStudent, admissionsVars
    <3>2. QED
      BY <3>1 DEF AdmissionsIInv, OneJourney, WritesAllowed, PromotionsPromote, NoneEnrolled,
                  Enrolled, DuePromoted, Promoting, AllSatisfied, LiveConditions
  <2>12. ASSUME NEW e \in Enrolments, PostEnrolment(e) PROVE AdmissionsIInv'
    <3>1. \A d \in Handlers :
             /\ doing'[d].op = doing[d].op
             /\ doing[d].op = "write" =>
                   doing'[d].to = doing[d].to /\ doing'[d].promotion = doing[d].promotion
             /\ doing[d].op # "idle" =>
                   (doing'[d].stale <=> doing[d].stale \/ doing[d].op = "enrol")
      BY <2>12, OutdatedKeeps DEF PostEnrolment
    <3>2. /\ enrolment'[e] = "posted" /\ \A f \in Enrolments \ {e} : enrolment'[f] = enrolment[f]
          /\ UNCHANGED <<application, condition, excused, raced>>
      BY <2>12 DEF PostEnrolment, AdmissionsTypeOK
    <3>3. OneJourney'
      BY <3>2 DEF AdmissionsIInv, OneJourney
    <3>4. WritesAllowed' /\ PromotionsPromote'
      BY <3>1, <3>2 DEF AdmissionsIInv, WritesAllowed, PromotionsPromote
    <3>5. NoneEnrolled'
      BY <3>1 DEF NoneEnrolled
    <3>6. DuePromoted'
      <4>1. \A d \in Handlers : Promoting(d) => Promoting(d)'
        BY <3>1 DEF Promoting
      <4>2. QED
        BY <3>2, <4>1 DEF AdmissionsIInv, DuePromoted, AllSatisfied, LiveConditions
    <3>7. QED
      BY <3>3, <3>4, <3>5, <3>6 DEF AdmissionsIInv
  <2>13. QED
    BY <2>1, <2>2, <2>3, <2>4, <2>5, <2>6, <2>7, <2>8, <2>9, <2>10, <2>11, <2>12, NextCases
<1>3. QED
  BY <1>1, <1>2, AdmissionsTypeCorrect, PTL DEF AdmissionsSpec

\* Once the calls are done, an offer with its conditions satisfied is not conditional
\* any more, but for the excused cases, whichever call satisfied the last condition.
THEOREM SatisfiedIsPromotedHolds == AdmissionsSpec => []SatisfiedIsPromoted
<1>1. AdmissionsIInv => SatisfiedIsPromoted
  BY DEF AdmissionsIInv, DuePromoted, Promoting, SatisfiedIsPromoted
<1>2. QED
  BY <1>1, AdmissionsInvariantHolds, PTL

\* However often conversions are repeated or cut short, and whatever is posted or
\* deleted in between, all but one of the live enrolments they have made come from a
\* search that another enrolment had outdated.
THEOREM OneJourneyHolds == AdmissionsSpec => []OneJourney
<1>1. AdmissionsIInv => OneJourney
  BY DEF AdmissionsIInv
<1>2. QED
  BY <1>1, AdmissionsInvariantHolds, PTL

\* Only the write of a call that had checked an earlier status reopens an application
\* that is declined, withdrawn or rejected.
THEOREM TerminalStandsHolds == AdmissionsSpec => TerminalStands
<1> DEFINE Outrun == \E c \in Handlers :
                        doing[c].op = "write" /\ doing[c].stale /\ doing'[c] = AtRest
           Stands == application \in Final /\ application' # application => Outrun
<1>1. AdmissionsTypeOK /\ AdmissionsIInv /\ [AdmissionsNext]_admissionsVars
        => [Stands]_admissionsVars
  <2> SUFFICES ASSUME AdmissionsTypeOK, AdmissionsIInv, AdmissionsNext, application \in Final,
                      application' # application
               PROVE  Outrun
    OBVIOUS
  <2>1. PICK c \in Handlers : WriteStatus(c)
    BY NextCases
    DEF BeginPatch, Condition, Mutate, Evaluate, Promote, BeginConversion, CreateStudent,
        SearchEnrolment, CreateEnrolment, Fail, PostEnrolment, RemoveEnrolment, PostStudent,
        RemoveStudent
  <2>2. ValidTransitions[application] = {}
    BY DEF Final
  <2>3. doing[c].op = "write" /\ doing[c].to # application
    BY <2>1 DEF WriteStatus
  <2>4. doing[c].stale
    BY <2>2, <2>3 DEF AdmissionsIInv, WritesAllowed
  <2>5. doing'[c] = AtRest
    BY <2>1, OutdatingKeeps DEF WriteStatus
  <2>6. QED
    BY <2>3, <2>4, <2>5
<1>2. QED
  BY <1>1, AdmissionsInvariantHolds, PTL DEF AdmissionsSpec, TerminalStands

HIDE AdmissionsAssumption
    DEF AdmissionsAssumption, ValidTransitions, ApplicationStatuses, enrolments
-----------------------------------------------------------------------------
(* The bursary fund.                                                        *)

USE BursaryAssumption DEF BursaryAssumption, BursaryStatuses, Decisions

AwardRow == [status : BursaryStatuses \cup {"ABSENT", "DELETED"}, amount : Nat]

\* What each call holds is a decision on an application, or nothing.
LEMMA DecidingIsADecision ==
    ASSUME BursaryTypeOK, NEW c \in BursaryCalls, deciding[c] # NotDeciding
    PROVE  /\ deciding[c] \in Deciding
           /\ deciding[c].app \in Applications /\ deciding[c].decision \in Decisions
           /\ deciding[c].suggested \in Nat /\ deciding[c].prior \in Nat
           /\ deciding[c].from \in BursaryStatuses
  BY DEF BursaryTypeOK, Deciding

\* A decision that is outdated is a decision still ...
LEMMA OutdateIsTyped ==
    ASSUME BursaryTypeOK, NEW calls, NEW a \in Applications
    PROVE  Outdate(calls, a) \in [BursaryCalls -> {NotDeciding} \cup Deciding]
<1>1. ASSUME NEW b \in BursaryCalls, deciding[b] # NotDeciding
      PROVE  [deciding[b] EXCEPT !.stale = @ \/ deciding[b].app = a] \in Deciding
  <2>1. deciding[b] \in Deciding
    BY <1>1, DecidingIsADecision
  <2>2. QED
    BY <2>1 DEF Deciding
<1>2. QED
  BY <1>1 DEF Outdate, BursaryTypeOK

\* ... and the same one; no call gets or loses one.
LEMMA OutdateKeeps ==
    ASSUME BursaryTypeOK, NEW calls, NEW a \in Applications, NEW c \in BursaryCalls
    PROVE  /\ Outdate(calls, a)[c] = NotDeciding <=> deciding[c] = NotDeciding
           /\ deciding[c] # NotDeciding =>
                 /\ Outdate(calls, a)[c].app = deciding[c].app
                 /\ Outdate(calls, a)[c].from = deciding[c].from
                 /\ Outdate(calls, a)[c].prior = deciding[c].prior
                 /\ Outdate(calls, a)[c].suggested = deciding[c].suggested
                 /\ Outdate(calls, a)[c].stale <=>
                       deciding[c].stale \/ (c \in calls /\ deciding[c].app = a)
<1>1. CASE deciding[c] = NotDeciding
  BY <1>1 DEF Outdate
<1>2. CASE deciding[c] # NotDeciding
  <2>1. deciding[c] \in Deciding
    BY <1>2, DecidingIsADecision
  <2>2. CASE c \in calls
    BY <1>2, <2>1, <2>2 DEF Outdate, Deciding, NotDeciding
  <2>3. CASE c \notin calls
    BY <1>2, <2>1, <2>3 DEF Outdate, Deciding
  <2>4. QED
    BY <2>2, <2>3
<1>3. QED
  BY <1>1, <1>2

\* The award suggested is at most what remains, and never negative.
LEMMA SuggestedFits ==
    ASSUME fund \in [allocated : Int, remaining : Int], NEW cap \in Nat
    PROVE  /\ Suggested(cap) \in Nat /\ Suggested(cap) <= cap
           /\ Suggested(cap) > 0 => Suggested(cap) <= fund.remaining
  BY DEF Suggested

\* Whatever is decided, the row it leaves is a row again.
LEMMA DecidedIsARow ==
    ASSUME NEW row \in AwardRow, NEW d \in Deciding
    PROVE  Decided(row, d) \in AwardRow /\ BudgetChange(d) \in Int
<1>1. CASE d.decision = "APPROVE"
  BY <1>1 DEF Decided, BudgetChange, AwardRow, Deciding
<1>2. CASE d.decision = "REJECT"
  BY <1>2 DEF Decided, BudgetChange, AwardRow, Deciding
<1>3. CASE d.decision = "REVIEW"
  BY <1>3 DEF Decided, BudgetChange, AwardRow, Deciding
<1>4. QED
  BY <1>1, <1>2, <1>3 DEF Deciding

\* The rows, the fund, the decisions in flight and the histories keep their type.
THEOREM BursaryTypeCorrect == BursarySpec => []BursaryTypeOK
<1>1. BursaryInit => BursaryTypeOK
  BY DEF BursaryInit, BursaryTypeOK
<1>2. BursaryTypeOK /\ [BursaryNext]_bursaryVars => BursaryTypeOK'
  <2> SUFFICES ASSUME BursaryTypeOK, [BursaryNext]_bursaryVars PROVE BursaryTypeOK'
    OBVIOUS
  <2>1. ASSUME NEW c \in BursaryCalls, NEW a \in Applications, NEW force \in BOOLEAN,
               BeginDecision(c, a, force)
        PROVE  BursaryTypeOK'
    <3>1. PICK wish \in Decisions, cap \in AwardCaps :
            deciding' = [deciding EXCEPT ![c] =
              [op |-> "deciding", app |-> a, decision |-> Decision(wish, cap),
               suggested |-> IF Decision(wish, cap) = "APPROVE" THEN Suggested(cap) ELSE 0,
               from |-> award[a].status, prior |-> award[a].amount, stale |-> FALSE]]
      BY <2>1 DEF BeginDecision
    <3>2. Decision(wish, cap) \in Decisions
      BY DEF Decision
    <3>3. Suggested(cap) \in Nat
      BY SuggestedFits DEF BursaryTypeOK
    <3>4. award[a].status \in BursaryStatuses /\ award[a].amount \in Nat
      BY <2>1 DEF BeginDecision, Existing, BursaryTypeOK
    <3>5. deciding' \in [BursaryCalls -> {NotDeciding} \cup Deciding]
      BY <3>1, <3>2, <3>3, <3>4 DEF Deciding, BursaryTypeOK
    <3>6. QED
      BY <2>1, <3>5 DEF BeginDecision, BursaryTypeOK
  <2>2. ASSUME NEW c \in BursaryCalls, CommitDecision(c) PROVE BursaryTypeOK'
    <3> DEFINE d == deciding[c]
    <3>1. d \in Deciding /\ d.app \in Applications
      BY <2>2, DecidingIsADecision DEF CommitDecision
    <3>2. deciding' \in [BursaryCalls -> {NotDeciding} \cup Deciding]
      BY <2>2, <3>1, OutdateIsTyped DEF CommitDecision
    <3>3. Decided(award[d.app], d) \in AwardRow /\ BudgetChange(d) \in Int
      BY <3>1, DecidedIsARow DEF BursaryTypeOK, AwardRow
    <3>4. award' \in [Applications -> AwardRow]
      BY <2>2, <3>1, <3>3 DEF CommitDecision, BursaryTypeOK, AwardRow
    <3>5. fund' \in [allocated : Int, remaining : Int]
      BY <2>2, <3>3 DEF CommitDecision, BursaryTypeOK
    <3>6. reserved' \in [Applications -> Int]
      BY <2>2, <3>1, <3>3 DEF CommitDecision, BursaryTypeOK
    <3>7. parted' \subseteq Applications
      BY <2>2, <3>1 DEF CommitDecision, BursaryTypeOK
    <3>8. QED
      BY <3>2, <3>4, <3>5, <3>6, <3>7 DEF BursaryTypeOK, AwardRow
  <2>3. ASSUME NEW c \in BursaryCalls, LoseDecision(c) PROVE BursaryTypeOK'
    BY <2>3 DEF LoseDecision, BursaryTypeOK
  <2>4. ASSUME NEW a \in Applications, NEW s \in OverrideStatuses,
               NEW amount \in AwardCaps \cup {0}, OverrideDecision(a, s, amount)
        PROVE  BursaryTypeOK'
    <3>1. deciding' \in [BursaryCalls -> {NotDeciding} \cup Deciding]
      BY <2>4, OutdateIsTyped DEF OverrideDecision
    <3>2. QED
      BY <2>4, <3>1 DEF OverrideDecision, BursaryTypeOK
  <2>5. ASSUME NEW a \in Applications, RemoveApplication(a) PROVE BursaryTypeOK'
    <3>1. deciding' \in [BursaryCalls -> {NotDeciding} \cup Deciding]
      BY <2>5, OutdateIsTyped DEF RemoveApplication
    <3>2. QED
      BY <2>5, <3>1 DEF RemoveApplication, BursaryTypeOK
  <2>6. ASSUME NEW a \in Applications, PostApplication(a) PROVE BursaryTypeOK'
    BY <2>6 DEF PostApplication, BursaryTypeOK
  <2>7. CASE UNCHANGED bursaryVars
    BY <2>7 DEF bursaryVars, BursaryTypeOK
  <2>8. QED
    BY <2>1, <2>2, <2>3, <2>4, <2>5, <2>6, <2>7 DEF BursaryNext
<1>3. QED
  BY <1>1, <1>2, PTL DEF BursarySpec
-----------------------------------------------------------------------------
\* A decision that nothing has outdated still knows the row it was taken on.
DecidingIsCurrent ==
    \A c \in BursaryCalls :
        LET d == deciding[c]
        IN  d # NotDeciding /\ ~d.stale =>
              d.from = award[d.app].status /\ d.prior = award[d.app].amount

\* The arithmetic of one decision: what is reserved follows the award on the row.
LEMMA DecisionBalances ==
    ASSUME NEW row \in AwardRow, NEW d \in Deciding, NEW held \in Int,
           held = row.amount, d.from = row.status, d.prior = row.amount, ~Parts(d)
    PROVE  held + BudgetChange(d) = Decided(row, d).amount
<1>1. CASE d.decision = "APPROVE"
  BY <1>1 DEF Decided, BudgetChange, AwardRow, Deciding
<1>2. CASE d.decision = "REJECT"
  BY <1>2 DEF Decided, BudgetChange, AwardRow, Deciding, Parts
<1>3. CASE d.decision = "REVIEW"
  BY <1>3 DEF Decided, BudgetChange, AwardRow, Deciding, Parts
<1>4. QED
  BY <1>1, <1>2, <1>3 DEF Deciding

\* The fund has reserved for an application exactly the award on its row, unless
\* the row has parted from the fund, whatever decisions race on it and on others.
THEOREM AwardsAreReservedHolds == BursarySpec => []AwardsAreReserved
<1> DEFINE Inv == AwardsAreReserved /\ DecidingIsCurrent
<1>1. BursaryInit => Inv
  BY DEF BursaryInit, AwardsAreReserved, DecidingIsCurrent
<1>2. BursaryTypeOK /\ Inv /\ [BursaryNext]_bursaryVars => Inv'
  <2> SUFFICES ASSUME BursaryTypeOK, Inv, [BursaryNext]_bursaryVars
               PROVE  AwardsAreReserved' /\ DecidingIsCurrent'
    OBVIOUS
  <2>1. ASSUME NEW b \in BursaryCalls, NEW a \in Applications, NEW force \in BOOLEAN,
               BeginDecision(b, a, force)
        PROVE  AwardsAreReserved' /\ DecidingIsCurrent'
    <3>1. /\ deciding'[b].app = a /\ deciding'[b].from = award[a].status
          /\ deciding'[b].prior = award[a].amount
          /\ \A c \in BursaryCalls \ {b} : deciding'[c] = deciding[c]
          /\ UNCHANGED <<award, reserved, parted>>
      BY <2>1 DEF BeginDecision, BursaryTypeOK
    <3>2. QED
      BY <3>1 DEF AwardsAreReserved, DecidingIsCurrent
  <2>2. ASSUME NEW b \in BursaryCalls, CommitDecision(b)
        PROVE  AwardsAreReserved' /\ DecidingIsCurrent'
    <3> DEFINE d == deciding[b]
               g == d.app
    <3>1. d \in Deciding /\ g \in Applications /\ d # NotDeciding
      BY <2>2, DecidingIsADecision DEF CommitDecision
    <3>2. /\ award' = [award EXCEPT ![g] = Decided(@, d)]
          /\ parted' = IF d.stale \/ Parts(d) THEN parted \cup {g} ELSE parted
          /\ reserved' = [reserved EXCEPT ![g] =
                            IF g \in parted' THEN 0 ELSE @ + BudgetChange(d)]
          /\ deciding' = [Outdate(BursaryCalls \ {b}, g) EXCEPT ![b] = NotDeciding]
      BY <2>2 DEF CommitDecision
    <3>3. ASSUME NEW a \in Applications, a \notin parted' PROVE reserved'[a] = award'[a].amount
      <4>1. a \notin parted /\ reserved[a] = award[a].amount
        BY <3>2, <3>3 DEF AwardsAreReserved
      <4>2. CASE a # g
        BY <3>1, <3>2, <4>1, <4>2 DEF BursaryTypeOK
      <4>3. CASE a = g
        <5>1. ~d.stale /\ ~Parts(d)
          BY <3>2, <3>3, <4>3
        <5>2. d.from = award[g].status /\ d.prior = award[g].amount
          BY <3>1, <5>1 DEF DecidingIsCurrent
        <5>3. award[g] \in AwardRow /\ reserved[g] \in Int
          BY <3>1 DEF BursaryTypeOK, AwardRow
        <5>4. reserved[g] + BudgetChange(d) = Decided(award[g], d).amount
          BY <3>1, <4>1, <4>3, <5>1, <5>2, <5>3, DecisionBalances
        <5>5. reserved'[g] = reserved[g] + BudgetChange(d)
          BY <3>1, <3>2, <3>3, <4>3 DEF BursaryTypeOK
        <5>6. award'[g] = Decided(award[g], d)
          BY <3>1, <3>2 DEF BursaryTypeOK
        <5>7. QED
          BY <4>3, <5>4, <5>5, <5>6
      <4>4. QED
        BY <4>2, <4>3
    <3>4. ASSUME NEW c \in BursaryCalls, deciding'[c] # NotDeciding, ~deciding'[c].stale
          PROVE  /\ deciding'[c].from = award'[deciding'[c].app].status
                 /\ deciding'[c].prior = award'[deciding'[c].app].amount
      <4>1. c # b /\ deciding'[c] = Outdate(BursaryCalls \ {b}, g)[c]
        BY <3>1, <3>2, <3>4, OutdateIsTyped
      <4>2. /\ deciding[c] # NotDeciding /\ ~deciding[c].stale /\ deciding[c].app # g
            /\ deciding'[c].app = deciding[c].app /\ deciding'[c].from = deciding[c].from
            /\ deciding'[c].prior = deciding[c].prior
        BY <3>1, <3>4, <4>1, OutdateKeeps
      <4>3. award'[deciding[c].app] = award[deciding[c].app]
        BY <3>1, <3>2, <4>2, DecidingIsADecision DEF BursaryTypeOK
      <4>4. QED
        BY <4>2, <4>3 DEF DecidingIsCurrent
    <3>5. QED
      BY <3>3, <3>4 DEF AwardsAreReserved, DecidingIsCurrent
  <2>3. ASSUME NEW b \in BursaryCalls, LoseDecision(b)
        PROVE  AwardsAreReserved' /\ DecidingIsCurrent'
    <3>1. \A c \in BursaryCalls : deciding'[c] # NotDeciding => deciding'[c] = deciding[c]
      BY <2>3 DEF LoseDecision, BursaryTypeOK
    <3>2. QED
      BY <2>3, <3>1 DEF LoseDecision, AwardsAreReserved, DecidingIsCurrent
  <2>4. ASSUME NEW a \in Applications, NEW row, deciding' = Outdate(BursaryCalls, a),
               award' = [award EXCEPT ![a] = row],
               parted' = parted \/ parted' = parted \cup {a},
               reserved' = [reserved EXCEPT ![a] = IF a \in parted' THEN 0 ELSE @],
               a \in parted' \/ row.amount = award[a].amount
        PROVE  AwardsAreReserved' /\ DecidingIsCurrent'
    <3>1. AwardsAreReserved'
      BY <2>4 DEF AwardsAreReserved, BursaryTypeOK
    <3>2. ASSUME NEW c \in BursaryCalls, deciding'[c] # NotDeciding, ~deciding'[c].stale
          PROVE  /\ deciding'[c].from = award'[deciding'[c].app].status
                 /\ deciding'[c].prior = award'[deciding'[c].app].amount
      <4>1. /\ deciding[c] # NotDeciding /\ ~deciding[c].stale /\ deciding[c].app # a
            /\ deciding'[c].app = deciding[c].app /\ deciding'[c].from = deciding[c].from
            /\ deciding'[c].prior = deciding[c].prior
        BY <2>4, <3>2, OutdateKeeps
      <4>2. award'[deciding[c].app] = award[deciding[c].app]
        BY <2>4, <4>1, DecidingIsADecision DEF BursaryTypeOK
      <4>3. QED
        BY <4>1, <4>2 DEF DecidingIsCurrent
    <3>3. QED
      BY <3>1, <3>2 DEF DecidingIsCurrent
  <2>5. ASSUME NEW a \in Applications, NEW s \in OverrideStatuses,
               NEW amount \in AwardCaps \cup {0}, OverrideDecision(a, s, amount)
        PROVE  AwardsAreReserved' /\ DecidingIsCurrent'
    BY <2>4, <2>5 DEF OverrideDecision
  <2>6. ASSUME NEW a \in Applications, RemoveApplication(a)
        PROVE  AwardsAreReserved' /\ DecidingIsCurrent'
    BY <2>4, <2>6 DEF RemoveApplication
  <2>7. ASSUME NEW a \in Applications, PostApplication(a)
        PROVE  AwardsAreReserved' /\ DecidingIsCurrent'
    <3>1. PICK row \in PostedRows :
             /\ award' = [award EXCEPT ![a] = row]
             /\ parted' = IF row.amount = award[a].amount THEN parted ELSE parted \cup {a}
             /\ UNCHANGED <<deciding, reserved>>
      BY <2>7 DEF PostApplication
    <3>2. award[a].status = "ABSENT"
      BY <2>7 DEF PostApplication
    <3>3. AwardsAreReserved'
      BY <3>1 DEF AwardsAreReserved, BursaryTypeOK
    <3>4. ASSUME NEW c \in BursaryCalls, deciding[c] # NotDeciding, ~deciding[c].stale
          PROVE  award'[deciding[c].app] = award[deciding[c].app]
      <4>1. deciding[c].app # a
        BY <3>2, <3>4, DecidingIsADecision DEF DecidingIsCurrent
      <4>2. QED
        BY <3>1, <3>4, <4>1, DecidingIsADecision DEF BursaryTypeOK
    <3>5. DecidingIsCurrent'
      BY <3>1, <3>4 DEF DecidingIsCurrent
    <3>6. QED
      BY <3>3, <3>5
  <2>8. CASE UNCHANGED bursaryVars
    BY <2>8 DEF bursaryVars, AwardsAreReserved, DecidingIsCurrent
  <2>9. QED
    BY <2>1, <2>2, <2>3, <2>5, <2>6, <2>7, <2>8 DEF BursaryNext
<1>3. QED
  BY <1>1, <1>2, BursaryTypeCorrect, PTL DEF BursarySpec
-----------------------------------------------------------------------------
\* What the calls in flight have suggested of the fund, call by call.
Pending == [c \in BursaryCalls |-> IF deciding[c] = NotDeciding THEN 0 ELSE deciding[c].suggested]

\* What a fund may be overdrawn by: an award for each call but one.
Overdraft(cap) == cap * (Cardinality(BursaryCalls) - 1)

\* What remains, with the overdraft, covers all that is suggested.
OverdraftCovered(cap) ==
    /\ \A c \in BursaryCalls : Pending[c] <= cap
    /\ Total(Pending, BursaryCalls) <= fund.remaining + Overdraft(cap)

LEMMA OverdraftIsNat == \A cap \in AwardCaps : Overdraft(cap) \in Nat
<1>1. Cardinality(BursaryCalls) \in Nat
  BY FS_CardinalityType
<1>2. Cardinality(BursaryCalls) # 0
  BY FS_EmptySet
<1> DEFINE n == Cardinality(BursaryCalls) - 1
<1>3. n \in Nat
  BY <1>1, <1>2
<1> HIDE DEF n
<1>4. \A cap \in AwardCaps : cap * n \in Nat
  BY <1>3
<1>5. QED BY <1>4 DEF Overdraft, n

LEMMA PendingIsNat ==
    BursaryTypeOK => \A c \in BursaryCalls : Pending[c] \in Nat
BY DecidingIsADecision DEF Pending

LEMMA PendingIsNatNext ==
    (BursaryTypeOK => \A c \in BursaryCalls : Pending[c] \in Nat)'
BY PendingIsNat, PTL

\* Where one call goes from or to nothing, the total changes by what it suggests.
LEMMA PendingChange ==
    ASSUME BursaryTypeOK, BursaryTypeOK', NEW c \in BursaryCalls,
           \A e \in BursaryCalls \ {c} : Pending'[e] = Pending[e]
    PROVE  /\ Total(Pending, BursaryCalls)' =
                 Total(Pending, BursaryCalls) - Pending[c] + Pending'[c]
           /\ Total(Pending, BursaryCalls) \in Nat
           /\ Pending[c] \in Nat /\ Pending'[c] \in Nat
<1> DEFINE p == Pending
           q == Pending'
<1>1. \A e \in BursaryCalls : p[e] \in Nat /\ q[e] \in Nat
  BY PendingIsNat, PendingIsNatNext
<1>2. /\ Total(Pending, BursaryCalls)' = Total(q, BursaryCalls)
      /\ \A e \in BursaryCalls \ {c} : q[e] = p[e]
  BY DEF Total, Points
<1> HIDE DEF p, q
<1>3. Total(q, BursaryCalls) = Total(p, BursaryCalls) - p[c] + q[c]
  BY <1>1, <1>2, TotalChange
<1>4. Total(p, BursaryCalls) \in Nat
  BY <1>1, TotalType
<1>5. QED BY <1>1, <1>2, <1>3, <1>4 DEF p, q

\* The others may have suggested an award each.
LEMMA OthersBounded ==
    ASSUME BursaryTypeOK, NEW cap \in AwardCaps, OverdraftCovered(cap), NEW c \in BursaryCalls
    PROVE  Total(Pending, BursaryCalls) <= Pending[c] + Overdraft(cap)
<1> DEFINE p == Pending
           rest == BursaryCalls \ {c}
<1>1. \A e \in BursaryCalls : p[e] \in Nat /\ p[e] <= cap
  BY PendingIsNat DEF OverdraftCovered
<1>2. IsFiniteSet(rest) /\ Cardinality(rest) = Cardinality(BursaryCalls) - 1
  BY FS_RemoveElement
<1> HIDE DEF p
<1>3. Total(p, rest) <= cap * Cardinality(rest)
  BY <1>1, <1>2, TotalBound
<1>4. Total(p, BursaryCalls) = p[c] + Total(p, rest)
  BY <1>1, TotalSplit
<1>5. Total(p, rest) \in Nat
  BY <1>1, <1>2, TotalType
<1>6. Total(p, rest) <= Overdraft(cap)
  BY <1>2, <1>3 DEF Overdraft
<1>7. QED BY <1>1, <1>4, <1>5, <1>6, OverdraftIsNat DEF p

\* Nothing suggests more, and the fund gives no more than a call has suggested.
LEMMA OverdraftKept ==
    ASSUME BursaryTypeOK, BursaryTypeOK', NEW cap \in AwardCaps, OverdraftCovered(cap),
           \A e \in BursaryCalls : Pending'[e] = Pending[e], fund'.remaining = fund.remaining
    PROVE  OverdraftCovered(cap)'
<1>1. PICK c : c \in BursaryCalls
  OBVIOUS
<1>2. /\ Total(Pending, BursaryCalls)' =
            Total(Pending, BursaryCalls) - Pending[c] + Pending'[c]
      /\ Total(Pending, BursaryCalls) \in Nat
      /\ Pending[c] \in Nat /\ Pending'[c] = Pending[c]
  BY <1>1, PendingChange
<1>3. Overdraft(cap)' = Overdraft(cap)
  BY DEF Overdraft
<1>4. QED BY <1>2, <1>3 DEF OverdraftCovered

LEMMA OverdraftStep ==
    ASSUME BursaryTypeOK, BursaryTypeOK', NEW cap \in AwardCaps,
           \A other \in AwardCaps : other <= cap,
           OverdraftCovered(cap), [BursaryNext]_bursaryVars
    PROVE  OverdraftCovered(cap)'
<1>1. fund.remaining \in Int /\ Overdraft(cap) \in Nat /\ Overdraft(cap)' = Overdraft(cap)
  BY OverdraftIsNat DEF BursaryTypeOK, Overdraft
<1>2. ASSUME NEW c \in BursaryCalls, NEW a \in Applications, NEW force \in BOOLEAN,
             BeginDecision(c, a, force)
      PROVE  OverdraftCovered(cap)'
  <2>1. PICK wish \in Decisions, top \in AwardCaps :
          deciding' = [deciding EXCEPT ![c] =
            [op |-> "deciding", app |-> a, decision |-> Decision(wish, top),
             suggested |-> IF Decision(wish, top) = "APPROVE" THEN Suggested(top) ELSE 0,
             from |-> award[a].status, prior |-> award[a].amount, stale |-> FALSE]]
    BY <1>2 DEF BeginDecision
  <2> DEFINE s == IF Decision(wish, top) = "APPROVE" THEN Suggested(top) ELSE 0
  <2>2. s \in Nat /\ s <= top /\ top <= cap /\ (s > 0 => s <= fund.remaining)
    BY SuggestedFits DEF BursaryTypeOK
  <2>3. deciding[c] = NotDeciding /\ UNCHANGED fund
    BY <1>2 DEF BeginDecision
  <2>4. Pending[c] = 0 /\ Pending'[c] = s /\ \A e \in BursaryCalls \ {c} : Pending'[e] = Pending[e]
    BY <2>1, <2>3 DEF Pending, NotDeciding, BursaryTypeOK
  <2> HIDE DEF s
  <2>5. /\ Total(Pending, BursaryCalls)' =
              Total(Pending, BursaryCalls) - Pending[c] + Pending'[c]
        /\ Total(Pending, BursaryCalls) \in Nat
    BY <2>4, PendingChange
  <2>6. Total(Pending, BursaryCalls) <= Pending[c] + Overdraft(cap)
    BY OthersBounded
  <2>7. \A e \in BursaryCalls : Pending'[e] <= cap
    <3>1. cap \in Nat /\ top \in Nat
      OBVIOUS
    <3>2. Pending'[c] <= cap
      BY <2>2, <2>4, <3>1
    <3>3. \A e \in BursaryCalls \ {c} : Pending'[e] <= cap
      BY <2>4 DEF OverdraftCovered
    <3>4. QED BY <3>2, <3>3
  <2>8. Total(Pending, BursaryCalls)' <= fund.remaining + Overdraft(cap)
    BY <1>1, <2>2, <2>4, <2>5, <2>6 DEF OverdraftCovered
  <2>9. QED BY <1>1, <2>3, <2>7, <2>8 DEF OverdraftCovered
<1>3. ASSUME NEW c \in BursaryCalls, CommitDecision(c)
      PROVE  OverdraftCovered(cap)'
  <2> DEFINE d == deciding[c]
  <2>1. /\ d # NotDeciding /\ d \in Deciding /\ d.app \in Applications
        /\ d.suggested \in Nat /\ d.prior \in Nat
    BY <1>3, DecidingIsADecision DEF CommitDecision
  <2>2. /\ fund'.remaining = fund.remaining - BudgetChange(d)
        /\ deciding' = [Outdate(BursaryCalls \ {c}, d.app) EXCEPT ![c] = NotDeciding]
    BY <1>3 DEF CommitDecision
  <2>3. BudgetChange(d) \in Int /\ BudgetChange(d) <= d.suggested
    BY <2>1 DEF BudgetChange, Deciding
  <2>4. Pending[c] = d.suggested /\ Pending'[c] = 0
    BY <2>1, <2>2 DEF Pending, Outdate
  <2>5. ASSUME NEW e \in BursaryCalls \ {c} PROVE Pending'[e] = Pending[e]
    <3>1. deciding'[e] = Outdate(BursaryCalls \ {c}, d.app)[e]
      BY <2>2 DEF Outdate
    <3>2. QED BY <2>1, <3>1, OutdateKeeps DEF Pending
  <2>6. /\ Total(Pending, BursaryCalls)' =
              Total(Pending, BursaryCalls) - Pending[c] + Pending'[c]
        /\ Total(Pending, BursaryCalls) \in Nat
    BY <2>5, PendingChange
  <2>7. \A e \in BursaryCalls : Pending'[e] <= cap
    <3>1. Pending'[c] <= cap
      BY <2>4
    <3>2. \A e \in BursaryCalls \ {c} : Pending'[e] <= cap
      BY <2>5 DEF OverdraftCovered
    <3>3. QED BY <3>1, <3>2
  <2>8. Total(Pending, BursaryCalls)' <= fund'.remaining + Overdraft(cap)
    BY <1>1, <2>1, <2>2, <2>3, <2>4, <2>6 DEF OverdraftCovered
  <2>9. QED BY <1>1, <2>7, <2>8 DEF OverdraftCovered
<1>4. ASSUME NEW c \in BursaryCalls, LoseDecision(c)
      PROVE  OverdraftCovered(cap)'
  <2>1. Pending'[c] = 0 /\ \A e \in BursaryCalls \ {c} : Pending'[e] = Pending[e]
    BY <1>4 DEF LoseDecision, Pending, BursaryTypeOK
  <2>2. /\ Total(Pending, BursaryCalls)' =
              Total(Pending, BursaryCalls) - Pending[c] + Pending'[c]
        /\ Total(Pending, BursaryCalls) \in Nat /\ Pending[c] \in Nat
    BY <2>1, PendingChange
  <2>3. \A e \in BursaryCalls : Pending'[e] <= cap
    <3>1. Pending'[c] <= cap
      BY <2>1
    <3>2. QED BY <2>1, <3>1 DEF OverdraftCovered
  <2>4. fund' = fund
    BY <1>4 DEF LoseDecision
  <2>5. QED BY <1>1, <2>1, <2>2, <2>3, <2>4 DEF OverdraftCovered
<1>5. ASSUME NEW a \in Applications, deciding' = Outdate(BursaryCalls, a), UNCHANGED fund
      PROVE  OverdraftCovered(cap)'
  <2>1. \A e \in BursaryCalls : Pending'[e] = Pending[e]
    BY <1>5, OutdateKeeps DEF Pending
  <2>2. QED BY <1>5, <2>1, OverdraftKept
<1>6. CASE UNCHANGED <<fund, deciding>>
  <2>1. \A e \in BursaryCalls : Pending'[e] = Pending[e]
    BY <1>6 DEF Pending
  <2>2. QED BY <1>6, <2>1, OverdraftKept
<1>7. QED
  BY <1>2, <1>3, <1>4, <1>5, <1>6
  DEF BursaryNext, PostApplication, OverrideDecision, RemoveApplication, bursaryVars

\* Racing decisions overdraw the fund by no more than the largest award for each call
\* but one, whatever is released, forced, lost or patched meanwhile.
THEOREM OverdraftBoundedHolds == BursarySpec => []OverdraftBounded
<1> DEFINE Covered == \A cap \in AwardCaps :
                         (\A other \in AwardCaps : other <= cap) => OverdraftCovered(cap)
<1>1. BursaryInit => Covered
  <2> SUFFICES ASSUME BursaryInit, NEW cap \in AwardCaps
               PROVE  OverdraftCovered(cap)
    OBVIOUS
  <2> DEFINE p == Pending
  <2>1. \A c \in BursaryCalls : p[c] = 0
    BY DEF BursaryInit, Pending
  <2> HIDE DEF p
  <2>2. \A c \in BursaryCalls \ {} : p[c] = 0
    BY <2>1
  <2>3. Total(p, {}) = Total(p, BursaryCalls)
    BY <2>2, TotalSame, FS_EmptySet
  <2>4. Total(p, BursaryCalls) = 0
    BY <2>3, TotalEmpty
  <2>5. fund.remaining = Budget
    BY DEF BursaryInit
  <2>6. QED BY <2>1, <2>4, <2>5, OverdraftIsNat DEF OverdraftCovered, p
<1>2. BursaryTypeOK /\ BursaryTypeOK' /\ Covered /\ [BursaryNext]_bursaryVars => Covered'
  BY OverdraftStep
<1>3. BursaryTypeOK /\ Covered => OverdraftBounded
  <2> SUFFICES ASSUME BursaryTypeOK, NEW cap \in AwardCaps, OverdraftCovered(cap)
               PROVE  fund.remaining >= -(cap * (Cardinality(BursaryCalls) - 1))
    BY DEF OverdraftBounded
  <2> DEFINE p == Pending
  <2>1. \A c \in BursaryCalls : p[c] \in Nat
    BY PendingIsNat
  <2>2. Total(p, BursaryCalls) <= fund.remaining + Overdraft(cap)
    BY DEF OverdraftCovered
  <2> HIDE DEF p
  <2>3. Total(p, BursaryCalls) \in Nat
    BY <2>1, TotalType
  <2>4. fund.remaining \in Int /\ Overdraft(cap) \in Nat
    BY OverdraftIsNat DEF BursaryTypeOK
  <2>5. fund.remaining >= -Overdraft(cap)
    BY <2>2, <2>3, <2>4
  <2>6. QED BY <2>5 DEF Overdraft
<1> HIDE DEF Covered
<1>4. QED
  BY <1>1, <1>2, <1>3, BursaryTypeCorrect, PTL DEF BursarySpec

HIDE BursaryAssumption DEF BursaryAssumption, BursaryStatuses, Decisions
-----------------------------------------------------------------------------
(* Refunds.                                                                 *)

USE DEF AllowedTransitions, RefundStatuses

\* What each call holds is a step, or nothing.
LEMMA ActingIsAStep ==
    ASSUME RefundTypeOK, NEW c \in RefundCalls, acting[c] # NotActing
    PROVE  /\ acting[c] \in Acting
           /\ acting[c].refund \in Refunds /\ acting[c].by \in Staff
           /\ acting[c].to \in {"APPROVED", "REJECTED", "PROCESSED"}
  BY DEF RefundTypeOK, Acting

\* A step that is overtaken stays the same step; no call gets or loses one.
LEMMA OvertakeKeeps ==
    ASSUME RefundTypeOK, NEW calls, NEW f \in Refunds, NEW c \in RefundCalls
    PROVE  /\ Overtake(calls, f) \in [RefundCalls -> {NotActing} \cup Acting]
           /\ Overtake(calls, f)[c] = NotActing <=> acting[c] = NotActing
           /\ acting[c] # NotActing =>
                 /\ Overtake(calls, f)[c].refund = acting[c].refund
                 /\ Overtake(calls, f)[c].to = acting[c].to
                 /\ Overtake(calls, f)[c].by = acting[c].by
                 /\ Overtake(calls, f)[c].stale <=>
                       acting[c].stale \/ (c \in calls /\ acting[c].refund = f)
<1>1. ASSUME NEW b \in RefundCalls, acting[b] # NotActing
      PROVE  /\ acting[b] \in Acting
             /\ [acting[b] EXCEPT !.stale = @ \/ acting[b].refund = f] \in Acting
             /\ [acting[b] EXCEPT !.stale = @ \/ acting[b].refund = f] # NotActing
  BY <1>1 DEF RefundTypeOK, Acting, NotActing
<1>2. Overtake(calls, f) \in [RefundCalls -> {NotActing} \cup Acting]
  BY <1>1 DEF Overtake
<1>3. Overtake(calls, f)[c] = NotActing <=> acting[c] = NotActing
  BY <1>1 DEF Overtake
<1>4. ASSUME acting[c] # NotActing
      PROVE  /\ Overtake(calls, f)[c].refund = acting[c].refund
             /\ Overtake(calls, f)[c].to = acting[c].to
             /\ Overtake(calls, f)[c].by = acting[c].by
             /\ Overtake(calls, f)[c].stale <=>
                   acting[c].stale \/ (c \in calls /\ acting[c].refund = f)
  <2>1. acting[c] \in Acting
    BY <1>1, <1>4
  <2>2. CASE c \in calls
    BY <1>4, <2>1, <2>2 DEF Overtake, Acting
  <2>3. CASE c \notin calls
    BY <1>4, <2>1, <2>3 DEF Overtake, Acting
  <2>4. QED
    BY <2>2, <2>3
<1>5. QED
  BY <1>2, <1>3, <1>4

\* The rows, the steps in flight and the histories keep their type.
THEOREM RefundTypeCorrect == RefundSpec => []RefundTypeOK
<1>1. RefundInit => RefundTypeOK
  BY DEF RefundInit, RefundTypeOK
<1>2. RefundTypeOK /\ [RefundNext]_refundVars => RefundTypeOK'
  <2> SUFFICES ASSUME RefundTypeOK, [RefundNext]_refundVars PROVE RefundTypeOK'
    OBVIOUS
  <2>1. ASSUME NEW f \in Refunds, RemoveRefund(f) PROVE RefundTypeOK'
    BY <2>1 DEF RemoveRefund, RefundTypeOK
  <2>2. ASSUME NEW f \in Refunds, NEW by \in Staff, Propose(f, by) PROVE RefundTypeOK'
    BY <2>2, ZenonT(40) DEF Propose, RefundTypeOK
  <2>3. ASSUME NEW c \in RefundCalls, NEW f \in Refunds, NEW by \in Staff,
               NEW to \in RefundStatuses, BeginStep(c, f, to, by)
        PROVE  RefundTypeOK'
    <3>1. to \in {"APPROVED", "REJECTED", "PROCESSED"}
      BY <2>3 DEF BeginStep, Checked
    <3>2. acting' \in [RefundCalls -> {NotActing} \cup Acting]
      BY <2>3, <3>1 DEF BeginStep, RefundTypeOK, Acting
    <3>3. QED
      BY <2>3, <3>2 DEF BeginStep, RefundTypeOK
  <2>4. ASSUME NEW c \in RefundCalls, WriteStep(c) PROVE RefundTypeOK'
    <3> DEFINE d == acting[c]
    <3>1. d \in Acting /\ d.refund \in Refunds /\ d.by \in Staff
      BY <2>4, ActingIsAStep DEF WriteStep
    <3>2. acting' \in [RefundCalls -> {NotActing} \cup Acting]
      BY <2>4, <3>1, OvertakeKeeps DEF WriteStep
    <3>3. refund' \in [Refunds -> [status : RefundStatuses \cup {"ABSENT", "DELETED"},
                                   createdBy : Staff \cup {Nobody}, approvedBy : Staff \cup {Nobody}]]
      <4>1. d.to \in RefundStatuses /\ refund[d.refund] \in
               [status : RefundStatuses \cup {"ABSENT", "DELETED"},
                createdBy : Staff \cup {Nobody}, approvedBy : Staff \cup {Nobody}]
        BY <2>4, <3>1, ActingIsAStep DEF WriteStep, RefundTypeOK
      <4>2. Stepped(refund[d.refund], d) \in
               [status : RefundStatuses \cup {"ABSENT", "DELETED"},
                createdBy : Staff \cup {Nobody}, approvedBy : Staff \cup {Nobody}]
        BY <3>1, <4>1 DEF Stepped
      <4>3. QED
        BY <2>4, <3>1, <4>2 DEF WriteStep, RefundTypeOK
    <3>4. endorsers' \in [Refunds -> SUBSET Staff]
      BY <2>4, <3>1 DEF WriteStep, RefundTypeOK
    <3>5. patched' \subseteq Refunds
      BY <2>4, <3>1 DEF WriteStep, RefundTypeOK
    <3>6. QED
      BY <3>2, <3>3, <3>4, <3>5 DEF RefundTypeOK
  <2>5. ASSUME NEW c \in RefundCalls, LoseStep(c) PROVE RefundTypeOK'
    BY <2>5 DEF LoseStep, RefundTypeOK
  <2>6. ASSUME NEW f \in Refunds, NEW s \in RefundStatuses, NEW approver \in Staff \cup {Nobody},
               PatchRefund(f, s, approver)
        PROVE  RefundTypeOK'
    <3>1. acting' \in [RefundCalls -> {NotActing} \cup Acting]
      BY <2>6, OvertakeKeeps DEF PatchRefund, Overtake, RefundTypeOK
    <3>2. QED
      BY <2>6, <3>1, ZenonT(40) DEF PatchRefund, RefundTypeOK
  <2>7. CASE UNCHANGED refundVars
    BY <2>7 DEF refundVars, RefundTypeOK
  <2>8. QED
    BY <2>1, <2>2, <2>3, <2>4, <2>5, <2>6, <2>7 DEF RefundNext
<1>3. QED
  BY <1>1, <1>2, PTL DEF RefundSpec
-----------------------------------------------------------------------------
(* A step in flight was allowed when it was checked.  What of that check    *)
(* outlives every race: the row exists, an approver is not the proposer     *)
(* (nobody writes createdBy), and a refund about to be processed has been   *)
(* endorsed.  The rest holds until the row is written.                      *)
StepsBacked ==
    \A c \in RefundCalls :
        LET d == acting[c]
        IN  d # NotActing =>
              /\ refund[d.refund].status # "ABSENT"
              /\ d.to = "APPROVED" => d.by # refund[d.refund].createdBy
              /\ d.to = "PROCESSED" /\ d.refund \notin patched =>
                    endorsers[d.refund] \ {refund[d.refund].createdBy} # {}

StepsFresh ==
    \A c \in RefundCalls :
        LET d == acting[c]
        IN  d # NotActing /\ ~d.stale =>
              \/ refund[d.refund].status = "DELETED"
              \/ d.to \in AllowedTransitions[refund[d.refund].status]

ApproverIsAnother ==
    \A f \in Refunds \ patched :
        refund[f].status = "APPROVED" =>
            refund[f].approvedBy \in Staff \ {refund[f].createdBy}

RefundIInv == PaidNeedsTwo /\ StepsBacked /\ StepsFresh /\ ApproverIsAnother

LEMMA RefundInvariantHolds == RefundSpec => [](RefundTypeOK /\ RefundIInv)
<1>1. RefundInit => RefundIInv
  BY DEF RefundInit, RefundIInv, PaidNeedsTwo, StepsBacked, StepsFresh, ApproverIsAnother
<1>2. RefundTypeOK /\ RefundIInv /\ [RefundNext]_refundVars => RefundIInv'
  <2> SUFFICES ASSUME RefundTypeOK, RefundIInv, [RefundNext]_refundVars PROVE RefundIInv'
    OBVIOUS
  <2> USE DEF RefundIInv
  <2>1. ASSUME NEW f \in Refunds, RemoveRefund(f) PROVE RefundIInv'
    <3>1. PaidNeedsTwo' /\ ApproverIsAnother'
      BY <2>1 DEF RemoveRefund, RefundTypeOK, PaidNeedsTwo, ApproverIsAnother
    <3>2. StepsBacked' /\ StepsFresh'
      <4> SUFFICES ASSUME NEW c \in RefundCalls, acting[c] # NotActing
                   PROVE  LET d == acting[c]
                          IN  /\ refund'[d.refund].status # "ABSENT"
                              /\ refund'[d.refund].createdBy = refund[d.refund].createdBy
                              /\ \/ refund'[d.refund].status = "DELETED"
                                 \/ refund'[d.refund].status = refund[d.refund].status
        BY <2>1 DEF RemoveRefund, StepsBacked, StepsFresh
      <4>1. QED
        BY <2>1, ActingIsAStep DEF RemoveRefund, RefundTypeOK, StepsBacked
    <3>3. QED
      BY <3>1, <3>2
  <2>2. ASSUME NEW f \in Refunds, NEW by \in Staff, Propose(f, by) PROVE RefundIInv'
    <3>1. PaidNeedsTwo' /\ ApproverIsAnother'
      BY <2>2 DEF Propose, RefundTypeOK, PaidNeedsTwo, ApproverIsAnother
    <3>2. ASSUME NEW c \in RefundCalls, acting[c] # NotActing
          PROVE  refund'[acting[c].refund] = refund[acting[c].refund]
      BY <2>2, <3>2, ActingIsAStep DEF Propose, RefundTypeOK, StepsBacked
    <3>3. StepsBacked' /\ StepsFresh'
      BY <2>2, <3>2, ZenonT(40) DEF Propose, StepsBacked, StepsFresh
    <3>4. QED
      BY <3>1, <3>3
  <2>3. ASSUME NEW b \in RefundCalls, NEW f \in Refunds, NEW by \in Staff,
               NEW to \in RefundStatuses, BeginStep(b, f, to, by)
        PROVE  RefundIInv'
    <3>1. PaidNeedsTwo' /\ ApproverIsAnother'
      BY <2>3 DEF BeginStep, PaidNeedsTwo, ApproverIsAnother
    <3>2. /\ acting'[b] = [op |-> "acting", refund |-> f, by |-> by, to |-> to, stale |-> FALSE]
          /\ \A c \in RefundCalls \ {b} : acting'[c] = acting[c]
          /\ UNCHANGED <<refund, endorsers, patched>>
      BY <2>3 DEF BeginStep, RefundTypeOK
    <3>3. /\ to \in AllowedTransitions[refund[f].status]
          /\ refund[f].status \in RefundStatuses
          /\ to = "APPROVED" => refund[f].createdBy # by
      BY <2>3 DEF BeginStep, Checked
    <3>4. to = "PROCESSED" /\ f \notin patched =>
              endorsers[f] \ {refund[f].createdBy} # {}
      BY <3>3 DEF PaidNeedsTwo
    <3>5. StepsBacked'
      BY <3>2, <3>3, <3>4 DEF StepsBacked
    <3>6. StepsFresh'
      BY <3>2, <3>3 DEF StepsFresh
    <3>7. QED
      BY <3>1, <3>5, <3>6
  <2>4. ASSUME NEW b \in RefundCalls, WriteStep(b) PROVE RefundIInv'
    <3> DEFINE d == acting[b]
               g == d.refund
    <3>1. /\ d \in Acting /\ g \in Refunds /\ d.by \in Staff
          /\ d.to \in {"APPROVED", "REJECTED", "PROCESSED"}
          /\ d # NotActing /\ refund[g].status \in RefundStatuses
      BY <2>4, ActingIsAStep DEF WriteStep
    <3>2. /\ \A f \in Refunds \ {g} : refund'[f] = refund[f] /\ endorsers'[f] = endorsers[f]
          /\ refund'[g].status = d.to /\ refund'[g].createdBy = refund[g].createdBy
          /\ d.to # "PROCESSED" => refund'[g].approvedBy = d.by
          /\ d.to = "PROCESSED" => refund'[g].approvedBy = refund[g].approvedBy
      BY <2>4, <3>1 DEF WriteStep, Stepped, RefundTypeOK
    <3>3. /\ endorsers[g] \subseteq endorsers'[g]
          /\ d.to = "APPROVED" => d.by \in endorsers'[g]
          /\ patched' = IF d.to = "APPROVED" THEN patched \ {g} ELSE patched
      BY <2>4, <3>1 DEF WriteStep, RefundTypeOK
    <3>4. ASSUME NEW c \in RefundCalls, acting'[c] # NotActing
          PROVE  /\ c # b /\ acting[c] # NotActing
                 /\ acting'[c].refund = acting[c].refund
                 /\ acting'[c].to = acting[c].to /\ acting'[c].by = acting[c].by
                 /\ (acting'[c].stale <=> acting[c].stale \/ acting[c].refund = g)
      <4>1. c # b /\ acting'[c] = Overtake(RefundCalls \ {b}, g)[c]
        BY <2>4, <3>1, <3>4, OvertakeKeeps DEF WriteStep
      <4>2. QED
        BY <3>1, <3>4, <4>1, OvertakeKeeps
    <3>5. PaidNeedsTwo'
      BY <3>1, <3>2, <3>3 DEF PaidNeedsTwo, StepsBacked
    <3>6. StepsBacked'
      <4> SUFFICES ASSUME NEW c \in RefundCalls, acting'[c] # NotActing
                   PROVE  LET e == acting'[c]
                          IN  /\ refund'[e.refund].status # "ABSENT"
                              /\ e.to = "APPROVED" => e.by # refund'[e.refund].createdBy
                              /\ e.to = "PROCESSED" /\ e.refund \notin patched' =>
                                    endorsers'[e.refund] \ {refund'[e.refund].createdBy} # {}
        BY DEF StepsBacked
      <4>1. acting[c] # NotActing /\ acting[c].refund \in Refunds
        BY <3>4, ActingIsAStep
      <4>2. QED
        BY <3>1, <3>2, <3>3, <3>4, <4>1 DEF StepsBacked
    <3>7. StepsFresh'
      <4> SUFFICES ASSUME NEW c \in RefundCalls, acting'[c] # NotActing, ~acting'[c].stale
                   PROVE  LET e == acting'[c]
                          IN  \/ refund'[e.refund].status = "DELETED"
                              \/ e.to \in AllowedTransitions[refund'[e.refund].status]
        BY DEF StepsFresh
      <4>1. acting[c] # NotActing /\ acting[c].refund \in Refunds \ {g} /\ ~acting[c].stale
        BY <3>4, ActingIsAStep
      <4>2. QED
        BY <3>2, <3>4, <4>1 DEF StepsFresh
    <3>8. ApproverIsAnother'
      <4> SUFFICES ASSUME NEW f \in Refunds, f \notin patched', refund'[f].status = "APPROVED"
                   PROVE  refund'[f].approvedBy \in Staff \ {refund'[f].createdBy}
        BY DEF ApproverIsAnother
      <4>1. CASE f # g
        BY <3>2, <3>3, <4>1 DEF ApproverIsAnother
      <4>2. CASE f = g
        <5>1. d.to = "APPROVED"
          BY <3>2, <4>2
        <5>2. QED
          BY <3>1, <3>2, <4>2, <5>1 DEF StepsBacked
      <4>3. QED
        BY <4>1, <4>2
    <3>9. QED
      BY <3>5, <3>6, <3>7, <3>8
  <2>5. ASSUME NEW b \in RefundCalls, LoseStep(b) PROVE RefundIInv'
    <3>1. PaidNeedsTwo' /\ ApproverIsAnother'
      BY <2>5 DEF LoseStep, PaidNeedsTwo, ApproverIsAnother
    <3>2. \A c \in RefundCalls : acting'[c] # NotActing => acting'[c] = acting[c]
      BY <2>5 DEF LoseStep, RefundTypeOK
    <3>3. StepsBacked' /\ StepsFresh'
      BY <2>5, <3>2 DEF LoseStep, StepsBacked, StepsFresh
    <3>4. QED
      BY <3>1, <3>3
  <2>6. ASSUME NEW f \in Refunds, NEW s \in RefundStatuses, NEW approver \in Staff \cup {Nobody},
               PatchRefund(f, s, approver)
        PROVE  RefundIInv'
    <3>1. /\ patched' = patched \cup {f} /\ endorsers' = endorsers
          /\ \A h \in Refunds \ {f} : refund'[h] = refund[h]
          /\ refund'[f].status = s /\ refund'[f].createdBy = refund[f].createdBy
      BY <2>6 DEF PatchRefund, RefundTypeOK
    <3>2. PaidNeedsTwo' /\ ApproverIsAnother'
      BY <3>1 DEF PaidNeedsTwo, ApproverIsAnother
    <3>3. ASSUME NEW c \in RefundCalls, acting'[c] # NotActing
          PROVE  /\ acting[c] # NotActing /\ acting[c].refund \in Refunds
                 /\ acting'[c].refund = acting[c].refund
                 /\ acting'[c].to = acting[c].to /\ acting'[c].by = acting[c].by
                 /\ (acting'[c].stale <=> acting[c].stale \/ acting[c].refund = f)
      <4>1. acting' = Overtake(RefundCalls, f)
        BY <2>6 DEF PatchRefund
      <4>2. acting[c] # NotActing
        BY <3>3, <4>1, OvertakeKeeps
      <4>3. QED
        BY <4>1, <4>2, OvertakeKeeps, ActingIsAStep
    <3>4. StepsBacked'
      BY <3>1, <3>3 DEF StepsBacked
    <3>5. StepsFresh'
      BY <3>1, <3>3 DEF StepsFresh
    <3>6. QED
      BY <3>2, <3>4, <3>5
  <2>7. CASE UNCHANGED refundVars
    BY <2>7 DEF refundVars, PaidNeedsTwo, StepsBacked, StepsFresh, ApproverIsAnother
  <2>8. QED
    BY <2>1, <2>2, <2>3, <2>4, <2>5, <2>6, <2>7 DEF RefundNext
<1>3. QED
  BY <1>1, <1>2, RefundTypeCorrect, PTL DEF RefundSpec

\* A refund that nobody patched and that is approved or processed was approved by
\* someone other than its proposer, however many steps on it were in flight.
THEOREM PaidNeedsTwoHolds == RefundSpec => []PaidNeedsTwo
<1>1. RefundTypeOK /\ RefundIInv => PaidNeedsTwo
  BY DEF RefundIInv
<1>2. QED
  BY <1>1, RefundInvariantHolds, PTL

\* PROCESSED and REJECTED are final and a processed refund names an approver who did
\* not propose it, for every step that still sees the row it has read.
THEOREM DecisionStandsHolds == RefundSpec => DecisionStands
<1> DEFINE Stands ==
        \A f \in Refunds : refund'[f] # refund[f] =>
            /\ refund[f].status \in {"PROCESSED", "REJECTED"} => Overtaken(f) \/ ByHand
            /\ refund'[f].status = "PROCESSED" /\ f \notin patched' =>
                  \/ Overtaken(f)
                  \/ refund'[f].approvedBy \in Staff \ {refund'[f].createdBy}
<1>1. RefundTypeOK /\ RefundIInv /\ [RefundNext]_refundVars => [Stands]_refundVars
  <2> SUFFICES ASSUME RefundTypeOK, RefundIInv, RefundNext,
                      NEW f \in Refunds, refund'[f] # refund[f]
               PROVE  /\ refund[f].status \in {"PROCESSED", "REJECTED"} => Overtaken(f) \/ ByHand
                      /\ refund'[f].status = "PROCESSED" /\ f \notin patched' =>
                            \/ Overtaken(f)
                            \/ refund'[f].approvedBy \in Staff \ {refund'[f].createdBy}
    OBVIOUS
  <2>1. CASE \E h \in Refunds : RemoveRefund(h)
    <3>1. ByHand /\ refund'[f].status = "DELETED"
      BY <2>1 DEF RemoveRefund, RefundTypeOK, ByHand
    <3>2. QED
      BY <3>1
  <2>2. CASE \E h \in Refunds, by \in Staff : Propose(h, by)
    <3>1. ByHand /\ refund'[f].status = "REQUESTED"
      BY <2>2 DEF Propose, RefundTypeOK, ByHand
    <3>2. QED
      BY <3>1
  <2>3. ASSUME NEW c \in RefundCalls, WriteStep(c), ~Overtaken(f)
        PROVE  /\ refund[f].status \notin {"PROCESSED", "REJECTED"}
               /\ refund'[f].status = "PROCESSED" /\ f \notin patched' =>
                     refund'[f].approvedBy \in Staff \ {refund'[f].createdBy}
    <3>1. /\ acting[c] # NotActing /\ acting[c].refund \in Refunds
          /\ refund[acting[c].refund].status \in RefundStatuses
      BY <2>3, ActingIsAStep DEF WriteStep
    <3>2. acting[c].refund = f
      BY <2>3, <3>1 DEF WriteStep, RefundTypeOK
    <3>3. acting'[c] = NotActing
      BY <2>3, <3>1, OvertakeKeeps DEF WriteStep
    <3>4. ~acting[c].stale
      BY <2>3, <3>1, <3>2, <3>3 DEF Overtaken
    <3>5. acting[c].to \in AllowedTransitions[refund[f].status]
      BY <3>1, <3>2, <3>4 DEF RefundIInv, StepsFresh
    <3>6. refund[f].status \notin {"PROCESSED", "REJECTED"}
      BY <3>1, <3>2, <3>5
    <3>7. ASSUME refund'[f].status = "PROCESSED", f \notin patched'
          PROVE  refund'[f].approvedBy \in Staff \ {refund'[f].createdBy}
      <4>1. /\ acting[c].to = "PROCESSED" /\ patched' = patched
            /\ refund'[f].approvedBy = refund[f].approvedBy
            /\ refund'[f].createdBy = refund[f].createdBy
        BY <2>3, <3>1, <3>2, <3>7 DEF WriteStep, Stepped, RefundTypeOK
      <4>2. refund[f].status = "APPROVED"
        BY <3>1, <3>2, <3>5, <4>1
      <4>3. QED
        BY <3>7, <4>1, <4>2 DEF RefundIInv, ApproverIsAnother
    <3>8. QED
      BY <3>6, <3>7
  <2>4. ASSUME NEW h \in Refunds, NEW s \in RefundStatuses, NEW approver \in Staff \cup {Nobody},
               PatchRefund(h, s, approver)
        PROVE  ByHand /\ f \in patched'
    <3>1. ByHand
      BY <2>4, OvertakeKeeps DEF PatchRefund, ByHand
    <3>2. h = f
      BY <2>4 DEF PatchRefund, RefundTypeOK
    <3>3. QED
      BY <2>4, <3>1, <3>2 DEF PatchRefund
  <2>5. QED
    BY <2>1, <2>2, <2>3, <2>4 DEF RefundNext, BeginStep, LoseStep
<1>2. QED
  BY <1>1, RefundInvariantHolds, PTL DEF RefundSpec, DecisionStands

HIDE DEF AllowedTransitions, RefundStatuses
-----------------------------------------------------------------------------
(* The statutory return.                                                    *)

HeaderRow  == [status : {"PREPARATION", "VALIDATION"}, count : 0..Cardinality(AllLines),
               failures : AllFailures]
Creating   == [op : {"creating"}, late : BOOLEAN]
Loading    == [op : {"loading"}, target : Returns, late : BOOLEAN]
Composing  == [op : {"replacing", "heading"}, target : Returns, lines : Bodies,
               failures : AllFailures, late : BOOLEAN]
Validating == [op : {"validating"}, target : Returns, failures : AllFailures, late : BOOLEAN]
HeldReturns == {NoReturning} \cup Creating \cup Loading \cup Composing \cup Validating

LEMMA ReturnShapes ==
    ASSUME ReturnTypeOK, NEW c \in ReturnCalls
    PROVE  /\ returning[c] \in HeldReturns
           /\ returning[c].op = "creating" => returning[c] \in Creating
           /\ returning[c].op = "loading" => returning[c] \in Loading
           /\ returning[c].op \in {"replacing", "heading"} => returning[c] \in Composing
           /\ returning[c].op = "validating" => returning[c] \in Validating
           /\ returning[c].op = "idle" <=> returning[c] = NoReturning
<1>1. returning[c] \in HeldReturns
  BY DEF ReturnTypeOK, HeldReturns, Creating, Loading, Composing, Validating
<1>2. QED
  BY <1>1 DEF HeldReturns, Creating, Loading, Composing, Validating, NoReturning

\* Nothing is composed but lines of the cohorts, and of these there are finitely many.
LEMMA LinesAreFinite ==
    /\ IsFiniteSet(AllLines)
    /\ \A lines \in SUBSET AllLines : Cardinality(lines) \in 0..Cardinality(AllLines)
<1>1. AllLines \subseteq UNION Cohorts
  BY DEF AllLines, Bodies, Composed
<1>2. IsFiniteSet(AllLines)
  BY <1>1, ReturnAssumption, FS_Subset DEF ReturnAssumption
<1>3. ASSUME NEW lines \in SUBSET AllLines
      PROVE  Cardinality(lines) \in 0..Cardinality(AllLines)
  BY <1>2, FS_Subset, FS_CardinalityType
<1>4. QED BY <1>2, <1>3

LEMMA FailuresTyped ==
    ASSUME NEW rules \in Applied, NEW lines \in SUBSET AllLines
    PROVE  Failures(rules, lines) \in AllFailures
BY DEF Failures, AllFailures

LEMMA ActiveApplied ==
    ASSUME NEW rules \in RuleSets
    PROVE  rules \in Applied /\ Active(rules) \in Applied
BY DEF Applied

LEMMA LinesTyped ==
    ASSUME ReturnTypeOK, NEW t \in Returns
    PROVE  Lines(t) \in SUBSET AllLines
BY DEF ReturnTypeOK, Lines, AllLines

LEMMA BodiesTyped == \A cohort \in Cohorts : Composed(cohort) \in Bodies /\ Composed(cohort) \subseteq AllLines
BY DEF Bodies, AllLines

\* A step leaves call e alone, but may outdate it; the calls in others it does outdate.
CallCarried(e, others) ==
    LET d == returning[e]
        n == returning'[e]
    IN  /\ n \in HeldReturns /\ n.op = d.op
        /\ d.op \in {"loading", "replacing", "heading", "validating"} => n.target = d.target
        /\ d.op \in {"replacing", "heading"} => n.lines = d.lines
        /\ d.op \in {"replacing", "heading", "validating"} => n.failures = d.failures
        /\ d.op # "idle" /\ ~n.late => ~d.late /\ e \notin others

LEMMA Carried ==
    ASSUME ReturnTypeOK, NEW e \in ReturnCalls, NEW others,
           \/ e \notin others /\ returning'[e] = returning[e]
           \/ e \in others /\ returning[e] # NoReturning
                           /\ returning'[e] = [returning[e] EXCEPT !.late = TRUE]
    PROVE  CallCarried(e, others)
<1> DEFINE d == returning[e]
           n == returning'[e]
<1>1. d \in HeldReturns
  BY ReturnShapes
<1>2. CASE e \notin others /\ n = d
  BY <1>1, <1>2 DEF CallCarried
<1>3. CASE e \in others /\ d # NoReturning /\ n = [d EXCEPT !.late = TRUE]
  <2> HIDE DEF d, n
  <2>1. CASE d \in Creating
    BY <1>3, <2>1 DEF CallCarried, HeldReturns, Creating, d, n
  <2>2. CASE d \in Loading
    <3>1. n = [op |-> d.op, target |-> d.target, late |-> TRUE]
      BY <1>3, <2>2 DEF Loading
    <3>2. QED BY <1>3, <2>2, <3>1 DEF CallCarried, HeldReturns, Loading, d, n
  <2>3. CASE d \in Composing
    <3>1. n = [op |-> d.op, target |-> d.target, lines |-> d.lines, failures |-> d.failures,
               late |-> TRUE]
      BY <1>3, <2>3 DEF Composing
    <3>2. QED BY <1>3, <2>3, <3>1 DEF CallCarried, HeldReturns, Composing, d, n
  <2>4. CASE d \in Validating
    <3>1. n = [op |-> d.op, target |-> d.target, failures |-> d.failures, late |-> TRUE]
      BY <1>3, <2>4 DEF Validating
    <3>2. QED BY <1>3, <2>4, <3>1 DEF CallCarried, HeldReturns, Validating, d, n
  <2>5. QED BY <1>1, <1>3, <2>1, <2>2, <2>3, <2>4 DEF HeldReturns
<1>4. QED BY <1>2, <1>3

LEMMA OutdatesCarries ==
    ASSUME ReturnTypeOK, NEW c \in ReturnCalls, NEW next, NEW others \in SUBSET ReturnCalls,
           \A e \in others : returning[e] # NoReturning,
           Outdates(c, next, others)
    PROVE  /\ returning'[c] = next
           /\ \A e \in ReturnCalls \ {c} : CallCarried(e, others)
           /\ returning' = [e \in ReturnCalls |-> returning'[e]]
<1>1. returning'[c] = next /\ returning' = [e \in ReturnCalls |-> returning'[e]]
  BY DEF Outdates
<1>2. \A e \in ReturnCalls \ {c} :
        returning'[e] = IF e \in others THEN [returning[e] EXCEPT !.late = TRUE] ELSE returning[e]
  BY DEF Outdates
<1>3. \A e \in ReturnCalls \ {c} : CallCarried(e, others)
  BY <1>2, Carried
<1>4. QED BY <1>1, <1>3

LEMMA SetCarries ==
    ASSUME ReturnTypeOK, NEW c \in ReturnCalls, NEW next,
           returning' = [returning EXCEPT ![c] = next]
    PROVE  /\ returning'[c] = next
           /\ \A e \in ReturnCalls \ {c} : CallCarried(e, {})
           /\ returning' = [e \in ReturnCalls |-> returning'[e]]
<1>1. /\ returning'[c] = next
      /\ \A e \in ReturnCalls \ {c} : returning'[e] = returning[e]
      /\ returning' = [e \in ReturnCalls |-> returning'[e]]
  BY DEF ReturnTypeOK
<1>2. ASSUME NEW e \in ReturnCalls \ {c}
      PROVE  CallCarried(e, {})
  <2>1. e \notin {} /\ returning'[e] = returning[e]
    BY <1>1
  <2>2. QED BY <2>1, Carried
<1>3. QED BY <1>1, <1>2
-----------------------------------------------------------------------------
\* Only returns that are there have a snapshot or are worked on.
TargetsOpen ==
    /\ \A t \in Returns : header[t] = NoHeader => snapshot[t] = {}
    /\ \A c \in ReturnCalls :
          returning[c].op \in {"loading", "replacing", "heading", "validating"} =>
             header[returning[c].target] # NoHeader

\* What a call has looked at is still so, unless it is late.
RunHolds(c) ==
    LET d == returning[c]
    IN  /\ d.op = "creating" /\ ~d.late => Opened = {}
        /\ d.op \in {"replacing", "heading"} =>
              \E rules \in Applied : d.failures = Failures(rules, d.lines)
        /\ \A t \in Returns :
             /\ d.op = "replacing" /\ ~d.late /\ d.target = t => snapshot[t] = {}
             /\ d.op = "heading" /\ ~d.late /\ d.target = t =>
                   snapshot[t] = {[by |-> c, lines |-> d.lines]}
             /\ d.op = "validating" /\ ~d.late /\ d.target = t =>
                   \E rules \in Applied : d.failures = Failures(rules, Lines(t))

\* The row of a return says what its snapshot holds.
Agrees(t) ==
    /\ Cardinality(snapshot[t]) <= 1
    /\ header[t].count = Cardinality(Lines(t))
    /\ \E rules \in Applied : header[t].failures = Failures(rules, Lines(t))

Unheaded(t) == \A c \in ReturnCalls : returning[c].op = "heading" => returning[c].target # t

ReturnInv ==
    /\ ReturnTypeOK /\ TargetsOpen
    /\ \A c \in ReturnCalls : RunHolds(c)
    /\ \A t \in Returns : header[t] # NoHeader /\ t \notin torn /\ Unheaded(t) => Agrees(t)
    /\ ~reopened => \A t, u \in Opened : t = u

LEMMA RunCarried ==
    ASSUME NEW e \in ReturnCalls, RunHolds(e), NEW others, CallCarried(e, others),
           Opened' = Opened \/ (returning[e].op = "creating" => e \in others),
           \A t \in Returns :
              \/ snapshot'[t] = snapshot[t]
              \/ returning[e].op \in {"replacing", "heading", "validating"}
                    /\ returning[e].target = t => e \in others
    PROVE  RunHolds(e)'
<1> DEFINE d == returning[e]
           n == returning'[e]
<1>1. d.op = n.op /\ (d.op # "idle" /\ ~n.late => ~d.late /\ e \notin others)
  BY DEF CallCarried
<1>2. n.op = "creating" /\ ~n.late => Opened' = {}
  BY <1>1 DEF RunHolds
<1>3. n.op \in {"replacing", "heading"} =>
         \E rules \in Applied : n.failures = Failures(rules, n.lines)
  BY DEF RunHolds, CallCarried
<1>4. ASSUME NEW t \in Returns, ~n.late, n.target = t,
             n.op \in {"replacing", "heading", "validating"}
      PROVE  /\ ~d.late /\ d.target = t /\ snapshot'[t] = snapshot[t] /\ Lines(t)' = Lines(t)
             /\ n.failures = d.failures
             /\ n.op = "heading" => n.lines = d.lines
  <2>1. ~d.late /\ e \notin others /\ d.target = t
    BY <1>1, <1>4 DEF CallCarried
  <2>2. snapshot'[t] = snapshot[t]
    BY <1>1, <1>4, <2>1
  <2>3. Lines(t)' = Lines(t)
    BY <2>2 DEF Lines
  <2>4. QED BY <1>1, <1>4, <2>1, <2>2, <2>3 DEF CallCarried
<1>5. ASSUME NEW t \in Returns
      PROVE  /\ n.op = "replacing" /\ ~n.late /\ n.target = t => snapshot'[t] = {}
             /\ n.op = "heading" /\ ~n.late /\ n.target = t =>
                   snapshot'[t] = {[by |-> e, lines |-> n.lines]}
             /\ n.op = "validating" /\ ~n.late /\ n.target = t =>
                   \E rules \in Applied : n.failures = Failures(rules, Lines(t)')
  <2>1. CASE n.op = "replacing" /\ ~n.late /\ n.target = t
    BY <1>1, <1>4, <2>1 DEF RunHolds
  <2>2. CASE n.op = "heading" /\ ~n.late /\ n.target = t
    BY <1>1, <1>4, <2>2 DEF RunHolds
  <2>3. CASE n.op = "validating" /\ ~n.late /\ n.target = t
    BY <1>1, <1>4, <2>3 DEF RunHolds
  <2>4. QED BY <2>1, <2>2, <2>3
<1>6. QED
  <2>1. \A t : Failures(t, Lines(t))' = Failures(t, Lines(t)')
    BY DEF Failures
  <2>2. QED BY <1>2, <1>3, <1>5 DEF RunHolds

\* What every step has to show: of call c itself, and of the returns; the other calls
\* are carried.
LEMMA ReturnStepHolds ==
    ASSUME ReturnInv, NEW c \in ReturnCalls, NEW others \in SUBSET ReturnCalls,
           \A e \in ReturnCalls \ {c} : CallCarried(e, others),
           returning' = [e \in ReturnCalls |-> returning'[e]],
           returning'[c] \in HeldReturns,
           header' \in [Returns -> {NoHeader} \cup HeaderRow],
           snapshot' \in [Returns -> SUBSET [by : ReturnCalls, lines : Bodies]],
           torn' \subseteq Returns, latest' \in [Returns -> Bodies \cup {{}}],
           reopened' \in BOOLEAN,
           \A t \in Returns : /\ header[t] # NoHeader => header'[t] # NoHeader
                              /\ header'[t] = NoHeader => snapshot'[t] = {},
           returning'[c].op \in {"loading", "replacing", "heading", "validating"} =>
              header'[returning'[c].target] # NoHeader,
           RunHolds(c)',
           \A e \in ReturnCalls \ {c} :
              /\ Opened' = Opened \/ (returning[e].op = "creating" => e \in others)
              /\ \A t \in Returns :
                    \/ snapshot'[t] = snapshot[t]
                    \/ returning[e].op \in {"replacing", "heading", "validating"}
                          /\ returning[e].target = t => e \in others,
           \A t \in Returns : header'[t] # NoHeader /\ t \notin torn' /\ Unheaded(t)' => Agrees(t)',
           ~reopened' => \A t, u \in Opened' : t = u
    PROVE  ReturnInv'
<1>1. \A e \in ReturnCalls : returning'[e] \in HeldReturns
  BY DEF CallCarried
<1>2. ReturnTypeOK'
  <2>1. returning' \in [ReturnCalls -> HeldReturns]
    BY <1>1
  <2>2. QED
    BY <2>1 DEF ReturnTypeOK, HeldReturns, HeaderRow, Creating, Loading, Composing, Validating
<1>3. TargetsOpen'
  <2>1. ASSUME NEW e \in ReturnCalls,
               returning'[e].op \in {"loading", "replacing", "heading", "validating"}
        PROVE  header'[returning'[e].target] # NoHeader
    <3>1. CASE e = c
      BY <2>1, <3>1
    <3>2. CASE e # c
      <4>1. /\ returning[e].op \in {"loading", "replacing", "heading", "validating"}
            /\ returning'[e].target = returning[e].target
        BY <2>1, <3>2 DEF CallCarried
      <4>2. header[returning[e].target] # NoHeader
        BY <4>1 DEF ReturnInv, TargetsOpen
      <4>3. returning[e].target \in Returns
        BY <4>1, ReturnShapes DEF ReturnInv, Loading, Composing, Validating
      <4>4. QED BY <4>1, <4>2, <4>3
    <3>3. QED BY <3>1, <3>2
  <2>2. QED BY <2>1 DEF TargetsOpen
<1>4. ASSUME NEW e \in ReturnCalls
      PROVE  RunHolds(e)'
  <2>1. CASE e = c
    BY <2>1
  <2>2. CASE e # c
    <3>1. RunHolds(e) /\ CallCarried(e, others)
      BY <2>2 DEF ReturnInv
    <3>2. QED BY <2>2, <3>1, RunCarried
  <2>3. QED BY <2>1, <2>2
<1>5. QED BY <1>2, <1>3, <1>4 DEF ReturnInv

\* A return that no step touched still agrees.
LEMMA AgreesStill ==
    ASSUME NEW t \in Returns, Agrees(t), header'[t] = header[t], snapshot'[t] = snapshot[t]
    PROVE  Agrees(t)'
<1>1. Lines(t)' = Lines(t)
  BY DEF Lines
<1>2. QED BY <1>1 DEF Agrees

LEMMA UnheadedBefore ==
    ASSUME NEW c \in ReturnCalls, NEW t \in Returns, NEW others,
           \A e \in ReturnCalls \ {c} : CallCarried(e, others),
           returning[c].op = "heading" => returning[c].target # t,
           Unheaded(t)'
    PROVE  Unheaded(t)
BY DEF Unheaded, CallCarried

\* A step that writes neither rows nor snapshots.
LEMMA QuietReturnStep ==
    ASSUME ReturnInv, NEW c \in ReturnCalls, NEW next, next \in HeldReturns,
           returning' = [returning EXCEPT ![c] = next],
           UNCHANGED <<header, snapshot, reopened>>,
           torn \subseteq torn', torn' \subseteq Returns, latest' \in [Returns -> Bodies \cup {{}}],
           next.op \in {"loading", "replacing", "heading", "validating"} =>
              header[next.target] # NoHeader,
           returning[c].op = "heading" => returning[c].target \in torn',
           RunHolds(c)'
    PROVE  ReturnInv'
<1>1. ReturnTypeOK /\ TargetsOpen
  BY DEF ReturnInv
<1>2. /\ returning'[c] = next
      /\ \A e \in ReturnCalls \ {c} : CallCarried(e, {})
      /\ returning' = [e \in ReturnCalls |-> returning'[e]]
  BY <1>1, SetCarries
<1>3. Opened' = Opened
  BY DEF Opened
<1>4. ASSUME NEW t \in Returns, header'[t] # NoHeader, t \notin torn', Unheaded(t)'
      PROVE  Agrees(t)'
  <2>1. Unheaded(t)
    BY <1>2, <1>4, UnheadedBefore
  <2>2. Agrees(t)
    BY <1>4, <2>1 DEF ReturnInv
  <2>3. QED BY <2>2, AgreesStill
<1>5. /\ header' \in [Returns -> {NoHeader} \cup HeaderRow]
      /\ snapshot' \in [Returns -> SUBSET [by : ReturnCalls, lines : Bodies]]
      /\ reopened' \in BOOLEAN
  BY <1>1 DEF ReturnTypeOK, HeaderRow
<1>6. ~reopened' => \A t, u \in Opened' : t = u
  BY <1>3 DEF ReturnInv
<1>7. \A t \in Returns : /\ header[t] # NoHeader => header'[t] # NoHeader
                         /\ header'[t] = NoHeader => snapshot'[t] = {}
  BY <1>1 DEF TargetsOpen
<1>8. QED
  BY <1>1, <1>2, <1>3, <1>4, <1>5, <1>6, <1>7, ReturnStepHolds

LEMMA FindReturnStep ==
    ASSUME ReturnInv, NEW c \in ReturnCalls, FindReturn(c)
    PROVE  ReturnInv'
<1>1. ReturnTypeOK /\ UNCHANGED <<header, snapshot, torn, latest, reopened>>
  BY DEF FindReturn, ReturnInv
<1>2. returning[c].op # "heading" /\ Opened' = Opened
  BY <1>1 DEF FindReturn, NoReturning, Opened
<1>3. torn' \subseteq Returns /\ latest' \in [Returns -> Bodies \cup {{}}]
  BY <1>1 DEF ReturnTypeOK
<1>4. ASSUME Opened = {},
             returning' = [returning EXCEPT ![c] = [op |-> "creating", late |-> FALSE]]
      PROVE  ReturnInv'
  <2> DEFINE next == [op |-> "creating", late |-> FALSE]
  <2>1. next \in HeldReturns /\ next.op = "creating"
    BY DEF HeldReturns, Creating
  <2>2. returning'[c] = next
    BY <1>1, <1>4 DEF ReturnTypeOK
  <2> HIDE DEF next
  <2>3. RunHolds(c)'
    BY <1>2, <1>4, <2>1, <2>2 DEF RunHolds
  <2>4. QED BY <1>1, <1>2, <1>3, <1>4, <2>1, <2>3, QuietReturnStep DEF next
<1>5. ASSUME NEW t \in Opened,
             returning' = [returning EXCEPT ![c] =
                             [op |-> "loading", target |-> t, late |-> FALSE]]
      PROVE  ReturnInv'
  <2> DEFINE next == [op |-> "loading", target |-> t, late |-> FALSE]
  <2>1. next \in HeldReturns /\ next.op = "loading" /\ header[next.target] # NoHeader
    BY DEF HeldReturns, Loading, Opened
  <2>2. returning'[c] = next
    BY <1>1, <1>5 DEF ReturnTypeOK
  <2> HIDE DEF next
  <2>3. RunHolds(c)'
    BY <2>1, <2>2 DEF RunHolds
  <2>4. QED BY <1>1, <1>2, <1>3, <1>5, <2>1, <2>3, QuietReturnStep DEF next
<1>6. QED BY <1>4, <1>5 DEF FindReturn

LEMMA CreateReturnStep ==
    ASSUME ReturnInv, NEW c \in ReturnCalls, NEW t \in Returns, CreateReturn(c, t)
    PROVE  ReturnInv'
<1> DEFINE others == {e \in ReturnCalls : returning[e].op = "creating"}
           next == [op |-> "loading", target |-> t, late |-> FALSE]
           row == [status |-> "PREPARATION", count |-> 0, failures |-> {}]
<1>1. ReturnTypeOK /\ TargetsOpen /\ RunHolds(c)
  BY DEF ReturnInv
<1>2. /\ returning[c].op = "creating" /\ header[t] = NoHeader
      /\ header' = [header EXCEPT ![t] = row]
      /\ reopened' = (reopened \/ returning[c].late)
      /\ Outdates(c, next, others)
      /\ UNCHANGED <<snapshot, torn, latest>>
  BY DEF CreateReturn
<1>3. /\ returning'[c] = next
      /\ \A e \in ReturnCalls \ {c} : CallCarried(e, others)
      /\ returning' = [e \in ReturnCalls |-> returning'[e]]
  <2>1. \A e \in others : returning[e] # NoReturning
    BY DEF NoReturning
  <2> HIDE DEF next
  <2>2. QED BY <1>1, <1>2, <2>1, OutdatesCarries
<1>4. row \in HeaderRow /\ row # NoHeader /\ row.count = 0 /\ row.failures = {}
  <2>1. 0 \in 0..Cardinality(AllLines)
    BY LinesAreFinite, FS_CardinalityType
  <2>2. QED BY <2>1 DEF HeaderRow, AllFailures, NoHeader
<1>5. next \in HeldReturns /\ next.op = "loading" /\ next.target = t
  BY DEF HeldReturns, Loading
<1>6. returning[c].late \in BOOLEAN
  BY <1>1, <1>2, ReturnShapes DEF Creating
<1> HIDE DEF next, row
<1>7. /\ header'[t] = row
      /\ \A u \in Returns \ {t} : header'[u] = header[u]
      /\ header' \in [Returns -> {NoHeader} \cup HeaderRow]
  BY <1>1, <1>2, <1>4 DEF ReturnTypeOK, HeaderRow
<1>8. snapshot[t] = {}
  BY <1>1, <1>2 DEF TargetsOpen
<1>9. RunHolds(c)'
  BY <1>3, <1>5 DEF RunHolds
<1>10. ASSUME NEW u \in Returns, header'[u] # NoHeader, u \notin torn', Unheaded(u)'
       PROVE  Agrees(u)'
  <2>1. CASE u = t
    <3>1. snapshot'[t] = {} /\ Lines(t)' = {}
      BY <1>2, <1>8 DEF Lines
    <3>2. \A rules : Failures(rules, {}) = {}
      BY DEF Failures
    <3>3. \E rules : rules \in Applied
      BY ReturnAssumption DEF ReturnAssumption, Applied
    <3>4. Cardinality({}) = 0
      BY FS_EmptySet
    <3>5. QED BY <1>4, <1>7, <2>1, <3>1, <3>2, <3>3, <3>4 DEF Agrees
  <2>2. CASE u # t
    <3>1. Unheaded(u)
      BY <1>2, <1>3, <1>10, UnheadedBefore
    <3>2. Agrees(u)
      BY <1>2, <1>7, <1>10, <2>2, <3>1 DEF ReturnInv
    <3>3. QED BY <1>2, <1>7, <2>2, <3>2, AgreesStill
  <2>3. QED BY <2>1, <2>2
<1>11. ~reopened' => \A u, v \in Opened' : u = v
  <2>1. Opened' = Opened \cup {t}
    BY <1>4, <1>7 DEF Opened
  <2>2. ~reopened' => Opened = {}
    BY <1>1, <1>2, <1>6 DEF RunHolds
  <2>3. QED BY <2>1, <2>2
<1>12. \A e \in ReturnCalls \ {c} :
          /\ Opened' = Opened \/ (returning[e].op = "creating" => e \in others)
          /\ \A u \in Returns :
                \/ snapshot'[u] = snapshot[u]
                \/ returning[e].op \in {"replacing", "heading", "validating"}
                      /\ returning[e].target = u => e \in others
  BY <1>2
<1>13. /\ snapshot' \in [Returns -> SUBSET [by : ReturnCalls, lines : Bodies]]
       /\ torn' \subseteq Returns /\ latest' \in [Returns -> Bodies \cup {{}}]
       /\ reopened' \in BOOLEAN
  BY <1>1, <1>2, <1>6 DEF ReturnTypeOK
<1>14. \A u \in Returns : /\ header[u] # NoHeader => header'[u] # NoHeader
                          /\ header'[u] = NoHeader => snapshot'[u] = {}
  BY <1>1, <1>2, <1>4, <1>7 DEF TargetsOpen
<1>15. others \in SUBSET ReturnCalls
  OBVIOUS
<1> HIDE DEF others
<1>16. QED
  BY <1>3, <1>4, <1>5, <1>7, <1>9, <1>10, <1>11, <1>12, <1>13, <1>14, <1>15, ReturnStepHolds

\* The DELETE that sees a body is refused and ends the run; the other run's body is to come.
LEMMA StartReplaceStep ==
    ASSUME ReturnInv, NEW c \in ReturnCalls, NEW cohort \in Cohorts, NEW rules \in RuleSets,
           StartReplace(c, cohort, rules)
    PROVE  ReturnInv'
<1> DEFINE u == returning[c].target
           body == Composed(cohort)
           fails == Failures(Active(rules), body)
<1>1. /\ ReturnTypeOK /\ TargetsOpen /\ returning[c].op = "loading"
      /\ UNCHANGED <<header, snapshot, torn, reopened>>
  BY DEF StartReplace, ReturnInv
<1>2. u \in Returns /\ header[u] # NoHeader
  BY <1>1, ReturnShapes DEF Loading, TargetsOpen
<1>3. body \in Bodies /\ Active(rules) \in Applied /\ fails \in AllFailures
  BY BodiesTyped, ActiveApplied, FailuresTyped
<1>4. torn' \subseteq Returns /\ latest \in [Returns -> Bodies \cup {{}}]
  BY <1>1 DEF ReturnTypeOK
<1> HIDE DEF body
<1>5. ASSUME snapshot[u] = {}, UNCHANGED latest,
             returning' = [returning EXCEPT ![c] =
                [op |-> "replacing", target |-> u, lines |-> body, late |-> FALSE,
                 failures |-> fails]]
      PROVE  ReturnInv'
  <2> DEFINE next == [op |-> "replacing", target |-> u, lines |-> body, late |-> FALSE,
                      failures |-> fails]
  <2> HIDE DEF u
  <2>1. /\ next \in HeldReturns /\ next.op = "replacing" /\ next.target = u
        /\ next.lines = body /\ next.failures = fails
    <3> HIDE DEF fails
    <3>1. QED BY <1>2, <1>3 DEF HeldReturns, Composing
  <2>2. returning'[c] = next
    BY <1>1, <1>5 DEF ReturnTypeOK
  <2>3. returning' = [returning EXCEPT ![c] = next]
    BY <1>5
  <2> HIDE DEF next
  <2>4. RunHolds(c)'
    BY <1>1, <1>3, <1>5, <2>1, <2>2 DEF RunHolds
  <2>5. QED BY <1>1, <1>2, <1>4, <1>5, <2>1, <2>3, <2>4, QuietReturnStep
<1>6. ASSUME latest' = [latest EXCEPT ![u] = body],
             returning' = [returning EXCEPT ![c] = NoReturning]
      PROVE  ReturnInv'
  <2>1. NoReturning \in HeldReturns /\ NoReturning.op = "idle"
    BY DEF HeldReturns, NoReturning
  <2>2. returning'[c] = NoReturning
    BY <1>1, <1>6 DEF ReturnTypeOK
  <2>3. RunHolds(c)'
    BY <2>1, <2>2 DEF RunHolds
  <2>4. latest' \in [Returns -> Bodies \cup {{}}]
    BY <1>2, <1>3, <1>4, <1>6
  <2>5. QED BY <1>1, <1>4, <1>6, <2>1, <2>3, <2>4, QuietReturnStep
<1>7. QED BY <1>5, <1>6 DEF StartReplace, Replaceable, body

LEMMA BeginValidateStep ==
    ASSUME ReturnInv, NEW c \in ReturnCalls, NEW t \in Returns, NEW rules \in RuleSets,
           BeginValidate(c, t, rules)
    PROVE  ReturnInv'
<1> DEFINE fails == Failures(rules, Lines(t))
           next == [op |-> "validating", target |-> t, failures |-> fails, late |-> FALSE]
<1>1. /\ ReturnTypeOK /\ TargetsOpen /\ returning[c] = NoReturning /\ snapshot[t] # {}
      /\ UNCHANGED <<header, snapshot, torn, latest, reopened>>
      /\ returning' = [returning EXCEPT ![c] = next]
  BY DEF BeginValidate, ReturnInv
<1>2. rules \in Applied /\ fails \in AllFailures
  BY <1>1, LinesTyped, FailuresTyped, ActiveApplied
<1>3. /\ next \in HeldReturns /\ next.op = "validating" /\ next.target = t
      /\ next.failures = fails
  <2> HIDE DEF fails
  <2>1. QED BY <1>2 DEF HeldReturns, Validating
<1>4. header[t] # NoHeader
  BY <1>1 DEF TargetsOpen
<1> HIDE DEF next
<1>5. returning'[c] = next
  BY <1>1 DEF ReturnTypeOK
<1>6. Lines(t)' = Lines(t)
  BY <1>1 DEF Lines
<1>7. RunHolds(c)'
  BY <1>2, <1>3, <1>5, <1>6 DEF RunHolds
<1>8. torn' \subseteq Returns /\ latest' \in [Returns -> Bodies \cup {{}}]
      /\ returning[c].op # "heading"
  BY <1>1 DEF ReturnTypeOK, NoReturning
<1>9. QED BY <1>1, <1>3, <1>4, <1>7, <1>8, QuietReturnStep

\* A run cut short before it writes the return's row leaves the return torn.
LEMMA AbandonReturnStep ==
    ASSUME ReturnInv, NEW c \in ReturnCalls, AbandonReturn(c)
    PROVE  ReturnInv'
<1>1. /\ ReturnTypeOK /\ UNCHANGED <<header, snapshot, latest, reopened>>
      /\ torn' = IF returning[c].op = "heading" THEN torn \cup {returning[c].target} ELSE torn
      /\ returning' = [returning EXCEPT ![c] = NoReturning]
  BY DEF AbandonReturn, ReturnInv
<1>2. NoReturning \in HeldReturns /\ NoReturning.op = "idle"
  BY DEF HeldReturns, NoReturning
<1>3. returning'[c] = NoReturning
  BY <1>1 DEF ReturnTypeOK
<1>4. RunHolds(c)'
  BY <1>2, <1>3 DEF RunHolds
<1>5. returning[c].op = "heading" => returning[c].target \in Returns
  BY <1>1, ReturnShapes DEF Composing
<1>6. torn' \subseteq Returns /\ torn \subseteq torn' /\ latest' \in [Returns -> Bodies \cup {{}}]
  BY <1>1, <1>5 DEF ReturnTypeOK
<1>7. QED BY <1>1, <1>2, <1>4, <1>6, QuietReturnStep

\* The body is there; who looked before, of this return, is late.
LEMMA CommitReplaceStep ==
    ASSUME ReturnInv, NEW c \in ReturnCalls, CommitReplace(c)
    PROVE  ReturnInv'
<1> DEFINE d == returning[c]
           u == d.target
           lot == [by |-> c, lines |-> d.lines]
           next == [d EXCEPT !.op = "heading"]
           others == {e \in ReturnCalls :
                        returning[e].op \in {"replacing", "heading", "validating"}
                          /\ returning[e].target = u}
<1>1. /\ ReturnTypeOK /\ TargetsOpen /\ RunHolds(c) /\ d.op = "replacing"
      /\ snapshot' = [snapshot EXCEPT ![u] = @ \cup {lot}]
      /\ latest' = [latest EXCEPT ![u] = d.lines]
      /\ Outdates(c, next, others)
      /\ UNCHANGED <<header, torn, reopened>>
  BY DEF CommitReplace, ReturnInv
<1>2. d \in Composing /\ u \in Returns /\ d.lines \in Bodies
  BY <1>1, ReturnShapes DEF Composing
<1>3. /\ returning'[c] = next
      /\ \A e \in ReturnCalls \ {c} : CallCarried(e, others)
      /\ returning' = [e \in ReturnCalls |-> returning'[e]]
  <2>1. \A e \in others : returning[e] # NoReturning
    BY DEF NoReturning
  <2> HIDE DEF next
  <2>2. QED BY <1>1, <2>1, OutdatesCarries
<1>4. /\ next \in HeldReturns /\ next.op = "heading" /\ next.target = u
      /\ next.lines = d.lines /\ next.failures = d.failures /\ next.late = d.late
  BY <1>2 DEF HeldReturns, Composing
<1>5. /\ snapshot'[u] = snapshot[u] \cup {lot}
      /\ \A t \in Returns \ {u} : snapshot'[t] = snapshot[t]
      /\ snapshot' \in [Returns -> SUBSET [by : ReturnCalls, lines : Bodies]]
  <2>1. lot \in [by : ReturnCalls, lines : Bodies]
    BY <1>2
  <2> HIDE DEF lot, u
  <2>2. QED BY <1>1, <1>2, <2>1 DEF ReturnTypeOK
<1>6. torn' \subseteq Returns /\ latest' \in [Returns -> Bodies \cup {{}}] /\ reopened' \in BOOLEAN
      /\ header' \in [Returns -> {NoHeader} \cup HeaderRow]
  BY <1>1, <1>2 DEF ReturnTypeOK, HeaderRow
<1>7. header[u] # NoHeader
  BY <1>1 DEF TargetsOpen
<1>8. \A t \in Returns : /\ header[t] # NoHeader => header'[t] # NoHeader
                         /\ header'[t] = NoHeader => snapshot'[t] = {}
  BY <1>1, <1>5, <1>7 DEF TargetsOpen
<1>9. ~d.late => snapshot[u] = {}
  BY <1>1, <1>2 DEF RunHolds
<1>10. \E rules \in Applied : d.failures = Failures(rules, d.lines)
  BY <1>1 DEF RunHolds
<1>11. Opened' = Opened
  BY <1>1 DEF Opened
<1>12. others \in SUBSET ReturnCalls
  OBVIOUS
<1>13. \A e \in ReturnCalls \ {c} :
          /\ Opened' = Opened \/ (returning[e].op = "creating" => e \in others)
          /\ \A t \in Returns :
                \/ snapshot'[t] = snapshot[t]
                \/ returning[e].op \in {"replacing", "heading", "validating"}
                      /\ returning[e].target = t => e \in others
  BY <1>5, <1>11
<1> HIDE DEF others, next
<1>14. RunHolds(c)'
  BY <1>2, <1>3, <1>4, <1>5, <1>9, <1>10 DEF RunHolds
<1>15. ASSUME NEW t \in Returns, header'[t] # NoHeader, t \notin torn', Unheaded(t)'
       PROVE  Agrees(t)'
  <2>1. t # u
    BY <1>3, <1>4, <1>15 DEF Unheaded
  <2>2. Unheaded(t)
    BY <1>1, <1>3, <1>15, UnheadedBefore
  <2>3. Agrees(t)
    BY <1>1, <1>15, <2>2 DEF ReturnInv
  <2>4. QED BY <1>1, <1>5, <2>1, <2>3, AgreesStill
<1>16. ~reopened' => \A t, v \in Opened' : t = v
  BY <1>1, <1>11 DEF ReturnInv
<1>17. header'[next.target] # NoHeader
  BY <1>1, <1>4, <1>7
<1> HIDE DEF d, u
<1>18. QED
  BY <1>3, <1>4, <1>5, <1>6, <1>8, <1>12, <1>13, <1>14, <1>15, <1>16, <1>17, ReturnStepHolds

\* The row is written of the body that is there, or the return is torn.
LEMMA WriteHeaderStep ==
    ASSUME ReturnInv, NEW c \in ReturnCalls, WriteHeader(c)
    PROVE  ReturnInv'
<1> DEFINE d == returning[c]
           u == d.target
           row == [status |-> "PREPARATION", count |-> Cardinality(d.lines),
                   failures |-> d.failures]
<1>1. /\ ReturnTypeOK /\ TargetsOpen /\ RunHolds(c) /\ d.op = "heading"
      /\ header' = [header EXCEPT ![u] = row]
      /\ torn' = IF d.late THEN torn \cup {u} ELSE torn
      /\ returning' = [returning EXCEPT ![c] = NoReturning]
      /\ UNCHANGED <<snapshot, latest, reopened>>
  BY DEF WriteHeader, ReturnInv
<1>2. /\ d \in Composing /\ u \in Returns /\ d.lines \in Bodies /\ d.failures \in AllFailures
      /\ d.late \in BOOLEAN
  BY <1>1, ReturnShapes DEF Composing
<1>3. /\ returning'[c] = NoReturning
      /\ \A e \in ReturnCalls \ {c} : CallCarried(e, {})
      /\ returning' = [e \in ReturnCalls |-> returning'[e]]
  BY <1>1, SetCarries
<1>4. NoReturning \in HeldReturns /\ NoReturning.op = "idle"
  BY DEF HeldReturns, NoReturning
<1>5. row \in HeaderRow /\ row # NoHeader
  <2>1. d.lines \in SUBSET AllLines
    BY <1>2 DEF AllLines
  <2>2. Cardinality(d.lines) \in 0..Cardinality(AllLines)
    BY <2>1, LinesAreFinite
  <2>3. QED BY <1>2, <2>2 DEF HeaderRow, NoHeader
<1>6. row.count = Cardinality(d.lines) /\ row.failures = d.failures
  OBVIOUS
<1> HIDE DEF row
<1>7. /\ header'[u] = row
      /\ \A t \in Returns \ {u} : header'[t] = header[t]
      /\ header' \in [Returns -> {NoHeader} \cup HeaderRow]
  BY <1>1, <1>2, <1>5 DEF ReturnTypeOK, HeaderRow
<1>8. Opened' = Opened
  <2>1. header[u] # NoHeader
    BY <1>1 DEF TargetsOpen
  <2>2. QED BY <1>5, <1>7, <2>1 DEF Opened
<1>9. ~d.late => snapshot[u] = {[by |-> c, lines |-> d.lines]}
  BY <1>1, <1>2 DEF RunHolds
<1>10. PICK rules \in Applied : d.failures = Failures(rules, d.lines)
  BY <1>1 DEF RunHolds
<1>11. RunHolds(c)'
  BY <1>3, <1>4 DEF RunHolds
<1>12. ASSUME NEW t \in Returns, header'[t] # NoHeader, t \notin torn', Unheaded(t)'
       PROVE  Agrees(t)'
  <2>1. CASE t = u
    <3>1. ~d.late /\ snapshot'[t] = {[by |-> c, lines |-> d.lines]}
      BY <1>1, <1>9, <1>12, <2>1
    <3> DEFINE lot == [by |-> c, lines |-> d.lines]
    <3>2. lot.lines = d.lines
      OBVIOUS
    <3>3. snapshot'[t] = {lot}
      BY <3>1
    <3> HIDE DEF lot, d
    <3>4. Lines(t)' = d.lines
      BY <3>2, <3>3 DEF Lines
    <3>5. Cardinality(snapshot'[t]) = 1
      BY <3>3, FS_Singleton
    <3>6. QED BY <1>6, <1>7, <1>10, <2>1, <3>4, <3>5 DEF Agrees
  <2>2. CASE t # u
    <3>1. Unheaded(t)
      BY <1>3, <1>12, <2>2, UnheadedBefore
    <3>2. header'[t] = header[t] /\ t \notin torn
      BY <1>1, <1>7, <1>12, <2>2
    <3>3. Agrees(t)
      BY <1>12, <3>1, <3>2 DEF ReturnInv
    <3>4. QED BY <1>1, <3>2, <3>3, AgreesStill
  <2>3. QED BY <2>1, <2>2
<1>13. /\ snapshot' \in [Returns -> SUBSET [by : ReturnCalls, lines : Bodies]]
       /\ torn' \subseteq Returns /\ latest' \in [Returns -> Bodies \cup {{}}]
       /\ reopened' \in BOOLEAN
  BY <1>1, <1>2 DEF ReturnTypeOK
<1>14. \A t \in Returns : /\ header[t] # NoHeader => header'[t] # NoHeader
                          /\ header'[t] = NoHeader => snapshot'[t] = {}
  BY <1>1, <1>5, <1>7 DEF TargetsOpen
<1>15. ~reopened' => \A t, v \in Opened' : t = v
  BY <1>1, <1>8 DEF ReturnInv
<1>16. UNCHANGED snapshot
  BY <1>1
<1> HIDE DEF d, u
<1>17. QED
  BY <1>3, <1>4, <1>7, <1>8, <1>11, <1>12, <1>13, <1>14, <1>15, <1>16, ReturnStepHolds

\* The failures written are those of the body that is there, or the return is torn.
LEMMA WriteValidationStep ==
    ASSUME ReturnInv, NEW c \in ReturnCalls, WriteValidation(c)
    PROVE  ReturnInv'
<1> DEFINE d == returning[c]
           u == d.target
           row == [status |-> "VALIDATION", count |-> header[u].count, failures |-> d.failures]
<1>1. /\ ReturnTypeOK /\ TargetsOpen /\ RunHolds(c) /\ d.op = "validating"
      /\ torn' = IF d.late THEN torn \cup {u} ELSE torn
      /\ returning' = [returning EXCEPT ![c] = NoReturning]
      /\ UNCHANGED <<snapshot, latest, reopened>>
  BY DEF WriteValidation, ReturnInv
<1>2. d \in Validating /\ u \in Returns /\ d.failures \in AllFailures /\ d.late \in BOOLEAN
  BY <1>1, ReturnShapes DEF Validating
<1>3. /\ returning'[c] = NoReturning
      /\ \A e \in ReturnCalls \ {c} : CallCarried(e, {})
      /\ returning' = [e \in ReturnCalls |-> returning'[e]]
  BY <1>1, SetCarries
<1>4. NoReturning \in HeldReturns /\ NoReturning.op = "idle"
  BY DEF HeldReturns, NoReturning
<1>5. header[u] # NoHeader /\ header[u] \in HeaderRow
  BY <1>1, <1>2 DEF TargetsOpen, ReturnTypeOK, HeaderRow
<1>6. row \in HeaderRow /\ row # NoHeader
  BY <1>2, <1>5 DEF HeaderRow, NoHeader
<1>7. header' = [header EXCEPT ![u] = row]
  <2>1. header' = [header EXCEPT ![u].status = "VALIDATION", ![u].failures = d.failures]
    BY DEF WriteValidation
  <2>2. header = [t \in Returns |-> header[t]]
    BY <1>1 DEF ReturnTypeOK
  <2>3. header[u] = [status |-> header[u].status, count |-> header[u].count,
                     failures |-> header[u].failures]
    BY <1>5 DEF HeaderRow
  <2>4. [header EXCEPT ![u].status = "VALIDATION"][u] =
           [status |-> "VALIDATION", count |-> header[u].count, failures |-> header[u].failures]
    BY <1>2, <2>2, <2>3
  <2>5. [header EXCEPT ![u].status = "VALIDATION", ![u].failures = d.failures][u] = row
    BY <1>2, <2>2, <2>4
  <2>6. QED BY <1>2, <2>1, <2>2, <2>5
<1>8. row.count = header[u].count /\ row.failures = d.failures
  OBVIOUS
<1> HIDE DEF row
<1>9. /\ header'[u] = row
      /\ \A t \in Returns \ {u} : header'[t] = header[t]
      /\ header' \in [Returns -> {NoHeader} \cup HeaderRow]
  BY <1>1, <1>2, <1>6, <1>7 DEF ReturnTypeOK, HeaderRow
<1>10. Opened' = Opened
  BY <1>5, <1>6, <1>9 DEF Opened
<1>11. ~d.late => \E rules \in Applied : d.failures = Failures(rules, Lines(u))
  BY <1>1, <1>2 DEF RunHolds
<1>12. RunHolds(c)'
  BY <1>3, <1>4 DEF RunHolds
<1>13. ASSUME NEW t \in Returns, header'[t] # NoHeader, t \notin torn', Unheaded(t)'
       PROVE  Agrees(t)'
  <2>1. Unheaded(t)
    BY <1>1, <1>3, <1>13, UnheadedBefore
  <2>2. t \notin torn /\ header[t] # NoHeader
    BY <1>1, <1>5, <1>9, <1>13
  <2>3. Agrees(t)
    BY <1>13, <2>1, <2>2 DEF ReturnInv
  <2>4. CASE t = u
    <3>1. ~d.late /\ Lines(t)' = Lines(t)
      BY <1>1, <1>13, <2>4 DEF Lines
    <3>2. QED BY <1>1, <1>8, <1>9, <1>11, <2>3, <2>4, <3>1 DEF Agrees
  <2>5. CASE t # u
    BY <1>1, <1>9, <2>3, <2>5, AgreesStill
  <2>6. QED BY <2>4, <2>5
<1>14. /\ snapshot' \in [Returns -> SUBSET [by : ReturnCalls, lines : Bodies]]
       /\ torn' \subseteq Returns /\ latest' \in [Returns -> Bodies \cup {{}}]
       /\ reopened' \in BOOLEAN
  BY <1>1, <1>2 DEF ReturnTypeOK
<1>15. \A t \in Returns : /\ header[t] # NoHeader => header'[t] # NoHeader
                          /\ header'[t] = NoHeader => snapshot'[t] = {}
  BY <1>1, <1>6, <1>9 DEF TargetsOpen
<1>16. ~reopened' => \A t, v \in Opened' : t = v
  BY <1>1, <1>10 DEF ReturnInv
<1>17. UNCHANGED snapshot
  BY <1>1
<1> HIDE DEF d, u
<1>18. QED
  BY <1>3, <1>4, <1>9, <1>10, <1>12, <1>13, <1>14, <1>15, <1>16, <1>17, ReturnStepHolds

LEMMA ReturnStart == ReturnInit => ReturnInv
<1> SUFFICES ASSUME ReturnInit PROVE ReturnInv
  OBVIOUS
<1>1. ReturnTypeOK
  BY DEF ReturnInit, ReturnTypeOK
<1>2. TargetsOpen /\ Opened = {}
  BY DEF ReturnInit, TargetsOpen, NoReturning, Opened
<1>3. \A c \in ReturnCalls : RunHolds(c)
  BY DEF ReturnInit, RunHolds, NoReturning
<1>4. QED BY <1>1, <1>2, <1>3 DEF ReturnInit, ReturnInv

\* Nothing but what the parts of the invariant read.
LEMMA ReturnStutters ==
    ASSUME ReturnInv, UNCHANGED returnVars
    PROVE  ReturnInv'
<1>1. UNCHANGED <<header, snapshot, returning, torn, latest, reopened>>
  BY DEF returnVars
<1>2. ReturnTypeOK' /\ TargetsOpen'
  BY <1>1 DEF ReturnInv, ReturnTypeOK, TargetsOpen
<1>3. Opened' = Opened /\ \A t : Lines(t)' = Lines(t)
  BY <1>1 DEF Opened, Lines
<1>4. \A c \in ReturnCalls : RunHolds(c)'
  BY <1>1, <1>3 DEF ReturnInv, RunHolds
<1>5. \A t \in Returns : header'[t] # NoHeader /\ t \notin torn' /\ Unheaded(t)' => Agrees(t)'
  BY <1>1, <1>3 DEF ReturnInv, Unheaded, Agrees
<1>6. QED BY <1>1, <1>2, <1>3, <1>4, <1>5 DEF ReturnInv

LEMMA ReturnInvariant == ReturnSpec => []ReturnInv
<1>1. ReturnInv /\ [ReturnNext]_returnVars => ReturnInv'
  <2> SUFFICES ASSUME ReturnInv, [ReturnNext]_returnVars PROVE ReturnInv'
    OBVIOUS
  <2>1. CASE UNCHANGED returnVars
    BY <2>1, ReturnStutters
  <2>2. ASSUME NEW c \in ReturnCalls,
               \/ FindReturn(c) \/ CommitReplace(c) \/ WriteHeader(c)
               \/ WriteValidation(c) \/ AbandonReturn(c)
        PROVE  ReturnInv'
    BY <2>2, FindReturnStep, CommitReplaceStep, WriteHeaderStep, WriteValidationStep,
       AbandonReturnStep
  <2>3. ASSUME NEW c \in ReturnCalls, NEW t \in Returns, CreateReturn(c, t) PROVE ReturnInv'
    BY <2>3, CreateReturnStep
  <2>4. ASSUME NEW c \in ReturnCalls, NEW t \in Returns, NEW rules \in RuleSets,
               BeginValidate(c, t, rules)
        PROVE  ReturnInv'
    BY <2>4, BeginValidateStep
  <2>5. ASSUME NEW c \in ReturnCalls, NEW cohort \in Cohorts, NEW rules \in RuleSets,
               StartReplace(c, cohort, rules)
        PROVE  ReturnInv'
    BY <2>5, StartReplaceStep
  <2>6. QED BY <2>1, <2>2, <2>3, <2>4, <2>5 DEF ReturnNext
<1>2. QED BY <1>1, ReturnStart, PTL DEF ReturnSpec

\* The rows, the bodies and what the runs hold keep their types.
THEOREM ReturnTypeCorrect == ReturnSpec => []ReturnTypeOK
<1>1. ReturnInv => ReturnTypeOK
  BY DEF ReturnInv
<1>2. QED BY <1>1, ReturnInvariant, PTL

\* A return that no run left torn or is about to write says what its snapshot holds,
\* whatever composes, refusals, crashes and validations went before.
THEOREM ReturnIsItsSnapshotHolds == ReturnSpec => []ReturnIsItsSnapshot
<1>1. ReturnInv => ReturnIsItsSnapshot
  BY DEF ReturnInv, ReturnIsItsSnapshot, Opened, Agrees, Unheaded
<1>2. QED BY <1>1, ReturnInvariant, PTL

\* One return of a type for a year, unless two runs looked before either created it.
THEOREM OneReturnHolds == ReturnSpec => []OneReturn
<1>1. ReturnInv => OneReturn
  BY AtMostOne DEF ReturnInv, OneReturn
<1>2. QED BY <1>1, ReturnInvariant, PTL
-----------------------------------------------------------------------------
(* The run of the four workflows: a behaviour of it is one of each.         *)

\* Every workflow starts in its initial states, and a step of the run is a step of
\* a workflow or leaves it alone.
LEMMA PartsAreParts ==
    PartsSpec => AdmissionsSpec /\ BursarySpec /\ RefundSpec /\ ReturnSpec
<1>1. PartsInit => AdmissionsInit /\ BursaryInit /\ RefundInit /\ ReturnInit
  BY DEF PartsInit
<1>2. [PartsNext]_partVars =>
         /\ [AdmissionsNext]_admissionsVars /\ [BursaryNext]_bursaryVars
         /\ [RefundNext]_refundVars /\ [ReturnNext]_returnVars
  BY DEF PartsNext, partVars, Admitting, Awarding, Refunding, Returning
<1>3. QED
  BY <1>1, <1>2, PTL DEF PartsSpec, AdmissionsSpec, BursarySpec, RefundSpec, ReturnSpec

\* The rows and the calls of all four keep their types.
THEOREM PartsTypeCorrect == PartsSpec => []PartsTypeOK
<1>1. PartsSpec => [](AdmissionsTypeOK /\ BursaryTypeOK /\ RefundTypeOK /\ ReturnTypeOK)
  BY PartsAreParts, AdmissionsTypeCorrect, BursaryTypeCorrect, RefundTypeCorrect,
     ReturnTypeCorrect, PTL
<1>2. AdmissionsTypeOK /\ BursaryTypeOK /\ RefundTypeOK /\ ReturnTypeOK => PartsTypeOK
  BY DEF PartsTypeOK
<1>3. QED BY <1>1, <1>2, PTL

\* There is one return of a type for a year, and its row says what its snapshot holds,
\* except after a creation raced (reopened) and where a run was cut short or overtaken
\* (torn).
THEOREM ReturnsStandHolds == PartsSpec => []ReturnsStand
<1>1. OneReturn /\ ReturnIsItsSnapshot => ReturnsStand
  BY DEF ReturnsStand
<1>2. QED BY <1>1, PartsAreParts, OneReturnHolds, ReturnIsItsSnapshotHolds, PTL
=============================================================================
