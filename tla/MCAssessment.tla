---------------------------- MODULE MCAssessment ----------------------------
(***************************************************************************)
(* One run for a student's year: the registrations for modules, the        *)
(* attempts at assessments, the second marking and the anonymous label of  *)
(* a script, the module results over what AttemptOutcomes promises of      *)
(* attempts (and AssessmentAttempt is checked to implement), and the       *)
(* decision on the year and the award, for students with two or three      *)
(* results.  "part" says which of these a behaviour is about; the          *)
(* variables of the others stand still, so that the states of the parts    *)
(* add up and do not multiply.                                             *)
(***************************************************************************)
EXTENDS ModuleRegistrations, AssessmentAttempt, SecondMarking, AnonymousMarking,
        ModuleResults, YearDecision, TLC

VARIABLE part

\* an essay, with or without a mark, or an essay and an exam, of which a better
\* essay alone brings the module to the mark that can be compensated
YearComponents ==
    {<<[weighting |-> 100, mark |-> m]>> : m \in {NoMark, 35}}
      \cup {<<[weighting |-> 20, mark |-> 20], [weighting |-> 80, mark |-> 20]>>}

\* a year of more credits than a full one, one of fewer, and one after another year;
\* everything is ratified, or all but the first result
YearShapes ==
    LET ShapeOf(credits, past) ==
            [i \in DOMAIN credits |->
               [credits |-> credits[i], thisYear |-> i \notin past, graded |-> i # 2, confirmed |-> TRUE]]
        ratified == {ShapeOf(<<30, 60, 60>>, {}), ShapeOf(<<40, 40>>, {}), ShapeOf(<<20, 60, 60>>, {1})}
    IN  ratified \cup {[s EXCEPT ![1].confirmed = FALSE] : s \in ratified}

\* overrides: two modules of sixty credits do not both fit, and neither do one of
\* thirty and one of sixty; a pass mark, a threshold and boundaries out of order
YearRules ==
    {DefaultRules,
     [DefaultRules EXCEPT !.maxCompensatedCredits = 60],
     [DefaultRules EXCEPT !.passMark = 30, !.maxCompensatedCredits = 30, !.withdrawThreshold = 25,
                          !.honoursBoundaries = <<60, 70, 30>>, !.pgtBoundaries = <<35>>,
                          !.subHonoursPassMark = 70]}

\* the parts share their model values, to keep this group small
Symmetry == Permutations(Users) \cup Permutations(Requests) \cup Permutations(Rows)

\* the other parts have no results of a year, and one limit on credits
NoYear == results = <<>> /\ level = "LEVEL_6" /\ rules = DefaultRules

PartsInit ==
    /\ part \in {"registrations", "attempts", "second marks", "labels", "results", "year"}
    /\ RegistrationsInit /\ Init /\ SecondInit /\ LabelInit /\ ResultsInit
    /\ part # "registrations" => \A e \in Enrolled, l \in CreditLimits : limit[e] <= l
    /\ IF part = "year" THEN YearInit ELSE NoYear

partVars == <<part, registrationVars, vars, secondVars, labelVars, resultsVars, yearVars>>

Enrolling ==
    /\ part = "registrations" /\ RegistrationsNext
    /\ UNCHANGED <<part, vars, secondVars, labelVars, resultsVars, yearVars>>
Marking ==
    /\ part = "attempts" /\ Next
    /\ UNCHANGED <<part, registrationVars, secondVars, labelVars, resultsVars, yearVars>>
MarkingAgain ==
    /\ part = "second marks" /\ SecondNext
    /\ UNCHANGED <<part, registrationVars, vars, labelVars, resultsVars, yearVars>>
Labelling ==
    /\ part = "labels" /\ LabelNext
    /\ UNCHANGED <<part, registrationVars, vars, secondVars, resultsVars, yearVars>>
Resulting ==
    /\ part = "results" /\ ResultsNext
    /\ UNCHANGED <<part, registrationVars, vars, secondVars, labelVars, yearVars>>
Deciding ==
    /\ part = "year" /\ YearNext
    /\ UNCHANGED <<part, registrationVars, vars, secondVars, labelVars, resultsVars>>

PartsNext == Enrolling \/ Marking \/ MarkingAgain \/ Labelling \/ Resulting \/ Deciding
PartsSpec == PartsInit /\ [][PartsNext]_partVars

PartsTypeOK == RegistrationsTypeOK /\ TypeOK /\ SecondTypeOK /\ LabelTypeOK /\ ResultsTypeOK
-----------------------------------------------------------------------------
\* Whatever calls fail, are refused or are abandoned on the way, a script has one
\* second marker at work and one label to be marked under.
OnePerScript == OneOpenRecord /\ OneLabel
=============================================================================
