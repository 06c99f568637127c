---------------------------- MODULE YearDecision ----------------------------
(***************************************************************************)
(* From component marks to the decision on a student's year and the class  *)
(* of an award: aggregateMarks (utils/marks-aggregation.ts), the pass rule *)
(* of progressions.service.ts, decideProgression, and classifyAward over   *)
(* what awards.service.ts feeds it.                                        *)
(*                                                                         *)
(* The state is the module results of one enrolment, in the order in which *)
(* they are read (by module, within a year); they change as components are *)
(* marked or corrected and results ratified.  The year decided on is one   *)
(* of those with results.  Component marks are percentages, aggregates are *)
(* in hundredths.  The upsert of the decision's row is left out.           *)
(***************************************************************************)
EXTENDS Integers, Sequences, FiniteSets, Functions

CONSTANTS
    Components,      \* the component lists a module may have: [weighting, mark] each
    Shapes,          \* lists of results: [credits, thisYear, graded, confirmed] each
    Levels,          \* the programme levels tried
    Rules,           \* the rules tried, defaults filled in
    MarksGiven       \* the marks a component is given or corrected to

NoMark == -1         \* no final mark yet, or a result without an aggregate
Unset == -1          \* the option is not given
Component == [weighting : Int, mark : Nat \cup {NoMark}]
Shape == [credits : Nat \ {0}, thisYear : BOOLEAN, graded : BOOLEAN, confirmed : BOOLEAN]

\* the options of a decision and of a classification; ratios are percentages
Rule == [passMark : Nat \cup {Unset}, fullYearCredits : Nat, maxCompensatedCredits : Nat,
         compensationMinMark : Nat, withdrawThreshold : Nat,
         honoursBoundaries : Seq(Nat), pgtBoundaries : Seq(Nat), subHonoursPassMark : Nat]

DefaultRules ==
    [passMark |-> Unset, fullYearCredits |-> 120, maxCompensatedCredits |-> 0,
     compensationMinMark |-> 30, withdrawThreshold |-> 50,
     honoursBoundaries |-> <<70, 60, 50, 40>>, pgtBoundaries |-> <<70, 60, 50>>,
     subHonoursPassMark |-> 40]

\* a result without credits decides nothing and is left out
ASSUME YearAssumption ==
    /\ Components \subseteq Seq(Component) /\ Shapes \subseteq Seq(Shape)
    /\ Rules \subseteq Rule /\ MarksGiven \subseteq Nat

VARIABLES
    results,         \* [credits, thisYear, graded, confirmed, components, mark] each
    level,           \* of the programme
    rules            \* in force

yearVars == <<results, level, rules>>

Rounded(a, b) == (2 * a + b) \div (2 * b)

(* ---- aggregateMarks ---------------------------------------------------------- *)

\* components without a mark or a weighting do not count
Counted(components) ==
    {k \in DOMAIN components : components[k].mark # NoMark /\ components[k].weighting > 0}

AggregateMark(components) ==
    LET counted == Counted(components)
        weights == SumFunction([k \in counted |-> components[k].weighting])
        points  == SumFunction([k \in counted |-> components[k].mark * components[k].weighting])
    IN  IF weights = 0 THEN NoMark ELSE Rounded(100 * points, weights)

(* ---- decideForEnrolmentYear and decideProgression ------------------------------ *)

PassMark ==
    IF rules.passMark # Unset THEN rules.passMark
    ELSE IF level \in {"LEVEL_7", "LEVEL_8"} THEN 50 ELSE 40

\* graded: the result carries a passing grade, which counts without an aggregate
IsPass(r) ==
    /\ r.confirmed
    /\ IF r.mark = NoMark THEN r.graded ELSE r.mark >= 100 * PassMark

\* sets of results are sets of their places in the list
Credits(y, S) == SumFunction([i \in S |-> y[i].credits])
Sitting(y) == {i \in DOMAIN y : y[i].thisYear}
Passed(y) == {i \in Sitting(y) : IsPass(y[i])}
Failed(y) == Sitting(y) \ Passed(y)
Compensable(y) == {i \in Failed(y) : y[i].mark # NoMark /\ y[i].mark >= 100 * rules.compensationMinMark}

\* what is granted up to each result: in their order, each one that still fits
Granted(y) ==
    LET offered == Compensable(y)
        sum[i \in 0..Len(y)] ==
            IF i = 0 THEN 0
            ELSE sum[i - 1] + IF i \in offered /\ sum[i - 1] + y[i].credits <= rules.maxCompensatedCredits
                              THEN y[i].credits ELSE 0
    IN  sum

Compensated(y) == Granted(y)[Len(y)]
Effective(y) == Credits(y, Passed(y)) + Compensated(y)

\* regression: few failures mean that the year is repeated, many that modules are
ModerateFailuresMany(y) == Cardinality(Failed(y)) >= 2

ModerateFailures(y) == Cardinality(Failed(y)) \in 1..2

\* PROGRESS stands for AWARD as well
DecideProgression(y) ==
    LET full == rules.fullYearCredits
    IN  IF Credits(y, Sitting(y)) = 0                 THEN "REPEAT_YEAR"
        ELSE IF Effective(y) >= full                  THEN "PROGRESS"
        ELSE IF 100 * Credits(y, Passed(y)) < rules.withdrawThreshold * full THEN "WITHDRAW"
        ELSE IF ModerateFailures(y)                   THEN "REPEAT_MODULES"
        ELSE "REPEAT_YEAR"

(* ---- classifyForEnrolment and classifyAward -------------------------------------- *)

\* the averages from which a class is given, the best class first
Boundaries ==
    CASE level = "LEVEL_6" -> rules.honoursBoundaries
      [] level = "LEVEL_7" -> rules.pgtBoundaries
      [] level = "LEVEL_8" -> <<>>
      [] OTHER             -> <<rules.subHonoursPassMark>>

\* the first boundary met gives the class; 0 is FAIL, 1 the lowest class that passes
ClassOf(average) ==
    Cardinality({k \in DOMAIN Boundaries : \E j \in 1..k : average >= 100 * Boundaries[j]})

ConfirmedResults(y) == {i \in DOMAIN y : y[i].confirmed}

\* regression: a ratified result without a mark counts as a zero
ClassifyAwardSilentZero(y) ==
    LET weights == Credits(y, ConfirmedResults(y))
        marked  == {i \in ConfirmedResults(y) : y[i].mark # NoMark}
        points  == SumFunction([i \in marked |-> y[i].mark * y[i].credits])
    IN  IF weights = 0 THEN 0 ELSE ClassOf(Rounded(points, weights))

\* over the ratified results of every year
ClassifyAward(y) ==
    LET marked  == {i \in ConfirmedResults(y) : y[i].mark # NoMark}
        weights == Credits(y, marked)
        points  == SumFunction([i \in marked |-> y[i].mark * y[i].credits])
    IN  IF weights = 0 THEN 0 ELSE ClassOf(Rounded(points, weights))

(* ---- the results ------------------------------------------------------------------ *)

Result(shape, components) ==
    [credits |-> shape.credits, thisYear |-> shape.thisYear, graded |-> shape.graded,
     confirmed |-> shape.confirmed, components |-> components,
     mark |-> AggregateMark(components)]

YearInit ==
    /\ \E shape \in Shapes : \E components \in [DOMAIN shape -> Components] :
          results = [i \in DOMAIN shape |-> Result(shape[i], components[i])]
    /\ level \in Levels
    /\ rules \in Rules

\* a component is marked, or its mark corrected, and the result aggregated again
Correct(i, k, mark) ==
    /\ LET components == [results[i].components EXCEPT ![k].mark = mark]
       IN  results' = [results EXCEPT ![i].components = components,
                                      ![i].mark = AggregateMark(components)]
    /\ UNCHANGED <<level, rules>>

Ratify(i) ==
    /\ ~results[i].confirmed
    /\ results' = [results EXCEPT ![i].confirmed = TRUE]
    /\ UNCHANGED <<level, rules>>

YearNext ==
    \E i \in DOMAIN results :
        \/ \E k \in DOMAIN results[i].components, mark \in MarksGiven : Correct(i, k, mark)
        \/ Ratify(i)

YearSpec == YearInit /\ [][YearNext]_yearVars
-----------------------------------------------------------------------------
Rank(decision) ==
    CASE decision = "WITHDRAW"       -> 0
      [] decision = "REPEAT_YEAR"    -> 1
      [] decision = "REPEAT_MODULES" -> 2
      [] decision = "PROGRESS"       -> 3

\* no component's mark falls, and none is given its first mark, which may well pull
\* the aggregate down
Improved ==
    \A i \in DOMAIN results : \A k \in DOMAIN results[i].components :
        LET before == results[i].components[k].mark
            after  == results'[i].components[k].mark
        IN  before <= after /\ (before = NoMark => after = NoMark)

Taken(y) ==
    {i \in Compensable(y) : Granted(y)[i - 1] + y[i].credits <= rules.maxCompensatedCredits}

\* compensated before the step, and after it neither that nor passed
Displaced == Taken(results) \ (Taken(results') \cup Passed(results'))

\* A better component mark or a ratification makes the decision on a full year no worse,
\* over rounding, the pass mark, the withdrawal threshold and the count of failures,
\* except in the one way the order of compensation leaves open: the better result can
\* now be compensated and takes the place of a later one.  It then costs fewer credits
\* than that one has.  (decideProgression, decideForEnrolmentYear)
BetterMarkNeverHurts ==
    [][Improved /\ Credits(results, Sitting(results)) >= rules.fullYearCredits =>
          \/ Rank(DecideProgression(results')) >= Rank(DecideProgression(results))
          \/ \E i \in Taken(results') \ Compensable(results), j \in Displaced :
                i < j /\ Effective(results') + results[j].credits > Effective(results)]_yearVars

\* A better component mark never lowers the class of the award, and a ratification lowers
\* it at most to the class of the mark it brings in: an average lies between what it is
\* made of, rounding included, and a result without a mark weighs nothing.  (classifyAward)
BetterMarkKeepsClass ==
    [][Improved =>
          \/ ClassifyAward(results') >= ClassifyAward(results)
          \/ \E i \in ConfirmedResults(results') \ ConfirmedResults(results) :
                results[i].mark # NoMark /\ ClassifyAward(results') >= ClassOf(results[i].mark)]_yearVars
=============================================================================
