----------------------------- MODULE SecondMarking -----------------------------
(***************************************************************************)
(* Second marking of one script, one student's work for one assessment:    *)
(* api/marks/second-marking.service.ts.  A call reads and checks, then     *)
(* creates a SecondMarkingRecord or writes one by id; others run in        *)
(* between.  Records are never deleted.  What reconcileMarks does to an    *)
(* attempt afterwards is AssessmentAttempt!PropagateAgreedMark.  Marks are *)
(* in hundredths of a point.                                               *)
(***************************************************************************)
EXTENDS Integers, FiniteSets

CONSTANTS
    Records,             \* SecondMarkingRecord ids
    Markers,
    RawMarks, SecondMarks, ReconciledMarks,
    Tolerances,          \* values of toleranceThreshold, the default among them
    MarkingCalls,        \* calls that may be in flight at once
    NotGiven             \* an option or a column without a value

ASSUME SecondAssumption ==
    /\ RawMarks \cup SecondMarks \cup ReconciledMarks \cup Tolerances \subseteq Nat
    /\ NotGiven \notin Markers \cup RawMarks \cup ReconciledMarks

VARIABLES
    record,      \* the SecondMarkingRecord rows
    marking,     \* what each call holds
    settled,     \* history: how each reconciliation came by its mark
    overwritten, \* history: records some write of which went by an outdated read
    doubledUp    \* history: a record was created by force or by an outdated read

secondVars == <<record, marking, settled, overwritten, doubledUp>>

NoMarking == [op |-> "idle"]
NoMarkRow == [state |-> "none"]
Rounded2(sum) == (sum + 1) \div 2
FirstMarks == RawMarks \cup {0}
AgreedMarks == ReconciledMarks \cup
    {Rounded2(m + n) : m \in FirstMarks, n \in FirstMarks \cup SecondMarks}
AttemptRows == [markedBy : Markers \cup {NotGiven}, raw : RawMarks \cup {NotGiven}]
Settlements == [by : {"average", "caller", "force"}, tolerance : Tolerances]

SecondTypeOK ==
    /\ record \in [Records -> {NoMarkRow} \cup
           [state : {"open", "reconciled"}, marker : Markers, first : FirstMarks,
            second : FirstMarks \cup SecondMarks, agreed : AgreedMarks \cup {NotGiven}]]
    /\ marking \in [MarkingCalls -> {NoMarking} \cup
           [op : {"assigning"}, marker : Markers, first : FirstMarks, late : BOOLEAN] \cup
           [op : {"recording"}, target : Records, mark : SecondMarks, late : BOOLEAN] \cup
           [op : {"reconciling"}, target : Records, mark : AgreedMarks,
            how : Settlements, late : BOOLEAN]]
    /\ settled \in [Records -> Settlements \cup {NotGiven}]
    /\ overwritten \subseteq Records
    /\ doubledUp \in BOOLEAN

SecondInit ==
    /\ record = [q \in Records |-> NoMarkRow]
    /\ marking = [c \in MarkingCalls |-> NoMarking]
    /\ settled = [q \in Records |-> NotGiven]
    /\ overwritten = {} /\ doubledUp = FALSE
-----------------------------------------------------------------------------
OpenRecords == {q \in Records : record[q].state = "open"}
Distance(m, n) == IF m < n THEN n - m ELSE m - n

\* c is done; the other calls that "match" have looked too early
Overtaken(c, match(_)) ==
    [d \in MarkingCalls |->
        CASE d = c -> NoMarking
          [] marking[d] = NoMarking -> NoMarking
          [] OTHER -> [marking[d] EXCEPT !.late = @ \/ match(marking[d])]]

\* assignSecondMarker, given what the attempt says; "late" is also what force lets
\* through
BeginAssign(c, marker, attemptRow, force) ==
    /\ marking[c] = NoMarking
    /\ marker # attemptRow.markedBy
    /\ OpenRecords = {} \/ force
    /\ marking' = [marking EXCEPT ![c] =
         [op |-> "assigning", marker |-> marker, late |-> OpenRecords # {},
          first |-> IF attemptRow.raw = NotGiven THEN 0 ELSE attemptRow.raw]]
    /\ UNCHANGED <<record, settled, overwritten, doubledUp>>

\* the second mark starts as a placeholder, the first one
WriteAssignment(c) ==
    \E q \in Records :
        LET d == marking[c]
            assigning(e) == e.op = "assigning"
        IN  /\ d.op = "assigning" /\ record[q] = NoMarkRow
            /\ record' = [record EXCEPT ![q] =
                 [state |-> "open", marker |-> d.marker, first |-> d.first,
                  second |-> d.first, agreed |-> NotGiven]]
            /\ doubledUp' = (doubledUp \/ d.late)
            /\ marking' = Overtaken(c, assigning)
            /\ UNCHANGED <<settled, overwritten>>

\* regression: reconciled records are recorded on again
BeginRecordAny(c, q, mark, user, force) ==
    /\ marking[c] = NoMarking
    /\ record[q] # NoMarkRow
    /\ record[q].marker = user \/ force
    /\ marking' = [marking EXCEPT ![c] =
         [op |-> "recording", target |-> q, mark |-> mark, late |-> FALSE]]
    /\ UNCHANGED <<record, settled, overwritten, doubledUp>>

\* recordSecondMark
BeginRecord(c, q, mark, user, force) ==
    /\ marking[c] = NoMarking
    /\ q \in OpenRecords
    /\ record[q].marker = user \/ force
    /\ marking' = [marking EXCEPT ![c] =
         [op |-> "recording", target |-> q, mark |-> mark, late |-> FALSE]]
    /\ UNCHANGED <<record, settled, overwritten, doubledUp>>

\* reconcileMarks: the average if no mark is given; out of tolerance it takes
\* both a mark and force, and what else there is asks for a third marker
BeginReconcile(c, q, mark, tolerance, force) ==
    LET within == Distance(record[q].first, record[q].second) <= tolerance
        Hold(agreed, by) == marking' = [marking EXCEPT ![c] =
            [op |-> "reconciling", target |-> q, mark |-> agreed, late |-> FALSE,
             how |-> [by |-> by, tolerance |-> tolerance]]]
    IN  /\ marking[c] = NoMarking
        /\ q \in OpenRecords
        /\ \/ mark = NotGiven /\ within /\ Hold(Rounded2(record[q].first + record[q].second), "average")
           \/ mark # NotGiven /\ within /\ Hold(mark, "caller")
           \/ mark # NotGiven /\ ~within /\ force /\ Hold(mark, "force")
        /\ UNCHANGED <<record, settled, overwritten, doubledUp>>

\* repo.update(id, data): by id, whatever the row is by now
WriteOver(c, row) ==
    LET q == marking[c].target
        same(d) == d.op \in {"recording", "reconciling"} /\ d.target = q
    IN  /\ record' = [record EXCEPT ![q] = row]
        /\ overwritten' = IF marking[c].late THEN overwritten \cup {q} ELSE overwritten
        /\ marking' = Overtaken(c, same)
        /\ UNCHANGED doubledUp

WriteSecondMark(c) ==
    /\ marking[c].op = "recording"
    /\ WriteOver(c, [record[marking[c].target] EXCEPT !.second = marking[c].mark])
    /\ UNCHANGED settled

WriteAgreedMark(c) ==
    /\ marking[c].op = "reconciling"
    /\ WriteOver(c, [record[marking[c].target] EXCEPT !.agreed = marking[c].mark,
                                                     !.state = "reconciled"])
    /\ settled' = [settled EXCEPT ![marking[c].target] = marking[c].how]

\* a failure or a crash before the write
AbandonMarking(c) ==
    /\ marking[c] # NoMarking
    /\ marking' = [marking EXCEPT ![c] = NoMarking]
    /\ UNCHANGED <<record, settled, overwritten, doubledUp>>

SecondNext ==
    \/ \E c \in MarkingCalls, force \in BOOLEAN :
          \/ \E marker \in Markers, row \in AttemptRows : BeginAssign(c, marker, row, force)
          \/ \E q \in Records :
                \/ \E mark \in SecondMarks, user \in Markers : BeginRecord(c, q, mark, user, force)
                \/ \E mark \in ReconciledMarks \cup {NotGiven}, t \in Tolerances :
                      BeginReconcile(c, q, mark, t, force)
    \/ \E c \in MarkingCalls : 
          \/ WriteAssignment(c) \/ WriteSecondMark(c) \/ WriteAgreedMark(c)
          \/ AbandonMarking(c)

SecondSpec == SecondInit /\ [][SecondNext]_secondVars
-----------------------------------------------------------------------------
\* "Reconciled records are append-only": the agreed mark stays what the two marks
\* on the row justify, their average within the tolerance unless the caller gave a
\* mark, out of it only by force.  A call that looked before another wrote may
\* break it.
AgreedIsBacked ==
    \A q \in Records \ overwritten :
        record[q].state = "reconciled" =>
            LET row == record[q]
            IN  /\ settled[q].by # "force" =>
                      Distance(row.first, row.second) <= settled[q].tolerance
                /\ settled[q].by = "average" => row.agreed = Rounded2(row.first + row.second)

\* A script has one assignment outstanding, over any number of them reconciled
\* before, unless force or a look before another creation made more.
OneOpenRecord == ~doubledUp => Cardinality(OpenRecords) <= 1
=============================================================================
