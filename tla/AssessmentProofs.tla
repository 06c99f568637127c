-------------------------- MODULE AssessmentProofs --------------------------
(***************************************************************************)
(* Theorems of the second marking and the anonymous label of a script, of  *)
(* the module registrations and their credit limit, of the decision on a   *)
(* year, and of the run that puts the parts of a student's year together.  *)
(***************************************************************************)
EXTENDS MCAssessment, AssessmentAttemptProofs, ModuleResultsProofs, SumTheorems

-----------------------------------------------------------------------------
(* Second marking.                                                          *)

Assigning   == [op : {"assigning"}, marker : Markers, first : FirstMarks, late : BOOLEAN]
Recording   == [op : {"recording"}, target : Records, mark : SecondMarks, late : BOOLEAN]
Reconciling == [op : {"reconciling"}, target : Records, mark : AgreedMarks,
                how : Settlements, late : BOOLEAN]
MarkRows == [state : {"open", "reconciled"}, marker : Markers, first : FirstMarks,
             second : FirstMarks \cup SecondMarks, agreed : AgreedMarks \cup {NotGiven}]

\* The row a call is about to write by id exists: rows are never deleted.
TargetsExist ==
    \A c \in MarkingCalls :
        marking[c].op \in {"recording", "reconciling"} => record[marking[c].target] # NoMarkRow

MarkingTyped == SecondTypeOK /\ TargetsExist

LEMMA MarkingShapes ==
    ASSUME SecondTypeOK, NEW c \in MarkingCalls
    PROVE  /\ marking[c] = NoMarking \/ marking[c] \in Assigning
                 \/ marking[c] \in Recording \/ marking[c] \in Reconciling
           /\ marking[c].op = "assigning" => marking[c] \in Assigning
           /\ marking[c].op = "recording" => marking[c] \in Recording
           /\ marking[c].op = "reconciling" => marking[c] \in Reconciling
BY DEF SecondTypeOK, NoMarking, Assigning, Recording, Reconciling

\* What a write leaves of the other calls: the same, but late if they are in M.
LEMMA OvertakenKeeps ==
    ASSUME SecondTypeOK, NEW M, NEW d \in MarkingCalls, marking[d] # NoMarking,
           marking'[d] = [marking[d] EXCEPT !.late = @ \/ d \in M]
    PROVE  /\ marking[d] \in Assigning => marking'[d] \in Assigning
           /\ marking[d] \in Recording =>
                 marking'[d] \in Recording /\ marking'[d].target = marking[d].target
           /\ marking[d] \in Reconciling =>
                 /\ marking'[d] \in Reconciling /\ marking'[d].target = marking[d].target
                 /\ marking'[d].mark = marking[d].mark /\ marking'[d].how = marking[d].how
           /\ ~marking'[d].late => ~marking[d].late /\ d \notin M
<1>1. CASE marking[d] \in Assigning
  <2>1. marking[d] \notin Recording /\ marking[d] \notin Reconciling
    BY <1>1 DEF Assigning, Recording, Reconciling
  <2>2. marking'[d] = [op |-> "assigning", marker |-> marking[d].marker,
                       first |-> marking[d].first, late |-> marking[d].late \/ d \in M]
    BY <1>1 DEF Assigning
  <2>3. marking'[d] \in Assigning
    BY <1>1, <2>2 DEF Assigning
  <2>4. QED BY <2>1, <2>2, <2>3
<1>2. CASE marking[d] \in Recording
  <2>1. marking[d] \notin Assigning /\ marking[d] \notin Reconciling
    BY <1>2 DEF Assigning, Recording, Reconciling
  <2>2. marking'[d] = [op |-> "recording", target |-> marking[d].target,
                       mark |-> marking[d].mark, late |-> marking[d].late \/ d \in M]
    BY <1>2 DEF Recording
  <2>3. marking'[d] \in Recording
    BY <1>2, <2>2 DEF Recording
  <2>4. QED BY <2>1, <2>2, <2>3
<1>3. CASE marking[d] \in Reconciling
  <2>1. marking[d] \notin Recording /\ marking[d] \notin Assigning
    BY <1>3 DEF Assigning, Recording, Reconciling
  <2>2. marking'[d] = [op |-> "reconciling", target |-> marking[d].target,
                       mark |-> marking[d].mark, how |-> marking[d].how,
                       late |-> marking[d].late \/ d \in M]
    BY <1>3 DEF Reconciling
  <2>3. marking'[d] \in Reconciling
    BY <1>3, <2>2 DEF Reconciling
  <2>4. QED BY <2>1, <2>2, <2>3
<1>4. QED
  BY <1>1, <1>2, <1>3, MarkingShapes

\* Both marks and their mean are marks.
LEMMA BeginReconcileHolds ==
    ASSUME MarkingTyped, NEW c \in MarkingCalls, NEW q \in Records,
           NEW mark \in ReconciledMarks \cup {NotGiven}, NEW t \in Tolerances,
           NEW force \in BOOLEAN, BeginReconcile(c, q, mark, t, force)
    PROVE  /\ record[q] \in MarkRows /\ record[q].state = "open"
           /\ \E d \in Reconciling :
                 /\ marking' = [marking EXCEPT ![c] = d]
                 /\ d.target = q /\ ~d.late
                 /\ d.how.by # "force" =>
                       Distance(record[q].first, record[q].second) <= d.how.tolerance
                 /\ d.how.by = "average" =>
                       d.mark = Rounded2(record[q].first + record[q].second)
<1> DEFINE row == record[q]
           Held(agreed, by) == [op |-> "reconciling", target |-> q, mark |-> agreed,
                                late |-> FALSE, how |-> [by |-> by, tolerance |-> t]]
<1>1. row \in MarkRows /\ row.state = "open"
  BY DEF BeginReconcile, OpenRecords, MarkingTyped, SecondTypeOK, NoMarkRow, MarkRows
<1>2. /\ Rounded2(row.first + row.second) \in AgreedMarks
      /\ \A m \in ReconciledMarks : m \in AgreedMarks
  BY <1>1 DEF MarkRows, AgreedMarks
<1>3. CASE /\ Distance(row.first, row.second) <= t
           /\ marking' = [marking EXCEPT ![c] = Held(Rounded2(row.first + row.second), "average")]
  <2>1. Held(Rounded2(row.first + row.second), "average") \in Reconciling
    BY <1>2 DEF Reconciling, Settlements
  <2>2. QED BY <1>1, <1>3, <2>1
<1>4. CASE /\ Distance(row.first, row.second) <= t /\ mark # NotGiven
           /\ marking' = [marking EXCEPT ![c] = Held(mark, "caller")]
  <2>1. Held(mark, "caller") \in Reconciling
    BY <1>2, <1>4 DEF Reconciling, Settlements
  <2>2. QED BY <1>1, <1>4, <2>1
<1>5. CASE mark # NotGiven /\ marking' = [marking EXCEPT ![c] = Held(mark, "force")]
  <2>1. Held(mark, "force") \in Reconciling
    BY <1>2, <1>5 DEF Reconciling, Settlements
  <2>2. QED BY <1>1, <1>5, <2>1
<1>6. QED
  BY <1>3, <1>4, <1>5 DEF BeginReconcile

\* What the writes by id do, to the row and to the calls.
LEMMA WriteOverHolds ==
    ASSUME MarkingTyped, NEW c \in MarkingCalls, NEW row \in MarkRows,
           marking[c].op \in {"recording", "reconciling"}, WriteOver(c, row)
    PROVE  /\ marking[c].target \in Records
           /\ record[marking[c].target] \in MarkRows
           /\ record' = [record EXCEPT ![marking[c].target] = row]
           /\ marking'[c] = NoMarking
           /\ \A d \in MarkingCalls \ {c} :
                 IF marking[d] = NoMarking THEN marking'[d] = NoMarking
                 ELSE marking'[d] = [marking[d] EXCEPT !.late = @ \/ d \in
                        {e \in MarkingCalls : /\ marking[e].op \in {"recording", "reconciling"}
                                              /\ marking[e].target = marking[c].target}]
<1>1. marking[c].target \in Records /\ record[marking[c].target] # NoMarkRow
  BY MarkingShapes DEF MarkingTyped, TargetsExist, Recording, Reconciling
<1>2. record[marking[c].target] \in MarkRows
  BY <1>1 DEF MarkingTyped, SecondTypeOK, MarkRows
<1>3. QED
  BY <1>1, <1>2 DEF WriteOver, Overtaken

\* What a call that is not late has seen is still so.
LooksHold ==
    \A c \in MarkingCalls :
        marking[c].op = "assigning" /\ ~marking[c].late => OpenRecords = {}

Backs(row, how, agreed) ==
    /\ how.by # "force" => Distance(row.first, row.second) <= how.tolerance
    /\ how.by = "average" => agreed = Rounded2(row.first + row.second)

ReadsHold ==
    \A c \in MarkingCalls :
        marking[c].op \in {"recording", "reconciling"} /\ ~marking[c].late =>
            /\ record[marking[c].target].state = "open"
            /\ marking[c].op = "reconciling" =>
                  Backs(record[marking[c].target], marking[c].how, marking[c].mark)

OneIsOpen == ~doubledUp => \A p, q \in OpenRecords : p = q

SecondInv ==
    /\ MarkingTyped
    /\ LooksHold /\ ReadsHold
    /\ AgreedIsBacked /\ OneIsOpen

\* A call that begins, or is abandoned, only has to hold what is so.
LEMMA HoldingStep ==
    ASSUME SecondInv, NEW c \in MarkingCalls, NEW d,
           marking' = [marking EXCEPT ![c] = d],
           UNCHANGED <<record, settled, overwritten, doubledUp>>,
           \/ d = NoMarking
           \/ d \in Assigning /\ (~d.late => OpenRecords = {})
           \/ d \in Recording /\ record[d.target].state = "open"
           \/ /\ d \in Reconciling /\ record[d.target].state = "open"
              /\ Backs(record[d.target], d.how, d.mark)
    PROVE  SecondInv'
<1>1. marking'[c] = d /\ \A e \in MarkingCalls \ {c} : marking'[e] = marking[e]
  BY DEF SecondInv, MarkingTyped, SecondTypeOK
<1>2. SecondTypeOK'
  BY DEF SecondInv, MarkingTyped, SecondTypeOK, Assigning, Recording, Reconciling, NoMarking
<1>3. TargetsExist'
  BY <1>1 DEF SecondInv, MarkingTyped, TargetsExist, Assigning, Recording, Reconciling,
              NoMarking, NoMarkRow
<1>4. LooksHold'
  BY <1>1 DEF SecondInv, LooksHold, OpenRecords, Assigning, Recording, Reconciling, NoMarking
<1>5. ReadsHold'
  <2>1. d.op \in {"recording", "reconciling"} =>
          /\ record[d.target].state = "open"
          /\ d.op = "reconciling" => Backs(record[d.target], d.how, d.mark)
    BY DEF Assigning, Recording, Reconciling, NoMarking
  <2>2. QED BY <1>1, <2>1 DEF SecondInv, ReadsHold, Backs
<1>6. AgreedIsBacked' /\ OneIsOpen'
  BY DEF SecondInv, AgreedIsBacked, OneIsOpen, OpenRecords
<1>7. QED
  BY <1>2, <1>3, <1>4, <1>5, <1>6 DEF SecondInv, MarkingTyped

\* The new row is the only open one, unless the look was late; whoever else is
\* about to create one is late from now on.
LEMMA AssignmentStep ==
    ASSUME SecondInv, NEW c \in MarkingCalls, WriteAssignment(c)
    PROVE  SecondInv'
<1> DEFINE M == {e \in MarkingCalls : marking[e].op = "assigning"}
<1>1. PICK q \in Records :
         /\ marking[c].op = "assigning" /\ record[q] = NoMarkRow
         /\ record' = [record EXCEPT ![q] =
              [state |-> "open", marker |-> marking[c].marker, first |-> marking[c].first,
               second |-> marking[c].first, agreed |-> NotGiven]]
         /\ doubledUp' = (doubledUp \/ marking[c].late)
         /\ UNCHANGED <<settled, overwritten>>
         /\ marking'[c] = NoMarking
         /\ \A d \in MarkingCalls \ {c} :
              IF marking[d] = NoMarking THEN marking'[d] = NoMarking
              ELSE marking'[d] = [marking[d] EXCEPT !.late = @ \/ d \in M]
         /\ DOMAIN marking' = MarkingCalls
         /\ marking' = [d \in MarkingCalls |-> marking'[d]]
  BY DEF WriteAssignment, Overtaken
<1>2. MarkingTyped /\ SecondTypeOK
  BY DEF SecondInv, MarkingTyped
<1>3. marking[c] \in Assigning
  BY <1>1, <1>2, MarkingShapes
<1>4. record'[q] \in MarkRows /\ record'[q].state = "open"
  BY <1>1, <1>2, <1>3 DEF MarkRows, Assigning, SecondTypeOK
<1>5. \A p \in Records \ {q} : record'[p] = record[p]
  BY <1>1, <1>2 DEF SecondTypeOK
<1>6. \A d \in MarkingCalls \ {c} :
        \/ marking[d] = NoMarking /\ marking'[d] = NoMarking
        \/ marking[d] \in Assigning /\ marking'[d] \in Assigning /\ marking'[d].late
        \/ /\ marking[d] \in Recording /\ marking'[d] \in Recording
           /\ marking'[d].target = marking[d].target /\ (~marking'[d].late => ~marking[d].late)
        \/ /\ marking[d] \in Reconciling /\ marking'[d] \in Reconciling
           /\ marking'[d].target = marking[d].target /\ (~marking'[d].late => ~marking[d].late)
           /\ marking'[d].how = marking[d].how /\ marking'[d].mark = marking[d].mark
  <2> SUFFICES ASSUME NEW d \in MarkingCalls \ {c}, marking[d] # NoMarking
               PROVE  \/ marking[d] \in Assigning /\ marking'[d] \in Assigning /\ marking'[d].late
                      \/ /\ marking[d] \in Recording /\ marking'[d] \in Recording
                         /\ marking'[d].target = marking[d].target
                         /\ (~marking'[d].late => ~marking[d].late)
                      \/ /\ marking[d] \in Reconciling /\ marking'[d] \in Reconciling
                         /\ marking'[d].target = marking[d].target
                         /\ (~marking'[d].late => ~marking[d].late)
                         /\ marking'[d].how = marking[d].how
                         /\ marking'[d].mark = marking[d].mark
    BY <1>1
  <2>1. marking'[d] = [marking[d] EXCEPT !.late = @ \/ d \in M]
    BY <1>1
  <2>2. marking[d] \in Assigning => d \in M
    BY DEF Assigning
  <2> HIDE DEF M
  <2>3. /\ marking[d] \in Assigning => marking'[d] \in Assigning
        /\ marking[d] \in Recording =>
              marking'[d] \in Recording /\ marking'[d].target = marking[d].target
        /\ marking[d] \in Reconciling =>
              /\ marking'[d] \in Reconciling /\ marking'[d].target = marking[d].target
              /\ marking'[d].mark = marking[d].mark /\ marking'[d].how = marking[d].how
        /\ ~marking'[d].late => ~marking[d].late /\ d \notin M
    BY ONLY <1>2, <2>1, OvertakenKeeps, d \in MarkingCalls, marking[d] # NoMarking
  <2>4. marking[d] \in Assigning \/ marking[d] \in Recording \/ marking[d] \in Reconciling
    BY <1>2, MarkingShapes
  <2>5. QED BY <2>2, <2>3, <2>4
<1> HIDE DEF M
<1>7. SecondTypeOK'
  <2>1. record' \in [Records -> {NoMarkRow} \cup MarkRows]
    BY <1>1, <1>2, <1>4 DEF SecondTypeOK, MarkRows
  <2>2. marking' \in [MarkingCalls -> {NoMarking} \cup Assigning \cup Recording \cup Reconciling]
    BY <1>1, <1>6
  <2>3. doubledUp' \in BOOLEAN
    BY <1>1, <1>2, <1>3 DEF SecondTypeOK, Assigning
  <2>4. QED BY <1>1, <1>2, <2>1, <2>2, <2>3
            DEF SecondTypeOK, MarkRows, Assigning, Recording, Reconciling
<1>8. \A d \in MarkingCalls : marking'[d].op \in {"recording", "reconciling"} =>
        /\ d # c /\ marking[d].op = marking'[d].op /\ marking[d].target \in Records
        /\ marking'[d].target = marking[d].target /\ (~marking'[d].late => ~marking[d].late)
        /\ marking[d].target # q
        /\ marking[d].op = "reconciling" =>
              marking'[d].how = marking[d].how /\ marking'[d].mark = marking[d].mark
  <2>1. \A d \in MarkingCalls : marking[d].op \in {"recording", "reconciling"} =>
          marking[d].target # q
    BY <1>1, <1>2 DEF MarkingTyped, TargetsExist
  <2>2. QED BY <1>1, <1>6, <2>1 DEF Assigning, Recording, Reconciling, NoMarking
<1>9. TargetsExist'
  BY <1>2, <1>5, <1>8 DEF MarkingTyped, TargetsExist
<1>10. LooksHold'
  BY <1>1, <1>6 DEF LooksHold, Assigning, Recording, Reconciling, NoMarking
<1>11. ReadsHold'
  BY <1>5, <1>8 DEF SecondInv, ReadsHold, Backs
<1>12. AgreedIsBacked'
  BY <1>1, <1>4, <1>5 DEF SecondInv, AgreedIsBacked
<1>13. OneIsOpen'
  <2>1. ~doubledUp' => OpenRecords = {}
    BY <1>1 DEF SecondInv, LooksHold
  <2>2. OpenRecords' \subseteq OpenRecords \cup {q}
    BY <1>5 DEF OpenRecords
  <2>3. QED BY <2>1, <2>2 DEF OneIsOpen
<1>14. QED
  BY <1>7, <1>9, <1>10, <1>11, <1>12, <1>13 DEF SecondInv, MarkingTyped

\* A write by id keeps a reconciled row from being open again, and whoever else is
\* about to write the row is late from now on.
LEMMA OverwriteStep ==
    ASSUME SecondInv, NEW c \in MarkingCalls, NEW row \in MarkRows,
           marking[c].op \in {"recording", "reconciling"}, WriteOver(c, row),
           row.state = "open" => record[marking[c].target].state = "open",
           settled' \in [Records -> Settlements \cup {NotGiven}]
    PROVE  /\ MarkingTyped' /\ LooksHold' /\ ReadsHold' /\ OneIsOpen'
           /\ marking[c].target \in Records /\ record[marking[c].target] \in MarkRows
           /\ record' = [record EXCEPT ![marking[c].target] = row]
<1> DEFINE q == marking[c].target
           M == {e \in MarkingCalls : /\ marking[e].op \in {"recording", "reconciling"}
                                      /\ marking[e].target = q}
<1>1. MarkingTyped /\ SecondTypeOK
  BY DEF SecondInv, MarkingTyped
<1>2. /\ q \in Records /\ record[q] \in MarkRows
      /\ record' = [record EXCEPT ![q] = row]
      /\ marking'[c] = NoMarking
      /\ \A d \in MarkingCalls \ {c} :
           IF marking[d] = NoMarking THEN marking'[d] = NoMarking
           ELSE marking'[d] = [marking[d] EXCEPT !.late = @ \/ d \in M]
  BY <1>1, WriteOverHolds
<1>3. \A d \in MarkingCalls \ {c} :
        \/ marking[d] = NoMarking /\ marking'[d] = NoMarking
        \/ /\ marking[d] \in Assigning /\ marking'[d] \in Assigning
           /\ (~marking'[d].late => ~marking[d].late)
        \/ /\ marking[d] \in Recording /\ marking'[d] \in Recording
           /\ marking'[d].target = marking[d].target
           /\ (~marking'[d].late => ~marking[d].late /\ marking[d].target # q)
        \/ /\ marking[d] \in Reconciling /\ marking'[d] \in Reconciling
           /\ marking'[d].target = marking[d].target
           /\ (~marking'[d].late => ~marking[d].late /\ marking[d].target # q)
           /\ marking'[d].how = marking[d].how /\ marking'[d].mark = marking[d].mark
  <2> SUFFICES ASSUME NEW d \in MarkingCalls \ {c}, marking[d] # NoMarking
               PROVE  \/ /\ marking[d] \in Assigning /\ marking'[d] \in Assigning
                         /\ (~marking'[d].late => ~marking[d].late)
                      \/ /\ marking[d] \in Recording /\ marking'[d] \in Recording
                         /\ marking'[d].target = marking[d].target
                         /\ (~marking'[d].late => ~marking[d].late /\ marking[d].target # q)
                      \/ /\ marking[d] \in Reconciling /\ marking'[d] \in Reconciling
                         /\ marking'[d].target = marking[d].target
                         /\ (~marking'[d].late => ~marking[d].late /\ marking[d].target # q)
                         /\ marking'[d].how = marking[d].how
                         /\ marking'[d].mark = marking[d].mark
    BY <1>2
  <2>1. marking'[d] = [marking[d] EXCEPT !.late = @ \/ d \in M]
    BY <1>2
  <2>2. marking[d] \in Recording \cup Reconciling /\ d \notin M => marking[d].target # q
    BY DEF Recording, Reconciling
  <2> HIDE DEF M, q
  <2>3. /\ marking[d] \in Assigning => marking'[d] \in Assigning
        /\ marking[d] \in Recording =>
              marking'[d] \in Recording /\ marking'[d].target = marking[d].target
        /\ marking[d] \in Reconciling =>
              /\ marking'[d] \in Reconciling /\ marking'[d].target = marking[d].target
              /\ marking'[d].mark = marking[d].mark /\ marking'[d].how = marking[d].how
        /\ ~marking'[d].late => ~marking[d].late /\ d \notin M
    BY ONLY <1>1, <2>1, OvertakenKeeps, d \in MarkingCalls, marking[d] # NoMarking
  <2>4. marking[d] \in Assigning \/ marking[d] \in Recording \/ marking[d] \in Reconciling
    BY <1>1, MarkingShapes
  <2>5. QED BY <2>2, <2>3, <2>4
<1>4. DOMAIN marking' = MarkingCalls /\ marking' = [d \in MarkingCalls |-> marking'[d]]
  BY DEF WriteOver, Overtaken
<1>5. overwritten' \subseteq Records /\ UNCHANGED doubledUp
  BY <1>1, <1>2 DEF WriteOver, SecondTypeOK
<1> HIDE DEF M, q
<1>6. \A p \in Records \ {q} : record'[p] = record[p]
  BY <1>1, <1>2 DEF SecondTypeOK
<1>7. record'[q] = row /\ row # NoMarkRow
  BY <1>1, <1>2 DEF SecondTypeOK, MarkRows, NoMarkRow
<1>8. OpenRecords' \subseteq OpenRecords
  BY <1>2, <1>6, <1>7 DEF OpenRecords, q
<1>9. SecondTypeOK'
  <2>1. record' \in [Records -> {NoMarkRow} \cup MarkRows]
    BY <1>1, <1>2 DEF SecondTypeOK, MarkRows
  <2>2. marking' \in [MarkingCalls -> {NoMarking} \cup Assigning \cup Recording \cup Reconciling]
    BY <1>2, <1>3, <1>4
  <2>3. QED BY <1>1, <1>5, <2>1, <2>2
            DEF SecondTypeOK, MarkRows, Assigning, Recording, Reconciling
<1>10. \A d \in MarkingCalls : marking'[d].op \in {"recording", "reconciling"} =>
        /\ d # c /\ marking[d].op = marking'[d].op /\ marking[d].target \in Records
        /\ marking'[d].target = marking[d].target
        /\ ~marking'[d].late => ~marking[d].late /\ marking[d].target # q
        /\ marking[d].op = "reconciling" =>
              marking'[d].how = marking[d].how /\ marking'[d].mark = marking[d].mark
  BY <1>2, <1>3 DEF Assigning, Recording, Reconciling, NoMarking
<1>11. TargetsExist'
  <2>1. \A d \in MarkingCalls : marking[d].op \in {"recording", "reconciling"} =>
          record[marking[d].target] # NoMarkRow
    BY <1>1 DEF MarkingTyped, TargetsExist
  <2>2. QED BY <1>6, <1>7, <1>10, <2>1 DEF TargetsExist
<1>12. LooksHold'
  <2>1. \A d \in MarkingCalls : marking'[d].op = "assigning" /\ ~marking'[d].late =>
          marking[d].op = "assigning" /\ ~marking[d].late
    BY <1>2, <1>3 DEF Assigning, Recording, Reconciling, NoMarking
  <2>2. QED BY <1>8, <2>1 DEF LooksHold, SecondInv
<1>13. ReadsHold'
  BY <1>6, <1>10 DEF SecondInv, ReadsHold, Backs
<1>14. OneIsOpen'
  BY <1>5, <1>8 DEF SecondInv, OneIsOpen
<1>15. QED
  BY <1>2, <1>9, <1>11, <1>12, <1>13, <1>14 DEF MarkingTyped, q

LEMMA RecordingStep ==
    ASSUME SecondInv, NEW c \in MarkingCalls, WriteSecondMark(c)
    PROVE  SecondInv'
<1> DEFINE q == marking[c].target
           row == [record[q] EXCEPT !.second = marking[c].mark]
<1>1. SecondTypeOK /\ MarkingTyped
  BY DEF SecondInv, MarkingTyped
<1>2. marking[c] \in Recording /\ q \in Records /\ record[q] \in MarkRows
  BY <1>1, MarkingShapes
     DEF WriteSecondMark, Recording, MarkingTyped, TargetsExist, SecondTypeOK, MarkRows
<1>3. row \in MarkRows /\ row.state = record[q].state
  BY <1>2 DEF MarkRows, Recording
<1>4. WriteOver(c, row) /\ UNCHANGED settled /\ marking[c].op = "recording"
  BY DEF WriteSecondMark
<1>5. settled' \in [Records -> Settlements \cup {NotGiven}]
  BY <1>1, <1>4 DEF SecondTypeOK
<1> HIDE DEF row, q
<1>6. /\ MarkingTyped' /\ LooksHold' /\ ReadsHold' /\ OneIsOpen'
      /\ record' = [record EXCEPT ![q] = row]
  BY <1>3, <1>4, <1>5, OverwriteStep DEF q
<1>7. AgreedIsBacked'
  <2>1. \A p \in Records \ {q} : record'[p] = record[p] /\ settled'[p] = settled[p]
    BY <1>1, <1>4, <1>6 DEF SecondTypeOK
  <2>2. q \notin overwritten' => record'[q].state = "open"
    <3>1. marking[c].late => q \in overwritten'
      BY <1>4 DEF WriteOver, q
    <3>2. ~marking[c].late => record[q].state = "open"
      BY <1>4 DEF SecondInv, ReadsHold, q
    <3>3. QED BY <1>1, <1>2, <1>3, <1>6, <3>1, <3>2 DEF SecondTypeOK
  <2>3. overwritten \subseteq overwritten'
    BY <1>4 DEF WriteOver
  <2>4. QED BY <2>1, <2>2, <2>3 DEF SecondInv, AgreedIsBacked
<1>8. QED
  BY <1>6, <1>7 DEF SecondInv

LEMMA ReconcilingStep ==
    ASSUME SecondInv, NEW c \in MarkingCalls, WriteAgreedMark(c)
    PROVE  SecondInv'
<1> DEFINE q == marking[c].target
           row == [record[q] EXCEPT !.agreed = marking[c].mark, !.state = "reconciled"]
<1>1. SecondTypeOK /\ MarkingTyped
  BY DEF SecondInv, MarkingTyped
<1>2. marking[c] \in Reconciling /\ q \in Records /\ record[q] \in MarkRows
  BY <1>1, MarkingShapes
     DEF WriteAgreedMark, Reconciling, MarkingTyped, TargetsExist, SecondTypeOK, MarkRows
<1>3. /\ row \in MarkRows /\ row.state = "reconciled" /\ row.agreed = marking[c].mark
      /\ row.first = record[q].first /\ row.second = record[q].second
  BY <1>2 DEF MarkRows, Reconciling
<1>4. /\ WriteOver(c, row) /\ marking[c].op = "reconciling"
      /\ settled' = [settled EXCEPT ![q] = marking[c].how]
  BY DEF WriteAgreedMark
<1>5. settled' \in [Records -> Settlements \cup {NotGiven}]
  BY <1>1, <1>2, <1>4 DEF SecondTypeOK, Reconciling
<1> HIDE DEF row, q
<1>6. /\ MarkingTyped' /\ LooksHold' /\ ReadsHold' /\ OneIsOpen'
      /\ record' = [record EXCEPT ![q] = row]
  BY <1>3, <1>4, <1>5, OverwriteStep DEF q
<1>7. AgreedIsBacked'
  <2>1. \A p \in Records \ {q} : record'[p] = record[p] /\ settled'[p] = settled[p]
    BY <1>1, <1>4, <1>6 DEF SecondTypeOK
  <2>2. q \notin overwritten' => Backs(record'[q], settled'[q], record'[q].agreed)
    <3>1. marking[c].late => q \in overwritten'
      BY <1>4 DEF WriteOver, q
    <3>2. ~marking[c].late => Backs(record[q], marking[c].how, marking[c].mark)
      BY <1>4 DEF SecondInv, ReadsHold, q
    <3>3. record'[q] = row /\ settled'[q] = marking[c].how
      BY <1>1, <1>2, <1>4, <1>6 DEF SecondTypeOK
    <3>4. QED BY <1>3, <3>1, <3>2, <3>3 DEF Backs
  <2>3. overwritten \subseteq overwritten'
    BY <1>4 DEF WriteOver
  <2>4. QED BY <2>1, <2>2, <2>3 DEF SecondInv, AgreedIsBacked, Backs
<1>8. QED
  BY <1>6, <1>7 DEF SecondInv

\* One step per action.
LEMMA SecondStep == SecondInv /\ [SecondNext]_secondVars => SecondInv'
<1> SUFFICES ASSUME SecondInv, [SecondNext]_secondVars
             PROVE  SecondInv'
  OBVIOUS
<1>1. SecondTypeOK /\ MarkingTyped
  BY DEF SecondInv, MarkingTyped
<1>2. ASSUME NEW c \in MarkingCalls, NEW marker \in Markers, NEW row \in AttemptRows,
             NEW force \in BOOLEAN, BeginAssign(c, marker, row, force)
      PROVE  SecondInv'
  <2> DEFINE d == [op |-> "assigning", marker |-> marker, late |-> OpenRecords # {},
                   first |-> IF row.raw = NotGiven THEN 0 ELSE row.raw]
  <2>1. d \in Assigning /\ (~d.late => OpenRecords = {})
    BY DEF Assigning, AttemptRows, FirstMarks
  <2>2. marking' = [marking EXCEPT ![c] = d]
        /\ UNCHANGED <<record, settled, overwritten, doubledUp>>
    BY <1>2 DEF BeginAssign
  <2> HIDE DEF d
  <2>3. QED BY <2>1, <2>2, HoldingStep
<1>3. ASSUME NEW c \in MarkingCalls, NEW q \in Records, NEW mark \in SecondMarks,
             NEW user \in Markers, NEW force \in BOOLEAN, BeginRecord(c, q, mark, user, force)
      PROVE  SecondInv'
  <2> DEFINE d == [op |-> "recording", target |-> q, mark |-> mark, late |-> FALSE]
  <2>1. d \in Recording /\ record[d.target].state = "open"
    BY <1>3 DEF BeginRecord, OpenRecords, Recording
  <2>2. marking' = [marking EXCEPT ![c] = d]
        /\ UNCHANGED <<record, settled, overwritten, doubledUp>>
    BY <1>3 DEF BeginRecord
  <2> HIDE DEF d
  <2>3. QED BY <2>1, <2>2, HoldingStep
<1>4. ASSUME NEW c \in MarkingCalls, NEW q \in Records,
             NEW mark \in ReconciledMarks \cup {NotGiven}, NEW t \in Tolerances,
             NEW force \in BOOLEAN, BeginReconcile(c, q, mark, t, force)
      PROVE  SecondInv'
  <2>1. PICK d \in Reconciling :
           /\ marking' = [marking EXCEPT ![c] = d]
           /\ record[d.target].state = "open"
           /\ Backs(record[d.target], d.how, d.mark)
    BY <1>1, <1>4, BeginReconcileHolds DEF Backs
  <2>2. UNCHANGED <<record, settled, overwritten, doubledUp>>
    BY <1>4 DEF BeginReconcile
  <2>3. QED BY <2>1, <2>2, HoldingStep
<1>5. ASSUME NEW c \in MarkingCalls, AbandonMarking(c)
      PROVE  SecondInv'
  BY <1>5, HoldingStep DEF AbandonMarking
<1>6. CASE UNCHANGED secondVars
  BY <1>6 DEF SecondInv, MarkingTyped, SecondTypeOK, TargetsExist, LooksHold, ReadsHold,
              AgreedIsBacked, OneIsOpen, OpenRecords, secondVars
<1>7. QED
  BY <1>2, <1>3, <1>4, <1>5, <1>6, AssignmentStep, RecordingStep, ReconcilingStep
     DEF SecondNext

LEMMA SecondStart == SecondInit => SecondInv
<1> SUFFICES ASSUME SecondInit PROVE SecondInv
  OBVIOUS
<1>1. /\ \A q \in Records : record[q] = NoMarkRow
      /\ \A c \in MarkingCalls : marking[c].op = "idle"
  BY DEF SecondInit, NoMarking
<1>2. SecondTypeOK
  BY DEF SecondInit, SecondTypeOK, NoMarking
<1>3. TargetsExist /\ LooksHold /\ ReadsHold
  BY <1>1 DEF TargetsExist, LooksHold, ReadsHold
<1>4. AgreedIsBacked /\ OneIsOpen
  BY <1>1 DEF AgreedIsBacked, OneIsOpen, OpenRecords, NoMarkRow
<1>5. QED BY <1>2, <1>3, <1>4 DEF SecondInv, MarkingTyped

LEMMA SecondInvariant == SecondSpec => []SecondInv
BY SecondStart, SecondStep, PTL DEF SecondSpec

\* Rows, calls and histories of the second marking keep their types.
THEOREM SecondTypeCorrect == SecondSpec => []SecondTypeOK
<1>1. SecondInv => SecondTypeOK
  BY DEF SecondInv, MarkingTyped
<1>2. QED BY <1>1, SecondInvariant, PTL

\* An agreed mark stays what the two marks on its row justify, whatever calls
\* interleave, unless one wrote the row by an outdated read.
THEOREM AgreedIsBackedHolds == SecondSpec => []AgreedIsBacked
<1>1. SecondInv => AgreedIsBacked
  BY DEF SecondInv
<1>2. QED BY <1>1, SecondInvariant, PTL

\* No two open assignments for one script, unless force or a late look made them.
THEOREM OneOpenRecordHolds == SecondSpec => []OneOpenRecord
<1>1. SecondInv => OneOpenRecord
  BY AtMostOne DEF SecondInv, OneIsOpen, OneOpenRecord
<1>2. QED BY <1>1, SecondInvariant, PTL

-----------------------------------------------------------------------------
(* The anonymous label.                                                     *)

\* A call that is not late still finds no label; nobody else has one.
LabelInv ==
    /\ LabelTypeOK
    /\ \A c \in LabelCalls :
          labelling[c] # NoLabelling /\ ~labelling[c].late => Used = {}
    /\ ~relabelled => \A k, l \in Used : k = l

Drawing == [op : {"drawing"}, left : 1..LabelTries, late : BOOLEAN]

LEMMA LabelShapes ==
    ASSUME LabelTypeOK, NEW c \in LabelCalls, labelling[c] # NoLabelling
    PROVE  labelling[c] \in Drawing
BY DEF LabelTypeOK, Drawing

LEMMA LabelStep == LabelInv /\ [LabelNext]_labelVars => LabelInv'
<1> SUFFICES ASSUME LabelInv, [LabelNext]_labelVars
             PROVE  LabelInv'
  OBVIOUS
<1>1. LabelTypeOK
  BY DEF LabelInv
<1>2. ASSUME NEW c \in LabelCalls, NEW d, labelling' = [labelling EXCEPT ![c] = d],
             UNCHANGED <<label, relabelled>>,
             d = NoLabelling \/ (d \in Drawing /\ (~d.late => Used = {}))
      PROVE  LabelInv'
  BY <1>1, <1>2 DEF LabelInv, LabelTypeOK, Used, Drawing
<1>3. ASSUME NEW c \in LabelCalls, NEW force \in BOOLEAN, BeginAnonymise(c, force)
      PROVE  LabelInv'
  <2> DEFINE d == [op |-> "drawing", left |-> LabelTries, late |-> force /\ Used # {}]
  <2>1. d \in Drawing /\ (~d.late => Used = {})
    BY <1>3, LabelAssumption DEF Drawing, BeginAnonymise, LabelAssumption
  <2>2. labelling' = [labelling EXCEPT ![c] = d] /\ UNCHANGED <<label, relabelled>>
    BY <1>3 DEF BeginAnonymise, Draws
  <2> HIDE DEF d
  <2>3. QED BY <1>2, <2>1, <2>2
<1>4. ASSUME NEW c \in LabelCalls, NEW l \in Labels, CreateLabel(c, l)
      PROVE  LabelInv'
  <2>1. labelling[c] \in Drawing
    BY <1>1, <1>4, LabelShapes DEF CreateLabel
  <2>2. Used' \subseteq Used \cup {l}
    BY <1>1, <1>4 DEF CreateLabel, Used, LabelTypeOK
  <2>3. ~relabelled' => \A j, k \in Used' : j = k
    BY <1>1, <1>4, <2>1, <2>2 DEF CreateLabel, LabelInv, LabelTypeOK, Drawing
  <2>4. \A e \in LabelCalls :
          labelling'[e] = NoLabelling \/ (labelling'[e] \in Drawing /\ labelling'[e].late)
    <3> SUFFICES ASSUME NEW e \in LabelCalls, labelling'[e] # NoLabelling
                 PROVE  labelling'[e] \in Drawing /\ labelling'[e].late
      OBVIOUS
    <3>1. labelling[e] # NoLabelling /\ labelling'[e] = [labelling[e] EXCEPT !.late = TRUE]
      BY <1>4 DEF CreateLabel
    <3>2. labelling[e] \in Drawing
      BY <1>1, <3>1, LabelShapes
    <3>3. QED BY <3>1, <3>2 DEF Drawing
  <2>5. LabelTypeOK'
    <3>1. labelling' \in [LabelCalls -> {NoLabelling} \cup Drawing]
      BY <1>4, <2>4 DEF CreateLabel
    <3>2. relabelled' \in BOOLEAN
      BY <1>1, <1>4, <2>1 DEF CreateLabel, LabelTypeOK, Drawing
    <3>3. QED BY <1>1, <1>4, <3>1, <3>2 DEF CreateLabel, LabelTypeOK, Drawing
  <2>6. QED BY <2>3, <2>4, <2>5 DEF LabelInv
<1>5. ASSUME NEW c \in LabelCalls, DrawAgain(c)
      PROVE  LabelInv'
  <2> DEFINE d == IF labelling[c].left > 1 THEN [labelling[c] EXCEPT !.left = @ - 1]
                                           ELSE NoLabelling
  <2>1. labelling[c] \in Drawing
    BY <1>1, <1>5, LabelShapes DEF DrawAgain
  <2>2. d = NoLabelling \/ (d \in Drawing /\ d.late = labelling[c].late)
    BY <2>1, LabelAssumption DEF Drawing, LabelAssumption
  <2>3. labelling' = [labelling EXCEPT ![c] = d] /\ UNCHANGED <<label, relabelled>>
    BY <1>5 DEF DrawAgain
  <2> HIDE DEF d
  <2>4. d = NoLabelling \/ (d \in Drawing /\ (~d.late => Used = {}))
    BY <1>5, <2>2 DEF LabelInv, DrawAgain
  <2>5. QED BY <1>2, <2>3, <2>4
<1>6. ASSUME NEW c \in LabelCalls, AbandonLabelling(c)
      PROVE  LabelInv'
  BY <1>2, <1>6 DEF AbandonLabelling
<1>7. ASSUME NEW l \in Labels, Reveal(l)
      PROVE  LabelInv'
  <2>1. Used' = Used
    BY <1>1, <1>7 DEF Reveal, Used, LabelTypeOK
  <2>2. LabelTypeOK'
    BY <1>1, <1>7 DEF Reveal, LabelTypeOK
  <2>3. QED BY <1>7, <2>1, <2>2 DEF LabelInv, Reveal
<1>8. CASE UNCHANGED labelVars
  BY <1>8 DEF LabelInv, LabelTypeOK, Used, labelVars
<1>9. QED
  BY <1>3, <1>4, <1>5, <1>6, <1>7, <1>8 DEF LabelNext

LEMMA LabelInvariant == LabelSpec => []LabelInv
<1>1. LabelInit => LabelInv
  BY DEF LabelInit, LabelInv, LabelTypeOK, Used, NoLabelling
<1>2. QED BY <1>1, LabelStep, PTL DEF LabelSpec

\* One label for a script, unless force or a late look made more.
THEOREM OneLabelHolds == LabelSpec => []OneLabel
<1>1. LabelInv => OneLabel
  BY AtMostOne DEF LabelInv, OneLabel
<1>2. QED BY <1>1, LabelInvariant, PTL
-----------------------------------------------------------------------------
(* Module registrations and the credit limit.                               *)

RegistrationRows == {Unborn, Removed} \cup Registered

\* what a row counts in a slot
Counts(row, slot) == IF row.state = "live" /\ SlotOf(row) = slot THEN row.credits ELSE 0

Weight(slot) == [r \in Registrations |-> Counts(registration[r], slot)]

LEMMA LiveIsRegistered ==
    ASSUME RegistrationsTypeOK, NEW r \in Registrations
    PROVE  /\ registration[r].state = "live" <=> registration[r] \in Registered
           /\ registration[r] \in RegistrationRows
           /\ registration[r] \in Registered => registration[r].credits \in Nat
<1>1. registration[r] \in RegistrationRows
  BY DEF RegistrationsTypeOK, RegistrationRows
<1>2. registration[r].state = "live" <=> registration[r] \in Registered
  BY <1>1 DEF RegistrationRows, Registered, Unborn, Removed
<1>3. registration[r] \in Registered => registration[r].credits \in Nat
  BY RegistrationAssumption DEF RegistrationAssumption, Registered
<1>4. QED BY <1>1, <1>2, <1>3

LEMMA WeightIsNat ==
    ASSUME RegistrationsTypeOK, NEW slot
    PROVE  \A r \in Registrations : Weight(slot)[r] \in Nat
BY LiveIsRegistered DEF Weight, Counts

\* CurrentCredits adds up what each registration counts.
LEMMA CreditsAreTotal ==
    RegistrationsTypeOK =>
        \A slot \in Slots : CurrentCredits(slot) = Total(Weight(slot), Registrations)
<1> SUFFICES ASSUME RegistrationsTypeOK, NEW slot \in Slots
             PROVE  CurrentCredits(slot) = Total(Weight(slot), Registrations)
  OBVIOUS
<1> DEFINE S == {r \in Registrations :
                   registration[r].state = "live" /\ SlotOf(registration[r]) = slot}
           w == Weight(slot)
           Summed(g) == [s \in SUBSET S |->
              IF s = {} THEN 0
              ELSE LET x == CHOOSE x \in s : TRUE IN registration[x].credits + g[s \ {x}]]
           sum == CHOOSE g : g = Summed(g)
<1>1. S \in SUBSET Registrations /\ IsFiniteSet(S)
  BY RegistrationAssumption, FS_Subset DEF RegistrationAssumption
<1>2. \A x \in S : w[x] \in Nat /\ w[x] = registration[x].credits
  BY WeightIsNat DEF Weight, Counts
<1>3. \A x \in Registrations \ S : w[x] = 0
  BY DEF Weight, Counts
<1>4. CurrentCredits(slot) = sum[S]
  BY DEF CurrentCredits, MapThenSumSet, MapThenFoldSet
<1>5. \A g : Summing(w, S, g) = Summed(g)
  BY <1>2 DEF Summing
<1> HIDE DEF S, w, Summed
<1>6. \E g : g = Summing(w, S, g)
  BY <1>1, <1>2, SumExists
<1>7. sum = Summing(w, S, sum)
  BY <1>5, <1>6
<1> HIDE DEF sum
<1>8. sum[S] = Total(w, S)
  BY <1>1, <1>2, <1>7, SumIsTotal
<1>9. Total(w, S) = Total(w, Registrations)
  BY <1>1, <1>3, TotalSame
<1>10. QED BY <1>4, <1>8, <1>9 DEF w

\* ... after a step too.
LEMMA CreditsAreTotalNext ==
    (RegistrationsTypeOK =>
        \A slot \in Slots : CurrentCredits(slot) = Total(Weight(slot), Registrations))'
BY CreditsAreTotal, PTL

\* Where one registration changes, a slot's credits change by what it counts.
LEMMA CreditsChange ==
    ASSUME RegistrationsTypeOK, RegistrationsTypeOK', NEW r \in Registrations,
           \A q \in Registrations \ {r} : registration'[q] = registration[q],
           NEW slot \in Slots
    PROVE  /\ CurrentCredits(slot)' = CurrentCredits(slot) - Weight(slot)[r] + Weight(slot)'[r]
           /\ CurrentCredits(slot) \in Nat
           /\ Weight(slot)[r] \in Nat /\ Weight(slot)'[r] \in Nat
<1> DEFINE v == Weight(slot)
           w == Weight(slot)'
<1>1. CurrentCredits(slot) = Total(v, Registrations)
  BY CreditsAreTotal
<1>2. CurrentCredits(slot)' = Total(w, Registrations)
  BY CreditsAreTotalNext
<1>3. \A q \in Registrations : v[q] \in Nat
  BY WeightIsNat
<1>4. \A q \in Registrations \ {r} : v[q] = w[q]
  BY DEF Weight
<1>5. w[r] \in Nat
  <2>1. registration'[r] \in Registered => registration'[r].credits \in Nat
    BY RegistrationAssumption DEF RegistrationAssumption, Registered
  <2>2. registration'[r].state = "live" => registration'[r] \in Registered
    BY DEF RegistrationsTypeOK, Unborn, Removed
  <2>3. QED BY <2>1, <2>2 DEF Weight, Counts
<1>6. IsFiniteSet(Registrations)
  BY RegistrationAssumption DEF RegistrationAssumption
<1>7. Total(v, Registrations) \in Nat
  <2> HIDE DEF v
  <2>1. QED BY <1>3, <1>6, TotalType
<1>8. Total(w, Registrations) = Total(v, Registrations) - v[r] + w[r]
  <2>1. \A q \in Registrations : v[q] \in Nat /\ w[q] \in Nat
    BY <1>3, <1>4, <1>5
  <2> HIDE DEF v, w
  <2>2. QED BY <1>4, <1>6, <2>1, TotalChange
<1>9. QED BY <1>1, <1>2, <1>3, <1>5, <1>7, <1>8

\* The row that a call writes over the row old.
RowOver(d, old) ==
    [state |-> "live", credits |-> Otherwise(d.credits, old.credits),
     enrolment |-> Otherwise(d.enrolment, old.enrolment), year |-> Otherwise(d.year, old.year)]

RowOf(c) == RowOver(registering[c], registration[registering[c].reg])

\* A row to come is not there, and nobody else is about to write it.
CallsFit ==
    \A c \in RegistrationCalls : registering[c] # NoRegistering =>
        LET d == registering[c]
        IN  /\ d.op = "create" =>
                  /\ registration[d.reg] = Unborn
                  /\ d.credits # Same /\ d.enrolment # Same /\ d.year # Same
                  /\ \A e \in RegistrationCalls \ {c} :
                        registering[e] # NoRegistering => registering[e].reg # d.reg
            /\ d.op = "patch" => registration[d.reg] # Unborn

\* A call holds a check that is not outdated; there is room for its row.
HoldsCheck(c) ==
    /\ registering[c] # NoRegistering
    /\ registering[c].checked /\ ~registering[c].stale
    /\ registration[registering[c].reg] # Removed

HasRoom(c) ==
    \A slot \in Slots : slot = registering[c].slot =>
        /\ SlotOf(RowOf(c)) = slot
        /\ Counts(registration[registering[c].reg], slot) = 0
        /\ CurrentCredits(slot) + RowOf(c).credits <= limit[slot[1]]

ChecksHold == \A c \in RegistrationCalls : HoldsCheck(c) => HasRoom(c)

RegistrationsInv == RegistrationsTypeOK /\ CallsFit /\ ChecksHold /\ CheckedCreditsFit

LEMMA CallShape ==
    ASSUME RegistrationsTypeOK, NEW c \in RegistrationCalls, registering[c] # NoRegistering
    PROVE  registering[c] \in Registering
BY DEF RegistrationsTypeOK

LEMMA NewRowTyped ==
    ASSUME RegistrationsTypeOK, CallsFit, NEW c \in RegistrationCalls,
           registering[c] # NoRegistering, registration[registering[c].reg] # Removed
    PROVE  /\ registering[c].reg \in Registrations
           /\ RowOf(c) \in Registered
           /\ SlotOf(RowOf(c)) \in Slots
<1> DEFINE d == registering[c]
           old == registration[d.reg]
<1>1. d \in Registering /\ d.reg \in Registrations
  BY CallShape DEF Registering
<1>2. CASE d.op = "create"
  <2>1. d.credits # Same /\ d.enrolment # Same /\ d.year # Same
    BY <1>2 DEF CallsFit
  <2>2. QED BY <1>1, <2>1 DEF Registering, RowOf, RowOver, Otherwise, Registered, SlotOf, Slots
<1>3. CASE d.op = "patch"
  <2>1. old \in Registered
    BY <1>1, <1>3 DEF CallsFit, RegistrationsTypeOK
  <2>2. old.credits \in ModuleCredits /\ old.enrolment \in Enrolled /\ old.year \in Years
    BY <2>1 DEF Registered
  <2>3. QED BY <1>1, <2>2 DEF Registering, RowOf, RowOver, Otherwise, Registered, SlotOf, Slots
<1>4. QED BY <1>1, <1>2, <1>3 DEF Registering

\* A step leaves call e alone, but may outdate it.
CallKept(e) ==
    \/ registering[e] = NoRegistering /\ registering'[e] = NoRegistering
    \/ /\ registering[e] \in Registering /\ registering'[e] \in Registering
       /\ registering[e] # NoRegistering
       /\ registering'[e].op = registering[e].op
       /\ registering'[e].reg = registering[e].reg
       /\ registering'[e].credits = registering[e].credits
       /\ registering'[e].enrolment = registering[e].enrolment
       /\ registering'[e].year = registering[e].year
       /\ registering'[e].slot = registering[e].slot
       /\ registering'[e].checked = registering[e].checked
       /\ ~registering'[e].stale => ~registering[e].stale

\* A call that is outdated keeps the rest of what it holds.
LEMMA CallOutdated ==
    ASSUME NEW e \in RegistrationCalls, NEW x \in BOOLEAN,
           registering[e] \in Registering,
           registering'[e] = [registering[e] EXCEPT !.stale = @ \/ x]
    PROVE  CallKept(e) /\ (~registering'[e].stale => ~x)
<1> DEFINE d == registering[e]
           n == registering'[e]
<1>1. d \in Registering /\ d # NoRegistering /\ n = [d EXCEPT !.stale = @ \/ x]
  BY DEF Registering, NoRegistering
<1> HIDE DEF d, n
<1>2. /\ n \in Registering /\ n # NoRegistering
      /\ n.op = d.op /\ n.reg = d.reg /\ n.credits = d.credits
      /\ n.enrolment = d.enrolment /\ n.year = d.year /\ n.slot = d.slot
      /\ n.checked = d.checked
      /\ ~n.stale => ~d.stale /\ ~x
  <2>1. n = [op |-> d.op, reg |-> d.reg, stale |-> d.stale \/ x, credits |-> d.credits,
             enrolment |-> d.enrolment, year |-> d.year, slot |-> d.slot, checked |-> d.checked]
    BY <1>1 DEF Registering
  <2>2. d.stale \in BOOLEAN
    BY <1>1 DEF Registering
  <2>3. QED BY <1>1, <2>1, <2>2 DEF Registering, NoRegistering
<1>3. QED BY <1>1, <1>2 DEF d, n, CallKept

\* What the write of call c leaves of the other calls.
LEMMA OutranHolds ==
    ASSUME RegistrationsTypeOK, NEW c \in RegistrationCalls, NEW slot, NEW r,
           registering' = [Outran(RegistrationCalls \ {c}, slot, r) EXCEPT ![c] = NoRegistering]
    PROVE  /\ registering'[c] = NoRegistering
           /\ registering' \in [RegistrationCalls -> {NoRegistering} \cup Registering]
           /\ \A e \in RegistrationCalls \ {c} :
                /\ CallKept(e)
                /\ registering'[e] # NoRegistering /\ ~registering'[e].stale =>
                      registering[e].slot # slot /\ registering[e].reg # r
<1>1. registering'[c] = NoRegistering
  BY DEF Outran
<1>2. ASSUME NEW e \in RegistrationCalls \ {c}
      PROVE  /\ CallKept(e)
             /\ registering'[e] # NoRegistering /\ ~registering'[e].stale =>
                   registering[e].slot # slot /\ registering[e].reg # r
  <2> DEFINE d == registering[e]
             x == d.slot = slot \/ d.reg = r
  <2>1. CASE d = NoRegistering
    BY <2>1 DEF Outran, CallKept
  <2>2. CASE d # NoRegistering
    <3>1. d \in Registering /\ x \in BOOLEAN
      BY <2>2, CallShape
    <3>2. registering'[e] = [d EXCEPT !.stale = @ \/ x]
      BY <2>2 DEF Outran
    <3>3. ~x => d.slot # slot /\ d.reg # r
      OBVIOUS
    <3> HIDE DEF x
    <3>4. QED BY <3>1, <3>2, <3>3, CallOutdated
  <2>3. QED BY <2>1, <2>2
<1>3. registering' = [e \in RegistrationCalls |-> registering'[e]]
  BY DEF Outran
<1>4. QED BY <1>1, <1>2, <1>3 DEF CallKept

\* A call that keeps what it is about to write, and whose row is left alone, still has
\* room where the credits of its slot do not grow and the limit is the same.
LEMMA RoomKept ==
    ASSUME RegistrationsTypeOK, CallsFit, ChecksHold, NEW e \in RegistrationCalls,
           HoldsCheck(e)',
           CallKept(e),
           registration'[registering[e].reg] = registration[registering[e].reg],
           \A slot \in Slots : slot = registering[e].slot =>
              /\ CurrentCredits(slot) \in Int /\ CurrentCredits(slot)' \in Int
              /\ CurrentCredits(slot)' <= CurrentCredits(slot)
              /\ limit'[slot[1]] = limit[slot[1]] /\ limit[slot[1]] \in Int
    PROVE  HasRoom(e)'
<1>1. HoldsCheck(e)
  BY DEF HoldsCheck, CallKept
<1>2. HasRoom(e)
  BY <1>1 DEF ChecksHold
<1>3. RowOf(e)' = RowOf(e)
  BY DEF RowOf, RowOver, CallKept, HoldsCheck
<1>4. RowOf(e).credits \in Nat
  <2>1. RowOf(e) \in Registered
    BY <1>1, NewRowTyped DEF HoldsCheck
  <2>2. QED BY <2>1, RegistrationAssumption DEF Registered, RegistrationAssumption
<1> SUFFICES ASSUME NEW slot \in Slots, slot = registering'[e].slot
             PROVE  /\ SlotOf(RowOf(e)') = slot
                    /\ Counts(registration'[registering'[e].reg], slot) = 0
                    /\ CurrentCredits(slot)' + RowOf(e)'.credits <= limit'[slot[1]]
  BY DEF HasRoom, SlotOf, Counts
<1>8. registering'[e].reg = registering[e].reg /\ registering'[e].slot = registering[e].slot
  BY DEF CallKept, HoldsCheck
<1>5. /\ SlotOf(RowOf(e)) = slot
      /\ Counts(registration[registering[e].reg], slot) = 0
      /\ CurrentCredits(slot) + RowOf(e).credits <= limit[slot[1]]
  BY <1>2, <1>8 DEF HasRoom
<1>6. CurrentCredits(slot)' + RowOf(e).credits <= limit'[slot[1]]
  BY <1>4, <1>5, <1>8
<1>7. QED BY <1>3, <1>5, <1>6, <1>8

LEMMA WriteRegistrationStep ==
    ASSUME RegistrationsInv, NEW c \in RegistrationCalls, WriteRegistration(c)
    PROVE  RegistrationsInv'
<1> DEFINE d == registering[c]
           r == d.reg
           new == RowOf(c)
           mine == SlotOf(new)
<1>1. /\ d # NoRegistering /\ registration[r] # Removed
      /\ registration' = [registration EXCEPT ![r] = new]
      /\ unchecked' = CASE d.checked /\ ~d.stale -> unchecked \ {mine}
                        [] new = registration[r] -> unchecked
                        [] OTHER                 -> unchecked \cup {mine}
      /\ registering' = [Outran(RegistrationCalls \ {c}, mine, r) EXCEPT ![c] = NoRegistering]
      /\ UNCHANGED limit
  BY DEF WriteRegistration, RowOf, RowOver
<1>2. RegistrationsTypeOK /\ CallsFit /\ ChecksHold /\ d \in Registering
  BY <1>1, CallShape DEF RegistrationsInv
<1>3. r \in Registrations /\ new \in Registered /\ mine \in Slots
  BY <1>1, <1>2, NewRowTyped
<1> HIDE DEF new, mine, r
<1>4. /\ registering'[c] = NoRegistering
      /\ registering' \in [RegistrationCalls -> {NoRegistering} \cup Registering]
      /\ \A e \in RegistrationCalls \ {c} :
           /\ CallKept(e)
           /\ registering'[e] # NoRegistering /\ ~registering'[e].stale =>
                 registering[e].slot # mine /\ registering[e].reg # r
  BY <1>1, <1>2, OutranHolds
<1>5. /\ registration'[r] = new
      /\ \A q \in Registrations \ {r} : registration'[q] = registration[q]
  BY <1>1, <1>2, <1>3 DEF RegistrationsTypeOK
<1>6. RegistrationsTypeOK'
  <2>1. registration' \in [Registrations -> {Unborn, Removed} \cup Registered]
    BY <1>1, <1>2, <1>3 DEF RegistrationsTypeOK
  <2>2. unchecked' \subseteq Slots
    BY <1>1, <1>2, <1>3 DEF RegistrationsTypeOK
  <2>3. QED BY <1>1, <1>2, <1>4, <2>1, <2>2 DEF RegistrationsTypeOK
<1>7. new # Unborn /\ new # Removed
  BY <1>3 DEF Registered, Unborn, Removed
<1>8. CallsFit'
  <2> SUFFICES ASSUME NEW e \in RegistrationCalls, registering'[e] # NoRegistering
               PROVE  /\ registering'[e].op = "create" =>
                            /\ registration'[registering'[e].reg] = Unborn
                            /\ registering'[e].credits # Same
                            /\ registering'[e].enrolment # Same /\ registering'[e].year # Same
                            /\ \A f \in RegistrationCalls \ {e} :
                                  registering'[f] # NoRegistering =>
                                     registering'[f].reg # registering'[e].reg
                      /\ registering'[e].op = "patch" =>
                            registration'[registering'[e].reg] # Unborn
    BY DEF CallsFit
  <2>1. e # c /\ registering[e] # NoRegistering /\ registering[e].reg \in Registrations
    BY <1>4 DEF Registering, CallKept
  <2>2. registering[e].op = "create" => registering[e].reg # r
    BY <1>1, <1>2, <2>1 DEF CallsFit, r
  <2>3. registration'[registering[e].reg] =
           IF registering[e].reg = r THEN new ELSE registration[registering[e].reg]
    BY <1>5, <2>1
  <2>4. \A f \in RegistrationCalls : registering'[f] # NoRegistering =>
           registering[f] # NoRegistering /\ registering'[f].reg = registering[f].reg
    BY <1>4 DEF CallKept
  <2>5. QED BY <1>2, <1>4, <1>7, <2>1, <2>2, <2>3, <2>4 DEF CallsFit, CallKept
<1>9. \A slot \in Slots :
        /\ CurrentCredits(slot)' =
              CurrentCredits(slot) - Counts(registration[r], slot)
                 + (IF slot = mine THEN new.credits ELSE 0)
        /\ CurrentCredits(slot) \in Nat /\ Counts(registration[r], slot) \in Nat
  <2>1. \A slot \in Slots : /\ Weight(slot)[r] = Counts(registration[r], slot)
                            /\ Weight(slot)'[r] = IF slot = mine THEN new.credits ELSE 0
    BY <1>3, <1>5 DEF Weight, Registered, Counts, mine
  <2>2. QED BY <1>2, <1>3, <1>5, <1>6, <2>1, CreditsChange
<1>10. limit' = limit /\ \A slot \in Slots : limit[slot[1]] \in Nat
  BY <1>1, <1>2, RegistrationAssumption DEF RegistrationsTypeOK, Slots, RegistrationAssumption
<1>11. new.credits \in Nat
  BY <1>3, RegistrationAssumption DEF Registered, RegistrationAssumption
<1>12. ChecksHold'
  <2> SUFFICES ASSUME NEW e \in RegistrationCalls, HoldsCheck(e)'
               PROVE  HasRoom(e)'
    BY DEF ChecksHold
  <2>1. /\ e # c /\ CallKept(e) /\ registering[e] \in Registering
        /\ registering[e].slot # mine /\ registering[e].reg # r
    BY <1>4 DEF HoldsCheck, CallKept
  <2>2. registration'[registering[e].reg] = registration[registering[e].reg]
    BY <1>5, <2>1 DEF Registering
  <2>3. ASSUME NEW slot \in Slots, slot = registering[e].slot
        PROVE  /\ CurrentCredits(slot) \in Int /\ CurrentCredits(slot)' \in Int
               /\ CurrentCredits(slot)' <= CurrentCredits(slot)
               /\ limit'[slot[1]] = limit[slot[1]] /\ limit[slot[1]] \in Int
    BY <1>9, <1>10, <2>1, <2>3
  <2>4. QED BY <1>2, <2>1, <2>2, <2>3, RoomKept
<1>13. CheckedCreditsFit'
  <2> SUFFICES ASSUME NEW slot \in Slots, slot \notin unchecked'
               PROVE  CurrentCredits(slot)' <= limit[slot[1]]
    BY <1>10 DEF CheckedCreditsFit
  <2>1. slot \notin unchecked => CurrentCredits(slot) <= limit[slot[1]]
    BY DEF RegistrationsInv, CheckedCreditsFit
  <2>2. CASE slot # mine
    <3>1. slot \notin unchecked
      BY <1>1, <2>2
    <3>2. QED BY <1>9, <1>10, <2>1, <2>2, <3>1
  <2>3. CASE slot = mine /\ d.checked /\ ~d.stale
    <3>1. HasRoom(c)
      BY <1>1, <1>2, <2>3 DEF ChecksHold, HoldsCheck, r
    <3>2. d.slot \in Slots
      BY <1>2 DEF Registering
    <3>3. /\ mine = d.slot /\ Counts(registration[r], slot) = 0
          /\ CurrentCredits(slot) + new.credits <= limit[slot[1]]
      BY <2>3, <3>1, <3>2 DEF HasRoom, mine, new, r
    <3>4. QED BY <1>9, <1>10, <1>11, <2>3, <3>3
  <2>4. CASE slot = mine /\ ~(d.checked /\ ~d.stale)
    <3>1. new = registration[r] /\ slot \notin unchecked
      BY <1>1, <2>4
    <3>2. Counts(registration[r], slot) = new.credits
      BY <1>3, <2>4, <3>1 DEF Counts, Registered, mine
    <3>3. QED BY <1>9, <1>10, <1>11, <2>1, <2>4, <3>1, <3>2
  <2>5. QED BY <2>2, <2>3, <2>4
<1>14. QED BY <1>6, <1>8, <1>12, <1>13 DEF RegistrationsInv

\* A step that writes no row and raises no limit nor grows a call's check.
LEMMA SameRows ==
    ASSUME RegistrationsTypeOK, RegistrationsTypeOK', UNCHANGED registration
    PROVE  \A slot \in Slots : /\ CurrentCredits(slot) \in Nat
                               /\ CurrentCredits(slot)' = CurrentCredits(slot)
<1>1. \A slot \in Slots : CurrentCredits(slot) \in Nat
  <2> SUFFICES ASSUME NEW slot \in Slots PROVE Total(Weight(slot), Registrations) \in Nat
    BY CreditsAreTotal
  <2> DEFINE w == Weight(slot)
  <2>1. \A q \in Registrations : w[q] \in Nat
    BY WeightIsNat
  <2>2. IsFiniteSet(Registrations)
    BY RegistrationAssumption DEF RegistrationAssumption
  <2> HIDE DEF w
  <2>3. Total(w, Registrations) \in Nat
    BY <2>1, <2>2, TotalType
  <2>4. QED BY <2>3 DEF w
<1>2. \A slot \in Slots : CurrentCredits(slot)' = CurrentCredits(slot)
  <2>1. \A slot \in Slots : Weight(slot)' = Weight(slot)
    BY DEF Weight
  <2>2. QED BY <2>1, CreditsAreTotal, CreditsAreTotalNext
<1>3. QED BY <1>1, <1>2

LEMMA LimitIsNat ==
    ASSUME RegistrationsTypeOK, NEW slot \in Slots PROVE limit[slot[1]] \in Nat
BY RegistrationAssumption DEF RegistrationsTypeOK, Slots, RegistrationAssumption

\* What a call that starts holds; the other calls are left alone.
LEMMA CallStarts ==
    ASSUME RegistrationsInv, NEW c \in RegistrationCalls, NEW d \in Registering,
           d # NoRegistering, registering' = [registering EXCEPT ![c] = d],
           UNCHANGED <<registration, limit, unchecked>>,
           d.op = "create" =>
              /\ registration[d.reg] = Unborn
              /\ d.credits # Same /\ d.enrolment # Same /\ d.year # Same,
           d.op = "patch" => registration[d.reg] # Unborn,
           \A e \in RegistrationCalls \ {c} :
              registering[e] # NoRegistering /\ (d.op = "create" \/ registering[e].op = "create")
                 => registering[e].reg # d.reg,
           d.checked => /\ SlotOf(RowOver(d, registration[d.reg])) = d.slot
                        /\ Counts(registration[d.reg], d.slot) = 0
                        /\ CurrentCredits(d.slot) + RowOver(d, registration[d.reg]).credits
                              <= limit[d.slot[1]]
    PROVE  RegistrationsInv'
<1>1. RegistrationsTypeOK /\ CallsFit /\ ChecksHold /\ CheckedCreditsFit
  BY DEF RegistrationsInv
<1>2. /\ registering'[c] = d
      /\ \A e \in RegistrationCalls \ {c} : registering'[e] = registering[e]
  BY <1>1 DEF RegistrationsTypeOK
<1>3. RegistrationsTypeOK'
  BY <1>1 DEF RegistrationsTypeOK
<1>4. CallsFit'
  BY <1>1, <1>2 DEF CallsFit
<1>5. ChecksHold'
  <2> SUFFICES ASSUME NEW e \in RegistrationCalls, HoldsCheck(e)'
               PROVE  HasRoom(e)'
    BY DEF ChecksHold
  <2>1. CASE e = c
    BY <1>1, <1>2, <1>3, <2>1, SameRows DEF HoldsCheck, HasRoom, RowOf
  <2>2. CASE e # c
    <3>1. HoldsCheck(e) /\ registering'[e] = registering[e]
      BY <1>2, <2>2 DEF HoldsCheck
    <3>2. HasRoom(e)
      BY <1>1, <3>1 DEF ChecksHold
    <3>3. QED BY <1>1, <1>3, <3>1, <3>2, SameRows DEF HasRoom, RowOf
  <2>3. QED BY <2>1, <2>2
<1>6. CheckedCreditsFit'
  BY <1>1, <1>3, SameRows DEF CheckedCreditsFit
<1>7. QED BY <1>3, <1>4, <1>5, <1>6 DEF RegistrationsInv

LEMMA BeginRegisterStep ==
    ASSUME RegistrationsInv, NEW c \in RegistrationCalls, NEW r \in Registrations,
           NEW credits \in ModuleCredits, NEW slot \in Slots, BeginRegister(c, r, credits, slot)
    PROVE  RegistrationsInv'
<1> DEFINE d == [op |-> "create", reg |-> r, stale |-> FALSE, credits |-> credits,
                 enrolment |-> slot[1], year |-> slot[2], slot |-> slot, checked |-> TRUE]
<1>1. slot[1] \in Enrolled /\ slot[2] \in Years /\ slot = <<slot[1], slot[2]>>
  BY DEF Slots
<1>2. d \in Registering /\ d # NoRegistering
  BY <1>1 DEF Registering, NoRegistering
<1>3. /\ d.op = "create" /\ d.reg = r /\ d.credits # Same /\ d.enrolment # Same
      /\ d.year # Same /\ d.slot = slot
  BY <1>1, RegistrationAssumption DEF RegistrationAssumption
<1>4. /\ registration[r] = Unborn
      /\ \A e \in RegistrationCalls : registering[e] # NoRegistering => registering[e].reg # r
      /\ registering' = [registering EXCEPT ![c] = d]
      /\ UNCHANGED <<registration, limit, unchecked>>
  BY DEF BeginRegister
<1>5. /\ SlotOf(RowOver(d, registration[r])) = slot
      /\ RowOver(d, registration[r]).credits = credits
  BY <1>1, RegistrationAssumption DEF RowOver, Otherwise, SlotOf, RegistrationAssumption
<1>6. Counts(registration[r], slot) = 0
  BY <1>4 DEF Counts, Unborn
<1>7. CurrentCredits(slot) + credits <= limit[slot[1]]
  BY DEF BeginRegister, WithinLimit
<1> HIDE DEF d
<1>8. QED BY <1>2, <1>3, <1>4, <1>5, <1>6, <1>7, CallStarts

LEMMA BeginAmendStep ==
    ASSUME RegistrationsInv, NEW c \in RegistrationCalls, NEW r \in Registrations,
           NEW credits \in ModuleCredits \cup {Same}, NEW enrolment \in Enrolled \cup {Same},
           NEW y \in Years \cup {Same}, BeginAmend(c, r, credits, enrolment, y)
    PROVE  RegistrationsInv'
<1> DEFINE row == registration[r]
           slot == <<row.enrolment, IF y = Same THEN row.year ELSE y>>
           moved == y \notin {Same, row.year}
           checked == /\ moved
                      /\ credits \in {Same, row.credits}
                      /\ enrolment \in {Same, row.enrolment}
           d == [op |-> "patch", reg |-> r, stale |-> FALSE, credits |-> credits,
                 enrolment |-> enrolment, year |-> y, slot |-> slot, checked |-> checked]
<1>1. RegistrationsTypeOK /\ CallsFit
  BY DEF RegistrationsInv
<1>2. /\ row.state = "live" /\ registering' = [registering EXCEPT ![c] = d]
      /\ moved => CurrentCredits(slot) + row.credits <= limit[slot[1]]
      /\ UNCHANGED <<registration, limit, unchecked>>
  BY DEF BeginAmend, WithinLimit
<1>3. row \in Registered /\ row # Unborn
  BY <1>1, <1>2, LiveIsRegistered DEF Unborn, Registered
<1>4. slot \in Slots /\ checked \in BOOLEAN
  BY <1>3 DEF Registered, Slots
<1>5. d \in Registering /\ d # NoRegistering
  <2> HIDE DEF slot, checked
  <2>1. QED BY <1>4 DEF Registering, NoRegistering
<1>6. checked => /\ SlotOf(RowOver(d, row)) = slot
                 /\ RowOver(d, row).credits = row.credits
                 /\ Counts(row, slot) = 0
  BY <1>3 DEF RowOver, Otherwise, SlotOf, Counts, Registered
<1>7. \A e \in RegistrationCalls : registering[e] # NoRegistering /\ registering[e].op = "create"
         => registering[e].reg # r
  BY <1>1, <1>3 DEF CallsFit
<1>8. d.op = "patch" /\ d.reg = r /\ d.slot = slot /\ d.checked = checked
  OBVIOUS
<1>9. checked => moved
  OBVIOUS
<1> HIDE DEF d, checked, slot, moved
<1>10. registration[d.reg] = row
  BY <1>8
<1>11. checked => CurrentCredits(slot) + RowOver(d, row).credits <= limit[slot[1]]
  BY <1>2, <1>6, <1>9
<1> HIDE DEF row
<1>12. QED BY <1>2, <1>3, <1>5, <1>6, <1>7, <1>8, <1>10, <1>11, CallStarts

LEMMA AbandonRegisteringStep ==
    ASSUME RegistrationsInv, NEW c \in RegistrationCalls, AbandonRegistering(c)
    PROVE  RegistrationsInv'
<1>1. RegistrationsTypeOK /\ CallsFit /\ ChecksHold /\ CheckedCreditsFit
  BY DEF RegistrationsInv
<1>2. /\ registering'[c] = NoRegistering
      /\ \A e \in RegistrationCalls \ {c} : registering'[e] = registering[e]
      /\ UNCHANGED <<registration, limit, unchecked>>
  BY <1>1 DEF RegistrationsTypeOK, AbandonRegistering
<1>3. RegistrationsTypeOK'
  BY <1>1 DEF RegistrationsTypeOK, AbandonRegistering
<1>4. CallsFit'
  BY <1>1, <1>2 DEF CallsFit
<1>5. ChecksHold'
  <2> SUFFICES ASSUME NEW e \in RegistrationCalls, HoldsCheck(e)'
               PROVE  HasRoom(e)'
    BY DEF ChecksHold
  <2>1. HoldsCheck(e) /\ registering'[e] = registering[e]
    BY <1>2 DEF HoldsCheck
  <2>2. HasRoom(e)
    BY <1>1, <2>1 DEF ChecksHold
  <2>3. QED BY <1>1, <1>2, <1>3, <2>1, <2>2, SameRows DEF HasRoom, RowOf
<1>6. CheckedCreditsFit'
  BY <1>1, <1>2, <1>3, SameRows DEF CheckedCreditsFit
<1>7. QED BY <1>3, <1>4, <1>5, <1>6 DEF RegistrationsInv

\* A registration that is removed only takes credits away.
LEMMA RemoveRegistrationStep ==
    ASSUME RegistrationsInv, NEW r \in Registrations, RemoveRegistration(r)
    PROVE  RegistrationsInv'
<1>1. RegistrationsTypeOK /\ CallsFit /\ ChecksHold /\ CheckedCreditsFit
  BY DEF RegistrationsInv
<1>2. /\ registration[r].state = "live" /\ registration'[r] = Removed
      /\ \A q \in Registrations \ {r} : registration'[q] = registration[q]
      /\ UNCHANGED <<limit, registering, unchecked>>
  BY <1>1 DEF RegistrationsTypeOK, RemoveRegistration
<1>3. RegistrationsTypeOK'
  BY <1>1 DEF RegistrationsTypeOK, RemoveRegistration
<1>4. registration[r] # Unborn /\ Removed # Unborn
  BY <1>2 DEF Unborn, Removed
<1>5. CallsFit'
  <2>1. \A q \in Registrations : /\ registration[q] = Unborn => registration'[q] = Unborn
                                 /\ registration[q] # Unborn => registration'[q] # Unborn
    BY <1>2, <1>4
  <2>2. \A e \in RegistrationCalls : registering[e] # NoRegistering =>
           registering[e].reg \in Registrations
    BY <1>1, CallShape DEF Registering
  <2>3. QED BY <1>1, <1>2, <2>1, <2>2 DEF CallsFit
<1>6. \A slot \in Slots : /\ CurrentCredits(slot) \in Nat /\ CurrentCredits(slot)' \in Int
                          /\ CurrentCredits(slot)' <= CurrentCredits(slot)
                          /\ limit'[slot[1]] = limit[slot[1]] /\ limit[slot[1]] \in Nat
  <2>1. \A slot \in Slots : Weight(slot)'[r] = 0
    BY <1>2 DEF Weight, Counts, Removed
  <2>2. \A slot \in Slots :
           /\ CurrentCredits(slot)' = CurrentCredits(slot) - Weight(slot)[r] + Weight(slot)'[r]
           /\ CurrentCredits(slot) \in Nat /\ Weight(slot)[r] \in Nat
    BY <1>1, <1>2, <1>3, CreditsChange
  <2>3. QED BY <1>1, <1>2, <2>1, <2>2, LimitIsNat
<1>7. ChecksHold'
  <2> SUFFICES ASSUME NEW e \in RegistrationCalls, HoldsCheck(e)'
               PROVE  HasRoom(e)'
    BY DEF ChecksHold
  <2>1. registering[e] \in Registering /\ registering[e] # NoRegistering
    BY <1>1, <1>2, CallShape DEF HoldsCheck
  <2>2. CallKept(e)
    BY <1>2, <2>1 DEF CallKept
  <2>3. registration'[registering[e].reg] = registration[registering[e].reg]
    BY <1>2, <2>1 DEF HoldsCheck, Registering
  <2>4. QED BY <1>1, <1>6, <2>2, <2>3, RoomKept
<1>8. CheckedCreditsFit'
  <2> SUFFICES ASSUME NEW slot \in Slots, slot \notin unchecked
               PROVE  CurrentCredits(slot)' <= limit'[slot[1]]
    BY <1>2 DEF CheckedCreditsFit
  <2>1. CurrentCredits(slot) <= limit[slot[1]]
    BY <1>1 DEF CheckedCreditsFit
  <2>2. QED BY <1>6, <2>1
<1>9. QED BY <1>3, <1>5, <1>7, <1>8 DEF RegistrationsInv

\* The limit of one enrolment changes: its years are unchecked and its calls outdated.
LEMMA PatchModeStep ==
    ASSUME RegistrationsInv, NEW p \in Enrolled, NEW newLimit \in CreditLimits,
           PatchMode(p, newLimit)
    PROVE  RegistrationsInv'
<1>1. RegistrationsTypeOK /\ CallsFit /\ ChecksHold /\ CheckedCreditsFit
  BY DEF RegistrationsInv
<1>2. /\ limit' = [limit EXCEPT ![p] = newLimit]
      /\ unchecked' = unchecked \cup ({p} \X Years)
      /\ UNCHANGED registration
  BY DEF PatchMode
<1>3. \A e \in RegistrationCalls :
         /\ CallKept(e)
         /\ registering'[e] # NoRegistering /\ ~registering'[e].stale =>
               registering[e].slot[1] # p
  <2> SUFFICES ASSUME NEW e \in RegistrationCalls
               PROVE  /\ CallKept(e)
                      /\ registering'[e] # NoRegistering /\ ~registering'[e].stale =>
                            registering[e].slot[1] # p
    OBVIOUS
  <2> DEFINE d == registering[e]
             x == d.slot[1] = p
  <2>1. CASE d = NoRegistering
    BY <2>1 DEF PatchMode, CallKept
  <2>2. CASE d # NoRegistering
    <3>1. d \in Registering /\ x \in BOOLEAN
      BY <1>1, <2>2, CallShape
    <3>2. registering'[e] = [d EXCEPT !.stale = @ \/ x]
      BY <2>2 DEF PatchMode
    <3>3. ~x => d.slot[1] # p
      OBVIOUS
    <3> HIDE DEF x
    <3>4. QED BY <3>1, <3>2, <3>3, CallOutdated
  <2>3. QED BY <2>1, <2>2
<1>4. RegistrationsTypeOK'
  <2>1. registering' = [e \in RegistrationCalls |-> registering'[e]]
    BY DEF PatchMode
  <2>2. \A e \in RegistrationCalls : registering'[e] \in {NoRegistering} \cup Registering
    BY <1>3 DEF CallKept
  <2>3. limit' \in [Enrolled -> CreditLimits] /\ unchecked' \subseteq Slots
    BY <1>1, <1>2 DEF RegistrationsTypeOK, Slots
  <2>4. QED BY <1>1, <1>2, <2>1, <2>2, <2>3 DEF RegistrationsTypeOK
<1>5. CallsFit'
  <2>1. \A e \in RegistrationCalls : registering'[e] # NoRegistering =>
           /\ registering[e] # NoRegistering
           /\ registering'[e].op = registering[e].op /\ registering'[e].reg = registering[e].reg
           /\ registering'[e].credits = registering[e].credits
           /\ registering'[e].enrolment = registering[e].enrolment
           /\ registering'[e].year = registering[e].year
    BY <1>3 DEF CallKept
  <2>2. QED BY <1>1, <1>2, <2>1 DEF CallsFit
<1>6. \A slot \in Slots :
         /\ CurrentCredits(slot) \in Nat /\ CurrentCredits(slot)' = CurrentCredits(slot)
         /\ limit[slot[1]] \in Nat
         /\ slot[1] # p => limit'[slot[1]] = limit[slot[1]]
  <2>1. \A slot \in Slots : limit[slot[1]] \in Nat
    BY <1>1, LimitIsNat
  <2>2. \A slot \in Slots : slot[1] # p => limit'[slot[1]] = limit[slot[1]]
    BY <1>1, <1>2 DEF RegistrationsTypeOK, Slots
  <2>3. QED BY <1>1, <1>2, <1>4, <2>1, <2>2, SameRows
<1>7. ChecksHold'
  <2> SUFFICES ASSUME NEW e \in RegistrationCalls, HoldsCheck(e)'
               PROVE  HasRoom(e)'
    BY DEF ChecksHold
  <2>1. CallKept(e) /\ registering[e].slot[1] # p
    BY <1>3 DEF HoldsCheck
  <2>2. QED BY <1>1, <1>2, <1>6, <2>1, RoomKept
<1>8. CheckedCreditsFit'
  <2> SUFFICES ASSUME NEW slot \in Slots, slot \notin unchecked'
               PROVE  CurrentCredits(slot)' <= limit'[slot[1]]
    BY DEF CheckedCreditsFit
  <2>1. slot \notin unchecked /\ slot[1] # p
    BY <1>2 DEF Slots
  <2>2. CurrentCredits(slot) <= limit[slot[1]]
    BY <1>1, <2>1 DEF CheckedCreditsFit
  <2>3. QED BY <1>6, <2>1, <2>2
<1>9. QED BY <1>4, <1>5, <1>7, <1>8 DEF RegistrationsInv

\* The inductive invariant.
THEOREM RegistrationsInvariant == RegistrationsSpec => []RegistrationsInv
<1>1. RegistrationsInit => RegistrationsInv
  <2> SUFFICES ASSUME RegistrationsInit PROVE RegistrationsInv
    OBVIOUS
  <2>1. RegistrationsTypeOK
    BY DEF RegistrationsInit, RegistrationsTypeOK
  <2>2. CallsFit /\ ChecksHold
    BY DEF RegistrationsInit, CallsFit, ChecksHold, HoldsCheck
  <2>3. CheckedCreditsFit
    <3> SUFFICES ASSUME NEW slot \in Slots
                 PROVE  CurrentCredits(slot) <= limit[slot[1]]
      BY DEF CheckedCreditsFit
    <3>1. CurrentCredits(slot) = Total(Weight(slot), Registrations)
      BY <2>1, CreditsAreTotal
    <3>2. \A q \in Registrations : Weight(slot)[q] = 0
      BY DEF RegistrationsInit, Weight, Counts, Unborn
    <3> DEFINE w == Weight(slot)
    <3>3. \A q \in Registrations : w[q] \in Nat /\ w[q] <= 0
      BY <3>2
    <3>4. IsFiniteSet(Registrations)
      BY RegistrationAssumption DEF RegistrationAssumption
    <3>5. \A q \in Registrations \ {} : w[q] = 0
      BY <3>2
    <3> HIDE DEF w
    <3>6. Total(w, {}) = Total(w, Registrations)
      BY <3>4, <3>5, TotalSame, FS_EmptySet
    <3>7. Total(w, {}) = 0
      BY TotalEmpty
    <3>8. limit[slot[1]] \in Nat
      BY <2>1, LimitIsNat
    <3>9. QED BY <3>1, <3>6, <3>7, <3>8 DEF w
  <2>4. QED BY <2>1, <2>2, <2>3 DEF RegistrationsInv
<1>2. RegistrationsInv /\ [RegistrationsNext]_registrationVars => RegistrationsInv'
  <2> SUFFICES ASSUME RegistrationsInv, [RegistrationsNext]_registrationVars
               PROVE  RegistrationsInv'
    OBVIOUS
  <2>1. ASSUME NEW c \in RegistrationCalls, NEW r \in Registrations,
               NEW credits \in ModuleCredits, NEW slot \in Slots,
               BeginRegister(c, r, credits, slot)
        PROVE  RegistrationsInv'
    BY <2>1, BeginRegisterStep
  <2>2. ASSUME NEW c \in RegistrationCalls, NEW r \in Registrations,
               NEW credits \in ModuleCredits \cup {Same},
               NEW enrolment \in Enrolled \cup {Same}, NEW y \in Years \cup {Same},
               BeginAmend(c, r, credits, enrolment, y)
        PROVE  RegistrationsInv'
    BY <2>2, BeginAmendStep
  <2>3. ASSUME NEW c \in RegistrationCalls, WriteRegistration(c) PROVE RegistrationsInv'
    BY <2>3, WriteRegistrationStep
  <2>4. ASSUME NEW c \in RegistrationCalls, AbandonRegistering(c) PROVE RegistrationsInv'
    BY <2>4, AbandonRegisteringStep
  <2>5. ASSUME NEW r \in Registrations, RemoveRegistration(r) PROVE RegistrationsInv'
    BY <2>5, RemoveRegistrationStep
  <2>6. ASSUME NEW e \in Enrolled, NEW newLimit \in CreditLimits, PatchMode(e, newLimit)
        PROVE  RegistrationsInv'
    BY <2>6, PatchModeStep
  <2>7. CASE UNCHANGED registrationVars
    <3>1. UNCHANGED <<registration, limit, registering, unchecked>>
      BY <2>7 DEF registrationVars
    <3>2. RegistrationsTypeOK /\ RegistrationsTypeOK'
      BY <3>1 DEF RegistrationsInv, RegistrationsTypeOK
    <3>3. CallsFit'
      BY <3>1 DEF RegistrationsInv, CallsFit
    <3>4. \A e \in RegistrationCalls : HoldsCheck(e)' => HasRoom(e)'
      BY <3>1, <3>2, SameRows DEF RegistrationsInv, ChecksHold, HoldsCheck, HasRoom, RowOf
    <3>5. CheckedCreditsFit'
      BY <3>1, <3>2, SameRows DEF RegistrationsInv, CheckedCreditsFit
    <3>6. QED BY <3>2, <3>3, <3>4, <3>5 DEF RegistrationsInv, ChecksHold
  <2>8. QED BY <2>1, <2>2, <2>3, <2>4, <2>5, <2>6, <2>7 DEF RegistrationsNext
<1>3. QED BY <1>1, <1>2, PTL DEF RegistrationsSpec

\* The rows, the limits and what the calls hold keep their types.
THEOREM RegistrationsTypeCorrect == RegistrationsSpec => []RegistrationsTypeOK
<1>1. RegistrationsInv => RegistrationsTypeOK
  BY DEF RegistrationsInv
<1>2. QED BY <1>1, RegistrationsInvariant, PTL

\* Registrations that were all let through by a check that still held add up to no more
\* than the limit (validateCreditLimit), whatever the calls that run in between do.
THEOREM CheckedCreditsFitHolds == RegistrationsSpec => []CheckedCreditsFit
<1>1. RegistrationsInv => CheckedCreditsFit
  BY DEF RegistrationsInv
<1>2. QED BY <1>1, RegistrationsInvariant, PTL
-----------------------------------------------------------------------------
(* The decision on a year.                                                   *)

\* Rounding keeps the order of what it rounds.
LEMMA RoundedKeepsOrder ==
    ASSUME NEW a \in Nat, NEW b \in Nat, a <= b, NEW w \in Nat \ {0}
    PROVE  Rounded(a, w) \in Nat /\ Rounded(b, w) \in Nat /\ Rounded(a, w) <= Rounded(b, w)
<1> DEFINE x == 2 * a + w
           y == 2 * b + w
           d == 2 * w
           p == x \div d
           q == y \div d
<1>1. x \in Nat /\ y \in Nat /\ x <= y /\ d \in Nat \ {0}
  OBVIOUS
<1>2. Rounded(a, w) = p /\ Rounded(b, w) = q
  BY DEF Rounded
<1> HIDE DEF x, y, d
<1>3. p \in Nat /\ q \in Nat /\ d * p <= x /\ x < d * p + d /\ d * q <= y /\ y < d * q + d
  BY <1>1
<1> HIDE DEF p, q
<1>4. d * p < d * q + d
  BY <1>1, <1>3
<1>5. d * q + d = d * (q + 1)
  BY <1>1, <1>3
<1>6. p < q + 1
  BY <1>1, <1>3, <1>4, <1>5
<1>7. QED BY <1>2, <1>3, <1>6

ComponentList(list) == list \in Seq(Component)

\* the second list has the same components, none with a worse mark
NoWorseComponents(list, better) ==
    /\ ComponentList(list) /\ ComponentList(better) /\ DOMAIN list = DOMAIN better
    /\ \A k \in DOMAIN list :
          /\ list[k].weighting = better[k].weighting
          /\ list[k].mark = NoMark <=> better[k].mark = NoMark
          /\ list[k].mark <= better[k].mark

Scores(list, weight, points) ==
    /\ ComponentList(list)
    /\ \A k \in Counted(list) : /\ weight[k] = list[k].weighting
                                /\ points[k] = list[k].mark * list[k].weighting

\* The weights and points that an aggregate divides are totals.
LEMMA AggregateIs ==
    ASSUME NEW list, NEW weight, NEW points, Scores(list, weight, points)
    PROVE  LET S == Counted(list)
           IN  /\ IsFiniteSet(S)
               /\ \A k \in S : weight[k] \in Nat \ {0} /\ points[k] \in Nat
               /\ Total(weight, S) \in Nat /\ Total(points, S) \in Nat
               /\ AggregateMark(list) = IF Total(weight, S) = 0 THEN NoMark
                                        ELSE Rounded(100 * Total(points, S), Total(weight, S))
<1> DEFINE S == Counted(list)
           w == [k \in S |-> list[k].weighting]
           p == [k \in S |-> list[k].mark * list[k].weighting]
<1> ComponentList(list) /\ \A k \in S : /\ weight[k] = list[k].weighting
                                        /\ points[k] = list[k].mark * list[k].weighting
  BY DEF Scores
<1>1. IsFiniteSet(S)
  <2>1. DOMAIN list = 1..Len(list) /\ Len(list) \in Nat
    BY DEF ComponentList
  <2>2. IsFiniteSet(DOMAIN list)
    BY <2>1, FS_Interval
  <2>3. QED BY <2>2, FS_Subset DEF Counted
<1>2. \A k \in S : list[k].weighting \in Nat \ {0} /\ list[k].mark \in Nat
  <2>1. \A k \in DOMAIN list : list[k] \in Component
    BY DEF ComponentList
  <2>2. QED BY <2>1 DEF Counted, Component, NoMark
<1>3. \A k \in S : list[k].mark * list[k].weighting \in Nat
  BY <1>2
<1>4. \A k \in S : weight[k] \in Nat \ {0} /\ points[k] \in Nat
  BY <1>2, <1>3
<1>5. AggregateMark(list) = IF SumFunction(w) = 0 THEN NoMark
                            ELSE Rounded(100 * SumFunction(p), SumFunction(w))
  BY DEF AggregateMark
<1>6. SumFunction(w) = Total(w, S)
  BY <1>1, <1>2, SumFunctionIsTotal
<1>7. SumFunction(p) = Total(p, S)
  BY <1>1, <1>3, SumFunctionIsTotal
<1>8. \A k \in S : w[k] = weight[k] /\ p[k] = points[k]
  OBVIOUS
<1> HIDE DEF S, w, p
<1>9. Total(w, S) = Total(weight, S) /\ Total(p, S) = Total(points, S)
  BY <1>8, TotalEqual
<1>10. Total(weight, S) \in Nat /\ Total(points, S) \in Nat
  BY <1>1, <1>4, TotalType
<1>11. QED
  BY <1>1, <1>4, <1>5, <1>6, <1>7, <1>9, <1>10 DEF S

\* Better component marks give no worse an aggregate, and one where there was one.
LEMMA AggregateKeepsOrder ==
    ASSUME NEW list, NEW better, NoWorseComponents(list, better)
    PROVE  /\ AggregateMark(list) \in Nat \cup {NoMark}
           /\ AggregateMark(better) \in Nat \cup {NoMark}
           /\ AggregateMark(list) = NoMark <=> AggregateMark(better) = NoMark
           /\ AggregateMark(list) <= AggregateMark(better)
<1> DEFINE S == Counted(list)
           w == [k \in S |-> list[k].weighting]
           p == [k \in S |-> list[k].mark * list[k].weighting]
           q == [k \in S |-> better[k].mark * better[k].weighting]
           W == Total(w, S)
           P == Total(p, S)
           Q == Total(q, S)
<1>1. S = Counted(better)
  BY DEF NoWorseComponents, Counted
<1>2. \A k \in S : w[k] = better[k].weighting
  BY DEF NoWorseComponents, Counted
<1>3. /\ IsFiniteSet(S) /\ \A k \in S : w[k] \in Nat \ {0} /\ p[k] \in Nat
      /\ W \in Nat /\ P \in Nat
      /\ AggregateMark(list) = IF W = 0 THEN NoMark ELSE Rounded(100 * P, W)
  <2>1. ComponentList(list)
    BY DEF NoWorseComponents
  <2>2. \A k \in S : w[k] = list[k].weighting /\ p[k] = list[k].mark * list[k].weighting
    OBVIOUS
  <2> HIDE DEF w, p
  <2>3. Scores(list, w, p)
    BY <2>1, <2>2 DEF Scores
  <2>4. QED BY <2>3, AggregateIs
<1>4. /\ \A k \in S : q[k] \in Nat
      /\ Q \in Nat /\ AggregateMark(better) = IF W = 0 THEN NoMark ELSE Rounded(100 * Q, W)
  <2>1. ComponentList(better)
    BY DEF NoWorseComponents
  <2>2. \A k \in S : q[k] = better[k].mark * better[k].weighting
    OBVIOUS
  <2> HIDE DEF w, q, S
  <2>3. Scores(better, w, q)
    BY <1>1, <1>2, <2>1, <2>2 DEF Scores
  <2>4. QED BY <1>1, <2>3, AggregateIs
<1>5. \A k \in S : p[k] <= q[k]
  <2> TAKE k \in S
  <2>1. list[k] \in Component /\ better[k] \in Component /\ list[k].mark # NoMark
    BY DEF NoWorseComponents, Counted, ComponentList
  <2>2. /\ list[k].mark \in Nat /\ better[k].mark \in Nat /\ list[k].mark <= better[k].mark
        /\ list[k].weighting = better[k].weighting /\ list[k].weighting \in Nat
    BY <1>3, <2>1 DEF NoWorseComponents, Counted, Component, NoMark
  <2> DEFINE m == list[k].mark
             n == better[k].mark
             v == list[k].weighting
  <2>3. p[k] = m * v /\ q[k] = n * v
    BY <2>2
  <2> HIDE DEF m, n, v, p, q
  <2>4. m \in Nat /\ n \in Nat /\ v \in Nat /\ m <= n
    BY <2>2 DEF m, n, v
  <2>5. m * v <= n * v
    BY <2>4
  <2>6. QED BY <2>3, <2>5
<1> HIDE DEF S, w, p, q
<1>6. P <= Q
  BY <1>3, <1>4, <1>5, TotalMonotone
<1> HIDE DEF W, P, Q
<1>7. CASE W = 0
  BY <1>3, <1>4, <1>7 DEF NoMark
<1>8. CASE W # 0
  <2>1. W \in Nat \ {0} /\ 100 * P \in Nat /\ 100 * Q \in Nat /\ 100 * P <= 100 * Q
    BY <1>3, <1>4, <1>6, <1>8
  <2>2. /\ Rounded(100 * P, W) \in Nat /\ Rounded(100 * Q, W) \in Nat
        /\ Rounded(100 * P, W) <= Rounded(100 * Q, W)
    BY <2>1, RoundedKeepsOrder
  <2>3. QED BY <1>3, <1>4, <1>8, <2>2 DEF NoMark
<1>9. QED BY <1>7, <1>8

YearRow == [credits : Nat \ {0}, thisYear : BOOLEAN, graded : BOOLEAN, confirmed : BOOLEAN,
            components : Seq(Component), mark : Nat \cup {NoMark}]
YearList(y) == y \in Seq(YearRow)
CreditsOf(y) == [i \in DOMAIN y |-> y[i].credits]

\* The credits of some results are a total of naturals.
LEMMA CreditsAre ==
    ASSUME NEW y, YearList(y), NEW S, S \subseteq DOMAIN y
    PROVE  /\ Credits(y, S) = Total(CreditsOf(y), S) /\ Credits(y, S) \in Nat
           /\ IsFiniteSet(DOMAIN y) /\ IsFiniteSet(S)
           /\ \A i \in DOMAIN y : CreditsOf(y)[i] \in Nat \ {0} /\ CreditsOf(y)[i] = y[i].credits
<1> DEFINE f == [i \in S |-> y[i].credits]
<1>1. IsFiniteSet(DOMAIN y) /\ IsFiniteSet(S)
  <2>1. DOMAIN y = 1..Len(y) /\ Len(y) \in Nat
    BY DEF YearList
  <2>2. IsFiniteSet(DOMAIN y)
    BY <2>1, FS_Interval
  <2>3. QED BY <2>2, FS_Subset
<1>2. \A i \in DOMAIN y : CreditsOf(y)[i] = y[i].credits /\ y[i].credits \in Nat \ {0}
  <2>1. \A i \in DOMAIN y : y[i] \in YearRow
    BY DEF YearList
  <2>2. QED BY <2>1 DEF CreditsOf, YearRow
<1>3. \A i \in S : f[i] \in Nat /\ f[i] = CreditsOf(y)[i]
  BY <1>2
<1>4. Credits(y, S) = SumFunction(f)
  BY DEF Credits
<1>5. DOMAIN f = S
  OBVIOUS
<1> HIDE DEF f
<1>6. SumFunction(f) = Total(f, S) /\ Total(f, S) \in Nat
  BY <1>1, <1>3, <1>5, SumFunctionIsTotal, TotalType
<1>7. Total(f, S) = Total(CreditsOf(y), S)
  BY <1>3, TotalEqual
<1>8. QED BY <1>1, <1>2, <1>4, <1>6, <1>7

\* What has been granted before the results after i are looked at.
Granting(y, m, f) ==
    [i \in 0..m |->
        IF i = 0 THEN 0
        ELSE f[i - 1] + IF i \in Compensable(y) /\ f[i - 1] + y[i].credits <= rules.maxCompensatedCredits
                        THEN y[i].credits ELSE 0]

LEMMA GrantsExist ==
    ASSUME NEW y, NEW n \in Nat
    PROVE  \E f : f = Granting(y, n, f)
<1> DEFINE P == {m \in 0..n : \E f : f = Granting(y, m, f)}
<1>1. 0 \in P
  <2> DEFINE f == [i \in 0..0 |-> 0]
  <2>1. f = Granting(y, 0, f)
    BY DEF Granting
  <2> HIDE DEF f
  <2>2. QED BY <2>1
<1>2. ASSUME NEW m \in P, m \in 0..(n - 1) PROVE m + 1 \in P
  <2>1. PICK f : f = Granting(y, m, f)
    BY <1>2
  <2> DEFINE k == m + 1
             more == f[m] + IF k \in Compensable(y) /\ f[m] + y[k].credits <= rules.maxCompensatedCredits
                            THEN y[k].credits ELSE 0
             g == [i \in 0..k |-> IF i = k THEN more ELSE f[i]]
  <2>2. \A i \in 0..m : g[i] = f[i] /\ f[i] = Granting(y, m, f)[i]
    BY <1>2, <2>1
  <2>3. g[k] = more /\ g = [i \in 0..k |-> g[i]]
    BY <1>2
  <2>4. ASSUME NEW i \in 0..k PROVE g[i] = Granting(y, k, g)[i]
    <3> HIDE DEF g
    <3>1. CASE i = k
      <4>1. k # 0 /\ k - 1 = m /\ m \in 0..m
        BY <1>2
      <4> HIDE DEF k
      <4>2. QED BY <2>2, <2>3, <3>1, <4>1 DEF Granting
    <3>2. CASE i # k
      <4>1. i \in 0..m /\ (i # 0 => i - 1 \in 0..m)
        BY <1>2, <3>2
      <4> HIDE DEF k
      <4>2. QED BY <2>2, <4>1 DEF Granting
    <3>3. QED BY <3>1, <3>2
  <2>5. g = Granting(y, k, g)
    <3> HIDE DEF g, k
    <3>1. QED BY <2>3, <2>4 DEF Granting
  <2>6. k \in 0..n
    BY <1>2
  <2> HIDE DEF g
  <2>7. QED BY <2>5, <2>6
<1>3. 0..n \subseteq P
  <2> HIDE DEF P
  <2>1. QED BY <1>1, <1>2, UpToInduction
<1>4. QED BY <1>3

(* Greedy compensation, as sums f[0..n] over a list of credits c: every member of K that *)
(* still fits the allowance A is granted.                                                *)
Fits(f, K, c, A, i) == i \in K /\ f[i - 1] + c[i] <= A

Greedy(f, n, K, c, A) ==
    /\ n \in Nat /\ A \in Nat /\ f[0] = 0
    /\ \A i \in 1..n : c[i] \in Nat \ {0}
    /\ \A i \in 1..n : f[i] = f[i - 1] + IF Fits(f, K, c, A, i) THEN c[i] ELSE 0

\* The sums stay within the allowance, and never fall.
LEMMA GreedyBounds ==
    ASSUME NEW f, NEW n, NEW K, NEW c, NEW A, Greedy(f, n, K, c, A)
    PROVE  \A i \in 0..n : /\ f[i] \in Nat /\ f[i] <= A
                           /\ \A j \in 0..i : f[j] \in Nat /\ f[j] <= f[i]
<1> DEFINE Bound(i) == f[i] \in Nat /\ f[i] <= A /\ \A j \in 0..i : f[j] \in Nat /\ f[j] <= f[i]
           P == {i \in 0..n : Bound(i)}
<1>1. 0 \in P
  BY DEF Greedy
<1>2. ASSUME NEW k \in P, k \in 0..(n - 1) PROVE k + 1 \in P
  <2> DEFINE i == k + 1
  <2>1. i \in 1..n /\ i \in 0..n /\ i - 1 = k /\ Bound(k) /\ A \in Nat /\ c[i] \in Nat
    BY <1>2 DEF Greedy
  <2>2. \A j \in 0..i : j = i \/ j \in 0..k
    BY <1>2
  <2> HIDE DEF i
  <2>3. f[i] = f[k] + IF Fits(f, K, c, A, i) THEN c[i] ELSE 0
    BY <2>1 DEF Greedy
  <2>4. f[i] \in Nat /\ f[i] <= A /\ f[k] <= f[i]
    BY <2>1, <2>3 DEF Fits
  <2>5. ASSUME NEW j \in 0..i PROVE f[j] \in Nat /\ f[j] <= f[i]
    <3>1. CASE j = i
      BY <2>4, <3>1
    <3>2. CASE j \in 0..k
      BY <2>1, <2>4, <3>2
    <3>3. QED BY <2>2, <3>1, <3>2
  <2>6. Bound(i)
    BY <2>4, <2>5
  <2> HIDE DEF Bound
  <2>7. QED BY <2>1, <2>6 DEF i
<1>3. 0..n \subseteq P
  <2> HIDE DEF P
  <2>1. n \in Nat
    BY DEF Greedy
  <2>2. QED BY <1>1, <1>2, <2>1, UpToInduction
<1>4. QED BY <1>3

\* Two runs agree as far as they may grant the same results.
LEMMA GreedySame ==
    ASSUME NEW f, NEW g, NEW n, NEW K, NEW L, NEW c, NEW A,
           Greedy(f, n, K, c, A), Greedy(g, n, L, c, A)
    PROVE  \A m \in 0..n : (\A i \in 1..m : i \in K <=> i \in L) => f[m] = g[m]
<1> DEFINE Agree(m) == (\A i \in 1..m : i \in K <=> i \in L) => f[m] = g[m]
           P == {m \in 0..n : Agree(m)}
<1>1. 0 \in P
  BY DEF Greedy
<1>2. ASSUME NEW k \in P, k \in 0..(n - 1) PROVE k + 1 \in P
  <2> DEFINE m == k + 1
  <2>1. m \in 1..n /\ m \in 0..n /\ m - 1 = k /\ m \in 1..m /\ 1..k \subseteq 1..m /\ Agree(k)
    BY <1>2 DEF Greedy
  <2> HIDE DEF m
  <2>2. ASSUME \A i \in 1..m : i \in K <=> i \in L PROVE f[m] = g[m]
    <3>1. f[m] = f[k] + IF Fits(f, K, c, A, m) THEN c[m] ELSE 0
      BY <2>1 DEF Greedy
    <3>2. g[m] = g[k] + IF Fits(g, L, c, A, m) THEN c[m] ELSE 0
      BY <2>1 DEF Greedy
    <3>3. f[k] = g[k] /\ (m \in K <=> m \in L)
      BY <2>1, <2>2
    <3>4. Fits(f, K, c, A, m) <=> Fits(g, L, c, A, m)
      BY <2>1, <3>3 DEF Fits
    <3>5. QED BY <3>1, <3>2, <3>3, <3>4
  <2>3. QED BY <2>1, <2>2 DEF m
<1>3. 0..n \subseteq P
  <2> HIDE DEF P
  <2>1. n \in Nat
    BY DEF Greedy
  <2>2. QED BY <1>1, <1>2, <2>1, UpToInduction
<1>4. QED BY <1>3

\* Without one of its results, a run grants at most the credits of that one less.
LEMMA GreedyLoses ==
    ASSUME NEW f, NEW g, NEW n, NEW K, NEW c, NEW A, NEW i \in 1..n,
           Greedy(f, n, K, c, A), Greedy(g, n, K \ {i}, c, A)
    PROVE  g[n] + c[i] >= f[n]
<1> DEFINE L == K \ {i}
           Less(k) == IF Fits(f, K, c, A, i) THEN f[k] = g[k] + c[i] \/ g[k] + c[i] > A
                                             ELSE f[k] = g[k]
           P == {k \in 0..n : k < i \/ Less(k)}
<1>1. /\ n \in Nat /\ A \in Nat /\ i \in Nat /\ i - 1 \in 0..n /\ n \in 0..n /\ c[i] \in Nat
      /\ \A k \in 0..n : f[k] \in Nat /\ g[k] \in Nat /\ f[k] <= A
  <2>1. \A k \in 0..n : f[k] \in Nat /\ f[k] <= A
    BY GreedyBounds
  <2>2. \A k \in 0..n : g[k] \in Nat
    BY GreedyBounds
  <2>3. n \in Nat /\ A \in Nat /\ c[i] \in Nat
    BY DEF Greedy
  <2>4. QED BY <2>1, <2>2, <2>3
<1>2. \A k \in 0..(i - 1) : f[k] = g[k]
  <2> TAKE k \in 0..(i - 1)
  <2>1. k \in 0..n /\ \A j \in 1..k : j \in K <=> j \in L
    BY <1>1
  <2> HIDE DEF L
  <2>2. Greedy(g, n, L, c, A)
    BY DEF L
  <2>3. \A m \in 0..n : (\A j \in 1..m : j \in K <=> j \in L) => f[m] = g[m]
    BY <2>2, GreedySame
  <2>4. QED BY <2>1, <2>3
<1>3. 0 \in P
  BY <1>1
<1>4. ASSUME NEW m \in P, m \in 0..(n - 1) PROVE m + 1 \in P
  <2> DEFINE k == m + 1
  <2>1. k \in 1..n /\ k \in 0..n /\ k - 1 = m /\ m \in 0..n /\ (m < i \/ Less(m))
    BY <1>1, <1>4
  <2>2. k < i => k \in P
    BY <2>1
  <2>3. k = i => m = i - 1
    BY <1>1
  <2>4. k > i => Less(m)
    BY <1>1, <2>1
  <2>5. k < i \/ k = i \/ k > i
    BY <1>1, <2>1
  <2> HIDE DEF k
  <2>6. f[k] = f[m] + IF Fits(f, K, c, A, k) THEN c[k] ELSE 0
    BY <2>1 DEF Greedy
  <2>7. g[k] = g[m] + IF Fits(g, L, c, A, k) THEN c[k] ELSE 0
    BY <2>1 DEF Greedy
  <2>8. f[m] \in Nat /\ g[m] \in Nat /\ f[k] \in Nat /\ g[k] \in Nat /\ c[k] \in Nat
    BY <1>1, <2>1 DEF Greedy
  <2>9. CASE k = i
    <3>1. ~Fits(g, L, c, A, k) /\ f[m] = g[m]
      BY <1>1, <1>2, <2>3, <2>9 DEF Fits
    <3>2. Less(k)
      BY <2>6, <2>7, <2>8, <2>9, <3>1
    <3>3. QED BY <2>1, <3>2 DEF k
  <2>10. CASE k > i
    <3>1. Less(m) /\ (k \in K <=> k \in L)
      BY <1>1, <2>1, <2>4, <2>10
    <3>2. Fits(f, K, c, A, k) <=> k \in K /\ f[m] + c[k] <= A
      BY <2>1 DEF Fits
    <3>3. Fits(g, L, c, A, k) <=> k \in K /\ g[m] + c[k] <= A
      BY <2>1, <3>1 DEF Fits
    <3> HIDE DEF L
    <3>4. Less(k)
      <4>1. CASE Fits(f, K, c, A, i)
        BY <1>1, <2>6, <2>7, <2>8, <3>1, <3>2, <3>3, <4>1
      <4>2. CASE ~Fits(f, K, c, A, i)
        BY <1>1, <2>6, <2>7, <2>8, <3>1, <3>2, <3>3, <4>2
      <4>3. QED BY <4>1, <4>2
    <3>5. QED BY <2>1, <3>4 DEF k
  <2>11. QED BY <2>2, <2>5, <2>9, <2>10 DEF k
<1>5. n \in P
  <2> HIDE DEF P
  <2>1. 0..n \subseteq P
    BY <1>1, <1>3, <1>4, UpToInduction
  <2>2. QED BY <1>1, <2>1
<1>6. Less(n) /\ f[n] \in Nat /\ g[n] \in Nat /\ f[n] <= A
  BY <1>1, <1>5
<1>7. QED BY <1>1, <1>6

\* With one result more, a run grants no less, unless that one is granted and a later
\* one is not any more: then it loses less than the credits of the later one.
LEMMA GreedyGains ==
    ASSUME NEW f, NEW g, NEW n, NEW K, NEW c, NEW A, NEW i \in 1..n, i \notin K, K \subseteq 1..n,
           NEW L, L = K \cup {i}, Greedy(f, n, K, c, A), Greedy(g, n, L, c, A)
    PROVE  \/ g[n] >= f[n]
           \/ /\ Fits(g, L, c, A, i)
              /\ \E j \in K : /\ i < j /\ Fits(f, K, c, A, j) /\ ~Fits(g, L, c, A, j)
                              /\ g[n] + c[j] > f[n]
<1> DEFINE Lost == {j \in K : Fits(f, K, c, A, j) /\ ~Fits(g, L, c, A, j)}
<1>1. /\ n \in Nat /\ A \in Nat /\ n \in 0..n
      /\ \A k \in 0..n : f[k] \in Nat /\ f[k] <= A
      /\ \A k \in 0..n : g[k] \in Nat /\ g[k] <= g[n]
  <2>1. \A k \in 0..n : f[k] \in Nat /\ f[k] <= A
    BY GreedyBounds
  <2>2. \A k \in 0..n : g[k] \in Nat /\ \A j \in 0..k : g[j] <= g[k]
    BY GreedyBounds
  <2>3. n \in Nat /\ A \in Nat /\ n \in 0..n
    BY DEF Greedy
  <2>4. QED BY <2>1, <2>2, <2>3
<1>2. CASE ~Fits(g, L, c, A, i)
  <2>1. ASSUME NEW k \in 1..n
        PROVE  g[k] = g[k - 1] + IF Fits(g, K, c, A, k) THEN c[k] ELSE 0
    <3>1. Fits(g, K, c, A, k) <=> Fits(g, L, c, A, k)
      BY <1>2 DEF Fits
    <3>2. g[k] = g[k - 1] + IF Fits(g, L, c, A, k) THEN c[k] ELSE 0
      BY DEF Greedy
    <3>3. QED BY <3>1, <3>2
  <2>2. Greedy(g, n, K, c, A)
    BY <2>1 DEF Greedy
  <2>3. \A k \in 0..n : f[k] = g[k]
    <3>1. \A k \in 0..n : (\A h \in 1..k : h \in K <=> h \in K) => f[k] = g[k]
      BY <2>2, GreedySame
    <3>2. QED BY <3>1
  <2>4. QED BY <1>1, <2>3
<1>3. CASE Lost = {}
  <2> DEFINE P == {k \in 0..n : g[k] >= f[k]}
  <2>1. 0 \in P
    BY <1>1 DEF Greedy
  <2>2. ASSUME NEW m \in P, m \in 0..(n - 1) PROVE m + 1 \in P
    <3> DEFINE k == m + 1
    <3>1. k \in 1..n /\ k \in 0..n /\ k - 1 = m /\ m \in 0..n /\ g[m] >= f[m]
      BY <1>1, <2>2
    <3> HIDE DEF k
    <3>2. f[k] = f[m] + IF Fits(f, K, c, A, k) THEN c[k] ELSE 0
      BY <3>1 DEF Greedy
    <3>3. g[k] = g[m] + IF Fits(g, L, c, A, k) THEN c[k] ELSE 0
      BY <3>1 DEF Greedy
    <3>4. Fits(f, K, c, A, k) => Fits(g, L, c, A, k)
      BY <1>3 DEF Fits
    <3>5. c[k] \in Nat /\ f[m] \in Nat /\ g[m] \in Nat
      BY <1>1, <3>1 DEF Greedy
    <3>6. g[k] >= f[k]
      BY <3>1, <3>2, <3>3, <3>4, <3>5
    <3>7. QED BY <3>1, <3>6 DEF k
  <2>3. 0..n \subseteq P
    <3> HIDE DEF P
    <3>1. QED BY <1>1, <2>1, <2>2, UpToInduction
  <2>4. QED BY <1>1, <2>3
<1>4. CASE Fits(g, L, c, A, i) /\ Lost # {}
  <2>1. PICK j \in K : Fits(f, K, c, A, j) /\ ~Fits(g, L, c, A, j)
    BY <1>4
  <2>2. \A k \in 0..(i - 1) : f[k] = g[k]
    <3> TAKE k \in 0..(i - 1)
    <3>1. k \in 0..n /\ \A m \in 1..k : m \in K <=> m \in L
      BY <1>1
    <3>2. \A m \in 0..n : (\A h \in 1..m : h \in K <=> h \in L) => f[m] = g[m]
      BY GreedySame
    <3>3. QED BY <3>1, <3>2
  <2>3. j \in 1..n /\ j - 1 \in 0..n /\ j # i
    BY <1>1
  <2>4. i < j
    <3>1. SUFFICES ASSUME j < i PROVE FALSE
      BY <2>3
    <3>2. j - 1 \in 0..(i - 1)
      BY <2>3, <3>1
    <3>3. f[j - 1] = g[j - 1]
      BY <2>2, <3>2
    <3>4. QED BY <2>1, <3>3 DEF Fits
  <2>5. f[j - 1] \in Nat /\ g[j - 1] \in Nat /\ g[j - 1] <= g[n] /\ f[n] \in Nat /\ f[n] <= A /\ g[n] \in Nat
    BY <1>1, <2>3
  <2>6. c[j] \in Nat /\ A \in Nat
    BY <2>3 DEF Greedy
  <2>7. g[j - 1] + c[j] > A
    BY <2>1, <2>5, <2>6 DEF Fits
  <2>8. g[n] + c[j] > f[n]
    BY <2>5, <2>6, <2>7
  <2>9. QED BY <1>4, <2>1, <2>4, <2>8
<1>5. QED BY <1>2, <1>3, <1>4

\* Credits granted to the results of a year are sums of a greedy run over those that
\* can be compensated.
LEMMA GrantedIs ==
    ASSUME NEW y, YearList(y), rules \in Rule
    PROVE  /\ Len(y) \in Nat /\ DOMAIN y = 1..Len(y)
           /\ Greedy(Granted(y), Len(y), Compensable(y), CreditsOf(y), rules.maxCompensatedCredits)
           /\ \A i \in DOMAIN y :
                 i \in Taken(y) <=> Fits(Granted(y), Compensable(y), CreditsOf(y), rules.maxCompensatedCredits, i)
           /\ Compensated(y) \in Nat
<1> DEFINE n == Len(y)
           K == Compensable(y)
           c == CreditsOf(y)
           A == rules.maxCompensatedCredits
           f == Granted(y)
<1>1. n \in Nat /\ DOMAIN y = 1..n
  BY DEF YearList
<1>2. A \in Nat
  BY DEF Rule
<1>3. \A i \in 1..n : c[i] \in Nat \ {0} /\ c[i] = y[i].credits
  <2>1. \A i \in DOMAIN y : c[i] \in Nat \ {0} /\ c[i] = y[i].credits
    BY CreditsAre
  <2>2. QED BY <1>1, <2>1
<1>4. f = CHOOSE g : g = Granting(y, n, g)
  BY DEF Granted, Granting
<1> HIDE DEF n, f
<1>5. f = Granting(y, n, f)
  BY <1>1, <1>4, GrantsExist
<1>6. f[0] = 0
  BY <1>1, <1>5 DEF Granting
<1>7. ASSUME NEW i \in 1..n PROVE f[i] = f[i - 1] + IF Fits(f, K, c, A, i) THEN c[i] ELSE 0
  <2>1. i \in 0..n /\ i # 0 /\ c[i] = y[i].credits
    BY <1>1, <1>3
  <2>2. f[i] = Granting(y, n, f)[i]
    BY <1>5
  <2> HIDE DEF c, K
  <2>3. QED BY <2>1, <2>2 DEF Granting, Fits, K
<1>8. Greedy(f, n, K, c, A)
  <2> HIDE DEF K, c, A
  <2>1. QED BY <1>1, <1>2, <1>3, <1>6, <1>7 DEF Greedy
<1>9. K \subseteq DOMAIN y
  BY DEF Compensable, Failed, Sitting
<1>10. \A i \in DOMAIN y : i \in Taken(y) <=> Fits(f, K, c, A, i)
  BY <1>1, <1>3 DEF Taken, Fits, f
<1>11. Compensated(y) \in Nat
  <2>1. n \in 0..n
    BY <1>1
  <2> HIDE DEF K, c, A
  <2>2. f[n] \in Nat
    BY <1>8, <2>1, GreedyBounds
  <2>3. QED BY <2>2 DEF Compensated, f, n
<1>12. QED BY <1>1, <1>8, <1>10, <1>11 DEF f, n

\* the second year has the same results, none of them worse
NoWorseYear(y, z) ==
    /\ YearList(y) /\ YearList(z) /\ DOMAIN y = DOMAIN z
    /\ \A i \in DOMAIN y :
          /\ y[i].credits = z[i].credits /\ y[i].thisYear = z[i].thisYear
          /\ y[i].graded = z[i].graded
          /\ y[i].confirmed => z[i].confirmed
          /\ y[i].mark = NoMark <=> z[i].mark = NoMark
          /\ y[i].mark <= z[i].mark

\* and only one of them is another
BetterYear(y, z, i) ==
    NoWorseYear(y, z) /\ i \in DOMAIN y /\ \A j \in DOMAIN y \ {i} : z[j] = y[j]

\* Nothing that was passed fails, and what could be compensated still can or is passed.
LEMMA NoWorsePasses ==
    ASSUME NEW y, NEW z, NoWorseYear(y, z), rules \in Rule
    PROVE  /\ Sitting(y) = Sitting(z) /\ Sitting(z) \subseteq DOMAIN z
           /\ Passed(y) \subseteq Passed(z) /\ Passed(z) \subseteq Sitting(z)
           /\ Failed(z) \subseteq Failed(y) /\ Failed(y) \subseteq Sitting(y)
           /\ Compensable(y) \subseteq Passed(z) \cup Compensable(z)
           /\ Compensable(y) \subseteq Failed(y) /\ Compensable(z) \subseteq Failed(z)
           /\ Failed(y) \cap Passed(y) = {} /\ Failed(z) \cap Passed(z) = {}
           /\ Failed(z) = {} => Passed(z) = Sitting(z)
<1>1. \A i \in DOMAIN y : y[i] \in YearRow /\ z[i] \in YearRow
  BY DEF NoWorseYear, YearList
<1>2. \A i \in DOMAIN y : y[i].mark \in Int /\ z[i].mark \in Int
  BY <1>1 DEF YearRow, NoMark
<1>3. PassMark \in Nat /\ rules.compensationMinMark \in Nat
  BY DEF PassMark, Rule, Unset
<1>4. \A i \in DOMAIN y : IsPass(y[i]) => IsPass(z[i])
  BY <1>2, <1>3 DEF IsPass, NoWorseYear
<1>5. \A i \in DOMAIN y :
          y[i].mark # NoMark /\ y[i].mark >= 100 * rules.compensationMinMark
             => z[i].mark # NoMark /\ z[i].mark >= 100 * rules.compensationMinMark
  BY <1>2, <1>3 DEF NoWorseYear
<1>6. DOMAIN y = DOMAIN z /\ \A i \in DOMAIN y : y[i].thisYear = z[i].thisYear
  BY DEF NoWorseYear
<1>7. Sitting(y) = Sitting(z)
  BY <1>6 DEF Sitting
<1> HIDE DEF NoWorseYear
<1>8. Sitting(y) \subseteq DOMAIN y
  BY DEF Sitting
<1>9. QED
  BY <1>4, <1>5, <1>6, <1>7, <1>8 DEF Passed, Failed, Compensable

\* The same sets of results have the same credits in both years, and more results more.
LEMMA NoWorseCredits ==
    ASSUME NEW y, NEW z, NoWorseYear(y, z), NEW S, NEW T, S \subseteq T, T \subseteq DOMAIN y
    PROVE  /\ Credits(y, S) = Credits(z, S)
           /\ Credits(y, S) \in Nat /\ Credits(y, T) \in Nat /\ Credits(y, S) <= Credits(y, T)
<1>1. YearList(y) /\ YearList(z) /\ S \subseteq DOMAIN y /\ S \subseteq DOMAIN z
  BY DEF NoWorseYear
<1>2. /\ Credits(y, S) = Total(CreditsOf(y), S) /\ Credits(y, S) \in Nat
      /\ \A i \in DOMAIN y : CreditsOf(y)[i] \in Nat \ {0} /\ CreditsOf(y)[i] = y[i].credits
  BY <1>1, CreditsAre
<1>3. /\ Credits(y, T) = Total(CreditsOf(y), T) /\ Credits(y, T) \in Nat
      /\ IsFiniteSet(T)
  BY <1>1, CreditsAre
<1>4. /\ Credits(z, S) = Total(CreditsOf(z), S)
      /\ \A i \in DOMAIN z : CreditsOf(z)[i] = z[i].credits
  BY <1>1, CreditsAre
<1>5. \A i \in S : CreditsOf(y)[i] = CreditsOf(z)[i]
  BY <1>1, <1>2, <1>4 DEF NoWorseYear
<1>6. Total(CreditsOf(y), S) = Total(CreditsOf(z), S)
  BY <1>5, TotalEqual
<1>7. Total(CreditsOf(y), S) <= Total(CreditsOf(y), T)
  <2>1. \A i \in T : CreditsOf(y)[i] \in Nat
    BY <1>2
  <2>2. QED BY <1>3, <2>1, TotalSubset
<1>8. QED BY <1>2, <1>3, <1>4, <1>6, <1>7

\* The credits of two sets of results add up.
LEMMA CreditsAddUp ==
    ASSUME NEW y, YearList(y), NEW S, NEW T, S \subseteq DOMAIN y, T \subseteq DOMAIN y,
           S \cap T = {}
    PROVE  Credits(y, S \cup T) = Credits(y, S) + Credits(y, T)
<1>1. Credits(y, S) = Total(CreditsOf(y), S) /\ IsFiniteSet(S)
  BY CreditsAre
<1>2. Credits(y, T) = Total(CreditsOf(y), T) /\ IsFiniteSet(T)
  BY CreditsAre
<1>3. S \cup T \subseteq DOMAIN y
  OBVIOUS
<1>4. /\ Credits(y, S \cup T) = Total(CreditsOf(y), S \cup T)
      /\ \A i \in DOMAIN y : CreditsOf(y)[i] \in Nat
  BY <1>3, CreditsAre
<1>5. \A i \in S \cup T : CreditsOf(y)[i] \in Nat
  BY <1>3, <1>4
<1>6. QED BY <1>1, <1>2, <1>4, <1>5, TotalUnion

LEMMA CreditsOfOne ==
    ASSUME NEW y, YearList(y), NEW i \in DOMAIN y
    PROVE  Credits(y, {i}) = CreditsOf(y)[i]
<1> DEFINE c == CreditsOf(y)
<1>1. {i} \subseteq DOMAIN y
  OBVIOUS
<1>2. Credits(y, {i}) = Total(c, {i}) /\ IsFiniteSet({i}) /\ c[i] \in Nat
  BY <1>1, CreditsAre
<1> HIDE DEF c
<1>3. Total(c, {i}) = c[i] + Total(c, {i} \ {i})
  BY <1>2, TotalSplit
<1>4. {i} \ {i} = {}
  OBVIOUS
<1>5. Total(c, {i} \ {i}) = 0
  BY <1>4, TotalEmpty
<1>6. QED BY <1>2, <1>3, <1>5 DEF c

\* When one result is better, no fewer credits count, compensated ones included, unless it
\* is compensated in the place of a later one, which had more than what is lost.
LEMMA NoFewerEffective ==
    ASSUME NEW y, NEW z, NEW i, BetterYear(y, z, i), rules \in Rule
    PROVE  \/ Effective(z) >= Effective(y)
           \/ /\ i \in Taken(z) \ Compensable(y)
              /\ \E j \in Taken(y) \ (Taken(z) \cup Passed(z)) :
                    i < j /\ Effective(z) + y[j].credits > Effective(y)
<1> DEFINE n == Len(y)
           c == CreditsOf(y)
           A == rules.maxCompensatedCredits
           K == Compensable(y)
           L == Compensable(z)
           f == Granted(y)
           g == Granted(z)
           P == Credits(y, Passed(y))
           Q == Credits(z, Passed(z))
<1>1. /\ NoWorseYear(y, z) /\ i \in DOMAIN y /\ \A j \in DOMAIN y \ {i} : z[j] = y[j]
      /\ YearList(y) /\ YearList(z) /\ DOMAIN y = DOMAIN z
  BY DEF BetterYear, NoWorseYear
<1>2. /\ n \in Nat /\ DOMAIN y = 1..n /\ Greedy(f, n, K, c, A) /\ Compensated(y) = f[n]
      /\ \A j \in DOMAIN y : j \in Taken(y) <=> Fits(f, K, c, A, j)
      /\ Compensated(y) \in Nat
  BY <1>1, GrantedIs DEF Compensated
<1>3. Len(z) = n /\ CreditsOf(z) = c
  <2>1. Len(z) \in Nat /\ DOMAIN z = 1..Len(z)
    BY <1>1, GrantedIs
  <2>2. Len(z) = n
    <3> DEFINE m == Len(z)
    <3>1. m \in Nat /\ n \in Nat /\ 1..m = 1..n
      BY <1>1, <1>2, <2>1
    <3> HIDE DEF m, n
    <3>2. (m \in 1..m <=> m \in 1..n) /\ (n \in 1..m <=> n \in 1..n)
      BY <3>1
    <3>3. m = n
      BY <3>1, <3>2
    <3>4. QED BY <3>3 DEF m
  <2>3. \A j \in DOMAIN y : z[j].credits = y[j].credits
    BY <1>1 DEF NoWorseYear
  <2>4. QED BY <1>1, <2>2, <2>3 DEF CreditsOf
<1>4. /\ Greedy(g, n, L, c, A) /\ Compensated(z) = g[n]
      /\ \A j \in DOMAIN y : j \in Taken(z) <=> Fits(g, L, c, A, j)
      /\ Compensated(z) \in Nat
  <2>1. /\ Greedy(g, Len(z), L, CreditsOf(z), A)
        /\ \A j \in DOMAIN z : j \in Taken(z) <=> Fits(g, L, CreditsOf(z), A, j)
        /\ Compensated(z) \in Nat
    BY <1>1, GrantedIs
  <2>2. QED BY <1>1, <1>3, <2>1 DEF Compensated
<1>5. /\ Passed(y) \subseteq Passed(z) /\ Passed(z) \subseteq DOMAIN y /\ K \subseteq Passed(z) \cup L
      /\ K \cap Passed(y) = {} /\ L \cap Passed(z) = {} /\ K \subseteq DOMAIN y /\ L \subseteq DOMAIN y
      /\ L \cap Passed(y) = {}
  BY <1>1, NoWorsePasses
<1>6. \A j \in DOMAIN y \ {i} : (j \in K <=> j \in L) /\ (j \in Passed(y) <=> j \in Passed(z))
  BY <1>1 DEF Compensable, Failed, Passed, Sitting
<1>7. /\ P \in Nat /\ Q \in Nat
      /\ \A S \in SUBSET Passed(z) : Credits(y, S) \in Nat /\ Credits(y, S) <= Q
  <2>1. P \in Nat /\ Q \in Nat
    BY <1>1, <1>5, CreditsAre
  <2>2. ASSUME NEW S \in SUBSET Passed(z) PROVE Credits(y, S) \in Nat /\ Credits(y, S) <= Q
    <3>1. Credits(y, S) \in Nat /\ Credits(y, S) <= Credits(y, Passed(z))
      BY <1>1, <1>5, NoWorseCredits
    <3>2. Credits(y, Passed(z)) = Q
      BY <1>1, <1>5, NoWorseCredits
    <3>3. QED BY <3>1, <3>2
  <2>3. QED BY <2>1, <2>2
<1>8. Effective(y) = P + f[n] /\ Effective(z) = Q + g[n] /\ f[n] \in Nat /\ g[n] \in Nat
  BY <1>2, <1>4 DEF Effective
<1>9. P <= Q
  BY <1>5, <1>7
<1>10. \A j \in DOMAIN y : c[j] = y[j].credits /\ c[j] \in Nat
  BY <1>1, CreditsAre
<1> HIDE DEF n, c, A, K, L, f, g, P, Q
<1>11. CASE i \in K <=> i \in L
  <2>1. n \in 0..n /\ \A j \in 1..n : j \in K <=> j \in L
    BY <1>2, <1>6, <1>11
  <2>2. f[n] = g[n]
    BY <1>2, <1>4, <2>1, GreedySame
  <2>3. QED BY <1>7, <1>8, <1>9, <2>2
<1>12. CASE i \in K /\ i \notin L
  <2>1. L = K \ {i} /\ i \in Passed(z) /\ i \notin Passed(y)
    BY <1>5, <1>6, <1>12
  <2>2. g[n] + c[i] >= f[n]
    BY <1>1, <1>2, <1>4, <2>1, GreedyLoses
  <2>3. Q >= P + c[i]
    <3> DEFINE S == Passed(y)
    <3>1. S \subseteq DOMAIN y /\ {i} \subseteq DOMAIN y /\ S \cap {i} = {} /\ S \cup {i} \subseteq Passed(z)
      BY <1>1, <1>5, <2>1
    <3>2. Credits(y, S \cup {i}) = Credits(y, S) + Credits(y, {i})
      BY <1>1, <3>1, CreditsAddUp
    <3>3. Credits(y, {i}) = c[i]
      BY <1>1, CreditsOfOne DEF c
    <3>4. Credits(y, S \cup {i}) <= Q
      BY <1>7, <3>1
    <3>5. QED BY <1>7, <3>2, <3>3, <3>4 DEF P
  <2>4. QED BY <1>1, <1>7, <1>8, <1>10, <2>2, <2>3
<1>13. CASE i \notin K /\ i \in L
  <2>1. L = K \cup {i} /\ K \subseteq 1..n /\ i \in 1..n
    BY <1>1, <1>2, <1>5, <1>6, <1>13
  <2>2. \/ g[n] >= f[n]
        \/ /\ Fits(g, L, c, A, i)
           /\ \E j \in K : /\ i < j /\ Fits(f, K, c, A, j) /\ ~Fits(g, L, c, A, j)
                           /\ g[n] + c[j] > f[n]
    BY <1>2, <1>4, <1>13, <2>1, GreedyGains
  <2>3. CASE g[n] >= f[n]
    BY <1>7, <1>8, <1>9, <2>3
  <2>4. ASSUME Fits(g, L, c, A, i),
               NEW j \in K, i < j, Fits(f, K, c, A, j), ~Fits(g, L, c, A, j), g[n] + c[j] > f[n]
        PROVE  /\ i \in Taken(z) \ K
               /\ j \in Taken(y) \ (Taken(z) \cup Passed(z))
               /\ Effective(z) + y[j].credits > Effective(y)
    <3>1. j \in DOMAIN y /\ j # i /\ j \in L /\ j \notin Passed(z)
      BY <1>2, <1>5, <2>1, <2>4
    <3>2. i \in Taken(z) \ K
      BY <1>1, <1>4, <1>13, <2>4
    <3>3. j \in Taken(y) \ (Taken(z) \cup Passed(z))
      BY <1>2, <1>4, <2>4, <3>1
    <3>4. c[j] \in Nat /\ c[j] = y[j].credits
      BY <1>10, <3>1
    <3>5. QED BY <1>7, <1>8, <1>9, <2>4, <3>2, <3>3, <3>4
  <2>5. QED BY <2>2, <2>3, <2>4 DEF K
<1>14. QED BY <1>11, <1>12, <1>13

\* The decision on the second year is no worse, unless a later result is displaced.
LEMMA DecisionKeepsRank ==
    ASSUME NEW y, NEW z, NEW i, BetterYear(y, z, i), rules \in Rule,
           Credits(y, Sitting(y)) >= rules.fullYearCredits
    PROVE  \/ Rank(DecideProgression(z)) >= Rank(DecideProgression(y))
           \/ /\ i \in Taken(z) \ Compensable(y)
              /\ \E j \in Taken(y) \ (Taken(z) \cup Passed(z)) :
                    i < j /\ Effective(z) + y[j].credits > Effective(y)
<1> DEFINE before == Credits(y, Passed(y))
           now == Credits(z, Passed(z))
           some == Effective(y)
           more == Effective(z)
           full == rules.fullYearCredits
           least == rules.withdrawThreshold * full
<1>1. YearList(y) /\ YearList(z) /\ DOMAIN y = DOMAIN z /\ NoWorseYear(y, z)
  BY DEF BetterYear, NoWorseYear
<1>2. /\ Passed(y) \subseteq Passed(z) /\ Passed(z) \subseteq DOMAIN z
      /\ Failed(z) \subseteq Failed(y) /\ Failed(y) \subseteq DOMAIN y
      /\ Sitting(y) = Sitting(z) /\ Sitting(z) \subseteq DOMAIN z
      /\ Failed(z) = {} => Passed(z) = Sitting(z)
  BY <1>1, NoWorsePasses
<1>3. before \in Nat /\ now \in Nat
  BY <1>1, <1>2, CreditsAre
<1>4. before <= now
  <2>1. Credits(y, Passed(y)) <= Credits(y, Passed(z))
    BY <1>1, <1>2, NoWorseCredits
  <2>2. Credits(y, Passed(z)) = Credits(z, Passed(z))
    BY <1>1, <1>2, NoWorseCredits
  <2>3. QED BY <2>1, <2>2
<1>5. Credits(y, Sitting(y)) = Credits(z, Sitting(z))
  BY <1>1, <1>2, NoWorseCredits
<1>6. some \in Nat /\ more \in Nat /\ more >= now
  <2>1. Compensated(y) \in Nat /\ Compensated(z) \in Nat
    BY <1>1, GrantedIs
  <2>2. QED BY <1>3, <2>1 DEF Effective
<1>7. SUFFICES ASSUME some <= more
               PROVE  Rank(DecideProgression(z)) >= Rank(DecideProgression(y))
  <2>1. \/ more >= some
        \/ /\ i \in Taken(z) \ Compensable(y)
           /\ \E j \in Taken(y) \ (Taken(z) \cup Passed(z)) :
                 i < j /\ more + y[j].credits > some
    BY NoFewerEffective
  <2> HIDE DEF some, more
  <2>2. QED BY <1>6, <2>1 DEF some, more
<1>8. full \in Nat /\ least \in Nat
  <2>1. full \in Nat /\ rules.withdrawThreshold \in Nat
    BY DEF Rule
  <2>2. QED BY <2>1
<1>9. /\ IsFiniteSet(Failed(y)) /\ IsFiniteSet(Failed(z))
      /\ Cardinality(Failed(y)) \in Nat /\ Cardinality(Failed(z)) \in Nat
      /\ Cardinality(Failed(z)) <= Cardinality(Failed(y))
  <2>1. IsFiniteSet(Failed(y))
    BY <1>1, <1>2, CreditsAre
  <2>2. QED BY <1>2, <2>1, FS_Subset, FS_CardinalityType
<1>10. ModerateFailures(y) /\ ~ModerateFailures(z) => more >= full
  <2> SUFFICES ASSUME ModerateFailures(y), ~ModerateFailures(z) PROVE more >= full
    OBVIOUS
  <2>1. Cardinality(Failed(z)) = 0
    BY <1>9 DEF ModerateFailures
  <2>2. Failed(z) = {}
    BY <1>9, <2>1, FS_EmptySet
  <2>3. now = Credits(y, Sitting(y))
    BY <1>2, <1>5, <2>2
  <2>4. QED BY <1>3, <1>6, <1>8, <2>3
<1> DEFINE none == Credits(y, Sitting(y)) = 0
<1>11. DecideProgression(y) = IF none THEN "REPEAT_YEAR"
                              ELSE IF some >= full THEN "PROGRESS"
                              ELSE IF 100 * before < least THEN "WITHDRAW"
                              ELSE IF ModerateFailures(y) THEN "REPEAT_MODULES"
                              ELSE "REPEAT_YEAR"
  BY DEF DecideProgression
<1>12. DecideProgression(z) = IF none THEN "REPEAT_YEAR"
                              ELSE IF more >= full THEN "PROGRESS"
                              ELSE IF 100 * now < least THEN "WITHDRAW"
                              ELSE IF ModerateFailures(z) THEN "REPEAT_MODULES"
                              ELSE "REPEAT_YEAR"
  BY <1>5 DEF DecideProgression
<1>13. /\ Rank("WITHDRAW") = 0 /\ Rank("REPEAT_YEAR") = 1
       /\ Rank("REPEAT_MODULES") = 2 /\ Rank("PROGRESS") = 3
  BY DEF Rank
<1> HIDE DEF before, now, some, more, full, least, none
<1>14. some >= full => more >= full
  BY <1>6, <1>7, <1>8
<1>15. 100 * now < least => 100 * before < least
  BY <1>3, <1>4, <1>8
<1>16. CASE none
  BY <1>11, <1>12, <1>13, <1>16
<1>17. CASE ~none /\ more >= full
  BY <1>11, <1>12, <1>13, <1>17
<1>18. CASE ~none /\ ~(more >= full) /\ 100 * now < least
  BY <1>11, <1>12, <1>13, <1>14, <1>15, <1>18
<1>19. CASE ~none /\ ~(more >= full) /\ ~(100 * now < least)
  BY <1>10, <1>11, <1>12, <1>13, <1>14, <1>15, <1>19
<1>20. QED BY <1>16, <1>17, <1>18, <1>19

\* A better average gives no worse a class.
LEMMA ClassOfKeepsOrder ==
    ASSUME NEW a \in Int, NEW b \in Int, a <= b, rules \in Rule
    PROVE  ClassOf(a) \in Nat /\ ClassOf(b) \in Nat /\ ClassOf(a) <= ClassOf(b)
<1> DEFINE B == Boundaries
           R(x) == {k \in DOMAIN B : \E j \in 1..k : x >= 100 * B[j]}
<1>1. B \in Seq(Nat)
  <2>1. /\ rules.honoursBoundaries \in Seq(Nat) /\ rules.pgtBoundaries \in Seq(Nat)
        /\ rules.subHonoursPassMark \in Nat
    BY DEF Rule
  <2>2. <<>> \in Seq(Nat) /\ <<rules.subHonoursPassMark>> \in Seq(Nat)
    BY <2>1
  <2>3. QED BY <2>1, <2>2 DEF Boundaries
<1>2. ClassOf(a) = Cardinality(R(a)) /\ ClassOf(b) = Cardinality(R(b))
  BY DEF ClassOf
<1> HIDE DEF B
<1>3. DOMAIN B = 1..Len(B) /\ Len(B) \in Nat /\ \A k \in 1..Len(B) : B[k] \in Nat
  BY <1>1
<1>4. R(a) \subseteq R(b)
  <2>1. ASSUME NEW k \in DOMAIN B, NEW j \in 1..k, a >= 100 * B[j] PROVE b >= 100 * B[j]
    <3>1. B[j] \in Nat
      BY <1>3
    <3>2. QED BY <2>1, <3>1
  <2>2. QED BY <2>1
<1>5. IsFiniteSet(R(b))
  <2>1. IsFiniteSet(DOMAIN B)
    BY <1>3, FS_Interval
  <2>2. R(b) \subseteq DOMAIN B
    OBVIOUS
  <2> HIDE DEF R
  <2>3. QED BY <2>1, <2>2, FS_Subset
<1> HIDE DEF R
<1>6. /\ Cardinality(R(a)) \in Nat /\ Cardinality(R(b)) \in Nat
      /\ Cardinality(R(a)) <= Cardinality(R(b))
  BY <1>4, <1>5, FS_Subset, FS_CardinalityType
<1>7. QED BY <1>2, <1>6

Marked(y) == {i \in ConfirmedResults(y) : y[i].mark # NoMark}
PointsOf(y) == [i \in DOMAIN y |-> y[i].mark * y[i].credits]

\* The class is the one of the rounded quotient of two totals.
LEMMA ClassIs ==
    ASSUME NEW y, YearList(y)
    PROVE  LET S == Marked(y)
               W == Total(CreditsOf(y), S)
               T == Total(PointsOf(y), S)
           IN  /\ S \subseteq DOMAIN y /\ IsFiniteSet(S) /\ W \in Nat /\ T \in Nat
               /\ \A i \in DOMAIN y : CreditsOf(y)[i] \in Nat \ {0} /\ CreditsOf(y)[i] = y[i].credits
               /\ \A i \in S : /\ y[i].mark \in Nat /\ PointsOf(y)[i] \in Nat
                               /\ PointsOf(y)[i] = y[i].mark * y[i].credits
               /\ ClassifyAward(y) = IF W = 0 THEN 0 ELSE ClassOf(Rounded(T, W))
<1> DEFINE S == Marked(y)
           p == [i \in S |-> y[i].mark * y[i].credits]
<1>1. S \subseteq DOMAIN y
  BY DEF Marked, ConfirmedResults
<1>2. /\ Credits(y, S) = Total(CreditsOf(y), S) /\ Credits(y, S) \in Nat /\ IsFiniteSet(S)
      /\ \A i \in DOMAIN y : CreditsOf(y)[i] \in Nat \ {0} /\ CreditsOf(y)[i] = y[i].credits
  BY <1>1, CreditsAre
<1>3. ASSUME NEW i \in S
      PROVE  y[i].mark \in Nat /\ p[i] \in Nat /\ PointsOf(y)[i] = p[i] /\ p[i] = y[i].mark * y[i].credits
  <2>1. y[i] \in YearRow /\ y[i].mark # NoMark /\ i \in DOMAIN y
    BY <1>1 DEF YearList, Marked
  <2> DEFINE m == y[i].mark
             c == y[i].credits
  <2>2. m \in Nat /\ c \in Nat
    BY <2>1 DEF YearRow
  <2>3. p[i] = m * c /\ PointsOf(y)[i] = m * c
    BY <2>1 DEF PointsOf
  <2> HIDE DEF m, c, p
  <2>4. m * c \in Nat
    BY <2>2
  <2>5. QED BY <2>2, <2>3, <2>4 DEF m, c
<1>4. ClassifyAward(y) = IF Credits(y, S) = 0 THEN 0 ELSE ClassOf(Rounded(SumFunction(p), Credits(y, S)))
  BY DEF ClassifyAward, Marked
<1>5. DOMAIN p = S
  OBVIOUS
<1> HIDE DEF S, p
<1>6. SumFunction(p) = Total(p, S) /\ Total(p, S) \in Nat
  BY <1>2, <1>3, <1>5, SumFunctionIsTotal, TotalType
<1>7. Total(p, S) = Total(PointsOf(y), S)
  BY <1>3, TotalEqual
<1>8. QED BY <1>1, <1>2, <1>3, <1>4, <1>6, <1>7 DEF S

\* Over the same ratified results, none of them worse, the class is no worse.
LEMMA ClassKeepsOrder ==
    ASSUME NEW y, NEW z, NoWorseYear(y, z), ConfirmedResults(y) = ConfirmedResults(z), rules \in Rule
    PROVE  ClassifyAward(z) >= ClassifyAward(y)
<1> DEFINE S == Marked(y)
           W == Total(CreditsOf(y), S)
           p == PointsOf(y)
           q == PointsOf(z)
           a == Total(p, S)
           b == Total(q, S)
<1>1. YearList(y) /\ YearList(z) /\ DOMAIN y = DOMAIN z
  BY DEF NoWorseYear
<1>2. Marked(z) = S
  BY DEF NoWorseYear, Marked, ConfirmedResults
<1>3. CreditsOf(z) = CreditsOf(y)
  BY DEF NoWorseYear, CreditsOf
<1>4. /\ S \subseteq DOMAIN y /\ IsFiniteSet(S) /\ W \in Nat /\ a \in Nat
      /\ \A i \in S : y[i].mark \in Nat /\ p[i] \in Nat /\ p[i] = y[i].mark * y[i].credits
      /\ \A i \in DOMAIN y : y[i].credits \in Nat
      /\ ClassifyAward(y) = IF W = 0 THEN 0 ELSE ClassOf(Rounded(a, W))
  <2>1. \A i \in DOMAIN y : CreditsOf(y)[i] \in Nat \ {0} /\ CreditsOf(y)[i] = y[i].credits
    BY <1>1, ClassIs
  <2>2. QED BY <1>1, <2>1, ClassIs
<1>5. /\ b \in Nat
      /\ \A i \in S : z[i].mark \in Nat /\ q[i] \in Nat /\ q[i] = z[i].mark * z[i].credits
      /\ ClassifyAward(z) = IF W = 0 THEN 0 ELSE ClassOf(Rounded(b, W))
  <2> HIDE DEF S
  <2>1. LET R == Marked(z)
        IN  /\ Total(PointsOf(z), R) \in Nat
            /\ \A i \in R : z[i].mark \in Nat /\ q[i] \in Nat /\ q[i] = z[i].mark * z[i].credits
            /\ ClassifyAward(z) = IF Total(CreditsOf(z), R) = 0 THEN 0
                                  ELSE ClassOf(Rounded(Total(PointsOf(z), R), Total(CreditsOf(z), R)))
    BY <1>1, ClassIs
  <2>2. QED BY <1>2, <1>3, <2>1
<1> HIDE DEF S, W
<1>6. \A i \in S : p[i] <= q[i]
  <2> TAKE i \in S
  <2> DEFINE m == y[i].mark
             k == z[i].mark
             c == y[i].credits
  <2>1. m \in Nat /\ k \in Nat /\ c \in Nat /\ m <= k /\ z[i].credits = c
    BY <1>4, <1>5 DEF NoWorseYear
  <2>2. p[i] = m * c /\ q[i] = k * c
    BY <1>4, <1>5, <2>1
  <2> HIDE DEF m, k, c, p, q
  <2>3. m * c <= k * c
    BY <2>1
  <2>4. QED BY <2>2, <2>3
<1> HIDE DEF p, q
<1>7. a <= b
  BY <1>4, <1>5, <1>6, TotalMonotone
<1> HIDE DEF a, b
<1>8. CASE W = 0
  BY <1>4, <1>5, <1>8
<1>9. CASE W # 0
  <2>1. Rounded(a, W) \in Int /\ Rounded(b, W) \in Int /\ Rounded(a, W) <= Rounded(b, W)
    BY <1>4, <1>5, <1>7, <1>9, RoundedKeepsOrder
  <2>2. /\ ClassOf(Rounded(a, W)) \in Nat /\ ClassOf(Rounded(b, W)) \in Nat
        /\ ClassOf(Rounded(a, W)) <= ClassOf(Rounded(b, W))
    BY <2>1, ClassOfKeepsOrder
  <2>3. QED BY <1>4, <1>5, <1>9, <2>2
<1>10. QED BY <1>8, <1>9

\* A rounded average of p over w does not fall below r when a mark of at least r, with
\* its credits c, joins an average of at least r.
LEMMA AverageJoined ==
    ASSUME NEW p \in Nat, NEW w \in Nat, NEW m \in Nat, NEW c \in Nat \ {0}, NEW r \in Nat,
           m >= r, w # 0 => Rounded(p, w) >= r, w = 0 => p = 0
    PROVE  Rounded(p + m * c, w + c) \in Nat /\ Rounded(p + m * c, w + c) >= r
<1> DEFINE mc == m * c
           rc == r * c
           rw == r * w
<1>1. mc \in Nat /\ rc \in Nat /\ rw \in Nat /\ mc >= rc
  BY Z3
<1>2. 2 * p + w >= 2 * rw
  <2>1. CASE w = 0
    BY <1>1, <2>1
  <2>2. CASE w # 0
    <3> DEFINE x == 2 * p + w
               d == 2 * w
               q == x \div d
    <3>1. x \in Nat /\ d \in Nat \ {0} /\ q >= r
      BY <2>2 DEF Rounded
    <3> HIDE DEF x, d
    <3>2. q \in Nat /\ d * q <= x
      BY <3>1
    <3> HIDE DEF q
    <3>3. d * r <= d * q
      BY <3>1, <3>2
    <3>4. d * r = 2 * rw
      BY DEF d
    <3>5. d * r \in Nat /\ d * q \in Nat
      BY <3>1, <3>2
    <3>6. d * r <= x
      BY <3>1, <3>2, <3>3, <3>5
    <3>7. QED BY <3>4, <3>6 DEF x
  <2>3. QED BY <2>1, <2>2
<1> DEFINE x == 2 * (p + mc) + (w + c)
           d == 2 * (w + c)
           q == x \div d
<1>3. d * r = 2 * rw + 2 * rc
  OBVIOUS
<1>4. Rounded(p + m * c, w + c) = q
  BY DEF Rounded
<1> HIDE DEF mc, rc, rw
<1>5. x \in Nat /\ d \in Nat \ {0}
  BY <1>1
<1>6. x >= 2 * rw + 2 * rc
  BY <1>1, <1>2
<1> HIDE DEF x, d
<1>7. q \in Nat /\ x < d * q + d /\ d * r <= x
  BY <1>3, <1>5, <1>6
<1> HIDE DEF q
<1>8. d * q + d = d * (q + 1)
  BY <1>5, <1>7
<1>9. d * r < d * (q + 1)
  <2>1. d * r \in Nat /\ d * (q + 1) \in Nat
    BY <1>5, <1>7
  <2>2. QED BY <1>5, <1>7, <1>8, <2>1
<1>10. r < q + 1
  BY <1>5, <1>7, <1>9
<1>11. QED BY <1>4, <1>7, <1>10

\* A ratified mark that joins the average lowers the class at most to its own.
LEMMA ClassJoined ==
    ASSUME NEW y, NEW z, NEW i, BetterYear(y, z, i), rules \in Rule,
           z[i].mark = y[i].mark, ~y[i].confirmed, z[i].confirmed
    PROVE  \/ ClassifyAward(z) >= ClassifyAward(y)
           \/ y[i].mark # NoMark /\ ClassifyAward(z) >= ClassOf(y[i].mark)
<1> DEFINE S == Marked(y)
           R == Marked(z)
           c == CreditsOf(y)
           p == PointsOf(y)
           W == Total(c, S)
           T == Total(p, S)
           m == y[i].mark
<1>1. /\ YearList(y) /\ YearList(z) /\ DOMAIN y = DOMAIN z /\ i \in DOMAIN y
      /\ \A j \in DOMAIN y \ {i} : z[j] = y[j]
      /\ \A j \in DOMAIN y : z[j].credits = y[j].credits /\ z[j].mark = y[j].mark
  BY DEF BetterYear, NoWorseYear
<1>2. CreditsOf(z) = c /\ PointsOf(z) = p
  BY <1>1 DEF CreditsOf, PointsOf
<1>3. R = IF m = NoMark THEN S ELSE S \cup {i}
  BY <1>1 DEF Marked, ConfirmedResults
<1>4. i \notin S
  BY DEF Marked, ConfirmedResults
<1>5. /\ S \subseteq DOMAIN y /\ IsFiniteSet(S) /\ W \in Nat /\ T \in Nat
      /\ \A j \in DOMAIN y : c[j] \in Nat \ {0} /\ c[j] = y[j].credits
      /\ \A j \in S : p[j] \in Nat
      /\ ClassifyAward(y) = IF W = 0 THEN 0 ELSE ClassOf(Rounded(T, W))
  BY <1>1, ClassIs
<1>6. /\ IsFiniteSet(R) /\ Total(c, R) \in Nat /\ Total(p, R) \in Nat
      /\ \A j \in R : z[j].mark \in Nat /\ p[j] \in Nat /\ p[j] = z[j].mark * z[j].credits
      /\ ClassifyAward(z) = IF Total(c, R) = 0 THEN 0 ELSE ClassOf(Rounded(Total(p, R), Total(c, R)))
  <2> HIDE DEF R, c, p
  <2>1. YearList(z) /\ CreditsOf(z) = c /\ PointsOf(z) = p
    BY <1>1, <1>2
  <2>2. LET Q == Marked(z)
        IN  /\ IsFiniteSet(Q) /\ Total(CreditsOf(z), Q) \in Nat /\ Total(PointsOf(z), Q) \in Nat
            /\ \A j \in Q : /\ z[j].mark \in Nat /\ PointsOf(z)[j] \in Nat
                            /\ PointsOf(z)[j] = z[j].mark * z[j].credits
            /\ ClassifyAward(z) = IF Total(CreditsOf(z), Q) = 0 THEN 0
                                  ELSE ClassOf(Rounded(Total(PointsOf(z), Q), Total(CreditsOf(z), Q)))
    BY <2>1, ClassIs
  <2>3. QED BY <2>1, <2>2 DEF R
<1> HIDE DEF S, R, c, p
<1>7. CASE m = NoMark
  <2>1. R = S
    BY <1>3, <1>7
  <2>2. ClassifyAward(z) = ClassifyAward(y)
    BY <1>5, <1>6, <2>1
  <2>3. ClassifyAward(y) \in Int
    <3>1. CASE W = 0
      BY <1>5, <3>1
    <3>2. CASE W # 0
      <4>1. Rounded(T, W) \in Int
        BY <1>5, <3>2, RoundedKeepsOrder
      <4>2. ClassOf(Rounded(T, W)) \in Nat
        BY <4>1, ClassOfKeepsOrder
      <4>3. QED BY <1>5, <3>2, <4>2
    <3>3. QED BY <3>1, <3>2
  <2>4. QED BY <2>2, <2>3
<1>8. CASE m # NoMark
  <2>1. R = S \cup {i} /\ i \in R /\ R \ {i} = S
    BY <1>3, <1>4, <1>8
  <2>2. Total(c, R) = W + c[i]
    <3>1. \A j \in R : c[j] \in Nat
      BY <1>1, <1>5, <2>1
    <3> DEFINE rest == R \ {i}
    <3>2. Total(c, R) = c[i] + Total(c, rest)
      BY <1>6, <2>1, <3>1, TotalSplit
    <3>3. c[i] \in Nat /\ rest = S
      BY <2>1, <3>1
    <3> HIDE DEF rest
    <3>4. QED BY <1>5, <3>2, <3>3
  <2>3. Total(p, R) = T + m * c[i]
    <3> DEFINE rest == R \ {i}
    <3>1. Total(p, R) = p[i] + Total(p, rest)
      BY <1>6, <2>1, TotalSplit
    <3>2. p[i] \in Nat /\ p[i] = m * c[i] /\ rest = S
      BY <1>1, <1>5, <1>6, <2>1
    <3> HIDE DEF rest
    <3>3. QED BY <1>5, <3>1, <3>2
  <2>4. m \in Nat /\ c[i] \in Nat \ {0}
    BY <1>1, <1>5, <1>6, <2>1
  <2>5. W = 0 => T = 0
    <3>1. SUFFICES ASSUME W = 0, S # {} PROVE FALSE
      BY TotalEmpty
    <3>2. PICK j \in S : TRUE
      BY <3>1
    <3>3. \A k \in S : c[k] \in Nat
      BY <1>5
    <3>4. Total(c, S) = c[j] + Total(c, S \ {j})
      BY <1>5, <3>3, TotalSplit
    <3>5. S \ {j} \in SUBSET S /\ IsFiniteSet(S \ {j})
      BY <1>5, FS_Subset
    <3>6. Total(c, S \ {j}) \in Nat
      BY <3>3, <3>5, TotalType
    <3>7. c[j] \in Nat \ {0}
      BY <1>5
    <3>8. QED BY <3>1, <3>4, <3>6, <3>7
  <2> DEFINE old == Rounded(T, W)
             new == Rounded(T + m * c[i], W + c[i])
             r == IF W # 0 /\ old < m THEN old ELSE m
  <2>6. W # 0 => old \in Nat
    BY <1>5, RoundedKeepsOrder
  <2>7. r \in Nat /\ m >= r /\ (W # 0 => old >= r)
    BY <2>4, <2>6
  <2>8. ClassifyAward(z) = ClassOf(new)
    BY <1>5, <1>6, <2>2, <2>3, <2>4
  <2> HIDE DEF r, m
  <2>9. new \in Nat /\ new >= r
    BY <1>5, <2>4, <2>5, <2>7, AverageJoined
  <2> HIDE DEF new
  <2>10. r \in Int /\ new \in Int /\ r <= new
    BY <2>7, <2>9
  <2>11. ClassOf(r) \in Nat /\ ClassOf(new) \in Nat /\ ClassOf(r) <= ClassOf(new)
    BY <2>10, ClassOfKeepsOrder
  <2>12. CASE r = m
    BY <1>8, <2>8, <2>11, <2>12 DEF m
  <2>13. CASE r # m
    <3>1. W # 0 /\ r = old
      BY <2>13 DEF r
    <3>2. QED BY <1>5, <2>8, <2>11, <3>1
  <2>14. QED BY <2>12, <2>13
<1>9. QED BY <1>7, <1>8

\* The results, each with the aggregate of its components.
YearInv ==
    /\ YearList(results) /\ rules \in Rule
    /\ \A i \in DOMAIN results : results[i].mark = AggregateMark(results[i].components)

LEMMA AggregateTyped ==
    ASSUME NEW list, ComponentList(list)
    PROVE  AggregateMark(list) \in Nat \cup {NoMark}
<1>1. \A k \in DOMAIN list : list[k] \in Component
  BY DEF ComponentList
<1>2. NoWorseComponents(list, list)
  BY <1>1 DEF NoWorseComponents, Component, NoMark
<1>3. QED BY <1>2, AggregateKeepsOrder

LEMMA YearStarts ==
    ASSUME YearInit PROVE YearInv
<1>1. PICK shape \in Shapes : \E list \in [DOMAIN shape -> Components] :
          results = [i \in DOMAIN shape |-> Result(shape[i], list[i])]
  BY DEF YearInit
<1>2. PICK list \in [DOMAIN shape -> Components] :
          results = [i \in DOMAIN shape |-> Result(shape[i], list[i])]
  BY <1>1
<1>3. /\ DOMAIN shape = 1..Len(shape) /\ Len(shape) \in Nat
      /\ \A i \in DOMAIN shape : shape[i] \in Shape
  <2>1. shape \in Seq(Shape)
    BY YearAssumption
  <2>2. QED BY <2>1
<1>4. \A i \in DOMAIN shape : ComponentList(list[i])
  BY YearAssumption DEF ComponentList
<1>5. DOMAIN results = DOMAIN shape
  BY <1>2
<1>6. \A i \in DOMAIN results : /\ results[i] \in YearRow
                                /\ results[i].mark = AggregateMark(results[i].components)
  <2> TAKE i \in DOMAIN results
  <2> DEFINE a == AggregateMark(list[i])
  <2>1. results[i] = Result(shape[i], list[i])
    BY <1>2, <1>5
  <2>2. a \in Nat \cup {NoMark} /\ list[i] \in Seq(Component)
    BY <1>4, <1>5, AggregateTyped DEF ComponentList
  <2>3. shape[i] \in Shape
    BY <1>3, <1>5
  <2>4. results[i] = [credits |-> shape[i].credits, thisYear |-> shape[i].thisYear,
                      graded |-> shape[i].graded, confirmed |-> shape[i].confirmed,
                      components |-> list[i], mark |-> a]
    BY <2>1 DEF Result
  <2>5. results[i].mark = a /\ results[i].components = list[i]
    BY <2>4
  <2> HIDE DEF a
  <2>6. results[i] \in YearRow
    BY <2>2, <2>3, <2>4 DEF YearRow, Shape
  <2>7. QED BY <2>5, <2>6 DEF a
<1>7. YearList(results)
  <2>1. results = [i \in 1..Len(shape) |-> results[i]]
    BY <1>2, <1>3
  <2>2. QED BY <1>3, <1>5, <1>6, <2>1 DEF YearList
<1>8. rules \in Rule
  BY YearAssumption DEF YearInit
<1>9. QED BY <1>6, <1>7, <1>8 DEF YearInv

\* The first result is replaced by the second, of the same module and with its aggregate.
Replaced(i, row) ==
    /\ results' = [results EXCEPT ![i] = row] /\ UNCHANGED rules
    /\ row \in YearRow /\ row.mark = AggregateMark(row.components)
    /\ row.credits = results[i].credits /\ row.thisYear = results[i].thisYear
    /\ row.graded = results[i].graded /\ (results[i].confirmed => row.confirmed)
    /\ DOMAIN row.components = DOMAIN results[i].components
    /\ \A k \in DOMAIN row.components :
          row.components[k].weighting = results[i].components[k].weighting

LEMMA RowReplaced ==
    ASSUME YearInv, NEW i \in DOMAIN results, NEW row, Replaced(i, row)
    PROVE  YearInv' /\ (Improved => BetterYear(results, results', i))
<1>1. /\ DOMAIN results' = DOMAIN results /\ results'[i] = row
      /\ \A j \in DOMAIN results \ {i} : results'[j] = results[j]
  BY DEF Replaced
<1>2. YearList(results) /\ rules' \in Rule
  BY DEF YearInv, Replaced
<1>3. \A j \in DOMAIN results : /\ results[j] \in YearRow
                                /\ results[j].mark = AggregateMark(results[j].components)
  BY <1>2 DEF YearInv, YearList
<1>4. \A j \in DOMAIN results : /\ results'[j] \in YearRow
                                /\ results'[j].mark = AggregateMark(results'[j].components)
  BY <1>1, <1>3 DEF Replaced
<1>5. YearList(results')
  <2>1. DOMAIN results = 1..Len(results) /\ Len(results) \in Nat
    BY <1>2 DEF YearList
  <2> DEFINE new == results'
             n == Len(results)
  <2>2. new = [j \in 1..n |-> new[j]] /\ n \in Nat
    BY <1>1, <2>1 DEF Replaced
  <2>3. \A j \in 1..n : new[j] \in YearRow
    BY <1>4, <2>1
  <2> HIDE DEF new, n
  <2>4. new \in Seq(YearRow)
    BY <2>2, <2>3
  <2>5. QED BY <2>4 DEF new, YearList
<1>6. YearInv'
  BY <1>1, <1>2, <1>4, <1>5 DEF YearInv, YearList
<1>7. ASSUME Improved PROVE BetterYear(results, results', i)
  <2>1. ASSUME NEW j \in DOMAIN results
        PROVE  /\ results[j].credits = results'[j].credits
               /\ results[j].thisYear = results'[j].thisYear
               /\ results[j].graded = results'[j].graded
               /\ results[j].confirmed => results'[j].confirmed
               /\ results[j].mark = NoMark <=> results'[j].mark = NoMark
               /\ results[j].mark <= results'[j].mark
    <3>1. CASE j = i
      <4>1. NoWorseComponents(results[i].components, row.components)
        <5>1. ComponentList(results[i].components) /\ ComponentList(row.components)
          BY <1>3 DEF Replaced, YearRow, ComponentList
        <5>2. \A k \in DOMAIN results[i].components :
                 /\ results[i].components[k].mark <= row.components[k].mark
                 /\ results[i].components[k].mark = NoMark => row.components[k].mark = NoMark
          BY <1>1, <1>7 DEF Improved
        <5>3. \A k \in DOMAIN results[i].components :
                 results[i].components[k] \in Component /\ row.components[k] \in Component
          BY <5>1 DEF Replaced, ComponentList
        <5>4. \A k \in DOMAIN results[i].components :
                 row.components[k].mark = NoMark => results[i].components[k].mark = NoMark
          BY <5>2, <5>3 DEF Component, NoMark
        <5>5. QED BY <5>1, <5>2, <5>4 DEF NoWorseComponents, Replaced
      <4>2. /\ AggregateMark(results[i].components) = NoMark <=> row.mark = NoMark
            /\ AggregateMark(results[i].components) <= row.mark
        BY <4>1, AggregateKeepsOrder DEF Replaced
      <4>3. QED BY <1>1, <1>3, <3>1, <4>2 DEF Replaced
    <3>2. CASE j # i
      <4>1. results[j].mark \in Int
        BY <1>3 DEF YearRow, NoMark
      <4>2. QED BY <1>1, <3>2, <4>1
    <3>3. QED BY <3>1, <3>2
  <2>2. QED BY <1>1, <1>2, <1>5, <2>1 DEF NoWorseYear, BetterYear
<1>8. QED BY <1>6, <1>7

\* A corrected component replaces its result, and ratifies nothing.
LEMMA CorrectReplaces ==
    ASSUME YearInv, NEW i \in DOMAIN results, NEW k \in DOMAIN results[i].components,
           NEW mark \in MarksGiven, Correct(i, k, mark)
    PROVE  (\E row : Replaced(i, row)) /\ ConfirmedResults(results') = ConfirmedResults(results)
<1> DEFINE old == results[i].components
           new == [old EXCEPT ![k].mark = mark]
           row == [results[i] EXCEPT !.components = new, !.mark = AggregateMark(new)]
<1>1. results[i] \in YearRow
  BY DEF YearInv, YearList
<1>2. ComponentList(old) /\ \A j \in DOMAIN old : old[j] \in Component
  BY <1>1 DEF YearRow, ComponentList
<1>3. mark \in Nat
  BY YearAssumption
<1>4. /\ DOMAIN new = DOMAIN old
      /\ \A j \in DOMAIN old \ {k} : new[j] = old[j]
      /\ new[k] = [old[k] EXCEPT !.mark = mark]
  OBVIOUS
<1>5. new[k] \in Component /\ new[k].weighting = old[k].weighting
  <2>1. old[k] \in Component
    BY <1>2
  <2>2. new[k] = [old[k] EXCEPT !.mark = mark]
    BY <1>4
  <2> HIDE DEF old, new
  <2>3. QED BY <1>3, <2>1, <2>2 DEF Component
<1>6. ComponentList(new)
  <2>1. DOMAIN old = 1..Len(old) /\ Len(old) \in Nat
    BY <1>2 DEF ComponentList
  <2>2. new = [j \in 1..Len(old) |-> new[j]]
    BY <1>4, <2>1
  <2> HIDE DEF old, new
  <2>3. \A j \in 1..Len(old) : new[j] \in Component
    BY <1>2, <1>4, <1>5, <2>1
  <2>4. QED BY <2>1, <2>2, <2>3 DEF ComponentList
<1>7. \A j \in DOMAIN old : new[j].weighting = old[j].weighting
  BY <1>4, <1>5
<1>8. AggregateMark(new) \in Nat \cup {NoMark}
  BY <1>6, AggregateTyped
<1>9. results' = [results EXCEPT ![i] = row] /\ UNCHANGED rules
  BY DEF Correct
<1> DEFINE a == AggregateMark(new)
<1> HIDE DEF a, new
<1>10. /\ row \in YearRow /\ row.components = new /\ row.mark = a
       /\ row.credits = results[i].credits /\ row.graded = results[i].graded
       /\ row.thisYear = results[i].thisYear /\ row.confirmed = results[i].confirmed
  BY <1>1, <1>6, <1>8 DEF YearRow, ComponentList, a
<1> HIDE DEF row
<1>11. Replaced(i, row)
  BY <1>4, <1>7, <1>9, <1>10 DEF Replaced, a
<1>12. ConfirmedResults(results') = ConfirmedResults(results)
  BY <1>9, <1>10 DEF ConfirmedResults
<1>13. QED BY <1>11, <1>12

\* Ratification replaces its result, by one with the same mark.
LEMMA RatifyReplaces ==
    ASSUME YearInv, NEW i \in DOMAIN results, Ratify(i)
    PROVE  /\ \E row : Replaced(i, row)
           /\ results'[i].mark = results[i].mark
           /\ i \in ConfirmedResults(results') \ ConfirmedResults(results)
<1> DEFINE row == [results[i] EXCEPT !.confirmed = TRUE]
<1>1. results[i] \in YearRow /\ results[i].mark = AggregateMark(results[i].components)
  BY DEF YearInv, YearList
<1>2. results' = [results EXCEPT ![i] = row] /\ UNCHANGED rules /\ ~results[i].confirmed
  BY DEF Ratify
<1>3. /\ row \in YearRow /\ row.components = results[i].components /\ row.mark = results[i].mark
      /\ row.credits = results[i].credits /\ row.graded = results[i].graded
      /\ row.thisYear = results[i].thisYear /\ row.confirmed
  BY <1>1 DEF YearRow
<1> HIDE DEF row
<1>4. Replaced(i, row)
  BY <1>1, <1>2, <1>3 DEF Replaced
<1>5. results'[i] = row /\ i \in DOMAIN results'
  BY <1>2
<1>6. QED BY <1>2, <1>3, <1>4, <1>5 DEF ConfirmedResults

\* A step replaces one result.
LEMMA YearSteps ==
    ASSUME YearInv, YearNext
    PROVE  YearInv' /\ \E i \in DOMAIN results :
              /\ Improved => BetterYear(results, results', i)
              /\ \/ ConfirmedResults(results') = ConfirmedResults(results)
                 \/ results'[i].mark = results[i].mark /\ i \in ConfirmedResults(results') \ ConfirmedResults(results)
<1>1. PICK i \in DOMAIN results :
          \/ \E k \in DOMAIN results[i].components, mark \in MarksGiven : Correct(i, k, mark)
          \/ Ratify(i)
  BY DEF YearNext
<1>2. CASE Ratify(i)
  BY <1>2, RatifyReplaces, RowReplaced
<1>3. CASE \E k \in DOMAIN results[i].components, mark \in MarksGiven : Correct(i, k, mark)
  BY <1>3, CorrectReplaces, RowReplaced
<1>4. QED BY <1>1, <1>2, <1>3

LEMMA YearInvariant == YearSpec => []YearInv
<1>1. YearInit => YearInv
  BY YearStarts
<1>2. YearInv /\ [YearNext]_yearVars => YearInv'
  <2> SUFFICES ASSUME YearInv, [YearNext]_yearVars PROVE YearInv'
    OBVIOUS
  <2>1. CASE YearNext
    BY <2>1, YearSteps
  <2>2. CASE UNCHANGED yearVars
    BY <2>2 DEF YearInv, YearList, yearVars
  <2>3. QED BY <2>1, <2>2
<1>3. QED BY <1>1, <1>2, PTL DEF YearSpec

\* A better component mark or a ratification makes the decision on a full year no worse,
\* unless it is compensated in the place of a later result (decideProgression), for every
\* list of results, programme level and rules.
THEOREM BetterMarkNeverHurtsHolds == YearSpec => BetterMarkNeverHurts
<1> DEFINE Kept == Improved /\ Credits(results, Sitting(results)) >= rules.fullYearCredits =>
                      \/ Rank(DecideProgression(results')) >= Rank(DecideProgression(results))
                      \/ \E i \in Taken(results') \ Compensable(results), j \in Displaced :
                            i < j /\ Effective(results') + results[j].credits > Effective(results)
<1>1. YearInv /\ [YearNext]_yearVars => [Kept]_yearVars
  <2> SUFFICES ASSUME YearInv, YearNext, Improved,
                      Credits(results, Sitting(results)) >= rules.fullYearCredits
               PROVE  Kept
    OBVIOUS
  <2>1. PICK i \in DOMAIN results : BetterYear(results, results', i)
    BY YearSteps
  <2>2. rules \in Rule /\ rules' = rules /\ level' = level
    BY DEF YearInv, YearNext, Correct, Ratify
  <2>3. QED BY <2>1, <2>2, DecisionKeepsRank DEF Displaced
<1>2. QED BY <1>1, YearInvariant, PTL DEF YearSpec, BetterMarkNeverHurts

\* A better component mark never lowers the class of the award, and a ratification lowers
\* it at most to the class of the mark it brings in (classifyAward), for every list of
\* results, programme level and boundaries.
THEOREM BetterMarkKeepsClassHolds == YearSpec => BetterMarkKeepsClass
<1> DEFINE Kept == Improved =>
                      \/ ClassifyAward(results') >= ClassifyAward(results)
                      \/ \E i \in ConfirmedResults(results') \ ConfirmedResults(results) :
                            results[i].mark # NoMark /\ ClassifyAward(results') >= ClassOf(results[i].mark)
<1>1. YearInv /\ [YearNext]_yearVars => [Kept]_yearVars
  <2> SUFFICES ASSUME YearInv, YearNext, Improved PROVE Kept
    OBVIOUS
  <2>1. PICK i \in DOMAIN results :
            /\ BetterYear(results, results', i)
            /\ \/ ConfirmedResults(results') = ConfirmedResults(results)
               \/ results'[i].mark = results[i].mark /\ i \in ConfirmedResults(results') \ ConfirmedResults(results)
    BY YearSteps
  <2>2. rules \in Rule /\ rules' = rules /\ level' = level
    BY DEF YearInv, YearNext, Correct, Ratify
  <2>3. CASE ConfirmedResults(results') = ConfirmedResults(results)
    BY <2>1, <2>2, <2>3, ClassKeepsOrder DEF BetterYear
  <2>4. CASE results'[i].mark = results[i].mark /\ i \in ConfirmedResults(results') \ ConfirmedResults(results)
    BY <2>1, <2>2, <2>4, ClassJoined DEF ConfirmedResults
  <2>5. QED BY <2>1, <2>3, <2>4
<1>2. QED BY <1>1, YearInvariant, PTL DEF YearSpec, BetterMarkKeepsClass

-----------------------------------------------------------------------------
(* The run of a student's year: a behaviour of it is one of every part.     *)

\* Every part starts in its initial states, and a step of the run is a step of a
\* part or leaves it alone.
LEMMA PartsAreParts ==
    PartsSpec => RegistrationsSpec /\ Spec /\ SecondSpec /\ LabelSpec /\ ResultsSpec
<1>1. PartsInit => RegistrationsInit /\ Init /\ SecondInit /\ LabelInit /\ ResultsInit
  BY DEF PartsInit
<1>2. [PartsNext]_partVars =>
         /\ [RegistrationsNext]_registrationVars /\ [Next]_vars /\ [SecondNext]_secondVars
         /\ [LabelNext]_labelVars /\ [ResultsNext]_resultsVars
  BY DEF PartsNext, partVars, Enrolling, Marking, MarkingAgain, Labelling, Resulting, Deciding
<1>3. QED
  BY <1>1, <1>2, PTL DEF PartsSpec, RegistrationsSpec, Spec, SecondSpec, LabelSpec, ResultsSpec

\* The rows and the calls of all parts keep their types.
THEOREM PartsTypeCorrect == PartsSpec => []PartsTypeOK
<1>1. LabelInv => LabelTypeOK
  BY DEF LabelInv
<1>2. PartsSpec => [](RegistrationsTypeOK /\ TypeOK /\ SecondTypeOK /\ LabelTypeOK /\ ResultsTypeOK)
  BY <1>1, PartsAreParts, RegistrationsTypeCorrect, AttemptTypeCorrect, SecondTypeCorrect,
     LabelInvariant, ResultsTypeCorrect, PTL
<1>3. RegistrationsTypeOK /\ TypeOK /\ SecondTypeOK /\ LabelTypeOK /\ ResultsTypeOK
         => PartsTypeOK
  BY DEF PartsTypeOK
<1>4. QED BY <1>2, <1>3, PTL

\* Whatever calls fail or are abandoned on the way, a script has one open record of
\* second marking and one label, except where calls raced (doubledUp, relabelled).
THEOREM OnePerScriptHolds == PartsSpec => []OnePerScript
<1>1. OneOpenRecord /\ OneLabel => OnePerScript
  BY DEF OnePerScript
<1>2. QED BY <1>1, PartsAreParts, OneOpenRecordHolds, OneLabelHolds, PTL
=============================================================================
