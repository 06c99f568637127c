------------------------- MODULE ModuleResultsProofs -------------------------
(***************************************************************************)
(* Theorems of ModuleResults, for every set of attempts and results and    *)
(* any number of calls in flight.                                          *)
(***************************************************************************)
EXTENDS ModuleResults, TLAPS, WellFoundedInduction

USE ResultAssumption
    DEF ResultAssumption, ResultTransitions, ResultStatuses, NoResult,
        NoRow, Unsettled, Confirmed, Gone, outcomeVars, rowVars

ResultRow == [status : ResultStatuses \cup {NoRow, Gone}, mark : {"computed", "typed"}]

\* An aggregation finds a live result if there is one.
LEMMA FoundIsLive ==
    ASSUME ResultsTypeOK
    PROVE  IF Live = {} THEN Found = NoResult ELSE Found \in Live
<1>1. Live \subseteq Nat
  BY DEF Live
<1>2. ASSUME Live # {} PROVE \E q \in Live : \A p \in Live : q <= p
  <2> DEFINE LessThan == {ss \in Nat \X Nat : ss[1] < ss[2]}
  <2>1. IsWellFoundedOn(LessThan, Nat)
    BY NatLessThanWellFounded DEF OpToRel
  <2>2. PICK q \in Live : \A p \in Live : ~(<<p, q>> \in LessThan)
    <3> HIDE DEF LessThan
    <3>1. QED
      BY <1>1, <1>2, <2>1, WFMin
  <2>3. \A p \in Live : ~(p < q)
    BY <1>1, <2>2
  <2>4. QED
    BY <1>1, <2>2, <2>3
<1>3. QED
  BY <1>2 DEF Found, First

\* What each call holds is an aggregation about to write, a move, or nothing.
LEMMA CallTyped ==
    ASSUME ResultsTypeOK, NEW r \in Calls
    PROVE  /\ call[r].op = "persisting" => call[r] \in Persisting
           /\ call[r].op = "moving" => call[r] \in Moving
           /\ call[r] # NoCall => call[r].op \in {"persisting", "moving"}
<1>1. call[r] \in {NoCall} \cup Persisting \cup Moving
  BY DEF ResultsTypeOK
<1>2. QED
  BY <1>1 DEF NoCall, Persisting, Moving

\* A call that has finished outdates others, and changes nothing else of them.
LEMMA FinishedKeeps ==
    ASSUME ResultsTypeOK, NEW r \in Calls, NEW target, Finished(r, target)
    PROVE  /\ call' \in [Calls -> {NoCall} \cup Persisting \cup Moving]
           /\ \A s \in Calls :
                 call'[s] # NoCall =>
                   /\ s # r /\ call[s] # NoCall
                   /\ call'[s].op = call[s].op /\ call'[s].target = call[s].target
                   /\ call[s].op = "moving" => call'[s].to = call[s].to /\ call'[s].seen = call[s].seen
                   /\ call'[s].stale <=> call[s].stale \/ call[s].target = target
<1>1. ASSUME NEW s \in Calls, call[s] # NoCall
      PROVE  LET held == [call[s] EXCEPT !.stale = @ \/ call[s].target = target]
             IN  /\ held \in Persisting \cup Moving
                 /\ held.op = call[s].op /\ held.target = call[s].target
                 /\ call[s].op = "moving" => held.to = call[s].to /\ held.seen = call[s].seen
                 /\ held.stale <=> call[s].stale \/ call[s].target = target
  <2>1. CASE call[s].op = "persisting"
    <3>1. call[s] \in Persisting
      BY <2>1, CallTyped
    <3>2. QED
      BY <2>1, <3>1 DEF Persisting
  <2>2. CASE call[s].op = "moving"
    <3>1. call[s] \in Moving
      BY <2>2, CallTyped
    <3>2. QED
      BY <2>2, <3>1 DEF Moving
  <2>3. QED
    BY <1>1, <2>1, <2>2, CallTyped
<1>2. ASSUME NEW s \in Calls
      PROVE  call'[s] = IF s = r \/ call[s] = NoCall THEN NoCall
                        ELSE [call[s] EXCEPT !.stale = @ \/ call[s].target = target]
  BY DEF Finished
<1>3. call' \in [Calls -> {NoCall} \cup Persisting \cup Moving]
  <2>1. ASSUME NEW s \in Calls PROVE call'[s] \in {NoCall} \cup Persisting \cup Moving
    <3>1. CASE s = r \/ call[s] = NoCall
      BY <1>2, <3>1
    <3>2. CASE s # r /\ call[s] # NoCall
      BY <1>1, <1>2, <3>2
    <3>3. QED
      BY <3>1, <3>2
  <2>2. QED
    BY <2>1 DEF Finished
<1>4. ASSUME NEW s \in Calls, call'[s] # NoCall
      PROVE  /\ s # r /\ call[s] # NoCall
             /\ call'[s].op = call[s].op /\ call'[s].target = call[s].target
             /\ call[s].op = "moving" => call'[s].to = call[s].to /\ call'[s].seen = call[s].seen
             /\ call'[s].stale <=> call[s].stale \/ call[s].target = target
  <2>1. s # r /\ call[s] # NoCall
    BY <1>2, <1>4
  <2>2. QED
    BY <1>1, <1>2, <2>1
<1>5. QED
  BY <1>3, <1>4

\* The write of a move ends its call; it outdates others if it changes the status.
LEMMA MoveKeeps ==
    ASSUME ResultsTypeOK, NEW r \in Calls, NEW typed \in BOOLEAN, WriteMove(r, typed)
    PROVE  /\ call' \in [Calls -> {NoCall} \cup Persisting \cup Moving]
           /\ \A s \in Calls :
                 call'[s] # NoCall =>
                   /\ call[s] # NoCall
                   /\ call'[s].op = call[s].op /\ call'[s].target = call[s].target
                   /\ call[s].op = "moving" => call'[s].to = call[s].to /\ call'[s].seen = call[s].seen
                   /\ call[s].stale => call'[s].stale
                   /\ \/ call'[s].stale \/ call[s].target # call[r].target
                      \/ result[call[r].target].status = call[r].to
<1>1. CASE call' = [call EXCEPT ![r] = NoCall] /\ result[call[r].target].status = call[r].to
  BY <1>1 DEF ResultsTypeOK
<1>2. CASE Finished(r, call[r].target)
  <2>1. /\ call' \in [Calls -> {NoCall} \cup Persisting \cup Moving]
        /\ \A s \in Calls :
              call'[s] # NoCall =>
                /\ call[s] # NoCall
                /\ call'[s].op = call[s].op /\ call'[s].target = call[s].target
                /\ call[s].op = "moving" => call'[s].to = call[s].to /\ call'[s].seen = call[s].seen
                /\ call'[s].stale <=> call[s].stale \/ call[s].target = call[r].target
    BY <1>2, FinishedKeeps
  <2>2. QED
    BY <2>1
<1>3. QED
  BY <1>1, <1>2 DEF WriteMove

LEMMA AttemptsTyped ==
    ASSUME OutcomesTypeOK, OutcomesNext
    PROVE  OutcomesTypeOK'
  BY DEF OutcomesTypeOK, OutcomesNext, Open, Confirm, Race, Withdraw

\* The attempts, the rows, the calls in flight and the histories keep their type.
THEOREM ResultsTypeCorrect == ResultsSpec => []ResultsTypeOK
<1>1. ResultsInit => ResultsTypeOK
  BY DEF ResultsInit, ResultsTypeOK, OutcomesInit, OutcomesTypeOK
<1>2. ResultsTypeOK /\ [ResultsNext]_resultsVars => ResultsTypeOK'
  <2> SUFFICES ASSUME ResultsTypeOK, [ResultsNext]_resultsVars PROVE ResultsTypeOK'
    OBVIOUS
  <2>1. CASE Attempting
    <3>1. OutcomesTypeOK'
      BY <2>1, AttemptsTyped DEF Attempting, ResultsTypeOK
    <3>2. QED
      BY <2>1, <3>1 DEF Attempting, ResultsTypeOK
  <2>2. ASSUME UNCHANGED outcomeVars PROVE OutcomesTypeOK'
    BY <2>2 DEF ResultsTypeOK, OutcomesTypeOK
  <2>3. ASSUME NEW r \in Calls, NEW force \in ForceOptions, Aggregate(r, force)
        PROVE  ResultsTypeOK'
    <3>1. Found \in Results \cup {NoResult}
      BY FoundIsLive DEF Live
    <3>2. call' \in [Calls -> {NoCall} \cup Persisting \cup Moving]
      BY <2>3, <3>1 DEF Aggregate, ResultsTypeOK, Persisting
    <3>3. QED
      BY <2>2, <2>3, <3>2 DEF Aggregate, ResultsTypeOK
  <2>4. ASSUME NEW r \in Calls, PersistUpdate(r) PROVE ResultsTypeOK'
    <3>1. call[r].target \in Results
      BY <2>4 DEF PersistUpdate, Live
    <3>2. result' \in [Results -> ResultRow]
      BY <2>4, <3>1 DEF PersistUpdate, ResultsTypeOK, ResultRow
    <3>3. QED
      BY <2>2, <2>4, <3>1, <3>2 DEF PersistUpdate, ResultsTypeOK, Noted, ResultRow
  <2>5. ASSUME NEW r \in Calls, PersistCreate(r) PROVE ResultsTypeOK'
    <3>1. PICK q \in Results :
            /\ result' = [result EXCEPT ![q] = [status |-> "PROVISIONAL", mark |-> "computed"]]
            /\ irregular' = Noted(q, call[r].stale) /\ Finished(r, NoResult)
            /\ UNCHANGED <<outcomeVars, vouched>>
      BY <2>5 DEF PersistCreate
    <3>2. call' \in [Calls -> {NoCall} \cup Persisting \cup Moving]
      BY <3>1, FinishedKeeps
    <3>3. result' \in [Results -> ResultRow]
      BY <3>1 DEF ResultsTypeOK, ResultRow
    <3>4. QED
      BY <2>2, <3>1, <3>2, <3>3 DEF ResultsTypeOK, Noted, ResultRow
  <2>6. ASSUME NEW r \in Calls, NEW q \in Results, NEW to \in MoveStatuses, BeginMove(r, q, to)
        PROVE  ResultsTypeOK'
    <3>1. [op |-> "moving", target |-> q, to |-> to, stale |-> FALSE,
           seen |-> IF to = "CONFIRMED" THEN Existing ELSE {}] \in Moving
      BY DEF Moving, Existing
    <3>2. call' \in [Calls -> {NoCall} \cup Persisting \cup Moving]
      BY <2>6, <3>1 DEF BeginMove, ResultsTypeOK
    <3>3. QED
      BY <2>2, <2>6, <3>2 DEF BeginMove, ResultsTypeOK
  <2>7. ASSUME NEW r \in Calls, NEW typed \in BOOLEAN, WriteMove(r, typed) PROVE ResultsTypeOK'
    <3> DEFINE q == call[r].target
    <3>1. /\ call[r] \in Moving /\ q \in Results
          /\ call[r].to \in ResultStatuses /\ call[r].seen \subseteq Rows
      BY <2>7, CallTyped DEF WriteMove, Moving
    <3>2. call' \in [Calls -> {NoCall} \cup Persisting \cup Moving]
      BY <2>7, MoveKeeps
    <3>3. result' \in [Results -> ResultRow]
      BY <2>7, <3>1 DEF WriteMove, ResultsTypeOK, ResultRow
    <3>4. vouched' \in [Results -> SUBSET Rows]
      BY <2>7, <3>1 DEF WriteMove, ResultsTypeOK
    <3>5. QED
      BY <2>2, <2>7, <3>1, <3>2, <3>3, <3>4 DEF WriteMove, ResultsTypeOK, Noted, ResultRow
  <2>8. ASSUME NEW r \in Calls, AbandonCall(r) PROVE ResultsTypeOK'
    BY <2>2, <2>8 DEF AbandonCall, ResultsTypeOK
  <2>9. ASSUME NEW q \in Results, NEW s \in PostStatuses, CreateResult(q, s) PROVE ResultsTypeOK'
    BY <2>2, <2>9 DEF CreateResult, ResultsTypeOK
  <2>10. ASSUME NEW q \in Results, RemoveResult(q) PROVE ResultsTypeOK'
    BY <2>2, <2>10 DEF RemoveResult, ResultsTypeOK
  <2>11. CASE UNCHANGED resultsVars
    BY <2>2, <2>11 DEF resultsVars, ResultsTypeOK
  <2>12. QED
    BY <2>1, <2>3, <2>4, <2>5, <2>6, <2>7, <2>8, <2>9, <2>10, <2>11 DEF ResultsNext
<1>3. QED
  BY <1>1, <1>2, PTL DEF ResultsSpec
-----------------------------------------------------------------------------
(* What a call knows.  A lookup that found nothing, and that no creation    *)
(* has outdated since, is still right but for results posted by hand; what  *)
(* has found a result, and is not outdated, keeps clear of a ratified one;  *)
(* and what passed the gate, on a row or on its way there, still stands.    *)
Stands(a) == outcome[a] \in {Confirmed, Gone} \/ a \in overtaken

NothingMissed ==
    \A r \in Calls :
        call[r].op = "persisting" /\ ~call[r].stale /\ call[r].target = NoResult =>
            Live \subseteq irregular

TargetOpen ==
    \A r \in Calls :
        call[r] # NoCall /\ call[r].target # NoResult =>
            /\ result[call[r].target].status # NoRow
            /\ ~call[r].stale => result[call[r].target].status # "CONFIRMED"

SeenStands ==
    \A r \in Calls :
        call[r].op = "moving" /\ call[r].to = "CONFIRMED" => \A a \in call[r].seen : Stands(a)

ResultsIInv ==
    /\ RatifiedAttemptsStand /\ OneLiveResult
    /\ NothingMissed /\ TargetOpen /\ SeenStands

\* An attempt that stands stands for good.
LEMMA StandingStays ==
    ASSUME OutcomesTypeOK, OutcomesNext, NEW a \in Rows, Stands(a)
    PROVE  Stands(a)'
  BY DEF Stands, OutcomesTypeOK, OutcomesNext, Open, Confirm, Race, Withdraw, Existing

\* A step that leaves the attempts alone and creates or moves no result.
LEMMA RowsUntouched ==
    ASSUME ResultsTypeOK, RatifiedAttemptsStand, OneLiveResult, UNCHANGED outcomeVars,
           UNCHANGED vouched, irregular \subseteq irregular',
           \A q \in Results : result'[q].status = result[q].status
    PROVE  RatifiedAttemptsStand' /\ OneLiveResult'
  BY DEF RatifiedAttemptsStand, OneLiveResult, Live

LEMMA ResultsInvariantHolds == ResultsSpec => [](ResultsTypeOK /\ ResultsIInv)
<1>1. ResultsInit => ResultsIInv
  BY DEF ResultsInit, ResultsIInv, RatifiedAttemptsStand, OneLiveResult, NothingMissed,
         TargetOpen, SeenStands, Live, NoCall
<1>2. ResultsTypeOK /\ ResultsIInv /\ [ResultsNext]_resultsVars => ResultsIInv'
  <2> SUFFICES ASSUME ResultsTypeOK, ResultsIInv, [ResultsNext]_resultsVars PROVE ResultsIInv'
    OBVIOUS
  <2> USE DEF ResultsIInv
  <2>1. CASE Attempting
    <3>1. UNCHANGED <<rowVars, call>> /\ OutcomesNext /\ OutcomesTypeOK
      BY <2>1 DEF Attempting, ResultsTypeOK
    <3>2. OneLiveResult' /\ NothingMissed' /\ TargetOpen'
      BY <3>1 DEF OneLiveResult, NothingMissed, TargetOpen, Live
    <3>3. RatifiedAttemptsStand'
      BY <3>1, StandingStays DEF RatifiedAttemptsStand, Stands, Live, ResultsTypeOK
    <3>4. SeenStands'
      <4> SUFFICES ASSUME NEW r \in Calls, call[r].op = "moving", call[r].to = "CONFIRMED",
                          NEW a \in call[r].seen
                   PROVE  Stands(a)'
        BY <3>1 DEF SeenStands
      <4>1. a \in Rows
        BY CallTyped DEF Moving
      <4>2. QED
        BY <3>1, <4>1, StandingStays DEF SeenStands
    <3>5. QED
      BY <3>2, <3>3, <3>4
  <2>2. ASSUME NEW r \in Calls, NEW force \in ForceOptions, Aggregate(r, force)
        PROVE  ResultsIInv'
    <3>1. /\ call'[r] = [op |-> "persisting", target |-> Found, stale |-> FALSE]
          /\ \A s \in Calls \ {r} : call'[s] = call[s]
          /\ UNCHANGED <<outcomeVars, rowVars>>
          /\ Found # NoResult => result[Found].status # "CONFIRMED"
      BY <2>2 DEF Aggregate, ResultsTypeOK
    <3>2. RatifiedAttemptsStand' /\ OneLiveResult'
      BY <3>1, RowsUntouched
    <3>3. Live' = Live
      BY <3>1 DEF Live
    <3>4. Found = NoResult => Live = {}
      BY FoundIsLive DEF Live
    <3>5. Found # NoResult => result[Found].status # NoRow
      BY FoundIsLive DEF Live
    <3>6. NothingMissed' /\ TargetOpen' /\ SeenStands'
      BY <3>1, <3>3, <3>4, <3>5 DEF NothingMissed, TargetOpen, SeenStands, Stands
    <3>7. QED
      BY <3>2, <3>6
  <2>3. ASSUME NEW r \in Calls, PersistUpdate(r) PROVE ResultsIInv'
    <3> DEFINE q == call[r].target
    <3>1. /\ q \in Results /\ result' = [result EXCEPT ![q].mark = "computed"]
          /\ irregular \subseteq irregular' /\ UNCHANGED <<outcomeVars, vouched>>
      BY <2>3 DEF PersistUpdate, Live, Noted
    <3>2. \A p \in Results : result'[p].status = result[p].status
      BY <3>1 DEF ResultsTypeOK
    <3>3. RatifiedAttemptsStand' /\ OneLiveResult'
      BY <3>1, <3>2, RowsUntouched
    <3>4. /\ Live' = Live
          /\ \A s \in Calls : call'[s] # NoCall => call'[s] = call[s]
      BY <2>3, <3>2 DEF Live, PersistUpdate, ResultsTypeOK
    <3>5. NothingMissed'
      BY <3>1, <3>4 DEF NothingMissed, NoCall
    <3>6. TargetOpen'
      <4> SUFFICES ASSUME NEW s \in Calls, call'[s] # NoCall, call'[s].target # NoResult
                   PROVE  /\ result'[call'[s].target].status # NoRow
                          /\ ~call'[s].stale => result'[call'[s].target].status # "CONFIRMED"
        BY DEF TargetOpen
      <4>1. call'[s] = call[s] /\ call[s].target \in Results
        BY <3>4, CallTyped DEF Persisting, Moving
      <4>2. QED
        BY <3>2, <4>1 DEF TargetOpen
    <3>7. SeenStands'
      BY <3>1, <3>4 DEF SeenStands, Stands, NoCall
    <3>8. QED
      BY <3>3, <3>5, <3>6, <3>7
  <2>4. ASSUME NEW r \in Calls, PersistCreate(r) PROVE ResultsIInv'
    <3>1. PICK q \in Results :
            /\ result[q].status = NoRow
            /\ result' = [result EXCEPT ![q] = [status |-> "PROVISIONAL", mark |-> "computed"]]
            /\ irregular' = Noted(q, call[r].stale) /\ Finished(r, NoResult)
            /\ UNCHANGED <<outcomeVars, vouched>>
      BY <2>4 DEF PersistCreate
    <3>2. /\ result'[q].status = "PROVISIONAL" /\ \A p \in Results \ {q} : result'[p] = result[p]
          /\ Live' = Live \cup {q}
      BY <3>1 DEF ResultsTypeOK, Live
    <3>3. irregular \subseteq irregular' /\ (call[r].stale => q \in irregular')
      BY <3>1 DEF Noted
    <3>4. OneLiveResult'
      <4>1. CASE call[r].stale
        BY <3>2, <3>3, <4>1 DEF OneLiveResult
      <4>2. CASE ~call[r].stale
        <5>1. Live \subseteq irregular
          BY <2>4, <4>2 DEF PersistCreate, NothingMissed
        <5>2. QED
          BY <3>2, <3>3, <5>1 DEF OneLiveResult
      <4>3. QED
        BY <4>1, <4>2
    <3>5. RatifiedAttemptsStand'
      BY <3>1, <3>2, <3>3 DEF RatifiedAttemptsStand
    <3>6. ASSUME NEW s \in Calls, call'[s].op \in {"persisting", "moving"}
          PROVE  /\ call'[s].op = call[s].op /\ call'[s].target = call[s].target
                 /\ call[s].op = "moving" => call'[s].to = call[s].to /\ call'[s].seen = call[s].seen
                 /\ call'[s].stale <=> call[s].stale \/ call[s].target = NoResult
      BY <3>1, <3>6, FinishedKeeps DEF NoCall
    <3>7. NothingMissed'
      BY <3>6 DEF NothingMissed
    <3>8. TargetOpen'
      <4> SUFFICES ASSUME NEW s \in Calls, call'[s] # NoCall, call'[s].target # NoResult
                   PROVE  /\ result'[call'[s].target].status # NoRow
                          /\ ~call'[s].stale => result'[call'[s].target].status # "CONFIRMED"
        BY DEF TargetOpen
      <4>1. /\ call[s] # NoCall /\ call'[s].target = call[s].target /\ call[s].target \in Results
            /\ call'[s].op \in {"persisting", "moving"}
        BY <3>1, FinishedKeeps, CallTyped DEF Persisting, Moving
      <4>2. QED
        BY <3>1, <3>2, <3>6, <4>1 DEF TargetOpen
    <3>9. SeenStands'
      BY <3>1, <3>6 DEF SeenStands, Stands
    <3>10. QED
      BY <3>4, <3>5, <3>7, <3>8, <3>9
  <2>5. ASSUME NEW r \in Calls, NEW q \in Results, NEW to \in MoveStatuses, BeginMove(r, q, to)
        PROVE  ResultsIInv'
    <3>1. /\ call'[r] = [op |-> "moving", target |-> q, to |-> to, stale |-> FALSE,
                         seen |-> IF to = "CONFIRMED" THEN Existing ELSE {}]
          /\ \A s \in Calls \ {r} : call'[s] = call[s]
          /\ UNCHANGED <<outcomeVars, rowVars>>
          /\ to = "CONFIRMED" => \A a \in Existing : outcome[a] = Confirmed
          /\ q \in Live /\ result[q].status # "CONFIRMED"
      BY <2>5 DEF BeginMove, ResultsTypeOK, AllAttemptsConfirmed
    <3>2. RatifiedAttemptsStand' /\ OneLiveResult'
      BY <3>1, RowsUntouched
    <3>3. Live' = Live
      BY <3>1 DEF Live
    <3>4. NothingMissed' /\ SeenStands'
      BY <3>1, <3>3 DEF NothingMissed, SeenStands, Stands
    <3>5. result[q].status # NoRow
      BY <3>1 DEF Live
    <3>6. TargetOpen'
      BY <3>1, <3>5 DEF TargetOpen
    <3>7. QED
      BY <3>2, <3>4, <3>6
  <2>6. ASSUME NEW r \in Calls, NEW typed \in BOOLEAN, WriteMove(r, typed) PROVE ResultsIInv'
    <3> DEFINE q == call[r].target
    <3>1. /\ call[r] \in Moving /\ q \in Results /\ q \in Live
          /\ call[r].to \in ResultStatuses /\ call[r].op = "moving"
      BY <2>6, CallTyped DEF WriteMove, Moving
    <3>2. /\ result'[q].status = call[r].to /\ \A p \in Results \ {q} : result'[p] = result[p]
          /\ vouched'[q] = call[r].seen /\ \A p \in Results \ {q} : vouched'[p] = vouched[p]
          /\ irregular \subseteq irregular' /\ UNCHANGED outcomeVars
      BY <2>6, <3>1 DEF WriteMove, ResultsTypeOK, Noted
    <3>3. Live' = Live /\ Live \subseteq Results
      BY <3>1, <3>2 DEF Live
    <3>4. OneLiveResult'
      BY <3>2, <3>3 DEF OneLiveResult
    <3>5. RatifiedAttemptsStand'
      <4> SUFFICES ASSUME NEW p \in Live, p \notin irregular', result'[p].status = "CONFIRMED",
                          NEW a \in vouched'[p]
                   PROVE  Stands(a)'
        BY <3>3 DEF RatifiedAttemptsStand, Stands
      <4>1. CASE p = q
        BY <3>1, <3>2, <4>1 DEF SeenStands, Stands
      <4>2. CASE p # q
        BY <3>2, <3>3, <4>2 DEF RatifiedAttemptsStand, Stands
      <4>3. QED
        BY <4>1, <4>2
    <3>6. ASSUME NEW s \in Calls, call'[s].op \in {"persisting", "moving"}
          PROVE  /\ call'[s].op = call[s].op /\ call'[s].target = call[s].target
                 /\ call[s].op = "moving" => call'[s].to = call[s].to /\ call'[s].seen = call[s].seen
                 /\ call[s].stale => call'[s].stale
                 /\ call'[s].stale \/ call[s].target # q \/ result[q].status = call[r].to
      BY <2>6, <3>6, MoveKeeps DEF NoCall
    <3>7. NothingMissed'
      BY <3>2, <3>3, <3>6 DEF NothingMissed
    <3>8. TargetOpen'
      <4> SUFFICES ASSUME NEW s \in Calls, call'[s] # NoCall, call'[s].target # NoResult
                   PROVE  /\ result'[call'[s].target].status # NoRow
                          /\ ~call'[s].stale => result'[call'[s].target].status # "CONFIRMED"
        BY DEF TargetOpen
      <4>1. /\ call[s] # NoCall /\ call'[s].target = call[s].target /\ call[s].target \in Results
            /\ call'[s].op \in {"persisting", "moving"}
        BY <2>6, MoveKeeps, CallTyped DEF Persisting, Moving
      <4>2. CASE call[s].target = q
        <5>1. call[s].target # NoResult
          BY <4>1
        <5>2. result[q].status # NoRow /\ (~call[s].stale => result[q].status # "CONFIRMED")
          BY <4>1, <4>2, <5>1 DEF TargetOpen
        <5>3. /\ call[s].stale => call'[s].stale
              /\ call'[s].stale \/ result[q].status = call[r].to
          BY <3>6, <4>1, <4>2
        <5>4. call[r].to # NoRow
          BY <3>1
        <5>5. QED
          BY <3>2, <4>1, <4>2, <5>2, <5>3, <5>4
      <4>3. CASE call[s].target # q
        <5>1. /\ result[call[s].target].status # NoRow
              /\ ~call[s].stale => result[call[s].target].status # "CONFIRMED"
          BY <4>1 DEF TargetOpen
        <5>2. call[s].stale => call'[s].stale
          BY <3>6, <4>1
        <5>3. result'[call[s].target] = result[call[s].target]
          BY <3>2, <4>1, <4>3
        <5>4. call'[s].target = call[s].target
          BY <4>1
        <5>5. result'[call'[s].target].status = result[call[s].target].status
          BY <5>3, <5>4
        <5>6. QED
          BY <5>1, <5>2, <5>5
      <4>4. QED
        BY <4>2, <4>3
    <3>9. SeenStands'
      BY <3>2, <3>6 DEF SeenStands, Stands
    <3>10. QED
      BY <3>4, <3>5, <3>7, <3>8, <3>9
  <2>7. ASSUME NEW r \in Calls, AbandonCall(r) PROVE ResultsIInv'
    <3>1. /\ UNCHANGED <<outcomeVars, rowVars>>
          /\ \A s \in Calls : call'[s] # NoCall => call'[s] = call[s]
      BY <2>7 DEF AbandonCall, ResultsTypeOK
    <3>2. RatifiedAttemptsStand' /\ OneLiveResult'
      BY <3>1, RowsUntouched
    <3>3. Live' = Live
      BY <3>1 DEF Live
    <3>4. NothingMissed' /\ TargetOpen' /\ SeenStands'
      BY <3>1, <3>3 DEF NothingMissed, TargetOpen, SeenStands, Stands, NoCall
    <3>5. QED
      BY <3>2, <3>4
  <2>8. ASSUME NEW q \in Results, NEW s \in PostStatuses, CreateResult(q, s) PROVE ResultsIInv'
    <3>1. /\ result[q].status = NoRow /\ irregular' = irregular \cup {q}
          /\ result'[q].status = s /\ \A p \in Results \ {q} : result'[p] = result[p]
          /\ Live' = Live \cup {q} /\ Live \subseteq Results
          /\ UNCHANGED <<outcomeVars, vouched, call>>
      BY <2>8 DEF CreateResult, ResultsTypeOK, Live
    <3>2. RatifiedAttemptsStand' /\ OneLiveResult' /\ NothingMissed' /\ SeenStands'
      BY <3>1 DEF RatifiedAttemptsStand, OneLiveResult, NothingMissed, SeenStands, Stands
    <3>3. ASSUME NEW r \in Calls, call[r] # NoCall, call[r].target # NoResult
          PROVE  result'[call[r].target] = result[call[r].target]
      BY <3>1, <3>3, CallTyped DEF TargetOpen, Persisting, Moving
    <3>4. TargetOpen'
      BY <3>1, <3>3 DEF TargetOpen
    <3>5. QED
      BY <3>2, <3>4
  <2>9. ASSUME NEW q \in Results, RemoveResult(q) PROVE ResultsIInv'
    <3>1. /\ result'[q].status = Gone /\ \A p \in Results \ {q} : result'[p] = result[p]
          /\ \A p \in Results \ {q} : vouched'[p] = vouched[p] /\ (p \in irregular' <=> p \in irregular)
          /\ Live' = Live \ {q} /\ UNCHANGED <<outcomeVars, call>>
      BY <2>9 DEF RemoveResult, ResultsTypeOK, Live
    <3>2. Live' \subseteq Results
      BY DEF Live
    <3>3. RatifiedAttemptsStand'
      BY <3>1, <3>2 DEF RatifiedAttemptsStand
    <3>4. OneLiveResult' /\ NothingMissed' /\ SeenStands'
      BY <3>1, <3>2 DEF OneLiveResult, NothingMissed, SeenStands, Stands
    <3>5. ASSUME NEW r \in Calls, call[r] # NoCall, call[r].target # NoResult
          PROVE  call[r].target \in Results
      BY <3>5, CallTyped DEF Persisting, Moving
    <3>6. TargetOpen'
      BY <3>1, <3>5 DEF TargetOpen
    <3>7. QED
      BY <3>3, <3>4, <3>6
  <2>10. CASE UNCHANGED resultsVars
    BY <2>10 DEF resultsVars, RatifiedAttemptsStand, OneLiveResult, NothingMissed, TargetOpen,
                 SeenStands, Stands, Live
  <2>11. QED
    BY <2>1, <2>2, <2>3, <2>4, <2>5, <2>6, <2>7, <2>8, <2>9, <2>10 DEF ResultsNext
<1>3. QED
  BY <1>1, <1>2, ResultsTypeCorrect, PTL DEF ResultsSpec

\* Every attempt there was when a ratified result passed the gate is confirmed or
\* deleted to this day, unless a racing write hit it or the result was posted.
THEOREM RatifiedAttemptsStandHolds == ResultsSpec => []RatifiedAttemptsStand
<1>1. ResultsIInv => RatifiedAttemptsStand
  BY DEF ResultsIInv
<1>2. QED
  BY <1>1, ResultsInvariantHolds, PTL

\* Aggregations leave one live result, unless two of them looked before either
\* had created it, or results were posted by hand.
THEOREM OneLiveResultHolds == ResultsSpec => []OneLiveResult
<1>1. ResultsIInv => OneLiveResult
  BY DEF ResultsIInv
<1>2. QED
  BY <1>1, ResultsInvariantHolds, PTL

\* No aggregation and no update changes the mark of a ratified result, except one
\* that looked before the ratification.
THEOREM ConfirmedMarkStandsHolds == ResultsSpec => ConfirmedMarkStands
<1> DEFINE Stays(q) ==
        result[q].status = "CONFIRMED" /\ result'[q].mark # result[q].mark =>
            q \in irregular' \/ result'[q].status = Gone
<1>1. ResultsTypeOK /\ ResultsIInv /\ [ResultsNext]_resultsVars
        => [\A q \in Results : Stays(q)]_resultsVars
  <2> SUFFICES ASSUME ResultsTypeOK, ResultsIInv, ResultsNext, NEW q \in Results PROVE Stays(q)
    OBVIOUS
  <2>1. ASSUME NEW r \in Calls, PersistUpdate(r) PROVE Stays(q)
    <3>1. CASE call[r].target = q
      <4>1. q # NoResult /\ (call[r].stale => q \in irregular')
        BY <2>1, <3>1 DEF PersistUpdate, Noted
      <4>2. ~call[r].stale => result[q].status # "CONFIRMED"
        BY <2>1, <3>1, <4>1 DEF PersistUpdate, ResultsIInv, TargetOpen, NoCall
      <4>3. QED
        BY <4>1, <4>2
    <3>2. CASE call[r].target # q
      BY <2>1, <3>2 DEF PersistUpdate, ResultsTypeOK
    <3>3. QED
      BY <3>1, <3>2
  <2>2. ASSUME NEW r \in Calls, PersistCreate(r) PROVE Stays(q)
    BY <2>2 DEF PersistCreate, ResultsTypeOK
  <2>3. ASSUME NEW r \in Calls, NEW typed \in BOOLEAN, WriteMove(r, typed) PROVE Stays(q)
    <3>1. CASE call[r].target = q
      <4>1. q # NoResult /\ call[r] # NoCall /\ (call[r].stale => q \in irregular')
        BY <2>3, <3>1 DEF WriteMove, Noted, NoCall
      <4>2. ~call[r].stale => result[q].status # "CONFIRMED"
        BY <2>3, <3>1, <4>1 DEF ResultsIInv, TargetOpen
      <4>3. QED
        BY <4>1, <4>2
    <3>2. CASE call[r].target # q
      BY <2>3, <3>2 DEF WriteMove, ResultsTypeOK
    <3>3. QED
      BY <3>1, <3>2
  <2>4. ASSUME NEW p \in Results, NEW s \in PostStatuses, CreateResult(p, s) PROVE Stays(q)
    BY <2>4 DEF CreateResult, ResultsTypeOK
  <2>5. ASSUME NEW p \in Results, RemoveResult(p) PROVE Stays(q)
    BY <2>5 DEF RemoveResult, ResultsTypeOK
  <2>6. CASE UNCHANGED result
    BY <2>6
  <2>7. QED
    BY <2>1, <2>2, <2>3, <2>4, <2>5, <2>6
    DEF ResultsNext, Attempting, Aggregate, BeginMove, AbandonCall
<1>2. QED
  BY <1>1, ResultsInvariantHolds, PTL DEF ResultsSpec, ConfirmedMarkStands
=============================================================================
