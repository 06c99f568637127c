---------------------------- MODULE OutboxProofs ----------------------------
(***************************************************************************)
(* Theorems of Outbox, for every number of events, drains and processes,   *)
(* every batch size and every limit on the attempts.                       *)
(***************************************************************************)
EXTENDS Outbox, TLAPS

USE DEF Settled, Absent, Phases, rowVars, drainVars

\* The batch of a claim is among the due rows, and what is left of them are the
\* rows after it.
LEMMA BatchOfReady ==
    ASSUME ready \in Seq(Events)
    PROVE  /\ BatchLength \in 0..Len(ready)
           /\ Batch \subseteq Events
           /\ SubSeq(ready, BatchLength + 1, Len(ready)) \in Seq(Events)
           /\ LET rest == SubSeq(ready, BatchLength + 1, Len(ready))
              IN  /\ Len(rest) = Len(ready) - BatchLength
                  /\ \A i \in DOMAIN rest : /\ i + BatchLength \in DOMAIN ready
                                            /\ rest[i] = ready[i + BatchLength]
<1>1. BatchLength \in 0..Len(ready)
  BY OutboxAssumption DEF OutboxAssumption, BatchLength
<1>2. Batch \subseteq Events
  BY <1>1 DEF Batch
<1> DEFINE rest == SubSeq(ready, BatchLength + 1, Len(ready))
<1>3. rest \in Seq(Events) /\ Len(rest) = Len(ready) - BatchLength
  BY <1>1
<1>4. \A i \in 1..Len(rest) : rest[i] = ready[i + BatchLength]
  BY <1>1, <1>3
<1> HIDE DEF rest
<1>5. DOMAIN rest = 1..Len(rest) /\ DOMAIN ready = 1..Len(ready)
  BY <1>3
<1>6. \A i \in DOMAIN rest : i + BatchLength \in DOMAIN ready /\ rest[i] = ready[i + BatchLength]
  BY <1>1, <1>3, <1>4, <1>5
<1>7. QED
  BY <1>1, <1>2, <1>3, <1>6 DEF rest
-----------------------------------------------------------------------------
\* A due row is PENDING and due once.
ReadyPending ==
    /\ \A i \in DOMAIN ready : status[ready[i]] = "PENDING"
    /\ \A i, j \in DOMAIN ready : ready[i] = ready[j] => i = j

\* A drain has a row in hand exactly while it posts it, and rows of a batch only
\* while it drains.
HandsInPhase ==
    \A d \in Drains :
        /\ phase[d] \in {"posting", "accepted", "refused"} <=> current[d] # NoEvent
        /\ phase[d] = "idle" => claimed[d] = {}

\* Only a FAILED row has no try left, and a drain has read its row's attempts.
TriesLeft ==
    /\ \A e \in Events : status[e] = Absent => attempts[e] = 0
    /\ \A e \in Events : status[e] # "FAILED" => attempts[e] < MaxAttempts
    /\ \A d \in Drains, e \in Events : Holds(d, e) => snapshot[d][e] = attempts[e]

\* What the webhook has accepted was counted, or is about to be.
Counted ==
    \A e \in Events :
        /\ received[e] <= attempts[e] + 1
        /\ status[e] \in {Absent, "PENDING"} => received[e] <= attempts[e]
        /\ \A d \in Drains :
              /\ e \in claimed[d] => received[e] <= attempts[e]
              /\ e = current[d] /\ phase[d] = "posting" => received[e] <= attempts[e]
              /\ e = current[d] /\ phase[d] = "accepted" => received[e] > 0
        /\ status[e] = "FAILED" => attempts[e] = MaxAttempts /\ received[e] <= MaxAttempts

Inv ==
    /\ TypeOK /\ ReadyPending /\ HandsInPhase /\ ExclusiveClaim
    /\ TriesLeft /\ Counted /\ DeliveredWasReceived

LEMMA InHand ==
    ASSUME Inv, NEW d \in Drains, phase[d] \in {"posting", "accepted", "refused"}
    PROVE  /\ current[d] \in Events /\ Holds(d, current[d])
           /\ status[current[d]] = "IN_FLIGHT"
           /\ \A other \in Drains : Holds(other, current[d]) => other = d
           /\ current[d] \notin claimed[d]
           /\ snapshot[d][current[d]] = attempts[current[d]]
           /\ attempts[current[d]] < MaxAttempts
BY DEF Inv, TypeOK, HandsInPhase, ExclusiveClaim, Holds, TriesLeft

LEMMA InvInit == Init => Inv
<1> SUFFICES ASSUME Init PROVE Inv
  OBVIOUS
<1>1. TypeOK
  BY OutboxAssumption DEF OutboxAssumption, Init, TypeOK
<1>2. QED
  BY <1>1, OutboxAssumption
  DEF OutboxAssumption, Init, Inv, ReadyPending, HandsInPhase, ExclusiveClaim, Holds, TriesLeft,
      Counted, DeliveredWasReceived

\* A row that falls due: it was PENDING and not due, so it is due once.
LEMMA AppendReady ==
    ASSUME Inv, NEW e \in Events, \A i \in DOMAIN ready : ready[i] # e
    PROVE  /\ Append(ready, e) \in Seq(Events)
           /\ LET longer == Append(ready, e)
              IN  /\ \A i \in DOMAIN longer : longer[i] = e \/ \E k \in DOMAIN ready : longer[i] = ready[k]
                  /\ \A i, j \in DOMAIN longer : longer[i] = longer[j] => i = j
<1> DEFINE longer == Append(ready, e)
<1>1. ready \in Seq(Events)
  BY DEF Inv, TypeOK
<1>2. longer \in Seq(Events) /\ Len(longer) = Len(ready) + 1
  BY <1>1
<1>3. DOMAIN longer = 1..(Len(ready) + 1) /\ DOMAIN ready = 1..Len(ready) /\ Len(ready) \in Nat
  BY <1>1
<1>4. \A i \in DOMAIN ready : longer[i] = ready[i]
  BY <1>1
<1>5. longer[Len(ready) + 1] = e
  BY <1>1
<1> HIDE DEF longer
<1>6. \A i \in DOMAIN longer : i \in DOMAIN ready \/ i = Len(ready) + 1
  BY <1>3
<1>7. \A i, j \in DOMAIN longer : longer[i] = longer[j] => i = j
  BY <1>4, <1>5, <1>6 DEF Inv, ReadyPending
<1>8. QED
  BY <1>2, <1>4, <1>5, <1>6, <1>7 DEF longer

LEMMA EmitInv ==
    ASSUME Inv, NEW e \in Events, NEW now \in BOOLEAN, EmitOutboxEvent(e, now)
    PROVE  Inv'
<1>1. status[e] = Absent /\ \A i \in DOMAIN ready : ready[i] # e
  BY DEF EmitOutboxEvent, Inv, ReadyPending
<1>2. /\ status' = [status EXCEPT ![e] = "PENDING"]
      /\ ready' \in {ready, Append(ready, e)}
      /\ UNCHANGED <<attempts, received, claimed, snapshot, current, phase>>
  BY DEF EmitOutboxEvent
<1>3. TypeOK'
  BY <1>1, <1>2, AppendReady DEF Inv, TypeOK
<1>4. ReadyPending'
  <2>1. CASE ready' = ready
    BY <1>1, <1>2, <2>1 DEF Inv, TypeOK, ReadyPending
  <2>2. CASE ready' = Append(ready, e)
    <3> DEFINE longer == Append(ready, e)
    <3>1. /\ \A i \in DOMAIN longer : longer[i] = e \/ \E k \in DOMAIN ready : longer[i] = ready[k]
          /\ \A i, j \in DOMAIN longer : longer[i] = longer[j] => i = j
      BY <1>1, AppendReady
    <3>2. ready' = longer
      BY <2>2
    <3> HIDE DEF longer
    <3>3. \A k \in DOMAIN ready : status'[ready[k]] = "PENDING"
      BY <1>1, <1>2 DEF Inv, TypeOK, ReadyPending
    <3>4. status'[e] = "PENDING"
      BY <1>2 DEF Inv, TypeOK
    <3>5. QED
      BY <3>1, <3>2, <3>3, <3>4 DEF ReadyPending
  <2>3. QED BY <1>2, <2>1, <2>2
<1>5. attempts[e] < MaxAttempts /\ received[e] <= attempts[e]
  BY <1>1, OutboxAssumption DEF OutboxAssumption, Inv, TypeOK, TriesLeft, Counted
<1>6. HandsInPhase'
  BY <1>2 DEF Inv, HandsInPhase
<1>7. ExclusiveClaim'
  BY <1>1, <1>2 DEF Inv, ExclusiveClaim, Holds, TypeOK
<1>8. TriesLeft'
  BY <1>2, <1>5 DEF Inv, TriesLeft, Holds, TypeOK
<1>9. Counted'
  BY <1>2, <1>5 DEF Inv, Counted, TypeOK
<1>10. DeliveredWasReceived'
  BY <1>2 DEF Inv, DeliveredWasReceived, TypeOK
<1>11. QED
  BY <1>3, <1>4, <1>6, <1>7, <1>8, <1>9, <1>10 DEF Inv

LEMMA FallDueInv ==
    ASSUME Inv, NEW e \in Events, FallDue(e)
    PROVE  Inv'
<1>1. status[e] = "PENDING" /\ \A i \in DOMAIN ready : ready[i] # e
  BY DEF FallDue
<1>2. ready' = Append(ready, e) /\ UNCHANGED <<status, attempts, received, claimed, snapshot, current, phase>>
  BY DEF FallDue
<1>3. TypeOK'
  BY <1>1, <1>2, AppendReady DEF Inv, TypeOK
<1>4. ReadyPending'
  <2> DEFINE longer == Append(ready, e)
  <2>1. /\ \A i \in DOMAIN longer : longer[i] = e \/ \E k \in DOMAIN ready : longer[i] = ready[k]
        /\ \A i, j \in DOMAIN longer : longer[i] = longer[j] => i = j
    BY <1>1, AppendReady
  <2> HIDE DEF longer
  <2>2. ready' = longer /\ status' = status
    BY <1>2 DEF longer
  <2>3. QED
    BY <1>1, <2>1, <2>2 DEF Inv, ReadyPending
<1>5. HandsInPhase' /\ ExclusiveClaim' /\ TriesLeft' /\ Counted' /\ DeliveredWasReceived'
  BY <1>2 DEF Inv, HandsInPhase, ExclusiveClaim, Holds, TriesLeft, Counted, DeliveredWasReceived
<1>6. QED
  BY <1>3, <1>4, <1>5 DEF Inv

\* The rows of a claim were PENDING, so no other drain holds them.
LEMMA ClaimInv ==
    ASSUME Inv, NEW d \in Drains, Claim(d)
    PROVE  Inv'
<1> DEFINE rest == SubSeq(ready, BatchLength + 1, Len(ready))
<1>1. /\ phase[d] = "idle" /\ claimed[d] = {} /\ current[d] = NoEvent
      /\ ready \in Seq(Events)
  BY DEF Claim, Inv, TypeOK, HandsInPhase
<1>2. /\ status' = [e \in Events |-> IF e \in Batch THEN "IN_FLIGHT" ELSE status[e]]
      /\ ready' = rest
      /\ claimed' = [claimed EXCEPT ![d] = Batch]
      /\ snapshot' = [snapshot EXCEPT ![d] = [e \in Events |-> IF e \in Batch THEN attempts[e] ELSE 0]]
      /\ phase' = [phase EXCEPT ![d] = "draining"]
      /\ UNCHANGED <<attempts, received, current>>
  BY DEF Claim
<1>3. Batch \subseteq Events /\ rest \in Seq(Events) /\ BatchLength \in 0..Len(ready)
  BY <1>1, BatchOfReady
<1>4. \A i \in DOMAIN rest : i + BatchLength \in DOMAIN ready /\ rest[i] = ready[i + BatchLength]
  BY <1>1, BatchOfReady
<1>5. \A e \in Batch : \E i \in DOMAIN ready : i <= BatchLength /\ ready[i] = e
  BY <1>1, <1>3 DEF Batch
<1>6. \A e \in Batch : status[e] = "PENDING"
  BY <1>5 DEF Inv, ReadyPending
<1>7. DOMAIN rest \subseteq Nat \ {0} /\ DOMAIN ready \subseteq Nat /\ BatchLength \in Nat
  BY <1>1, <1>3
<1> HIDE DEF rest
<1>8. \A i \in DOMAIN rest : rest[i] \in Events /\ rest[i] \notin Batch
  <2>1. SUFFICES ASSUME NEW i \in DOMAIN rest, rest[i] \in Batch
                 PROVE  FALSE
    BY <1>3
  <2>2. PICK k \in DOMAIN ready : k <= BatchLength /\ ready[k] = rest[i]
    BY <1>5, <2>1
  <2>3. i + BatchLength \in DOMAIN ready /\ ready[i + BatchLength] = ready[k]
    BY <1>4, <2>2
  <2>4. i + BatchLength = k
    BY <2>3 DEF Inv, ReadyPending
  <2>5. QED
    BY <1>7, <2>2, <2>4
<1>9. TypeOK'
  <2>1. status' \in [Events -> {Absent, "PENDING", "IN_FLIGHT"} \cup Settled]
    BY <1>2 DEF Inv, TypeOK
  <2>2. snapshot' \in [Drains -> [Events -> 0..MaxAttempts]]
    BY <1>2, OutboxAssumption DEF OutboxAssumption, Inv, TypeOK
  <2>3. claimed' \in [Drains -> SUBSET Events] /\ phase' \in [Drains -> Phases]
    BY <1>2, <1>3 DEF Inv, TypeOK
  <2>4. QED
    BY <1>2, <1>3, <2>1, <2>2, <2>3 DEF Inv, TypeOK
<1>10. ReadyPending'
  <2>1. \A i \in DOMAIN rest : status[rest[i]] = "PENDING"
    BY <1>4 DEF Inv, ReadyPending
  <2>2. \A i, j \in DOMAIN rest : rest[i] = rest[j] => i = j
    <3>1. SUFFICES ASSUME NEW i \in DOMAIN rest, NEW j \in DOMAIN rest, rest[i] = rest[j]
                   PROVE  i = j
      OBVIOUS
    <3>2. i + BatchLength = j + BatchLength
      BY <1>4, <3>1 DEF Inv, ReadyPending
    <3>3. QED
      BY <1>7, <3>2
  <2>3. QED
    BY <1>2, <1>8, <2>1, <2>2 DEF ReadyPending
<1>11. HandsInPhase'
  BY <1>1, <1>2 DEF Inv, TypeOK, HandsInPhase
<1>12. \A e \in Events, other \in Drains : Holds(other, e) => e \notin Batch
  BY <1>6 DEF Inv, ExclusiveClaim
<1>13. \A e \in Events : /\ Holds(d, e)' <=> e \in Batch
                         /\ \A other \in Drains \ {d} : Holds(other, e)' <=> Holds(other, e)
  BY <1>1, <1>2, OutboxAssumption DEF OutboxAssumption, Inv, TypeOK, Holds
<1>14. \A e \in Batch : e \in Events /\ e # NoEvent
  BY <1>3, OutboxAssumption DEF OutboxAssumption
<1>15. ExclusiveClaim'
  <2>1. SUFFICES ASSUME NEW other \in Drains, NEW e \in Events, Holds(other, e)'
                 PROVE  /\ status'[e] = "IN_FLIGHT"
                        /\ \A third \in Drains : Holds(third, e)' => third = other
                        /\ e \notin claimed'[other] \/ e # current'[other]
    BY DEF ExclusiveClaim
  <2>2. CASE other = d
    <3>1. e \in Batch
      BY <1>13, <2>1, <2>2
    <3>2. status'[e] = "IN_FLIGHT" /\ e # current'[other]
      BY <1>1, <1>2, <1>14, <2>2, <3>1
    <3>3. \A third \in Drains : Holds(third, e)' => third = other
      BY <1>12, <1>13, <2>2, <3>1
    <3>4. QED BY <3>2, <3>3
  <2>3. CASE other # d
    <3>1. Holds(other, e) /\ e \notin Batch
      BY <1>12, <1>13, <2>1, <2>3
    <3>2. status'[e] = "IN_FLIGHT"
      BY <1>2, <3>1 DEF Inv, ExclusiveClaim
    <3>3. e \notin claimed'[other] \/ e # current'[other]
      BY <1>2, <2>3, <3>1 DEF Inv, TypeOK, ExclusiveClaim
    <3>4. \A third \in Drains : Holds(third, e)' => third = other
      BY <1>13, <3>1 DEF Inv, ExclusiveClaim
    <3>5. QED BY <3>2, <3>3, <3>4
  <2>4. QED BY <2>2, <2>3
<1>16. TriesLeft'
  <2>1. \A e \in Events : /\ status'[e] = Absent => status[e] = Absent
                          /\ status'[e] # "FAILED" => status[e] # "FAILED"
    BY <1>2, <1>6
  <2>2. \A e \in Batch : snapshot'[d][e] = attempts[e]
    BY <1>2, <1>14 DEF Inv, TypeOK
  <2>3. \A other \in Drains \ {d} : snapshot'[other] = snapshot[other]
    BY <1>2 DEF Inv, TypeOK
  <2>4. \A e \in Events : /\ status'[e] = Absent => attempts'[e] = 0
                          /\ status'[e] # "FAILED" => attempts'[e] < MaxAttempts
    BY <1>2, <2>1 DEF Inv, TriesLeft
  <2>5. ASSUME NEW other \in Drains, NEW e \in Events, Holds(other, e)'
        PROVE  snapshot'[other][e] = attempts'[e]
    <3>1. CASE other = d
      BY <1>2, <1>13, <2>2, <2>5, <3>1
    <3>2. CASE other # d
      BY <1>2, <1>13, <2>3, <2>5, <3>2 DEF Inv, TriesLeft
    <3>3. QED BY <3>1, <3>2
  <2>6. QED
    BY <2>4, <2>5 DEF TriesLeft
<1>17. Counted'
  <2>1. \A e \in Events : /\ status'[e] # status[e] => e \in Batch /\ status'[e] = "IN_FLIGHT"
                          /\ e \in Batch => received[e] <= attempts[e]
    BY <1>2, <1>6 DEF Inv, Counted
  <2>2. phase'[d] = "draining" /\ claimed'[d] = Batch
    BY <1>2 DEF Inv, TypeOK
  <2>3. \A other \in Drains \ {d} : phase'[other] = phase[other] /\ claimed'[other] = claimed[other]
    BY <1>2 DEF Inv, TypeOK
  <2>4. \A e \in Events, other \in Drains :
           /\ e \in claimed'[other] => received[e] <= attempts[e]
           /\ e = current[other] /\ phase'[other] = "posting" => received[e] <= attempts[e]
           /\ e = current[other] /\ phase'[other] = "accepted" => received[e] > 0
    BY <2>1, <2>2, <2>3 DEF Inv, Counted
  <2>5. QED
    BY <1>2, <2>1, <2>4 DEF Inv, Counted
<1>18. DeliveredWasReceived'
  BY <1>2, <1>6 DEF Inv, DeliveredWasReceived
<1>19. QED
  BY <1>9, <1>10, <1>11, <1>15, <1>16, <1>17, <1>18 DEF Inv

LEMMA PostInv ==
    ASSUME Inv, NEW d \in Drains, NEW e \in Events, Post(d, e)
    PROVE  Inv'
<1>1. /\ phase[d] = "draining" /\ e \in claimed[d] /\ Holds(d, e)
      /\ claimed' = [claimed EXCEPT ![d] = @ \ {e}]
      /\ current' = [current EXCEPT ![d] = e]
      /\ phase' = [phase EXCEPT ![d] = "posting"]
      /\ UNCHANGED <<status, attempts, ready, received, snapshot>>
  BY DEF Post, Holds
<1>2. current[d] = NoEvent /\ e # NoEvent
  BY <1>1, OutboxAssumption DEF OutboxAssumption, Inv, TypeOK, HandsInPhase
<1>3. \A f \in Events, other \in Drains : Holds(other, f)' <=> Holds(other, f)
  BY <1>1, <1>2, OutboxAssumption DEF OutboxAssumption, Inv, TypeOK, Holds
<1>4. TypeOK' /\ ReadyPending' /\ DeliveredWasReceived'
  BY <1>1 DEF Inv, TypeOK, ReadyPending, DeliveredWasReceived
<1>5. HandsInPhase'
  BY <1>1, <1>2 DEF Inv, TypeOK, HandsInPhase
<1>6. ExclusiveClaim'
  BY <1>1, <1>2, <1>3 DEF Inv, TypeOK, ExclusiveClaim
<1>7. TriesLeft'
  BY <1>1, <1>3 DEF Inv, TriesLeft
<1>8. Counted'
  BY <1>1, <1>2 DEF Inv, TypeOK, Counted
<1>9. QED
  BY <1>4, <1>5, <1>6, <1>7, <1>8 DEF Inv

LEMMA AcceptInv ==
    ASSUME Inv, NEW d \in Drains, NEW answer \in Answers, WebhookAccepts(d, answer)
    PROVE  Inv'
<1> DEFINE c == current[d]
<1>1. /\ phase[d] = "posting" /\ answer \in {"accepted", "refused"}
      /\ received' = [received EXCEPT ![c] = @ + 1]
      /\ phase' = [phase EXCEPT ![d] = answer]
      /\ UNCHANGED <<status, attempts, ready, claimed, snapshot, current>>
  BY DEF WebhookAccepts, Answers
<1>2. /\ c \in Events /\ Holds(d, c) /\ status[c] = "IN_FLIGHT" /\ c \notin claimed[d]
      /\ \A other \in Drains : Holds(other, c) => other = d
  BY <1>1, InHand
<1>3. received[c] <= attempts[c] /\ received[c] \in Nat /\ attempts[c] \in Nat
  BY <1>1, <1>2 DEF Inv, Counted, TypeOK
<1>4. received'[c] = received[c] + 1 /\ \A e \in Events \ {c} : received'[e] = received[e]
  BY <1>1, <1>2 DEF Inv, TypeOK
<1>5. TypeOK'
  BY <1>1, <1>2 DEF Inv, TypeOK
<1>6. ReadyPending' /\ ExclusiveClaim' /\ TriesLeft'
  BY <1>1 DEF Inv, ReadyPending, ExclusiveClaim, TriesLeft, Holds
<1>7. HandsInPhase'
  BY <1>1 DEF Inv, TypeOK, HandsInPhase
<1>8. Counted'
  <2>1. \A e \in Events : /\ received'[e] <= attempts[e] + 1
                          /\ status[e] \in {Absent, "PENDING"} => received'[e] <= attempts[e]
                          /\ status[e] = "FAILED" => attempts[e] = MaxAttempts /\ received'[e] <= MaxAttempts
    BY <1>2, <1>3, <1>4 DEF Inv, Counted
  <2>2. ASSUME NEW other \in Drains, NEW e \in Events
        PROVE  /\ e \in claimed[other] => received'[e] <= attempts[e]
               /\ e = current[other] /\ phase'[other] = "posting" => received'[e] <= attempts[e]
               /\ e = current[other] /\ phase'[other] = "accepted" => received'[e] > 0
    <3>1. CASE other = d
      BY <1>1, <1>2, <1>3, <1>4, <3>1 DEF Inv, TypeOK, Counted
    <3>2. CASE other # d
      <4>1. e = c => e \notin claimed[other] /\ e # current[other]
        BY <1>2, <3>2 DEF Holds
      <4>2. phase'[other] = phase[other]
        BY <1>1, <3>2 DEF Inv, TypeOK
      <4>3. QED
        BY <1>4, <4>1, <4>2 DEF Inv, Counted
    <3>3. QED BY <3>1, <3>2
  <2>3. QED
    BY <1>1, <2>1, <2>2 DEF Counted
<1>9. DeliveredWasReceived'
  BY <1>1, <1>2, <1>4 DEF Inv, DeliveredWasReceived
<1>10. QED
  BY <1>5, <1>6, <1>7, <1>8, <1>9 DEF Inv

\* A post that fails, or a delivery that cannot be recorded, only moves the
\* drain to its catch.
LEMMA RefuseInv ==
    ASSUME Inv, NEW d \in Drains, WebhookRefuses(d) \/ DeliveryNotRecorded(d)
    PROVE  Inv'
<1>1. /\ phase[d] \in {"posting", "accepted"}
      /\ phase' = [phase EXCEPT ![d] = "refused"]
      /\ UNCHANGED <<status, attempts, ready, received, claimed, snapshot, current>>
  BY DEF WebhookRefuses, DeliveryNotRecorded
<1>2. TypeOK' /\ HandsInPhase'
  BY <1>1 DEF Inv, TypeOK, HandsInPhase
<1>3. ReadyPending' /\ ExclusiveClaim' /\ TriesLeft' /\ DeliveredWasReceived'
  BY <1>1 DEF Inv, ReadyPending, ExclusiveClaim, TriesLeft, DeliveredWasReceived, Holds
<1>4. Counted'
  BY <1>1 DEF Inv, TypeOK, Counted
<1>5. QED
  BY <1>2, <1>3, <1>4 DEF Inv

\* The row in hand is put down: nobody holds it, and the other rows are held by
\* the drains that held them.
LEMMA PutDown ==
    ASSUME Inv, NEW d \in Drains, phase[d] \in {"accepted", "refused"}, RowDone(d)
    PROVE  /\ current' \in [Drains -> Events \cup {NoEvent}]
           /\ snapshot' \in [Drains -> [Events -> 0..MaxAttempts]]
           /\ phase' \in [Drains -> Phases]
           /\ HandsInPhase'
           /\ \A other \in Drains, e \in Events :
                 /\ Holds(other, e)' <=> Holds(other, e) /\ e # current[d]
                 /\ e \in claimed'[other] <=> e \in claimed[other]
                 /\ Holds(other, e)' => snapshot'[other][e] = snapshot[other][e]
           /\ \A other \in Drains : /\ current'[other] \in {current[other], NoEvent}
                                    /\ current'[other] # NoEvent => phase'[other] = phase[other]
<1> DEFINE c == current[d]
<1>1. /\ current' = [current EXCEPT ![d] = NoEvent]
      /\ snapshot' = [snapshot EXCEPT ![d] = [@ EXCEPT ![c] = 0]]
      /\ phase' = [phase EXCEPT ![d] = "draining"]
      /\ claimed' = claimed
  BY DEF RowDone
<1>2. /\ c \in Events /\ c \notin claimed[d] /\ c # NoEvent
      /\ \A other \in Drains : Holds(other, c) => other = d
  BY InHand, OutboxAssumption DEF OutboxAssumption
<1>3. current' \in [Drains -> Events \cup {NoEvent}] /\ phase' \in [Drains -> Phases] /\ HandsInPhase'
  BY <1>1 DEF Inv, TypeOK, HandsInPhase
<1>4. snapshot' \in [Drains -> [Events -> 0..MaxAttempts]]
  BY <1>1, <1>2, OutboxAssumption DEF OutboxAssumption, Inv, TypeOK
<1>5. \A other \in Drains : /\ current'[other] = IF other = d THEN NoEvent ELSE current[other]
                            /\ other # d => phase'[other] = phase[other] /\ snapshot'[other] = snapshot[other]
  BY <1>1 DEF Inv, TypeOK
<1>6. \A e \in Events : e # c => snapshot'[d][e] = snapshot[d][e]
  BY <1>1, <1>2 DEF Inv, TypeOK
<1>7. \A other \in Drains, e \in Events : Holds(other, e)' <=> Holds(other, e) /\ e # c
  BY <1>1, <1>2, <1>5, OutboxAssumption DEF OutboxAssumption, Holds
<1>8. QED
  BY <1>1, <1>3, <1>4, <1>5, <1>6, <1>7

LEMMA DeliveryInv ==
    ASSUME Inv, NEW d \in Drains, RecordDelivery(d)
    PROVE  Inv'
<1> DEFINE c == current[d]
<1>1. /\ phase[d] = "accepted" /\ RowDone(d)
      /\ status' = [status EXCEPT ![c] = "DELIVERED"]
      /\ UNCHANGED <<attempts, ready, received>>
  BY DEF RecordDelivery
<1>2. /\ c \in Events /\ Holds(d, c) /\ status[c] = "IN_FLIGHT" /\ received[c] > 0
  BY <1>1, InHand DEF Inv, Counted
<1>3. /\ status'[c] = "DELIVERED" /\ \A e \in Events \ {c} : status'[e] = status[e]
      /\ status' \in [Events -> {Absent, "PENDING", "IN_FLIGHT"} \cup Settled]
  BY <1>1, <1>2 DEF Inv, TypeOK
<1>4. /\ current' \in [Drains -> Events \cup {NoEvent}] /\ phase' \in [Drains -> Phases]
      /\ snapshot' \in [Drains -> [Events -> 0..MaxAttempts]] /\ HandsInPhase'
      /\ \A other \in Drains, e \in Events :
            /\ Holds(other, e)' <=> Holds(other, e) /\ e # c
            /\ e \in claimed'[other] <=> e \in claimed[other]
            /\ Holds(other, e)' => snapshot'[other][e] = snapshot[other][e]
      /\ \A other \in Drains : /\ current'[other] \in {current[other], NoEvent}
                               /\ current'[other] # NoEvent => phase'[other] = phase[other]
  BY <1>1, PutDown
<1>5. TypeOK'
  BY <1>1, <1>3, <1>4 DEF Inv, TypeOK, RowDone
<1>6. ReadyPending'
  BY <1>1, <1>2, <1>3 DEF Inv, TypeOK, ReadyPending
<1>7. ExclusiveClaim'
  BY <1>3, <1>4, OutboxAssumption DEF OutboxAssumption, Inv, ExclusiveClaim
<1>8. TriesLeft'
  <2>1. \A e \in Events : /\ status'[e] = Absent => attempts[e] = 0
                          /\ status'[e] # "FAILED" => attempts[e] < MaxAttempts
    BY <1>2, <1>3 DEF Inv, TriesLeft
  <2>2. \A other \in Drains, e \in Events : Holds(other, e)' => snapshot'[other][e] = attempts[e]
    BY <1>4 DEF Inv, TriesLeft
  <2>3. QED
    BY <1>1, <2>1, <2>2 DEF TriesLeft
<1>9. Counted'
  BY <1>1, <1>3, <1>4, OutboxAssumption DEF OutboxAssumption, Inv, Counted
<1>10. DeliveredWasReceived'
  BY <1>1, <1>2, <1>3 DEF Inv, DeliveredWasReceived
<1>11. QED
  BY <1>4, <1>5, <1>6, <1>7, <1>8, <1>9, <1>10 DEF Inv

\* The count that the catch writes is the row's own plus one: nobody else has
\* touched the row since it was claimed.
LEMMA FailureInv ==
    ASSUME Inv, NEW d \in Drains, RecordFailure(d)
    PROVE  Inv'
<1> DEFINE c == current[d]
<1> DEFINE tries == attempts[c] + 1
<1>1. phase[d] = "refused" /\ RowDone(d) /\ UNCHANGED <<ready, received>>
  BY DEF RecordFailure
<1>2. /\ c \in Events /\ Holds(d, c) /\ status[c] = "IN_FLIGHT"
      /\ snapshot[d][c] = attempts[c] /\ attempts[c] < MaxAttempts
      /\ received[c] <= attempts[c] + 1
  BY <1>1, InHand DEF Inv, Counted
<1>3. attempts[c] \in Nat /\ received[c] \in Nat /\ MaxAttempts \in Nat
  BY <1>2, OutboxAssumption DEF OutboxAssumption, Inv, TypeOK
<1>4. /\ attempts' = [attempts EXCEPT ![c] = tries]
      /\ status' = [status EXCEPT ![c] = IF tries >= MaxAttempts THEN "FAILED" ELSE "PENDING"]
  BY <1>2 DEF RecordFailure, IsTerminal
<1>5. /\ attempts'[c] = tries /\ tries \in 0..MaxAttempts
      /\ \A e \in Events \ {c} : attempts'[e] = attempts[e] /\ status'[e] = status[e]
      /\ \/ status'[c] = "FAILED" /\ tries = MaxAttempts
         \/ status'[c] = "PENDING" /\ tries < MaxAttempts
      /\ status' \in [Events -> {Absent, "PENDING", "IN_FLIGHT"} \cup Settled]
      /\ attempts' \in [Events -> 0..MaxAttempts]
  <2>1. tries \in 0..MaxAttempts
    BY <1>2, <1>3
  <2>2. attempts'[c] = tries /\ \A e \in Events \ {c} : attempts'[e] = attempts[e] /\ status'[e] = status[e]
    BY <1>2, <1>4 DEF Inv, TypeOK
  <2>3. \/ status'[c] = "FAILED" /\ tries = MaxAttempts
        \/ status'[c] = "PENDING" /\ tries < MaxAttempts
    BY <1>2, <1>3, <1>4, <2>1 DEF Inv, TypeOK
  <2>4. /\ status' \in [Events -> {Absent, "PENDING", "IN_FLIGHT"} \cup Settled]
        /\ attempts' \in [Events -> 0..MaxAttempts]
    BY <1>2, <1>4, <2>1 DEF Inv, TypeOK
  <2>5. QED BY <2>1, <2>2, <2>3, <2>4
<1> HIDE DEF tries
<1>6. received[c] <= tries /\ tries > 0
  BY <1>2, <1>3 DEF tries
<1>7. /\ current' \in [Drains -> Events \cup {NoEvent}] /\ phase' \in [Drains -> Phases]
      /\ snapshot' \in [Drains -> [Events -> 0..MaxAttempts]] /\ HandsInPhase'
      /\ \A other \in Drains, e \in Events :
            /\ Holds(other, e)' <=> Holds(other, e) /\ e # c
            /\ e \in claimed'[other] <=> e \in claimed[other]
            /\ Holds(other, e)' => snapshot'[other][e] = snapshot[other][e]
      /\ \A other \in Drains : /\ current'[other] \in {current[other], NoEvent}
                               /\ current'[other] # NoEvent => phase'[other] = phase[other]
  BY <1>1, PutDown
<1>8. TypeOK'
  BY <1>1, <1>5, <1>7 DEF Inv, TypeOK, RowDone
<1>9. ReadyPending'
  BY <1>1, <1>2, <1>5 DEF Inv, TypeOK, ReadyPending
<1>10. ExclusiveClaim'
  BY <1>5, <1>7, OutboxAssumption DEF OutboxAssumption, Inv, ExclusiveClaim
<1>11. TriesLeft'
  <2>1. \A e \in Events : /\ status'[e] = Absent => attempts'[e] = 0
                          /\ status'[e] # "FAILED" => attempts'[e] < MaxAttempts
    BY <1>5 DEF Inv, TriesLeft
  <2>2. \A other \in Drains, e \in Events : Holds(other, e)' => snapshot'[other][e] = attempts'[e]
    BY <1>5, <1>7 DEF Inv, TriesLeft
  <2>3. QED
    BY <2>1, <2>2 DEF TriesLeft
<1>12. Counted'
  <2>1. \A e \in Events :
           /\ received[e] <= attempts'[e] + 1
           /\ status'[e] \in {Absent, "PENDING"} => received[e] <= attempts'[e]
           /\ status'[e] = "FAILED" => attempts'[e] = MaxAttempts /\ received[e] <= MaxAttempts
    BY <1>3, <1>5, <1>6 DEF Inv, Counted
  <2>2. \A other \in Drains, e \in Events : Holds(other, e)' => e # c
    BY <1>7
  <2>3. ASSUME NEW other \in Drains, NEW e \in Events
        PROVE  /\ e \in claimed'[other] => received[e] <= attempts'[e]
               /\ e = current'[other] /\ phase'[other] = "posting" => received[e] <= attempts'[e]
               /\ e = current'[other] /\ phase'[other] = "accepted" => received[e] > 0
    <3>1. e \in claimed'[other] => e # c /\ e \in claimed[other]
      BY <1>7, <2>2 DEF Holds
    <3>2. e = current'[other] => e # c /\ e = current[other] /\ phase'[other] = phase[other]
      BY <1>7, <2>2, OutboxAssumption DEF OutboxAssumption, Holds
    <3>3. QED
      BY <1>5, <3>1, <3>2 DEF Inv, Counted
  <2>4. QED
    BY <1>1, <2>1, <2>3 DEF Counted
<1>13. DeliveredWasReceived'
  BY <1>1, <1>5 DEF Inv, DeliveredWasReceived
<1>14. QED
  BY <1>7, <1>8, <1>9, <1>10, <1>11, <1>12, <1>13 DEF Inv

\* Drains that end, whatever they held, only let go of rows.
LEMMA StopInv ==
    ASSUME Inv, NEW D, Stop(D)
    PROVE  Inv'
<1>1. UNCHANGED <<status, attempts, ready, received>>
  BY DEF Stop
<1>2. \A d \in Drains :
         /\ d \in D => claimed'[d] = {} /\ current'[d] = NoEvent /\ phase'[d] = "idle"
         /\ d \notin D => /\ claimed'[d] = claimed[d] /\ current'[d] = current[d]
                          /\ phase'[d] = phase[d] /\ snapshot'[d] = snapshot[d]
  BY DEF Stop
<1>3. TypeOK'
  <2>1. claimed' \in [Drains -> SUBSET Events] /\ current' \in [Drains -> Events \cup {NoEvent}]
    BY DEF Stop, Inv, TypeOK
  <2>2. phase' \in [Drains -> Phases]
    BY DEF Stop, Inv, TypeOK
  <2>3. snapshot' \in [Drains -> [Events -> 0..MaxAttempts]]
    BY OutboxAssumption DEF OutboxAssumption, Stop, Inv, TypeOK
  <2>4. QED
    BY <1>1, <2>1, <2>2, <2>3 DEF Inv, TypeOK
<1>4. \A d \in Drains, e \in Events : Holds(d, e)' => Holds(d, e) /\ d \notin D
  BY <1>2, OutboxAssumption DEF OutboxAssumption, Holds
<1>5. ReadyPending' /\ DeliveredWasReceived'
  BY <1>1 DEF Inv, ReadyPending, DeliveredWasReceived
<1>6. HandsInPhase'
  BY <1>2 DEF Inv, HandsInPhase
<1>7. ExclusiveClaim'
  BY <1>1, <1>2, <1>4 DEF Inv, ExclusiveClaim
<1>8. TriesLeft'
  BY <1>1, <1>2, <1>4 DEF Inv, TriesLeft
<1>9. Counted'
  BY <1>1, <1>2, OutboxAssumption DEF OutboxAssumption, Inv, Counted
<1>10. QED
  BY <1>3, <1>5, <1>6, <1>7, <1>8, <1>9 DEF Inv

LEMMA InvStep == Inv /\ [Next]_vars => Inv'
<1> SUFFICES ASSUME Inv, [Next]_vars PROVE Inv'
  OBVIOUS
<1>1. CASE \E e \in Events, now \in BOOLEAN : EmitOutboxEvent(e, now)
  BY <1>1, EmitInv
<1>2. CASE \E e \in Events : FallDue(e)
  BY <1>2, FallDueInv
<1>3. ASSUME NEW d \in Drains, Drain(d)
      PROVE  Inv'
  <2>1. CASE Claim(d)
    BY <2>1, ClaimInv
  <2>2. CASE \E e \in Events : Post(d, e)
    BY <2>2, PostInv
  <2>3. CASE \E answer \in Answers : WebhookAccepts(d, answer)
    BY <2>3, AcceptInv
  <2>4. CASE WebhookRefuses(d) \/ DeliveryNotRecorded(d)
    BY <2>4, RefuseInv
  <2>5. CASE RecordDelivery(d)
    BY <2>5, DeliveryInv
  <2>6. CASE RecordFailure(d)
    BY <2>6, FailureInv
  <2>7. CASE FailureNotRecorded(d) \/ FinishDrain(d)
    BY <2>7, StopInv DEF FailureNotRecorded, FinishDrain
  <2>8. QED
    BY <1>3, <2>1, <2>2, <2>3, <2>4, <2>5, <2>6, <2>7 DEF Drain
<1>4. CASE \E process \in Processes : Crash(process)
  BY <1>4, StopInv DEF Crash
<1>5. CASE UNCHANGED vars
  BY <1>5 DEF vars, Inv, TypeOK, ReadyPending, HandsInPhase, ExclusiveClaim, Holds, TriesLeft,
              Counted, DeliveredWasReceived
<1>6. QED
  BY <1>1, <1>2, <1>3, <1>4, <1>5 DEF Next
-----------------------------------------------------------------------------
\* Every row and every drain keeps to its states: attempts never passes
\* OUTBOX_MAX_ATTEMPTS, whatever a drain read and wrote back.
THEOREM OutboxTypeCorrect == Spec => []TypeOK
<1>1. Inv => TypeOK
  BY DEF Inv
<1>2. QED
  BY <1>1, InvInit, InvStep, PTL DEF Spec

\* A row is in the hands of one drain at a time, through any overlap of ticks,
\* any number of processes and any crash: SKIP LOCKED and the IN_FLIGHT mark of
\* drainOutboxBatch's claim.
THEOREM ClaimsAreExclusive == Spec => []ExclusiveClaim
<1>1. Inv => ExclusiveClaim
  BY DEF Inv
<1>2. QED
  BY <1>1, InvInit, InvStep, PTL DEF Spec

\* A row is DELIVERED only if the webhook accepted its event: drainOutboxBatch
\* writes it after dispatchOutboxRow has returned, and nothing else does.
THEOREM DeliveryIsEarned == Spec => []DeliveredWasReceived
<1>1. Inv => DeliveredWasReceived
  BY DEF Inv
<1>2. QED
  BY <1>1, InvInit, InvStep, PTL DEF Spec

\* However deliveries, losses and crashes fall, an event is accepted at most
\* OUTBOX_MAX_ATTEMPTS times.
THEOREM CopiesAreBounded == Spec => []CopiesBounded
<1>1. Inv => CopiesBounded
  <2>1. SUFFICES ASSUME Inv, NEW e \in Events
                 PROVE  received[e] <= MaxAttempts
    BY DEF CopiesBounded
  <2>2. received[e] \in Nat /\ attempts[e] \in Nat /\ MaxAttempts \in Nat
    BY <2>1, OutboxAssumption DEF OutboxAssumption, Inv, TypeOK
  <2>3. CASE status[e] = "FAILED"
    BY <2>1, <2>3 DEF Inv, Counted
  <2>4. CASE status[e] # "FAILED"
    <3>1. received[e] <= attempts[e] + 1 /\ attempts[e] < MaxAttempts
      BY <2>1, <2>4 DEF Inv, TriesLeft, Counted
    <3>2. QED
      BY <2>2, <3>1
  <2>5. QED
    BY <2>3, <2>4
<1>2. QED
  BY <1>1, InvInit, InvStep, PTL DEF Spec

\* A settled row is never touched again: no drain has it in hand, and none can
\* claim it.
THEOREM SettlementStands == Spec => SettledIsFinal
<1>1. ASSUME Inv, [Next]_vars, NEW e \in Events, status[e] \in Settled
      PROVE  status'[e] = status[e] /\ attempts'[e] = attempts[e] /\ received'[e] = received[e]
  <2>1. \A d \in Drains : ~Holds(d, e)
    BY <1>1 DEF Inv, ExclusiveClaim
  <2>2. CASE \E f \in Events, now \in BOOLEAN : EmitOutboxEvent(f, now)
    BY <1>1, <2>2 DEF EmitOutboxEvent, Inv, TypeOK
  <2>3. CASE \E f \in Events : FallDue(f)
    BY <2>3 DEF FallDue
  <2>4. ASSUME NEW d \in Drains, Drain(d)
        PROVE  status'[e] = status[e] /\ attempts'[e] = attempts[e] /\ received'[e] = received[e]
    <3>1. CASE Claim(d)
      <4>1. e \notin Batch
        BY <1>1, OutboxAssumption, SMTT(20) DEF OutboxAssumption, Inv, TypeOK, ReadyPending, Batch, BatchLength
      <4>2. QED
        BY <3>1, <4>1 DEF Claim
    <3>2. CASE \E f \in Events : Post(d, f)
      BY <3>2 DEF Post
    <3>3. CASE \E answer \in Answers : WebhookAccepts(d, answer)
      BY <2>1, <3>3 DEF WebhookAccepts, Holds, Inv, TypeOK
    <3>4. CASE WebhookRefuses(d) \/ DeliveryNotRecorded(d)
      BY <3>4 DEF WebhookRefuses, DeliveryNotRecorded
    <3>5. CASE RecordDelivery(d)
      BY <1>1, <2>1, <3>5 DEF RecordDelivery, Holds, Inv, TypeOK
    <3>6. CASE RecordFailure(d)
      BY <1>1, <2>1, <3>6 DEF RecordFailure, Holds, Inv, TypeOK
    <3>7. CASE FailureNotRecorded(d) \/ FinishDrain(d)
      BY <3>7 DEF FailureNotRecorded, FinishDrain, Stop
    <3>8. QED
      BY <2>4, <3>1, <3>2, <3>3, <3>4, <3>5, <3>6, <3>7 DEF Drain
  <2>5. CASE \E process \in Processes : Crash(process)
    BY <2>5 DEF Crash, Stop
  <2>6. CASE UNCHANGED vars
    BY <2>6 DEF vars
  <2>7. QED
    BY <1>1, <2>2, <2>3, <2>4, <2>5, <2>6 DEF Next
<1>2. Inv /\ [Next]_vars =>
         [\A e \in Events : status[e] \in Settled =>
             status'[e] = status[e] /\ attempts'[e] = attempts[e] /\ received'[e] = received[e]]_vars
  BY <1>1
<1>3. QED
  BY <1>2, InvInit, InvStep, PTL DEF Spec, SettledIsFinal
=============================================================================
