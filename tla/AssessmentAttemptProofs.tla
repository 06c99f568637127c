----------------------- MODULE AssessmentAttemptProofs -----------------------
(***************************************************************************)
(* Theorems of AssessmentAttempt, for every set of attempts, users and     *)
(* marks and any number of updates in flight.                              *)
(***************************************************************************)
EXTENDS AssessmentAttempt, TLAPS

USE AttemptAssumption DEF AttemptAssumption, Transitions, AttemptStatuses, Absent, Deleted

PatchRow == Row(AttemptStatuses \cup {None})
AttemptRow == Row(AttemptStatuses \cup {Absent, Deleted})

\* The row a patch leaves, column by column.
LEMMA PatchedColumns ==
    ASSUME NEW row \in AttemptRow, NEW p \in PatchRow
    PROVE  /\ Patched(row, p) = [status |-> Or(p.status, row.status), raw |-> Or(p.raw, row.raw),
                                 moderated |-> Or(p.moderated, row.moderated),
                                 final |-> Or(p.final, row.final),
                                 markedBy |-> Or(p.markedBy, row.markedBy),
                                 moderatedBy |-> Or(p.moderatedBy, row.moderatedBy)]
           /\ Patched(row, p) \in AttemptRow
           /\ p.status \in AttemptStatuses \/ row.status \in AttemptStatuses =>
                 Patched(row, p).status \in AttemptStatuses
<1>1. DOMAIN row = {"status", "raw", "moderated", "final", "markedBy", "moderatedBy"}
  BY DEF AttemptRow, Row
<1>2. Patched(row, p) = [status |-> Or(p.status, row.status), raw |-> Or(p.raw, row.raw),
                         moderated |-> Or(p.moderated, row.moderated),
                         final |-> Or(p.final, row.final),
                         markedBy |-> Or(p.markedBy, row.markedBy),
                         moderatedBy |-> Or(p.moderatedBy, row.moderatedBy)]
  BY <1>1 DEF Patched
<1>3. /\ Or(p.status, row.status) \in AttemptStatuses \cup {Absent, Deleted}
      /\ p.status \in AttemptStatuses \/ row.status \in AttemptStatuses =>
            Or(p.status, row.status) \in AttemptStatuses
  BY DEF Or, AttemptRow, PatchRow, Row
<1>4. /\ Or(p.raw, row.raw) \in MarkOrNone /\ Or(p.moderated, row.moderated) \in MarkOrNone
      /\ Or(p.final, row.final) \in MarkOrNone
  BY DEF Or, AttemptRow, PatchRow, Row
<1>5. /\ Or(p.markedBy, row.markedBy) \in UserOrNone
      /\ Or(p.moderatedBy, row.moderatedBy) \in UserOrNone
  BY DEF Or, AttemptRow, PatchRow, Row
<1>6. QED
  BY <1>2, <1>3, <1>4, <1>5 DEF AttemptRow, Row

\* What update() adds to a patch, column by column.
LEMMA StampedColumns ==
    ASSUME NEW row \in AttemptRow, NEW p \in PatchRow, NEW user \in Users
    PROVE  /\ Stamped(row, p, user) \in PatchRow
           /\ Stamped(row, p, user).status = p.status
           /\ Stamped(row, p, user).moderated = p.moderated
           /\ Stamped(row, p, user).markedBy = IF MovesTo(row, p, "MARKED") THEN user ELSE None
           /\ Stamped(row, p, user).moderatedBy =
                 IF MovesTo(row, p, "MODERATED") THEN Or(p.moderatedBy, user) ELSE p.moderatedBy
           /\ Stamped(row, p, user).final =
                 IF MovesTo(row, p, "CONFIRMED") THEN Ratified(row, p) ELSE p.final
<1>1. Or(p.moderatedBy, user) \in UserOrNone /\ Ratified(row, p) \in MarkOrNone
  BY DEF Or, Ratified, UserOrNone, MarkOrNone, PatchRow, AttemptRow, Row
<1>2. QED
  BY <1>1 DEF Stamped, PatchRow, Row, UserOrNone

\* What each call holds is a patch of an attempt, or nothing.
LEMMA WritingIsAPatch ==
    ASSUME TypeOK, NEW r \in Requests, req[r] # Idle
    PROVE  /\ req[r] \in Writing /\ req[r].att \in Attempts /\ req[r].patch \in PatchRow
           /\ attempt[req[r].att] \in AttemptRow
<1>1. req[r] \in Writing
  BY DEF TypeOK
<1>2. QED
  BY <1>1 DEF TypeOK, Writing, PatchRow, AttemptRow

\* A call that is outdated holds the same patch of the same attempt.
LEMMA OutdatedKeeps ==
    ASSUME TypeOK, NEW others, NEW a \in Attempts
    PROVE  /\ Outdated(a, others) \in [Requests -> {Idle} \cup Writing]
           /\ \A r \in Requests :
                 /\ Outdated(a, others)[r] = Idle <=> req[r] = Idle
                 /\ req[r] # Idle =>
                       /\ Outdated(a, others)[r].att = req[r].att
                       /\ Outdated(a, others)[r].patch = req[r].patch
                       /\ Outdated(a, others)[r].stale <=>
                             req[r].stale \/ (r \in others /\ req[r].att = a)
<1>1. ASSUME NEW r \in Requests, req[r] # Idle
      PROVE  /\ req[r] \in Writing
             /\ [req[r] EXCEPT !.stale = TRUE] \in Writing
             /\ [req[r] EXCEPT !.stale = TRUE] # Idle
             /\ [req[r] EXCEPT !.stale = TRUE].att = req[r].att
             /\ [req[r] EXCEPT !.stale = TRUE].patch = req[r].patch
             /\ [req[r] EXCEPT !.stale = TRUE].stale
  <2>1. req[r] \in Writing
    BY <1>1, WritingIsAPatch
  <2>2. QED
    BY <2>1 DEF Writing, Idle
<1>2. Outdated(a, others) \in [Requests -> {Idle} \cup Writing]
  BY <1>1 DEF Outdated, TypeOK
<1>3. ASSUME NEW r \in Requests
      PROVE  /\ Outdated(a, others)[r] = Idle <=> req[r] = Idle
             /\ req[r] # Idle =>
                   /\ Outdated(a, others)[r].att = req[r].att
                   /\ Outdated(a, others)[r].patch = req[r].patch
                   /\ Outdated(a, others)[r].stale <=>
                         req[r].stale \/ (r \in others /\ req[r].att = a)
  <2>1. CASE r \in others /\ req[r] # Idle /\ req[r].att = a
    BY <1>1, <2>1 DEF Outdated
  <2>2. CASE ~(r \in others /\ req[r] # Idle /\ req[r].att = a)
    BY <2>2 DEF Outdated
  <2>3. QED
    BY <2>1, <2>2
<1>4. QED
  BY <1>2, <1>3
-----------------------------------------------------------------------------
\* The four callers of update() ask for columns of a patch, and only one that
\* moderates names a moderator.
Asks(p) == p \in PatchRow /\ (p.moderatedBy # None => p.status = "MODERATED")

LEMMA CallersAsk ==
    ASSUME NEW r \in Requests, NEW a \in Attempts, NEW user \in Users,
           Patch(r, a, user) \/ ModerateAttempt(r, a, user)
             \/ RatifyAttempt(r, a, user) \/ PropagateAgreedMark(r, a, user)
    PROVE  \E p : Asks(p) /\ Begin(r, a, p, user)
<1> USE DEF Asks, PatchRow, Row, Nothing, MarkOrNone, UserOrNone
<1>1. ASSUME NEW s \in AttemptStatuses, NEW raw \in MarkOrNone, NEW final \in MarkOrNone,
             Begin(r, a, [Nothing EXCEPT !.status = s, !.raw = raw, !.final = final], user)
      PROVE  \E p : Asks(p) /\ Begin(r, a, p, user)
  <2>1. Asks([Nothing EXCEPT !.status = s, !.raw = raw, !.final = final])
    OBVIOUS
  <2>2. QED
    BY <1>1, <2>1
<1>2. ASSUME NEW mark \in Marks, NEW moderator \in UserOrNone,
             Begin(r, a, [Nothing EXCEPT !.status = "MODERATED", !.moderated = mark,
                                         !.moderatedBy = moderator], user)
      PROVE  \E p : Asks(p) /\ Begin(r, a, p, user)
  <2>1. Asks([Nothing EXCEPT !.status = "MODERATED", !.moderated = mark,
                             !.moderatedBy = moderator])
    OBVIOUS
  <2>2. QED
    BY <1>2, <2>1
<1>3. ASSUME NEW final \in MarkOrNone,
             Begin(r, a, [Nothing EXCEPT !.status = "CONFIRMED", !.final = final], user)
      PROVE  \E p : Asks(p) /\ Begin(r, a, p, user)
  <2>1. Asks([Nothing EXCEPT !.status = "CONFIRMED", !.final = final])
    OBVIOUS
  <2>2. QED
    BY <1>3, <2>1
<1>4. ASSUME NEW mark \in Marks, Begin(r, a, [Nothing EXCEPT !.moderated = mark], user)
      PROVE  \E p : Asks(p) /\ Begin(r, a, p, user)
  <2>1. Asks([Nothing EXCEPT !.moderated = mark])
    OBVIOUS
  <2>2. QED
    BY <1>4, <2>1
<1>5. QED
  BY <1>1, <1>2, <1>3, <1>4, ZenonT(40) DEF Patch, ModerateAttempt, RatifyAttempt, PropagateAgreedMark

\* The rows, the patches in flight and the histories keep their type.
THEOREM AttemptTypeCorrect == Spec => []TypeOK
<1>1. Init => TypeOK
  BY DEF Init, TypeOK, Row, Nothing, MarkOrNone, UserOrNone
<1>2. TypeOK /\ [Next]_vars => TypeOK'
  <2> SUFFICES ASSUME TypeOK, [Next]_vars PROVE TypeOK'
    OBVIOUS
  <2>1. ASSUME NEW a \in Attempts, NEW s \in CreateStatuses, NEW raw \in MarkOrNone,
               NEW final \in MarkOrNone, Create(a, s, raw, final)
        PROVE  TypeOK'
    <3>1. [Nothing EXCEPT !.status = s, !.raw = raw, !.final = final] \in AttemptRow
      BY DEF Nothing, AttemptRow, Row, MarkOrNone, UserOrNone
    <3>2. QED
      BY <2>1, <3>1 DEF Create, TypeOK, AttemptRow
  <2>2. ASSUME NEW r \in Requests, NEW a \in Attempts, NEW user \in Users, NEW p,
               Asks(p), Begin(r, a, p, user)
        PROVE  TypeOK'
    <3>1. attempt[a] \in AttemptRow
      BY DEF TypeOK, AttemptRow
    <3>2. Stamped(attempt[a], p, user) \in PatchRow
      BY <2>2, <3>1, StampedColumns DEF Asks
    <3>3. req' \in [Requests -> {Idle} \cup Writing]
      BY <2>2, <3>2, ZenonT(40) DEF Begin, TypeOK, Writing, PatchRow
    <3>4. QED
      BY <2>2, <3>3 DEF Begin, TypeOK
  <2>3. ASSUME NEW r \in Requests, Write(r) PROVE TypeOK'
    <3> DEFINE a == req[r].att
    <3>1. a \in Attempts /\ req[r].patch \in PatchRow /\ attempt[a] \in AttemptRow
      BY <2>3, WritingIsAPatch DEF Write
    <3>2. attempt' \in [Attempts -> AttemptRow]
      BY <2>3, <3>1, PatchedColumns DEF Write, TypeOK, AttemptRow
    <3>3. req' \in [Requests -> {Idle} \cup Writing]
      BY <2>3, <3>1, OutdatedKeeps DEF Write
    <3>4. QED
      BY <2>3, <3>1, <3>2, <3>3 DEF Write, TypeOK, AttemptRow
  <2>4. ASSUME NEW r \in Requests, Abandon(r) PROVE TypeOK'
    BY <2>4 DEF Abandon, TypeOK
  <2>5. ASSUME NEW a \in Attempts, Remove(a) PROVE TypeOK'
    <3>1. [Nothing EXCEPT !.status = Deleted] \in AttemptRow
      BY DEF Nothing, AttemptRow, Row, MarkOrNone, UserOrNone
    <3>2. QED
      BY <2>5, <3>1 DEF Remove, TypeOK, AttemptRow
  <2>6. CASE UNCHANGED vars
    BY <2>6 DEF vars, TypeOK
  <2>7. QED
    BY <2>1, <2>2, <2>3, <2>4, <2>5, <2>6, CallersAsk DEF Next
<1>3. QED
  BY <1>1, <1>2, PTL DEF Spec
-----------------------------------------------------------------------------
(* Why a write cannot lose an outcome or a moderator: the status and the    *)
(* outcome travel in one patch, no write clears a column, and a patch that  *)
(* nothing has outdated would still be accepted by the row it meets.        *)
Accepted(row, patch) ==
    \E p, user : /\ Asks(p) /\ user \in Users
                 /\ Accepts(row, p, user) /\ patch = Stamped(row, p, user)

CarriesOutcome(row, patch) ==
    /\ patch.status = "MODERATED" => Or(patch.moderated, row.moderated) # None
    /\ patch.status = "CONFIRMED" => patch.final # None

RecordsOutcome(row) ==
    /\ row.status = "MODERATED" => row.moderated # None
    /\ row.status = "CONFIRMED" => row.final # None

HasModerator(row) ==
    row.status \in {"MODERATED", "CONFIRMED"} =>
        row.moderatedBy # None /\ row.moderatedBy # row.markedBy

WritesSound ==
    \A r \in Requests :
        LET a == req[r].att
        IN  req[r] # Idle =>
              /\ attempt[a].status # Absent
              /\ attempt[a].status # Deleted =>
                    /\ a \notin backfilled => CarriesOutcome(attempt[a], req[r].patch)
                    /\ ~req[r].stale => Accepted(attempt[a], req[r].patch)

LEMMA AcceptedCarries ==
    ASSUME NEW row \in AttemptRow, row.status \in AttemptStatuses, RecordsOutcome(row),
           NEW p, Asks(p), NEW user \in Users, Accepts(row, p, user)
    PROVE  CarriesOutcome(row, Stamped(row, p, user))
<1>1. p \in PatchRow
  BY DEF Asks
<1>2. ASSUME p.status = "MODERATED" PROVE Or(p.moderated, row.moderated) # None
  BY <1>1, <1>2 DEF Accepts, MovesTo, Moves, RecordsOutcome, Or
<1>3. ASSUME p.status = "CONFIRMED"
      PROVE  MovesTo(row, p, "CONFIRMED") /\ Ratified(row, p) # None
  BY <1>1, <1>3 DEF Accepts, MovesTo, Moves
<1>4. QED
  BY <1>1, <1>2, <1>3, StampedColumns DEF CarriesOutcome

\* A later write of other columns does not take an outcome away ...
LEMMA PatchedCarries ==
    ASSUME NEW row \in AttemptRow, NEW p \in PatchRow, NEW q \in PatchRow,
           CarriesOutcome(row, p)
    PROVE  CarriesOutcome(Patched(row, q), p)
  BY PatchedColumns DEF CarriesOutcome, Or

\* ... and the write of the patch records it.
LEMMA PatchedRecords ==
    ASSUME NEW row \in AttemptRow, NEW p \in PatchRow, RecordsOutcome(row), CarriesOutcome(row, p)
    PROVE  RecordsOutcome(Patched(row, p))
<1>1. CASE p.status = None
  BY <1>1, PatchedColumns DEF RecordsOutcome, Or
<1>2. CASE p.status # None
  BY <1>2, PatchedColumns DEF RecordsOutcome, CarriesOutcome, Or
<1>3. QED
  BY <1>1, <1>2

LEMMA AcceptedModerator ==
    ASSUME NEW row \in AttemptRow, row.status \in AttemptStatuses, HasModerator(row),
           NEW p, Asks(p), NEW user \in Users, Accepts(row, p, user)
    PROVE  HasModerator(Patched(row, Stamped(row, p, user)))
<1> DEFINE new == Patched(row, Stamped(row, p, user))
<1>1. p \in PatchRow /\ p.status \in AttemptStatuses \cup {None}
  BY DEF Asks, PatchRow, Row
<1>2. /\ new.status = Or(p.status, row.status)
      /\ new.markedBy = Or(IF MovesTo(row, p, "MARKED") THEN user ELSE None, row.markedBy)
      /\ new.moderatedBy =
            Or(IF MovesTo(row, p, "MODERATED") THEN Or(p.moderatedBy, user) ELSE p.moderatedBy,
               row.moderatedBy)
  BY <1>1, StampedColumns, PatchedColumns
<1>3. CASE MovesTo(row, p, "MODERATED")
  <2>1. Or(p.moderatedBy, user) # None /\ Independent(row, Or(p.moderatedBy, user))
    BY <1>1, <1>3 DEF Accepts, Or
  <2>2. new.moderatedBy = Or(p.moderatedBy, user) /\ new.markedBy = row.markedBy
    BY <1>2, <1>3, <2>1 DEF MovesTo, Or
  <2>3. QED
    BY <2>1, <2>2 DEF Independent, HasModerator
<1>4. CASE MovesTo(row, p, "CONFIRMED")
  <2>1. row.status = "MODERATED" /\ p.moderatedBy = None
    BY <1>1, <1>4 DEF Accepts, MovesTo, Asks
  <2>2. new.moderatedBy = row.moderatedBy /\ new.markedBy = row.markedBy
    BY <1>2, <1>4, <2>1 DEF MovesTo, Or
  <2>3. QED
    BY <2>1, <2>2 DEF HasModerator
<1>5. CASE ~Moves(row, p)
  <2>1. new.status = row.status /\ new.markedBy = row.markedBy
    BY <1>2, <1>5 DEF Moves, MovesTo, Or
  <2>2. CASE p.moderatedBy = None
    BY <1>2, <1>5, <2>1, <2>2 DEF MovesTo, Or, HasModerator
  <2>3. CASE p.moderatedBy # None
    <3>1. Independent(row, p.moderatedBy) /\ new.moderatedBy = p.moderatedBy
      BY <1>2, <1>5, <2>3 DEF Accepts, MovesTo, Or
    <3>2. QED
      BY <2>1, <2>3, <3>1 DEF Independent, HasModerator
  <2>4. QED
    BY <2>2, <2>3
<1>6. CASE Moves(row, p) /\ p.status \notin {"MODERATED", "CONFIRMED"}
  BY <1>2, <1>6 DEF Moves, Or, HasModerator
<1>7. QED
  BY <1>3, <1>4, <1>5, <1>6 DEF MovesTo

AttemptIInv == OutcomeRecorded /\ ModeratorIsIndependent /\ WritesSound

LEMMA AttemptInvariantHolds == Spec => [](TypeOK /\ AttemptIInv)
<1>1. Init => AttemptIInv
  BY DEF Init, AttemptIInv, OutcomeRecorded, ModeratorIsIndependent, WritesSound, Nothing
<1>2. TypeOK /\ TypeOK' /\ AttemptIInv /\ [Next]_vars => AttemptIInv'
  <2> SUFFICES ASSUME TypeOK, TypeOK', AttemptIInv, [Next]_vars PROVE AttemptIInv'
    OBVIOUS
  <2> USE DEF AttemptIInv
  <2>1. ASSUME NEW a \in Attempts, NEW s \in CreateStatuses, NEW raw \in MarkOrNone,
               NEW final \in MarkOrNone, Create(a, s, raw, final)
        PROVE  AttemptIInv'
    <3>1. /\ attempt[a].status = Absent /\ attempt'[a].status = s
          /\ \A b \in Attempts \ {a} : attempt'[b] = attempt[b]
          /\ s \in {"MODERATED", "CONFIRMED"} => a \in backfilled'
          /\ backfilled \subseteq backfilled' /\ UNCHANGED <<req, raced>>
      BY <2>1 DEF Create, Nothing, TypeOK
    <3>2. OutcomeRecorded' /\ ModeratorIsIndependent'
      BY <3>1 DEF OutcomeRecorded, ModeratorIsIndependent
    <3>3. ASSUME NEW r \in Requests, req[r] # Idle
          PROVE  attempt'[req[r].att] = attempt[req[r].att]
      BY <3>1, <3>3, WritingIsAPatch DEF WritesSound
    <3>4. WritesSound'
      BY <3>1, <3>3 DEF WritesSound
    <3>5. QED
      BY <3>2, <3>4
  <2>2. ASSUME NEW q \in Requests, NEW a \in Attempts, NEW user \in Users, NEW p,
               Asks(p), Begin(q, a, p, user)
        PROVE  AttemptIInv'
    <3>1. /\ req'[q] # Idle /\ req'[q].att = a /\ req'[q].patch = Stamped(attempt[a], p, user)
          /\ \A r \in Requests \ {q} : req'[r] = req[r]
          /\ UNCHANGED <<attempt, raced, backfilled>>
          /\ attempt[a].status \in AttemptStatuses /\ Accepts(attempt[a], p, user)
      BY <2>2 DEF Begin, TypeOK, Idle
    <3>2. OutcomeRecorded' /\ ModeratorIsIndependent'
      BY <3>1 DEF OutcomeRecorded, ModeratorIsIndependent
    <3>3. a \notin backfilled => CarriesOutcome(attempt[a], req'[q].patch)
      <4>1. attempt[a] \in AttemptRow
        BY DEF TypeOK, AttemptRow
      <4>2. a \notin backfilled => RecordsOutcome(attempt[a])
        BY DEF OutcomeRecorded, RecordsOutcome
      <4>3. QED
        BY <2>2, <3>1, <4>1, <4>2, AcceptedCarries
    <3>4. Accepted(attempt[a], req'[q].patch)
      BY <2>2, <3>1 DEF Accepted
    <3>5. WritesSound'
      BY <3>1, <3>3, <3>4 DEF WritesSound
    <3>6. QED
      BY <3>2, <3>5
  <2>3. ASSUME NEW q \in Requests, Write(q) PROVE AttemptIInv'
    <3> DEFINE a == req[q].att
               patch == req[q].patch
    <3>1. /\ a \in Attempts /\ patch \in PatchRow /\ attempt[a] \in AttemptRow
          /\ req[q] # Idle /\ attempt[a].status \in AttemptStatuses
      BY <2>3, WritingIsAPatch DEF Write, WritesSound, AttemptRow, Row
    <3>2. /\ attempt'[a] = Patched(attempt[a], patch)
          /\ \A b \in Attempts \ {a} : attempt'[b] = attempt[b]
          /\ raced' = IF req[q].stale THEN raced \cup {a} ELSE raced
          /\ backfilled' = backfilled
          /\ req' = [Outdated(a, Requests \ {q}) EXCEPT ![q] = Idle]
      BY <2>3, <3>1 DEF Write, TypeOK
    <3>3. a \notin backfilled => RecordsOutcome(attempt[a]) /\ CarriesOutcome(attempt[a], patch)
      BY <3>1 DEF OutcomeRecorded, RecordsOutcome, WritesSound
    <3>4. OutcomeRecorded'
      <4>1. a \notin backfilled => RecordsOutcome(attempt'[a])
        BY <3>1, <3>2, <3>3, PatchedRecords
      <4>2. QED
        BY <3>2, <4>1 DEF OutcomeRecorded, RecordsOutcome
    <3>5. ModeratorIsIndependent'
      <4>1. ASSUME a \notin backfilled, a \notin raced' PROVE HasModerator(attempt'[a])
        <5>1. ~req[q].stale /\ a \notin raced
          BY <3>2, <4>1
        <5>2. HasModerator(attempt[a])
          BY <3>1, <4>1, <5>1 DEF ModeratorIsIndependent, HasModerator
        <5>3. PICK p, user : /\ Asks(p) /\ user \in Users
                             /\ Accepts(attempt[a], p, user) /\ patch = Stamped(attempt[a], p, user)
          BY <3>1, <5>1 DEF WritesSound, Accepted
        <5>4. QED
          BY <3>1, <3>2, <5>2, <5>3, AcceptedModerator
      <4>2. QED
        BY <3>2, <4>1 DEF ModeratorIsIndependent, HasModerator
    <3>6. ASSUME NEW r \in Requests, req'[r] # Idle
          PROVE  /\ r # q /\ req[r] # Idle
                 /\ req'[r].att = req[r].att /\ req'[r].patch = req[r].patch
                 /\ (req'[r].stale <=> req[r].stale \/ req[r].att = a)
      <4>1. r # q /\ req'[r] = Outdated(a, Requests \ {q})[r]
        BY <3>1, <3>2, <3>6, OutdatedKeeps
      <4>2. QED
        BY <3>1, <3>6, <4>1, OutdatedKeeps
    <3>7. WritesSound'
      <4> SUFFICES ASSUME NEW r \in Requests, req'[r] # Idle
                   PROVE  LET b == req'[r].att
                          IN  /\ attempt'[b].status # Absent
                              /\ attempt'[b].status # Deleted =>
                                    /\ b \notin backfilled' =>
                                          CarriesOutcome(attempt'[b], req'[r].patch)
                                    /\ ~req'[r].stale => Accepted(attempt'[b], req'[r].patch)
        BY DEF WritesSound
      <4>1. req[r].att \in Attempts /\ req[r].patch \in PatchRow
        BY <3>6, WritingIsAPatch
      <4>2. CASE req[r].att # a
        <5>1. /\ attempt'[req'[r].att] = attempt[req[r].att] /\ req'[r].patch = req[r].patch
              /\ req'[r].att = req[r].att /\ backfilled' = backfilled
              /\ (~req'[r].stale => ~req[r].stale)
          BY <3>2, <3>6, <4>1, <4>2
        <5>2. /\ attempt[req[r].att].status # Absent
              /\ attempt[req[r].att].status # Deleted =>
                    /\ req[r].att \notin backfilled =>
                          CarriesOutcome(attempt[req[r].att], req[r].patch)
                    /\ ~req[r].stale => Accepted(attempt[req[r].att], req[r].patch)
          BY <3>6 DEF WritesSound
        <5>3. QED
          BY <5>1, <5>2
      <4>3. CASE req[r].att = a
        <5>1. attempt'[a].status \in AttemptStatuses
          BY <3>1, <3>2, PatchedColumns
        <5>2. a \notin backfilled => CarriesOutcome(attempt[a], req[r].patch)
          BY <3>1, <3>6, <4>3 DEF WritesSound
        <5>3. a \notin backfilled => CarriesOutcome(attempt'[a], req[r].patch)
          BY <3>1, <3>2, <4>1, <5>2, PatchedCarries
        <5>4. QED
          BY <3>2, <3>6, <4>3, <5>1, <5>3
      <4>4. QED
        BY <4>2, <4>3
    <3>8. QED
      BY <3>4, <3>5, <3>7
  <2>4. ASSUME NEW q \in Requests, Abandon(q) PROVE AttemptIInv'
    <3>1. OutcomeRecorded' /\ ModeratorIsIndependent'
      BY <2>4 DEF Abandon, OutcomeRecorded, ModeratorIsIndependent
    <3>2. \A r \in Requests : req'[r] # Idle => req'[r] = req[r]
      BY <2>4 DEF Abandon, TypeOK
    <3>3. WritesSound'
      BY <2>4, <3>2 DEF Abandon, WritesSound
    <3>4. QED
      BY <3>1, <3>3
  <2>5. ASSUME NEW a \in Attempts, Remove(a) PROVE AttemptIInv'
    <3>1. /\ attempt'[a].status = Deleted
          /\ \A b \in Attempts \ {a} : attempt'[b] = attempt[b] /\ (b \in raced' <=> b \in raced)
          /\ UNCHANGED <<req, backfilled>>
      BY <2>5 DEF Remove, Nothing, TypeOK
    <3>2. OutcomeRecorded' /\ ModeratorIsIndependent'
      BY <3>1 DEF OutcomeRecorded, ModeratorIsIndependent
    <3>3. WritesSound'
      BY <3>1, WritingIsAPatch DEF WritesSound
    <3>4. QED
      BY <3>2, <3>3
  <2>6. CASE UNCHANGED vars
    BY <2>6 DEF vars, OutcomeRecorded, ModeratorIsIndependent, WritesSound
  <2>7. QED
    BY <2>1, <2>2, <2>3, <2>4, <2>5, <2>6, CallersAsk DEF Next
<1>3. QED
  BY <1>1, <1>2, AttemptTypeCorrect, PTL DEF Spec

\* A moderated attempt has a moderated mark and a ratified one a final mark,
\* unless it was created that way, over any cycle of referrals and racing updates.
THEOREM OutcomeRecordedHolds == Spec => []OutcomeRecorded
<1>1. AttemptIInv => OutcomeRecorded
  BY DEF AttemptIInv
<1>2. QED
  BY <1>1, AttemptInvariantHolds, PTL

\* The moderator of a moderated or ratified attempt is not its marker, unless a
\* racing write hit the attempt or it was created that way.
THEOREM ModeratorIsIndependentHolds == Spec => []ModeratorIsIndependent
<1>1. AttemptIInv => ModeratorIsIndependent
  BY DEF AttemptIInv
<1>2. QED
  BY <1>1, AttemptInvariantHolds, PTL
-----------------------------------------------------------------------------
\* Each step of the service is a step of AttemptOutcomes or a stutter.
LEMMA AttemptStepRefines ==
    ASSUME TypeOK, TypeOK', AttemptIInv, [Next]_vars
    PROVE  [Outcomes!OutcomesNext]_(Outcomes!outcomeVars)
<1> USE DEF Outcomes!outcomeVars, Outcomes!Unsettled, Outcomes!Confirmed, Outcomes!NoRow,
            Outcomes!Gone, OutcomeOf
<1> DEFINE out == [b \in Attempts |-> OutcomeOf(attempt[b])]
<1>1. ASSUME NEW a \in Attempts, NEW s \in CreateStatuses, NEW raw \in MarkOrNone,
             NEW final \in MarkOrNone, Create(a, s, raw, final)
      PROVE  Outcomes!OutcomesNext
  <2>1. out' = [out EXCEPT ![a] = IF s = "CONFIRMED" THEN "CONFIRMED" ELSE "UNSETTLED"]
    BY <1>1 DEF Create, Nothing, TypeOK
  <2>2. out[a] = Absent /\ raced' = raced
    BY <1>1 DEF Create
  <2>3. \E o \in {"UNSETTLED", "CONFIRMED"} : Outcomes!Open(a, o)
    BY <2>1, <2>2 DEF Outcomes!Open
  <2>4. QED
    BY <2>3 DEF Outcomes!OutcomesNext
<1>2. ASSUME NEW q \in Requests, Write(q)
      PROVE  Outcomes!OutcomesNext \/ UNCHANGED Outcomes!outcomeVars
  <2> DEFINE a == req[q].att
             patch == req[q].patch
  <2>1. /\ a \in Attempts /\ patch \in PatchRow /\ attempt[a] \in AttemptRow
        /\ req[q] # Idle /\ attempt[a].status \in AttemptStatuses
    BY <1>2, WritingIsAPatch DEF Write, AttemptIInv, WritesSound, AttemptRow, Row
  <2>2. /\ attempt' = [attempt EXCEPT ![a] = Patched(@, patch)]
        /\ raced' = IF req[q].stale THEN raced \cup {a} ELSE raced
    BY <1>2 DEF Write
  <2>3. /\ Patched(attempt[a], patch).status = Or(patch.status, attempt[a].status)
        /\ Patched(attempt[a], patch).status \in AttemptStatuses
    BY <2>1, PatchedColumns
  <2>4. /\ out[a] \in {"UNSETTLED", "CONFIRMED"}
        /\ OutcomeOf(Patched(attempt[a], patch)) \in {"UNSETTLED", "CONFIRMED"}
        /\ out' = [out EXCEPT ![a] = OutcomeOf(Patched(attempt[a], patch))]
    BY <2>1, <2>2, <2>3 DEF TypeOK
  <2>5. CASE req[q].stale
    <3>1. \E o \in {"UNSETTLED", "CONFIRMED"} : Outcomes!Race(a, o)
      BY <2>1, <2>2, <2>4, <2>5 DEF Outcomes!Race, Outcomes!Existing
    <3>2. Outcomes!OutcomesNext
      BY <2>1, <3>1 DEF Outcomes!OutcomesNext
    <3>3. QED
      BY <3>2
  <2>6. CASE ~req[q].stale
    <3>1. PICK p, user : /\ Asks(p) /\ user \in Users
                         /\ Accepts(attempt[a], p, user) /\ patch = Stamped(attempt[a], p, user)
      BY <2>1, <2>6 DEF AttemptIInv, WritesSound, Accepted
    <3>2. patch.status = p.status /\ p.status \in AttemptStatuses \cup {None}
      BY <2>1, <3>1, StampedColumns DEF Asks, PatchRow, Row
    <3>3. CASE attempt[a].status = "CONFIRMED"
      <4>1. Patched(attempt[a], patch).status = "CONFIRMED"
        BY <2>3, <3>1, <3>2, <3>3 DEF Accepts, Moves, Or
      <4>2. out' = out
        BY <2>1, <2>4, <3>3, <4>1
      <4>3. QED
        BY <2>2, <2>6, <4>2
    <3>4. CASE attempt[a].status # "CONFIRMED" /\ Patched(attempt[a], patch).status = "CONFIRMED"
      <4>1. out[a] = "UNSETTLED" /\ out' = [out EXCEPT ![a] = "CONFIRMED"] /\ raced' = raced
        BY <2>1, <2>2, <2>4, <2>6, <3>4
      <4>2. \E b \in Attempts : Outcomes!Confirm(b)
        BY <2>1, <4>1 DEF Outcomes!Confirm
      <4>3. Outcomes!OutcomesNext
        BY <4>2 DEF Outcomes!OutcomesNext
      <4>4. QED
        BY <4>3
    <3>5. CASE attempt[a].status # "CONFIRMED" /\ Patched(attempt[a], patch).status # "CONFIRMED"
      <4>1. out' = out
        BY <2>1, <2>3, <2>4, <3>5
      <4>2. QED
        BY <2>2, <2>6, <4>1
    <3>6. QED
      BY <3>3, <3>4, <3>5
  <2>7. QED
    BY <2>5, <2>6
<1>3. ASSUME NEW a \in Attempts, Remove(a) PROVE Outcomes!OutcomesNext
  <2>1. out' = [out EXCEPT ![a] = Deleted] /\ raced' = raced \ {a}
    BY <1>3 DEF Remove, Nothing, TypeOK
  <2>2. out[a] \in {"UNSETTLED", "CONFIRMED"}
    BY <1>3 DEF Remove
  <2>3. Outcomes!Withdraw(a)
    BY <2>1, <2>2 DEF Outcomes!Withdraw, Outcomes!Existing
  <2>4. QED
    BY <2>3 DEF Outcomes!OutcomesNext
<1>4. ASSUME UNCHANGED <<attempt, raced>> PROVE UNCHANGED Outcomes!outcomeVars
  BY <1>4
<1>5. QED
  BY <1>1, <1>2, <1>3, <1>4, CallersAsk DEF Next, vars, Begin, Abandon

\* CONFIRMED is terminal: the marks service implements AttemptOutcomes, which is
\* what module results rely on.
THEOREM ConfirmedIsTerminalHolds == Spec => ConfirmedIsTerminal
<1>1. Init => Outcomes!OutcomesInit
  BY DEF Init, Outcomes!OutcomesInit, Outcomes!NoRow, OutcomeOf, Nothing
<1>2. TypeOK /\ TypeOK' /\ AttemptIInv /\ [Next]_vars
        => [Outcomes!OutcomesNext]_(Outcomes!outcomeVars)
  BY AttemptStepRefines
<1>3. QED
  BY <1>1, <1>2, AttemptInvariantHolds, PTL DEF Spec, ConfirmedIsTerminal, Outcomes!OutcomesSpec
=============================================================================
