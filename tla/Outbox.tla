------------------------------- MODULE Outbox -------------------------------
(***************************************************************************)
(* The transactional outbox: rows committed with a business change         *)
(* (utils/outbox.ts), drained by overlapping ticks of one or more worker   *)
(* processes (workers/outbox.worker.ts) and posted to the webhook          *)
(* (utils/outbox-dispatch.ts).                                             *)
(*                                                                         *)
(* Time is kept only as the order in which rows fall due: a row falls due  *)
(* at its available_at, so "ORDER BY available_at" over the due rows is    *)
(* the order in which they fell due, the sequence ready.                   *)
(***************************************************************************)
EXTENDS Naturals, Sequences

CONSTANTS
    Events,
    Drains,       \* drainOutboxBatch calls that may overlap (setInterval does not wait)
    Processes,    \* the worker processes, each the set of drains it runs
    BatchSize,    \* OUTBOX_BATCH_SIZE
    MaxAttempts   \* OUTBOX_MAX_ATTEMPTS

NoEvent == "none"

ASSUME OutboxAssumption ==
    /\ NoEvent \notin Events
    /\ BatchSize \in Nat \ {0} /\ MaxAttempts \in Nat \ {0}
    /\ Processes \subseteq SUBSET Drains

VARIABLES
    status, attempts,   \* the outbox_events rows
    ready,              \* the due PENDING rows, by available_at
    received,           \* how often the webhook has accepted the event
    claimed,            \* per drain: the rows of its batch still to be handled
    snapshot,           \* per drain: the attempts of its rows as it read them
    current, phase      \* per drain: the row in hand and how far it has got

rowVars   == <<status, attempts, ready>>
drainVars == <<claimed, snapshot, current, phase>>
vars == <<rowVars, received, drainVars>>

Absent  == "ABSENT"
Settled == {"DELIVERED", "FAILED"}
Phases  == {"idle", "draining", "posting", "accepted", "refused"}

TypeOK ==
    /\ status \in [Events -> {Absent, "PENDING", "IN_FLIGHT"} \cup Settled]
    /\ attempts \in [Events -> 0..MaxAttempts]
    /\ ready \in Seq(Events)
    /\ received \in [Events -> Nat]
    /\ claimed \in [Drains -> SUBSET Events]
    /\ snapshot \in [Drains -> [Events -> 0..MaxAttempts]]
    /\ current \in [Drains -> Events \cup {NoEvent}]
    /\ phase \in [Drains -> Phases]

Holds(d, e) == e \in claimed[d] \/ e = current[d]
-----------------------------------------------------------------------------
Init ==
    /\ status = [e \in Events |-> Absent]
    /\ attempts = [e \in Events |-> 0]
    /\ ready = <<>>
    /\ received = [e \in Events |-> 0]
    /\ claimed = [d \in Drains |-> {}]
    /\ snapshot = [d \in Drains |-> [e \in Events |-> 0]]
    /\ current = [d \in Drains |-> NoEvent]
    /\ phase = [d \in Drains |-> "idle"]

\* emitOutboxEvent: a PENDING row in the caller's transaction, due now unless the
\* caller gives a later availableAt
EmitOutboxEvent(e, now) ==
    /\ status[e] = Absent
    /\ status' = [status EXCEPT ![e] = "PENDING"]
    /\ ready' = IF now THEN Append(ready, e) ELSE ready
    /\ UNCHANGED <<attempts, received, drainVars>>

\* regression: rows of any status are selected again
FallDueAnyStatus(e) ==
    /\ status[e] # Absent
    /\ \A i \in DOMAIN ready : ready[i] # e
    /\ ready' = Append(ready, e)
    /\ UNCHANGED <<status, attempts, received, drainVars>>

\* the backoff of a row is over: available_at <= now
FallDue(e) ==
    /\ status[e] = "PENDING"
    /\ \A i \in DOMAIN ready : ready[i] # e
    /\ ready' = Append(ready, e)
    /\ UNCHANGED <<status, attempts, received, drainVars>>

\* the head of the due rows, LIMIT BatchSize; rows another claim has locked are
\* skipped, and IN_FLIGHT once it commits
BatchLength == IF Len(ready) < BatchSize THEN Len(ready) ELSE BatchSize
Batch == {ready[i] : i \in 1..BatchLength}

\* regressions: the rows are not marked IN_FLIGHT; a drain waits for a full batch
ClaimUnmarked(d) ==
    /\ phase[d] = "idle" /\ ready # <<>>
    /\ claimed' = [claimed EXCEPT ![d] = Batch]
    /\ snapshot' = [snapshot EXCEPT ![d] = attempts]
    /\ phase' = [phase EXCEPT ![d] = "draining"]
    /\ UNCHANGED <<rowVars, received, current>>
ClaimFullBatch(d) ==
    /\ phase[d] = "idle" /\ Len(ready) >= BatchSize
    /\ status' = [e \in Events |-> IF e \in Batch THEN "IN_FLIGHT" ELSE status[e]]
    /\ ready' = SubSeq(ready, BatchLength + 1, Len(ready))
    /\ claimed' = [claimed EXCEPT ![d] = Batch]
    /\ snapshot' = [snapshot EXCEPT ![d] = attempts]
    /\ phase' = [phase EXCEPT ![d] = "draining"]
    /\ UNCHANGED <<attempts, received, current>>

\* the claim transaction: select, mark IN_FLIGHT, read back
Claim(d) ==
    /\ phase[d] = "idle" /\ ready # <<>>
    /\ status' = [e \in Events |-> IF e \in Batch THEN "IN_FLIGHT" ELSE status[e]]
    /\ ready' = SubSeq(ready, BatchLength + 1, Len(ready))
    /\ claimed' = [claimed EXCEPT ![d] = Batch]
    /\ snapshot' = [snapshot EXCEPT ![d] = [e \in Events |-> IF e \in Batch THEN attempts[e] ELSE 0]]
    /\ phase' = [phase EXCEPT ![d] = "draining"]
    /\ UNCHANGED <<attempts, received, current>>

\* the loop takes its next row and starts dispatchOutboxRow
Post(d, e) ==
    /\ phase[d] = "draining" /\ e \in claimed[d]
    /\ claimed' = [claimed EXCEPT ![d] = @ \ {e}]
    /\ current' = [current EXCEPT ![d] = e]
    /\ phase' = [phase EXCEPT ![d] = "posting"]
    /\ UNCHANGED <<rowVars, received, snapshot>>

\* the webhook takes the event; the answer is a 2xx in time (accepted), or lost,
\* late or an error status, which dispatchOutboxRow throws (refused)
Answers == {"accepted", "refused"}

WebhookAccepts(d, answer) ==
    /\ phase[d] = "posting"
    /\ received' = [received EXCEPT ![current[d]] = @ + 1]
    /\ phase' = [phase EXCEPT ![d] = answer]
    /\ UNCHANGED <<rowVars, claimed, snapshot, current>>

\* regression: fetch does not throw on an error status, and nobody looks at res.ok
RefusalIgnored(d) ==
    /\ phase[d] = "posting"
    /\ phase' = [phase EXCEPT ![d] = "accepted"]
    /\ UNCHANGED <<rowVars, received, claimed, snapshot, current>>

\* the request or the webhook fails: dispatchOutboxRow throws
WebhookRefuses(d) ==
    /\ phase[d] = "posting"
    /\ phase' = [phase EXCEPT ![d] = "refused"]
    /\ UNCHANGED <<rowVars, received, claimed, snapshot, current>>

RowDone(d) ==
    /\ current' = [current EXCEPT ![d] = NoEvent]
    /\ snapshot' = [snapshot EXCEPT ![d] = [@ EXCEPT ![current[d]] = 0]]
    /\ phase' = [phase EXCEPT ![d] = "draining"]
    /\ UNCHANGED claimed

\* dispatched: DELIVERED
RecordDelivery(d) ==
    /\ phase[d] = "accepted"
    /\ status' = [status EXCEPT ![current[d]] = "DELIVERED"]
    /\ RowDone(d)
    /\ UNCHANGED <<attempts, ready, received>>

\* the update to DELIVERED throws inside the same try: handled as a failed dispatch
DeliveryNotRecorded(d) ==
    /\ phase[d] = "accepted"
    /\ phase' = [phase EXCEPT ![d] = "refused"]
    /\ UNCHANGED <<rowVars, received, claimed, snapshot, current>>

IsTerminalLate(tries) == tries > MaxAttempts   \* regression: one try too many
IsTerminal(tries) == tries >= MaxAttempts

\* the catch: one more attempt, then FAILED or PENDING until the backoff is over
RecordFailure(d) ==
    LET tries == snapshot[d][current[d]] + 1
    IN  /\ phase[d] = "refused"
        /\ attempts' = [attempts EXCEPT ![current[d]] = tries]
        /\ status' = [status EXCEPT ![current[d]] =
                         IF IsTerminal(tries) THEN "FAILED" ELSE "PENDING"]
        /\ RowDone(d)
        /\ UNCHANGED <<ready, received>>

Stop(D) ==
    /\ claimed' = [d \in Drains |-> IF d \in D THEN {} ELSE claimed[d]]
    /\ current' = [d \in Drains |-> IF d \in D THEN NoEvent ELSE current[d]]
    /\ snapshot' = [d \in Drains |-> IF d \in D THEN [e \in Events |-> 0] ELSE snapshot[d]]
    /\ phase' = [d \in Drains |-> IF d \in D THEN "idle" ELSE phase[d]]
    /\ UNCHANGED <<rowVars, received>>

\* the update in the catch throws: the whole drain ends with its rows IN_FLIGHT
FailureNotRecorded(d) == phase[d] = "refused" /\ Stop({d})

\* the batch is done
FinishDrain(d) == phase[d] = "draining" /\ claimed[d] = {} /\ Stop({d})

\* a worker process dies, or exits on SIGTERM: closeAllWorkers does not wait for
\* a drain that the interval started
Crash(process) == (\E d \in process : phase[d] # "idle") /\ Stop(process)

Drain(d) ==
    \/ Claim(d)
    \/ \E e \in Events : Post(d, e)
    \/ \E answer \in Answers : WebhookAccepts(d, answer)
    \/ WebhookRefuses(d)
    \/ RecordDelivery(d) \/ DeliveryNotRecorded(d)
    \/ RecordFailure(d) \/ FailureNotRecorded(d)
    \/ FinishDrain(d)

Next ==
    \/ \E e \in Events, now \in BOOLEAN : EmitOutboxEvent(e, now)
    \/ \E e \in Events : FallDue(e)
    \/ \E d \in Drains : Drain(d)
    \/ \E process \in Processes : Crash(process)

Spec == Init /\ [][Next]_vars

\* A running process keeps ticking and its drains keep running (every await is
\* bounded by the request timeout), a restarted one ticks again, time passes.
\* Nothing makes a business transaction emit, a request succeed or a fault happen.
Fairness ==
    /\ \A d \in Drains : WF_vars(Drain(d))
    /\ \A e \in Events : WF_vars(FallDue(e))

FairSpec == Spec /\ Fairness
-----------------------------------------------------------------------------
\* FOR UPDATE SKIP LOCKED and the IN_FLIGHT mark: a row is in one drain's hands
\* at a time, and nobody has it in hand unless it is IN_FLIGHT, through any
\* overlap of ticks, processes, crashes and retries.
ExclusiveClaim ==
    \A d \in Drains, e \in Events : Holds(d, e) =>
        /\ status[e] = "IN_FLIGHT"
        /\ \A other \in Drains : Holds(other, e) => other = d
        /\ e \notin claimed[d] \/ e # current[d]

\* A row says DELIVERED only of an event the webhook has accepted.
DeliveredWasReceived == \A e \in Events : status[e] = "DELIVERED" => received[e] > 0

\* At-least-once has a bound: retries after lost answers, unrecorded deliveries
\* and crashes never post an event more than MaxAttempts times.
CopiesBounded == \A e \in Events : received[e] <= MaxAttempts

\* A settled row is never claimed, retried or relabelled, by any drain that read
\* it earlier.
SettledIsFinal ==
    [][\A e \in Events : status[e] \in Settled =>
          status'[e] = status[e] /\ attempts'[e] = attempts[e] /\ received'[e] = received[e]]_vars

\* The row was claimed by a drain that is gone.
Orphaned(e) == status[e] = "IN_FLIGHT" /\ \A d \in Drains : ~Holds(d, e)

\* Backlog drains: every row is settled in the end, however many rows compete
\* for the batches, unless a fault takes the drain that holds it.
BacklogDrains ==
    \A e \in Events : status[e] = "PENDING" ~> status[e] \in Settled \/ Orphaned(e)

\* utils/outbox.ts:28: an event in the outbox survives every kind of process
\* restart: it is delivered, or FAILED for a person to look at.
SurvivesRestart == \A e \in Events : status[e] = "PENDING" ~> status[e] \in Settled
=============================================================================
