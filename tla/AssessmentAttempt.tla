-------------------------- MODULE AssessmentAttempt --------------------------
(***************************************************************************)
(* Assessment attempts under api/marks/marks.service.ts: create, update    *)
(* and remove, and the callers of update: PATCH, moderateAttempt,          *)
(* ratifyAttempt and the mark that second-marking.service.ts propagates.   *)
(*                                                                         *)
(* update() reads the row, checks and completes the patch against what it  *)
(* read, and writes the patch by the row's id: the columns it does not     *)
(* supply keep the value they have by then.  Another request may run in    *)
(* between.  No caller can clear a column, so None in a patch is a column  *)
(* that it does not supply.  Marks are opaque; bounds and grades left out. *)
(***************************************************************************)
CONSTANTS
    Attempts, Users, Marks,
    Requests,            \* calls of update() that may be in flight at once
    CreateStatuses,      \* the statuses attempts are created with
    None                 \* a column that is null, or that a patch leaves out

Absent  == "ABSENT"      \* the row does not exist yet
Deleted == "DELETED"     \* soft-deleted: no read returns it any more

Transitions ==
    [PENDING   |-> {"SUBMITTED", "DEFERRED"},
     SUBMITTED |-> {"MARKED", "DEFERRED"},
     MARKED    |-> {"MODERATED", "DEFERRED"},
     MODERATED |-> {"CONFIRMED", "REFERRED", "DEFERRED"},
     CONFIRMED |-> {},
     REFERRED  |-> {"SUBMITTED"},
     DEFERRED  |-> {"SUBMITTED"}]

AttemptStatuses == DOMAIN Transitions

ASSUME AttemptAssumption ==
    /\ None \notin Users \cup Marks \cup AttemptStatuses
    /\ CreateStatuses \subseteq AttemptStatuses

VARIABLES
    attempt,     \* the AssessmentAttempt rows
    req,         \* the patch each call is about to write
    raced,       \* history: attempts some write of which went by an outdated read
    backfilled   \* history: attempts created with an outcome already

vars == <<attempt, req, raced, backfilled>>

MarkOrNone == Marks \cup {None}
UserOrNone == Users \cup {None}
Row(statuses) == [status : statuses, raw : MarkOrNone, moderated : MarkOrNone,
                  final : MarkOrNone, markedBy : UserOrNone, moderatedBy : UserOrNone]
Idle == [op |-> "idle"]
Writing == [op : {"writing"}, att : Attempts,
            patch : Row(AttemptStatuses \cup {None}), stale : BOOLEAN]

TypeOK ==
    /\ attempt \in [Attempts -> Row(AttemptStatuses \cup {Absent, Deleted})]
    /\ req \in [Requests -> {Idle} \cup Writing]
    /\ raced \subseteq Attempts /\ backfilled \subseteq Attempts

Nothing == [status |-> None, raw |-> None, moderated |-> None,
            final |-> None, markedBy |-> None, moderatedBy |-> None]

Init ==
    /\ attempt = [a \in Attempts |-> [Nothing EXCEPT !.status = Absent]]
    /\ req = [r \in Requests |-> Idle]
    /\ raced = {} /\ backfilled = {}
-----------------------------------------------------------------------------
Or(new, old) == IF new = None THEN old ELSE new

Moves(row, p) == p.status # None /\ p.status # row.status
MovesTo(row, p, s) == Moves(row, p) /\ p.status = s

\* resolveRatifiedFinalMark: the first of these that there is
Ratified(row, p) ==
    Or(p.final, Or(row.final,
        Or(Or(p.moderated, row.moderated), Or(p.raw, row.raw))))

\* assertModeratorIsIndependent; a row nobody is stamped on has no marker
Independent(row, moderator) == row.markedBy = None \/ moderator # row.markedBy

\* regression: the override is not compared with the marker
AcceptsOverride(row, p, user) ==
    /\ Moves(row, p) => p.status \in Transitions[row.status]
    /\ p.status = row.status => p.status # "CONFIRMED"
    /\ MovesTo(row, p, "MODERATED") =>
          Or(p.moderated, row.moderated) # None /\ Independent(row, user)
    /\ MovesTo(row, p, "CONFIRMED") => Ratified(row, p) # None

\* regression: a moderation without a moderated mark
AcceptsUnmarked(row, p, user) ==
    /\ Moves(row, p) => p.status \in Transitions[row.status]
    /\ p.status = row.status => p.status # "CONFIRMED"
    /\ MovesTo(row, p, "MODERATED") => Independent(row, Or(p.moderatedBy, user))

\* regression: a ratified attempt can still be referred by the board
AcceptsReferral(row, p, user) ==
    /\ Moves(row, p) => \/ p.status \in Transitions[row.status]
                        \/ row.status = "CONFIRMED" /\ p.status = "REFERRED"
    /\ p.status = row.status => p.status # "CONFIRMED"
    /\ MovesTo(row, p, "MODERATED") =>
          /\ Or(p.moderated, row.moderated) # None
          /\ Independent(row, Or(p.moderatedBy, user))
    /\ MovesTo(row, p, "CONFIRMED") => Ratified(row, p) # None

\* the checks of update(), against the row it has read
Accepts(row, p, user) ==
    /\ Moves(row, p) => p.status \in Transitions[row.status]
    /\ p.status = row.status => p.status # "CONFIRMED"
    /\ MovesTo(row, p, "MODERATED") =>
          /\ Or(p.moderated, row.moderated) # None
          /\ Independent(row, Or(p.moderatedBy, user))
    /\ MovesTo(row, p, "CONFIRMED") => Ratified(row, p) # None
    /\ ~Moves(row, p) /\ p.moderatedBy # None => Independent(row, p.moderatedBy)

\* what update() adds to the patch
Stamped(row, p, user) ==
    [p EXCEPT !.markedBy    = IF MovesTo(row, p, "MARKED") THEN user ELSE None,
              !.moderatedBy = IF MovesTo(row, p, "MODERATED") THEN Or(@, user) ELSE @,
              !.final       = IF MovesTo(row, p, "CONFIRMED") THEN Ratified(row, p) ELSE @]

\* regression: the columns a patch leaves out are written as null
PatchedWithNulls(row, p) == p

\* the columns a write leaves out keep the value they have by then
Patched(row, p) == [c \in DOMAIN row |-> Or(p[c], row[c])]

(* ---- the operations ------------------------------------------------------ *)

Create(a, s, raw, final) ==
    /\ attempt[a].status = Absent
    /\ attempt' = [attempt EXCEPT ![a] =
                     [Nothing EXCEPT !.status = s, !.raw = raw, !.final = final]]
    /\ backfilled' = IF s \in {"MODERATED", "CONFIRMED"} THEN backfilled \cup {a} ELSE backfilled
    /\ UNCHANGED <<req, raced>>

\* update() up to its write
Begin(r, a, p, user) ==
    /\ req[r] = Idle
    /\ attempt[a].status \in AttemptStatuses
    /\ Accepts(attempt[a], p, user)
    /\ req' = [req EXCEPT ![r] = [op |-> "writing", att |-> a, stale |-> FALSE,
                                  patch |-> Stamped(attempt[a], p, user)]]
    /\ UNCHANGED <<attempt, raced, backfilled>>

\* PATCH /marks/:id; updateSchema makes PENDING of a status left out
Patch(r, a, user) ==
    \E s \in AttemptStatuses, raw, final \in MarkOrNone :
        Begin(r, a, [Nothing EXCEPT !.status = s, !.raw = raw, !.final = final], user)

\* POST /marks/:id/moderate
ModerateAttempt(r, a, user) ==
    \E mark \in Marks, moderator \in UserOrNone :
        Begin(r, a, [Nothing EXCEPT !.status = "MODERATED", !.moderated = mark,
                                    !.moderatedBy = moderator], user)

\* POST /marks/:id/ratify
RatifyAttempt(r, a, user) ==
    \E final \in MarkOrNone :
        Begin(r, a, [Nothing EXCEPT !.status = "CONFIRMED", !.final = final], user)

\* reconcileMarks: the agreed mark, whatever the attempt's status
PropagateAgreedMark(r, a, user) ==
    \E mark \in Marks : Begin(r, a, [Nothing EXCEPT !.moderated = mark], user)

\* what else is in flight for the attempt has read a row that is gone
Outdated(a, others) ==
    [s \in Requests |->
       IF s \in others /\ req[s] # Idle THEN
         (IF req[s].att = a THEN [req[s] EXCEPT !.stale = TRUE] ELSE req[s])
       ELSE req[s]]

\* repo.update(id, data): by id, whatever the row is by now
Write(r) ==
    /\ req[r] # Idle
    /\ LET a == req[r].att
       IN  /\ attempt[a].status # Deleted
           /\ attempt' = [attempt EXCEPT ![a] = Patched(@, req[r].patch)]
           /\ raced' = IF req[r].stale THEN raced \cup {a} ELSE raced
           /\ req' = [Outdated(a, Requests \ {r}) EXCEPT ![r] = Idle]
    /\ UNCHANGED backfilled

\* the call fails or dies before its write, or writes a row no read returns
Abandon(r) ==
    /\ req[r] # Idle
    /\ req' = [req EXCEPT ![r] = Idle]
    /\ UNCHANGED <<attempt, raced, backfilled>>

\* a soft delete: nothing the row holds is read again
Remove(a) ==
    /\ attempt[a].status \in AttemptStatuses
    /\ attempt' = [attempt EXCEPT ![a] = [Nothing EXCEPT !.status = Deleted]]
    /\ raced' = raced \ {a}
    /\ UNCHANGED <<req, backfilled>>

Next ==
    \/ \E a \in Attempts, s \in CreateStatuses, raw, final \in MarkOrNone :
          Create(a, s, raw, final)
    \/ \E r \in Requests, a \in Attempts, user \in Users :
          \/ Patch(r, a, user) \/ ModerateAttempt(r, a, user)
          \/ RatifyAttempt(r, a, user) \/ PropagateAgreedMark(r, a, user)
    \/ \E r \in Requests : Write(r) \/ Abandon(r)
    \/ \E a \in Attempts : Remove(a)

Spec == Init /\ [][Next]_vars
-----------------------------------------------------------------------------
\* "Ratified with no recorded outcome" cannot happen: unless it was created that
\* way, a moderated attempt has a moderated mark and a confirmed one a final
\* mark, over any cycle of referrals, resits and racing updates.
OutcomeRecorded ==
    \A a \in Attempts \ backfilled :
        /\ attempt[a].status = "MODERATED" => attempt[a].moderated # None
        /\ attempt[a].status = "CONFIRMED" => attempt[a].final # None

\* The moderator on a moderated or confirmed attempt is not its marker, although
\* both are stamped anew in every cycle; only a racing write can break it.
ModeratorIsIndependent ==
    \A a \in Attempts \ (backfilled \cup raced) :
        attempt[a].status \in {"MODERATED", "CONFIRMED"} =>
            /\ attempt[a].moderatedBy # None
            /\ attempt[a].moderatedBy # attempt[a].markedBy

\* CONFIRMED is terminal: a confirmed attempt stays confirmed until it is deleted,
\* and one that does not was hit by a write whose check was outdated.
OutcomeOf(row) ==
    CASE row.status \in {Absent, "CONFIRMED", Deleted} -> row.status
      [] OTHER -> "UNSETTLED"

Outcomes == INSTANCE AttemptOutcomes
               WITH Rows <- Attempts, overtaken <- raced,
                    outcome <- [a \in Attempts |-> OutcomeOf(attempt[a])]
ConfirmedIsTerminal == Outcomes!OutcomesSpec
=============================================================================
