---------------------------- MODULE ModuleResults ----------------------------
(***************************************************************************)
(* The results of one module registration for one academic year:           *)
(* api/module-results/module-results.service.ts and the aggregation of     *)
(* api/marks/marks.service.ts, over the attempts of AttemptOutcomes.       *)
(*                                                                         *)
(* Nothing here is a transaction: a call makes its reads and checks and    *)
(* then writes by id, and other calls run before the write.  (Reads in a   *)
(* row are one step.)  No unique key keeps a registration to one result.   *)
(* A mark is computed or typed in; its value is left out, and so are       *)
(* previews, which write nothing.  Every attempt is for a component of its *)
(* own and has its final mark, and all the weightings add up to 100.       *)
(***************************************************************************)
EXTENDS Naturals, AttemptOutcomes

CONSTANTS
    Results,             \* ModuleResult ids; a lower one sorts first
    Calls,               \* calls that may be in flight at once
    ForceOptions,        \* values of the aggregation's "force" option
    PostStatuses,        \* the statuses results are posted with
    MoveStatuses         \* the statuses that updates ask for

ResultTransitions ==
    [PROVISIONAL |-> {"CONFIRMED", "REFERRED", "DEFERRED"},
     CONFIRMED   |-> {},
     REFERRED    |-> {"PROVISIONAL"},
     DEFERRED    |-> {"PROVISIONAL"}]

ResultStatuses == DOMAIN ResultTransitions
NoResult == 0

ASSUME ResultAssumption ==
    /\ Results \subseteq Nat \ {NoResult}
    /\ ForceOptions \subseteq BOOLEAN
    /\ PostStatuses \cup MoveStatuses \subseteq ResultStatuses

VARIABLES
    result,      \* the ModuleResult rows
    call,        \* what each call holds
    vouched,     \* history: the attempts there were when a result passed the gate
    irregular    \* history: results that POST created, with any status, or some
                 \* write of which went by an outdated read

rowVars == <<result, vouched, irregular>>
resultsVars == <<outcomeVars, rowVars, call>>

NoCall == [op |-> "idle"]
Persisting == [op : {"persisting"}, target : Results \cup {NoResult}, stale : BOOLEAN]
Moving     == [op : {"moving"}, target : Results, to : ResultStatuses,
               seen : SUBSET Rows, stale : BOOLEAN]

ResultsTypeOK ==
    /\ OutcomesTypeOK
    /\ result \in [Results -> [status : ResultStatuses \cup {NoRow, Gone},
                               mark : {"computed", "typed"}]]
    /\ call \in [Calls -> {NoCall} \cup Persisting \cup Moving]
    /\ vouched \in [Results -> SUBSET Rows]
    /\ irregular \subseteq Results

ResultsInit ==
    /\ OutcomesInit
    /\ result = [q \in Results |-> [status |-> NoRow, mark |-> "typed"]]
    /\ call = [r \in Calls |-> NoCall]
    /\ vouched = [q \in Results |-> {}]
    /\ irregular = {}
-----------------------------------------------------------------------------
Live == {q \in Results : result[q].status \in ResultStatuses}

\* r is done, and what other calls have read of the target is out of date
Finished(r, target) ==
    call' = [s \in Calls |->
              CASE s = r        -> NoCall
                [] call[s] = NoCall -> NoCall
                [] OTHER -> [call[s] EXCEPT !.stale = @ \/ call[s].target = target]]

Noted(q, stale) == IF stale THEN irregular \cup {q} ELSE irregular

(* ---- the attempts -------------------------------------------------------- *)

Attempting == OutcomesNext /\ UNCHANGED <<rowVars, call>>

(* ---- aggregateForModuleRegistration, with persist ------------------------- *)

\* the lowest of the live results
First == CHOOSE q \in Live : \A p \in Live : q <= p

\* regression: only a result that is still provisional counts as existing
FoundProvisional ==
    IF \A q \in Live : result[q].status # "PROVISIONAL" THEN NoResult
    ELSE CHOOSE q \in Live : result[q].status = "PROVISIONAL"

\* findByModuleRegistrationAndYear
Found == IF Live = {} THEN NoResult ELSE First

\* regression: the result's status is not looked at
AggregateOver(r, force) ==
    LET contributing == {a \in Existing : outcome[a] = Confirmed}
    IN  /\ call[r] = NoCall
        /\ contributing # {}
        /\ contributing = Rows \/ force
        /\ call' = [call EXCEPT ![r] = [op |-> "persisting", target |-> Found, stale |-> FALSE]]
        /\ UNCHANGED <<outcomeVars, rowVars>>

\* the weightings of what contributes must make 100, or force; a CONFIRMED
\* result is refused
Aggregate(r, force) ==
    LET contributing == {a \in Existing : outcome[a] = Confirmed}
    IN  /\ call[r] = NoCall
        /\ contributing # {}
        /\ contributing = Rows \/ force
        /\ Found # NoResult => result[Found].status # "CONFIRMED"
        /\ call' = [call EXCEPT ![r] = [op |-> "persisting", target |-> Found, stale |-> FALSE]]
        /\ UNCHANGED <<outcomeVars, rowVars>>

\* moduleResultsService.update, without a status: the mark, by id
PersistUpdate(r) ==
    LET q == call[r].target
    IN  /\ call[r].op = "persisting"
        /\ q \in Live
        /\ result' = [result EXCEPT ![q].mark = "computed"]
        /\ irregular' = Noted(q, call[r].stale)
        /\ call' = [call EXCEPT ![r] = NoCall]
        /\ UNCHANGED <<outcomeVars, vouched>>

PersistCreate(r) ==
    \E q \in Results :
        /\ call[r].op = "persisting" /\ call[r].target = NoResult
        /\ result[q].status = NoRow
        /\ result' = [result EXCEPT ![q] = [status |-> "PROVISIONAL", mark |-> "computed"]]
        /\ irregular' = Noted(q, call[r].stale)
        /\ Finished(r, NoResult)
        /\ UNCHANGED <<outcomeVars, vouched>>

(* ---- module-results.service: create, update, remove ----------------------- *)

\* POST /module-results: the schema takes any status
CreateResult(q, s) ==
    /\ result[q].status = NoRow
    /\ result' = [result EXCEPT ![q].status = s]
    /\ irregular' = irregular \cup {q}
    /\ UNCHANGED <<outcomeVars, vouched, call>>

\* regression: one confirmed attempt opens the gate
AnyAttemptConfirmed == \E a \in Existing : outcome[a] = Confirmed

AllAttemptsConfirmed == \A a \in Existing : outcome[a] = Confirmed

\* update() with a status, up to its write: the read, the graph and, for a
\* ratification, the gate.  The callers are ratifyModuleResult and PATCH, whose
\* schema makes PROVISIONAL of a status left out
BeginMove(r, q, to) ==
    /\ call[r] = NoCall
    /\ q \in Live
    /\ \/ to = result[q].status /\ to # "CONFIRMED"
       \/ to \in ResultTransitions[result[q].status]
    /\ to = "CONFIRMED" => AllAttemptsConfirmed
    /\ call' = [call EXCEPT ![r] =
                 [op |-> "moving", target |-> q, to |-> to, stale |-> FALSE,
                  seen |-> IF to = "CONFIRMED" THEN Existing ELSE {}]]
    /\ UNCHANGED <<outcomeVars, rowVars>>

\* repo.update(id, data): by id, whatever the row is by now; a PATCH may have
\* typed in a mark
WriteMove(r, typed) ==
    LET q == call[r].target
    IN  /\ call[r].op = "moving"
        /\ q \in Live
        /\ result' = [result EXCEPT ![q] =
              [status |-> call[r].to, mark |-> IF typed THEN "typed" ELSE @.mark]]
        /\ vouched' = [vouched EXCEPT ![q] = call[r].seen]
        /\ irregular' = Noted(q, call[r].stale)
        /\ IF result[q].status = call[r].to THEN call' = [call EXCEPT ![r] = NoCall]
                                            ELSE Finished(r, q)
        /\ UNCHANGED outcomeVars

\* a soft delete: nothing the row and its history hold is read again
RemoveResult(q) ==
    /\ q \in Live
    /\ result' = [result EXCEPT ![q] = [status |-> Gone, mark |-> "typed"]]
    /\ vouched' = [vouched EXCEPT ![q] = {}]
    /\ irregular' = irregular \ {q}
    /\ UNCHANGED <<outcomeVars, call>>

\* a failure or a crash before the write, or the row is gone
AbandonCall(r) ==
    /\ call[r] # NoCall
    /\ call' = [call EXCEPT ![r] = NoCall]
    /\ UNCHANGED <<outcomeVars, rowVars>>

ResultsNext ==
    \/ Attempting
    \/ \E r \in Calls :
          \/ \E force \in ForceOptions : Aggregate(r, force)
          \/ PersistUpdate(r) \/ PersistCreate(r)
          \/ \E q \in Results, to \in MoveStatuses : BeginMove(r, q, to)
          \/ \E typed \in BOOLEAN : WriteMove(r, typed)
          \/ AbandonCall(r)
    \/ \E q \in Results :
          \/ \E s \in PostStatuses : CreateResult(q, s)
          \/ RemoveResult(q)

ResultsSpec == ResultsInit /\ [][ResultsNext]_resultsVars
-----------------------------------------------------------------------------
\* A ratified module result rests on confirmed attempts: every attempt there was
\* when it passed the gate is CONFIRMED or deleted to this day, unless a racing
\* write hit the attempt or the result.  (The gate cannot vouch for an attempt
\* that is opened later.)
RatifiedAttemptsStand ==
    \A q \in Live \ irregular :
        result[q].status = "CONFIRMED" =>
            \A a \in vouched[q] : outcome[a] \in {Confirmed, Gone} \/ a \in overtaken

\* "Re-running an aggregation never duplicates a result row", whatever the
\* status of the row and however runs fail or results are removed: a second
\* row was posted by hand or comes from a lookup another creation overtook.
OneLiveResult == \A p, q \in Live \ irregular : p = q

\* "Confirmed module results are immutable": neither an aggregation nor a PATCH
\* changes the mark of one, except a call that looked before the ratification.
ConfirmedMarkStands ==
    [][\A q \in Results :
          result[q].status = "CONFIRMED" /\ result'[q].mark # result[q].mark =>
             q \in irregular' \/ result'[q].status = Gone]_resultsVars
=============================================================================
