------------------------------ MODULE HesaReturn ------------------------------
(***************************************************************************)
(* The statutory return of one type for one academic year: composeReturn   *)
(* and validateReturn of api/hesa/hesa.service.ts, with the composer and   *)
(* the rule evaluator of utils/hesa-return-composition.ts.                 *)
(*                                                                         *)
(* A compose finds or creates the HESAReturn row, loads the cohort and the *)
(* rules, replaces the return's HESASnapshot rows in one transaction, and  *)
(* then writes the row.  The database has a trigger on the snapshot rows   *)
(* that refuses every DELETE, so that the transaction fails whenever its   *)
(* DELETE sees a row; it runs at READ COMMITTED, so that it sees none that *)
(* another one inserts meanwhile.  Previews (persist = false) and the      *)
(* export write nothing; severities, the order of the lines and the notes  *)
(* are left out.                                                           *)
(***************************************************************************)
EXTENDS Naturals, FiniteSets

CONSTANTS
    Returns,             \* HESAReturn ids
    ReturnType,
    Cohorts,             \* what the queries for the source rows may return
    RuleSets,            \* what the query for the rules, or the caller, may give
    ReturnCalls          \* calls that may be in flight at once

VARIABLES
    header,      \* the HESAReturn rows
    snapshot,    \* the HESASnapshot rows of each, by the run that wrote them
    returning,   \* what each call holds
    torn,        \* history: returns that a run left half written, or overtaken
    latest,      \* history: the lines that the most recent run had for each
    reopened     \* history: a return was created by an outdated look

returnVars == <<header, snapshot, returning, torn, latest, reopened>>

\* composeHesaReturn: the lines of each type of return
ReturnTypes == {"STUDENT", "MODULE", "COURSE", "STAFF", "DATA_FUTURES"}
LineKinds ==
    CASE ReturnType = "STUDENT" -> {"student"}
      [] ReturnType = "MODULE"  -> {"module"}
      [] ReturnType = "COURSE"  -> {"programme"}
      [] ReturnType = "STAFF"   -> {}
      [] ReturnType = "DATA_FUTURES" -> {"student", "module", "programme"}

Composed(cohort) == {line \in cohort : line.kind \in LineKinds}

\* evaluateRule: an empty value fails whatever asks something of it; a pattern that
\* the evaluator does not support and a type that it does not know are skipped
Fails(rule, line) ==
    /\ rule.kind = line.kind
    /\ CASE rule.checks = "REQUIRED" -> line.value = "empty"
         [] rule.checks \in {"CODE_LIST", "LENGTH", "REGEX"} -> line.value \notin rule.accepts
         [] rule.checks = "SKIPPED" -> FALSE

Failures(rules, lines) == {p \in rules \X lines : Fails(p[1], p[2])}
Active(rules) == {rule \in rules : rule.active}

ASSUME ReturnAssumption ==
    /\ ReturnType \in ReturnTypes
    /\ IsFiniteSet(UNION Cohorts) /\ RuleSets # {}
    /\ \A rules \in RuleSets : \A rule \in rules : "empty" \notin rule.accepts

NoHeader == [status |-> "none"]
NoReturning == [op |-> "idle"]

Applied == RuleSets \cup {Active(rules) : rules \in RuleSets}
Bodies == {Composed(cohort) : cohort \in Cohorts}
AllLines == UNION Bodies
AllFailures == SUBSET ((UNION Applied) \X AllLines)

ReturnTypeOK ==
    /\ header \in [Returns -> {NoHeader} \cup
          [status : {"PREPARATION", "VALIDATION"}, count : 0..Cardinality(AllLines),
           failures : AllFailures]]
    /\ snapshot \in [Returns -> SUBSET [by : ReturnCalls, lines : Bodies]]
    /\ returning \in [ReturnCalls -> {NoReturning} \cup
          [op : {"creating"}, late : BOOLEAN] \cup
          [op : {"loading"}, target : Returns, late : BOOLEAN] \cup
          [op : {"replacing", "heading"}, target : Returns, lines : Bodies,
           failures : AllFailures, late : BOOLEAN] \cup
          [op : {"validating"}, target : Returns, failures : AllFailures, late : BOOLEAN]]
    /\ torn \subseteq Returns
    /\ latest \in [Returns -> Bodies \cup {{}}]
    /\ reopened \in BOOLEAN

ReturnInit ==
    /\ header = [t \in Returns |-> NoHeader]
    /\ snapshot = [t \in Returns |-> {}]
    /\ returning = [c \in ReturnCalls |-> NoReturning]
    /\ torn = {} /\ reopened = FALSE
    /\ latest = [t \in Returns |-> {}]
-----------------------------------------------------------------------------
Opened == {t \in Returns : header[t] # NoHeader}
Lines(t) == UNION {lot.lines : lot \in snapshot[t]}

\* c goes on to hold "next"; what the calls in "others" have looked at is outdated
Outdates(c, next, others) ==
    returning' = [d \in ReturnCalls |->
        CASE d = c -> next
          [] d # c /\ d \in others -> [returning[d] EXCEPT !.late = TRUE]
          [] OTHER -> returning[d]]

(* ---- composeReturn ------------------------------------------------------- *)

\* the return given, or the most recent one that is not REJECTED, which none is
FindReturn(c) ==
    /\ returning[c] = NoReturning
    /\ \/ /\ Opened = {}
          /\ returning' = [returning EXCEPT ![c] = [op |-> "creating", late |-> FALSE]]
       \/ \E t \in Opened :
             returning' = [returning EXCEPT ![c] =
                             [op |-> "loading", target |-> t, late |-> FALSE]]
    /\ UNCHANGED <<header, snapshot, torn, latest, reopened>>

CreateReturn(c, t) ==
    /\ returning[c].op = "creating"
    /\ header[t] = NoHeader
    /\ header' = [header EXCEPT ![t] =
                    [status |-> "PREPARATION", count |-> 0, failures |-> {}]]
    /\ reopened' = (reopened \/ returning[c].late)
    /\ Outdates(c, [op |-> "loading", target |-> t, late |-> FALSE],
                {d \in ReturnCalls : returning[d].op = "creating"})
    /\ UNCHANGED <<snapshot, torn, latest>>

\* regression: a new body is written beside the old one
ReplaceableAlways(t) == TRUE

\* hesa_snapshot_immutable: a body, once there, is not deleted
Replaceable(t) == snapshot[t] = {}

\* the loads and composeHesaReturn, which applies the active rules only, up to the
\* DELETE of replaceForReturn
StartReplace(c, cohort, rules) ==
    LET t == returning[c].target
        lines == Composed(cohort)
    IN  /\ returning[c].op = "loading"
        /\ \/ /\ Replaceable(t)
              /\ returning' = [returning EXCEPT ![c] =
                    [op |-> "replacing", target |-> t, lines |-> lines, late |-> FALSE,
                     failures |-> Failures(Active(rules), lines)]]
              /\ UNCHANGED latest
           \/ /\ ~Replaceable(t)
              /\ returning' = [returning EXCEPT ![c] = NoReturning]
              /\ latest' = [latest EXCEPT ![t] = lines]
        /\ UNCHANGED <<header, snapshot, torn, reopened>>

CommitReplace(c) ==
    LET d == returning[c]
    IN  /\ d.op = "replacing"
        /\ snapshot' = [snapshot EXCEPT ![d.target] = @ \cup {[by |-> c, lines |-> d.lines]}]
        /\ latest' = [latest EXCEPT ![d.target] = d.lines]
        /\ Outdates(c, [d EXCEPT !.op = "heading"],
                    {e \in ReturnCalls : returning[e].op \in {"replacing", "heading", "validating"}
                                           /\ returning[e].target = d.target})
        /\ UNCHANGED <<header, torn, reopened>>

\* the return's row is written, last
WriteHeader(c) ==
    LET d == returning[c]
    IN  /\ d.op = "heading"
        /\ header' = [header EXCEPT ![d.target] =
              [status |-> "PREPARATION", count |-> Cardinality(d.lines), failures |-> d.failures]]
        /\ torn' = IF d.late THEN torn \cup {d.target} ELSE torn
        /\ returning' = [returning EXCEPT ![c] = NoReturning]
        /\ UNCHANGED <<snapshot, latest, reopened>>

(* ---- validateReturn ------------------------------------------------------ *)

\* the rules given, or the active ones, against the rows of the snapshot
BeginValidate(c, t, rules) ==
    /\ returning[c] = NoReturning
    /\ snapshot[t] # {}
    /\ returning' = [returning EXCEPT ![c] =
          [op |-> "validating", target |-> t, failures |-> Failures(rules, Lines(t)),
           late |-> FALSE]]
    /\ UNCHANGED <<header, snapshot, torn, latest, reopened>>

\* VALIDATION with errors or without
WriteValidation(c) ==
    LET d == returning[c]
    IN  /\ d.op = "validating"
        /\ header' = [header EXCEPT ![d.target].status = "VALIDATION",
                                    ![d.target].failures = d.failures]
        /\ torn' = IF d.late THEN torn \cup {d.target} ELSE torn
        /\ returning' = [returning EXCEPT ![c] = NoReturning]
        /\ UNCHANGED <<snapshot, latest, reopened>>

\* a failure or a crash; the transaction rolls back, what is committed stays
AbandonReturn(c) ==
    LET d == returning[c]
    IN  /\ d # NoReturning
        /\ torn' = IF d.op = "heading" THEN torn \cup {d.target} ELSE torn
        /\ returning' = [returning EXCEPT ![c] = NoReturning]
        /\ UNCHANGED <<header, snapshot, latest, reopened>>

ReturnNext ==
    \E c \in ReturnCalls :
        \/ FindReturn(c) \/ CommitReplace(c) \/ WriteHeader(c)
        \/ WriteValidation(c) \/ AbandonReturn(c)
        \/ \E t \in Returns :
              CreateReturn(c, t) \/ \E rules \in RuleSets : BeginValidate(c, t, rules)
        \/ \E cohort \in Cohorts, rules \in RuleSets : StartReplace(c, cohort, rules)

ReturnSpec == ReturnInit /\ [][ReturnNext]_returnVars
-----------------------------------------------------------------------------
\* A return agrees with its snapshot: once no run is about to write its row, the
\* row counts the lines of one run and lists what fails in them by one set of
\* rules, after every series of runs refused, runs abandoned and validations.  Only
\* a run cut short before the row, or overtaken by another, leaves it otherwise.
ReturnIsItsSnapshot ==
    \A t \in Opened \ torn :
        (\A c \in ReturnCalls : returning[c].op = "heading" => returning[c].target # t) =>
            /\ Cardinality(snapshot[t]) <= 1
            /\ header[t].count = Cardinality(Lines(t))
            /\ \E rules \in Applied : header[t].failures = Failures(rules, Lines(t))

\* "Re-running a compose call updates the existing return rather than creating a
\* duplicate envelope", unless the look found none while another made one.
OneReturn == ~reopened => Cardinality(Opened) <= 1

\* "The HESASnapshot rows are atomically replaced on every compose call so the
\* snapshot body always matches the most recent run" (hesa.service.ts), which the
\* trigger does not let happen.
SnapshotIsLatest ==
    (\A c \in ReturnCalls : returning[c] = NoReturning) =>
        \A t \in Opened : Lines(t) = latest[t]
=============================================================================
