------------------------- MODULE ModuleRegistrations -------------------------
(***************************************************************************)
(* Module registrations and the credit limit of an enrolment in a year:    *)
(* api/module-registrations/module-registrations.service.ts, and the PATCH *)
(* of an enrolment's mode of study, which decides the limit.               *)
(*                                                                         *)
(* A call reads what the student is registered for, checks, and writes;    *)
(* other calls run in between.  Of a module only its credits are kept.     *)
(* Prerequisites can only refuse a call, which may fail anyway.  No route  *)
(* writes a registration's status: rows are REGISTERED until deleted.      *)
(***************************************************************************)
EXTENDS Integers, FiniteSets, FiniteSetsExt

CONSTANTS
    Registrations, Enrolled, Years,   \* Enrolled: the enrolments
    RegistrationCalls,   \* calls that may be in flight at once
    ModuleCredits,       \* the credits modules have
    CreditLimits,        \* the limits of the modes of study
    Same                 \* a column that a patch leaves out

ASSUME RegistrationAssumption ==
    /\ IsFiniteSet(Registrations)
    /\ ModuleCredits \subseteq Nat /\ CreditLimits \subseteq Nat
    /\ Same \notin Enrolled \cup Years \cup ModuleCredits

VARIABLES
    registration,   \* the ModuleRegistration rows
    limit,          \* of each enrolment, by its mode of study
    registering,    \* what each call is about to write
    unchecked       \* history: the enrolments and years whose credits or limit were
                    \* last changed without a check, or after an outdated one

registrationVars == <<registration, limit, registering, unchecked>>

Slots == Enrolled \X Years

Unborn  == [state |-> "absent"]
Removed == [state |-> "deleted"]
Registered == [state : {"live"}, credits : ModuleCredits, enrolment : Enrolled, year : Years]

NoRegistering == [op |-> "idle"]
Registering ==
    [op : {"create", "patch"}, reg : Registrations, stale : BOOLEAN,
     credits : ModuleCredits \cup {Same}, enrolment : Enrolled \cup {Same},
     year : Years \cup {Same}, slot : Slots, checked : BOOLEAN]

RegistrationsTypeOK ==
    /\ registration \in [Registrations -> {Unborn, Removed} \cup Registered]
    /\ limit \in [Enrolled -> CreditLimits]
    /\ registering \in [RegistrationCalls -> {NoRegistering} \cup Registering]
    /\ unchecked \subseteq Slots

RegistrationsInit ==
    /\ registration = [r \in Registrations |-> Unborn]
    /\ limit \in [Enrolled -> CreditLimits]
    /\ registering = [c \in RegistrationCalls |-> NoRegistering]
    /\ unchecked = {}
-----------------------------------------------------------------------------
SlotOf(row) == <<row.enrolment, row.year>>

\* findActiveCreditRegistrations, and the credits of their modules
CurrentCredits(slot) ==
    LET active == {r \in Registrations :
                     registration[r].state = "live" /\ SlotOf(registration[r]) = slot}
    IN  MapThenSumSet(LAMBDA r : registration[r].credits, active)

\* regression: the credits of the new module are not counted
WithinLimitAlready(slot, credits) == CurrentCredits(slot) <= limit[slot[1]]

\* validateCreditLimit
WithinLimit(slot, credits) == CurrentCredits(slot) + credits <= limit[slot[1]]

\* calls that have read this slot, or are about to write this row, are outdated
Outran(calls, slot, r) ==
    [c \in RegistrationCalls |->
       IF c \in calls /\ registering[c] # NoRegistering
       THEN [registering[c] EXCEPT !.stale = @ \/ registering[c].slot = slot
                                               \/ registering[c].reg = r]
       ELSE registering[c]]

(* ---- create ------------------------------------------------------------------ *)

BeginRegister(c, r, credits, slot) ==
    /\ registering[c] = NoRegistering
    /\ registration[r] = Unborn
    /\ \A d \in RegistrationCalls :       \* r is the id of the row to come
          registering[d] # NoRegistering => registering[d].reg # r
    /\ WithinLimit(slot, credits)
    /\ registering' = [registering EXCEPT ![c] =
          [op |-> "create", reg |-> r, stale |-> FALSE, credits |-> credits,
           enrolment |-> slot[1], year |-> slot[2], slot |-> slot, checked |-> TRUE]]
    /\ UNCHANGED <<registration, limit, unchecked>>

(* ---- update ------------------------------------------------------------------- *)

\* up to the write.  The limit is checked for a new year only, and for the module
\* and enrolment the row has: the service looks for a new module in
\* data.module.connect, and the route's schema lets only data.moduleId through
BeginAmend(c, r, credits, enrolment, y) ==
    LET row  == registration[r]
        slot == <<row.enrolment, IF y = Same THEN row.year ELSE y>>
        moved == y \notin {Same, row.year}
    IN  /\ registering[c] = NoRegistering
        /\ row.state = "live"
        /\ moved => WithinLimit(slot, row.credits)
        /\ registering' = [registering EXCEPT ![c] =
              [op |-> "patch", reg |-> r, stale |-> FALSE, credits |-> credits,
               enrolment |-> enrolment, year |-> y, slot |-> slot,
               checked |-> /\ moved
                           /\ credits \in {Same, row.credits}
                           /\ enrolment \in {Same, row.enrolment}]]
        /\ UNCHANGED <<registration, limit, unchecked>>

(* ---- the write of either -------------------------------------------------------- *)

Otherwise(new, old) == IF new = Same THEN old ELSE new

WriteRegistration(c) ==
    LET d   == registering[c]
        old == registration[d.reg]
        new == [state |-> "live", credits |-> Otherwise(d.credits, old.credits),
                enrolment |-> Otherwise(d.enrolment, old.enrolment),
                year |-> Otherwise(d.year, old.year)]
    IN  /\ d # NoRegistering
        /\ old # Removed
        /\ registration' = [registration EXCEPT ![d.reg] = new]
        /\ unchecked' = CASE d.checked /\ ~d.stale -> unchecked \ {SlotOf(new)}
                          [] new = old             -> unchecked
                          [] OTHER                 -> unchecked \cup {SlotOf(new)}
        /\ registering' = [Outran(RegistrationCalls \ {c}, SlotOf(new), d.reg)
                             EXCEPT ![c] = NoRegistering]
        /\ UNCHANGED limit

\* a refusal by another rule, a failure, a crash, or a row no read returns
AbandonRegistering(c) ==
    /\ registering[c] # NoRegistering
    /\ registering' = [registering EXCEPT ![c] = NoRegistering]
    /\ UNCHANGED <<registration, limit, unchecked>>

RemoveRegistration(r) ==
    /\ registration[r].state = "live"
    /\ registration' = [registration EXCEPT ![r] = Removed]
    /\ UNCHANGED <<limit, registering, unchecked>>

\* PATCH /enrolments/:id: nothing registered is looked at
PatchMode(e, newLimit) ==
    /\ limit[e] # newLimit
    /\ limit' = [limit EXCEPT ![e] = newLimit]
    /\ unchecked' = unchecked \cup ({e} \X Years)
    /\ registering' = [c \in RegistrationCalls |->
          IF registering[c] # NoRegistering
          THEN [registering[c] EXCEPT !.stale = @ \/ registering[c].slot[1] = e]
          ELSE registering[c]]
    /\ UNCHANGED registration

RegistrationsNext ==
    \/ \E c \in RegistrationCalls :
          \/ \E r \in Registrations, credits \in ModuleCredits, slot \in Slots :
                BeginRegister(c, r, credits, slot)
          \/ \E r \in Registrations, credits \in ModuleCredits \cup {Same},
                enrolment \in Enrolled \cup {Same}, y \in Years \cup {Same} :
                BeginAmend(c, r, credits, enrolment, y)
          \/ WriteRegistration(c) \/ AbandonRegistering(c)
    \/ \E r \in Registrations : RemoveRegistration(r)
    \/ \E e \in Enrolled, newLimit \in CreditLimits : PatchMode(e, newLimit)

RegistrationsSpec == RegistrationsInit /\ [][RegistrationsNext]_registrationVars
-----------------------------------------------------------------------------
\* What a student is registered for in a year stays within the credit limit, over
\* registrations, moves between years and deletions; a change without a check, or
\* after an outdated one, excuses it until the next registration is let through.
CheckedCreditsFit ==
    \A slot \in Slots \ unchecked : CurrentCredits(slot) <= limit[slot[1]]
=============================================================================
