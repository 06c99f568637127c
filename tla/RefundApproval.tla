---------------------------- MODULE RefundApproval ----------------------------
(***************************************************************************)
(* The two-step refund workflow of api/refund-approvals: one member of     *)
(* staff proposes, another approves, then the refund is processed.         *)
(*                                                                         *)
(* Each step reads the row, checks it and writes the row by its id; two    *)
(* steps on one refund may overlap, and then the second write goes by an   *)
(* outdated check.  PATCH (SUPER_ADMIN) writes any status and approver.    *)
(***************************************************************************)
CONSTANTS
    Refunds, Staff,
    RefundCalls          \* steps that may be in flight at once

Nobody == "none"     \* a column that is null

ASSUME RefundAssumption == Nobody \notin Staff

\* regression: a rejected refund can be approved after all
AllowedTransitionsReopened ==
    [REQUESTED |-> {"APPROVED", "REJECTED"},
     APPROVED  |-> {"PROCESSED"},
     PROCESSED |-> {},
     REJECTED  |-> {"APPROVED"}]

AllowedTransitions ==
    [REQUESTED |-> {"APPROVED", "REJECTED"},
     APPROVED  |-> {"PROCESSED"},
     PROCESSED |-> {},
     REJECTED  |-> {}]

RefundStatuses == DOMAIN AllowedTransitions

VARIABLES
    refund,      \* the RefundApproval rows
    acting,      \* the step each call is about to write
    endorsers,   \* history: who has approved each refund
    patched      \* history: refunds PATCH has touched since they were last approved

refundVars == <<refund, acting, endorsers, patched>>

NotActing == [op |-> "idle"]
Acting == [op : {"acting"}, refund : Refunds, by : Staff,
           to : {"APPROVED", "REJECTED", "PROCESSED"}, stale : BOOLEAN]

RefundTypeOK ==
    /\ refund \in [Refunds -> [status : RefundStatuses \cup {"ABSENT", "DELETED"},
                               createdBy : Staff \cup {Nobody}, approvedBy : Staff \cup {Nobody}]]
    /\ acting \in [RefundCalls -> {NotActing} \cup Acting]
    /\ endorsers \in [Refunds -> SUBSET Staff]
    /\ patched \subseteq Refunds

RefundInit ==
    /\ refund = [f \in Refunds |-> [status |-> "ABSENT", createdBy |-> Nobody, approvedBy |-> Nobody]]
    /\ acting = [c \in RefundCalls |-> NotActing]
    /\ endorsers = [f \in Refunds |-> {}]
    /\ patched = {}
-----------------------------------------------------------------------------
\* create: always at REQUESTED, with no approver
Propose(f, by) ==
    /\ refund[f].status = "ABSENT"
    /\ refund' = [refund EXCEPT ![f].status = "REQUESTED", ![f].createdBy = by]
    /\ UNCHANGED <<acting, endorsers, patched>>

\* regression: whoever proposed may approve
CheckedAnyone(f, to, by) == to \in AllowedTransitions[refund[f].status]

\* assertTransition, and for an approval the segregation of duties
Checked(f, to, by) ==
    /\ to \in AllowedTransitions[refund[f].status]
    /\ to = "APPROVED" => refund[f].createdBy # by

\* approve, reject and process up to their write
BeginStep(c, f, to, by) ==
    /\ acting[c] = NotActing
    /\ refund[f].status \in RefundStatuses
    /\ Checked(f, to, by)
    /\ acting' = [acting EXCEPT ![c] = [op |-> "acting", refund |-> f, by |-> by,
                                        to |-> to, stale |-> FALSE]]
    /\ UNCHANGED <<refund, endorsers, patched>>

\* approvedBy doubles as "last finance decision-maker"
Stepped(row, d) ==
    [row EXCEPT !.status = d.to, !.approvedBy = IF d.to = "PROCESSED" THEN @ ELSE d.by]

\* what these calls have checked of f is out of date
Overtake(calls, f) ==
    [c \in RefundCalls |->
       IF c \in calls /\ acting[c] # NotActing
       THEN [acting[c] EXCEPT !.stale = @ \/ acting[c].refund = f]
       ELSE acting[c]]

WriteStep(c) ==
    LET d == acting[c]
    IN  /\ d # NotActing
        /\ refund[d.refund].status \in RefundStatuses
        /\ refund' = [refund EXCEPT ![d.refund] = Stepped(@, d)]
        /\ endorsers' = IF d.to = "APPROVED"
                        THEN [endorsers EXCEPT ![d.refund] = @ \cup {d.by}] ELSE endorsers
        /\ patched' = IF d.to = "APPROVED" THEN patched \ {d.refund} ELSE patched
        /\ acting' = [Overtake(RefundCalls \ {c}, d.refund) EXCEPT ![c] = NotActing]

\* a failure or a crash before the write, or the row is gone
LoseStep(c) ==
    /\ acting[c] # NotActing
    /\ acting' = [acting EXCEPT ![c] = NotActing]
    /\ UNCHANGED <<refund, endorsers, patched>>

\* update
PatchRefund(f, s, approver) ==
    /\ refund[f].status \in RefundStatuses
    /\ refund' = [refund EXCEPT ![f].status = s, ![f].approvedBy = approver]
    /\ patched' = patched \cup {f}
    /\ acting' = Overtake(RefundCalls, f)
    /\ UNCHANGED endorsers

\* remove: a hard delete
RemoveRefund(f) ==
    /\ refund[f].status \in RefundStatuses
    /\ refund' = [refund EXCEPT ![f].status = "DELETED"]
    /\ UNCHANGED <<acting, endorsers, patched>>

RefundNext ==
    \/ \E f \in Refunds : RemoveRefund(f) \/ \E by \in Staff : Propose(f, by)
    \/ \E c \in RefundCalls :
          \/ \E f \in Refunds, by \in Staff, to \in RefundStatuses : BeginStep(c, f, to, by)
          \/ WriteStep(c) \/ LoseStep(c)
    \/ \E f \in Refunds, s \in RefundStatuses, approver \in Staff \cup {Nobody} :
          PatchRefund(f, s, approver)

RefundSpec == RefundInit /\ [][RefundNext]_refundVars
-----------------------------------------------------------------------------
\* Segregation of duties: whatever steps race, a refund that is approved or processed
\* was approved by someone other than its proposer, unless it was patched since.
PaidNeedsTwo ==
    \A f \in Refunds \ patched :
        refund[f].status \in {"APPROVED", "PROCESSED"} =>
            endorsers[f] \ {refund[f].createdBy} # {}

\* this step is the write of a call that had read an earlier state of f
Overtaken(f) ==
    \E c \in RefundCalls :
        acting[c] # NotActing /\ acting[c].refund = f /\ acting[c].stale /\ acting'[c] = NotActing

\* this step is no call's: PATCH or deletion
ByHand == \A c \in RefundCalls : acting[c] # NotActing => acting'[c] # NotActing

\* PROCESSED and REJECTED are final, and a refund that becomes PROCESSED names an
\* approver who did not propose it: every step that still sees the row it has read
\* is held to both, after a race or a PATCH as before.
DecisionStands ==
    [][\A f \in Refunds : refund'[f] # refund[f] =>
          /\ refund[f].status \in {"PROCESSED", "REJECTED"} => Overtaken(f) \/ ByHand
          /\ refund'[f].status = "PROCESSED" /\ f \notin patched' =>
                \/ Overtaken(f)
                \/ refund'[f].approvedBy \in Staff \ {refund'[f].createdBy}]_refundVars
=============================================================================
