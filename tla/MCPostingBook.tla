---------------------------- MODULE MCPostingBook ----------------------------
(***************************************************************************)
(* PaymentLedger with two handlers at once, in accounts where nobody       *)
(* forces and in accounts where anybody may.                               *)
(***************************************************************************)
EXTENDS MCPaymentLedger

\* the accounts of this run allocate by FIFO
ASSUME FifoAssumption == NeverOverallocates

VARIABLE unforced

BookInit == Init /\ unforced \in BOOLEAN

BookNext ==
    /\ Next
    /\ unforced => \A r \in Requests : req'[r].op = "allocate" => ~req'[r].force
    /\ UNCHANGED unforced

BookSpec == BookInit /\ [][BookNext]_<<vars, unforced>>
-----------------------------------------------------------------------------
\* Without force, the handlers of the account behave like the posting book
\* (PaymentLedger!PostsOnce): the stamp and the status guards make every payment
\* and every charge count once, in any interleaving of allocations, amendments and
\* deletions.
Book == INSTANCE PostingBook WITH
    posted  <- IF unforced THEN {p \in Payments : allocated[p]} ELSE {},
    settled <- IF unforced THEN {c \in Charges : chargeStatus[c] = "PAID"} ELSE {},
    credits <- IF unforced THEN credits ELSE 0
UnforcedPostOnce == Book!Spec
=============================================================================
