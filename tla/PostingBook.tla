----------------------------- MODULE PostingBook -----------------------------
(***************************************************************************)
(* What allocation promises an account, without its handlers, locks or     *)
(* stale reads: a payment is credited to the account once, and a charge is *)
(* settled once, by the posting that credits the account.                  *)
(***************************************************************************)
EXTENDS Naturals

CONSTANTS Payments, Charges

VARIABLES posted, settled, credits
vars == <<posted, settled, credits>>

Init == posted = {} /\ settled = {} /\ credits = 0

Post(p) ==
    /\ p \notin posted
    /\ posted' = posted \cup {p}
    /\ settled' \in {settled \cup newly : newly \in SUBSET Charges}
    /\ credits' \in {n \in Nat : n >= credits}

Next == \E p \in Payments : Post(p)
Spec == Init /\ [][Next]_vars
=============================================================================
