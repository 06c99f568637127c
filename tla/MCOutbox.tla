------------------------------ MODULE MCOutbox ------------------------------
(***************************************************************************)
(* Outbox with the drains of two processes, the first of which overlaps    *)
(* its ticks when it has two drains.                                       *)
(***************************************************************************)
EXTENDS Outbox
CONSTANTS d1, d2

OneProcessEach == {{d1}, {d2}}
=============================================================================
