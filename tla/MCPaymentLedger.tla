-------------------------- MODULE MCPaymentLedger --------------------------
(***************************************************************************)
(* PaymentLedger with the allocation of PaymentAllocation.  A charge is a  *)
(* number; a lower one falls due earlier.                                  *)
(***************************************************************************)
EXTENDS PaymentLedger, FiniteSetsExt, SequencesExt

PA == INSTANCE PaymentAllocation

\* the amounts of the charges, by number
ThreeThenTwo == (1 :> 3) @@ (2 :> 2)
JustThree == (1 :> 3)

\* findOpenForAccount's projection of the charges, in due-date order
Projection(outstanding) ==
    LET queue == SetToSortSeq(DOMAIN outstanding, LAMBDA a, b : a < b)
    IN  [i \in DOMAIN queue |->
            [ id |-> queue[i], amount |-> outstanding[queue[i]], alreadyAllocated |-> 0,
              due |-> queue[i], created |-> 0 ]]

AllocateOpen(strategy, amount, outstanding) ==
    LET outcome == PA!AllocatePayment(strategy, amount, Projection(outstanding))
        Lines(c) == {line \in ToSet(outcome.lines) : line.id = c}
    IN  [ amounts |-> [c \in DOMAIN outstanding |->
                          MapThenSumSet(LAMBDA line : line.amount, Lines(c))],
          totalAllocated |-> outcome.totalAllocated ]

-----------------------------------------------------------------------------
Symmetry == Permutations(Requests) \cup Permutations(Payments)
=============================================================================
