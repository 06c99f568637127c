------------------------- MODULE PaymentAllocation -------------------------
(***************************************************************************)
(* The pure allocation of one payment across the open charge lines of an   *)
(* account (server/src/utils/payment-allocation.ts).  Money is counted in  *)
(* pence, so round2 is exact and only the proportional share is rounded.   *)
(*                                                                         *)
(* A charge is [id, amount, alreadyAllocated, due, created]; an absent     *)
(* dueDate is NoDate, which sorts after every date.  An outcome line is    *)
(* [id, before, amount, full].                                             *)
(***************************************************************************)
EXTENDS Integers, Sequences, FiniteSets, SequencesExt

NoDate == 1000000

AtLeastZero(n) == IF n < 0 THEN 0 ELSE n
Smaller(a, b)  == IF a <= b THEN a ELSE b

\* Math.round(a / b) for b > 0: half rounds up
RoundedQuotient(a, b) == (2 * a + b) \div (2 * b)

OutstandingFor(charge) ==
    AtLeastZero(AtLeastZero(charge.amount) - AtLeastZero(charge.alreadyAllocated))

PaidByDue(a, b) == a.due < b.due   \* regression: no tiebreak

\* compareForFifo: due date, then creation date, then id
PaidBefore(a, b) ==
    \/ a.due < b.due
    \/ a.due = b.due /\ a.created < b.created
    \/ a.due = b.due /\ a.created = b.created /\ a.id < b.id

Line(charge, amount) ==
    LET before == OutstandingFor(charge)
    IN  [ id     |-> charge.id,
          before |-> before,
          amount |-> amount,
          full   |-> before > 0 /\ amount >= before ]

LineTotal(lines) == FoldSeq(LAMBDA line, sum : line.amount + sum, 0, lines)
TotalDue(open)   == FoldSeq(LAMBDA c, sum : OutstandingFor(c) + sum, 0, open)
-----------------------------------------------------------------------------
\* regression: a part payment is not taken from it
RemainingAfterFull(pay, queue) ==
    LET left[i \in 0..Len(queue)] ==
            IF i = 0 THEN pay
            ELSE left[i - 1] - IF OutstandingFor(queue[i]) <= left[i - 1]
                               THEN OutstandingFor(queue[i]) ELSE 0
    IN  left

\* what is left of the payment after the first i charges of the queue
Remaining(pay, queue) ==
    LET left[i \in 0..Len(queue)] ==
            IF i = 0 THEN pay
            ELSE left[i - 1] - Smaller(left[i - 1], OutstandingFor(queue[i]))
    IN  left

\* the charges that are not settled, by their place in the list
Owing(open) == {i \in DOMAIN open : OutstandingFor(open[i]) > 0}

\* Array.sort is stable: charges that compare as equal keep their order
Precedes(open, j, i) ==
    \/ PaidBefore(open[j], open[i])
    \/ j < i /\ ~PaidBefore(open[i], open[j])

\* the sorted charges, without the settled ones, which the loop skips
FifoQueue(open) ==
    LET owing == Owing(open)
        place == [i \in owing |-> Cardinality({j \in owing : Precedes(open, j, i)}) + 1]
    IN  [k \in 1..Cardinality(owing) |-> open[CHOOSE i \in owing : place[i] = k]]

\* allocateFifo: settled charges get no line, charges after the money ran out
\* get a line of zero
AllocateFifo(pay, open) ==
    LET queue == FifoQueue(open)
        left  == Remaining(pay, queue)
    IN  [i \in DOMAIN queue |->
            Line(queue[i], Smaller(left[i - 1], OutstandingFor(queue[i])))]

\* the last line that the rounding drift may be pushed on; 0 when there is none
DriftIndex(lines) ==
    Max({0} \cup {i \in DOMAIN lines : lines[i].amount > 0 \/ lines[i].before > 0})

\* the drift goes on one line, which takes no more than it owes and no less than 0
AbsorbedBelowZero(share, drift, before) == Smaller(share + drift, before)   \* regression
Absorbed(share, drift, before) == AtLeastZero(Smaller(share + drift, before))

AllocateProportional(pay, open) ==
    LET total    == TotalDue(open)
        pool     == Smaller(pay, total)
        Share(c) == IF total <= 0 THEN 0
                    ELSE RoundedQuotient(OutstandingFor(c) * pool, total)
        shares   == [i \in DOMAIN open |-> Line(open[i], Share(open[i]))]
        drift    == pool - LineTotal(shares)
        last     == DriftIndex(shares)
    IN  [i \in DOMAIN open |->
            IF drift # 0 /\ i = last
            THEN Line(open[i], Absorbed(shares[i].amount, drift, shares[i].before))
            ELSE shares[i]]

AllocatePayment(strategy, paymentAmount, open) ==
    LET pay   == AtLeastZero(paymentAmount)
        lines == IF strategy = "PROPORTIONAL"
                 THEN AllocateProportional(pay, open)
                 ELSE AllocateFifo(pay, open)
        total == LineTotal(lines)
    IN  [ lines          |-> lines,
          totalAllocated |-> total,
          leftover       |-> AtLeastZero(pay - total) ]
=============================================================================
