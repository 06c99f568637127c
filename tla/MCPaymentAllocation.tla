------------------------ MODULE MCPaymentAllocation ------------------------
(***************************************************************************)
(* The inputs of the two pure algorithms of payments, allocatePayment and  *)
(* generatePlanSchedule, within the bounds: one initial state per call,    *)
(* one step per answer.  MCPaymentPlan runs them.                          *)
(***************************************************************************)
EXTENDS PlanSchedule

CONSTANTS
    Strategies,      \* the strategies tried
    PaymentAmounts,  \* the payments tried, in pence
    ChargeAmounts,   \* the amounts of a charge line
    PriorAmounts,    \* what earlier runs may have applied to a line
    DueDates,        \* the due dates of a line (NoDate is always tried too)
    MaxCharges,      \* the longest list of open charges
    PlanTotals,      \* the totals of a plan, in pence
    MaxInstalments,  \* the longest plan
    StartDays        \* the days of the month a plan starts on, in any month

\* createPaymentPlanSchema: a positive total, at least one instalment
ASSUME AlgorithmAssumption ==
    /\ Strategies \subseteq {"FIFO", "PROPORTIONAL"}
    /\ PaymentAmounts \subseteq Int /\ ChargeAmounts \subseteq Int /\ PriorAmounts \subseteq Int
    /\ DueDates \subseteq Int /\ MaxCharges \in Nat
    /\ PlanTotals \subseteq Nat \ {0} /\ MaxInstalments \in Nat /\ StartDays \subseteq Nat

VARIABLES strategy, payment, open, terms, outcome
inputs == <<strategy, payment, open, terms>>
algorithmVars == <<inputs, outcome>>

NoTerms == [n |-> 0]
Pending == [lines |-> <<>>, totalAllocated |-> -1, leftover |-> -1]

\* findOpenForAccount returns the lines by due date; ties have distinct ids
LineTerms == [amount : ChargeAmounts, prior : PriorAmounts, due : DueDates \cup {NoDate}]

Charges(list) ==
    [i \in DOMAIN list |->
        [ id |-> i, amount |-> list[i].amount, alreadyAllocated |-> list[i].prior,
          due |-> list[i].due, created |-> i \div 2 ]]

DueOrder(charges) ==
    \A i \in 1..(Len(charges) - 1) : charges[i].due <= charges[i + 1].due

Allocations ==
    /\ strategy \in Strategies
    /\ payment \in PaymentAmounts
    /\ \E n \in 0..MaxCharges : \E list \in [1..n -> LineTerms] :
          open = Charges(list)
    /\ DueOrder(open)
    /\ terms = NoTerms

\* a plan over two years and more, from any month of a leap year or the next
PlanTerms ==
    /\ strategy = "SCHEDULE" /\ payment = 0 /\ open = <<>>
    /\ \E total \in PlanTotals, n \in 1..MaxInstalments, month \in 0..23,
          day \in StartDays, frequency \in {"MONTHLY", "QUARTERLY"} :
          /\ day <= LastDay(month)
          /\ terms = [total |-> total, n |-> n, frequency |-> frequency,
                      start |-> [month |-> month, day |-> day]]

\* no call at all
NoInput == strategy = "none" /\ payment = 0 /\ open = <<>> /\ terms = NoTerms

AlgorithmInit == outcome = Pending /\ (Allocations \/ PlanTerms)

Allocate ==
    /\ outcome = Pending /\ terms = NoTerms
    /\ outcome' = AllocatePayment(strategy, payment, open)
    /\ UNCHANGED inputs

GenerateSchedule ==
    /\ outcome = Pending /\ terms # NoTerms
    /\ outcome' = [instalments |->
          GeneratePlanSchedule(terms.total, terms.n, terms.start, terms.frequency)]
    /\ UNCHANGED inputs

AlgorithmNext == Allocate \/ GenerateSchedule

Answered == outcome # Pending /\ terms = NoTerms
Scheduled == outcome # Pending /\ terms # NoTerms
AmountTotal(list) == FoldSeq(LAMBDA i, sum : i.amount + sum, 0, list)
-----------------------------------------------------------------------------
\* a number for the order of payment: by due date, then creation, then id
Place(c) == (c.due * (MaxCharges + 1) + c.created) * (MaxCharges + 1) + c.id
Owed(S)  == MapThenSumSet(OutstandingFor, S)

\* what is left for a charge of S once all the charges of S ahead of it are paid off
FifoShare(pay, S, c) ==
    Smaller(OutstandingFor(c), AtLeastZero(pay - Owed({d \in S : Place(d) < Place(c)})))

\* FIFO by definition: a charge receives what is left of the payment once every
\* charge ahead of it, in due-date then creation order with undated charges
\* last, has been paid off; and the answer does not depend on the order in
\* which the database returned the charges.
FifoReference ==
    Answered /\ strategy = "FIFO" =>
        LET lines    == Range(outcome.lines)
            reversed == AllocatePayment(strategy, payment, Reverse(open))
        IN  /\ \A c \in Range(open) : OutstandingFor(c) > 0 =>
                  \E line \in lines :
                      line.id = c.id /\ line.amount = FifoShare(payment, Range(open), c)
            /\ lines = Range(reversed.lines)

\* the last charge that owes, on which PROPORTIONAL pushes its rounding drift, is
\* left without a penny
LastOwingUnpaid(lines) ==
    \E i \in DOMAIN lines :
        /\ lines[i].before > 0 /\ lines[i].amount = 0
        /\ \A j \in DOMAIN lines : j > i => lines[j].before = 0

Overallocation == outcome.totalAllocated + outcome.leftover - AtLeastZero(payment)

\* allocatePayment's own invariant, "totalAllocated + leftover === paymentAmount".
MoneyConserved == Answered => Overallocation = 0

\* The contract of allocatePayment as far as the code keeps it.  No line takes less
\* than nothing or more than its charge owes, and it is marked full exactly when it
\* is paid off: the rounding drift is pushed on one line after the split, where a
\* missing cap would break both.  A payment that covers the account settles every
\* charge.  Money is conserved to the penny, with one exception: where PROPORTIONAL
\* rounded up by more than its last owing charge can give back, and that charge is
\* left with nothing, it hands out at most half a penny too much for each charge
\* but that one.
MoneyContract ==
    Answered =>
        /\ \A i \in DOMAIN outcome.lines :
              LET line == outcome.lines[i]
              IN  /\ line.amount \in 0..line.before
                  /\ line.full <=> line.before > 0 /\ line.amount = line.before
                  /\ payment >= TotalDue(open) /\ line.before > 0 => line.full
        /\ \/ Overallocation = 0
           \/ /\ strategy = "PROPORTIONAL" /\ LastOwingUnpaid(outcome.lines)
              /\ Overallocation > 0 /\ 2 * Overallocation <= Len(open) - 1

\* A plan's instalments add up to its total, the drift on the last one, which is a
\* payment and not a refund (of totals above a few pence); they fall due one step
\* apart from the start, on its day wherever the month has that day: a February
\* does not wear the 31st down for the months after it.
ScheduleContract ==
    Scheduled =>
        LET list  == outcome.instalments
            start == terms.start
        IN  /\ Len(list) = terms.n
            /\ AmountTotal(list) = terms.total
            /\ 2 * terms.total >= terms.n * (terms.n - 1) =>
                  list[terms.n].amount >= 0
            /\ list[1].dueDate = start
            /\ \A i \in DOMAIN list :
                  LET due == list[i].dueDate
                  IN  /\ due.month = start.month + (i - 1) * MonthsPerStep(terms.frequency)
                      /\ due.day = Smaller(start.day, LastDay(due.month))
=============================================================================
