---------------------------- MODULE PlanSchedule ----------------------------
(***************************************************************************)
(* The instalments of a payment plan: generatePlanSchedule of              *)
(* utils/payment-plan-schedule.ts, in pence.  A date is a month, counted   *)
(* from January of a leap year, and a day.  CUSTOM dates are the caller's  *)
(* own and left out.                                                       *)
(***************************************************************************)
EXTENDS PaymentAllocation

\* the last day of a month; there is no turn of a century in reach
LastDay(month) ==
    LET inYear == month % 12
    IN  CASE inYear = 1 -> IF month % 48 = 1 THEN 29 ELSE 28
          [] inYear \in {3, 5, 8, 10} -> 30
          [] OTHER -> 31

AddMonthsClipped(date, months) ==
    LET target == date.month + months
    IN  [month |-> target, day |-> Smaller(date.day, LastDay(target))]

MonthsPerStep(frequency) == IF frequency = "QUARTERLY" THEN 3 ELSE 1

\* regression: each date is found from the one before it
BuildDueDatesInTurn(start, n, frequency) ==
    LET due[i \in 1..n] ==
            IF i = 1 THEN start ELSE AddMonthsClipped(due[i - 1], MonthsPerStep(frequency))
    IN  due

BuildDueDates(start, n, frequency) ==
    [i \in 1..n |-> AddMonthsClipped(start, (i - 1) * MonthsPerStep(frequency))]

\* the rounding drift goes on the last instalment
GeneratePlanSchedule(total, n, start, frequency) ==
    IF n <= 0 \/ total <= 0 THEN <<>>
    ELSE LET base == RoundedQuotient(total, n)
             drift == total - base * n
             due == BuildDueDates(start, n, frequency)
         IN  [i \in 1..n |-> [amount |-> IF i = n THEN base + drift ELSE base,
                              dueDate |-> due[i]]]
=============================================================================
