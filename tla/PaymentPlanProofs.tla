-------------------------- MODULE PaymentPlanProofs --------------------------
(***************************************************************************)
(* Theorems of PaymentPlan, for every number of recordings, cron runs,     *)
(* instalments and payments, and of the two algorithms that payments call, *)
(* for every amount of money and length of list: what a schedule and an    *)
(* allocation promise.                                                     *)
(***************************************************************************)
EXTENDS MCPaymentPlan, SumTheorems

USE DEF Absent, Deleted, NoInstalment, rowVars, historyVars

\* Every row, recording and cron run keeps its type.
THEOREM PlanTypeCorrect == Spec => []TypeOK
<1> USE PlanAssumption DEF PlanAssumption, PlanStatuses, InstalmentStatuses
<1>1. Init => TypeOK
  <2> SUFFICES ASSUME Init PROVE TypeOK
    OBVIOUS
  <2>1. instalment \in [Instalments -> InstalmentStatuses \cup {Absent}]
    BY DEF Init
  <2>2. charges \in [Instalments -> Nat]
    BY DEF Init
  <2>3. req \in [Requests -> {Idle} \cup Recording]
    BY DEF Init
  <2>4. run \in [Crons -> [todo : SUBSET Instalments, hand : Instalments \cup {NoInstalment}]]
    BY DEF Init, Waiting
  <2>5. QED
    BY <2>1, <2>2, <2>3, <2>4 DEF Init, TypeOK
<1>2. TypeOK /\ [Next]_vars => TypeOK'
  <2> SUFFICES ASSUME TypeOK, [Next]_vars PROVE TypeOK'
    OBVIOUS
  <2>1. CASE Staff
    <3>1. ASSUME NEW status \in PlanPatches, GeneratePlan(status) PROVE TypeOK'
      BY <3>1 DEF TypeOK, GeneratePlan
    <3>2. ASSUME NEW status \in PlanPatches, PatchPlan(status) PROVE TypeOK'
      BY <3>2 DEF TypeOK, PatchPlan
    <3>3. CASE RemovePlan
      BY <3>3 DEF TypeOK, RemovePlan
    <3>4. ASSUME NEW i \in Instalments, NEW status \in InstalmentPatches,
                 PatchInstalment(i, status)
          PROVE  TypeOK'
      BY <3>4 DEF TypeOK, PatchInstalment
    <3>5. ASSUME NEW i \in Instalments, RemoveInstalment(i) PROVE TypeOK'
      BY <3>5 DEF TypeOK, RemoveInstalment
    <3>6. ASSUME NEW p \in Payments, AllocateDirectly(p) PROVE TypeOK'
      BY <3>6 DEF TypeOK, AllocateDirectly
    <3>7. QED
      BY <2>1, <3>1, <3>2, <3>3, <3>4, <3>5, <3>6 DEF Staff
  <2>2. ASSUME NEW r \in Requests, Record(r) PROVE TypeOK'
    <3>1. ASSUME NEW i \in Instalments, NEW p \in Payments, NEW force \in ForceOptions,
                 BeginRecord(r, i, p, force)
          PROVE  TypeOK'
      BY <3>1 DEF TypeOK, BeginRecord, Recording
    <3>2. CASE Post(r)
      BY <3>2 DEF TypeOK, Post, Step, Recording, Idle
    <3>3. CASE Flip(r)
      <4>1. req[r] \in Recording
        BY <3>3 DEF TypeOK, Flip, Idle
      <4>2. req' \in [Requests -> {Idle} \cup Recording]
        BY <3>3, <4>1 DEF TypeOK, Flip, Step, Recording
      <4>3. instalment' \in [Instalments -> InstalmentStatuses \cup {Absent}]
        BY <3>3, <4>1 DEF TypeOK, Flip
      <4>4. completions' \subseteq Instalments \X Payments
        BY <3>3, <4>1 DEF TypeOK, Flip, Recording
      <4>5. QED
        BY <3>3, <4>2, <4>3, <4>4 DEF TypeOK, Flip
    <3>4. CASE Inspect(r)
      BY <3>4 DEF TypeOK, Inspect, Step, Recording, Idle
    <3>5. CASE Promote(r)
      BY <3>5 DEF TypeOK, Promote
    <3>6. CASE Abandon(r)
      BY <3>6 DEF TypeOK, Abandon
    <3>7. QED
      BY <2>2, <3>1, <3>2, <3>3, <3>4, <3>5, <3>6 DEF Record
  <2>3. ASSUME NEW c \in Crons, Cron(c) PROVE TypeOK'
    <3>1. CASE StartRun(c)
      BY <3>1 DEF TypeOK, StartRun
    <3>2. CASE CheckMarker(c)
      BY <3>2 DEF TypeOK, CheckMarker
    <3>3. CASE IssueCharge(c)
      BY <3>3 DEF TypeOK, IssueCharge
    <3>4. CASE ChargeFails(c)
      BY <3>4 DEF TypeOK, ChargeFails
    <3>5. CASE RunDies(c)
      BY <3>5 DEF TypeOK, RunDies, Waiting
    <3>6. QED
      BY <2>3, <3>1, <3>2, <3>3, <3>4, <3>5 DEF Cron
  <2>4. CASE UNCHANGED vars
    BY <2>4 DEF TypeOK, vars
  <2>5. QED
    BY <2>1, <2>2, <2>3, <2>4 DEF Next
<1>3. QED
  BY <1>1, <1>2, PTL DEF Spec
-----------------------------------------------------------------------------
\* A recording past its allocation has its payment on the ledger.
AllocatedFirst ==
    \A r \in Requests :
        req[r].op \in {"flipping", "inspecting", "promoting"} => req[r].pay \in posted

LEMMA AllocationComesFirst == Spec => []AllocatedFirst
<1>1. Init => AllocatedFirst
  BY DEF Init, AllocatedFirst, Idle
<1>2. TypeOK /\ AllocatedFirst /\ [Next]_vars => AllocatedFirst'
  <2> SUFFICES ASSUME TypeOK, AllocatedFirst, [Next]_vars,
                      NEW s \in Requests, req'[s].op \in {"flipping", "inspecting", "promoting"}
               PROVE  req'[s].pay \in posted'
    BY DEF AllocatedFirst
  <2>1. CASE Staff
    BY <2>1 DEF Staff, AllocatedFirst, GeneratePlan, PatchPlan, RemovePlan, PatchInstalment,
                RemoveInstalment, AllocateDirectly
  <2>2. ASSUME NEW r \in Requests, Record(r) PROVE req'[s].pay \in posted'
    <3>1. CASE s # r
      <4>1. req'[s] = req[s] /\ posted \subseteq posted'
        BY <2>2, <3>1 DEF Record, TypeOK, BeginRecord, Post, Flip, Inspect, Promote, Abandon, Step
      <4>2. QED
        BY <4>1 DEF AllocatedFirst
    <3>2. CASE s = r
      <4>1. ASSUME NEW i \in Instalments, NEW p \in Payments, NEW force \in ForceOptions,
                   BeginRecord(r, i, p, force)
            PROVE  FALSE
        BY <3>2, <4>1 DEF TypeOK, BeginRecord
      <4>2. CASE Post(r)
        <5>1. req[r] \in Recording
          BY <4>2 DEF TypeOK, Post, Idle
        <5>2. QED
          BY <3>2, <4>2, <5>1 DEF TypeOK, Post, Step, Recording
      <4>3. CASE Flip(r) \/ Inspect(r)
        <5>1. req[r] \in Recording /\ req[r].op \in {"flipping", "inspecting"}
          BY <4>3 DEF TypeOK, Flip, Inspect, Idle
        <5>2. req'[r].pay = req[r].pay
          BY <3>2, <4>3, <5>1 DEF TypeOK, Flip, Inspect, Step, Recording, Idle
        <5>3. QED
          BY <3>2, <4>3, <5>1, <5>2 DEF AllocatedFirst, Flip, Inspect
      <4>4. CASE Promote(r) \/ Abandon(r)
        BY <3>2, <4>4 DEF TypeOK, Promote, Abandon, Idle
      <4>5. QED
        BY <2>2, <4>1, <4>2, <4>3, <4>4 DEF Record
    <3>3. QED
      BY <3>1, <3>2
  <2>3. ASSUME NEW c \in Crons, Cron(c) PROVE req' = req /\ posted' = posted
    BY <2>3 DEF Cron, StartRun, CheckMarker, IssueCharge, ChargeFails, RunDies
  <2>4. QED
    BY <2>1, <2>2, <2>3 DEF Next, vars, AllocatedFirst
<1>3. QED
  BY <1>1, <1>2, PlanTypeCorrect, PTL DEF Spec

\* A recording marks its instalment paid only once its payment is on the ledger.
THEOREM CompletionIsPosted == Spec => []CompletedIsPosted
<1>1. AllocatedFirst => CompletedIsPosted
  BY DEF AllocatedFirst, CompletedIsPosted
<1>2. QED
  BY <1>1, AllocationComesFirst, PTL
-----------------------------------------------------------------------------
\* A recording without force, past its allocation and yet to flip: the payment
\* is its own.
Claims(r) == req[r].op = "flipping" /\ ~req[r].force

\* An unforced payment is stamped, by one recording, before it completes anything.
ClaimsExclusive ==
    /\ \A done \in completions : done[2] \in posted
    /\ \A r \in Requests : Claims(r) => /\ req[r].pay \in posted
                                        /\ \A done \in completions : done[2] # req[r].pay
    /\ \A r, s \in Requests :
          Claims(r) /\ Claims(s) /\ req[s].pay = req[r].pay => s = r

\* Without force a payment pays for one instalment, whoever races with it.
THEOREM PaymentIsUsedOnce == Spec => []PaymentUsedOnce
<1> DEFINE IInv == ClaimsExclusive /\ PaymentUsedOnce
<1>1. Init => IInv
  BY DEF Init, ClaimsExclusive, PaymentUsedOnce, Claims, Idle
<1>2. TypeOK /\ IInv /\ [Next]_vars => IInv'
  <2> SUFFICES ASSUME TypeOK, IInv, [Next]_vars PROVE IInv'
    OBVIOUS
  <2>1. ASSUME UNCHANGED <<req, completions>>, posted \subseteq posted' PROVE IInv'
    BY <2>1 DEF ClaimsExclusive, PaymentUsedOnce, Claims
  <2>2. CASE Staff
    BY <2>1, <2>2 DEF Staff, GeneratePlan, PatchPlan, RemovePlan, PatchInstalment,
                      RemoveInstalment, AllocateDirectly
  <2>3. ASSUME NEW r \in Requests, Record(r) PROVE IInv'
    <3>1. ASSUME ~Claims(r)', UNCHANGED completions, posted \subseteq posted',
                 \A s \in Requests : s # r => req'[s] = req[s]
          PROVE  IInv'
      BY <3>1 DEF ClaimsExclusive, PaymentUsedOnce, Claims
    <3>2. ASSUME NEW i \in Instalments, NEW p \in Payments, NEW force \in ForceOptions,
                 BeginRecord(r, i, p, force)
          PROVE  IInv'
      BY <3>1, <3>2 DEF TypeOK, BeginRecord, Claims
    <3>3. CASE Post(r)
      <4>1. req[r] \in Recording /\ req[r].op = "posting"
        BY <3>3 DEF TypeOK, Post, Idle
      <4>2. /\ req'[r].op = "flipping" /\ req'[r].pay = req[r].pay
            /\ req'[r].force = req[r].force
            /\ \A s \in Requests : s # r => req'[s] = req[s]
        BY <3>3, <4>1 DEF TypeOK, Post, Step, Recording
      <4>3. CASE req[r].force
        BY <3>1, <3>3, <4>2, <4>3 DEF Post, Claims
      <4>4. CASE ~req[r].force
        <5>1. req[r].pay \notin posted /\ posted' = posted \cup {req[r].pay}
          BY <3>3, <4>4 DEF Post
        <5>2. UNCHANGED completions
          BY <3>3 DEF Post, historyVars
        <5>3. \A s \in Requests : Claims(s) => req[s].pay # req[r].pay
          BY <5>1 DEF ClaimsExclusive
        <5>4. \A done \in completions : done[2] # req[r].pay
          BY <5>1 DEF ClaimsExclusive
        <5>5. \A s \in Requests : s # r => (Claims(s)' <=> Claims(s))
          BY <4>2 DEF Claims
        <5>6. QED
          BY <4>2, <5>1, <5>2, <5>3, <5>4, <5>5 DEF ClaimsExclusive, PaymentUsedOnce
      <4>5. QED
        BY <4>3, <4>4
    <3>4. CASE Flip(r)
      <4> DEFINE mine == <<req[r].inst, req[r].pay>>
      <4>1. req[r] \in Recording /\ req[r].op = "flipping"
        BY <3>4 DEF TypeOK, Flip, Idle
      <4>2. ~Claims(r)' /\ \A s \in Requests : s # r => req'[s] = req[s]
        BY <3>4, <4>1 DEF TypeOK, Flip, Step, Claims
      <4>3. CASE req[r].force
        BY <3>1, <3>4, <4>2, <4>3 DEF Flip
      <4>4. CASE ~req[r].force
        <5>1. completions' = completions \cup {mine} /\ posted' = posted
          BY <3>4, <4>4 DEF Flip
        <5>2. Claims(r) /\ mine[2] = req[r].pay
          BY <4>1, <4>4 DEF Claims
        <5>3. mine[2] \in posted /\ \A done \in completions : done[2] # mine[2]
          BY <5>2 DEF ClaimsExclusive
        <5>4. \A s \in Requests : Claims(s)' => s # r /\ Claims(s) /\ req'[s].pay = req[s].pay
          BY <4>2 DEF Claims
        <5>5. \A s \in Requests : s # r /\ Claims(s) => req[s].pay # mine[2]
          BY <5>2 DEF ClaimsExclusive
        <5> HIDE DEF mine
        <5>6. QED
          BY <5>1, <5>3, <5>4, <5>5 DEF ClaimsExclusive, PaymentUsedOnce
      <4>5. QED
        BY <4>3, <4>4
    <3>5. CASE Inspect(r)
      <4>1. req[r] \in Recording
        BY <3>5 DEF TypeOK, Inspect, Idle
      <4>2. ~Claims(r)' /\ \A s \in Requests : s # r => req'[s] = req[s]
        BY <3>5, <4>1 DEF TypeOK, Inspect, Step, Claims, Recording, Idle
      <4>3. QED
        BY <3>1, <3>5, <4>2 DEF Inspect
    <3>6. CASE Promote(r) \/ Abandon(r)
      <4>1. req' = [req EXCEPT ![r] = Idle] /\ UNCHANGED <<posted, completions>>
        BY <3>6 DEF Promote, Abandon
      <4>2. ~Claims(r)' /\ \A s \in Requests : s # r => req'[s] = req[s]
        BY <4>1 DEF TypeOK, Claims, Idle
      <4>3. QED
        BY <3>1, <4>1, <4>2
    <3>7. QED
      BY <2>3, <3>2, <3>3, <3>4, <3>5, <3>6 DEF Record
  <2>4. ASSUME NEW c \in Crons, Cron(c) PROVE IInv'
    BY <2>1, <2>4 DEF Cron, StartRun, CheckMarker, IssueCharge, ChargeFails, RunDies
  <2>5. QED
    BY <2>1, <2>2, <2>3, <2>4 DEF Next, vars
<1>3. QED
  BY <1>1, <1>2, PlanTypeCorrect, PTL DEF Spec
-----------------------------------------------------------------------------
\* A recording that will look at the plan, or has seen it complete.
Finishing == \E r \in Requests : req[r].op \in {"inspecting", "promoting"}

\* The last recording promotes the plan: an ACTIVE plan whose instalments are all
\* COMPLETED has a recording left that will promote it.
THEOREM LastRecordingPromotes == Spec => []LastOnePromotes
<1>1. Init => LastOnePromotes
  BY DEF Init, LastOnePromotes
<1>2. TypeOK /\ LastOnePromotes /\ [Next]_vars => LastOnePromotes'
  <2> SUFFICES ASSUME TypeOK, LastOnePromotes, [Next]_vars,
                      plan' = "ACTIVE", \A i \in Instalments : instalment'[i] = "COMPLETED",
                      ~excused'
               PROVE  Finishing'
    BY DEF LastOnePromotes, Finishing
  <2> USE DEF Finishing
  <2>1. ASSUME UNCHANGED <<plan, instalment>>, excused' = excused, req' = req
        PROVE  Finishing'
    BY <2>1 DEF LastOnePromotes
  <2>2. CASE Staff
    <3>1. PICK i \in Instalments : TRUE
      BY PlanAssumption DEF PlanAssumption
    <3>2. ASSUME NEW status \in PlanPatches, GeneratePlan(status) PROVE FALSE
      BY <3>1, <3>2 DEF GeneratePlan
    <3>3. ASSUME NEW status \in PlanPatches, PatchPlan(status) PROVE FALSE
      BY <3>3 DEF PatchPlan, TypeOK
    <3>4. ASSUME NEW j \in Instalments, NEW status \in InstalmentPatches,
                 PatchInstalment(j, status)
          PROVE  FALSE
      BY <3>4 DEF PatchInstalment, TypeOK
    <3>5. ASSUME NEW j \in Instalments, RemoveInstalment(j) PROVE FALSE
      BY <3>5 DEF RemoveInstalment, TypeOK
    <3>6. ASSUME NEW p \in Payments, AllocateDirectly(p) PROVE Finishing'
      BY <2>1, <3>6 DEF AllocateDirectly
    <3>7. QED
      BY <2>2, <3>2, <3>3, <3>4, <3>5, <3>6 DEF Staff, RemovePlan
  <2>3. ASSUME NEW r \in Requests, Record(r) PROVE Finishing'
    <3>1. ASSUME UNCHANGED <<plan, instalment, excused>>,
                 req[r].op \notin {"inspecting", "promoting"},
                 \A s \in Requests : s # r => req'[s] = req[s]
          PROVE  Finishing'
      BY <3>1 DEF LastOnePromotes
    <3>2. ASSUME NEW i \in Instalments, NEW p \in Payments, NEW force \in ForceOptions,
                 BeginRecord(r, i, p, force)
          PROVE  Finishing'
      BY <3>1, <3>2 DEF BeginRecord, TypeOK, Idle
    <3>3. CASE Post(r)
      BY <3>1, <3>3 DEF Post, Step, TypeOK
    <3>4. CASE Flip(r)
      <4>1. req[r] \in Recording
        BY <3>4 DEF TypeOK, Flip, Idle
      <4>2. req'[r].op = "inspecting"
        BY <3>4, <4>1 DEF TypeOK, Flip, Step, Recording
      <4>3. QED
        BY <4>2
    <3>5. CASE Inspect(r)
      <4>1. req[r] \in Recording /\ UNCHANGED <<plan, instalment, excused>>
        BY <3>5 DEF TypeOK, Inspect, Idle
      <4>2. plan = "ACTIVE" /\ AllCompleted
        BY <4>1 DEF AllCompleted
      <4>3. req'[r].op = "promoting"
        BY <3>5, <4>1, <4>2 DEF TypeOK, Inspect, Step, Recording
      <4>4. QED
        BY <4>3
    <3>6. CASE Promote(r)
      BY <3>6 DEF Promote
    <3>7. CASE Abandon(r)
      BY <3>1, <3>7 DEF Abandon, TypeOK
    <3>8. QED
      BY <2>3, <3>2, <3>3, <3>4, <3>5, <3>6, <3>7 DEF Record
  <2>4. ASSUME NEW c \in Crons, Cron(c) PROVE Finishing'
    BY <2>1, <2>4 DEF Cron, StartRun, CheckMarker, IssueCharge, ChargeFails, RunDies
  <2>5. QED
    BY <2>1, <2>2, <2>3, <2>4 DEF Next, vars
<1>3. QED
  BY <1>1, <1>2, PlanTypeCorrect, PTL DEF Spec
-----------------------------------------------------------------------------
\* The cron runs never overlap: the schedule is daily and the queue runs one job.
OneCron == \A c, d \in Crons : c = d

\* What the run has in hand has no charge yet.
HandUncharged ==
    \A c \in Crons, i \in Instalments :
        run[c].hand = i => charges[i] = 0

\* One cron run at a time: an instalment is charged once, over reruns, failures
\* and crashes at any row.
THEOREM OneCronChargesOnce ==
    ASSUME OneCron
    PROVE  Spec => []ChargedOnce
<1> DEFINE IInv == HandUncharged /\ ChargedOnce
<1>1. Init => IInv
  BY DEF Init, HandUncharged, ChargedOnce
<1>2. TypeOK /\ IInv /\ [Next]_vars => IInv'
  <2> SUFFICES ASSUME TypeOK, IInv, [Next]_vars PROVE IInv'
    OBVIOUS
  <2>1. ASSUME UNCHANGED <<charges, run>> PROVE IInv'
    BY <2>1 DEF HandUncharged, ChargedOnce
  <2>2. CASE Staff
    BY <2>1, <2>2 DEF Staff, GeneratePlan, PatchPlan, RemovePlan, PatchInstalment,
                      RemoveInstalment, AllocateDirectly
  <2>3. ASSUME NEW r \in Requests, Record(r) PROVE IInv'
    BY <2>1, <2>3 DEF Record, BeginRecord, Post, Flip, Inspect, Promote, Abandon
  <2>4. ASSUME NEW c \in Crons, Cron(c) PROVE IInv'
    <3>1. ASSUME charges' = charges, run'[c].hand = run[c].hand \/ run'[c].hand = NoInstalment
          PROVE  IInv'
      BY <3>1, OneCron, PlanAssumption DEF OneCron, PlanAssumption, HandUncharged, ChargedOnce
    <3>2. CASE StartRun(c)
      BY <3>1, <3>2 DEF StartRun, TypeOK
    <3>3. CASE CheckMarker(c)
      BY <3>3, OneCron, PlanAssumption
         DEF CheckMarker, OneCron, PlanAssumption, TypeOK, HandUncharged, ChargedOnce
    <3>4. CASE IssueCharge(c)
      <4>1. PICK i \in Instalments : run[c].hand = i
        BY <3>4 DEF IssueCharge, TypeOK
      <4>2. charges[i] = 0
        BY <4>1 DEF HandUncharged
      <4>3. charges' = [charges EXCEPT ![i] = 1]
        <5>1. charges' = [charges EXCEPT ![i] = charges[i] + 1]
          BY <3>4, <4>1 DEF IssueCharge
        <5>2. QED
          BY <4>2, <5>1
      <4>4. run'[c].hand = NoInstalment
        BY <3>4 DEF IssueCharge, TypeOK
      <4>5. \A j \in Instalments : charges'[j] <= 1
        BY <4>3 DEF TypeOK, ChargedOnce
      <4>6. \A d \in Crons : run'[d].hand = NoInstalment
        BY <4>4, OneCron DEF OneCron
      <4>7. QED
        BY <4>5, <4>6, PlanAssumption DEF PlanAssumption, HandUncharged, ChargedOnce
    <3>5. CASE ChargeFails(c)
      BY <3>1, <3>5 DEF ChargeFails, TypeOK
    <3>6. CASE RunDies(c)
      BY <3>1, <3>6 DEF RunDies, TypeOK, Waiting
    <3>7. QED
      BY <2>4, <3>2, <3>3, <3>4, <3>5, <3>6 DEF Cron
  <2>5. QED
    BY <2>1, <2>2, <2>3, <2>4 DEF Next, vars
<1>3. QED
  BY <1>1, <1>2, PlanTypeCorrect, PTL DEF Spec
-----------------------------------------------------------------------------
(* ---- generatePlanSchedule ----------------------------------------------- *)

LEMMA QuotientBounds ==
    ASSUME NEW a \in Int, NEW b \in Nat \ {0}
    PROVE  /\ RoundedQuotient(a, b) \in Int
           /\ (2 * b) * RoundedQuotient(a, b) <= 2 * a + b
           /\ 2 * a - b < (2 * b) * RoundedQuotient(a, b)
<1> DEFINE x == 2 * a + b
           y == 2 * b
<1>1. x \in Int /\ y \in Nat \ {0}
  OBVIOUS
<1>2. RoundedQuotient(a, b) = x \div y
  BY DEF RoundedQuotient
<1> HIDE DEF x, y
<1>3. x \div y \in Int /\ y * (x \div y) <= x /\ x < y * (x \div y) + y
  BY <1>1
<1>4. QED
  BY <1>2, <1>3 DEF x, y

LEMMA ProductCancels ==
    ASSUME NEW a \in Nat \ {0}, NEW x \in Int, NEW y \in Int, a * x <= a * y
    PROVE  x <= y
OBVIOUS

Pays(list, n, each, last) ==
    DOMAIN list = 1..n /\ \A i \in 1..n : list[i].amount = IF i = n THEN last ELSE each

\* The amounts of a schedule that pays "each" n - 1 times and "last" once.
LEMMA ScheduleSum ==
    ASSUME NEW n \in Nat \ {0}, NEW each \in Int, NEW last \in Int, NEW list,
           Pays(list, n, each, last)
    PROVE  AmountTotal(list) = each * (n - 1) + last
<1> DEFINE S == 1..n
           Summed(g) == [s \in SUBSET S |->
              IF s = {} THEN 0
              ELSE LET x == CHOOSE x \in s : TRUE IN list[x].amount + g[s \ {x}]]
           Worth(s) == each * Cardinality(s \ {n}) + IF n \in s THEN last ELSE 0
           sum == CHOOSE g : g = Summed(g)
<1> USE DEF Pays
<1>1. AmountTotal(list) = sum[S]
  BY DEF AmountTotal, FoldSeq, FoldFunction, FoldFunctionOnSet, MapThenFoldSet
<1>2. ASSUME NEW s \in SUBSET S, s # {}, NEW x \in s
      PROVE  Worth(s) = list[x].amount + Worth(s \ {x})
  <2>1. IsFiniteSet(s) /\ IsFiniteSet(s \ {n}) /\ Cardinality(s \ {n}) \in Nat
    <3>1. IsFiniteSet(1..n)
      BY FS_Interval
    <3>2. QED BY <3>1, FS_Subset, FS_CardinalityType
  <2>2. CASE x = n
    <3>1. (s \ {x}) \ {n} = s \ {n}
      BY <2>2
    <3>2. each * Cardinality(s \ {n}) \in Int
      BY <2>1
    <3>3. list[x].amount = last /\ n \in s /\ n \notin s \ {x}
      BY <2>2
    <3>4. Worth(s) = each * Cardinality(s \ {n}) + last
      BY <3>3
    <3>5. Worth(s \ {x}) = each * Cardinality(s \ {n})
      <4>1. Worth(s \ {x}) = each * Cardinality((s \ {x}) \ {n}) + 0
        BY <3>3
      <4>2. Cardinality((s \ {x}) \ {n}) = Cardinality(s \ {n})
        BY <3>1
      <4> HIDE DEF Worth
      <4>3. QED BY <3>2, <4>1, <4>2
    <3> HIDE DEF Worth
    <3>6. QED BY <3>2, <3>3, <3>4, <3>5
  <2>3. CASE x # n
    <3>1. (s \ {x}) \ {n} = (s \ {n}) \ {x} /\ x \in s \ {n} /\ (n \in s <=> n \in s \ {x})
      BY <2>3
    <3>2. Cardinality((s \ {n}) \ {x}) = Cardinality(s \ {n}) - 1
      BY <2>1, <3>1, FS_RemoveElement
    <3> DEFINE c == Cardinality(s \ {n})
               d == Cardinality((s \ {x}) \ {n})
    <3>3. c \in Int /\ d = c - 1
      <4>1. d = Cardinality((s \ {n}) \ {x})
        BY <3>1
      <4>2. QED BY <2>1, <3>2, <4>1
    <3> HIDE DEF c, d
    <3>4. each * c = each + each * d
      BY <3>3
    <3>5. each * c = each * Cardinality(s \ {n}) /\ each * d = each * Cardinality((s \ {x}) \ {n})
      BY DEF c, d
    <3>6. each * d \in Int
      BY <3>3
    <3>7. list[x].amount = each
      BY <2>3
    <3>8. QED BY <3>1, <3>4, <3>5, <3>6, <3>7
  <2>4. QED BY <2>2, <2>3
<1>3. Worth({}) = 0
  <2>1. {} \ {n} = {}
    OBVIOUS
  <2>2. QED BY <2>1, FS_EmptySet
<1>4. Worth(S) = each * (n - 1) + last
  <2>1. (1..n) \ {n} = 1..(n - 1) /\ n \in 1..n
    OBVIOUS
  <2>2. n - 1 \in Nat /\ Cardinality(1..(n - 1)) = n - 1
    BY FS_Interval
  <2>3. Cardinality((1..n) \ {n}) = n - 1
    BY <2>1, <2>2
  <2>4. Cardinality(S \ {n}) = n - 1 /\ n \in S
    BY <2>1, <2>3
  <2> HIDE DEF S
  <2>5. QED BY <2>4
<1> DEFINE worth == [s \in SUBSET S |-> Worth(s)]
<1>5. worth = Summed(worth)
  <2>1. ASSUME NEW s \in SUBSET S, s # {}
        PROVE  Worth(s) = LET x == CHOOSE x \in s : TRUE IN list[x].amount + worth[s \ {x}]
    <3> DEFINE x == CHOOSE x \in s : TRUE
    <3>1. x \in s
      BY <2>1
    <3>2. worth[s \ {x}] = Worth(s \ {x})
      OBVIOUS
    <3> HIDE DEF x, Worth, worth
    <3>3. Worth(s) = list[x].amount + worth[s \ {x}]
      BY <1>2, <2>1, <3>1, <3>2
    <3>4. QED BY <3>3 DEF x
  <2> HIDE DEF Worth
  <2>2. QED BY <1>3, <2>1
<1>6. sum = Summed(sum)
  <2> HIDE DEF worth, Summed
  <2>1. QED BY <1>5
<1> DEFINE P == {s \in SUBSET S : sum[s] = Worth(s)}
<1>7. ASSUME NEW s \in SUBSET S, \A u \in (SUBSET s) \ {s} : u \in P
      PROVE  s \in P
  <2>1. CASE s = {}
    <3> HIDE DEF sum, Worth
    <3>1. sum[s] = 0
      BY <1>6, <2>1
    <3>2. QED BY <1>3, <2>1, <3>1
  <2>2. CASE s # {}
    <3> DEFINE x == CHOOSE x \in s : TRUE
    <3>1. x \in s
      BY <2>2
    <3> HIDE DEF sum, Worth
    <3>2. sum[s] = list[x].amount + sum[s \ {x}]
      BY <1>6, <2>2
    <3> HIDE DEF x
    <3>3. sum[s \ {x}] = Worth(s \ {x})
      BY <1>7, <3>1
    <3>4. QED BY <1>2, <2>2, <3>1, <3>2, <3>3
  <2>3. QED BY <2>1, <2>2
<1>8. S \in P
  <2>1. IsFiniteSet(S) /\ P \in SUBSET (SUBSET S)
    BY FS_Interval
  <2> HIDE DEF P, S
  <2>2. QED BY <1>7, <2>1, StrongSubsetInduction
<1> HIDE DEF Worth, sum
<1>9. QED BY <1>1, <1>4, <1>8

LEMMA LastDays == \A month : LastDay(month) \in Nat
BY DEF LastDay

LEMMA ScheduleMeets ==
    ASSUME NEW total \in Nat \ {0}, NEW n \in Nat \ {0}, NEW frequency,
           NEW start \in [month : Nat, day : Nat], start.day <= LastDay(start.month),
           NEW list, list = GeneratePlanSchedule(total, n, start, frequency)
    PROVE  /\ Len(list) = n
           /\ AmountTotal(list) = total
           /\ 2 * total >= n * (n - 1) => list[n].amount >= 0
           /\ list[1].dueDate = start
           /\ \A i \in DOMAIN list :
                 LET due == list[i].dueDate
                 IN  /\ due.month = start.month + (i - 1) * MonthsPerStep(frequency)
                     /\ due.day = Smaller(start.day, LastDay(due.month))
<1> DEFINE base == RoundedQuotient(total, n)
           last == base + (total - base * n)
           due == BuildDueDates(start, n, frequency)
<1>1. base \in Int
  BY QuotientBounds
<1>2. list = [i \in 1..n |-> [amount |-> IF i = n THEN last ELSE base, dueDate |-> due[i]]]
  BY DEF GeneratePlanSchedule
<1>3. last \in Int /\ base * (n - 1) + last = total
  <2> HIDE DEF base
  <2>1. QED BY <1>1
<1>4. ASSUME 2 * total >= n * (n - 1) PROVE last >= 0
  <2>1. (2 * n) * base <= 2 * total + n
    BY QuotientBounds
  <2> HIDE DEF base
  <2>2. (n - 1) * ((2 * n) * base) <= (n - 1) * (2 * total + n)
    BY <1>1, <2>1
  <2>3. (n - 1) * ((2 * n) * base) = (2 * n) * (base * (n - 1))
    BY <1>1
  <2>4. (n - 1) * (2 * total + n) = (2 * n) * total - 2 * total + n * (n - 1)
    OBVIOUS
  <2>5. (2 * n) * (base * (n - 1)) <= (2 * n) * total
    BY <1>1, <1>4, <2>2, <2>3, <2>4
  <2>6. base * (n - 1) <= total
    BY <1>1, <2>5, ProductCancels
  <2>7. QED BY <1>1, <1>3, <2>6
<1>5. ASSUME NEW i \in 1..n
      PROVE  /\ due[i].month = start.month + (i - 1) * MonthsPerStep(frequency)
             /\ due[i].day = Smaller(start.day, LastDay(due[i].month))
  BY DEF BuildDueDates, AddMonthsClipped
<1>6. due[1] = start
  <2>1. start.month + (1 - 1) * MonthsPerStep(frequency) = start.month
    BY DEF MonthsPerStep
  <2>2. due[1] = AddMonthsClipped(start, (1 - 1) * MonthsPerStep(frequency))
    BY DEF BuildDueDates
  <2>3. Smaller(start.day, LastDay(start.month)) = start.day
    BY LastDays DEF Smaller
  <2>4. QED BY <2>1, <2>2, <2>3 DEF AddMonthsClipped
<1> HIDE DEF base, last, due
<1>7. DOMAIN list = 1..n /\ Len(list) = n
  BY <1>2
<1>8. AmountTotal(list) = base * (n - 1) + last
  <2>1. Pays(list, n, base, last)
    BY <1>2, <1>7 DEF Pays
  <2>2. QED BY <1>1, <1>3, <2>1, ScheduleSum
<1>9. /\ list[n].amount = last /\ list[1].dueDate = due[1]
      /\ \A i \in 1..n : list[i].dueDate = due[i]
  BY <1>2
<1>10. AmountTotal(list) = total
  BY <1>3, <1>8
<1>11. \A i \in DOMAIN list :
          LET date == list[i].dueDate
          IN  /\ date.month = start.month + (i - 1) * MonthsPerStep(frequency)
              /\ date.day = Smaller(start.day, LastDay(date.month))
  BY <1>5, <1>7, <1>9
<1>12. QED
  BY <1>4, <1>6, <1>7, <1>9, <1>10, <1>11
-----------------------------------------------------------------------------
(* What a computation was asked, and what it answered. *)

PlanAsked ==
    \E total \in PlanTotals, n \in 1..MaxInstalments, month \in 0..23,
       day \in StartDays, frequency \in {"MONTHLY", "QUARTERLY"} :
       /\ day <= LastDay(month)
       /\ terms = [total |-> total, n |-> n, frequency |-> frequency,
                   start |-> [month |-> month, day |-> day]]

AllocationAsked ==
    /\ strategy \in Strategies /\ payment \in PaymentAmounts
    /\ \E n \in 0..MaxCharges : \E list \in [1..n -> LineTerms] : open = Charges(list)

AlgorithmInv ==
    /\ outcome # Pending => part = "algorithm"
    /\ part = "algorithm" => (terms = NoTerms /\ AllocationAsked) \/ PlanAsked
    /\ \/ outcome = Pending
       \/ terms = NoTerms /\ outcome = AllocatePayment(strategy, payment, open)
       \/ terms # NoTerms /\ outcome = [instalments |->
             GeneratePlanSchedule(terms.total, terms.n, terms.start, terms.frequency)]

\* An answer is the answer to the question asked.
LEMMA AnswersAreAnswers == PartsSpec => []AlgorithmInv
<1>1. PartsInit => AlgorithmInv
  <2> SUFFICES ASSUME PartsInit PROVE AlgorithmInv
    OBVIOUS
  <2>1. outcome = Pending
    BY DEF PartsInit, AlgorithmInit
  <2>2. ASSUME Allocations PROVE AllocationAsked /\ terms = NoTerms
    BY <2>2 DEF Allocations, AllocationAsked
  <2>3. ASSUME PlanTerms PROVE PlanAsked
    BY <2>3 DEF PlanTerms, PlanAsked
  <2>4. part = "algorithm" => Allocations \/ PlanTerms
    BY DEF PartsInit, AlgorithmInit
  <2>5. QED BY <2>1, <2>2, <2>3, <2>4 DEF AlgorithmInv
<1>2. ASSUME AlgorithmInv, [Planning \/ Computing]_<<part, vars, algorithmVars>>
      PROVE  AlgorithmInv'
  <2>1. UNCHANGED inputs /\ UNCHANGED part
    BY <1>2 DEF Planning, Computing, AlgorithmNext, Allocate, GenerateSchedule, algorithmVars
  <2>2. terms' = terms /\ strategy' = strategy /\ payment' = payment /\ open' = open /\ part' = part
    BY <2>1 DEF inputs
  <2>3. (AllocationAsked <=> AllocationAsked') /\ (PlanAsked <=> PlanAsked')
    BY <2>2 DEF AllocationAsked, PlanAsked
  <2>4. CASE Computing
    <3>1. part = "algorithm"
      BY <2>4 DEF Computing
    <3>2. \/ terms = NoTerms /\ outcome' = AllocatePayment(strategy, payment, open)
          \/ terms # NoTerms /\ outcome' = [instalments |->
               GeneratePlanSchedule(terms.total, terms.n, terms.start, terms.frequency)]
      BY <2>4 DEF Computing, AlgorithmNext, Allocate, GenerateSchedule
    <3>3. QED BY <1>2, <2>2, <2>3, <3>1, <3>2 DEF AlgorithmInv
  <2>5. CASE outcome' = outcome
    BY <1>2, <2>2, <2>3, <2>5 DEF AlgorithmInv
  <2>6. QED
    BY <1>2, <2>4, <2>5 DEF Planning, algorithmVars
<1>3. QED BY <1>1, <1>2, PTL DEF PartsSpec

LEMMA AnsweredAllocation ==
    AlgorithmInv /\ Answered =>
        AllocationAsked /\ outcome = AllocatePayment(strategy, payment, open)
<1> SUFFICES ASSUME AlgorithmInv, Answered
             PROVE  AllocationAsked /\ outcome = AllocatePayment(strategy, payment, open)
  OBVIOUS
<1>1. terms = NoTerms /\ outcome # Pending
  BY DEF Answered
<1>2. ~PlanAsked
  <2>1. SUFFICES ASSUME PlanAsked PROVE FALSE
    OBVIOUS
  <2>2. terms.n # 0
    BY <2>1, AlgorithmAssumption DEF PlanAsked, AlgorithmAssumption
  <2>3. QED BY <1>1, <2>2 DEF NoTerms
<1>3. QED BY <1>1, <1>2 DEF AlgorithmInv

\* Every schedule that is generated adds up to the plan's total, pays it with a
\* last instalment that is no refund, and falls due a step at a time on the day
\* the plan started.
THEOREM ScheduleContractHolds == PartsSpec => []ScheduleContract
<1>1. AlgorithmInv => ScheduleContract
  <2> SUFFICES ASSUME AlgorithmInv, Scheduled PROVE ScheduleContract
    BY DEF ScheduleContract
  <2>1. PlanAsked
    BY DEF AlgorithmInv, Scheduled
  <2>2. PICK total \in PlanTotals, n \in 1..MaxInstalments, month \in 0..23,
             day \in StartDays, frequency \in {"MONTHLY", "QUARTERLY"} :
          /\ day <= LastDay(month)
          /\ terms = [total |-> total, n |-> n, frequency |-> frequency,
                      start |-> [month |-> month, day |-> day]]
    BY <2>1 DEF PlanAsked
  <2> DEFINE start == [month |-> month, day |-> day]
             list == GeneratePlanSchedule(total, n, start, frequency)
  <2>3. /\ terms.total = total /\ terms.n = n /\ terms.start = start
        /\ terms.frequency = frequency
    BY <2>2
  <2>4. outcome = [instalments |-> list]
    BY <2>3 DEF AlgorithmInv, Scheduled
  <2>5. outcome.instalments = list
    BY <2>4
  <2>6. total \in Nat \ {0} /\ n \in Nat \ {0} /\ month \in Nat /\ day \in Nat
    BY AlgorithmAssumption DEF AlgorithmAssumption
  <2> HIDE DEF list
  <2>7. /\ Len(list) = n /\ AmountTotal(list) = total
        /\ 2 * total >= n * (n - 1) => list[n].amount >= 0
        /\ list[1].dueDate = start
        /\ \A i \in DOMAIN list :
              LET due == list[i].dueDate
              IN  /\ due.month = start.month + (i - 1) * MonthsPerStep(frequency)
                  /\ due.day = Smaller(start.day, LastDay(due.month))
    <3> HIDE DEF start
    <3>1. start \in [month : Nat, day : Nat]
      BY <2>6 DEF start
    <3>2. list = GeneratePlanSchedule(total, n, start, frequency)
      BY DEF list
    <3>3. start.day <= LastDay(start.month)
      BY <2>2 DEF start
    <3>4. QED BY <2>6, <3>1, <3>2, <3>3, ScheduleMeets
  <2> HIDE DEF start
  <2>8. QED BY <2>3, <2>5, <2>7 DEF ScheduleContract
<1>2. QED BY <1>1, AnswersAreAnswers, PTL

-----------------------------------------------------------------------------
(* ---- allocatePayment: PROPORTIONAL -------------------------------------- *)

\* One proportional share of P pence out of T, for a charge that owes "due".
LEMMA ShareBounds ==
    ASSUME NEW T \in Nat \ {0}, NEW P \in 0..T, NEW due \in Nat,
           NEW share, share = RoundedQuotient(due * P, T)
    PROVE  /\ share \in 0..due
           /\ (2 * T) * share <= (2 * P) * due + T
           /\ P = T => share = due
<1>1. due * P \in Nat /\ due * P <= due * T
  OBVIOUS
<1>2. /\ share \in Int
      /\ (2 * T) * share <= 2 * (due * P) + T
      /\ 2 * (due * P) - T < (2 * T) * share
  BY <1>1, QuotientBounds
<1>3. share >= 0
  <2>1. SUFFICES ASSUME share <= -1 PROVE FALSE
    BY <1>2
  <2>2. (2 * T) * share <= (2 * T) * (-1)
    BY <1>2, <2>1
  <2>3. QED BY <1>1, <1>2, <2>2
<1>4. share <= due
  <2>1. SUFFICES ASSUME share >= due + 1 PROVE FALSE
    BY <1>2
  <2>2. (2 * T) * (due + 1) <= (2 * T) * share
    BY <1>2, <2>1
  <2>3. (2 * T) * (due + 1) = 2 * (due * T) + 2 * T
    OBVIOUS
  <2>4. due * T \in Nat
    OBVIOUS
  <2>5. QED BY <1>1, <1>2, <2>2, <2>3, <2>4
<1>5. ASSUME P = T PROVE share >= due
  <2>1. SUFFICES ASSUME share <= due - 1 PROVE FALSE
    BY <1>2
  <2>2. (2 * T) * share <= (2 * T) * (due - 1)
    BY <1>2, <2>1
  <2>3. (2 * T) * (due - 1) = 2 * (due * T) - 2 * T
    OBVIOUS
  <2>4. due * T \in Nat /\ due * P = due * T
    BY <1>5
  <2>5. QED BY <1>2, <2>2, <2>3, <2>4
<1>6. 2 * (due * P) = (2 * P) * due
  OBVIOUS
<1>7. QED BY <1>2, <1>3, <1>4, <1>5, <1>6

\* All the shares of some of the charges together.
LEMMA SharesBound ==
    ASSUME NEW S, IsFiniteSet(S), NEW T \in Nat \ {0}, NEW P \in 0..T,
           NEW due, NEW share,
           \A i \in S : due[i] \in Nat /\ share[i] = RoundedQuotient(due[i] * P, T)
    PROVE  (2 * T) * Total(share, S) <= (2 * P) * Total(due, S) + Cardinality(S) * T
<1> DEFINE Bounded(U) == (2 * T) * Total(share, U) <= (2 * P) * Total(due, U) + Cardinality(U) * T
           Q == {U \in SUBSET S : Bounded(U)}
<1>1. \A i \in S : /\ share[i] \in Nat
                   /\ (2 * T) * share[i] <= (2 * P) * due[i] + T
  <2> TAKE i \in S
  <2>1. due[i] \in Nat /\ share[i] = RoundedQuotient(due[i] * P, T)
    OBVIOUS
  <2>2. share[i] \in 0..due[i] /\ (2 * T) * share[i] <= (2 * P) * due[i] + T
    BY <2>1, ShareBounds
  <2>3. QED BY <2>2
<1>2. {} \in Q
  <2>1. Total(share, {}) = 0 /\ Total(due, {}) = 0 /\ Cardinality({}) = 0
    BY TotalEmpty, FS_EmptySet
  <2>2. (2 * T) * 0 <= (2 * P) * 0 + 0 * T
    OBVIOUS
  <2>3. QED BY <2>1, <2>2
<1>3. ASSUME NEW U \in Q, NEW x \in S \ U PROVE U \cup {x} \in Q
  <2>1. U \in SUBSET S /\ Bounded(U)
    BY <1>3
  <2>2. Total(share, U \cup {x}) = share[x] + Total(share, U) /\ Total(share, U) \in Nat
    BY <1>1, <2>1, TotalAdd
  <2>3. Total(due, U \cup {x}) = due[x] + Total(due, U) /\ Total(due, U) \in Nat
    BY <2>1, TotalAdd
  <2>4. Cardinality(U \cup {x}) = Cardinality(U) + 1 /\ Cardinality(U) \in Nat
    BY <2>1, FS_Subset, FS_AddElement, FS_CardinalityType
  <2> DEFINE a == Total(share, U)
             b == Total(due, U)
             c == Cardinality(U)
  <2>5. a \in Nat /\ b \in Nat /\ c \in Nat /\ share[x] \in Nat /\ due[x] \in Nat
    BY <1>1, <2>2, <2>3, <2>4
  <2>6. (2 * T) * a <= (2 * P) * b + c * T
    BY <2>1
  <2> HIDE DEF a, b, c, Bounded
  <2>7. (2 * T) * (share[x] + a) <= (2 * P) * (due[x] + b) + (c + 1) * T
    <3>1. (2 * T) * (share[x] + a) = (2 * T) * share[x] + (2 * T) * a
      BY <2>5
    <3>2. (2 * P) * (due[x] + b) = (2 * P) * due[x] + (2 * P) * b
      BY <2>5
    <3>3. (c + 1) * T = c * T + T
      BY <2>5
    <3>4. (2 * T) * share[x] <= (2 * P) * due[x] + T
      BY <1>1
    <3>5. /\ (2 * T) * share[x] \in Int /\ (2 * T) * a \in Int /\ (2 * P) * due[x] \in Int
          /\ (2 * P) * b \in Int /\ c * T \in Int
      BY <2>5
    <3>6. QED BY <2>6, <3>1, <3>2, <3>3, <3>4, <3>5
  <2>8. Bounded(U \cup {x})
    BY <2>2, <2>3, <2>4, <2>7 DEF Bounded, a, b, c
  <2>9. QED BY <2>1, <2>8
<1>4. S \in Q
  <2>1. Q \in SUBSET (SUBSET S)
    OBVIOUS
  <2> HIDE DEF Q
  <2>2. QED BY <1>2, <1>3, <2>1, SubsetInduction
<1>5. QED BY <1>4

\* The sums that the algorithm folds are totals.
LEMMA FoldIsTotal ==
    ASSUME NEW n \in Nat, NEW f, \A i \in 1..n : f[i] \in Nat,
           NEW sum, sum = CHOOSE g : g = Summing(f, 1..n, g)
    PROVE  sum[1..n] = Total(f, 1..n)
<1>1. IsFiniteSet(1..n)
  BY FS_Interval
<1>2. \E g : g = Summing(f, 1..n, g)
  BY <1>1, SumExists
<1>3. sum = Summing(f, 1..n, sum)
  BY <1>2
<1>4. QED BY <1>1, <1>3, SumIsTotal

Amounts(lines) == [i \in DOMAIN lines |-> lines[i].amount]
Dues(bills) == [i \in DOMAIN bills |-> OutstandingFor(bills[i])]

LEMMA LineTotalIsTotal ==
    ASSUME NEW n \in Nat, NEW lines, DOMAIN lines = 1..n,
           \A i \in 1..n : lines[i].amount \in Nat
    PROVE  LineTotal(lines) = Total(Amounts(lines), 1..n)
<1> DEFINE S == 1..n
           Summed(g) == [s \in SUBSET S |->
              IF s = {} THEN 0
              ELSE LET x == CHOOSE x \in s : TRUE IN lines[x].amount + g[s \ {x}]]
           sum == CHOOSE g : g = Summed(g)
<1>1. LineTotal(lines) = sum[S]
  BY DEF LineTotal, FoldSeq, FoldFunction, FoldFunctionOnSet, MapThenFoldSet
<1>2. ASSUME NEW g PROVE Summing(Amounts(lines), S, g) = Summed(g)
  <2>1. ASSUME NEW s \in SUBSET S, s # {}
        PROVE  LET x == CHOOSE x \in s : TRUE IN Amounts(lines)[x] = lines[x].amount
    BY <2>1 DEF Amounts
  <2>2. QED BY <2>1 DEF Summing
<1>3. sum = CHOOSE g : g = Summing(Amounts(lines), S, g)
  <2> HIDE DEF Summed
  <2>1. QED BY <1>2
<1>4. \A i \in 1..n : Amounts(lines)[i] \in Nat
  BY DEF Amounts
<1> HIDE DEF sum
<1>5. QED BY <1>1, <1>3, <1>4, FoldIsTotal

LEMMA DueIsTotal ==
    ASSUME NEW n \in Nat, NEW bills, DOMAIN bills = 1..n,
           \A i \in 1..n : OutstandingFor(bills[i]) \in Nat
    PROVE  TotalDue(bills) = Total(Dues(bills), 1..n)
<1> DEFINE S == 1..n
           Summed(g) == [s \in SUBSET S |->
              IF s = {} THEN 0
              ELSE LET x == CHOOSE x \in s : TRUE IN OutstandingFor(bills[x]) + g[s \ {x}]]
           sum == CHOOSE g : g = Summed(g)
<1>1. TotalDue(bills) = sum[S]
  BY DEF TotalDue, FoldSeq, FoldFunction, FoldFunctionOnSet, MapThenFoldSet
<1>2. ASSUME NEW g PROVE Summing(Dues(bills), S, g) = Summed(g)
  <2>1. ASSUME NEW s \in SUBSET S, s # {}
        PROVE  LET x == CHOOSE x \in s : TRUE IN Dues(bills)[x] = OutstandingFor(bills[x])
    BY <2>1 DEF Dues
  <2>2. QED BY <2>1 DEF Summing
<1>3. sum = CHOOSE g : g = Summing(Dues(bills), S, g)
  <2> HIDE DEF Summed
  <2>1. QED BY <1>2
<1>4. \A i \in 1..n : Dues(bills)[i] \in Nat
  BY DEF Dues
<1> HIDE DEF sum
<1>5. QED BY <1>1, <1>3, <1>4, FoldIsTotal

LEMMA LineMeets ==
    ASSUME NEW charge, OutstandingFor(charge) \in Nat, NEW a \in 0..OutstandingFor(charge)
    PROVE  LET line == Line(charge, a)
           IN  /\ line.id = charge.id /\ line.before = OutstandingFor(charge)
               /\ line.amount = a
               /\ line.full <=> line.before > 0 /\ line.amount = line.before
<1> DEFINE line == Line(charge, a)
<1>1. /\ line.id = charge.id /\ line.before = OutstandingFor(charge) /\ line.amount = a
      /\ line.full = (OutstandingFor(charge) > 0 /\ a >= OutstandingFor(charge))
  BY DEF Line
<1> HIDE DEF line
<1>2. OutstandingFor(charge) > 0 /\ a >= OutstandingFor(charge)
          <=> line.before > 0 /\ line.amount = line.before
  BY <1>1
<1>3. QED BY <1>1, <1>2 DEF line

FairLine(line, charge) ==
    /\ line.before = OutstandingFor(charge)
    /\ line.amount \in 0..line.before
    /\ line.full <=> line.before > 0 /\ line.amount = line.before

LEMMA LineIsFair ==
    ASSUME NEW charge, OutstandingFor(charge) \in Nat, NEW a \in 0..OutstandingFor(charge)
    PROVE  FairLine(Line(charge, a), charge)
BY LineMeets DEF FairLine

LEMMA DriftIndexExists ==
    ASSUME NEW n \in Nat, NEW lines, DOMAIN lines = 1..n,
           NEW i \in 1..n, lines[i].before > 0
    PROVE  /\ DriftIndex(lines) \in 1..n
           /\ LET last == DriftIndex(lines)
              IN  lines[last].amount > 0 \/ lines[last].before > 0
           /\ \A j \in 1..n : j > DriftIndex(lines) => ~(lines[j].before > 0)
<1> DEFINE X == {0} \cup {j \in DOMAIN lines : lines[j].amount > 0 \/ lines[j].before > 0}
           last == DriftIndex(lines)
<1>1. i \in X /\ X \subseteq 0..n /\ X \in SUBSET Int
  OBVIOUS
<1>2. IsFiniteSet(X)
  <2>1. IsFiniteSet(0..n)
    BY FS_Interval
  <2>2. QED BY <1>1, <2>1, FS_Subset
<1>3. \E x \in X : \A y \in X : x >= y
  <2> HIDE DEF X
  <2>1. QED BY <1>1, <1>2, GreatestExists
<1>4. last \in X /\ \A y \in X : last >= y
  BY <1>3 DEF DriftIndex, Max
<1>5. last >= i
  BY <1>1, <1>4
<1>6. last \in 1..n
  BY <1>1, <1>4, <1>5
<1>7. ASSUME NEW j \in 1..n, j > last PROVE ~(lines[j].before > 0)
  BY <1>4, <1>6, <1>7
<1>8. QED BY <1>4, <1>6, <1>7

OpenList(bills, n) ==
    n \in Nat /\ DOMAIN bills = 1..n /\ \A i \in 1..n : OutstandingFor(bills[i]) \in Nat

\* What an allocation hands out: fair lines, and everything when the payment covers it.
HandsOut(lines, bills, n, pay) ==
    /\ \A k \in DOMAIN lines : \E i \in 1..n : FairLine(lines[k], bills[i])
    /\ pay >= TotalDue(bills) => \A k \in DOMAIN lines : lines[k].amount = lines[k].before
    /\ LineTotal(lines) \in Nat

\* What PROPORTIONAL hands out: no more than the payment, or half pennies more and
\* the last owing charge gets nothing.
LEMMA ProportionalMeets ==
    ASSUME NEW n, NEW bills, OpenList(bills, n),
           NEW pay \in Nat, NEW lines, lines = AllocateProportional(pay, bills)
    PROVE  /\ HandsOut(lines, bills, n, pay)
           /\ \/ LineTotal(lines) <= pay
              \/ LastOwingUnpaid(lines) /\ 2 * (LineTotal(lines) - pay) <= n - 1
<1> SUFFICES /\ DOMAIN lines = 1..n
             /\ \A i \in 1..n : FairLine(lines[i], bills[i])
             /\ pay >= TotalDue(bills) => \A i \in 1..n : lines[i].amount = lines[i].before
             /\ LineTotal(lines) \in Nat
             /\ \/ LineTotal(lines) <= pay
                \/ LastOwingUnpaid(lines) /\ 2 * (LineTotal(lines) - pay) <= n - 1
  BY DEF HandsOut
<1> DEFINE due == Dues(bills)
           T == TotalDue(bills)
           P == Smaller(pay, T)
           Share(c) == IF T <= 0 THEN 0 ELSE RoundedQuotient(OutstandingFor(c) * P, T)
           shares == [i \in 1..n |-> Line(bills[i], Share(bills[i]))]
           share == [i \in 1..n |-> Share(bills[i])]
           drift == P - LineTotal(shares)
           last == DriftIndex(shares)
           x == Absorbed(share[last], drift, due[last])
           amount == [share EXCEPT ![last] = x]
<1> n \in Nat /\ DOMAIN bills = 1..n /\ \A i \in 1..n : OutstandingFor(bills[i]) \in Nat
  BY DEF OpenList
<1>1. due \in [1..n -> Nat] /\ \A i \in 1..n : due[i] = OutstandingFor(bills[i])
  BY DEF Dues
<1>2. IsFiniteSet(1..n) /\ Cardinality(1..n) = n
  BY FS_Interval
<1>3. T = Total(due, 1..n) /\ T \in Nat
  BY <1>1, <1>2, DueIsTotal, TotalType
<1>4. P \in 0..T /\ P <= pay /\ (pay >= T => P = T)
  BY <1>3 DEF Smaller
<1>5. lines = [i \in 1..n |-> IF drift # 0 /\ i = last
                              THEN Line(bills[i], Absorbed(shares[i].amount, drift, shares[i].before))
                              ELSE shares[i]]
  BY DEF AllocateProportional
<1>6. \A i \in 1..n : /\ share[i] \in 0..due[i] /\ (P = T => share[i] = due[i])
                      /\ T > 0 => share[i] = RoundedQuotient(due[i] * P, T)
  <2> TAKE i \in 1..n
  <2>1. share[i] = IF T <= 0 THEN 0 ELSE RoundedQuotient(due[i] * P, T)
    BY <1>1
  <2> HIDE DEF share, T, P, due
  <2>2. CASE T = 0
    <3>1. T = due[i] + Total(due, (1..n) \ {i}) /\ Total(due, (1..n) \ {i}) \in Nat
      BY <1>1, <1>2, <1>3, TotalSplit, TotalType, FS_Subset
    <3>2. QED BY <1>1, <2>1, <2>2, <3>1
  <2>3. CASE T # 0
    <3>1. T \in Nat \ {0} /\ due[i] \in Nat
      BY <1>1, <1>3, <2>3
    <3>2. share[i] = RoundedQuotient(due[i] * P, T)
      BY <2>1, <3>1
    <3>3. share[i] \in 0..due[i] /\ (P = T => share[i] = due[i])
      BY <1>4, <3>1, <3>2, ShareBounds
    <3>4. QED BY <3>2, <3>3
  <2>4. QED BY <2>2, <2>3
<1>7. \A i \in 1..n : /\ shares[i] = Line(bills[i], share[i])
                      /\ FairLine(shares[i], bills[i])
                      /\ shares[i].amount = share[i] /\ shares[i].before = due[i]
  <2> TAKE i \in 1..n
  <2>1. share[i] \in 0..OutstandingFor(bills[i]) /\ OutstandingFor(bills[i]) \in Nat
    BY <1>1, <1>6
  <2>2. shares[i] = Line(bills[i], share[i])
    OBVIOUS
  <2> HIDE DEF share, shares
  <2>3. QED BY <1>1, <2>1, <2>2, LineMeets DEF FairLine
<1> DEFINE A == Total(share, 1..n)
<1>8. LineTotal(shares) = A /\ A \in Nat /\ DOMAIN shares = 1..n
  <2>1. DOMAIN shares = 1..n /\ DOMAIN share = 1..n
    OBVIOUS
  <2> HIDE DEF share, shares
  <2>2. \A i \in 1..n : shares[i].amount \in Nat /\ share[i] \in Nat
    BY <1>1, <1>6, <1>7
  <2>3. LineTotal(shares) = Total(Amounts(shares), 1..n)
    BY <2>1, <2>2, LineTotalIsTotal
  <2>4. Total(Amounts(shares), 1..n) = A
    <3>1. \A i \in 1..n : Amounts(shares)[i] = share[i]
      BY <1>7, <2>1 DEF Amounts
    <3>2. QED BY <3>1, TotalSame
  <2>5. QED BY <1>2, <2>1, <2>2, <2>3, <2>4, TotalType
<1>9. drift \in Int /\ A + drift = P
  BY <1>4, <1>8
<1> HIDE DEF drift, share, shares, last
<1>10. CASE drift = 0
  <2>1. lines = [i \in 1..n |-> shares[i]]
    BY <1>5, <1>10
  <2>2. lines = shares
    BY <1>8, <2>1 DEF shares
  <2>3. LineTotal(lines) <= pay
    BY <1>4, <1>8, <1>9, <1>10, <2>2
  <2>4. pay >= T => \A i \in 1..n : lines[i].amount = lines[i].before
    BY <1>4, <1>6, <1>7, <2>2
  <2>5. QED BY <1>7, <1>8, <2>2, <2>3, <2>4
<1>11. CASE drift # 0
  <2>1. A <= T
    BY <1>1, <1>2, <1>3, <1>6, TotalMonotone
  <2>2. P # T
    <3>1. SUFFICES ASSUME P = T PROVE FALSE
      OBVIOUS
    <3>2. \A i \in 1..n : share[i] = due[i]
      BY <1>6, <3>1
    <3> HIDE DEF due
    <3>3. A = Total(due, 1..n)
      BY <3>2, TotalSame
    <3>4. QED BY <1>3, <1>9, <1>11, <3>1, <3>3
  <2>3. T > 0 /\ ~(pay >= T)
    BY <1>3, <1>4, <2>2
  <2>4. /\ last \in 1..n
        /\ shares[last].amount > 0 \/ shares[last].before > 0
        /\ \A j \in 1..n : j > last => ~(shares[j].before > 0)
    <3>1. PICK i \in 1..n : due[i] > 0
      <4>1. SUFFICES ASSUME \A i \in 1..n : ~(due[i] > 0) PROVE FALSE
        OBVIOUS
      <4>2. \A i \in 1..n : due[i] \in Nat /\ due[i] <= 0
        BY <1>1, <4>1
      <4>3. Total(due, 1..n) <= 0 * Cardinality(1..n)
        BY <1>2, <4>2, TotalBound
      <4>4. QED BY <1>2, <1>3, <2>3, <4>3
    <3>2. QED BY <1>7, <1>8, <3>1, DriftIndexExists DEF last
  <2>5. x \in 0..due[last] /\ x <= AtLeastZero(share[last] + drift)
    BY <1>1, <1>6, <1>9, <2>4 DEF Absorbed, AtLeastZero, Smaller
  <2>6. /\ DOMAIN lines = 1..n
        /\ \A i \in 1..n : lines[i] = Line(bills[i], amount[i])
    <3>1. DOMAIN share = 1..n
      BY DEF share
    <3>2. QED BY <1>5, <1>7, <1>11, <2>4, <3>1
  <2>7. \A i \in 1..n : amount[i] \in 0..due[i]
    <3>1. DOMAIN share = 1..n
      BY DEF share
    <3>2. QED BY <1>6, <2>4, <2>5, <3>1
  <2>8. \A i \in 1..n : FairLine(lines[i], bills[i]) /\ lines[i].amount = amount[i]
    <3> TAKE i \in 1..n
    <3>1. amount[i] \in 0..OutstandingFor(bills[i]) /\ OutstandingFor(bills[i]) \in Nat
      BY <1>1, <2>7
    <3> HIDE DEF amount
    <3>2. QED BY <2>6, <3>1, LineMeets DEF FairLine
  <2>9. LineTotal(lines) = A - share[last] + x
    <3>1. amount[last] = x /\ \A i \in (1..n) \ {last} : amount[i] = share[i]
      <4>1. DOMAIN share = 1..n
        BY DEF share
      <4>2. QED BY <2>4, <4>1
    <3> HIDE DEF amount, x
    <3>2. \A i \in 1..n : amount[i] \in Nat /\ share[i] \in Nat
      BY <1>1, <1>6, <2>7
    <3>3. Total(amount, 1..n) = A - share[last] + amount[last]
      <4> DEFINE S == 1..n
      <4>1. IsFiniteSet(S) /\ last \in S
        BY <1>2, <2>4
      <4>2. \A i \in S : share[i] \in Nat /\ amount[i] \in Nat
        BY <3>2
      <4>3. \A i \in S \ {last} : share[i] = amount[i]
        BY <3>1
      <4> HIDE DEF S, A
      <4>4. Total(amount, S) = Total(share, S) - share[last] + amount[last]
        BY ONLY <4>1, <4>2, <4>3, TotalChange
      <4>5. QED BY <4>4 DEF S, A
    <3>4. LineTotal(lines) = Total(Amounts(lines), 1..n)
      BY <2>6, <2>8, <3>2, LineTotalIsTotal
    <3>5. \A i \in 1..n : Amounts(lines)[i] = amount[i]
      BY <2>6, <2>8 DEF Amounts
    <3>6. Total(Amounts(lines), 1..n) = Total(amount, 1..n)
      BY <3>5, TotalSame
    <3>7. QED BY <3>1, <3>3, <3>4, <3>6
  <2> DEFINE U == (1..n) \ {last}
             a == Total(share, U)
  <2>10. A = share[last] + a /\ a \in Nat
    <3>1. \A i \in 1..n : share[i] \in Nat
      BY <1>1, <1>6
    <3>2. QED BY <1>2, <2>4, <3>1, TotalSplit, TotalType, FS_Subset
  <2>11. LineTotal(lines) = a + x /\ LineTotal(lines) \in Nat
    <3>1. share[last] \in Nat /\ x \in Nat
      BY <1>1, <1>6, <2>4, <2>5
    <3> HIDE DEF x, a, A
    <3>2. QED BY <2>9, <2>10, <3>1
  <2>12. CASE share[last] + drift >= 0
    <3>1. share[last] \in Nat
      BY <1>1, <1>6, <2>4
    <3>2. x <= share[last] + drift /\ x \in Nat
      BY <1>1, <2>4, <2>5, <2>12, <3>1 DEF AtLeastZero
    <3> HIDE DEF x, a, A
    <3>3. LineTotal(lines) <= P
      BY <1>9, <2>10, <2>11, <3>1, <3>2
    <3>4. QED BY <1>4, <2>3, <2>6, <2>8, <2>11, <3>3
  <2>13. CASE share[last] + drift < 0
    <3>1. x = 0
      BY <1>1, <2>4, <2>5, <2>13 DEF AtLeastZero
    <3>2. (2 * T) * a <= (2 * P) * Total(due, U) + Cardinality(U) * T
      <4>1. IsFiniteSet(U)
        BY <1>2, FS_Subset
      <4>2. T \in Nat \ {0} /\ due \in [1..n -> Nat]
        BY <1>1, <1>3, <2>3
      <4>3. \A i \in U : due[i] \in Nat /\ share[i] = RoundedQuotient(due[i] * P, T)
        BY <1>1, <1>6, <2>3
      <4>4. due \in [1..n -> Nat] /\ P \in 0..T
        BY <1>4, <4>2
      <4> HIDE DEF T, P, due, U
      <4>5. QED BY <4>1, <4>2, <4>3, <4>4, SharesBound
    <3>3. Cardinality(U) = n - 1
      BY <1>2, <2>4, FS_RemoveElement
    <3>4. Total(due, U) \in 0..T
      <4>1. \A i \in 1..n : due[i] \in Nat
        BY <1>1
      <4>2. U \in SUBSET (1..n) /\ IsFiniteSet(U)
        BY <1>2, FS_Subset
      <4> HIDE DEF due, T, U
      <4>3. Total(due, U) \in Nat
        BY <4>1, <4>2, TotalType
      <4>4. Total(due, U) <= T
        BY <1>2, <1>3, <4>1, <4>2, TotalSubset
      <4>5. QED BY <1>3, <4>3, <4>4
    <3> DEFINE d == Total(due, U)
    <3>5. P \in Nat /\ T \in Nat \ {0} /\ n - 1 \in Nat /\ a \in Nat /\ d \in 0..T
      BY <1>3, <1>4, <2>3, <2>4, <2>10, <3>4
    <3>6. (2 * T) * a <= (2 * P) * d + (n - 1) * T
      BY <3>2, <3>3
    <3> HIDE DEF T, P, a, d, x
    <3>7. (2 * P) * d <= (2 * P) * T
      BY <3>5
    <3>8. T * (2 * a) <= T * (2 * P + (n - 1))
      <4>1. (2 * T) * a = T * (2 * a)
        BY <3>5
      <4>2. T * (2 * P + (n - 1)) = (2 * P) * T + (n - 1) * T
        BY <3>5
      <4>3. /\ (2 * P) * T \in Int /\ (n - 1) * T \in Int /\ (2 * P) * d \in Int
            /\ (2 * T) * a \in Int
        BY <3>5
      <4>4. QED BY <3>6, <3>7, <4>1, <4>2, <4>3
    <3>9. 2 * a <= 2 * P + (n - 1)
      BY <3>5, <3>8, ProductCancels
    <3>10. 2 * (LineTotal(lines) - pay) <= n - 1
      BY <1>4, <2>11, <3>1, <3>5, <3>9
    <3>11. LastOwingUnpaid(lines)
      <4>1. amount[last] = 0
        <5>1. DOMAIN share = 1..n
          BY DEF share
        <5>2. QED BY <2>4, <3>1, <5>1 DEF amount
      <4>2. \A i \in 1..n : lines[i].before = due[i] /\ due[i] \in Nat
        BY <1>1, <2>8 DEF FairLine
      <4>3. due[last] > 0 /\ \A j \in 1..n : j > last => due[j] = 0
        <5>1. due[last] \in Nat /\ share[last] \in 0..due[last]
          BY <1>1, <1>6, <2>4
        <5>2. due[last] > 0
          BY <1>7, <2>4, <5>1
        <5>3. QED BY <1>7, <2>4, <4>2, <5>2
      <4>4. lines[last].before > 0 /\ lines[last].amount = 0
        BY <2>4, <2>8, <4>1, <4>2, <4>3
      <4>5. \A j \in DOMAIN lines : j > last => lines[j].before = 0
        BY <2>6, <4>2, <4>3
      <4>6. QED BY <2>4, <2>6, <4>4, <4>5 DEF LastOwingUnpaid
    <3>12. QED BY <2>3, <2>6, <2>8, <2>11, <3>10, <3>11 DEF T
  <2>14. QED
    <3>1. share[last] \in Int
      BY <1>1, <1>6, <2>4
    <3>2. QED BY <1>9, <2>12, <2>13, <3>1
<1>12. QED BY <1>10, <1>11

-----------------------------------------------------------------------------
(* ---- allocatePayment: FIFO ---------------------------------------------- *)

DatedList(bills, n) ==
    /\ n \in Nat /\ DOMAIN bills = 1..n
    /\ \A i \in 1..n : bills[i].due \in Int /\ bills[i].created \in Int /\ bills[i].id \in Int

\* The charges are totally ordered: due date, creation, id, place in the list.
LEMMA PrecedesIsTotal ==
    ASSUME NEW n, NEW bills, DatedList(bills, n), NEW i \in 1..n, NEW j \in 1..n
    PROVE  /\ ~Precedes(bills, i, i)
           /\ i # j => Precedes(bills, i, j) \/ Precedes(bills, j, i)
           /\ ~(Precedes(bills, i, j) /\ Precedes(bills, j, i))
BY DEF DatedList, Precedes, PaidBefore

LEMMA PrecedesIsTransitive ==
    ASSUME NEW n, NEW bills, DatedList(bills, n), NEW i \in 1..n, NEW j \in 1..n, NEW k \in 1..n,
           Precedes(bills, i, j), Precedes(bills, j, k)
    PROVE  Precedes(bills, i, k)
<1> DEFINE Typed(c) == c.due \in Int /\ c.created \in Int /\ c.id \in Int
<1>1. Typed(bills[i]) /\ Typed(bills[j]) /\ Typed(bills[k]) /\ i \in Int /\ j \in Int /\ k \in Int
  BY DEF DatedList
<1>2. ASSUME NEW a, NEW b, NEW c, Typed(a), Typed(b), Typed(c)
      PROVE  /\ PaidBefore(a, b) /\ PaidBefore(b, c) => PaidBefore(a, c)
             /\ PaidBefore(a, b) /\ ~PaidBefore(c, b) => PaidBefore(a, c)
             /\ ~PaidBefore(b, a) /\ PaidBefore(b, c) => PaidBefore(a, c)
             /\ ~PaidBefore(b, a) /\ ~PaidBefore(c, b) => ~PaidBefore(c, a)
  BY <1>2 DEF PaidBefore
<1> HIDE DEF Typed
<1>3. QED
  BY <1>1, <1>2 DEF Precedes

Ahead(bills, i) == {j \in Owing(bills) : Precedes(bills, j, i)}
Rank(bills, i)  == Cardinality(Ahead(bills, i)) + 1

LEMMA RankOrders ==
    ASSUME NEW n, NEW bills, DatedList(bills, n),
           NEW i \in Owing(bills), NEW j \in Owing(bills)
    PROVE  /\ Rank(bills, i) \in 1..Cardinality(Owing(bills))
           /\ Precedes(bills, j, i) <=> Rank(bills, j) < Rank(bills, i)
<1> DEFINE W == Owing(bills)
<1>1. W \subseteq 1..n /\ IsFiniteSet(W)
  <2>1. W \subseteq 1..n /\ n \in Int
    BY DEF Owing, DatedList
  <2>2. IsFiniteSet(1..n)
    BY <2>1, FS_Interval
  <2>3. QED BY <2>1, <2>2, FS_Subset
<1>2. \A k \in W : IsFiniteSet(Ahead(bills, k)) /\ Cardinality(Ahead(bills, k)) \in Nat
  <2>1. \A k \in W : Ahead(bills, k) \in SUBSET W
    BY DEF Ahead
  <2>2. QED BY <1>1, <2>1, FS_Subset, FS_CardinalityType
<1>3. Rank(bills, i) \in 1..Cardinality(W)
  <2>1. Ahead(bills, i) \subseteq W \ {i}
    BY <1>1, PrecedesIsTotal DEF Ahead
  <2>2. IsFiniteSet(W \ {i}) /\ Cardinality(W \ {i}) = Cardinality(W) - 1 /\ Cardinality(W) \in Nat
    BY <1>1, FS_RemoveElement, FS_CardinalityType
  <2>3. Cardinality(Ahead(bills, i)) <= Cardinality(W \ {i})
    BY <2>1, <2>2, FS_Subset
  <2>4. QED BY <1>2, <2>2, <2>3 DEF Rank
<1>4. ASSUME NEW k \in W, NEW l \in W, Precedes(bills, k, l)
      PROVE  Rank(bills, k) < Rank(bills, l)
  <2>1. Ahead(bills, k) \subseteq Ahead(bills, l)
    BY <1>1, <1>4, PrecedesIsTransitive DEF Ahead
  <2>2. k \in Ahead(bills, l) /\ k \notin Ahead(bills, k)
    BY <1>1, <1>4, PrecedesIsTotal DEF Ahead
  <2>3. Cardinality(Ahead(bills, k)) < Cardinality(Ahead(bills, l))
    BY <1>2, <2>1, <2>2, FS_Subset
  <2>4. QED BY <1>2, <2>3 DEF Rank
<1>5. i = j => ~Precedes(bills, j, i)
  BY <1>1, PrecedesIsTotal
<1>6. i # j => Precedes(bills, i, j) \/ Precedes(bills, j, i)
  BY <1>1, PrecedesIsTotal
<1>7. Rank(bills, i) \in Int /\ Rank(bills, j) \in Int
  BY <1>2 DEF Rank
<1>8. QED
  <2> HIDE DEF W
  <2>1. i \in W /\ j \in W
    BY DEF W
  <2>2. (Precedes(bills, j, i) => Rank(bills, j) < Rank(bills, i))
        /\ (Precedes(bills, i, j) => Rank(bills, i) < Rank(bills, j))
    BY <1>4, <2>1
  <2>3. QED BY <1>3, <1>5, <1>6, <1>7, <2>2 DEF W

\* The queue is the charges that are not settled, each once, in that order.
LEMMA QueueIsSorted ==
    ASSUME NEW n, NEW bills, DatedList(bills, n)
    PROVE  LET W == Owing(bills)
               m == Cardinality(W)
           IN  /\ m \in Nat
               /\ \E index \in [1..m -> W] :
                     /\ FifoQueue(bills) = [k \in 1..m |-> bills[index[k]]]
                     /\ \A k, l \in 1..m : index[k] = index[l] => k = l
                     /\ \A i \in W : \E k \in 1..m : index[k] = i
                     /\ \A k, l \in 1..m : Precedes(bills, index[k], index[l]) <=> k < l
<1> DEFINE W == Owing(bills)
           m == Cardinality(W)
           place == [i \in W |-> Rank(bills, i)]
           index == [k \in 1..m |-> CHOOSE i \in W : place[i] = k]
<1>1. IsFiniteSet(W) /\ m \in Nat
  <2>1. W \subseteq 1..n /\ n \in Int
    BY DEF Owing, DatedList
  <2>2. IsFiniteSet(1..n)
    BY <2>1, FS_Interval
  <2>3. IsFiniteSet(W)
    BY <2>1, <2>2, FS_Subset
  <2>4. QED BY <2>3, FS_CardinalityType
<1>2. /\ place \in [W -> 1..m]
      /\ \A i, j \in W : Precedes(bills, j, i) <=> place[j] < place[i]
  BY RankOrders
<1>3. \A i, j \in W : place[i] = place[j] => i = j
  <2> TAKE i, j \in W
  <2>1. i \in 1..n /\ j \in 1..n
    BY DEF Owing, DatedList
  <2>2. i # j => Precedes(bills, i, j) \/ Precedes(bills, j, i)
    BY <2>1, PrecedesIsTotal
  <2> HIDE DEF place
  <2>3. QED BY <1>1, <1>2, <2>2
<1>4. FifoQueue(bills) = [k \in 1..m |-> bills[index[k]]]
  BY DEF FifoQueue, Rank, Ahead
<1> HIDE DEF place
<1>5. place \in Injection(W, 1..m)
  BY <1>2, <1>3 DEF Injection, IsInjective
<1>6. \A k \in 1..m : \E i \in W : place[i] = k
  <2>1. IsFiniteSet(1..m) /\ Cardinality(1..m) = m
    BY <1>1, FS_Interval
  <2>2. place \in Surjection(W, 1..m)
    BY <1>5, <2>1, FS_Injection
  <2>3. QED BY <2>2 DEF Surjection
<1>7. \A k \in 1..m : index[k] \in W /\ place[index[k]] = k
  BY <1>6
<1>8. index \in [1..m -> W]
  BY <1>7
<1> HIDE DEF index
<1>9. \A k, l \in 1..m : index[k] = index[l] => k = l
  BY <1>7
<1>10. \A i \in W : \E k \in 1..m : index[k] = i
  <2> TAKE i \in W
  <2>1. place[i] \in 1..m
    BY <1>2
  <2>2. index[place[i]] = i
    BY <1>3, <1>7, <2>1
  <2>3. QED BY <2>1, <2>2
<1>11. \A k, l \in 1..m : Precedes(bills, index[k], index[l]) <=> k < l
  BY <1>2, <1>7
<1> HIDE DEF W, m
<1>12. QED
  BY <1>1, <1>4, <1>8, <1>9, <1>10, <1>11 DEF W, m

Drains(pay, queue, m, due, got) ==
    /\ Len(queue) = m
    /\ \A k \in 1..m : /\ due[k] \in Nat /\ due[k] = OutstandingFor(queue[k])
                       /\ got[k] = Smaller(Remaining(pay, queue)[k - 1], due[k])

\* What is left of a payment after some charges of the queue, and what they got.
LEMMA RemainingIs ==
    ASSUME NEW m \in Nat, NEW queue, NEW due, NEW got, NEW pay \in Nat,
           Drains(pay, queue, m, due, got)
    PROVE  \A k \in 0..m :
              /\ Remaining(pay, queue)[k] = AtLeastZero(pay - Total(due, 1..k))
              /\ Total(got, 1..k) = pay - Remaining(pay, queue)[k]
              /\ Total(due, 1..k) \in Nat
<1> DEFINE Left(f) == [i \in 0..m |->
              IF i = 0 THEN pay ELSE f[i - 1] - Smaller(f[i - 1], OutstandingFor(queue[i]))]
           left == CHOOSE f : f = Left(f)
           After(k) == AtLeastZero(pay - Total(due, 1..k))
           closed == [k \in 0..m |-> After(k)]
<1> USE DEF Drains
<1>1. Remaining(pay, queue) = left
  BY DEF Remaining
<1>2. \A k \in 0..m : IsFiniteSet(1..k) /\ Total(due, 1..k) \in Nat
  <2> TAKE k \in 0..m
  <2>1. IsFiniteSet(1..k)
    BY FS_Interval
  <2>2. \A i \in 1..k : due[i] \in Nat
    OBVIOUS
  <2>3. QED BY <2>1, <2>2, TotalType
<1>3. 1..0 = {} /\ Total(due, 1..0) = 0 /\ Total(got, 1..0) = 0
  BY TotalEmpty
<1>4. \A k \in 1..m : Total(due, 1..k) = due[k] + Total(due, 1..(k - 1))
  <2> TAKE k \in 1..m
  <2>1. k \in 1..k /\ (1..k) \ {k} = 1..(k - 1)
    OBVIOUS
  <2>2. \A i \in 1..k : due[i] \in Nat
    OBVIOUS
  <2>3. IsFiniteSet(1..k)
    BY <1>2
  <2>4. Total(due, 1..k) = due[k] + Total(due, (1..k) \ {k})
    BY <2>1, <2>2, <2>3, TotalSplit
  <2>5. QED BY <2>1, <2>4
<1>5. closed = Left(closed)
  <2>1. ASSUME NEW i \in 1..m
        PROVE  After(i) = After(i - 1) - Smaller(After(i - 1), OutstandingFor(queue[i]))
    <3>1. Total(due, 1..i) = due[i] + Total(due, 1..(i - 1)) /\ Total(due, 1..(i - 1)) \in Nat
      BY <1>2, <1>4
    <3>2. QED BY <3>1 DEF AtLeastZero, Smaller
  <2>2. After(0) = pay
    BY <1>3 DEF AtLeastZero
  <2> HIDE DEF After
  <2>3. \A i \in 1..m : closed[i - 1] = After(i - 1)
    OBVIOUS
  <2>4. QED BY <2>1, <2>2, <2>3
<1>6. left = Left(left)
  <2> HIDE DEF closed, Left
  <2>1. QED BY <1>5
<1>7. left[0] = pay /\ \A k \in 1..m : left[k] = left[k - 1] - Smaller(left[k - 1], due[k])
  <2> HIDE DEF left
  <2>1. QED BY <1>6
<1> HIDE DEF left
<1> DEFINE P == {k \in 0..m : left[k] = After(k)}
<1>8. 0..m \subseteq P
  <2>1. 0 \in P
    BY <1>3, <1>7 DEF AtLeastZero
  <2>2. ASSUME NEW i \in P, i \in 0..(m - 1) PROVE i + 1 \in P
    <3> DEFINE k == i + 1
    <3>1. k \in 1..m /\ k - 1 = i /\ left[i] = After(i)
      BY <2>2
    <3> HIDE DEF k
    <3>2. Total(due, 1..k) = due[k] + Total(due, 1..i) /\ Total(due, 1..i) \in Nat
      BY <1>2, <1>4, <2>2, <3>1
    <3>3. left[k] = left[i] - Smaller(left[i], due[k]) /\ due[k] \in Nat
      BY <1>7, <3>1
    <3>4. left[k] = After(k)
      BY <3>1, <3>2, <3>3 DEF AtLeastZero, Smaller
    <3>5. k \in P
      BY <3>1, <3>4
    <3>6. QED BY <3>5 DEF k
  <2> HIDE DEF P
  <2>3. QED BY <2>1, <2>2, UpToInduction
<1>9. \A k \in 0..m : left[k] = After(k) /\ left[k] \in Nat
  BY <1>2, <1>8 DEF AtLeastZero
<1>10. \A k \in 1..m : /\ got[k] = Smaller(left[k - 1], due[k]) /\ got[k] \in Nat
                       /\ left[k] = left[k - 1] - got[k]
  BY <1>1, <1>7, <1>9 DEF Smaller
<1> DEFINE Q == {k \in 0..m : Total(got, 1..k) = pay - left[k]}
<1>11. 0..m \subseteq Q
  <2>1. 0 \in Q
    BY <1>3, <1>7
  <2>2. ASSUME NEW i \in Q, i \in 0..(m - 1) PROVE i + 1 \in Q
    <3> DEFINE k == i + 1
    <3>1. k \in 1..m /\ k - 1 = i /\ Total(got, 1..i) = pay - left[i] /\ left[i] \in Nat
      BY <1>9, <2>2
    <3> HIDE DEF k
    <3>2. k \in 1..k /\ (1..k) \ {k} = 1..i
      BY <3>1
    <3>3. \A j \in 1..k : got[j] \in Nat
      BY <1>10, <3>1
    <3>4. IsFiniteSet(1..k)
      BY <1>2, <3>1
    <3>5. Total(got, 1..k) = got[k] + Total(got, (1..k) \ {k})
      BY <3>2, <3>3, <3>4, TotalSplit
    <3>6. Total(got, 1..k) = pay - left[k]
      <4>1. left[k] = left[i] - got[k] /\ got[k] \in Nat
        BY <1>10, <3>1
      <4>2. Total(got, 1..k) = got[k] + (pay - left[i])
        BY <3>1, <3>2, <3>5
      <4>3. QED BY <3>1, <4>1, <4>2
    <3>7. k \in Q
      BY <3>1, <3>6
    <3>8. QED BY <3>7 DEF k
  <2> HIDE DEF Q
  <2>3. QED BY <2>1, <2>2, UpToInduction
<1>12. QED
  BY <1>1, <1>2, <1>9, <1>11

\* what FIFO gives the charge at place i of the list
FifoGets(pay, bills, i) ==
    Smaller(AtLeastZero(pay - Total(Dues(bills), Ahead(bills, i))), OutstandingFor(bills[i]))

LEMMA FifoLines ==
    ASSUME NEW n, NEW bills, DatedList(bills, n), OpenList(bills, n),
           NEW pay \in Nat, NEW lines, lines = AllocateFifo(pay, bills)
    PROVE  /\ DOMAIN lines = 1..Cardinality(Owing(bills))
           /\ \A k \in DOMAIN lines : \E i \in Owing(bills) :
                 lines[k] = Line(bills[i], FifoGets(pay, bills, i))
           /\ \A i \in Owing(bills) : \E k \in DOMAIN lines :
                 lines[k] = Line(bills[i], FifoGets(pay, bills, i))
           /\ LineTotal(lines) \in 0..pay
<1> DEFINE W == Owing(bills)
           m == Cardinality(W)
           queue == FifoQueue(bills)
           due == [k \in 1..m |-> OutstandingFor(queue[k])]
           left == Remaining(pay, queue)
           got == [k \in 1..m |-> Smaller(left[k - 1], OutstandingFor(queue[k]))]
<1> \A i \in 1..n : OutstandingFor(bills[i]) \in Nat
  BY DEF OpenList
<1>1. m \in Nat
  BY QueueIsSorted
<1>2. PICK index \in [1..m -> W] :
         /\ queue = [k \in 1..m |-> bills[index[k]]]
         /\ \A k, l \in 1..m : index[k] = index[l] => k = l
         /\ \A i \in W : \E k \in 1..m : index[k] = i
         /\ \A k, l \in 1..m : Precedes(bills, index[k], index[l]) <=> k < l
  BY QueueIsSorted
<1>3. W \subseteq 1..n /\ n \in Nat /\ IsFiniteSet(1..n) /\ DOMAIN bills = 1..n
  <2>1. W \subseteq 1..n /\ n \in Nat /\ DOMAIN bills = 1..n
    BY DEF Owing, OpenList
  <2>2. QED BY <2>1, FS_Interval
<1>4. DOMAIN queue = 1..m /\ Len(queue) = m
  BY <1>1, <1>2
<1>5. lines = [k \in 1..m |-> Line(queue[k], got[k])]
  BY <1>4 DEF AllocateFifo
<1> HIDE DEF queue, W, m
<1>6. \A k \in 1..m : /\ index[k] \in W /\ queue[k] = bills[index[k]]
                      /\ due[k] = OutstandingFor(bills[index[k]]) /\ due[k] \in Nat
                      /\ due[k] = Dues(bills)[index[k]] /\ due[k] = OutstandingFor(queue[k])
  BY <1>2, <1>3 DEF Dues
<1>7. \A k \in 1..m : got[k] = Smaller(left[k - 1], due[k])
  OBVIOUS
<1> HIDE DEF got, due
<1>8. \A k \in 0..m : /\ left[k] = AtLeastZero(pay - Total(due, 1..k))
                      /\ Total(got, 1..k) = pay - left[k]
                      /\ Total(due, 1..k) \in Nat
  <2>1. Drains(pay, queue, m, due, got)
    BY <1>4, <1>6, <1>7 DEF Drains
  <2>2. QED BY <1>1, <2>1, RemainingIs
<1> HIDE DEF left
<1>9. ASSUME NEW k \in 1..m
      PROVE  Total(due, 1..(k - 1)) = Total(Dues(bills), Ahead(bills, index[k]))
  <2> DEFINE S == 1..(k - 1)
             A == Ahead(bills, index[k])
             e == [l \in S |-> index[l]]
  <2>1. S \subseteq 1..m
    BY <1>1
  <2>2. A = {j \in W : Precedes(bills, j, index[k])}
    BY DEF Ahead, W
  <2>3. e \in [S -> A]
    BY <1>1, <1>2, <2>1, <2>2
  <2>4. \A x, y \in S : e[x] = e[y] => x = y
    BY <1>2, <2>1
  <2>5. \A y \in A : \E x \in S : e[x] = y
    <3> TAKE y \in A
    <3>1. PICK l \in 1..m : index[l] = y
      BY <1>2, <2>2
    <3>2. l < k
      BY <1>2, <2>2, <3>1
    <3>3. l \in S
      BY <1>1, <3>2
    <3>4. QED BY <3>1, <3>3
  <2>6. IsFiniteSet(A)
    BY <1>3, <2>2, FS_Subset
  <2>7. \A y \in A : Dues(bills)[y] \in Nat
    BY <1>3, <2>2 DEF Dues
  <2>8. \A x \in S : due[x] = Dues(bills)[e[x]]
    BY <1>6, <2>1
  <2> HIDE DEF S, A, e
  <2>9. e \in Bijection(S, A)
    BY <2>3, <2>4, <2>5 DEF Bijection, Injection, IsInjective, Surjection
  <2>10. Total(due, S) = Total(Dues(bills), A)
    BY <2>6, <2>7, <2>8, <2>9, TotalBijection
  <2>11. QED BY <2>10 DEF S, A
<1>10. \A k \in 1..m : got[k] = FifoGets(pay, bills, index[k])
  <2> TAKE k \in 1..m
  <2>1. k - 1 \in 0..m
    BY <1>1
  <2>2. left[k - 1] = AtLeastZero(pay - Total(Dues(bills), Ahead(bills, index[k])))
    BY <1>8, <1>9, <2>1
  <2>3. QED BY <1>6, <1>7, <2>2 DEF FifoGets
<1>11. \A k \in 1..m : lines[k] = Line(bills[index[k]], FifoGets(pay, bills, index[k]))
  BY <1>5, <1>6, <1>10
<1>12. \A k \in 0..m : left[k] \in Nat /\ left[k] <= pay
  BY <1>8 DEF AtLeastZero
<1>13. \A k \in 1..m : got[k] \in Nat
  <2> TAKE k \in 1..m
  <2>1. k - 1 \in 0..m
    BY <1>1
  <2>2. QED BY <1>6, <1>7, <1>12, <2>1 DEF Smaller
<1>14. LineTotal(lines) \in 0..pay
  <2>1. DOMAIN lines = 1..m /\ \A k \in 1..m : lines[k].amount = got[k]
    BY <1>5 DEF Line
  <2>2. LineTotal(lines) = Total(Amounts(lines), 1..m)
    BY <1>1, <1>13, <2>1, LineTotalIsTotal
  <2>3. \A k \in 1..m : Amounts(lines)[k] = got[k]
    BY <2>1 DEF Amounts
  <2>4. Total(Amounts(lines), 1..m) = Total(got, 1..m)
    BY <2>3, TotalEqual
  <2>5. m \in 0..m
    BY <1>1
  <2>6. QED BY <1>8, <1>12, <2>2, <2>4, <2>5
<1>15. /\ \A k \in 1..m : \E i \in W : lines[k] = Line(bills[i], FifoGets(pay, bills, i))
       /\ \A i \in W : \E k \in 1..m : lines[k] = Line(bills[i], FifoGets(pay, bills, i))
  BY <1>2, <1>11
<1>16. DOMAIN lines = 1..m
  BY <1>5
<1>17. QED
  BY <1>14, <1>15, <1>16 DEF W, m

\* What FIFO hands out.
LEMMA FifoMeets ==
    ASSUME NEW n, NEW bills, DatedList(bills, n), OpenList(bills, n),
           NEW pay \in Nat, NEW lines, lines = AllocateFifo(pay, bills)
    PROVE  HandsOut(lines, bills, n, pay) /\ LineTotal(lines) <= pay
<1> DEFINE W == Owing(bills)
           due == Dues(bills)
<1> \A i \in 1..n : OutstandingFor(bills[i]) \in Nat
  BY DEF OpenList
<1>1. /\ \A k \in DOMAIN lines : \E i \in Owing(bills) :
            lines[k] = Line(bills[i], FifoGets(pay, bills, i))
      /\ LineTotal(lines) \in 0..pay
  BY FifoLines
<1>2. W \subseteq 1..n /\ n \in Nat /\ IsFiniteSet(1..n) /\ DOMAIN bills = 1..n
  <2>1. W \subseteq 1..n /\ n \in Nat /\ DOMAIN bills = 1..n
    BY DEF Owing, OpenList
  <2>2. QED BY <2>1, FS_Interval
<1>3. \A i \in 1..n : due[i] = OutstandingFor(bills[i]) /\ due[i] \in Nat
  BY <1>2 DEF Dues
<1> HIDE DEF W, due
<1>4. TotalDue(bills) = Total(due, 1..n)
  BY <1>2, <1>3, DueIsTotal DEF due
<1>5. ASSUME NEW i \in W
      PROVE  /\ FifoGets(pay, bills, i) \in 0..OutstandingFor(bills[i])
             /\ pay >= TotalDue(bills) => FifoGets(pay, bills, i) = OutstandingFor(bills[i])
  <2> DEFINE A == Ahead(bills, i)
             a == Total(due, A)
  <2>1. A \subseteq 1..n /\ i \in (1..n) \ A /\ A \cup {i} \in SUBSET (1..n)
    BY <1>2, PrecedesIsTotal DEF Ahead, W
  <2>2. Total(due, A \cup {i}) = due[i] + a /\ a \in Nat
    <3> HIDE DEF A
    <3>1. QED BY <1>2, <1>3, <2>1, TotalAdd
  <2>3. Total(due, A \cup {i}) <= Total(due, 1..n)
    <3> HIDE DEF A
    <3>1. QED BY <1>2, <1>3, <2>1, TotalSubset
  <2>4. FifoGets(pay, bills, i) = Smaller(AtLeastZero(pay - a), due[i])
    BY <1>2, <1>3 DEF FifoGets, due
  <2> HIDE DEF a, A
  <2>5. due[i] \in Nat /\ due[i] = OutstandingFor(bills[i])
    BY <1>2, <1>3
  <2>6. Total(due, 1..n) \in Nat
    BY <1>2, <1>3, TotalType
  <2>7. QED BY <1>4, <2>2, <2>3, <2>4, <2>5, <2>6 DEF Smaller, AtLeastZero
<1>6. ASSUME NEW k \in DOMAIN lines
      PROVE  /\ \E i \in 1..n : FairLine(lines[k], bills[i])
             /\ pay >= TotalDue(bills) => lines[k].amount = lines[k].before
  <2>1. PICK i \in W : lines[k] = Line(bills[i], FifoGets(pay, bills, i))
    BY <1>1 DEF W
  <2>2. OutstandingFor(bills[i]) \in Nat /\ i \in 1..n
    BY <1>2
  <2>3. FairLine(lines[k], bills[i])
    BY <1>5, <2>1, <2>2, LineIsFair
  <2>4. lines[k].amount = FifoGets(pay, bills, i) /\ lines[k].before = OutstandingFor(bills[i])
    BY <2>1 DEF Line
  <2>5. QED BY <1>5, <2>2, <2>3, <2>4
<1>7. QED BY <1>1, <1>6 DEF HandsOut

\* The lists of charges an allocation is asked about.
ChargeList(bills, n) ==
    /\ DatedList(bills, n) /\ OpenList(bills, n)
    /\ \A i \in 1..n : bills[i].created \in 0..MaxCharges /\ bills[i].id \in 0..MaxCharges
    /\ \A i, j \in 1..n : bills[i].id = bills[j].id => i = j

LEMMA DigitsOrder ==
    ASSUME NEW K \in Nat, NEW a \in Int, NEW b \in Int, NEW c \in 0..K, NEW d \in 0..K
    PROVE  a * (K + 1) + c < b * (K + 1) + d <=> a < b \/ (a = b /\ c < d)
<1>1. CASE a < b
  <2>1. (K + 1) * (a + 1) <= (K + 1) * b
    BY <1>1
  <2>2. (K + 1) * (a + 1) = a * (K + 1) + K + 1 /\ (K + 1) * b = b * (K + 1)
    OBVIOUS
  <2>3. a * (K + 1) \in Int /\ b * (K + 1) \in Int
    OBVIOUS
  <2>4. QED BY <1>1, <2>1, <2>2, <2>3
<1>2. CASE b < a
  <2>1. (K + 1) * (b + 1) <= (K + 1) * a
    BY <1>2
  <2>2. (K + 1) * (b + 1) = b * (K + 1) + K + 1 /\ (K + 1) * a = a * (K + 1)
    OBVIOUS
  <2>3. a * (K + 1) \in Int /\ b * (K + 1) \in Int
    OBVIOUS
  <2>4. QED BY <1>2, <2>1, <2>2, <2>3
<1>3. CASE a = b
  <2>1. a * (K + 1) \in Int
    OBVIOUS
  <2>2. QED BY <1>3, <2>1
<1>4. QED BY <1>1, <1>2, <1>3

LEMMA PlaceOrders ==
    ASSUME NEW a, NEW b, a.due \in Int, b.due \in Int,
           a.created \in 0..MaxCharges, b.created \in 0..MaxCharges,
           a.id \in 0..MaxCharges, b.id \in 0..MaxCharges
    PROVE  Place(a) < Place(b) <=> PaidBefore(a, b)
<1> DEFINE K == MaxCharges
           x == a.due * (K + 1) + a.created
           y == b.due * (K + 1) + b.created
<1>1. K \in Nat
  BY AlgorithmAssumption DEF AlgorithmAssumption
<1>2. a.due * (K + 1) \in Int /\ b.due * (K + 1) \in Int
  BY <1>1
<1>3. x \in Int /\ y \in Int
  BY <1>1, <1>2
<1>4. x < y <=> a.due < b.due \/ (a.due = b.due /\ a.created < b.created)
  BY <1>1, DigitsOrder
<1>5. y < x <=> b.due < a.due \/ (b.due = a.due /\ b.created < a.created)
  BY <1>1, DigitsOrder
<1>6. Place(a) = x * (K + 1) + a.id /\ Place(b) = y * (K + 1) + b.id
  BY DEF Place
<1> HIDE DEF x, y
<1>7. x = y <=> a.due = b.due /\ a.created = b.created
  <2>1. a.created \in Int /\ b.created \in Int
    BY <1>1
  <2>2. QED BY <1>3, <1>4, <1>5, <2>1
<1>8. Place(a) < Place(b) <=> x < y \/ (x = y /\ a.id < b.id)
  <2>1. x * (K + 1) + a.id < y * (K + 1) + b.id <=> x < y \/ (x = y /\ a.id < b.id)
    BY <1>1, <1>3, DigitsOrder
  <2>2. QED BY <1>6, <2>1
<1>9. QED
  BY <1>4, <1>7, <1>8 DEF PaidBefore

LEMMA OwedIsTotal ==
    ASSUME NEW S, IsFiniteSet(S), \A c \in S : OutstandingFor(c) \in Nat
    PROVE  Owed(S) = Total([c \in S |-> OutstandingFor(c)], S)
<1> DEFINE f == [c \in S |-> OutstandingFor(c)]
           Summed(g) == [s \in SUBSET S |->
              IF s = {} THEN 0
              ELSE LET x == CHOOSE x \in s : TRUE IN OutstandingFor(x) + g[s \ {x}]]
           sum == CHOOSE g : g = Summed(g)
<1>1. Owed(S) = sum[S]
  BY DEF Owed, MapThenSumSet, MapThenFoldSet
<1>2. ASSUME NEW g PROVE Summing(f, S, g) = Summed(g)
  <2>1. ASSUME NEW s \in SUBSET S, s # {}
        PROVE  LET x == CHOOSE x \in s : TRUE IN f[x] = OutstandingFor(x)
    BY <2>1
  <2>2. QED BY <2>1 DEF Summing
<1>3. \A x \in S : f[x] \in Nat
  OBVIOUS
<1> HIDE DEF Summed, f
<1>4. \E g : g = Summing(f, S, g)
  BY <1>3, SumExists
<1>5. sum = Summing(f, S, sum)
  BY <1>2, <1>4
<1> HIDE DEF sum
<1>6. sum[S] = Total(f, S)
  BY <1>3, <1>5, SumIsTotal
<1>7. QED BY <1>1, <1>6 DEF f

\* The algorithm gives a charge what the reference gives it.
LEMMA FifoGetsShare ==
    ASSUME NEW n, NEW bills, ChargeList(bills, n), NEW pay \in Nat, NEW i \in 1..n
    PROVE  FifoGets(pay, bills, i) = FifoShare(pay, Range(bills), bills[i])
<1> DEFINE B == {j \in 1..n : Precedes(bills, j, i)}
           S == {d \in Range(bills) : Place(d) < Place(bills[i])}
           e == [j \in B |-> bills[j]]
           due == Dues(bills)
           worth == [c \in S |-> OutstandingFor(c)]
<1>1. /\ n \in Nat /\ DOMAIN bills = 1..n /\ DatedList(bills, n) /\ IsFiniteSet(1..n)
      /\ \A j \in 1..n : OutstandingFor(bills[j]) \in Nat /\ due[j] = OutstandingFor(bills[j])
  <2>1. n \in Int
    BY DEF ChargeList, DatedList
  <2>2. IsFiniteSet(1..n)
    BY <2>1, FS_Interval
  <2>3. QED BY <2>2 DEF ChargeList, DatedList, OpenList, Dues
<1>2. \A j \in 1..n : Place(bills[j]) < Place(bills[i]) <=> PaidBefore(bills[j], bills[i])
  BY PlaceOrders DEF ChargeList, DatedList
<1>3. \A j \in 1..n : Precedes(bills, j, i) <=> PaidBefore(bills[j], bills[i])
  BY DEF ChargeList, DatedList, Precedes, PaidBefore
<1>4. e \in Bijection(B, S)
  <2>1. e \in [B -> S]
    BY <1>1, <1>2, <1>3 DEF Range
  <2>2. \A x, y \in B : e[x] = e[y] => x = y
    BY DEF ChargeList
  <2>3. \A y \in S : \E x \in B : e[x] = y
    BY <1>1, <1>2, <1>3 DEF Range
  <2> HIDE DEF B, S, e
  <2>4. QED BY <2>1, <2>2, <2>3 DEF Bijection, Injection, IsInjective, Surjection
<1>5. IsFiniteSet(B) /\ IsFiniteSet(S)
  <2>1. IsFiniteSet(B)
    BY <1>1, FS_Subset
  <2>2. e \in Surjection(B, S)
    BY <1>4 DEF Bijection
  <2> HIDE DEF B, S, e
  <2>3. QED BY <2>1, <2>2, FS_Surjection
<1>6. Total(due, Ahead(bills, i)) = Total(due, B)
  <2>1. Ahead(bills, i) \in SUBSET B
    BY <1>1 DEF Ahead, Owing
  <2>2. \A j \in B \ Ahead(bills, i) : due[j] = 0
    BY <1>1 DEF Ahead, Owing
  <2> HIDE DEF B, due
  <2>3. QED BY <2>1, <2>2, TotalSame
<1>7. Total(due, B) = Total(worth, S)
  <2>1. \A x \in S : worth[x] \in Nat
    BY <1>1 DEF Range
  <2>2. \A x \in B : due[x] = worth[e[x]]
    <3>1. \A x \in B : e[x] \in S
      BY <1>4 DEF Bijection, Injection
    <3>2. QED BY <1>1, <3>1
  <2> HIDE DEF B, S, e, due, worth
  <2>3. QED BY <1>4, <1>5, <2>1, <2>2, TotalBijection
<1>8. Owed(S) = Total(worth, S)
  <2>1. \A c \in S : OutstandingFor(c) \in Nat
    BY <1>1 DEF Range
  <2> HIDE DEF S
  <2>2. QED BY <1>5, <2>1, OwedIsTotal
<1>9. FifoShare(pay, Range(bills), bills[i])
        = Smaller(OutstandingFor(bills[i]), AtLeastZero(pay - Owed(S)))
  BY DEF FifoShare
<1>10. FifoGets(pay, bills, i)
        = Smaller(AtLeastZero(pay - Total(due, Ahead(bills, i))), OutstandingFor(bills[i]))
  BY DEF FifoGets
<1>11. Total(worth, S) \in Nat
  <2>1. \A x \in S : worth[x] \in Nat
    BY <1>1 DEF Range
  <2> HIDE DEF worth, S
  <2>2. QED BY <1>5, <2>1, TotalType
<1> HIDE DEF S, due, worth, B
<1>12. OutstandingFor(bills[i]) \in Nat
  BY <1>1
<1>13. QED
  BY <1>6, <1>7, <1>8, <1>9, <1>10, <1>11, <1>12 DEF Smaller, AtLeastZero

\* The lines of FIFO, whatever the order of the list.
LEMMA FifoRange ==
    ASSUME NEW n, NEW bills, ChargeList(bills, n), NEW pay \in Nat,
           NEW lines, lines = AllocateFifo(pay, bills)
    PROVE  Range(lines) =
              {Line(c, FifoShare(pay, Range(bills), c)) :
                  c \in {c \in Range(bills) : OutstandingFor(c) > 0}}
<1> DEFINE Fair(c) == Line(c, FifoShare(pay, Range(bills), c))
<1>1. DatedList(bills, n) /\ OpenList(bills, n) /\ DOMAIN bills = 1..n
  BY DEF ChargeList, DatedList
<1>2. /\ \A k \in DOMAIN lines : \E i \in Owing(bills) :
            lines[k] = Line(bills[i], FifoGets(pay, bills, i))
      /\ \A i \in Owing(bills) : \E k \in DOMAIN lines :
            lines[k] = Line(bills[i], FifoGets(pay, bills, i))
  <2>1. DatedList(bills, n)
    BY <1>1
  <2>2. OpenList(bills, n)
    BY <1>1
  <2>3. QED BY <2>1, <2>2, FifoLines
<1>3. \A i \in Owing(bills) : Line(bills[i], FifoGets(pay, bills, i)) = Fair(bills[i])
  BY <1>1, FifoGetsShare DEF Owing
<1> HIDE DEF Fair
<1>4. /\ \A k \in DOMAIN lines : \E i \in Owing(bills) : lines[k] = Fair(bills[i])
      /\ \A i \in Owing(bills) : \E k \in DOMAIN lines : lines[k] = Fair(bills[i])
  BY <1>2, <1>3
<1>5. /\ \A i \in Owing(bills) : bills[i] \in Range(bills) /\ OutstandingFor(bills[i]) > 0
      /\ \A c \in Range(bills) : OutstandingFor(c) > 0 => \E i \in Owing(bills) : c = bills[i]
  BY <1>1 DEF Owing, Range
<1>6. Range(lines) = {Fair(c) : c \in {c \in Range(bills) : OutstandingFor(c) > 0}}
  <2>1. ASSUME NEW line \in Range(lines)
        PROVE  \E c \in Range(bills) : OutstandingFor(c) > 0 /\ line = Fair(c)
    BY <1>4, <1>5 DEF Range
  <2>2. ASSUME NEW c \in Range(bills), OutstandingFor(c) > 0 PROVE Fair(c) \in Range(lines)
    BY <1>4, <1>5, <2>2 DEF Range
  <2>3. QED BY <2>1, <2>2
<1>7. QED BY <1>6 DEF Fair

LEMMA OutstandingTyped ==
    ASSUME NEW charge, charge.amount \in Int, charge.alreadyAllocated \in Int
    PROVE  OutstandingFor(charge) \in Nat
BY DEF OutstandingFor, AtLeastZero

\* The lists an allocation is asked about are lists of charges.
LEMMA AskedIsChargeList ==
    ASSUME AllocationAsked
    PROVE  \E n \in Nat : ChargeList(open, n)
<1>1. PICK n \in 0..MaxCharges : \E list \in [1..n -> LineTerms] : open = Charges(list)
  BY DEF AllocationAsked
<1>2. PICK list \in [1..n -> LineTerms] : open = Charges(list)
  BY <1>1
<1>3. n \in Nat /\ MaxCharges \in Nat /\ n <= MaxCharges
  BY AlgorithmAssumption DEF AlgorithmAssumption
<1>4. DOMAIN list = 1..n
  OBVIOUS
<1>5. /\ DOMAIN open = 1..n
      /\ \A i \in 1..n : open[i] =
            [ id |-> i, amount |-> list[i].amount, alreadyAllocated |-> list[i].prior,
              due |-> list[i].due, created |-> i \div 2 ]
  <2>1. DOMAIN open = 1..n
    BY <1>2, <1>4 DEF Charges
  <2>2. ASSUME NEW i \in 1..n
        PROVE  open[i] =
            [ id |-> i, amount |-> list[i].amount, alreadyAllocated |-> list[i].prior,
              due |-> list[i].due, created |-> i \div 2 ]
    BY <1>2, <1>4 DEF Charges
  <2>3. QED BY <2>1, <2>2
<1>6. \A i \in 1..n : list[i].amount \in Int /\ list[i].prior \in Int /\ list[i].due \in Int
  <2> TAKE i \in 1..n
  <2>1. list[i] \in LineTerms
    OBVIOUS
  <2>2. list[i].amount \in ChargeAmounts
    BY <2>1 DEF LineTerms
  <2>3. list[i].prior \in PriorAmounts
    BY <2>1 DEF LineTerms
  <2>4. list[i].due \in DueDates \cup {NoDate}
    BY <2>1 DEF LineTerms
  <2>5. /\ ChargeAmounts \subseteq Int /\ PriorAmounts \subseteq Int
        /\ DueDates \subseteq Int /\ NoDate \in Int
    BY AlgorithmAssumption DEF AlgorithmAssumption, NoDate
  <2>6. QED BY <2>2, <2>3, <2>4, <2>5
<1>7. \A i \in 1..n : /\ open[i].amount \in Int /\ open[i].alreadyAllocated \in Int
                      /\ open[i].due \in Int /\ open[i].id = i /\ open[i].created = i \div 2
  BY <1>5, <1>6
<1>8. \A i \in 1..n : i \div 2 \in 0..MaxCharges /\ i \in 0..MaxCharges
  BY <1>3
<1>9. DatedList(open, n)
  BY <1>3, <1>5, <1>7, <1>8 DEF DatedList
<1>10. \A i \in 1..n : OutstandingFor(open[i]) \in Nat
  BY <1>7, OutstandingTyped
<1>11. OpenList(open, n)
  BY <1>3, <1>5, <1>10 DEF OpenList
<1>12. \A i \in 1..n : open[i].id = i /\ open[i].created \in 0..MaxCharges
                      /\ open[i].id \in 0..MaxCharges
  BY <1>7, <1>8
<1>13. QED
  BY <1>3, <1>7, <1>9, <1>11, <1>12 DEF ChargeList

\* FIFO gives each charge what is left once all that is due before it is paid,
\* in whatever order the charges come.
THEOREM FifoReferenceHolds == PartsSpec => []FifoReference
<1>1. AlgorithmInv => FifoReference
  <2> SUFFICES ASSUME AlgorithmInv, Answered, strategy = "FIFO"
               PROVE  /\ \A c \in Range(open) : OutstandingFor(c) > 0 =>
                            \E line \in Range(outcome.lines) :
                               /\ line.id = c.id
                               /\ line.amount = FifoShare(payment, Range(open), c)
                      /\ Range(outcome.lines) =
                            Range(AllocatePayment(strategy, payment, Reverse(open)).lines)
    BY DEF FifoReference
  <2> DEFINE pay == AtLeastZero(payment)
  <2>1. AllocationAsked /\ outcome = AllocatePayment(strategy, payment, open)
    BY AnsweredAllocation
  <2>2. PICK n \in Nat : ChargeList(open, n)
    BY <2>1, AskedIsChargeList
  <2>3. pay \in Nat /\ payment \in Int
    BY <2>1, AlgorithmAssumption DEF AlgorithmAssumption, AllocationAsked, AtLeastZero
  <2>4. \A list : AllocatePayment(strategy, payment, list).lines = AllocateFifo(pay, list)
    BY DEF AllocatePayment
  <2>5. DOMAIN open = 1..n /\ Len(open) = n
    BY <2>2 DEF ChargeList, DatedList
  <2> DEFINE other == Reverse(open)
  <2>6. other = [i \in 1..n |-> open[(n - i) + 1]]
    BY <2>5 DEF Reverse
  <2>7. \A i \in 1..n : (n - i) + 1 \in 1..n /\ (n - ((n - i) + 1)) + 1 = i
    OBVIOUS
  <2> HIDE DEF other, pay
  <2>8. ChargeList(other, n)
    <3>1. DOMAIN other = 1..n /\ \A i \in 1..n : other[i] = open[(n - i) + 1]
      BY <2>6
    <3>2. DatedList(other, n)
      BY <2>2, <2>7, <3>1 DEF ChargeList, DatedList
    <3>3. OpenList(other, n)
      BY <2>2, <2>7, <3>1 DEF ChargeList, OpenList
    <3>4. /\ \A i \in 1..n : other[i].created \in 0..MaxCharges /\ other[i].id \in 0..MaxCharges
          /\ \A i, j \in 1..n : other[i].id = other[j].id => i = j
      <4>1. \A i, j \in 1..n : (n - i) + 1 = (n - j) + 1 => i = j
        OBVIOUS
      <4>2. QED BY <2>2, <2>7, <3>1, <4>1 DEF ChargeList
    <3>5. QED BY <3>2, <3>3, <3>4 DEF ChargeList
  <2>9. Range(other) = Range(open)
    BY <2>5, <2>6, <2>7 DEF Range
  <2>10. Range(AllocateFifo(pay, open)) =
            {Line(c, FifoShare(pay, Range(open), c)) :
                c \in {c \in Range(open) : OutstandingFor(c) > 0}}
    BY <2>2, <2>3, FifoRange
  <2>11. Range(AllocateFifo(pay, other)) =
            {Line(c, FifoShare(pay, Range(other), c)) :
                c \in {c \in Range(other) : OutstandingFor(c) > 0}}
    BY <2>3, <2>8, FifoRange
  <2>12. Range(AllocateFifo(pay, other)) = Range(AllocateFifo(pay, open))
    BY <2>9, <2>10, <2>11
  <2>13. outcome.lines = AllocateFifo(pay, open)
    BY <2>1, <2>4
  <2>14. Range(outcome.lines) = Range(AllocatePayment(strategy, payment, Reverse(open)).lines)
    BY <2>4, <2>12, <2>13 DEF other
  <2>15. ASSUME NEW c \in Range(open)
         PROVE  FifoShare(pay, Range(open), c) = FifoShare(payment, Range(open), c)
    <3>1. /\ n \in Nat /\ DOMAIN open = 1..n
          /\ \A i \in 1..n : OutstandingFor(open[i]) \in Nat
      BY <2>2 DEF ChargeList, OpenList
    <3> DEFINE S == {d \in Range(open) : Place(d) < Place(c)}
    <3>2. \A d \in Range(open) : OutstandingFor(d) \in Nat
      BY <3>1 DEF Range
    <3>3. IsFiniteSet(S)
      <4>1. IsFiniteSet(1..n)
        BY FS_Interval
      <4> DEFINE list == [i \in 1..n |-> open[i]]
      <4>2. list \in Surjection(1..n, Range(open))
        BY <3>1 DEF Surjection, Range
      <4> HIDE DEF list
      <4>3. IsFiniteSet(Range(open))
        BY <4>1, <4>2, FS_Surjection
      <4>4. QED BY <4>3, FS_Subset
    <3>4. Owed(S) \in Nat
      <4>1. \A d \in S : OutstandingFor(d) \in Nat
        BY <3>2
      <4> HIDE DEF S
      <4>2. Owed(S) = Total([d \in S |-> OutstandingFor(d)], S)
        BY <3>3, <4>1, OwedIsTotal
      <4>3. \A d \in S : [e \in S |-> OutstandingFor(e)][d] \in Nat
        BY <4>1
      <4>4. QED BY <3>3, <4>2, <4>3, TotalType
    <3> HIDE DEF S
    <3>5. AtLeastZero(pay - Owed(S)) = AtLeastZero(payment - Owed(S))
      BY <2>3, <3>4 DEF pay, AtLeastZero
    <3>6. QED BY <3>5 DEF FifoShare, S
  <2>16. ASSUME NEW c \in Range(open), OutstandingFor(c) > 0
         PROVE  \E line \in Range(outcome.lines) :
                   line.id = c.id /\ line.amount = FifoShare(payment, Range(open), c)
    <3> DEFINE line == Line(c, FifoShare(pay, Range(open), c))
    <3>1. line \in Range(outcome.lines)
      BY <2>10, <2>13, <2>16
    <3>2. line.id = c.id /\ line.amount = FifoShare(pay, Range(open), c)
      BY DEF Line
    <3>3. QED BY <2>15, <3>1, <3>2
  <2>17. QED BY <2>14, <2>16
<1>2. QED BY <1>1, AnswersAreAnswers, PTL

\* No line takes less than nothing or more than its charge owes, a payment that
\* covers the account settles every charge, and money is conserved except for the
\* half pennies that the last owing charge of PROPORTIONAL cannot give back.
THEOREM MoneyContractHolds == PartsSpec => []MoneyContract
<1>1. AlgorithmInv => MoneyContract
  <2> SUFFICES ASSUME AlgorithmInv, Answered PROVE MoneyContract
    BY DEF MoneyContract
  <2> DEFINE pay == AtLeastZero(payment)
             lines == outcome.lines
             total == LineTotal(lines)
  <2>1. AllocationAsked /\ outcome = AllocatePayment(strategy, payment, open)
    BY AnsweredAllocation
  <2>2. PICK n \in Nat : ChargeList(open, n)
    BY <2>1, AskedIsChargeList
  <2>3. /\ pay \in Nat /\ payment \in Int /\ payment <= pay
        /\ strategy \in {"FIFO", "PROPORTIONAL"}
    BY <2>1, AlgorithmAssumption DEF AlgorithmAssumption, AllocationAsked, AtLeastZero
  <2>4. /\ lines = IF strategy = "PROPORTIONAL" THEN AllocateProportional(pay, open)
                   ELSE AllocateFifo(pay, open)
        /\ outcome.totalAllocated = total /\ outcome.leftover = AtLeastZero(pay - total)
    BY <2>1 DEF AllocatePayment
  <2>5. /\ DatedList(open, n) /\ OpenList(open, n) /\ DOMAIN open = 1..n /\ Len(open) = n
        /\ \A i \in 1..n : OutstandingFor(open[i]) \in Nat
    BY <2>2 DEF ChargeList, OpenList
  <2>0. DatedList(open, n) /\ OpenList(open, n) /\ pay \in Nat
    BY <2>3, <2>5
  <2> HIDE DEF pay, lines
  <2>6. /\ HandsOut(lines, open, n, pay)
        /\ \/ total <= pay
           \/ /\ strategy = "PROPORTIONAL" /\ LastOwingUnpaid(lines)
              /\ 2 * (total - pay) <= n - 1
    <3>1. CASE strategy = "PROPORTIONAL"
      <4>1. lines = AllocateProportional(pay, open)
        BY <2>4, <3>1
      <4>2. QED BY <2>0, <3>1, <4>1, ProportionalMeets
    <3>2. CASE strategy = "FIFO"
      <4>1. lines = AllocateFifo(pay, open)
        BY <2>4, <3>2
      <4>2. QED BY <2>0, <4>1, FifoMeets
    <3>3. QED BY <2>3, <3>1, <3>2
  <2>7. ASSUME NEW k \in DOMAIN lines
        PROVE  LET line == lines[k]
               IN  /\ line.amount \in 0..line.before
                   /\ line.full <=> line.before > 0 /\ line.amount = line.before
                   /\ payment >= TotalDue(open) /\ line.before > 0 => line.full
    <3>1. PICK i \in 1..n : FairLine(lines[k], open[i])
      BY <2>6 DEF HandsOut
    <3>2. TotalDue(open) \in Int
      <4>1. \A j \in 1..n : Dues(open)[j] \in Nat
        BY <2>5 DEF Dues
      <4>2. TotalDue(open) = Total(Dues(open), 1..n)
        BY <2>5, DueIsTotal
      <4>3. IsFiniteSet(1..n)
        BY FS_Interval
      <4>4. QED BY <4>1, <4>2, <4>3, TotalType
    <3>3. payment >= TotalDue(open) => lines[k].amount = lines[k].before
      BY <2>3, <2>6, <3>2 DEF HandsOut
    <3>4. QED BY <3>1, <3>3 DEF FairLine
  <2>8. Overallocation = total + AtLeastZero(pay - total) - pay
    BY <2>4 DEF pay, Overallocation
  <2> HIDE DEF total
  <2>9. \/ Overallocation = 0
        \/ /\ strategy = "PROPORTIONAL" /\ LastOwingUnpaid(lines)
           /\ Overallocation > 0 /\ 2 * Overallocation <= Len(open) - 1
    <3>1. total \in Nat
      BY <2>6 DEF HandsOut, total
    <3>2. CASE total <= pay
      BY <2>3, <2>8, <3>1, <3>2 DEF AtLeastZero
    <3>3. CASE ~(total <= pay)
      <4>1. Overallocation = total - pay /\ total - pay > 0
        BY <2>3, <2>8, <3>1, <3>3 DEF AtLeastZero
      <4>2. QED BY <2>5, <2>6, <3>3, <4>1
    <3>4. QED BY <3>2, <3>3
  <2>10. QED
    BY <2>7, <2>9 DEF MoneyContract, lines
<1>2. QED BY <1>1, AnswersAreAnswers, PTL
=============================================================================
