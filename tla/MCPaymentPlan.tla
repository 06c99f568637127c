---------------------------- MODULE MCPaymentPlan ----------------------------
(***************************************************************************)
(* One run for payment plans and the pure algorithms they call: "part"     *)
(* says which a behaviour is about; the variables of the other stand       *)
(* still.  Requests, instalments and payments are interchangeable.         *)
(***************************************************************************)
EXTENDS PaymentPlan, MCPaymentAllocation

VARIABLE part

Symmetry == Permutations(Requests) \cup Permutations(Instalments) \cup Permutations(Payments)

PartsInit ==
    /\ part \in {"plan", "algorithm"}
    /\ Init
    /\ IF part = "algorithm" THEN AlgorithmInit ELSE NoInput /\ outcome = Pending

Planning  == part = "plan" /\ Next /\ UNCHANGED <<part, algorithmVars>>
Computing == part = "algorithm" /\ AlgorithmNext /\ UNCHANGED <<part, vars>>

PartsSpec == PartsInit /\ [][Planning \/ Computing]_<<part, vars, algorithmVars>>
=============================================================================
