------------------------------ MODULE MCAlerts ------------------------------
(* Alerts on a small instance. *)
EXTENDS Alerts, TLC

RowSymmetry == Permutations(Ids)

MCBudget == [user |-> 1, fault |-> 2, metric |-> 2, fail |-> 1, crash |-> 1]

\* SLOs and their evaluator alone.
CalmBudget == [k \in EnvKinds |-> IF k = "metric" THEN 3 ELSE 0]
=============================================================================
