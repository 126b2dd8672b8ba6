---------------------------- MODULE MCReconciler ----------------------------
(* Small instances of Reconciler; each .cfg picks one of the budgets below. *)
EXTENDS Reconciler, TLC

CONSTANTS i1, i2, r1, r2, q1, q2, h1, h2

\* Hashes are only compared with each other; so are runs and instances, in a
\* configuration that treats all instances alike.
HashSymmetry == Permutations(Hashes)
CallSymmetry == Permutations(Instances) \cup Permutations(Runs)

Once(kinds) == [k \in EnvKinds |-> IF k \in kinds THEN 1 ELSE 0]

\* Two instances, two calls: the calls work on both at once.
PairBudget == Once({"crash", "poll"})

\* One instance whose configuration and container change around its calls.
LifeBudget == Once({"manifest", "drift", "undestroyed", "revive", "outage", "request", "orphan"})

\* Liveness: the environment may do what can strand a row.
LiveBudget == Once({"crash", "restart", "request", "pause"})

\* For the two runs that show a disagreement.
EditBudget == Once({"manifest", "drift"})
StopBudget == Once({"request", "pause"})
=============================================================================
