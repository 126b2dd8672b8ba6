----------------------------- MODULE TargetCalls -----------------------------
(***************************************************************************)
(* How the API calls the deployment target of a bot.  A reconciliation     *)
(* installs, configures and starts it, and the reconciler has one of a bot *)
(* at a time.  A delete, a stop, a resize and a restart for another        *)
(* version do not ask whether the bot is being reconciled: they overlap it *)
(* and each other.                                                         *)
(***************************************************************************)

\* The operations that only a reconciliation asks for, one after the other.
Reconciling == {"install", "configure", "start"}

\* What runs for a bot; tasks has the operations under way.
Underway(tasks, b, ops) == {o \in DOMAIN tasks : tasks[o].bot = b /\ tasks[o].op \in ops}

MayCall(tasks, b, op) == op \in Reconciling => Underway(tasks, b, Reconciling) = {}
=============================================================================
