----------------------------- MODULE MCServices -----------------------------
(* A small instance of Services: how often the environment of each service acts. *)
EXTENDS Services

CONSTANTS bot, botTwo   \* names, the second longer than the first

SyncSteps == [edit |-> 1, call |-> 3, fault |-> 1, admin |-> 2]
PairSteps == [call |-> 3, fail |-> 1, expire |-> 1, other |-> 1]
CostSteps == [usage |-> 3, collect |-> 2, direct |-> 1, fail |-> 1, reset |-> 1]
LongerNames == {<<botTwo, bot>>}
=============================================================================
