--------------------------- MODULE MCCloudTargets ---------------------------
(* Small instances of CloudTargets; the .cfg files give the constants. *)
EXTENDS CloudTargets, TLC

\* Nothing tells two bots apart, nor two operations, nor two EC2 instances.  Only one
\* part is at work in a behaviour, so the others can do with the same values: calls on
\* a host and injections with those of bots, middlewares with those of operations.
CloudSymmetry == Permutations(VmBots) \cup Permutations(VmTasks) \cup Permutations(Ec2Ids)

\* EC2 alone.
Ec2Only == CloudInit /\ cloud = "ec2" /\ [][CloudNext]_cloudVars
=============================================================================
