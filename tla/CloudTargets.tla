---------------------------- MODULE CloudTargets ----------------------------
(***************************************************************************)
(* The deployment targets, and the persona templates that are injected     *)
(* into a bot which one of them runs.  They share no state, so a behaviour *)
(* follows one of them; which one is chosen at the start.                  *)
(***************************************************************************)
EXTENDS AzureVm, Ec2, Gce, DockerHost, Personas

VARIABLE cloud   \* the part that is at work

CloudParts == {"azure", "ec2", "gce", "host", "persona"}
cloudVars == <<cloud, azVars, ec2Vars, gceVars, hostVars, personaVars>>

CloudInit ==
  /\ cloud \in CloudParts
  /\ AzureInit /\ Ec2Init /\ GceInit /\ HostInit /\ PersonaInit
  \* What rests need not vary.
  /\ cloud # "azure" => setup = [vault |-> FALSE, tenant |-> FALSE]
  /\ cloud # "gce" => zone = [b \in GceBots |-> CHOOSE z \in Zones : TRUE]
  /\ cloud # "host" => hostKind = "docker" /\ hostRow.mws = {}
  /\ cloud # "persona" => ~templateRow

CloudNext ==
  /\ UNCHANGED cloud
  /\ \/ cloud = "azure" /\ AzureNext /\ UNCHANGED <<ec2Vars, gceVars, hostVars, personaVars>>
     \/ cloud = "ec2" /\ Ec2Next /\ UNCHANGED <<azVars, gceVars, hostVars, personaVars>>
     \/ cloud = "gce" /\ GceNext /\ UNCHANGED <<azVars, ec2Vars, hostVars, personaVars>>
     \/ cloud = "host" /\ HostNext /\ UNCHANGED <<azVars, ec2Vars, gceVars, personaVars>>
     \/ cloud = "persona" /\ PersonaNext /\ UNCHANGED <<azVars, ec2Vars, gceVars, hostVars>>

CloudSpec == CloudInit /\ [][CloudNext]_cloudVars

\* The type invariant of the targets.
CloudTypeOK ==
  /\ cloud \in CloudParts
  /\ AzureTypeOK /\ Ec2TypeOK /\ GceTypeOK /\ HostTypeOK /\ PersonaTypeOK
=============================================================================
