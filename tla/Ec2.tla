--------------------------------- MODULE Ec2 ---------------------------------
(***************************************************************************)
(* Bots on EC2: AwsEc2Target with its network and compute managers.  The   *)
(* bots of a region share a VPC, found again by its tags, and the IAM role *)
(* and profile.  A stopped bot has no instance: stop terminates it, start  *)
(* launches another one from the bot's launch template.  An operation is a *)
(* sequence of calls.  Operations overlap, those of one bot too: a delete, *)
(* a stop and a restart never ask whether the bot is being reconciled.     *)
(* EC2 itself refuses a launch whose parts are missing and the deletion of *)
(* what is in use, as it does while a terminated instance shuts down.      *)
(***************************************************************************)
EXTENDS Naturals, Sequences, TargetCalls

CONSTANTS
  Ec2Bots,
  Ec2Tasks,    \* the operations that can be under way at once
  Ec2Ids,      \* the instances; as many as the account's quota allows
  VpcIds,      \* as many as the region's quota allows
  NoVpc,       \* no VPC, and no bot
  Ec2Ops,      \* how many operations are asked for
  Ec2Faults    \* how many calls may fail

ASSUME Ec2Assumption == NoVpc \notin VpcIds \cup Ec2Bots /\ Ec2Ops \in Nat /\ Ec2Faults \in Nat

VARIABLES
  vpc,         \* the parts that exist of each VPC
  iam,         \* the parts that exist of the shared role and profile
  template,    \* the VPC of the security group in each bot's template
  ec2Secret,   \* the configuration in each bot's secret
  machine,     \* the instances: whose each is, its state and its VPC
  work,        \* the operations under way: the bot, the calls left, the VPC it has found
  ec2Calm,     \* history: no operation overlapped a destroy
  oneVpc,      \* history: a VPC was created only when there was none
  crossed,     \* history: bots of which two launches, or a destroy and what it undoes, overlapped
  lastOut,     \* history: shared parts were removed only by the last bot installed
  ec2Left

ec2Vars == <<vpc, iam, template, ec2Secret, machine, work, ec2Calm, oneVpc, crossed, lastOut, ec2Left>>

VpcParts == {"vpc", "igw", "subnet", "rtb", "sg"}
IamParts == {"role", "policy", "profile", "link"}
NoMachine == [of |-> NoVpc, is |-> "none", in |-> NoVpc]
Running == {"pending", "boots", "up", "dead"}
Idle == [op |-> "none", bot |-> NoVpc, calls |-> <<>>, found |-> NoVpc]

Ec2TypeOK ==
  /\ vpc \in [VpcIds -> SUBSET VpcParts] /\ iam \subseteq IamParts
  /\ template \in [Ec2Bots -> VpcIds \cup {NoVpc}]
  /\ ec2Secret \in [Ec2Bots -> {"absent", "empty", "config"}]
  /\ machine \in [Ec2Ids -> [of : Ec2Bots, is : Running \cup {"stopped", "dying"}, in : VpcIds] \cup {NoMachine}]
  /\ \A o \in Ec2Tasks :
       \/ work[o] = Idle
       \/ /\ work[o].op \in {"install", "configure", "start", "stop", "restart", "destroy"}
          /\ work[o].bot \in Ec2Bots /\ work[o].found \in VpcIds \cup {NoVpc}
  /\ crossed \subseteq Ec2Bots
  /\ {ec2Calm, oneVpc, lastOut} \subseteq BOOLEAN
  /\ ec2Left \in [op : Nat, fault : Nat]

Tagged == {v \in VpcIds : vpc[v] # {}}
Live(i) == machine[i].is \in Running \cup {"stopped"}
Ec2Bot(o) == work[o].bot
LiveOf(b) == {i \in Ec2Ids : Live(i) /\ machine[i].of = b}
Complete(v) == vpc[v] = VpcParts /\ "profile" \in iam
Doing(o, call) == work[o].calls # <<>> /\ Head(work[o].calls) = call
GiveUp(o) == work' = [work EXCEPT ![o] = Idle]
\* The next n calls are behind; an operation that has made its last one is over.
Pass(o, n, v) ==
  LET calls == work[o].calls
  IN  work' = [work EXCEPT ![o] =
                 IF Len(calls) = n THEN Idle
                 ELSE [@ EXCEPT !.calls = SubSeq(calls, n + 1, Len(calls)), !.found = v]]
Then(o) == Pass(o, 1, work[o].found)
ec2Rest == <<ec2Secret, ec2Calm, oneVpc, crossed, ec2Left>>

-----------------------------------------------------------------------------
(* AwsNetworkManager *)

MakeCalls == <<"vpc", "igw", "subnet", "rtb", "sg", "iam", "role", "policy", "profile", "link">>
UnmakeCalls == <<"-link", "-profile", "-policy", "-role", "-sg", "-rtb", "-subnet", "-igw", "-vpc">>
Unmake ==
  [link |-> "-link", profile |-> "-profile", policy |-> "-policy", role |-> "-role", sg |-> "-sg",
   rtb |-> "-rtb", subnet |-> "-subnet", igw |-> "-igw", vpc |-> "-vpc"]

\* The VPC is the first that EC2 lists by the tags, which may be any of them.
EnsureSharedInfra(o) ==
  /\ Doing(o, "ensure")
  /\ \/ \E v \in Tagged : IF Complete(v) THEN Pass(o, 1 + Len(MakeCalls), v) ELSE Then(o)
     \/ Tagged = {} /\ Then(o)
  /\ UNCHANGED <<vpc, iam, template, machine, lastOut, ec2Rest>>

CreateVpc(o) ==
  /\ Doing(o, "vpc")
  /\ oneVpc' = (oneVpc /\ Tagged = {})
  /\ IF Tagged = VpcIds THEN GiveUp(o) /\ UNCHANGED vpc
     ELSE LET v == CHOOSE v \in VpcIds \ Tagged : TRUE
          IN  vpc' = [vpc EXCEPT ![v] = {"vpc"}] /\ Pass(o, 1, v)
  /\ UNCHANGED <<iam, template, ec2Secret, machine, ec2Calm, crossed, lastOut, ec2Left>>

\* A part of the VPC that the operation created; EC2 asks for the VPC.
CreatePart(o, p) ==
  /\ Doing(o, p)
  /\ IF vpc[work[o].found] = {} THEN GiveUp(o) /\ UNCHANGED vpc
     ELSE vpc' = [vpc EXCEPT ![work[o].found] = @ \cup {p}] /\ Then(o)
  /\ UNCHANGED <<iam, template, machine, lastOut, ec2Rest>>

EnsureIamResources(o) ==
  /\ Doing(o, "iam")
  /\ Pass(o, IF "profile" \in iam THEN 5 ELSE 1, work[o].found)
  /\ UNCHANGED <<vpc, iam, template, machine, lastOut, ec2Rest>>

\* What exists already cannot be created; a policy and a link need their parts.
CreateIam(o, p) ==
  /\ Doing(o, p)
  /\ IF \/ p \in {"role", "profile", "link"} /\ p \in iam
        \/ p = "policy" /\ "role" \notin iam
        \/ p = "link" /\ ~({"role", "profile"} \subseteq iam)
     THEN GiveUp(o) /\ UNCHANGED iam
     ELSE iam' = iam \cup {p} /\ Then(o)
  /\ UNCHANGED <<vpc, template, machine, lastOut, ec2Rest>>

InUse(v) == \E i \in Ec2Ids : Live(i) /\ machine[i].in = v

\* Faulty variant: the instances are not looked at.
DeleteAnyway(o) ==
  /\ Doing(o, "orphan?")
  /\ \/ \E v \in Tagged : IF Complete(v) THEN Pass(o, 1, v) ELSE GiveUp(o)
     \/ Tagged = {} /\ GiveUp(o)
  /\ UNCHANGED <<vpc, iam, template, machine, lastOut, ec2Rest>>

\* Only live instances of that VPC keep the shared parts.
DeleteIfOrphaned(o) ==
  /\ Doing(o, "orphan?")
  /\ \/ \E v \in Tagged : IF Complete(v) /\ ~InUse(v) THEN Pass(o, 1, v) ELSE GiveUp(o)
     \/ Tagged = {} /\ GiveUp(o)
  /\ UNCHANGED <<vpc, iam, template, machine, lastOut, ec2Rest>>

OthersInstalled(b) == \E c \in Ec2Bots \ {b} : template[c] # NoVpc

\* A profile that holds the role, and a role that has a policy or is held, stay.
DeleteIam(o, p) ==
  /\ Doing(o, Unmake[p])
  /\ IF \/ p = "profile" /\ "link" \in iam
        \/ p = "role" /\ {"policy", "link"} \cap iam # {}
     THEN GiveUp(o) /\ UNCHANGED <<iam, lastOut>>
     ELSE /\ iam' = iam \ {p} /\ Then(o)
          /\ lastOut' = (lastOut /\ ~OthersInstalled(Ec2Bot(o)))
  /\ UNCHANGED <<vpc, template, machine, ec2Rest>>

\* An instance that still shuts down holds the group and the subnet.
DeletePart(o, p) ==
  LET v == work[o].found
      held == \E i \in Ec2Ids : machine[i].in = v
  IN  /\ Doing(o, Unmake[p])
      /\ IF \/ p \in {"sg", "subnet", "igw"} /\ held
            \/ p = "vpc" /\ ~(vpc[v] \subseteq {"vpc"})
         THEN GiveUp(o) /\ UNCHANGED vpc
         ELSE vpc' = [vpc EXCEPT ![v] = @ \ {p}] /\ Then(o)
      /\ UNCHANGED <<iam, template, machine, lastOut, ec2Rest>>

-----------------------------------------------------------------------------
(* AwsComputeManager *)

\* Faulty variant: an instance that has not come up yet is not found.
FindRunning(b) == {i \in LiveOf(b) : machine[i].is # "pending"}

\* Any instance that is not on its way out, but one that runs if there is one.
FindInstanceByTag(b) ==
  LET running == {i \in LiveOf(b) : machine[i].is \in Running}
  IN  IF running # {} THEN running ELSE LiveOf(b)

Terminate(i) == machine' = [machine EXCEPT ![i].is = "dying"]

TerminateInstance(o) ==
  /\ Doing(o, "terminate")
  /\ \/ \E i \in FindInstanceByTag(Ec2Bot(o)) : Terminate(i)
     \/ FindInstanceByTag(Ec2Bot(o)) = {} /\ UNCHANGED machine
  /\ Then(o)
  /\ UNCHANGED <<vpc, iam, template, lastOut, ec2Rest>>

EnsureLaunchTemplate(o) ==
  /\ Doing(o, "template")
  /\ template' = [template EXCEPT ![Ec2Bot(o)] = work[o].found] /\ Then(o)
  /\ UNCHANGED <<vpc, iam, machine, lastOut, ec2Rest>>

DeleteLaunchTemplate(o) ==
  /\ Doing(o, "-template")
  /\ template' = [template EXCEPT ![Ec2Bot(o)] = NoVpc] /\ Then(o)
  /\ UNCHANGED <<vpc, iam, machine, lastOut, ec2Rest>>

\* The group of the template and the subnet must be of one VPC.
RunInstance(o) ==
  LET v == work[o].found
      free == {i \in Ec2Ids : machine[i] = NoMachine}
  IN  /\ Doing(o, "run")
      /\ IF template[Ec2Bot(o)] = v /\ {"sg", "subnet"} \subseteq vpc[v] /\ "profile" \in iam /\ free # {}
         THEN \E i \in free :
                machine' = [machine EXCEPT ![i] = [of |-> Ec2Bot(o), is |-> "pending", in |-> v]] /\ Then(o)
         ELSE GiveUp(o) /\ UNCHANGED machine
      /\ UNCHANGED <<vpc, iam, template, lastOut, ec2Rest>>

\* Until the instance runs, or for ten minutes: it is there either way.
WaitRunning(o) ==
  /\ Doing(o, "wait") /\ Then(o)
  /\ UNCHANGED <<vpc, iam, template, machine, lastOut, ec2Rest>>

-----------------------------------------------------------------------------
(* AwsEc2Target *)

SharedInfra(o) ==
  /\ Doing(o, "infra")
  /\ \/ \E v \in Tagged : IF Complete(v) THEN Pass(o, 1, v) ELSE GiveUp(o)
     \/ Tagged = {} /\ GiveUp(o)
  /\ UNCHANGED <<vpc, iam, template, machine, lastOut, ec2Rest>>

\* An instance that runs already ends a start; one that is stopped is terminated.
FindForStart(o) ==
  /\ Doing(o, "find")
  /\ \/ \E i \in FindInstanceByTag(Ec2Bot(o)) :
          IF machine[i].is \in Running THEN GiveUp(o) /\ UNCHANGED machine ELSE Terminate(i) /\ Then(o)
     \/ FindInstanceByTag(Ec2Bot(o)) = {} /\ Then(o) /\ UNCHANGED machine
  /\ UNCHANGED <<vpc, iam, template, lastOut, ec2Rest>>

EnsureSecret(o, call, value) ==
  /\ Doing(o, call)
  /\ ec2Secret' = [ec2Secret EXCEPT ![Ec2Bot(o)] = value] /\ Then(o)
  /\ UNCHANGED <<vpc, iam, template, machine, ec2Calm, oneVpc, crossed, lastOut, ec2Left>>

Launch == <<"infra", "run", "wait">>
Installation == <<"ensure">> \o MakeCalls \o <<"secret", "template">>
Destruction == <<"terminate", "-template", "-secret", "orphan?">> \o UnmakeCalls
Ec2Calls ==
  [install |-> Installation,
   configure |-> <<"put">>,
   start |-> <<"find">> \o Launch,
   stop |-> <<"terminate">>,
   restart |-> <<"terminate">> \o Launch,
   destroy |-> Destruction]

Launching == {"start", "restart"}

\* Two launches of a bot at once, or a destroy and what it is to undo.
Crosses(b, op) ==
  \/ op \in Launching /\ Underway(work, b, Launching \cup {"destroy"}) # {}
  \/ op = "install" /\ Underway(work, b, {"destroy"}) # {}
  \/ op = "destroy" /\ Underway(work, b, Launching \cup {"install"}) # {}

\* The reconciler, or what else calls the target of a bot, starts an operation.
Request(o, b, op) ==
  /\ ec2Left.op > 0 /\ ec2Left' = [ec2Left EXCEPT !.op = @ - 1]
  /\ work[o] = Idle
  /\ MayCall(work, b, op)
  /\ work' = [work EXCEPT ![o] = [op |-> op, bot |-> b, calls |-> Ec2Calls[op], found |-> NoVpc]]
  /\ ec2Calm' = (ec2Calm /\ \A p \in Ec2Tasks :
                   work[p].op # "destroy" /\ (op = "destroy" => work[p] = Idle))
  /\ crossed' = IF Crosses(b, op) THEN crossed \cup {b} ELSE crossed
  /\ UNCHANGED <<vpc, iam, template, ec2Secret, machine, oneVpc, lastOut>>

\* A failed call ends the operation, but not the deletion of a secret; an API
\* that is killed between two calls leaves the same behind.
Ec2CallFails(o) ==
  /\ work[o] # Idle
  /\ ec2Left.fault > 0 /\ ec2Left' = [ec2Left EXCEPT !.fault = @ - 1]
  /\ IF Doing(o, "-secret") THEN Then(o) ELSE GiveUp(o)
  /\ UNCHANGED <<vpc, iam, template, ec2Secret, machine, ec2Calm, oneVpc, crossed, lastOut>>

-----------------------------------------------------------------------------
(* EC2, and the user data of an instance *)

Runs(i) ==
  /\ machine[i].is = "pending" /\ machine' = [machine EXCEPT ![i].is = "boots"]
  /\ UNCHANGED <<vpc, iam, template, work, lastOut, ec2Rest>>

\* Without the role's credentials the script ends before the container starts.
UserData(i) ==
  /\ machine[i].is = "boots"
  /\ machine' = [machine EXCEPT ![i].is = IF {"role", "link"} \subseteq iam THEN "up" ELSE "dead"]
  /\ UNCHANGED <<vpc, iam, template, work, lastOut, ec2Rest>>

\* Somebody stops it from the console, or its host fails.
Stops(i) ==
  /\ machine[i].is \in Running
  /\ ec2Left.fault > 0 /\ ec2Left' = [ec2Left EXCEPT !.fault = @ - 1]
  /\ machine' = [machine EXCEPT ![i].is = "stopped"]
  /\ UNCHANGED <<vpc, iam, template, work, ec2Secret, ec2Calm, oneVpc, crossed, lastOut>>

Terminated(i) ==
  /\ machine[i].is = "dying" /\ machine' = [machine EXCEPT ![i] = NoMachine]
  /\ UNCHANGED <<vpc, iam, template, work, lastOut, ec2Rest>>

-----------------------------------------------------------------------------
Ec2Init ==
  /\ vpc = [v \in VpcIds |-> {}] /\ iam = {}
  /\ template = [b \in Ec2Bots |-> NoVpc] /\ ec2Secret = [b \in Ec2Bots |-> "absent"]
  /\ machine = [i \in Ec2Ids |-> NoMachine]
  /\ work = [o \in Ec2Tasks |-> Idle]
  /\ ec2Calm = TRUE /\ oneVpc = TRUE /\ crossed = {} /\ lastOut = TRUE
  /\ ec2Left = [op |-> Ec2Ops, fault |-> Ec2Faults]

Ec2Next ==
  \/ \E o \in Ec2Tasks :
       \/ \E b \in Ec2Bots, op \in DOMAIN Ec2Calls : Request(o, b, op)
       \/ EnsureSharedInfra(o) \/ CreateVpc(o) \/ EnsureIamResources(o)
       \/ \E p \in VpcParts \ {"vpc"} : CreatePart(o, p)
       \/ \E p \in IamParts : CreateIam(o, p) \/ DeleteIam(o, p)
       \/ DeleteIfOrphaned(o) \/ \E p \in VpcParts : DeletePart(o, p)
       \/ TerminateInstance(o) \/ EnsureLaunchTemplate(o) \/ DeleteLaunchTemplate(o)
       \/ RunInstance(o) \/ WaitRunning(o) \/ SharedInfra(o) \/ FindForStart(o)
       \/ EnsureSecret(o, "secret", "empty") \/ EnsureSecret(o, "put", "config")
       \/ EnsureSecret(o, "-secret", "absent")
       \/ Ec2CallFails(o)
  \/ \E i \in Ec2Ids : Runs(i) \/ UserData(i) \/ Stops(i) \/ Terminated(i)

Ec2Spec == Ec2Init /\ [][Ec2Next]_ec2Vars

-----------------------------------------------------------------------------
(* Properties *)

\* An instance keeps the network it is in, whole, and the instance profile it was
\* launched with, whatever failed before, as long as no operation overlaps a destroy
\* and the region never had a second VPC.  Not that the profile holds a role: an
\* install that failed before it linked the two leaves a profile which the next one
\* takes for complete, and the instance then finds no credentials.
InstanceKeepsShared ==
  \A i \in Ec2Ids :
    ec2Calm /\ oneVpc /\ Live(i) => vpc[machine[i].in] = VpcParts /\ "profile" \in iam

\* A destroy that no call failed leaves no instance, also when an earlier start
\* gave up waiting for it, and nothing to launch one from.  Only for a bot of which
\* no two launches overlapped, nor a destroy an install or a launch: the target does
\* not prevent that, and the instance that nobody has seen stays.
DestroyEndsInstances ==
  [][\A o \in Ec2Tasks :
       work[o].op = "destroy" /\ work'[o] = Idle /\ ec2Left' = ec2Left /\ Ec2Bot(o) \notin crossed
       => (\A i \in Ec2Ids : ~(Live(i)' /\ machine'[i].of = Ec2Bot(o))) /\ template'[Ec2Bot(o)] = NoVpc]_ec2Vars

\* aws-network-manager.interface.ts, on deleteSharedInfraIfOrphaned: "Used during
\* the last bot's destroy() to clean up."
OnlyLastBotDeletes == lastOut
=============================================================================
