----------------------------- MODULE Onboarding -----------------------------
(***************************************************************************)
(* OnboardingService.deploy: a bot becomes a target row, an instance row   *)
(* and channel rows, and its reconcile runs on after the answer.  When     *)
(* that fails, or when a later call wants the name of a bot that failed,   *)
(* the rows are deleted again.  Every step lies between two awaits, and    *)
(* calls overlap.  All of them use one built-in template, whose gateway    *)
(* object the configurations made from it share.                           *)
(***************************************************************************)
EXTENDS Naturals, FiniteSets

CONSTANTS
  Deploys,     \* calls; an instance and its target are known by the call that creates them
  BotNames,
  Longer,      \* <<m, n>>: the name m is the name n, a hyphen and more
  Wanted,      \* the channel types each call asks for
  NoDeploy,
  LastPort,    \* ports are counted from 0 (18789) in steps (of 20)
  ObFaults     \* calls of the database that may fail, and crashes

ASSUME ObAssumption ==
  /\ NoDeploy \notin Deploys
  /\ BotNames # {} /\ Longer \subseteq BotNames \X BotNames
  /\ LastPort \in Nat /\ ObFaults \in Nat

VARIABLES
  deploy,      \* the calls
  bots,        \* BotInstance rows
  targets,     \* DeploymentTarget rows
  channels,    \* CommunicationChannel rows, by bot name and type
  otherPorts,  \* ports of the bots not followed here
  sharedToken, \* gateway.auth.token of the template object
  obFaults,
  crowded,     \* history: two calls were between configuration and row at once
  tangled      \* history: calls of one name overlapped, or of a name and a longer one met

obVars == <<deploy, bots, targets, channels, otherPorts, sharedToken, obFaults, crowded, tangled>>

DeployPcs == {"none", "search", "fleet", "ports", "target", "row", "channels", "reconcile",
              "related", "prefix", "bot", "unlink", "over"}
Row == [name : BotNames, vm : BOOLEAN, status : {"CREATING", "RUNNING", "ERROR"}, old : BOOLEAN,
        port : 0..LastPort, token : Deploys \cup {NoDeploy}]
NoBot == [status |-> "none"]

ObTypeOK ==
  /\ deploy \in [Deploys -> [pc : DeployPcs, name : BotNames, vm : BOOLEAN,
                             port : 0..LastPort, cleans : Deploys \cup {NoDeploy}]]
  /\ bots \in [Deploys -> Row \cup {NoBot}]
  /\ targets \subseteq Deploys
  /\ channels \subseteq BotNames \X Wanted
  /\ otherPorts \subseteq 0..LastPort
  /\ sharedToken \in Deploys \cup {NoDeploy}
  /\ obFaults \in 0..ObFaults
  /\ crowded \in BOOLEAN /\ tangled \in BOOLEAN

HasRow(d) == bots[d] # NoBot
Deployed == {d \in Deploys : HasRow(d)}
Rests(d) == deploy[d].pc \in {"none", "over"}
Goes(d, pc) == deploy' = [deploy EXCEPT ![d].pc = pc]
Cleans(d, e) == deploy' = [deploy EXCEPT ![d].pc = "related", ![d].cleans = e]

Related(m, n) == m = n \/ <<m, n>> \in Longer \/ <<n, m>> \in Longer

-----------------------------------------------------------------------------
(* deploy, step by step *)

Deploy(d, name, vm) ==
  /\ deploy[d].pc = "none"
  /\ deploy' = [deploy EXCEPT ![d] = [pc |-> "search", name |-> name, vm |-> vm,
                                      port |-> 0, cleans |-> NoDeploy]]
  /\ tangled' = \/ tangled
                \/ \E e \in Deploys : /\ deploy[e].pc # "none" /\ Related(deploy[e].name, name)
                                      /\ deploy[e].name # name \/ ~Rests(e)
  /\ UNCHANGED <<bots, targets, channels, otherPorts, sharedToken, obFaults, crowded>>

\* findFirst takes any row whose name contains the name asked for.
WithName(name) == {e \in Deployed : bots[e].name = name \/ <<bots[e].name, name>> \in Longer}
HasFailed(e) == bots[e].status = "ERROR" \/ (bots[e].status = "CREATING" /\ bots[e].old)

NameIsFree(d) ==
  /\ deploy[d].pc = "search"
  /\ WithName(deploy[d].name) = {} \/ \E e \in WithName(deploy[d].name) : bots[e].name # deploy[d].name
  /\ Goes(d, "fleet")
  /\ UNCHANGED <<bots, targets, channels, otherPorts, sharedToken, obFaults, crowded, tangled>>

ReplaceFailed(d) ==
  /\ deploy[d].pc = "search"
  /\ \E e \in WithName(deploy[d].name) :
       /\ bots[e].name = deploy[d].name
       /\ HasFailed(e)
       /\ Cleans(d, e)
  /\ UNCHANGED <<bots, targets, channels, otherPorts, sharedToken, obFaults, crowded, tangled>>

NameIsTaken(d) ==
  /\ deploy[d].pc = "search"
  /\ \E e \in WithName(deploy[d].name) : bots[e].name = deploy[d].name /\ ~HasFailed(e)
  /\ Goes(d, "over")
  /\ UNCHANGED <<bots, targets, channels, otherPorts, sharedToken, obFaults, crowded, tangled>>

\* The copy of the template's configuration is shallow: the token goes into the
\* object that all copies share, and it is read there when the row is written.
InWindow(d) == deploy[d].pc \in {"ports", "target", "row"}

Configure(d) ==
  /\ deploy[d].pc = "fleet"
  /\ sharedToken' = d
  /\ crowded' = (crowded \/ \E e \in Deploys : InWindow(e))
  /\ Goes(d, "ports")
  /\ UNCHANGED <<bots, targets, channels, otherPorts, obFaults, tangled>>

\* Faulty variant: the port of a bot in trouble is given away.
UsedPortsOfSound == otherPorts \cup {bots[e].port : e \in {x \in Deployed : bots[x].status # "ERROR"}}
UsedPorts == otherPorts \cup {bots[e].port : e \in Deployed}

IsFirstFree(port) == port \notin UsedPorts /\ \A p \in 0..LastPort : p < port => p \in UsedPorts

AllocateGatewayPort(d) ==
  /\ deploy[d].pc = "ports"
  /\ \E port \in 0..LastPort :
       /\ IsFirstFree(port)
       /\ deploy' = [deploy EXCEPT ![d].pc = "target", ![d].port = IF deploy[d].vm THEN 0 ELSE port]
  /\ UNCHANGED <<bots, targets, channels, otherPorts, sharedToken, obFaults, crowded, tangled>>

NoPortLeft(d) ==
  /\ deploy[d].pc = "ports"
  /\ 0..LastPort \subseteq UsedPorts
  /\ Goes(d, "over")
  /\ UNCHANGED <<bots, targets, channels, otherPorts, sharedToken, obFaults, crowded, tangled>>

CreateTarget(d) ==
  /\ deploy[d].pc = "target"
  /\ targets' = targets \cup {d}
  /\ Goes(d, "row")
  /\ UNCHANGED <<bots, channels, otherPorts, sharedToken, obFaults, crowded, tangled>>

\* Names are unique in a workspace; a second row of a name is an exception,
\* and the target stays behind.
CreateBot(d) ==
  /\ deploy[d].pc = "row"
  /\ IF \E e \in Deployed : bots[e].name = deploy[d].name
     THEN Goes(d, "over") /\ UNCHANGED bots
     ELSE /\ bots' = [bots EXCEPT ![d] = [name |-> deploy[d].name, vm |-> deploy[d].vm,
                                          status |-> "CREATING", old |-> FALSE,
                                          port |-> deploy[d].port, token |-> sharedToken]]
          /\ Goes(d, "channels")
  /\ UNCHANGED <<targets, channels, otherPorts, sharedToken, obFaults, crowded, tangled>>

\* The channels follow one by one, and then reconcile is started.
Asked(d) == {<<deploy[d].name, type>> : type \in Wanted}

UpsertChannel(d) ==
  /\ deploy[d].pc = "channels"
  /\ \/ \E c \in Asked(d) \ channels :
          /\ channels' = channels \cup {c}
          /\ deploy' = IF Asked(d) \subseteq channels' THEN [deploy EXCEPT ![d].pc = "reconcile"]
                                                       ELSE deploy
     \/ Asked(d) \subseteq channels /\ Goes(d, "reconcile") /\ UNCHANGED channels
  /\ UNCHANGED <<bots, targets, otherPorts, sharedToken, obFaults, crowded, tangled>>

ReconcileSucceeds(d) ==
  /\ deploy[d].pc = "reconcile" /\ HasRow(d)
  /\ bots' = [bots EXCEPT ![d].status = "RUNNING", ![d].old = FALSE]
  /\ Goes(d, "over")
  /\ UNCHANGED <<targets, channels, otherPorts, sharedToken, obFaults, crowded, tangled>>

\* It also fails when the row is gone.
ReconcileFails(d) ==
  /\ deploy[d].pc = "reconcile"
  /\ bots' = IF HasRow(d) THEN [bots EXCEPT ![d].status = "ERROR", ![d].old = FALSE] ELSE bots
  /\ Cleans(d, d)
  /\ UNCHANGED <<targets, channels, otherPorts, sharedToken, obFaults, crowded, tangled>>

-----------------------------------------------------------------------------
(* cleanupFailedDeployment, on behalf of d *)

\* What follows: the new bot, or nothing when d cleans up after itself.
Cleaned(d) == deploy' = [deploy EXCEPT ![d].pc = IF deploy[d].cleans = d THEN "over" ELSE "fleet",
                                       ![d].cleans = NoDeploy]

FindById(d) ==
  /\ deploy[d].pc = "related"
  /\ Goes(d, IF HasRow(deploy[d].cleans) THEN "prefix" ELSE "bot")
  /\ UNCHANGED <<bots, targets, channels, otherPorts, sharedToken, obFaults, crowded, tangled>>

\* The rows whose names start with the name of the bot and a hyphen.  The name
\* of the bot found is the name that d asked for.
DeleteChannelsByNamePrefix(d) ==
  /\ deploy[d].pc = "prefix"
  /\ channels' = {c \in channels : c[1] # deploy[d].name /\ <<c[1], deploy[d].name>> \notin Longer}
  /\ Goes(d, "bot")
  /\ UNCHANGED <<bots, targets, otherPorts, sharedToken, obFaults, crowded, tangled>>

\* Faulty variant: the target is forgotten.
DeleteBotOnly(d) ==
  /\ deploy[d].pc = "bot"
  /\ bots' = [bots EXCEPT ![deploy[d].cleans] = NoBot]
  /\ Cleaned(d)
  /\ UNCHANGED <<targets, channels, otherPorts, sharedToken, obFaults, crowded, tangled>>

DeleteBot(d) ==
  /\ deploy[d].pc = "bot"
  /\ IF HasRow(deploy[d].cleans)
     THEN bots' = [bots EXCEPT ![deploy[d].cleans] = NoBot] /\ Goes(d, "unlink")
     ELSE UNCHANGED bots /\ Cleaned(d)
  /\ UNCHANGED <<targets, channels, otherPorts, sharedToken, obFaults, crowded, tangled>>

DeleteTarget(d) ==
  /\ deploy[d].pc = "unlink"
  /\ targets' = targets \ {deploy[d].cleans}
  /\ Cleaned(d)
  /\ UNCHANGED <<bots, channels, otherPorts, sharedToken, obFaults, crowded, tangled>>

-----------------------------------------------------------------------------
(* The rest of the world *)

\* An instance stays CREATING for fifteen minutes.
Ages(d) ==
  /\ HasRow(d) /\ bots[d].status = "CREATING" /\ ~bots[d].old
  /\ bots' = [bots EXCEPT ![d].old = TRUE]
  /\ UNCHANGED <<deploy, targets, channels, otherPorts, sharedToken, obFaults, crowded, tangled>>

\* The stuck detector marks a row that stayed CREATING, the orphan detector one whose VM is in error.
Breaks(d) ==
  /\ HasRow(d) /\ bots[d].status # "ERROR" /\ (bots[d].status = "CREATING" => bots[d].old)
  /\ bots' = [bots EXCEPT ![d].status = "ERROR", ![d].old = FALSE]
  /\ UNCHANGED <<deploy, targets, channels, otherPorts, sharedToken, obFaults, crowded, tangled>>

\* A call of the database fails: deploy throws, the clean-up goes no further.
ObFails(d) ==
  /\ obFaults > 0
  /\ ~Rests(d) /\ deploy[d].pc # "reconcile"
  /\ IF deploy[d].cleans # NoDeploy THEN Cleaned(d) ELSE Goes(d, "over")
  /\ obFaults' = obFaults - 1
  /\ UNCHANGED <<bots, targets, channels, otherPorts, sharedToken, crowded, tangled>>

\* The process dies; the template is loaded anew.
ObCrash ==
  /\ obFaults > 0
  /\ deploy' = [d \in Deploys |-> IF Rests(d) THEN deploy[d]
                                  ELSE [deploy[d] EXCEPT !.pc = "over", !.cleans = NoDeploy]]
  /\ sharedToken' = NoDeploy
  /\ obFaults' = obFaults - 1
  /\ UNCHANGED <<bots, targets, channels, otherPorts, crowded, tangled>>

-----------------------------------------------------------------------------
ObInit ==
  /\ deploy = [d \in Deploys |-> [pc |-> "none", name |-> CHOOSE n \in BotNames : TRUE, vm |-> FALSE,
                                  port |-> 0, cleans |-> NoDeploy]]
  /\ bots = [d \in Deploys |-> NoBot]
  /\ targets = {} /\ channels = {}
  \* No other bot, or too many.
  /\ otherPorts \in {{}, 0..LastPort}
  /\ sharedToken = NoDeploy
  /\ obFaults = ObFaults
  /\ crowded = FALSE /\ tangled = FALSE

ObNext ==
  \/ ObCrash
  \/ \E d \in Deploys :
       \/ \E name \in BotNames, vm \in BOOLEAN : Deploy(d, name, vm)
       \/ NameIsFree(d) \/ ReplaceFailed(d) \/ NameIsTaken(d)
       \/ Configure(d) \/ AllocateGatewayPort(d) \/ NoPortLeft(d)
       \/ CreateTarget(d) \/ CreateBot(d) \/ UpsertChannel(d)
       \/ ReconcileSucceeds(d) \/ ReconcileFails(d)
       \/ FindById(d) \/ DeleteChannelsByNamePrefix(d) \/ DeleteBot(d) \/ DeleteTarget(d)
       \/ Ages(d) \/ Breaks(d) \/ ObFails(d)

ObSpec == ObInit /\ [][ObNext]_obVars

-----------------------------------------------------------------------------
(* Properties *)

\* As long as no two calls were between configuration and row at once, each bot
\* has the gateway token it was given, a target, and, when it runs on this host,
\* a port that no other bot of the host has; whatever failed, was cleaned up or
\* deployed again under its name.
OwnTokenAndPort ==
  ~crowded => \A d \in Deployed :
    /\ bots[d].token = d
    /\ d \in targets
    /\ ~bots[d].vm => /\ bots[d].port \notin otherPorts
                      /\ \A e \in Deployed \ {d} : bots[e].vm \/ bots[e].port # bots[d].port

\* Somebody is about to delete the rows of d.
IsCleaned(d) == \E e \in Deploys : deploy[e].cleans = d

\* The clean-up takes all of a failed bot and nothing of another: without failing
\* calls, and as long as calls of one name did not overlap and no name began with
\* another one, a deployed bot has the channels it asked for, and once all calls
\* have ended each target and each channel belongs to a bot.
DeployedIsWhole ==
  (obFaults = ObFaults /\ ~tangled) =>
    /\ \A d \in Deployed :
         deploy[d].pc \in {"reconcile", "over"} /\ ~IsCleaned(d) => Asked(d) \subseteq channels
    /\ (\A d \in Deploys : Rests(d)) =>
         targets = Deployed /\ \A c \in channels : \E d \in Deployed : bots[d].name = c[1]
=============================================================================
