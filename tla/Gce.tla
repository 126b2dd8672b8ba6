--------------------------------- MODULE Gce ---------------------------------
(***************************************************************************)
(* Bots on Google Cloud: GceTarget with its network and compute managers.  *)
(* A bot is a managed instance group (MIG) of size 0 or 1 with an instance *)
(* template, a health check and two firewall rules; the network and the    *)
(* subnet belong to all bots of the project, in whatever zone they are.    *)
(* Every call starts an operation of GCE and waits for it: it may be       *)
(* refused, or take effect after the wait timed out.  What the target is   *)
(* asked to do overlaps, for one bot too: a delete, a stop and a resize    *)
(* never ask whether the bot is being reconciled.                          *)
(***************************************************************************)
EXTENDS Naturals, Sequences, TargetCalls

CONSTANTS
  GceBots,
  GceTasks,     \* the operations that can be under way at once
  Zones,
  Project,      \* the owner of the network and the subnet
  GceOps,       \* how many operations are asked for
  GceFaults     \* how many calls may fail or time out

ASSUME GceAssumption == Project \notin GceBots /\ GceOps \in Nat /\ GceFaults \in Nat

VARIABLES
  zone,        \* where each bot's group is; the manager lists groups of its own zone
  gce,         \* the resources: pairs of kind and owner
  templates,   \* the instance templates of each bot: 0, or the number of a resize
  migTmpl,     \* the template each group uses
  migSize,
  gceSecret,   \* the configuration in each bot's secret
  gceDo,       \* the operations under way: the bot, the calls left, the templates to make and drop
  gceCalm,     \* history: no operation overlapped a destroy
  torn,        \* history: resizes that a stop, a destroy or a resize of the bot overlapped
  gceLeft

gceVars == <<zone, gce, templates, migTmpl, migSize, gceSecret, gceDo, gceCalm, torn, gceLeft>>
gceGroup == <<templates, migTmpl, migSize, gceSecret>>

BotKinds == {"http", "ssh", "hc", "mig"}
GIdle == [op |-> "none", bot |-> Project, calls |-> <<>>, old |-> 0, new |-> 0]

GceTypeOK ==
  /\ zone \in [GceBots -> Zones]
  /\ gce \subseteq ({"vpc", "subnet"} \X {Project}) \cup (BotKinds \X GceBots)
  /\ templates \in [GceBots -> SUBSET (0..GceOps)] /\ migTmpl \in [GceBots -> 0..GceOps]
  /\ migSize \in [GceBots -> {0, 1}]
  /\ gceSecret \in [GceBots -> {"absent", "empty", "config"}]
  /\ \A o \in GceTasks :
       \/ gceDo[o] = GIdle
       \/ /\ gceDo[o].op \in {"install", "configure", "start", "stop", "restart", "resize", "destroy"}
          /\ gceDo[o].bot \in GceBots /\ {gceDo[o].old, gceDo[o].new} \subseteq 0..GceOps
  /\ torn \subseteq GceTasks
  /\ gceCalm \in BOOLEAN /\ gceLeft \in [op : Nat, fault : Nat]

HasMig(b) == <<"mig", b>> \in gce
Net(k) == <<k, Project>>
GceBot(o) == gceDo[o].bot
AtCall(o, call) == gceDo[o].calls # <<>> /\ Head(gceDo[o].calls) = call
Ends(o) == gceDo' = [gceDo EXCEPT ![o] = GIdle]
PassOver(o, n) ==
  LET calls == gceDo[o].calls
  IN  gceDo' = [gceDo EXCEPT ![o] = IF Len(calls) = n THEN GIdle
                                    ELSE [@ EXCEPT !.calls = SubSeq(calls, n + 1, Len(calls))]]

\* Faulty variant: a resize that fails leaves the group as it is.
FailsFlat(o) == IF AtCall(o, "-secret") THEN PassOver(o, 1) ELSE Ends(o)

\* What an error does to the operation: destroy goes on after its secret, a resize
\* tries once to bring the group back, everything else is given up.
Fails(o) ==
  IF AtCall(o, "-secret") THEN PassOver(o, 1)
  ELSE IF gceDo[o].op = "resize" /\ ~AtCall(o, "recover")
  THEN gceDo' = [gceDo EXCEPT ![o].calls = <<"recover">>]
  ELSE Ends(o)

\* The call had its effect, and its wait ended in time or not.
Waits(o) ==
  \/ PassOver(o, 1) /\ UNCHANGED gceLeft
  \/ /\ gceLeft.fault > 0 /\ gceLeft' = [gceLeft EXCEPT !.fault = @ - 1]
     /\ Fails(o)

\* A call that GCE refuses unless ok.
Calls(o, call, ok) ==
  /\ AtCall(o, call) /\ UNCHANGED <<zone, gceCalm, torn>>
  /\ IF ok THEN Waits(o) ELSE Fails(o) /\ UNCHANGED gceLeft

-----------------------------------------------------------------------------
(* GceNetworkManager *)

Made(o, call, r, ok) ==
  /\ Calls(o, call, ok) /\ gce' = IF ok THEN gce \cup {r} ELSE gce
  /\ UNCHANGED gceGroup

EnsureVpcNetwork(o) == Made(o, "vpc", Net("vpc"), TRUE)
EnsureSubnet(o) == Made(o, "subnet", Net("subnet"), Net("vpc") \in gce)
EnsureFirewall(o, k) == Made(o, k, <<k, GceBot(o)>>, <<k, GceBot(o)>> \in gce \/ Net("vpc") \in gce)

Removed(o, call, rs, ok) ==
  /\ Calls(o, call, ok) /\ gce' = IF ok THEN gce \ rs ELSE gce
  /\ UNCHANGED gceGroup

Firewalls == {r \in gce : r[1] \in {"http", "ssh"}}
DeleteFirewall(o, k) == Removed(o, IF k = "http" THEN "-http" ELSE "-ssh", {<<k, GceBot(o)>>}, TRUE)
DeleteSubnet(o) == Removed(o, "-subnet", {Net("subnet")}, \A c \in GceBots : ~(HasMig(c) /\ migSize[c] = 1))
DeleteNetwork(o) == Removed(o, "-vpc", {Net("vpc")}, Net("subnet") \notin gce /\ Firewalls = {})
DeleteAllFirewalls(o) == Removed(o, "-firewalls", Firewalls, TRUE)

\* Faulty variant: nobody lists the groups.
DeleteAlways(o) ==
  /\ AtCall(o, "orphan?") /\ PassOver(o, 1)
  /\ UNCHANGED <<zone, gce, gceGroup, gceCalm, torn, gceLeft>>

\* Groups in the manager's own zone keep the network.
DeleteIfNoMigs(o) ==
  /\ AtCall(o, "orphan?")
  /\ IF \E c \in GceBots : HasMig(c) /\ zone[c] = zone[GceBot(o)] THEN Ends(o) ELSE PassOver(o, 1)
  /\ UNCHANGED <<zone, gce, gceGroup, gceCalm, torn, gceLeft>>

-----------------------------------------------------------------------------
(* GceComputeManager *)

\* A template of that name must not exist yet.
CreateInstanceTemplate(o) ==
  LET new == gceDo[o].new
      ok == new \notin templates[GceBot(o)] /\ Net("subnet") \in gce
  IN  /\ Calls(o, "tmpl", ok) \/ Calls(o, "newTmpl", ok)
      /\ templates' = IF ok THEN [templates EXCEPT ![GceBot(o)] = @ \cup {new}] ELSE templates
      /\ UNCHANGED <<gce, migTmpl, migSize, gceSecret>>

CreateHealthCheck(o) == Made(o, "hc", <<"hc", GceBot(o)>>, <<"hc", GceBot(o)>> \notin gce)

CreateMig(o) ==
  LET b == GceBot(o)
      ok == ~HasMig(b) /\ 0 \in templates[b] /\ <<"hc", b>> \in gce
  IN  /\ Calls(o, "mig", ok)
      /\ gce' = IF ok THEN gce \cup {<<"mig", b>>} ELSE gce
      /\ migTmpl' = IF ok THEN [migTmpl EXCEPT ![b] = 0] ELSE migTmpl
      /\ migSize' = IF ok THEN [migSize EXCEPT ![b] = 1] ELSE migSize
      /\ UNCHANGED <<templates, gceSecret>>

ScaleMig(o, call, n) ==
  /\ Calls(o, call, HasMig(GceBot(o)))
  /\ migSize' = IF HasMig(GceBot(o)) THEN [migSize EXCEPT ![GceBot(o)] = n] ELSE migSize
  /\ UNCHANGED <<gce, templates, migTmpl, gceSecret>>

RecreateMigInstances(o) == Calls(o, "recreate", HasMig(GceBot(o))) /\ UNCHANGED <<gce, gceGroup>>

\* The template that a resize will delete when the group has its new one.
GetMigInstanceTemplate(o) ==
  /\ AtCall(o, "read")
  /\ IF HasMig(GceBot(o))
     THEN gceDo' = [gceDo EXCEPT ![o].calls = Tail(@), ![o].old = migTmpl[GceBot(o)]]
     ELSE Fails(o)
  /\ UNCHANGED <<zone, gce, gceGroup, gceCalm, torn, gceLeft>>

SetMigInstanceTemplate(o) ==
  LET ok == HasMig(GceBot(o)) /\ gceDo[o].new \in templates[GceBot(o)]
  IN  /\ Calls(o, "setTmpl", ok)
      /\ migTmpl' = IF ok THEN [migTmpl EXCEPT ![GceBot(o)] = gceDo[o].new] ELSE migTmpl
      /\ UNCHANGED <<gce, templates, migSize, gceSecret>>

\* A template that a group uses cannot be deleted.
DeleteInstanceTemplate(o, call, n) ==
  LET b == GceBot(o)
      ok == ~(HasMig(b) /\ migTmpl[b] = n)
  IN  /\ Calls(o, call, ok)
      /\ templates' = IF ok THEN [templates EXCEPT ![b] = @ \ {n}] ELSE templates
      /\ UNCHANGED <<gce, migTmpl, migSize, gceSecret>>

DeleteHealthCheck(o) == Removed(o, "-hc", {<<"hc", GceBot(o)>>}, ~HasMig(GceBot(o)))

DeleteMig(o) ==
  /\ Calls(o, "-mig", TRUE)
  /\ gce' = gce \ {<<"mig", GceBot(o)>>} /\ migSize' = [migSize EXCEPT ![GceBot(o)] = 0]
  /\ UNCHANGED <<templates, migTmpl, gceSecret>>

-----------------------------------------------------------------------------
(* GceTarget *)

StoreSecret(o, call, value) ==
  /\ Calls(o, call, TRUE) /\ gceSecret' = [gceSecret EXCEPT ![GceBot(o)] = value]
  /\ UNCHANGED <<gce, templates, migTmpl, migSize>>

TearDown ==
  <<"-mig", "-hc", "-tmpl", "-http", "-ssh", "-secret", "orphan?", "-firewalls", "-subnet", "-vpc">>

Resize == <<"size0", "read", "newTmpl", "setTmpl", "-oldTmpl", "size1">>

GceCalls ==
  [install |-> <<"vpc", "subnet", "http", "ssh", "secret", "tmpl", "hc", "mig">>,
   configure |-> <<"put">>,
   start |-> <<"size1">>, stop |-> <<"size0">>, restart |-> <<"recreate">>,
   resize |-> Resize,
   destroy |-> TearDown]

\* What leaves the group at size 0, or with another template.
Tearing == {"stop", "resize", "destroy"}

\* The reconciler, or what else calls the target of a bot, starts an operation.  A
\* resize makes a template that is named after the time.
Order(o, b, op) ==
  /\ gceLeft.op > 0 /\ gceLeft' = [gceLeft EXCEPT !.op = @ - 1]
  /\ gceDo[o] = GIdle /\ (op = "resize" => HasMig(b))
  /\ MayCall(gceDo, b, op)
  /\ gceDo' = [gceDo EXCEPT ![o] =
                 [op |-> op, bot |-> b, calls |-> GceCalls[op], old |-> 0,
                  new |-> IF op = "resize" THEN 1 + GceOps - gceLeft.op ELSE 0]]
  /\ gceCalm' = (gceCalm /\ \A p \in GceTasks :
                   gceDo[p].op # "destroy" /\ (op = "destroy" => gceDo[p] = GIdle))
  /\ torn' = (torn \ {o}) \cup (IF op \in Tearing THEN Underway(gceDo, b, {"resize"}) ELSE {})
                          \cup (IF op = "resize" /\ Underway(gceDo, b, Tearing) # {} THEN {o} ELSE {})
  /\ UNCHANGED <<zone, gce, gceGroup>>

\* A call fails before it has an effect, or the API is killed.
GceCallFails(o) ==
  /\ gceDo[o] # GIdle
  /\ gceLeft.fault > 0 /\ gceLeft' = [gceLeft EXCEPT !.fault = @ - 1]
  /\ Fails(o)
  /\ UNCHANGED <<zone, gce, gceGroup, gceCalm, torn>>

-----------------------------------------------------------------------------
GceInit ==
  /\ zone \in [GceBots -> Zones]
  /\ gce = {} /\ templates = [b \in GceBots |-> {}]
  /\ migTmpl = [b \in GceBots |-> 0] /\ migSize = [b \in GceBots |-> 0]
  /\ gceSecret = [b \in GceBots |-> "absent"]
  /\ gceDo = [o \in GceTasks |-> GIdle]
  /\ gceCalm = TRUE /\ torn = {} /\ gceLeft = [op |-> GceOps, fault |-> GceFaults]

GceNext ==
  \E o \in GceTasks :
    \/ \E b \in GceBots, op \in DOMAIN GceCalls : Order(o, b, op)
    \/ EnsureVpcNetwork(o) \/ EnsureSubnet(o)
    \/ \E k \in {"http", "ssh"} : EnsureFirewall(o, k) \/ DeleteFirewall(o, k)
    \/ CreateInstanceTemplate(o) \/ CreateHealthCheck(o) \/ CreateMig(o)
    \/ ScaleMig(o, "size1", 1) \/ ScaleMig(o, "size0", 0) \/ ScaleMig(o, "recover", 1)
    \/ RecreateMigInstances(o) \/ GetMigInstanceTemplate(o) \/ SetMigInstanceTemplate(o)
    \/ DeleteInstanceTemplate(o, "-oldTmpl", gceDo[o].old) \/ DeleteInstanceTemplate(o, "-tmpl", 0)
    \/ DeleteMig(o) \/ DeleteHealthCheck(o)
    \/ StoreSecret(o, "secret", "empty") \/ StoreSecret(o, "put", "config") \/ StoreSecret(o, "-secret", "absent")
    \/ DeleteIfNoMigs(o) \/ DeleteAllFirewalls(o) \/ DeleteSubnet(o) \/ DeleteNetwork(o)
    \/ GceCallFails(o)

GceSpec == GceInit /\ [][GceNext]_gceVars

-----------------------------------------------------------------------------
(* Properties *)

\* Among bots of one zone, as long as no operation overlaps a destroy, a group has the
\* network, the subnet and its firewall rules, whatever failed or timed out before.
GroupKeepsNetwork ==
  gceCalm /\ (\A b, c \in GceBots : zone[b] = zone[c]) =>
    \A b \in GceBots : HasMig(b) =>
      {Net("vpc"), Net("subnet"), <<"http", b>>, <<"ssh", b>>} \subseteq gce

\* Whatever goes wrong in a resize, unless it is the attempt to recover itself, the
\* group ends with one instance to run and a template that exists.  Not when a stop,
\* a destroy or another resize of the bot overlaps it, which nothing prevents: each
\* scales the group, and the last one to do so has its way.
ResizeComesBack ==
  [][\A o \in GceTasks :
       gceDo[o].op = "resize" /\ gceDo'[o] = GIdle /\ o \notin torn
         /\ (gceLeft' = gceLeft \/ gceDo[o].calls # <<"recover">>)
       => migSize'[GceBot(o)] = 1 /\ migTmpl'[GceBot(o)] \in templates'[GceBot(o)]]_gceVars
=============================================================================
