----------------------------- MODULE DockerHost -----------------------------
(***************************************************************************)
(* A bot on the host of the API: DockerContainerTarget, which puts a proxy *)
(* before a bot with middlewares, and LocalMachineTarget.  The reconciler  *)
(* and the lifecycle calls make a fresh target object for each call, so    *)
(* what an object remembers (a profile, the middlewares) is gone with it.  *)
(* Bots share nothing here, so the module follows one.                     *)
(***************************************************************************)
EXTENDS Naturals

CONSTANTS
  NoRow,         \* no row
  HostCalls,    \* lifecycle calls that may be in progress at a time
  HostMws,      \* middlewares
  HostOps,      \* how many calls are made
  HostFaults    \* how many steps may fail

HostRows == [status : {"CREATING", "RECONCILING", "RUNNING", "STOPPED", "ERROR", "DELETING"},
             mws : SUBSET HostMws, known : BOOLEAN]

ASSUME HostAssumption == HostOps \in Nat /\ HostFaults \in Nat /\ NoRow \notin HostRows

VARIABLES
  hostKind,    \* the target: "docker" or "local"
  hostRow,     \* the bot's row: status, enabled middlewares, whether it was ever reconciled
  main,        \* the bot's container, and whether the host reaches it or only its network
  proxy,       \* the proxy's container and the middlewares it runs
  network,     \* whether the network of the two exists
  unit,        \* the service of a local bot
  hostRun,     \* the reconcile in progress, with what it read
  hostCall,    \* the lifecycle calls in progress
  hostClean,   \* history: no two calls overlapped, and none left standing what it was to remove
  upgradedDown,  \* history: a bot that was not RUNNING was restarted for another version
  hostLeft

hostVars == <<hostKind, hostRow, main, proxy, network, unit, hostRun, hostCall, hostClean, upgradedDown, hostLeft>>
containers == <<main, proxy, network>>

NoBox == [state |-> "absent", way |-> "none"]
NoProxy == [state |-> "absent", mws |-> {}]
RunRest == [at |-> "rest", new |-> FALSE, mws |-> {}]
CallRest == [op |-> "none", at |-> "rest", mws |-> {}]

HostTypeOK ==
  /\ hostKind \in {"docker", "local"}
  /\ hostRow \in HostRows \cup {NoRow}
  /\ main \in [state : {"absent", "created", "running"}, way : {"none", "published", "inside"}]
  /\ proxy \in [state : {"absent", "created", "running"}, mws : SUBSET HostMws]
  /\ network \in BOOLEAN /\ unit \in {"absent", "installed", "active"}
  /\ hostRun \in [at : {"rest", "load", "mark", "check", "update", "proxy-", "main-", "net-", "install",
                        "configure", "start", "again", "net+", "main+", "proxy+", "connect", "note",
                        "pfail", "refetch", "save", "fail"},
                  new : BOOLEAN, mws : SUBSET HostMws]
  /\ hostCall \in [HostCalls -> [op : {"none", "stop", "delete", "upgrade", "assign"},
                   at : {"rest", "proxy-", "main-", "net-", "mark", "end", "restart", "restartProxy", "save"},
                   mws : SUBSET HostMws]]
  /\ {hostClean, upgradedDown} \subseteq BOOLEAN /\ hostLeft \in [op : Nat, fault : Nat]

HostInit ==
  /\ hostKind \in {"docker", "local"}
  /\ \E mws \in SUBSET HostMws : hostRow = [status |-> "CREATING", mws |-> mws, known |-> FALSE]
  /\ main = NoBox /\ proxy = NoProxy /\ network = FALSE /\ unit = "absent"
  /\ hostRun = RunRest /\ hostCall = [k \in HostCalls |-> CallRest]
  /\ hostClean = TRUE /\ upgradedDown = FALSE /\ hostLeft = [op |-> HostOps, fault |-> HostFaults]

RunIsAt(s) == hostRun.at = s
RunTo(s) == hostRun' = [hostRun EXCEPT !.at = s]
CallIsAt(k, s) == hostCall[k].at = s
CallTo(k, s) == hostCall' = [hostCall EXCEPT ![k].at = s]
CallEnds(k) == hostCall' = [hostCall EXCEPT ![k] = CallRest]
NoCall == \A k \in HostCalls : CallIsAt(k, "rest")
Fault == hostLeft.fault > 0 /\ hostLeft' = [hostLeft EXCEPT !.fault = @ - 1]
Budgeted == hostLeft.op > 0 /\ hostLeft' = [hostLeft EXCEPT !.op = @ - 1]

\* An update of the row, which throws when there is none.
Writes(row) == hostRow # NoRow /\ hostRow' = row
Marked(status) == [hostRow EXCEPT !.status = status]
Recorded(status) == [hostRow EXCEPT !.status = status, !.known = TRUE]

\* Whether a client of the gateway gets through to it.
Reachable ==
  IF hostKind = "local" THEN unit = "active"
  ELSE /\ main.state = "running"
       /\ main.way = "published" \/ (network /\ proxy.state = "running")
PortTaken == proxy.state = "running" \/ (main.state = "running" /\ main.way = "published")

-----------------------------------------------------------------------------
(* Taking down: three commands whose errors are swallowed *)

RemoveProxy == proxy' = NoProxy /\ UNCHANGED <<main, network>>
RemoveMain == main' = NoBox /\ UNCHANGED <<proxy, network>>
\* Docker keeps a network that a running container is on.
RemoveNetwork ==
  /\ network' = (network /\ (proxy.state = "running" \/ (main.state = "running" /\ main.way = "inside")))
  /\ UNCHANGED <<main, proxy>>
Remove(step) ==
  CASE step = "proxy-" -> RemoveProxy
    [] step = "main-" -> RemoveMain
    [] step = "net-" -> RemoveNetwork
RemoveSteps == {"proxy-", "main-", "net-"}
AfterRemove(step, last) ==
  CASE step = "proxy-" -> "main-"
    [] step = "main-" -> "net-"
    [] step = "net-" -> last
\* A fresh LocalMachineTarget has no profile, and destroy returns at once.
FirstOf(last) == IF hostKind = "docker" THEN "proxy-" ELSE last

-----------------------------------------------------------------------------
(* reconcile() *)

\* Asked for by the scheduler, by a person or by a change of the manifest.
Reconcile ==
  /\ RunIsAt("rest") /\ hostRow # NoRow /\ Budgeted
  /\ RunTo("load")
  /\ hostClean' = (hostClean /\ NoCall)
  /\ UNCHANGED <<hostKind, upgradedDown, hostRow, containers, unit, hostCall>>

IsNewInstance(row) == row.status = "CREATING" \/ ~row.known

LoadInstance ==
  /\ RunIsAt("load")
  /\ IF hostRow = NoRow THEN RunTo("fail")
     ELSE hostRun' = [at |-> "mark", new |-> IsNewInstance(hostRow), mws |-> hostRow.mws]
  /\ UNCHANGED <<hostKind, upgradedDown, hostRow, containers, unit, hostCall, hostClean, hostLeft>>

MarkReconciling ==
  /\ RunIsAt("mark")
  /\ \/ Writes(Marked("RECONCILING")) /\ RunTo("check")
     \/ hostRow = NoRow /\ RunTo("fail") /\ UNCHANGED hostRow
  /\ UNCHANGED <<hostKind, upgradedDown, containers, unit, hostCall, hostClean, hostLeft>>

\* The manifest may not parse, and the audit may refuse it.
Check ==
  /\ RunIsAt("check")
  /\ \/ RunTo(IF hostRun.new THEN FirstOf("install") ELSE "update") /\ UNCHANGED <<hostClean, hostLeft>>
     \/ RunTo("fail") /\ Fault /\ hostClean' = (hostClean /\ ~hostRun.new)
  /\ UNCHANGED <<hostKind, upgradedDown, hostRow, containers, unit, hostCall>>

\* A gateway that answers is given its configuration and nothing else changes; one
\* that does not is provisioned again.  Noting the error needs a row.
Update ==
  /\ RunIsAt("update")
  /\ \/ Reachable /\ RunTo("refetch") /\ UNCHANGED hostLeft
     \/ /\ IF Reachable THEN Fault ELSE UNCHANGED hostLeft
        /\ RunTo(FirstOf("install")) \/ (hostRow = NoRow /\ RunTo("fail"))
  /\ UNCHANGED <<hostKind, upgradedDown, hostRow, containers, unit, hostCall, hostClean>>

DestroyFirst ==
  /\ hostRun.at \in RemoveSteps
  /\ RunTo(AfterRemove(hostRun.at, "install"))
  /\ \/ Remove(hostRun.at) /\ UNCHANGED <<hostClean, hostLeft>>
     \/ Fault /\ hostClean' = FALSE /\ UNCHANGED containers
  /\ UNCHANGED <<hostKind, upgradedDown, hostRow, unit, hostCall>>

InstallBot ==
  /\ RunIsAt("install")
  /\ \/ RunTo("configure") /\ UNCHANGED hostLeft
        /\ unit' = IF hostKind = "local" /\ unit = "absent" THEN "installed" ELSE unit
     \/ RunTo("pfail") /\ Fault /\ UNCHANGED unit
  /\ UNCHANGED <<hostKind, upgradedDown, hostRow, containers, hostCall, hostClean>>

ConfigureBot ==
  /\ RunIsAt("configure")
  /\ \/ RunTo("start") /\ UNCHANGED hostLeft
     \/ RunTo("pfail") /\ Fault
  /\ UNCHANGED <<hostKind, upgradedDown, hostRow, containers, unit, hostCall, hostClean>>

StartLocal ==
  /\ RunIsAt("start") /\ hostKind = "local"
  /\ \/ RunTo("connect") /\ unit' = "active" /\ UNCHANGED hostLeft
     \/ RunTo("pfail") /\ Fault /\ UNCHANGED unit
  /\ UNCHANGED <<hostKind, upgradedDown, hostRow, containers, hostCall, hostClean>>

\* Can a container that exists be started?
MainCanStart == main.state # "absent" /\ IF main.way = "inside" THEN network ELSE proxy.state # "running"
ProxyCanStart == proxy.state # "absent" /\ network /\ ~(main.state = "running" /\ main.way = "published")

Create == IF hostRun.mws = {} THEN "main+" ELSE "net+"

\* A container that runs is left alone, one that stands is started, and when there is
\* none, or it does not start, one is created.
StartDocker ==
  /\ RunIsAt("start") /\ hostKind = "docker"
  /\ \/ main.state = "running" /\ RunTo("connect") /\ UNCHANGED <<main, hostLeft>>
     \/ /\ main.state = "created" /\ MainCanStart
        /\ main' = [main EXCEPT !.state = "running"]
        /\ RunTo(IF hostRun.mws = {} THEN "connect" ELSE "again") /\ UNCHANGED hostLeft
     \/ main.state # "running" /\ ~MainCanStart /\ RunTo(Create) /\ UNCHANGED <<main, hostLeft>>
     \* The inspection or the start fails for another reason.
     \/ main.state # "absent" /\ RunTo(Create) /\ Fault /\ UNCHANGED main
  /\ UNCHANGED <<hostKind, upgradedDown, hostRow, proxy, network, unit, hostCall, hostClean>>

StartProxyAgain ==
  /\ RunIsAt("again")
  /\ proxy' = IF ProxyCanStart THEN [proxy EXCEPT !.state = "running"] ELSE proxy
  /\ RunTo("connect")
  /\ UNCHANGED <<hostKind, upgradedDown, hostRow, main, network, unit, hostCall, hostClean, hostLeft>>

\* That the network cannot be created is taken to mean that it exists.
CreateNetwork ==
  /\ RunIsAt("net+")
  /\ RunTo("main+")
  /\ \/ network' = TRUE /\ UNCHANGED hostLeft
     \/ Fault /\ UNCHANGED network
  /\ UNCHANGED <<hostKind, upgradedDown, hostRow, main, proxy, unit, hostCall, hostClean>>

\* docker run: refused when the name is in use; a container that cannot have its port or
\* its network stays behind, created.
RunMain ==
  /\ RunIsAt("main+")
  /\ LET way == IF hostRun.mws = {} THEN "published" ELSE "inside"
         starts == IF way = "inside" THEN network ELSE ~PortTaken
     IN \/ main.state # "absent" /\ RunTo("pfail") /\ UNCHANGED <<main, hostLeft>>
        \/ /\ main.state = "absent" /\ UNCHANGED hostLeft
           /\ main' = [state |-> IF starts THEN "running" ELSE "created", way |-> way]
           /\ RunTo(IF ~starts THEN "pfail" ELSE IF way = "inside" THEN "proxy+" ELSE "connect")
        \/ main.state = "absent" /\ RunTo("pfail") /\ Fault /\ UNCHANGED main
  /\ UNCHANGED <<hostKind, upgradedDown, hostRow, proxy, network, unit, hostCall, hostClean>>

RunProxy ==
  /\ RunIsAt("proxy+")
  /\ \/ proxy.state # "absent" /\ RunTo("pfail") /\ UNCHANGED <<proxy, hostLeft>>
     \/ /\ proxy.state = "absent" /\ UNCHANGED hostLeft
        /\ proxy' = [state |-> IF network /\ ~PortTaken THEN "running" ELSE "created", mws |-> hostRun.mws]
        /\ RunTo(IF network /\ ~PortTaken THEN "connect" ELSE "pfail")
     \/ proxy.state = "absent" /\ RunTo("pfail") /\ Fault /\ UNCHANGED proxy
  /\ UNCHANGED <<hostKind, upgradedDown, hostRow, main, network, unit, hostCall, hostClean>>

ConnectGateway ==
  /\ RunIsAt("connect")
  /\ \/ Reachable /\ RunTo("note") /\ UNCHANGED hostLeft
     \/ RunTo("pfail") /\ IF Reachable THEN Fault ELSE UNCHANGED hostLeft
  /\ UNCHANGED <<hostKind, upgradedDown, hostRow, containers, unit, hostCall, hostClean>>

\* provision() writes its result and so does reconcile() after it.
NoteProvisioned ==
  /\ RunIsAt("note")
  /\ \/ Writes(Recorded("RUNNING")) /\ RunTo("refetch")
     \/ hostRow = NoRow /\ RunTo("pfail") /\ UNCHANGED hostRow
  /\ UNCHANGED <<hostKind, upgradedDown, containers, unit, hostCall, hostClean, hostLeft>>

ProvisionFails ==
  /\ RunIsAt("pfail")
  /\ RunTo("fail")
  /\ Writes(Marked("ERROR")) \/ (hostRow = NoRow /\ UNCHANGED hostRow)
  /\ UNCHANGED <<hostKind, upgradedDown, containers, unit, hostCall, hostClean, hostLeft>>

Refetch ==
  /\ RunIsAt("refetch")
  /\ RunTo(IF hostRow = NoRow THEN "fail" ELSE "save")
  /\ UNCHANGED <<hostKind, upgradedDown, hostRow, containers, unit, hostCall, hostClean, hostLeft>>

Save ==
  /\ RunIsAt("save")
  /\ \/ Writes(Recorded("RUNNING")) /\ hostRun' = RunRest
     \/ hostRow = NoRow /\ RunTo("fail") /\ UNCHANGED hostRow
  /\ UNCHANGED <<hostKind, upgradedDown, containers, unit, hostCall, hostClean, hostLeft>>

ReconcileFails ==
  /\ RunIsAt("fail")
  /\ hostRun' = RunRest
  /\ Writes(Recorded("ERROR")) \/ (hostRow = NoRow /\ UNCHANGED hostRow)
  /\ UNCHANGED <<hostKind, upgradedDown, containers, unit, hostCall, hostClean, hostLeft>>

-----------------------------------------------------------------------------
(* The other calls *)

\* An upgrade looks at no status.  docker restart brings up whatever container is
\* there: only one that was up is known to be the row's.
AskHost(k, op, first) ==
  /\ CallIsAt(k, "rest") /\ hostRow # NoRow /\ Budgeted
  /\ hostCall' = [hostCall EXCEPT ![k] = [op |-> op, at |-> first, mws |-> {}]]
  /\ hostClean' = (hostClean /\ RunIsAt("rest") /\ NoCall)
  /\ upgradedDown' = (upgradedDown \/ (op = "upgrade" /\ hostRow.status # "RUNNING"))
  /\ UNCHANGED <<hostKind, hostRow, containers, unit, hostRun>>

StopBot(k) == AskHost(k, "stop", FirstOf("mark"))
DeleteBot(k) == AskHost(k, "delete", FirstOf("mark"))
UpdateOpenClawVersion(k) == AskHost(k, "upgrade", "restart")

\* One middleware is assigned, removed, enabled or disabled in what was read.
ChangeMiddlewares(k) == \E m \in HostMws :
  /\ CallIsAt(k, "rest") /\ hostRow # NoRow /\ Budgeted
  /\ hostCall' = [hostCall EXCEPT ![k] =
       [op |-> "assign", at |-> "save",
        mws |-> IF m \in hostRow.mws THEN hostRow.mws \ {m} ELSE hostRow.mws \cup {m}]]
  /\ hostClean' = (hostClean /\ RunIsAt("rest") /\ NoCall)
  /\ UNCHANGED <<hostKind, upgradedDown, hostRow, containers, unit, hostRun>>

TakeDown(k) ==
  /\ hostCall[k].at \in RemoveSteps
  /\ CallTo(k, AfterRemove(hostCall[k].at, "mark"))
  /\ \/ Remove(hostCall[k].at) /\ UNCHANGED <<hostClean, hostLeft>>
     \/ Fault /\ hostClean' = FALSE /\ UNCHANGED containers
  /\ UNCHANGED <<hostKind, upgradedDown, hostRow, unit, hostRun>>

MarkDeleting(k) ==
  /\ CallIsAt(k, "mark")
  /\ \/ Writes(Marked("DELETING")) /\ CallTo(k, "end")
     \/ hostRow = NoRow /\ CallEnds(k) /\ UNCHANGED hostRow
  /\ UNCHANGED <<hostKind, upgradedDown, containers, unit, hostRun, hostClean, hostLeft>>

\* restart() of a fresh LocalMachineTarget throws; so does docker restart of nothing.
RestartMain(k) ==
  /\ CallIsAt(k, "restart")
  /\ \/ /\ hostKind = "docker" /\ MainCanStart
        /\ main' = [main EXCEPT !.state = "running"]
        /\ CallTo(k, "restartProxy") /\ UNCHANGED hostLeft
     \/ /\ IF hostKind = "docker" /\ MainCanStart THEN Fault ELSE UNCHANGED hostLeft
        /\ CallEnds(k) /\ UNCHANGED main
  /\ UNCHANGED <<hostKind, upgradedDown, hostRow, proxy, network, unit, hostRun, hostClean>>

RestartProxy(k) ==
  /\ CallIsAt(k, "restartProxy")
  /\ proxy' = IF ProxyCanStart THEN [proxy EXCEPT !.state = "running"] ELSE proxy
  /\ CallTo(k, "end")
  /\ UNCHANGED <<hostKind, upgradedDown, hostRow, main, network, unit, hostRun, hostClean, hostLeft>>

Finish(k) ==
  /\ CallIsAt(k, "end") /\ CallEnds(k)
  /\ \/ hostRow = NoRow /\ UNCHANGED hostRow
     \/ hostCall[k].op = "stop" /\ Writes(Marked("STOPPED"))
     \/ hostCall[k].op = "delete" /\ hostRow # NoRow /\ hostRow' = NoRow
     \/ hostCall[k].op = "upgrade" /\ Writes(Recorded("RUNNING"))
  /\ UNCHANGED <<hostKind, upgradedDown, containers, unit, hostRun, hostClean, hostLeft>>

\* Faulty variant: the status is left as it is.
SavedQuietly(k) == [hostRow EXCEPT !.mws = hostCall[k].mws]
\* What is written asks for a new deployment.
SavedRow(k) == [hostRow EXCEPT !.mws = hostCall[k].mws, !.status = "CREATING"]

\* Saving starts a reconcile, unless one is in progress: that one has read its
\* middlewares and will overwrite the status.
SaveMiddlewareConfig(k) ==
  /\ CallIsAt(k, "save") /\ CallEnds(k)
  /\ \/ Writes(SavedRow(k)) /\ IF RunIsAt("rest") THEN RunTo("load") ELSE UNCHANGED hostRun
     \/ hostRow = NoRow /\ UNCHANGED <<hostRow, hostRun>>
  /\ UNCHANGED <<hostKind, upgradedDown, containers, unit, hostClean, hostLeft>>

\* The process dies.  Containers and services live on, and so may an old deployment
\* that was to be replaced.
HostCrash ==
  /\ ~(RunIsAt("rest") /\ NoCall)
  /\ Fault
  /\ hostRun' = RunRest /\ hostCall' = [k \in HostCalls |-> CallRest]
  /\ hostClean' = (hostClean /\ NoCall
                   /\ ~(hostRun.new /\ hostRun.at \in {"mark", "check", "proxy-", "main-"}))
  /\ UNCHANGED <<hostKind, upgradedDown, hostRow, containers, unit>>

HostNext ==
  \/ Reconcile \/ LoadInstance \/ MarkReconciling \/ Check \/ Update \/ DestroyFirst \/ InstallBot
  \/ ConfigureBot \/ StartLocal \/ StartDocker \/ StartProxyAgain \/ CreateNetwork \/ RunMain \/ RunProxy
  \/ ConnectGateway \/ NoteProvisioned \/ ProvisionFails \/ Refetch \/ Save \/ ReconcileFails
  \/ HostCrash
  \/ \E k \in HostCalls :
       \/ StopBot(k) \/ DeleteBot(k) \/ UpdateOpenClawVersion(k) \/ ChangeMiddlewares(k)
       \/ TakeDown(k) \/ MarkDeleting(k) \/ RestartMain(k) \/ RestartProxy(k)
       \/ Finish(k) \/ SaveMiddlewareConfig(k)

HostSpec == HostInit /\ [][HostNext]_hostVars

-----------------------------------------------------------------------------
\* What the host runs is what the row says.  A docker bot that is RUNNING has its
\* gateway on the host's port when it has no middlewares, and otherwise behind a proxy
\* with exactly these, on a network of their own; one that is stopped or gone leaves no
\* container and no network; a local bot that is RUNNING has its service up.  This holds
\* whatever step failed and whenever the process died, under two conditions.
\* hostClean: calls did not overlap, every removal worked, and neither a check that
\* refused the row nor the death of the process ended a call while the deployment it
\* was to replace or to remove still stood.  ~upgradedDown: no bot was given another
\* version while it was not RUNNING; the upgrade would restart what a failed run left,
\* overlook that the proxy is missing, and write RUNNING.
HostMatchesRow ==
  LET Bare == main = [state |-> "running", way |-> "published"] /\ proxy = NoProxy /\ ~network
      Proxied(mws) == /\ main = [state |-> "running", way |-> "inside"] /\ network
                      /\ proxy = [state |-> "running", mws |-> mws]
      Nothing == main = NoBox /\ proxy = NoProxy /\ ~network
  IN hostClean /\ ~upgradedDown /\ RunIsAt("rest") /\ NoCall =>
       IF hostRow = NoRow THEN Nothing
       ELSE /\ hostKind = "docker" =>
                 /\ hostRow.status = "STOPPED" => Nothing
                 /\ hostRow.status = "RUNNING" => IF hostRow.mws = {} THEN Bare ELSE Proxied(hostRow.mws)
            /\ hostKind = "local" /\ hostRow.status = "RUNNING" => unit = "active"
=============================================================================
