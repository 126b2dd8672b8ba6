----------------------------- MODULE Reconciler -----------------------------
(***************************************************************************)
(* The life of a bot instance under the control plane.                     *)
(*                                                                         *)
(* Every "await" of ReconcilerService.reconcile and of the lifecycle       *)
(* manager it calls is one step here, so that the other writers of the     *)
(* same BotInstance row (stop, delete, upgrade, pause, the health poller,  *)
(* the stuck and orphan detectors, a process restart) can fall between any *)
(* two of them.  One reconcile call is a member of Runs, one stop, delete  *)
(* or upgrade request a member of Requests.                                *)
(***************************************************************************)
EXTENDS Naturals, FiniteSets

CONSTANTS
  Instances,       \* bot instance ids
  Runs,            \* concurrent calls of reconcile()
  Requests,        \* concurrent stop / delete / upgrade requests
  Hashes,          \* configuration hashes a manifest can produce
  NoHash,          \* configHash of a row that was never provisioned
  Nobody,          \* the instance of an idle call
  RequestKinds,    \* the long requests users make: "stop", "delete", "upgrade"
  Unmanaged,       \* instances without an openclaw-native deploymentType
  LocalDocker,     \* instances whose container the local docker daemon runs
  ErrCap,          \* bound on errorCount
  ContainerCheck,  \* CONTAINER_CHECK_THRESHOLD of the health poller
  OrphanCheck,     \* consecutive errors before the orphan detector looks
  Budget           \* how often the environment may take each of its steps

EnvKinds == {"manifest", "drift", "undestroyed", "revive", "outage", "crash", "restart",
             "pause", "request", "poll", "orphan"}

ASSUME BudgetAssumption == Budget \in [EnvKinds -> Nat]
ASSUME HashAssumption == NoHash \notin Hashes
ASSUME NobodyAssumption == Nobody \notin Instances
ASSUME ErrAssumption ==
  /\ ErrCap \in Nat /\ ContainerCheck \in Nat /\ OrphanCheck \in Nat
ASSUME DeploymentAssumption ==
  /\ RequestKinds \subseteq {"stop", "delete", "upgrade"}
  /\ Unmanaged \subseteq Instances
  /\ LocalDocker \subseteq Instances

VARIABLES
  db,          \* the BotInstance row of each instance
  link,        \* instances that have a GatewayConnection row
  infra,       \* container, persisted config and in-memory gateway config
  inProgress,  \* ReconcilerService.reconcileInProgress
  run,         \* the reconcile calls in flight
  req,         \* the stop, delete and upgrade requests in flight
  poll,        \* where the health poller is, per instance
  orphan,      \* what the orphan detector saw and has not written yet
  stuck,       \* rows the stuck detector listed and has not marked yet
  left         \* what remains of Budget

vars == <<db, link, infra, inProgress, run, req, poll, orphan, stuck, left>>
watchers == <<poll, orphan, stuck>>

-----------------------------------------------------------------------------
Stored == {"CREATING", "PENDING", "RECONCILING", "RUNNING", "PAUSED",
           "STOPPED", "ERROR", "DELETING"}
Status == Stored \cup {"NONE", "GONE"}

MaybeHash == Hashes \cup {NoHash}

Row == [status: Status, hash: MaybeHash, want: Hashes,
        reconciled: BOOLEAN, errs: 0..ErrCap, stale: BOOLEAN]

Infra == [box: {"absent", "down", "up"}, store: MaybeHash, live: MaybeHash]

UpdatePc == {"update", "adopt", "apply", "persist", "usave", "ulink", "ufail"}
ProvisionPc == {"destroy", "configure", "start", "connect", "psave", "plink", "pfail"}
ReconcilePc == {"load", "mark", "check", "refetch", "save", "fail", "release"}
RunPc == UpdatePc \cup ProvisionPc \cup ReconcilePc

\* "via" is how this run brought the gateway to its goal: UpdateResult.method,
\* "none" both before anything was pushed and on the matching-hash fast path.
Run == [pc: RunPc \cup {"idle"}, inst: Instances \cup {Nobody}, isNew: BOOLEAN,
        known: MaybeHash, goal: MaybeHash, base: MaybeHash,
        via: {"none", "remote", "apply", "provision"}]

Request == [pc: {"idle", "destroy", "unlink", "mark", "finish", "restart", "running"},
            inst: Instances \cup {Nobody}, kind: {"stop", "delete", "upgrade"}]

TypeOK ==
  /\ db \in [Instances -> Row]
  /\ link \in SUBSET Instances
  /\ infra \in [Instances -> Infra]
  /\ inProgress \in SUBSET Instances
  /\ run \in [Runs -> Run]
  /\ req \in [Requests -> Request]
  /\ poll \in [Instances -> {"idle", "probe", "verify"}]
  /\ orphan \in [Instances -> {"idle", "missing", "broken"}]
  /\ stuck \in SUBSET Instances
  /\ left \in [EnvKinds -> Nat]

-----------------------------------------------------------------------------
Present(i) == db[i].status \in Stored
Active(r) == run[r].pc # "idle"
At(r, pc) == run[r].pc = pc
Bump(n) == IF n < ErrCap THEN n + 1 ELSE n

IdleRun == [pc |-> "idle", inst |-> Nobody, isNew |-> FALSE,
            known |-> NoHash, goal |-> NoHash, base |-> NoHash, via |-> "none"]
IdleRequest == [pc |-> "idle", inst |-> Nobody, kind |-> "stop"]

Goto(r, pc) == run' = [run EXCEPT ![r].pc = pc]
Spend(k) == left[k] > 0 /\ left' = [left EXCEPT ![k] = @ - 1]

\* prisma.botInstance.update: every write refreshes updatedAt.
Put(i, row) == db' = [db EXCEPT ![i] = [row EXCEPT !.stale = FALSE]]

\* A row update awaited by run r; Prisma throws when the row is gone.
Update(r, row, next, lost) ==
  \/ /\ Present(run[r].inst)
     /\ Put(run[r].inst, row)
     /\ Goto(r, next)
  \/ /\ ~Present(run[r].inst)
     /\ Goto(r, lost)
     /\ UNCHANGED db

\* The only steps of a run that end in neither a row update nor a change of
\* what runs outside the process.
Move(r, from, to) ==
  /\ At(r, from)
  /\ Goto(r, to)
  /\ UNCHANGED <<db, link, infra, inProgress, req, watchers, left>>

-----------------------------------------------------------------------------
(* ReconcilerService.reconcile *)

\* A call that finds the id in the set returns at once ("already in progress")
\* and changes nothing, so only a call that passes the guard is a step.
Admitted(i) == i \notin inProgress

Call(r, i) ==
  /\ At(r, "idle")
  /\ db[i].status # "NONE"
  /\ Admitted(i)
  /\ inProgress' = inProgress \cup {i}
  /\ run' = [run EXCEPT ![r] = [IdleRun EXCEPT !.pc = "load", !.inst = i]]
  /\ UNCHANGED <<db, link, infra, req, watchers, left>>

\* Faulty variant: an instance in ERROR counts as new.
IsNewAfterError(row) ==
  row.status \in {"CREATING", "ERROR"} \/ (~row.reconciled /\ row.hash = NoHash)

IsNewInstance(row) ==
  row.status = "CREATING" \/ (~row.reconciled /\ row.hash = NoHash)

\* The row read here is the one every later decision of the run looks at.
Load(r) ==
  LET i == run[r].inst IN
  /\ At(r, "load")
  /\ \/ /\ Present(i)
        /\ run' = [run EXCEPT ![r].pc = "mark",
                              ![r].isNew = IsNewInstance(db[i]),
                              ![r].known = db[i].hash,
                              ![r].goal = db[i].want]
     \/ /\ ~Present(i)
        /\ Goto(r, "fail")
  /\ UNCHANGED <<db, link, infra, inProgress, req, watchers, left>>

Mark(r) ==
  /\ At(r, "mark")
  /\ Update(r, [db[run[r].inst] EXCEPT !.status = "RECONCILING"], "check", "fail")
  /\ UNCHANGED <<link, infra, inProgress, req, watchers, left>>

\* Parsing, preprocessing and the security audit read only; each may throw.
Check(r) ==
  \/ Move(r, "check", IF run[r].isNew THEN "destroy" ELSE "update")
  \/ Move(r, "check", "fail")

\* The instance is read again and the gateway asked for its status.
Refetch(r) ==
  /\ At(r, "refetch")
  /\ Move(r, "refetch", IF Present(run[r].inst) THEN "save" ELSE "fail")

Save(r) ==
  /\ At(r, "save")
  /\ Update(r, [db[run[r].inst] EXCEPT !.status = "RUNNING", !.hash = run[r].goal,
                                       !.reconciled = TRUE, !.errs = 0],
            "release", "fail")
  /\ UNCHANGED <<link, infra, inProgress, req, watchers, left>>

\* Faulty variant: the catch block writes a status that is not of the enum.
FailUnknown(r) ==
  /\ At(r, "fail")
  /\ Update(r, [db[run[r].inst] EXCEPT !.status = "FAILED"], "release", "release")
  /\ UNCHANGED <<link, infra, inProgress, req, watchers, left>>

\* The catch block; a row that is gone makes it throw, past the finally.
Fail(r) ==
  /\ At(r, "fail")
  /\ Update(r, [db[run[r].inst] EXCEPT !.status = "ERROR", !.reconciled = TRUE,
                                       !.errs = Bump(@)],
            "release", "release")
  /\ UNCHANGED <<link, infra, inProgress, req, watchers, left>>

\* Faulty variant: the id is lifted after the row's update, not in a finally.
ReleaseIfPresent(r) ==
  /\ At(r, "release")
  /\ inProgress' = IF Present(run[r].inst) THEN inProgress \ {run[r].inst} ELSE inProgress
  /\ run' = [run EXCEPT ![r] = IdleRun]
  /\ UNCHANGED <<db, link, infra, req, watchers, left>>

\* Faulty variant: the finally block empties the set.
ReleaseAll(r) ==
  /\ At(r, "release")
  /\ inProgress' = {}
  /\ run' = [run EXCEPT ![r] = IdleRun]
  /\ UNCHANGED <<db, link, infra, req, watchers, left>>

\* The finally block.
Release(r) ==
  /\ At(r, "release")
  /\ inProgress' = inProgress \ {run[r].inst}
  /\ run' = [run EXCEPT ![r] = IdleRun]
  /\ UNCHANGED <<db, link, infra, req, watchers, left>>

-----------------------------------------------------------------------------
(* LifecycleManagerService.update *)

Up(i) == infra[i].box = "up"

\* Matching hash: only the gateway's health is asked for.
FastPath(r) == At(r, "update") /\ run[r].known = run[r].goal
SlowPath(r) == At(r, "update") /\ run[r].known # run[r].goal

UpdateTrusted(r) ==
  /\ FastPath(r)
  /\ \/ Up(run[r].inst) /\ Move(r, "update", "refetch")
     \/ Move(r, "update", "destroy")

\* config.get: the remote hash decides between adopting it and applying ours.
UpdateGet(r) ==
  LET i == run[r].inst IN
  /\ SlowPath(r)
  /\ \/ /\ Up(i)
        /\ run' = [run EXCEPT ![r].base = infra[i].live,
                              ![r].pc = IF infra[i].live = run[r].goal
                                        THEN "adopt" ELSE "apply"]
     \/ Goto(r, "ufail")
  /\ UNCHANGED <<db, link, infra, inProgress, req, watchers, left>>

Adopt(r) ==
  LET i == run[r].inst IN
  /\ At(r, "adopt")
  /\ \/ /\ Present(i)
        /\ Put(i, [db[i] EXCEPT !.hash = run[r].goal])
        /\ run' = [run EXCEPT ![r].pc = "refetch", ![r].via = "remote"]
     \/ /\ ~Present(i)
        /\ Goto(r, "ufail")
        /\ UNCHANGED db
  /\ UNCHANGED <<link, infra, inProgress, req, watchers, left>>

\* config.apply with baseHash.  The gateway refuses a stale base; the answer
\* to an accepted apply may be lost to a timeout or a dropped socket.
Apply(r) ==
  LET i == run[r].inst IN
  /\ At(r, "apply")
  /\ \/ /\ Up(i)
        /\ infra[i].live = run[r].base
        /\ infra' = [infra EXCEPT ![i].live = run[r].goal]
        /\ \/ run' = [run EXCEPT ![r].pc = "persist", ![r].via = "apply"]
           \/ Goto(r, "ufail")
     \/ /\ Goto(r, "ufail")
        /\ UNCHANGED infra
  /\ UNCHANGED <<db, link, inProgress, req, watchers, left>>

\* target.configure; a failure is logged and otherwise ignored.
Persist(r) ==
  /\ At(r, "persist")
  /\ Goto(r, "usave")
  /\ \/ infra' = [infra EXCEPT ![run[r].inst].store = run[r].goal]
     \/ UNCHANGED infra
  /\ UNCHANGED <<db, link, inProgress, req, watchers, left>>

USave(r) ==
  /\ At(r, "usave")
  /\ Update(r, [db[run[r].inst] EXCEPT !.hash = run[r].goal, !.reconciled = TRUE],
            "ulink", "ufail")
  /\ UNCHANGED <<link, infra, inProgress, req, watchers, left>>

\* Faulty variant: the upsert does not depend on the instance's row.
UpsertAnyway(r, next, lost) ==
  link' = link \cup {run[r].inst} /\ Goto(r, next)

\* The GatewayConnection row references the instance: no instance, no upsert.
Upsert(r, next, lost) ==
  LET i == run[r].inst IN
  \/ Present(i) /\ link' = link \cup {i} /\ Goto(r, next)
  \/ ~Present(i) /\ Goto(r, lost) /\ UNCHANGED link

ULink(r) ==
  /\ At(r, "ulink")
  /\ Upsert(r, "refetch", "ufail")
  /\ UNCHANGED <<db, infra, inProgress, req, watchers, left>>

\* The catch block of update; reconcile then falls back to provisioning.
UFail(r) ==
  /\ At(r, "ufail")
  /\ Update(r, [db[run[r].inst] EXCEPT !.errs = Bump(@)], "destroy", "fail")
  /\ UNCHANGED <<link, infra, inProgress, req, watchers, left>>

-----------------------------------------------------------------------------
(* LifecycleManagerService.provision *)

\* target.destroy: its errors are swallowed, here and in destroy() below.
TearDown(i) ==
  \/ infra' = [infra EXCEPT ![i].box = "absent"] /\ UNCHANGED left
  \/ Spend("undestroyed") /\ UNCHANGED infra

\* Tear down, then target.install, which only obtains an image and may fail.
PDestroy(r) ==
  LET i == run[r].inst IN
  /\ At(r, "destroy")
  /\ Goto(r, "configure") \/ Goto(r, "pfail")
  /\ TearDown(i)
  /\ UNCHANGED <<db, link, inProgress, req, watchers>>

\* Faulty variant: a failed configure is logged, as update does, and ignored.
PConfigureIgnored(r) ==
  /\ At(r, "configure")
  /\ Goto(r, "start")
  /\ infra' = [infra EXCEPT ![run[r].inst].store = run[r].goal] \/ UNCHANGED infra
  /\ UNCHANGED <<db, link, inProgress, req, watchers, left>>

PConfigure(r) ==
  /\ At(r, "configure")
  /\ \/ infra' = [infra EXCEPT ![run[r].inst].store = run[r].goal] /\ Goto(r, "start")
     \/ UNCHANGED infra /\ Goto(r, "pfail")
  /\ UNCHANGED <<db, link, inProgress, req, watchers, left>>

\* A container that is already running is left alone, whatever it runs.
Boot(i) ==
  IF Up(i) THEN UNCHANGED infra
  ELSE infra' = [infra EXCEPT ![i].box = "up", ![i].live = infra[i].store]

PStart(r) ==
  /\ At(r, "start")
  /\ \/ Boot(run[r].inst) /\ Goto(r, "connect")
     \/ UNCHANGED infra /\ Goto(r, "pfail")
  /\ UNCHANGED <<db, link, inProgress, req, watchers, left>>

\* connectGateway gives up after 30 attempts, however slow the gateway's boot.
PConnect(r) ==
  \/ /\ At(r, "connect")
     /\ Up(run[r].inst)
     /\ run' = [run EXCEPT ![r].pc = "psave", ![r].via = "provision"]
     /\ UNCHANGED <<db, link, infra, inProgress, req, watchers, left>>
  \/ Move(r, "connect", "pfail")

PSave(r) ==
  /\ At(r, "psave")
  /\ Update(r, [db[run[r].inst] EXCEPT !.status = "RUNNING", !.hash = run[r].goal,
                                       !.reconciled = TRUE, !.errs = 0],
            "plink", "pfail")
  /\ UNCHANGED <<link, infra, inProgress, req, watchers, left>>

PLink(r) ==
  /\ At(r, "plink")
  /\ Upsert(r, "refetch", "pfail")
  /\ UNCHANGED <<db, infra, inProgress, req, watchers, left>>

\* provision's catch block; reconcile's own catch counts the error again.
PFail(r) ==
  /\ At(r, "pfail")
  /\ Update(r, [db[run[r].inst] EXCEPT !.status = "ERROR", !.errs = Bump(@)],
            "fail", "fail")
  /\ UNCHANGED <<link, infra, inProgress, req, watchers, left>>

RunStep(r) ==
  \/ Load(r) \/ Mark(r) \/ Check(r) \/ Refetch(r) \/ Save(r) \/ Fail(r) \/ Release(r)
  \/ UpdateTrusted(r) \/ UpdateGet(r) \/ Adopt(r) \/ Apply(r) \/ Persist(r)
  \/ USave(r) \/ ULink(r) \/ UFail(r)
  \/ PDestroy(r) \/ PConfigure(r) \/ PStart(r) \/ PConnect(r) \/ PSave(r)
  \/ PLink(r) \/ PFail(r)

-----------------------------------------------------------------------------
(* ReconcilerService.stop, delete and updateOpenClawVersion *)

ReqAt(q, pc) == req[q].pc = pc
ReqGoto(q, pc) == req' = [req EXCEPT ![q].pc = pc]
ReqDone(q) == req' = [req EXCEPT ![q] = IdleRequest]

ReqUpdate(q, row, next) ==
  \/ Present(req[q].inst) /\ Put(req[q].inst, row) /\ next
  \/ ~Present(req[q].inst) /\ ReqDone(q) /\ UNCHANGED db

\* A stop of an instance without a native deployment type only writes the row.
FirstStep(i, kind) ==
  CASE kind = "upgrade" -> "restart"
    [] kind = "stop" /\ i \in Unmanaged -> "finish"
    [] OTHER -> "destroy"

\* An upgrade first writes the new version to the row.
Ask(q, i, kind) ==
  /\ kind \in RequestKinds
  /\ ReqAt(q, "idle")
  /\ Present(i)
  /\ Spend("request")
  /\ req' = [req EXCEPT ![q] = [pc |-> FirstStep(i, kind), inst |-> i, kind |-> kind]]
  /\ IF kind = "upgrade" THEN Put(i, db[i]) ELSE UNCHANGED db
  /\ UNCHANGED <<link, infra, inProgress, run, watchers>>

Destroy(q) ==
  /\ ReqAt(q, "destroy")
  /\ TearDown(req[q].inst)
  /\ ReqGoto(q, "unlink")
  /\ UNCHANGED <<db, link, inProgress, run, watchers>>

Unlink(q) ==
  /\ ReqAt(q, "unlink")
  /\ link' = link \ {req[q].inst}
  /\ ReqGoto(q, "mark")
  /\ UNCHANGED <<db, infra, inProgress, run, watchers, left>>

MarkDeleting(q) ==
  /\ ReqAt(q, "mark")
  /\ ReqUpdate(q, [db[req[q].inst] EXCEPT !.status = "DELETING"], ReqGoto(q, "finish"))
  /\ UNCHANGED <<link, infra, inProgress, run, watchers, left>>

FinishStop(q) ==
  /\ ReqAt(q, "finish")
  /\ req[q].kind = "stop"
  /\ ReqUpdate(q, [db[req[q].inst] EXCEPT !.status = "STOPPED"], ReqDone(q))
  /\ UNCHANGED <<link, infra, inProgress, run, watchers, left>>

\* Deleting the row deletes its GatewayConnection (onDelete: Cascade).
FinishDelete(q) ==
  LET i == req[q].inst IN
  /\ ReqAt(q, "finish")
  /\ req[q].kind = "delete"
  /\ ReqUpdate(q, [db[i] EXCEPT !.status = "GONE"], ReqDone(q))
  /\ link' = link \ {i}
  /\ UNCHANGED <<infra, inProgress, run, watchers, left>>

\* LifecycleManagerService.restart: the container comes back with what is stored.
UpgradeRestart(q) ==
  LET i == req[q].inst IN
  /\ ReqAt(q, "restart")
  /\ \/ /\ infra[i].box # "absent"
        /\ infra' = [infra EXCEPT ![i].box = "up", ![i].live = infra[i].store]
        /\ ReqGoto(q, "running")
     \/ ReqDone(q) /\ UNCHANGED infra
  /\ UNCHANGED <<db, link, inProgress, run, watchers, left>>

UpgradeSave(q) ==
  /\ ReqAt(q, "running")
  /\ ReqUpdate(q, [db[req[q].inst] EXCEPT !.status = "RUNNING", !.reconciled = TRUE],
               ReqDone(q))
  /\ UNCHANGED <<link, infra, inProgress, run, watchers, left>>

ReqStep(q) ==
  \/ Destroy(q) \/ Unlink(q) \/ MarkDeleting(q) \/ FinishStop(q) \/ FinishDelete(q)
  \/ UpgradeRestart(q) \/ UpgradeSave(q)

-----------------------------------------------------------------------------
(* BotInstancesService: requests that are one row update *)

Create(i) ==
  /\ db[i].status = "NONE"
  /\ \E h \in Hashes : Put(i, [db[i] EXCEPT !.status = "CREATING", !.want = h])
  /\ UNCHANGED <<link, infra, inProgress, run, req, watchers, left>>

SetRow(i, kind, row) ==
  /\ Present(i)
  /\ Spend(kind)
  /\ Put(i, row)
  /\ UNCHANGED <<link, infra, inProgress, run, req, watchers>>

UpdateManifest(i) ==
  \E h \in Hashes \ {db[i].want} : SetRow(i, "manifest", [db[i] EXCEPT !.want = h])

\* restart only marks the row: no reconcile is called.
Restart(i) ==
  SetRow(i, "restart", [db[i] EXCEPT !.status = "RECONCILING", !.reconciled = TRUE])

Pause(i) == SetRow(i, "pause", [db[i] EXCEPT !.status = "PAUSED"])

\* resume then calls reconcile without awaiting it: that is a Call.  Pausing and
\* resuming share a budget.
Resume(i) == SetRow(i, "pause", [db[i] EXCEPT !.status = "PENDING"])

-----------------------------------------------------------------------------
(* OpenClawHealthService: the poller, every 30 seconds *)

PollStart(i) ==
  /\ poll[i] = "idle"
  /\ db[i].status = "RUNNING"
  /\ i \in link
  /\ Spend("poll")
  /\ poll' = [poll EXCEPT ![i] = "probe"]
  /\ UNCHANGED <<db, link, infra, inProgress, run, req, orphan, stuck>>

PollHealthy(i) ==
  /\ poll[i] = "probe"
  /\ Up(i) /\ i \in link /\ Present(i)
  /\ Put(i, [db[i] EXCEPT !.errs = 0])
  /\ poll' = [poll EXCEPT ![i] = "idle"]
  /\ UNCHANGED <<link, infra, inProgress, run, req, orphan, stuck, left>>

\* markUnreachable: the updated row decides whether docker is asked.
PollUnreachable(i) ==
  /\ poll[i] = "probe"
  /\ \/ /\ Present(i)
        /\ Put(i, [db[i] EXCEPT !.errs = Bump(@)])
        /\ poll' = [poll EXCEPT ![i] =
             IF Bump(db[i].errs) >= ContainerCheck /\ db[i].status = "RUNNING"
             THEN "verify" ELSE "idle"]
     \/ /\ ~Present(i)
        /\ poll' = [poll EXCEPT ![i] = "idle"]
        /\ UNCHANGED db
  /\ UNCHANGED <<link, infra, inProgress, run, req, orphan, stuck, left>>

\* docker inspect openclaw-<name> fails for a container that is not local.
PollVerify(i) ==
  /\ poll[i] = "verify"
  /\ poll' = [poll EXCEPT ![i] = "idle"]
  /\ IF (i \in LocalDocker /\ Up(i)) \/ ~Present(i)
     THEN UNCHANGED db
     ELSE Put(i, [db[i] EXCEPT !.status = "STOPPED"])
  /\ UNCHANGED <<link, infra, inProgress, run, req, orphan, stuck, left>>

PollStep(i) == PollHealthy(i) \/ PollUnreachable(i) \/ PollVerify(i)

-----------------------------------------------------------------------------
(* ReconcilerScheduler *)

\* reconcilePendingInstances, every 30 seconds.
PickUp(r, i) == db[i].status = "PENDING" /\ Call(r, i)

\* checkOrphanedRunningInstances: getStatus, then the row is written.
OrphanProbe(i) ==
  /\ orphan[i] = "idle"
  /\ db[i].status = "RUNNING"
  /\ db[i].errs >= OrphanCheck
  /\ Spend("orphan")
  /\ \/ infra[i].box = "absent" /\ orphan' = [orphan EXCEPT ![i] = "missing"]
     \/ orphan' = [orphan EXCEPT ![i] = "broken"]
  /\ UNCHANGED <<db, link, infra, inProgress, run, req, poll, stuck>>

OrphanMark(i) ==
  /\ orphan[i] # "idle"
  /\ orphan' = [orphan EXCEPT ![i] = "idle"]
  /\ IF Present(i)
     THEN Put(i, [db[i] EXCEPT !.status = IF orphan[i] = "missing" THEN "STOPPED"
                                          ELSE "ERROR"])
     ELSE UNCHANGED db
  /\ UNCHANGED <<link, infra, inProgress, run, req, poll, stuck, left>>

\* Faulty variant: only CREATING rows are looked for.
TransientCreating == {"CREATING"}

\* healthCheckStuckInstances: the rows are listed once, then marked in turn;
\* an update that throws ends the pass.
Transient == {"CREATING", "RECONCILING"}

StuckScan ==
  /\ stuck = {}
  /\ stuck' = {i \in Instances : db[i].status \in Transient /\ db[i].stale}
  /\ stuck' # {}
  /\ UNCHANGED <<db, link, infra, inProgress, run, req, poll, orphan, left>>

StuckMark(i) ==
  /\ i \in stuck
  /\ \/ /\ Present(i)
        /\ Put(i, [db[i] EXCEPT !.status = "ERROR", !.errs = Bump(@)])
        /\ stuck' = stuck \ {i}
     \/ /\ ~Present(i)
        /\ stuck' = {}
        /\ UNCHANGED db
  /\ UNCHANGED <<link, infra, inProgress, run, req, poll, orphan, left>>

-----------------------------------------------------------------------------
(* What happens around the process *)

\* Fifteen minutes pass without a write to the row.
Age(i) ==
  /\ db[i].status \in Transient
  /\ ~db[i].stale
  /\ db' = [db EXCEPT ![i].stale = TRUE]
  /\ UNCHANGED <<link, infra, inProgress, run, req, watchers, left>>

World(kind, i, new) ==
  /\ Spend(kind)
  /\ infra' = [infra EXCEPT ![i] = new]
  /\ UNCHANGED <<db, link, inProgress, run, req, watchers>>

\* patchConfig, a pairing approval or the bot itself edits the gateway's config.
Drift(i) ==
  \E h \in Hashes \ {infra[i].live} :
    Up(i) /\ World("drift", i, [infra[i] EXCEPT !.live = h])

Outage(i) == Up(i) /\ World("outage", i, [infra[i] EXCEPT !.box = "down"])

\* The container's restart policy brings it back with the stored config.
Revive(i) ==
  /\ infra[i].box = "down"
  /\ World("revive", i, [infra[i] EXCEPT !.box = "up", !.live = infra[i].store])

\* The API process dies: the set, and every call in flight, are forgotten.
Crash ==
  /\ Spend("crash")
  /\ inProgress' = {}
  /\ run' = [r \in Runs |-> IdleRun]
  /\ req' = [q \in Requests |-> IdleRequest]
  /\ poll' = [i \in Instances |-> "idle"]
  /\ orphan' = [i \in Instances |-> "idle"]
  /\ stuck' = {}
  /\ UNCHANGED <<db, link, infra>>

-----------------------------------------------------------------------------
Init ==
  /\ \E h \in Hashes : db = [i \in Instances |->
       [status |-> "NONE", hash |-> NoHash, want |-> h,
        reconciled |-> FALSE, errs |-> 0, stale |-> FALSE]]
  /\ link = {}
  /\ infra = [i \in Instances |-> [box |-> "absent", store |-> NoHash, live |-> NoHash]]
  /\ inProgress = {}
  /\ run = [r \in Runs |-> IdleRun]
  /\ req = [q \in Requests |-> IdleRequest]
  /\ poll = [i \in Instances |-> "idle"]
  /\ orphan = [i \in Instances |-> "idle"]
  /\ stuck = {}
  /\ left = Budget

UserStep(i) ==
  \/ Create(i) \/ UpdateManifest(i) \/ Restart(i) \/ Pause(i) \/ Resume(i)

SchedulerStep(i) ==
  \/ PollStart(i) \/ PollStep(i) \/ OrphanProbe(i) \/ OrphanMark(i) \/ StuckMark(i)

WorldStep(i) == Age(i) \/ Drift(i) \/ Outage(i) \/ Revive(i)

Next ==
  \/ \E r \in Runs : RunStep(r) \/ \E i \in Instances : Call(r, i)
  \/ \E q \in Requests : ReqStep(q)
  \/ \E q \in Requests, i \in Instances, k \in RequestKinds : Ask(q, i, k)
  \/ \E i \in Instances : UserStep(i) \/ SchedulerStep(i) \/ WorldStep(i)
  \/ StuckScan
  \/ Crash

Spec == Init /\ [][Next]_vars

\* Every await settles (all have timeouts), the cron jobs keep firing and time
\* passes.  Pick-up needs strong fairness: each tick finds the row PENDING, but
\* between ticks another call may hold the instance.
Fairness ==
  /\ \A r \in Runs : WF_vars(RunStep(r))
  /\ \A q \in Requests : WF_vars(ReqStep(q))
  /\ \A i \in Instances :
       /\ WF_vars(PollStep(i))
       /\ WF_vars(OrphanMark(i))
       /\ WF_vars(StuckMark(i))
       /\ WF_vars(Age(i))
       /\ SF_vars(\E r \in Runs : PickUp(r, i))
  /\ WF_vars(StuckScan)

FairSpec == Spec /\ Fairness

-----------------------------------------------------------------------------
(* Properties *)

\* No two calls work on one instance at a time: the guard at the top of
\* reconcile() and the finally block that lifts it are enough, whatever the
\* outcome of the call and whatever is deleted meanwhile.
OneRunPerInstance ==
  \A r, s \in Runs : Active(r) /\ Active(s) /\ run[r].inst = run[s].inst => r = s

\* The set holds exactly the instances being worked on: an id that stayed
\* behind would make every later reconcile of it report success and do nothing.
GuardExact == inProgress = {run[r].inst : r \in {s \in Runs : Active(s)}}

\* Seen from outside, the calls are workers that take and drop instances.
Work == INSTANCE ExclusiveWork WITH
  Workers <- Runs, Items <- Instances,
  work <- {<<r, run[r].inst>> : r \in {s \in Runs : Active(s)}}

\* The guard implements exclusive work: each step of a call is a take, a drop
\* or neither, and a call never moves from one instance to another.
ImplementsExclusiveWork == Work!Spec

\* Nobody but the reconciler has touched what runs outside the process.
Untouched ==
  \A k \in {"drift", "undestroyed", "revive", "request"} : left[k] = Budget[k]

\* When a call that provisioned, applied or compared remotely is about to
\* record success, a gateway that is up runs the configuration it records,
\* whatever the crashes, failures and manifest edits before it.
PushedIsLive ==
  \A r \in Runs :
    At(r, "save") /\ run[r].via # "none" /\ Up(run[r].inst) /\ Untouched
      => infra[run[r].inst].live = run[r].goal

\* The same of every successful reconcile, including those that took the
\* matching-hash path: step 6 of the class comment promises a comparison with
\* the gateway's own config.get.
ReconcileReachesDesired ==
  \A r \in Runs :
    At(r, "save") /\ Up(run[r].inst) => infra[run[r].inst].live = run[r].goal

\* A run takes the full provisioning path straight away only for an instance
\* no configuration was ever recorded for (isNewInstance).
NeverReprovisionKnown ==
  \A r \in Runs : Active(r) /\ run[r].isNew => run[r].known = NoHash

\* Deleting an instance is final: no update, upsert or catch block of a call
\* still in flight brings its row or its GatewayConnection back.
DeletedStaysDeleted ==
  [][\A i \in Instances : db[i].status = "GONE" => db'[i].status = "GONE" /\ i \notin link']_vars

\* A stopped instance has no container left running, once nothing is in flight.
StoppedMeansDown ==
  \A i \in Instances :
    db[i].status = "STOPPED" /\ i \notin inProgress => ~Up(i)

\* A row never stays in a state that promises work is under way or about to
\* start, even when the process dies in the middle of that work.
TransientStatesEnd ==
  \A i \in Instances : \A s \in {"CREATING", "PENDING", "RECONCILING"} :
    db[i].status = s ~> db[i].status # s

\* Every admitted call leaves the set again.
GuardIsReleased ==
  \A i \in Instances : i \in inProgress ~> i \notin inProgress
=============================================================================
