# A verification project for Clawster

Clawster (`src/`) is a control plane for fleets of OpenClaw bots: a NestJS API
over SQLite/Prisma, a set of packages it uses (gateway client, deployment
targets, core algorithms, repositories), a command line and a React interface.
This directory holds TLA+ models of the parts whose correctness depends on the
order of events, the TLC runs that check them on small instances, and proofs,
checked by TLAPS, of properties that hold for instances of every size.

    tlc -workers 2 -config reconciler_guard.cfg MCReconciler.tla
    tlapm ReconcilerProofs.tla

## 1. The system

Everything in the API runs on one Node.js event loop. There are no threads and
no data races, but every `await` is a point at which any other request, cron
job, timer or socket callback may run, and almost every handler reads state
before such a point and writes after it. Durable state is in the database; the
interesting in-memory state is a handful of maps and sets that a restart loses.

| Component | State it keeps | Operations | Talks to |
|---|---|---|---|
| Reconciler (`apps/api/src/reconciler`) | `reconcileInProgress` (memory); BotInstance, GatewayConnection rows | reconcile, provision, update, stop, delete, upgrade, drift check | deployment targets, gateway client, database |
| Scheduler (`reconciler.scheduler.ts`) | none | pick up PENDING (30 s), stuck detector (1 min), orphan detector (5 min), drift job | reconciler, database |
| Instance API (`bot-instances`) | BotInstance rows | create, edit, restart, pause, resume, patch config | reconciler, gateway client |
| Health poller (`health/openclaw-health.service.ts`) | BotInstance, GatewayConnection, snapshots | poll every 30 s, mark unreachable, verify container | gateway client, docker |
| Gateway client (`packages/gateway-client`) | socket, handshake, pending calls, reconnect timer; a pool of clients | connect, disconnect, request, agent | the bot's gateway over WebSocket |
| Deployment targets (`packages/cloud-providers`) | containers, VMs, cloud resources | install, configure, start, stop, destroy | docker, AWS, GCP, Azure |
| Alerting (`health/alerting.service.ts`, `alerts`) | HealthAlert rows | evaluate (60 s), acknowledge, resolve, suppress, bulk, remediate | reconciler, notification channels |
| SLO evaluator (`slos`) | SloDefinition rows, breach alerts | evaluate (60 s), edit | alerts |
| State sync (`packages/core/src/state-sync`) | remote data and metadata objects, schedule | backup cycle, forced backup, restore | object storage |
| Provisioning events | progress records and timers (memory) | start, step, complete, fail, time out | WebSocket subscribers |
| Pairing | PairingRequest rows, gateway allow-lists | create, approve, reject, revoke, sync | gateway client |
| Channel auth | sessions and QR timers | start, refresh, expire | gateway |
| Log streaming | streams and subscriber counts (memory) | subscribe, unsubscribe | gateway client |
| Costs | cost events, two spend counters per budget | collect, record, reset | gateways, alerting |
| Agent-to-agent | streams (memory), traces | send, stream, cancel, get | gateways |
| Onboarding | target, instance and channel rows | deploy, clean up | reconciler |
| Host targets, middleware assignment (`targets/docker`, `targets/local`, `middlewares`) | containers, network and proxy of a bot; BotInstance rows | start, restart, destroy; assign, change, remove | reconciler |
| Persona templates (`templates/persona`) | snapshot rows; the gateway's configuration and cron jobs | inject, roll back | gateway client |
| Middleware proxy (`packages/middleware-proxy`) | two sockets and a buffer per connection | forward, close | the bot's gateway |
| Fleets, teams | fleet rows, routing rules | promote, delegate | reconciler, gateways |
| Policy engine, config layers, config generation | none (pure) | evaluate, merge, render | reconciler |

What is hard in this code, and to test: two requests that interleave at their
awaits; a list read before a loop of awaits and used in it; a crash between a
write and the write that should follow it; a timer of an earlier attempt that
fires into a later one; a connection that goes while calls wait on it; and work
that must end, or be started again, without anybody asking. `PROJECT.json`
lists each such hazard at its line. The properties below are aimed at those
lines.

What makes each component correct:

- Reconciler: one run per instance; the in-progress set never keeps an id; a
  success records what the gateway runs; deleted stays deleted; no row stays for
  ever in a transient state that a reconcile is to end (DELETING is not one).
- Gateway client: every call and every connect settles; a client that was
  closed stays closed; a lost connection is retried as long as attempts remain.
- Alerts: an alert ends with its condition; a standing condition is an active
  alert; alerts of SLOs agree with the SLOs.
- State sync: a backup that reports success can be restored, and nothing else is.
- Pairing, provisioning, log streaming, costs: database and gateway agree; no
  progress record stays for ever; no stream without a subscriber; the spend of a
  budget is the sum of its events.
- Channel auth: the two sessions of a WhatsApp channel agree on success.
- Agent-to-agent: a stream ends once, and its trace says how.
- Onboarding: a bot has a token, a target and a port of its own; what a failed
  deployment left is removed, and nothing else.
- Cloud targets: shared infrastructure outlives its users, and a destroy that
  ended well leaves nothing of its bot.
- Host targets: what runs on the host is what the row says, proxy and middlewares
  included.
- Personas: an injection is whole or gone.
- Proxy: frames keep their order, and the halves of a connection end together.

## 2. Modules

| Module | Models |
|---|---|
| `Reconciler.tla` | a reconcile call from await to await, stop/delete/upgrade requests, the other writers of the row, the container behind it |
| `ExclusiveWork.tla` | the abstract promise of the in-progress guard: workers take and drop items, an item has at most one worker |
| `GatewayClient.tla` | one client: socket, handshake, reconnection, pending calls |
| `Alerts.tla` | the rows of one alert key, its operators, remediation, the rule evaluator and the SLO evaluator |
| `StateSync.tla` | backup and restore of a workspace, scheduled and by hand |
| `Provisioning.tla` | the progress record of a deployment, its timers and its log, and the page that follows it |
| `Pairing.tla` | pairing rows and the allow list in the gateway |
| `ClientPool.tla` | the pool of gateway clients and the log stream |
| `ChannelAuth.tla` | signing a channel in, with the second session of WhatsApp |
| `Costs.tla` | usage, cost rows, spend and its verdict |
| `AgentTasks.tla` | agent-to-agent messages, streams, cancellation and traces |
| `Onboarding.tla` | a deployment from name to background reconcile, and its clean-up |
| `MiddlewareProxy.tla` | one proxied connection |
| `Services.tla` | the nine modules before, composed |
| `TargetCalls.tla` | which operations of one bot the API lets overlap, for the three modules below |
| `AzureVm.tla`, `Ec2.tla`, `Gce.tla` | install to destroy on each cloud |
| `DockerHost.tla` | a bot on the host of the API, in a container with or without a proxy or as a local service, under reconciles, lifecycle calls and changes of its middlewares |
| `Personas.tla` | injections of persona templates into a bot and their rollbacks |
| `CloudTargets.tla` | `AzureVm`, `Ec2`, `Gce`, `DockerHost` and `Personas`, composed |
| `ReconcilerProofs`, `GatewayClientProofs`, `AlertsProofs`, `OnboardingProofs`, `PersonasProofs` | theorems about the module of the name |
| `BotStateProofs` | theorems about what is kept of a bot outside its row: `StateSync`, `Pairing`, `Provisioning` |
| `ServicesProofs` | theorems about `ClientPool`, `ChannelAuth`, `AgentTasks`, `MiddlewareProxy` and `Costs`, and about the composition `Services` |
| `CloudTargetsProofs` | theorems about `AzureVm`, `Ec2`, `Gce` and `DockerHost`, and about the composition `CloudTargets` |
| `MCReconciler`, `MCGatewayClient`, `MCAlerts`, `MCServices`, `MCCloudTargets` | constants for TLC |

An action is the code between two awaits. Faulty variants (each is marked so by
its comment) are plausible bugs of single definitions and take part in no
specification: they exist to show that the properties can fail. A *history*
variable records what happened so that a property can say under which
circumstances it holds; no action reads it.

**Reconciler.** `db` is the BotInstance row reduced to status, configuration
hash, the hash its manifest would give, whether it was ever reconciled, error
count and staleness; `link` says which instances have a GatewayConnection; `infra`
is the container with its persisted and its live configuration. A member of
`Runs` is a call of `reconcile()` with a program counter that names the await it
is at: `Load`, `Mark`, `Check`, then the update path (`UpdateTrusted` ...
`UFail`) or the provisioning path (`PDestroy` ... `PFail`), then `Refetch`,
`Save` or `Fail`, and `Release`, the `finally` block. Each database update may
find its row gone, and then throws like Prisma does. `Requests` are `stop`,
`delete` and upgrade, with the same treatment.

**GatewayClient.** `sock` is the phase of the WebSocket, `ears` the groups of
listeners it carries at the time (handshake, normal operation, the closer of
`closeSocket`), because what an event does depends on who still listens. The
deadlines and timers are booleans that fire at any later moment. A call is a
request or an agent call (two frames); interceptors are awaits with an outcome.
The user connects only while nothing else brings the client up, which is how
`GatewayManager` and the services use it.

**Alerts.** Keys share no row, so the module holds the table of a single key;
`source` says whether a rule of `AlertingService` or the SLO evaluator owns it.
A rule is its verdict: present (upsert), absent (resolve) or unclear (neither:
a degraded state that is too young, no baseline, an unlisted instance). A tick
is a job with the two awaits of a change by key, find and write. The table has
as many slots as `Ids`; a new alert may take the slot of a resolved one that
nobody refers to, so a run never runs out of rows (checked while the bounds
were chosen).

**StateSync.** The workspace is a function from paths to contents that the agent
edits while it is read and written file by file. An archive is what it contains,
and equal archives have equal checksums. `object` and `meta` are the two remote
objects, `sync` the calls, `packed` the history of archives whose metadata was
written.

**Provisioning.** `record` and `buffer` are the entries of the two maps, `timers`
every timer that was set and is still pending, `current` the only one the service
could still clear. The page is the hook of the web interface: its socket, whether
it has joined the room, what it received, and the polling it falls back to.

**Pairing.** A call changes its rows, reads the gateway's configuration with its
hash, and patches it; the gateway refuses a patch under an old hash. `config`
carries the list and, as `rest`, everything others write there.

**ClientPool.** A `GatewayClient` is here just connecting, up, lost, or gone.
`get` are the calls between the look into the map and the store, `watch` the
`subscribe-logs` handlers between look and store of the stream.

**ChannelAuth.** `session` and `qr` are the two maps for one channel; `expiries`
and `qrTimers` the timers set, each with the session it was set for; `writes` the
status changes of the row that are under way.

**Costs.** A day's usage grows at the gateway; of the days after the last one synced
that a report names, a collection takes the newest `SyncDays` (30 in the code) and
leaves out the others, which `missed` remembers: the date it saves lies behind them.
For each day it takes it writes row and budget in two calls. `spend` has the daily
and the monthly counter.

**AgentTasks.** `task` is a call with its point, `told` what the subject of a stream
has delivered, `trace` the row from which `tasks/get` answers, `canceling` the
cancellations that have spoken to the stream and not yet to the trace.

**Onboarding.** The fields of `deploy` are what a call has in its local variables;
the built-in template's gateway object is `sharedToken`, because the shallow copy
of a template shares it with every configuration made from it. Names matter only
in so far as one is another one's prefix (`Longer`), which is what the prefix
searches see.

**MiddlewareProxy.** `place` says for each frame whether it is still to be sent,
in the chain, dropped or through; a frame passes one hook at a time and others
may overtake it there. Frames, once out of the chain, are sent, held or lost by
the state of the two sockets.

**Clouds.** `todo`, `work` and `gceDo` are the operations under way, each with its bot
and the sequence of calls it has left. Of one bot only what a reconciliation asks for
(install, configure, start) runs one at a time, because of the in-progress set; a
stop, a delete, a resize and a restart for another version never look at that set, so
they overlap it and each other (`MayCall`). Each call succeeds, or fails while faults
last, and what a failure does is what the code's `catch` does. What the cloud itself
refuses (deleting what is in use, creating on what is missing) is modelled from how
the code relies on it and is mapped as external. On Google Cloud a call may also take effect after its wait
has timed out; on EC2 an instance may come up after `start` has given up, and one that
somebody stopped is terminated by the next start. The boot of an Azure VM with its
file share, secret and container is there because the deletions and restarts act on
it; no property is about it.

**DockerHost.** The counterpart of `Reconciler`: there the row and the configuration
are followed and the container is one value, here the row is a status with the
enabled middlewares and each docker command is a step. `main` and `proxy` are the two
containers, `network` the one between them, `unit` the service of a local bot. A
`docker run` may be refused, and may leave a container behind that was created and
does not run; what a `catch` swallows goes on, what it does not goes to `pfail`. A container
that cannot be inspected or started leads to `docker run` like one that is missing.
An upgrade restarts whatever container is there, in any status of the row. One
reconcile is in progress at a time, which `Reconciler` shows; lifecycle calls and
changes of middlewares overlap with it and with each other.

**Personas.** `persona` is the gateway's configuration: whose identity it has, whose
patches it holds, and whether anybody else changed it. An injection takes a
snapshot, then reads and applies the configuration for the identity and for the
patches, each under the hash of what was read (equal configurations have equal
hashes), and adds its cron jobs. Two others write the configuration: a pairing or a
tool policy is patched into it (`EditConfig`), and the reconciler's `config.apply`
puts the one that the manifest gives in its place, injected patches and all
(`ReplaceConfig`). What each injection puts in is told apart from what
the others do, so that a property can say whose it is. The gateway is taken to treat
the empty hash of a rollback as no condition, and nobody rolls back an injection that
is still at work: its snapshot is named by the answer of the injection. Injections
that skip the snapshot are not modelled; there is nothing to roll them back to.

**Compositions.** The parts of `Services` share no state, nor do those of
`CloudTargets`. An interleaving of two of them is an interleaving of their
projections and shows nothing more about either, so a behaviour of the
composition chooses one part that is at work while the others rest. That keeps
the sum of the state spaces instead of their product, and the theorems
`ServicesKeepTheirSpecs` and `CloudKeepsItsSpecs` say that such a behaviour is one
of each part.

## 3. Runs

| Run | Question | Bounds |
|---|---|---|
| `reconciler_guard` | does the in-progress set exclude and end? refinement of `ExclusiveWork` | 2 instances, 2 concurrent calls, one crash, one poll; symmetric calls and instances |
| `reconciler_life` | is what is recorded what runs, across all other operations? | 1 instance, 2 hashes, each environment step once |
| `reconciler_live` | does every transient state end, every guard lift? | 1 instance, one crash, restart, pause or resume, request |
| `reconciler_desired` (violation) | does success mean the desired configuration is live? | smallest that shows it |
| `reconciler_stop` (violation) | does STOPPED mean down? | smallest that shows it |
| `gateway_client` | calls and connects settle, closed stays closed | one request, one agent call, 2 connects, drops and attempts |
| `gateway_reconnect` (violation) | does a failed attempt lead to the next? | one request, the rest as above |
| `alerts` | alerts follow their conditions | 2 rows, 2 overlapping rule ticks, 2 overlapping SLO ticks, 2 SLOs, one operator step (on an alert, or an SLO switched on or off), 2 changes of the rule, 2 of the metrics, one lost step, one crash |
| `slo_alert` (violation) | does each breached SLO have an open alert? | 2 SLOs, 3 rows, one tick at a time, 3 metric changes, nothing else |
| `services` | the safety and liveness of each service | see below |
| `cloud` | does shared infrastructure outlive its users, and destroy leave nothing? is what runs what the row says? are injections whole or gone? | on each cloud 2 bots, 3 operations of which 2 at a time, of two bots or of one, and 1 fault; EC2 2 VPCs and 2 instances; Google Cloud 2 zones; see below |
| `ec2_last_bot` (violation) | are the shared parts of EC2 removed by the last bot only? | EC2 as above, with a fourth operation |

The bounds of `services`: *sync*, 2 files with one content beside none, 2 calls
that overlap, 3 in all, one edit, one fault; *prov*, 2 overlapping runs, one log
line with a buffer of one, one reconnect, one failed poll, one network failure;
*pair*, 2 senders, 2 overlapping calls of 3, one pending request per channel, one
failure, expiry and foreign write; *pool*, 3 clients, 2 overlapping calls, 2
browsers, 2 lost connections; *auth*, 3 sessions, 2 refreshes, 4 calls of the
user, WhatsApp or another platform; *cost*, 3 days of usage up to 2 of which a
collection takes 2, 2 collectors, 3 units of usage, 2 collections, one direct event,
one failure, one reset; *task*, one
task, 2 chunks, 2 failing writes; *board*, 2 deployments, 2 names of which one
begins with the other, one channel type, 2 ports, one failing call or crash;
*proxy*, 2 frames in, one out, 2 middlewares.

The other bounds of `cloud`: *host*, docker or local, 2 middlewares, a reconcile and
2 lifecycle calls that overlap, 3 calls in all, 2 faults (a failing step or a crash),
so that a deployment can fail, its repair fail again, and a change of middlewares
follow; *persona*, 2 injections of 2 cron jobs, any number of rollbacks, one edit by
somebody else, any number of configurations applied by the reconciler, 1 fault.
Nothing the code does tells two bots, two operations, two instances, lifecycle calls,
middlewares or injections apart, so they are symmetric; since one part is at work in a
behaviour, calls and injections share their values with bots, middlewares theirs with
operations. The run has no liveness property.

Why the bounds are enough: every hazard above is a race of two or three parties
on one instance, one connection or one key, and instances do not share state
except through the in-progress set, the cloud's shared parts and the template of
onboarding (for each of which two are taken). Two calls suffice for the guard,
since admission depends only on set membership. Where the bound itself is a limit
of the code (refreshes, pending requests, buffered lines, reconnects) the limit is
made as small as the run can reach. The theorems of section 5 remove the bounds
from what they state. Budgets (`Budget`, `SyncBudget`, `MaxDrops`, ...) cap what the
environment does, never what the code does in response. When a budget is used up
the system may legitimately come to rest, so deadlock is not checked
(`CHECK_DEADLOCK FALSE`); that nothing waits for ever is what the liveness
properties say.

### What the runs show

The guard is right: one run per instance, exact, always
lifted. In all explored lifetimes, a run that provisioned, applied or compared
records only a configuration that is live, a known instance is never provisioned
from scratch, and deletion is final. The transient states that a reconcile is to end
do end, though only because of the stuck detector; DELETING, which `destroy` writes
before the last step of a stop or a delete, is in no detector's list. The client
forgets no call. Alerts of rules converge in both directions in spite of duplicates.

Of the services: a restore never unpacks what no backup confirmed; progress
records vanish although superseded timers are never cleared; the read, change and
patch of the allow list is safe because the gateway compares hashes; the two
sessions of WhatsApp never contradict each other; the daily upsert charges each
day once; streams end once; the clean-up of onboarding takes what it should; the
buffer of the proxy keeps the order. Of the clouds: shared network, storage and
identity are there as long as a VM, an instance or a group uses them, whatever failed
before (on EC2 the instance profile is there, though maybe without its role), and a
destroy without failing calls leaves nothing, whatever but an install or a launch of
its bot overlaps it. On the
host: a failed or interrupted deployment never passes for a finished one, because a
row that was not finished is torn down before it is deployed again (unless it is
upgraded instead). Injections that
overlap lose nothing of each other, because each is applied under the hash it read.

Several of these hold only under a condition, which the property states with a
history variable and without which TLC finds a counterexample. The conditions are
results of the checks:

| Property | Holds while | Otherwise |
|---|---|---|
| `BackupLeavesWhatItRead` | backups neither overlap nor are cut off | data of one under metadata of the other; the checksum then stops every restore until the next backup that has something new |
| `RowsMatchGateway` | calls do not overlap and nothing fails | a failed gateway write is swallowed, row and list differ until somebody syncs |
| `NoLeakedConnection` | calls of `getClient` and of `subscribe-logs` do not overlap | the client stored first is overwritten and stays connected |
| `ChargedOnce` | no call is cut off between row and budget (`cut`); no rows are recorded by hand | spend and rows differ |
| `SyncedDaysAreComplete` | of a day that never waited with 30 newer ones (`missed`); no report is on its way at midnight (`crossed`); no rows are recorded by hand | the day is never read, or never read again |
| `NoStaleSloAlert` | no tick of the SLO evaluator began before the last one had ended (`overlap`), none lost a step, nobody else changed SLOs or alerts (`Undisturbed`) | a tick that read the SLOs earlier raises an alert for a breach that another tick has cleared; nothing resolves it |
| `OneFinalAnswer`, `TraceAgrees` | no write of the trace fails | a second final state is told; the trace stays as it was |
| `OwnTokenAndPort` | no two deployments are between configuration and row at once (`crowded`) | two bots get one port, or the first the second's token |
| `DeployedIsWhole` | calls of one name do not overlap and no name begins with another one and a hyphen (`tangled`); no call fails | the clean-up takes channels of another bot |
| `HalvesCloseTogether` | both halves have been open (`joined`) | a client that leaves early leaves the other half open |
| `HostMatchesRow` | calls do not overlap, every removal works, and neither a refused check nor a crash ends a call while the deployment it was to replace or remove still stands (`hostClean`); no bot was upgraded while it was not RUNNING (`upgradedDown`) | a change of middlewares made during a reconcile is never deployed; containers stay behind a stopped or deleted bot; the upgrade restarts what a failed deployment left, overlooks a missing proxy and writes RUNNING. Nothing is said of a local bot that was stopped: `destroy` of a fresh target does nothing |
| `InjectionsAreWhole` | for one that completed: neither it nor an older one is rolled back, and the reconciler applies no configuration over it (`undone`); for one rolled back: it had completed, its jobs could be removed, and no other snapshot may hold it (`entangled`) | a rollback restores the whole old configuration and takes later changes along, a `config.apply` all of them, while the snapshot says completed; a rollback of a failed injection leaves its cron jobs; a later rollback of another brings it back |
| `VmsKeepShared`, `InstanceKeepsShared`, `GroupKeepsNetwork` | no operation, of whatever bot, overlaps a destroy (`azCalm`, `ec2Calm`, `gceCalm`); on EC2 the region never had a second VPC (`oneVpc`), and of the IAM parts only the profile is promised; on Google Cloud the bots are in one zone | shared parts go while in use. A profile whose role an install failed to add is taken for complete by every later one |
| `InstallFindsItsNeeds` | no operation overlaps a destroy (`azCalm`) | the destroy takes away what the install has found |
| `DestroyLeavesNothing` | none of its calls failed and no install of its bot overlapped it (`leaky`) | what the install makes behind the destroy stays: a VM without a row |
| `DestroyEndsInstances` | none of its calls failed; no two launches of its bot ever overlapped, nor a destroy an install or a launch of it (`crossed`) | the destroy finds no instance, and the start then launches one that nobody knows; of two instances one is found |
| `ResizeComesBack` | no stop, destroy or other resize of the bot overlaps it (`torn`) | the last to scale the group has its way |

Five runs show disagreements of the code with its own text, quoted in
`PROJECT.json`: the matching-hash fast path never compares with the gateway;
`stop` can be overtaken by the reconcile it ignores; a failed reconnect attempt
is the last; one recovered SLO resolves the alert of another; and the shared parts
of EC2 are removed while a stopped bot still needs them. The other entries of
`findings` were met while modelling and have no run of their own: a file removed
during a backup ends the reading of its directory without an error; `getVmStatus`
of Azure never lets its target see a missing VM; traces are stringified twice; a
second VPC is created after an install that failed half-way; the template object
shared by deployments; the prefix clean-up of onboarding; the client that leaves a
proxied connection early; a local bot that `stop` does not stop; a change of
middlewares that is never deployed; an upgrade that keeps the old image; cron jobs
that a rollback leaves; days of usage beyond the newest 30 that are never copied; a
delete that overlaps the bot's own install or start in a cloud; a profile without its
role that counts as complete; an upgrade that makes a broken bot RUNNING.

## 4. Fairness

Weak fairness of a step of a call or job: everything the code awaits has a
timeout (database, target, gateway request, connect), so every await settles,
one way or the other. Weak fairness of detectors and ticks: cron jobs keep firing.
Strong fairness of picking up a PENDING row: each tick finds it, but between
ticks another call may hold the instance. Timers fire. Nothing is assumed about
users, the network, containers or crashes.

In `Services`: `ProvFairness`, timers fire; the runs themselves need not end.
`TaskFairness`, a call of an agent goes on, since connecting and the agent call
have timeouts. `ProxyFairness`, a closing handshake ends: `ws` destroys a socket
that has been closing for 30 seconds. Safety of the clouds needs no fairness, and
no liveness is claimed of them.

## 5. Proofs

`ReconcilerProofs` proves, for any finite or infinite sets of instances, calls
and requests and any budgets:

- `TypeCorrect`: `Spec => []TypeOK`. `TypeOK` alone is not inductive: a step of a
  call writes the row of the call's instance, so it must be known that a busy
  call has one. `Typed` adds that part.
- `GuardCorrect`: the invariant `Guarded`, which says that two active calls have
  different instances and the set is the image of the active calls. Each conjunct
  needs the other: admission looks at the set only, so exclusion follows from
  exactness; removal takes one id out of the set, so exactness follows from
  exclusion.
- `TypesAndGuard` (`TypeOK`, `OneRunPerInstance` and `GuardExact`, of which the
  run `reconciler_guard` checks the last, the strongest) and
  `GuardImplementsExclusiveWork`, the refinement: every step is a take, a drop or
  a stutter of `ExclusiveWork`.
- `DeletionIsFinal`: a step that finds a row gone writes neither row nor
  connection, and only a row that is there gets a connection (`LinksOfTheLiving`);
  so none is left of an instance that is gone (`GoneUnlinked`).
- `KnownIsNotNew`: the status that sends a run to full provisioning comes with no
  recorded hash (`Recorded`). It needs that no writer brings CREATING back
  (`FreshKeepsNoHash`) and that a run writes a hash only after it has marked the row
  (`MarkComesFirst`), however stale what it once read has become.
- `RecordedIsLive`: `InStep` says of each point of a run what the gateway holds
  there. It can be broken by others, so it is conditional on `Untouched`, which
  compares budgets with what is left of them; that budgets only shrink
  (`BudgetsShrink`) makes the condition inductive.

`GatewayClientProofs` proves `NobodyForgotten` (an awaited call is in the
tracker) and `NoReconnectAfterClose` (no reconnect timer after `disconnect()`).

`AlertsProofs` proves `AlertTypes` (`Spec => []TypeOK`) and `SloAlertsFollow`:
`NoStaleSloAlert` holds for any SLOs, rows, ticks and metric changes. What is open
between ticks says nothing about the middle of a tick, so the inductive invariant
`Agreement` adds what a tick knows (`Informed`: the list it read is still right about
every SLO it has not come to, and the row it found is the open one), that at most one
row is open (`Plain`) and that an open alert of SLOs that have all recovered is about
to be closed (`Due`). All of it is conditional on `Quiet`, under which one tick is in
flight at most (`OneTick`): `@Cron` starts a tick whether or not the last one has
ended, and with two of them the list that one has read is wrong as soon as the other
writes. That a disturbance can never be undone (`SpentShows`, and `overlap` is never
reset) makes the condition inductive too.

`BotStateProofs` proves three parts. Of `StateSync` the types, `RestoresConfirmed`
(a call that unpacks holds an archive whose metadata was written, because it
compared the checksum with metadata it had read, and metadata is written only with
its archive noted) and `BackupsAreWhole`, whose invariant says what a call that runs
alone knows: between its uploads the data object is what it read. Of `Pairing`
`RowsAgree`, with an invariant that describes the middle of a call, when rows are
ahead of the list by exactly the senders it is about to write, and
`PatchesAreAtomic`: a patch is accepted under the hash that was read, so the list it
was computed from is still the list. Of `Provisioning` `PageSeesEachLineOnce`, for
any number of lines and reconnections: a page in the room has each buffered line
once, and a page outside it has none over this connection (`Followed`), so the
replay that comes with joining and the lines sent since never overlap.

`PersonasProofs` proves `InjectionsWholeOrGone`, for any injections, cron jobs and
failures. A completed injection must not be lost, so `AppliedStays` follows what each
call has put in so far; a rolled back one must not come back, and it could from three
places: the configuration itself, a snapshot, and what a call has read and will still
apply. Whom a rollback or the reconciler's configuration takes out is in `undone`, of
which `AppliedStays` then says nothing. `NamedAreKnown` says that whoever is named in a
snapshot that is stored or about to be is known and entangled, `RolledBackIsGone` what
a rollback has removed at each of its steps, and `CallsMatchSnapshots` which snapshot a
call has where it is.

`OnboardingProofs` proves `BotsAreTheirOwn`, for any calls, names, ports and
faults. Configuration (token, port) and row are made in different steps, so the
invariant follows a deployment between them: a row was made by its call, which is
past making it, and its target is there (`Made`); as long as calls did not crowd, at
most one is in between, the shared object holds its token and its port is nobody's
(`Window`); and who cleans up does so after a call that makes no row any more
(`Cleaners`). It also proves `DeploymentsAreWhole`, the two sides of the clean-up:
what it leaves of others and what it takes. The invariant `Tidy` ties the three
tables together at every step of every call: a name has one row (`OneRow`), every
target has a row, will have one or is about to go (`TargetsUsed`), every channel has
a row of its name (`ChannelsUsed`), a finished bot has its channels
(`ChannelsThere`), and what a call or a clean-up has looked up is still so when it
acts on it (`AsFound`). Since calls do not see each other, all of it rests on
`Apart`, that calls with related names follow one another.

`ServicesProofs` proves `NoConnectionLeaks` of `ClientPool`: while calls do not
overlap, at most one handler is between look and store, and each client is the one
it awaits, in the pool, or the stream with the subscribers that are counted.
It also proves `SignedInInBoth` of `ChannelAuth`, `FramesArriveInOrder` of
`MiddlewareProxy`, and of `AgentTasks` `StreamsEndOnce` and `TracesSayWhatWasTold`,
whose invariant `TraceFollows` says for each point of a call, canceled or not, what
the stream has heard last and hence which state is still to be written.
`SyncedDaysAreCopied` of `Costs` holds for any number of days and any `SyncDays`: the
collector that works is alone (`OneCollects`), what it remembers as synced is over
(`SyncIsPast`), and it has left no used day behind it but those it left out when it
took the newest (`WalksInOrder`): that it takes the earliest of them first is what
makes a failure half-way harmless. `DaysAreChargedOnce` compares the
budget with a sum over all rows. Reports only grow, so a row is overwritten with at
least what it had (`JobFits`), and the budget is behind by exactly the row that was
just written (`Settled`). That writing one row changes the sum by the change of the row
(`SumFollowsRow`) is true by induction over the days; it is proved without an induction
rule, from the least day of which it would be false (`LeastNumber`, since < is
well-founded on the numbers). For the composition,
`ServicesKeepTheirSpecs` (a behaviour of `Services` is a behaviour of each part: its
own steps are steps of its part, all others leave its variables alone) lets
`ServicesAreSafe` carry the theorems of the parts over.

`CloudTargetsProofs` proves of the clouds, for any number of bots, operations and
failing calls, what a test would need many accounts and much patience for. An
operation is a list of calls that gets shorter, so each invariant first says that
what is left is the end of the list of its operation (`Stands` and its likes, with
the lemmas about `IsRest`); the length of the rest is then the program counter.

An invariant speaks of each operation under way, since a bot may have several.

- Azure (`AzInv`): an install that no destroy overlaps finds what it has made
  (`MadeSoFar`); a destroy without failing calls that has no install of its bot beside
  it (`Unhindered`) leaves nothing of what it has deleted (`GoneSoFar`), since no other
  operation makes a VM; and one that is alone reaches the shared parts only when no VM
  is left (`DestroyAlone`). From it follow `SharedOutlivesAzureBots`,
  `AzureDestroyIsClean` and `InstallEndsWithVm`.
- EC2 (`Ec2Inv`): a launch goes into a VPC that was found whole and still is
  (`ReadyToRun`), which takes that there is one network only (`OneNetwork`). A bot
  whose operations never crossed (`NoClash`) has one instance (`OneInstance`), because
  a launch comes after the look for it or its end (`Cleared`); so the one that a
  destroy finds is all there is, and it has ended it and deleted the template before
  anything else (`Emptied`). From it follow `SharedOutlivesEc2Bots` and
  `Ec2DestroyIsClean`.
- Google Cloud (`GceInv`): `NetMade` and `TearsAlone` are the same for the network of a
  zone; a resize that nothing tore has its group to the end (`Resizing`), and a group
  always has a template that exists (`HasTmpl`), because GCE deletes none in use. From
  it follow `NetworkOutlivesGceBots` and `GceResizeIsSafe`.
- Host (`HostInv`): `RowIsTrue` is what is meant, at rest. In the middle of a
  reconcile or a lifecycle call the containers are what it has taken down and put
  up so far (`RunIsTrue`, `CallIsTrue`), while it works with the middlewares of the
  row (`RunReadsRow`); and whatever of a broken deployment stands, it does not
  answer (`Honest`), which is why the next reconcile starts over. All of it holds under
  `hostClean` and `~upgradedDown`: an upgrade is the one call that would make what
  is left of a broken deployment answer for the row. From it follows `HostRunsTheRow`.

`CloudKeepsItsSpecs` and `CloudIsSafe` do for `CloudTargets` what the two theorems
above do for `Services`.

Assumptions are those named in the modules: budgets and thresholds are natural
numbers, the "nothing" values are not members of the sets they stand beside.

Every safety property that a passing run checks is a theorem. Model-checked only are
the liveness properties, since fairness and ENABLED are out of the prover's reach:
`TransientStatesEnd`, `GuardIsReleased`, `CallsSettle`, `ConnectSettles`,
`AlertsEndWithCondition`, `StandingFaultIsActive`, `ProgressForgotten`,
`TasksAreResolved` and `HalvesCloseTogether`. The type invariants that no run lists
(`ServicesTypeOK`, `CloudTypeOK`) hold in the same instances; they are there for the
reader and for the proofs.

Some definitions are written the way they are because of the proofs: the collector of
`Costs` picks the day of which no other comes before, and not a `CHOOSE` of the
smallest; `InRows` is a recursive function, whose table is shown to exist, and not a
fold; the host writes its row field by field. All say what the code does.

## 6. Abstractions

- A configuration is its hash. Of the file itself, only the gateway token and the
  allow list appear, where they matter.
- Time is order: a timer may fire at any moment after it is armed; fifteen
  minutes without a write to a row are the step `Age` (`Ages` in onboarding).
- Docker's own restart policy, outages, and edits made to a gateway behind the
  control plane are environment steps.
- An answer of a remote party (a platform's verdict on a token, an agent's
  result, a rule's verdict on its metrics) is a choice among the outcomes the code
  tells apart.
- Definitions mapped as external are the clouds, the gateway, the agent, the disk
  under a backup and the clock, each as the code relies on it.
- Pages of 20: `findMany` returns the newest 20 rows, so detectors and evaluators
  overlook what is older. Models with two instances never reach that; the
  properties hold for the rows that are listed.

Met and not stated as properties, because nothing in the code promises them: the
scheduler of backups is never given an instance by the API, so all backups are
made by hand; the drift job skips every instance (it reads a field of what the
database stores as a string); the worst budget is the one with the highest
percentage, whatever its thresholds; a canceled trace may be overwritten by the
answer that was under way; all VMs of an Azure resource group mount the same
`openclaw.json`; the template that a resize on Google Cloud leaves behind is never
deleted, and an insert is not repeated when its first try took effect.

### Not modelled

| Part | Why not |
|---|---|
| Fleets and teams | promotion and bulk reconcile write rows that `Reconciler` already lets change at any time, from a list read earlier; delegation forwards one message |
| Cloud SDK adapters | wrappers of single vendor calls, without state; their effects are in the cloud modules |
| Policy engine, config layers | pure and total functions of one tree, without state; unit tests reach what they do |
| Config generation, bot templates, start-up scripts | formatting; only the hash of its result matters to the order of events |
| Notification delivery | fire and forget, two counters per channel, nobody waits for it |
| HTTP half of the proxy, loading of middlewares | one request, one answer, nothing kept |
| Agent evolution, traces, dashboards, audit views | read models, computed when asked |
| Vault, connectors, skill packs, profiles, policy packs | row-at-a-time CRUD behind the validation of single requests |
| Command line | prompts and shell commands on one workstation, nothing concurrent |
| Web interface | pages over the API, except the provisioning page, which is in `Provisioning`; nothing outlives a page |
| Rest of the partly modelled components | queries, chat and file routes of instances; snapshots and diagnostics of health; frame parsing of the client; images, sandbox and limits of docker; unit files of local bots; previews of personas and injections without a snapshot; the queries behind alert rules and SLO metrics; budget CRUD; cloud logs, endpoints and status, and the restart of an Azure VM (neither its resources nor its power change); onboarding previews |

More than half of the lines of the repository are in the last rows: pages,
prompts, formatting, generated queries and schema definitions.

## 7. What is next

1. A deployment target as an abstract specification (installed or not, running or
   not) that the clouds implement, in place of the container of `Reconciler`.
2. Pages of 20 in detectors and evaluators, with fairness between rows.
3. Budgets of several scopes over one event, and the monthly reset.
