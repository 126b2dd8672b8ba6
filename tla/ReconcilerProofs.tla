-------------------------- MODULE ReconcilerProofs --------------------------
(* Theorems about Reconciler, for any sets of instances, calls, requests,  *)
(* hashes and any budget.                                                  *)
EXTENDS Reconciler, TLAPS

\* A call or request in flight is about a real instance.
BusyHaveInstance ==
  /\ \A r \in Runs : Active(r) => run[r].inst \in Instances
  /\ \A q \in Requests : req[q].pc # "idle" => req[q].inst \in Instances

Typed == TypeOK /\ BusyHaveInstance

-----------------------------------------------------------------------------
(* Lemmas on the operators the actions are built from *)

LEMMA BumpType == ASSUME NEW n \in 0..ErrCap PROVE Bump(n) \in 0..ErrCap
  BY ErrAssumption DEF Bump

LEMMA IdleTypes == IdleRun \in Run /\ IdleRequest \in Request
  BY DEF IdleRun, Run, IdleRequest, Request, MaybeHash

LEMMA PutType ==
  ASSUME TypeOK, NEW i \in Instances, NEW row \in Row, Put(i, row)
  PROVE  db' \in [Instances -> Row]
  BY DEF TypeOK, Put, Row

LEMMA GotoType ==
  ASSUME Typed, NEW r \in Runs, NEW pc \in RunPc, Goto(r, pc), run[r].inst \in Instances
  PROVE  /\ run' \in [Runs -> Run]
         /\ \A s \in Runs : run'[s].pc # "idle" => run'[s].inst \in Instances
         /\ \A s \in Runs : run'[s].inst = run[s].inst
  BY DEF Typed, TypeOK, BusyHaveInstance, Active, Goto, Run

LEMMA UpdateType ==
  ASSUME Typed, NEW r \in Runs, NEW row \in Row, NEW a \in RunPc, NEW b \in RunPc,
         run[r].inst \in Instances, Update(r, row, a, b)
  PROVE  /\ db' \in [Instances -> Row]
         /\ run' \in [Runs -> Run]
         /\ \A s \in Runs : run'[s].pc # "idle" => run'[s].inst \in Instances
  <1>1. CASE Put(run[r].inst, row) /\ Goto(r, a)
    BY <1>1, PutType, GotoType DEF Typed
  <1>2. CASE Goto(r, b) /\ UNCHANGED db
    BY <1>2, GotoType DEF Typed, TypeOK
  <1>3. QED
    BY <1>1, <1>2 DEF Update

LEMMA RowTypes ==
  ASSUME TypeOK, NEW i \in Instances, NEW h \in MaybeHash
  PROVE  /\ [db[i] EXCEPT !.status = "RECONCILING"] \in Row
         /\ [db[i] EXCEPT !.status = "RUNNING", !.hash = h, !.reconciled = TRUE, !.errs = 0] \in Row
         /\ [db[i] EXCEPT !.status = "ERROR", !.reconciled = TRUE, !.errs = Bump(@)] \in Row
         /\ [db[i] EXCEPT !.status = "ERROR", !.errs = Bump(@)] \in Row
         /\ [db[i] EXCEPT !.hash = h] \in Row
         /\ [db[i] EXCEPT !.hash = h, !.reconciled = TRUE] \in Row
         /\ [db[i] EXCEPT !.errs = Bump(@)] \in Row
  <1>1. Bump(db[i].errs) \in 0..ErrCap
    BY BumpType DEF TypeOK, Row
  <1>2. 0 \in 0..ErrCap
    BY ErrAssumption
  <1>3. db[i] \in Row
    BY DEF TypeOK
  <1>4. QED
    BY <1>1, <1>2, <1>3 DEF Row, Status, Stored

LEMMA SpendType ==
  ASSUME TypeOK, NEW k \in EnvKinds, Spend(k)
  PROVE  left' \in [EnvKinds -> Nat]
  BY DEF TypeOK, Spend

LEMMA TearDownType ==
  ASSUME Typed, NEW i \in Instances, TearDown(i)
  PROVE  infra' \in [Instances -> Infra] /\ left' \in [EnvKinds -> Nat]
  <1>1. CASE infra' = [infra EXCEPT ![i].box = "absent"] /\ UNCHANGED left
    BY <1>1 DEF Typed, TypeOK, Infra
  <1>2. CASE Spend("undestroyed") /\ UNCHANGED infra
    BY <1>2, SpendType DEF Typed, TypeOK, EnvKinds
  <1>3. QED
    BY <1>1, <1>2 DEF TearDown

\* What the steps of one call have in common.
LEMMA RunStepTyped ==
  ASSUME Typed, NEW r \in Runs, RunStep(r)
  PROVE  Typed'
  <1> USE DEF watchers
  <1>0. /\ run[r] \in Run
        /\ Active(r) => run[r].inst \in Instances /\ run[r].goal \in MaybeHash
                        /\ db[run[r].inst] \in Row /\ infra[run[r].inst] \in Infra
    BY DEF Typed, TypeOK, BusyHaveInstance, Run
  <1> DEFINE Rest == /\ inProgress \in SUBSET Instances /\ req \in [Requests -> Request]
                     /\ poll \in [Instances -> {"idle", "probe", "verify"}]
                     /\ orphan \in [Instances -> {"idle", "missing", "broken"}]
                     /\ stuck \in SUBSET Instances
                     /\ \A q \in Requests : req[q].pc # "idle" => req[q].inst \in Instances
             RunOK == /\ run' \in [Runs -> Run]
                      /\ \A s \in Runs : run'[s].pc # "idle" => run'[s].inst \in Instances
  <1>rest. Rest
    BY DEF Typed, TypeOK, BusyHaveInstance
  <1>1. ASSUME NEW a \in RunPc, NEW b \in RunPc, Move(r, a, b)
        PROVE  Typed'
    <2>1. Active(r)
      BY <1>1 DEF Move, At, Active, RunPc, UpdatePc, ProvisionPc, ReconcilePc
    <2>2. RunOK
      BY <1>0, <1>1, <2>1, GotoType DEF Move
    <2>3. QED
      BY <1>1, <2>2 DEF Move, Typed, TypeOK, BusyHaveInstance, Active
  <1>2. CASE Load(r)
    <2>1. Active(r)
      BY <1>2 DEF Load, At, Active
    <2>2. db[run[r].inst].hash \in MaybeHash /\ db[run[r].inst].want \in MaybeHash
      BY <1>0, <2>1 DEF Row, MaybeHash
    <2>3. IsNewInstance(db[run[r].inst]) \in BOOLEAN
      BY <1>0, <2>1, Zenon DEF IsNewInstance, Row
    <2>4. ASSUME Goto(r, "fail") PROVE RunOK
      BY <1>0, <2>1, <2>4, GotoType DEF RunPc, ReconcilePc
    <2>5. ASSUME ~Goto(r, "fail") PROVE RunOK
      <3> DEFINE i == run[r].inst
                 fresh == [run[r] EXCEPT !.pc = "mark", !.isNew = IsNewInstance(db[i]),
                                         !.known = db[i].hash, !.goal = db[i].want]
      <3>1. run' = [run EXCEPT ![r] = fresh]
        BY <1>2, <2>5 DEF Load, Typed, TypeOK, Run
      <3>2. fresh \in Run /\ fresh.inst = run[r].inst
        BY <1>0, <2>2, <2>3 DEF Run, RunPc, ReconcilePc
      <3>3. QED
        BY <1>0, <2>1, <3>1, <3>2 DEF Typed, TypeOK, BusyHaveInstance, Active
    <2>6. RunOK
      BY <2>4, <2>5
    <2>7. QED
      BY <1>2, <2>6 DEF Load, Typed, TypeOK, BusyHaveInstance, Active
  <1>3. CASE Check(r)
    BY <1>1, <1>3 DEF Check, RunPc, UpdatePc, ProvisionPc, ReconcilePc
  <1>4. CASE Refetch(r)
    BY <1>1, <1>4 DEF Refetch, RunPc, UpdatePc, ProvisionPc, ReconcilePc
  <1>5. CASE UpdateTrusted(r)
    BY <1>1, <1>5 DEF UpdateTrusted, RunPc, UpdatePc, ProvisionPc, ReconcilePc
  <1>6. ASSUME NEW row \in Row, NEW a \in RunPc, NEW b \in RunPc,
               Update(r, row, a, b), Active(r),
               UNCHANGED <<link, infra, inProgress, req, watchers, left>>
        PROVE  Typed'
    <2>1. RunOK /\ db' \in [Instances -> Row]
      BY <1>0, <1>6, UpdateType DEF Active
    <2>2. QED
      BY <1>6, <2>1 DEF Typed, TypeOK, BusyHaveInstance, Active
  <1>7. CASE \/ Mark(r) \/ Save(r) \/ Fail(r) \/ USave(r) \/ UFail(r) \/ PSave(r) \/ PFail(r)
    <2>1. Active(r)
      BY <1>7 DEF Mark, Save, Fail, USave, UFail, PSave, PFail, At, Active
    <2>2. QED
      BY <1>0, <1>6, <1>7, <2>1, RowTypes
         DEF Mark, Save, Fail, USave, UFail, PSave, PFail, Typed,
             RunPc, UpdatePc, ProvisionPc, ReconcilePc
  <1>8. CASE UpdateGet(r)
    <2>1. Active(r)
      BY <1>8 DEF UpdateGet, SlowPath, At, Active
    <2>2. ASSUME Goto(r, "ufail") PROVE RunOK
      BY <1>0, <2>1, <2>2, GotoType DEF RunPc, UpdatePc
    <2>3. ASSUME ~Goto(r, "ufail") PROVE RunOK
      <3>1. infra[run[r].inst].live \in MaybeHash
        BY <1>0, <2>1 DEF Infra
      <3>2. PICK pc \in RunPc :
              run' = [run EXCEPT ![r] = [run[r] EXCEPT !.base = infra[run[r].inst].live, !.pc = pc]]
        BY <1>8, <2>3 DEF UpdateGet, Typed, TypeOK, Run, RunPc, UpdatePc
      <3>3. QED
        BY <1>0, <2>1, <3>1, <3>2 DEF Typed, TypeOK, BusyHaveInstance, Active, Run
    <2>4. RunOK
      BY <2>2, <2>3
    <2>5. QED
      BY <1>8, <2>4 DEF UpdateGet, Typed, TypeOK, BusyHaveInstance, Active
  <1>9. CASE Adopt(r)
    <2>1. Active(r)
      BY <1>9 DEF Adopt, At, Active
    <2>2. RunOK
      BY <1>0, <1>9, <2>1, GotoType
         DEF Adopt, Goto, Typed, TypeOK, BusyHaveInstance, Active, Run, RunPc,
             UpdatePc, ReconcilePc
    <2>3. db' \in [Instances -> Row]
      BY <1>0, <1>9, <2>1, PutType, RowTypes DEF Adopt, Typed, TypeOK
    <2>4. QED
      BY <1>9, <2>2, <2>3 DEF Adopt, Typed, TypeOK, BusyHaveInstance, Active
  <1>10. CASE Apply(r) \/ Persist(r) \/ PConfigure(r) \/ PStart(r) \/ PDestroy(r)
    <2>1. Active(r)
      BY <1>10 DEF Apply, Persist, PConfigure, PStart, PDestroy, At, Active
    <2>2. RunOK
      BY <1>0, <1>10, <2>1, GotoType, SMTT(30)
         DEF Apply, Persist, PConfigure, PStart, PDestroy, Goto, Typed, TypeOK,
             BusyHaveInstance, Active, Run, RunPc, UpdatePc, ProvisionPc
    <2>3. infra' \in [Instances -> Infra] /\ left' \in [EnvKinds -> Nat]
      BY <1>0, <1>10, <2>1, SMTT(30)
         DEF Apply, Persist, PConfigure, PStart, PDestroy, TearDown, Boot, Spend,
             Typed, TypeOK, Infra
    <2>4. QED
      BY <1>10, <2>2, <2>3
         DEF Apply, Persist, PConfigure, PStart, PDestroy, Typed, TypeOK,
             BusyHaveInstance, Active
  <1>11. CASE PConnect(r)
    <2>1. CASE Move(r, "connect", "pfail")
      BY <1>1, <2>1 DEF RunPc, ProvisionPc
    <2>2. CASE ~Move(r, "connect", "pfail")
      <3>1. Active(r)
        BY <1>11, <2>2 DEF PConnect, At, Active
      <3>2. RunOK
        BY <1>0, <1>11, <2>2, <3>1
           DEF PConnect, Typed, TypeOK, BusyHaveInstance, Active, Run, RunPc, ProvisionPc
      <3>3. QED
        BY <1>11, <2>2, <3>2 DEF PConnect, Typed, TypeOK, BusyHaveInstance, Active
    <2>3. QED
      BY <2>1, <2>2
  <1>12. CASE ULink(r) \/ PLink(r)
    <2>1. Active(r)
      BY <1>12 DEF ULink, PLink, At, Active
    <2>2. RunOK /\ link' \in SUBSET Instances
      BY <1>0, <1>12, <2>1, GotoType
         DEF ULink, PLink, Upsert, Typed, TypeOK, RunPc, UpdatePc, ProvisionPc, ReconcilePc
    <2>3. QED
      BY <1>12, <2>2 DEF ULink, PLink, Typed, TypeOK, BusyHaveInstance, Active
  <1>13. CASE Release(r)
    BY <1>13, IdleTypes DEF Release, Typed, TypeOK, BusyHaveInstance, Active, IdleRun
  <1>14. QED
    BY <1>2, <1>3, <1>4, <1>5, <1>7, <1>8, <1>9, <1>10, <1>11, <1>12, <1>13 DEF RunStep

\* Any other step that writes row i and leaves the calls and requests alone.
LEMMA RowWriteTyped ==
  ASSUME Typed, NEW i \in Instances, NEW row \in Row, Put(i, row),
         UNCHANGED <<link, infra, inProgress, run, req>>,
         poll' \in [Instances -> {"idle", "probe", "verify"}],
         orphan' \in [Instances -> {"idle", "missing", "broken"}],
         stuck' \in SUBSET Instances, left' \in [EnvKinds -> Nat]
  PROVE  Typed'
  <1>1. db' \in [Instances -> Row]
    BY PutType DEF Typed
  <1>2. QED
    BY <1>1 DEF Typed, TypeOK, BusyHaveInstance, Active

LEMMA StatusRows ==
  ASSUME TypeOK, NEW i \in Instances, NEW s \in Status
  PROVE  /\ [db[i] EXCEPT !.status = s] \in Row
         /\ \A h \in Hashes : /\ [db[i] EXCEPT !.status = s, !.want = h] \in Row
                              /\ [db[i] EXCEPT !.want = h] \in Row
         /\ [db[i] EXCEPT !.errs = 0] \in Row
         /\ [db[i] EXCEPT !.status = s, !.reconciled = TRUE] \in Row
         /\ [db[i] EXCEPT !.status = s, !.errs = Bump(@)] \in Row
  <1>1. db[i] \in Row /\ 0 \in 0..ErrCap /\ Bump(db[i].errs) \in 0..ErrCap
    BY BumpType, ErrAssumption DEF TypeOK, Row
  <1>2. QED
    BY <1>1 DEF Row

LEMMA ReqStepTyped ==
  ASSUME Typed, NEW q \in Requests, ReqStep(q)
  PROVE  Typed'
  <1> USE DEF watchers
  <1> DEFINE i == req[q].inst
             ReqOK == /\ req' \in [Requests -> Request]
                      /\ \A x \in Requests : req'[x].pc # "idle" => req'[x].inst \in Instances
  <1>1. /\ req[q] \in Request
        /\ i \in Instances
        /\ db[i] \in Row
        /\ infra[i] \in Infra
    BY DEF Typed, TypeOK, BusyHaveInstance, ReqStep, Destroy, Unlink, MarkDeleting,
           FinishStop, FinishDelete, UpgradeRestart, UpgradeSave, ReqAt
  <1>2. ReqOK
    <2>1. ASSUME NEW pc \in {"unlink", "mark", "finish", "running"}, ReqGoto(q, pc)
          PROVE  ReqOK
      BY <1>1, <2>1 DEF ReqGoto, Typed, TypeOK, BusyHaveInstance, Request
    <2>2. ASSUME ReqDone(q) PROVE ReqOK
      BY <2>2, IdleTypes DEF ReqDone, Typed, TypeOK, BusyHaveInstance, IdleRequest
    <2>3. QED
      BY <2>1, <2>2 DEF ReqStep, Destroy, Unlink, MarkDeleting, FinishStop, FinishDelete,
                        UpgradeRestart, UpgradeSave, ReqUpdate
  <1>3. db' \in [Instances -> Row]
    <2>1. ASSUME NEW row \in Row, Put(i, row)
          PROVE  db' \in [Instances -> Row]
      BY <1>1, <2>1, PutType DEF Typed
    <2>2. /\ [db[i] EXCEPT !.status = "DELETING"] \in Row
          /\ [db[i] EXCEPT !.status = "STOPPED"] \in Row
          /\ [db[i] EXCEPT !.status = "GONE"] \in Row
          /\ [db[i] EXCEPT !.status = "RUNNING", !.reconciled = TRUE] \in Row
      BY <1>1, StatusRows, ZenonT(30) DEF Typed, Row, Status, Stored
    <2>3. QED
      BY <2>1, <2>2 DEF ReqStep, Destroy, Unlink, MarkDeleting, FinishStop, FinishDelete,
                        UpgradeRestart, UpgradeSave, ReqUpdate, Typed, TypeOK
  <1>4. infra' \in [Instances -> Infra] /\ left' \in [EnvKinds -> Nat]
    <2>1. CASE TearDown(i)
      BY <1>1, <2>1, TearDownType
    <2>2. CASE UpgradeRestart(q)
      BY <1>1, <2>2 DEF UpgradeRestart, Typed, TypeOK, Infra
    <2>3. CASE UNCHANGED <<infra, left>>
      BY <2>3 DEF Typed, TypeOK
    <2>4. QED
      BY <2>1, <2>2, <2>3 DEF ReqStep, Destroy, Unlink, MarkDeleting, FinishStop,
                              FinishDelete, UpgradeSave
  <1>5. link' \in SUBSET Instances /\ UNCHANGED <<inProgress, run, poll, orphan, stuck>>
    BY <1>1 DEF ReqStep, Destroy, Unlink, MarkDeleting, FinishStop, FinishDelete,
           UpgradeRestart, UpgradeSave, Typed, TypeOK
  <1>6. QED
    BY <1>2, <1>3, <1>4, <1>5 DEF Typed, TypeOK, BusyHaveInstance, Active

LEMMA UserStepTyped ==
  ASSUME Typed, NEW i \in Instances, UserStep(i)
  PROVE  Typed'
  <1> USE DEF watchers
  <1>1. ASSUME NEW k \in EnvKinds, NEW row \in Row, SetRow(i, k, row)
        PROVE  Typed'
    BY <1>1, RowWriteTyped, SpendType DEF SetRow, Typed, TypeOK
  <1>2. CASE Create(i)
    BY <1>2, RowWriteTyped, StatusRows DEF Create, Typed, TypeOK, Status, Stored
  <1>3. CASE UpdateManifest(i)
    BY <1>1, <1>3, StatusRows DEF UpdateManifest, Typed, EnvKinds, Status, Stored
  <1>4. CASE Restart(i)
    <2>1. [db[i] EXCEPT !.status = "RECONCILING", !.reconciled = TRUE] \in Row
      BY StatusRows DEF Typed, Status, Stored
    <2>2. QED
      BY <1>1, <1>4, <2>1 DEF Restart, EnvKinds
  <1>5. CASE Pause(i) \/ Resume(i)
    <2>1. /\ [db[i] EXCEPT !.status = "PAUSED"] \in Row
          /\ [db[i] EXCEPT !.status = "PENDING"] \in Row
      BY StatusRows DEF Typed, Status, Stored
    <2>2. QED
      BY <1>1, <1>5, <2>1 DEF Pause, Resume, EnvKinds
  <1>6. QED
    BY <1>2, <1>3, <1>4, <1>5 DEF UserStep

LEMMA SchedulerStepTyped ==
  ASSUME Typed, NEW i \in Instances, SchedulerStep(i)
  PROVE  Typed'
  <1>1. /\ [db[i] EXCEPT !.errs = 0] \in Row
        /\ [db[i] EXCEPT !.errs = Bump(@)] \in Row
        /\ [db[i] EXCEPT !.status = "STOPPED"] \in Row
        /\ [db[i] EXCEPT !.status = "ERROR"] \in Row
        /\ [db[i] EXCEPT !.status = "ERROR", !.errs = Bump(@)] \in Row
    <2>1. NoHash \in MaybeHash /\ {"STOPPED", "ERROR"} \subseteq Status
      BY DEF MaybeHash, Status, Stored
    <2>2. QED
      BY <2>1, RowTypes, StatusRows DEF Typed
  <1>2. CASE PollStart(i)
    <2>1. left' \in [EnvKinds -> Nat]
      BY <1>2, SpendType DEF PollStart, Typed, EnvKinds
    <2>2. QED
      BY <1>2, <2>1 DEF PollStart, Typed, TypeOK, BusyHaveInstance, Active
  <1>3. CASE PollStep(i)
    <2>1. CASE UNCHANGED db
      BY <1>3, <2>1 DEF PollStep, PollHealthy, PollUnreachable, PollVerify, Typed, TypeOK,
                       BusyHaveInstance, Active
    <2>2. CASE ~UNCHANGED db
      BY <1>1, <1>3, <2>2, RowWriteTyped
         DEF PollStep, PollHealthy, PollUnreachable, PollVerify, Typed, TypeOK
    <2>3. QED
      BY <2>1, <2>2
  <1>4. CASE OrphanProbe(i)
    <2>1. left' \in [EnvKinds -> Nat]
      BY <1>4, SpendType DEF OrphanProbe, Typed, EnvKinds
    <2>2. QED
      BY <1>4, <2>1 DEF OrphanProbe, Typed, TypeOK, BusyHaveInstance, Active
  <1>5. CASE OrphanMark(i)
    <2>1. CASE UNCHANGED db
      BY <1>5, <2>1 DEF OrphanMark, Typed, TypeOK, BusyHaveInstance, Active
    <2>2. CASE ~UNCHANGED db
      BY <1>1, <1>5, <2>2, RowWriteTyped DEF OrphanMark, Typed, TypeOK
    <2>3. QED
      BY <2>1, <2>2
  <1>6. CASE StuckMark(i)
    <2>1. CASE UNCHANGED db
      BY <1>6, <2>1 DEF StuckMark, Typed, TypeOK, BusyHaveInstance, Active
    <2>2. CASE ~UNCHANGED db
      BY <1>1, <1>6, <2>2, RowWriteTyped DEF StuckMark, Typed, TypeOK
    <2>3. QED
      BY <2>1, <2>2
  <1>7. QED
    BY <1>2, <1>3, <1>4, <1>5, <1>6 DEF SchedulerStep

LEMMA WorldStepTyped ==
  ASSUME Typed, NEW i \in Instances, WorldStep(i)
  PROVE  Typed'
  <1> USE DEF watchers
  <1>1. CASE Age(i)
    <2>1. db' \in [Instances -> Row]
      BY <1>1, ZenonT(30) DEF Age, Typed, TypeOK, Row
    <2>2. QED
      BY <1>1, <2>1 DEF Age, Typed, TypeOK, BusyHaveInstance, Active
  <1>2. ASSUME NEW k \in EnvKinds, NEW new \in Infra, World(k, i, new)
        PROVE  Typed'
    BY <1>2, SpendType DEF World, Typed, TypeOK, BusyHaveInstance, Active
  <1>3. CASE Drift(i)
    BY <1>2, <1>3 DEF Drift, Typed, TypeOK, Infra, MaybeHash, EnvKinds
  <1>4. CASE Outage(i)
    BY <1>2, <1>4 DEF Outage, Typed, TypeOK, Infra, EnvKinds
  <1>5. CASE Revive(i)
    BY <1>2, <1>5 DEF Revive, Typed, TypeOK, Infra, EnvKinds
  <1>6. QED
    BY <1>1, <1>3, <1>4, <1>5 DEF WorldStep

-----------------------------------------------------------------------------
\* Every reachable state is well typed, and whatever is in flight is about an
\* instance of the system.
THEOREM TypeCorrect == Spec => []Typed
  <1>1. Init => Typed
    BY IdleTypes, BudgetAssumption, ErrAssumption
       DEF Init, Typed, TypeOK, BusyHaveInstance, Active, Row, Infra, Status, MaybeHash,
           IdleRun, IdleRequest
  <1>2. Typed /\ [Next]_vars => Typed'
    <2> SUFFICES ASSUME Typed, [Next]_vars PROVE Typed'
      OBVIOUS
    <2>1. ASSUME NEW r \in Runs, NEW i \in Instances, Call(r, i)
          PROVE  Typed'
      <3>1. /\ run' \in [Runs -> Run]
            /\ \A s \in Runs : run'[s].pc # "idle" => run'[s].inst \in Instances
        BY <2>1, IdleTypes DEF Call, Typed, TypeOK, BusyHaveInstance, Active, Run, RunPc,
                               ReconcilePc
      <3>2. QED
        BY <2>1, <3>1 DEF Call, Typed, TypeOK, BusyHaveInstance, Active, watchers
    <2>2. ASSUME NEW q \in Requests, NEW i \in Instances, NEW k \in RequestKinds, Ask(q, i, k)
          PROVE  Typed'
      <3>1. [pc |-> FirstStep(i, k), inst |-> i, kind |-> k] \in Request
        BY DeploymentAssumption DEF FirstStep, Request
      <3>2. left' \in [EnvKinds -> Nat]
        BY <2>2, SpendType DEF Ask, Typed, EnvKinds
      <3>3. db' \in [Instances -> Row]
        <4>1. CASE Put(i, db[i])
          BY <4>1, PutType DEF Typed, TypeOK
        <4>2. CASE UNCHANGED db
          BY <4>2 DEF Typed, TypeOK
        <4>3. QED
          BY <2>2, <4>1, <4>2 DEF Ask
      <3>4. QED
        BY <2>2, <3>1, <3>2, <3>3 DEF Ask, Typed, TypeOK, BusyHaveInstance, Active, watchers
    <2>3. CASE StuckScan
      BY <2>3 DEF StuckScan, Typed, TypeOK, BusyHaveInstance, Active
    <2>4. CASE Crash
      <3>1. left' \in [EnvKinds -> Nat]
        BY <2>4, SpendType DEF Crash, Typed, EnvKinds
      <3>2. QED
        BY <2>4, <3>1, IdleTypes
           DEF Crash, Typed, TypeOK, BusyHaveInstance, Active, IdleRun, IdleRequest
    <2>5. CASE UNCHANGED vars
      BY <2>5 DEF vars, watchers, Typed, TypeOK, BusyHaveInstance, Active
    <2>6. QED
      BY <2>1, <2>2, <2>3, <2>4, <2>5, RunStepTyped, ReqStepTyped, UserStepTyped,
         SchedulerStepTyped, WorldStepTyped DEF Next
  <1>3. QED
    BY <1>1, <1>2, PTL DEF Spec

-----------------------------------------------------------------------------
(* The in-progress guard *)

\* TypeOK alone is not inductive enough for the guard, and the guard's two
\* halves need each other: a call is admitted because the set is exact, and
\* the set stays exact at a release because no second call works on the id.
Guarded == Typed /\ GuardExact /\ OneRunPerInstance

\* The step neither starts nor ends a call, nor moves one to another instance.
SameWork ==
  /\ inProgress' = inProgress
  /\ \A s \in Runs : run'[s].inst = run[s].inst /\ (Active(s)' <=> Active(s))

LEMMA SameWorkKeepsGuard ==
  ASSUME GuardExact, OneRunPerInstance, SameWork
  PROVE  GuardExact' /\ OneRunPerInstance'
  BY DEF GuardExact, OneRunPerInstance, SameWork, Active

LEMMA RunStepSameWork ==
  ASSUME Typed, NEW r \in Runs, RunStep(r), ~Release(r)
  PROVE  SameWork
  <1>0. run \in [Runs -> Run]
    BY DEF Typed, TypeOK
  <1>1. Active(r)
    BY DEF RunStep, Load, Mark, Check, Refetch, Save, Fail, UpdateTrusted, UpdateGet, Adopt,
           Apply, Persist, USave, ULink, UFail, PDestroy, PConfigure, PStart, PConnect,
           PSave, PLink, PFail, FastPath, SlowPath, Move, At, Active
  <1>2. inProgress' = inProgress
    BY DEF RunStep, Load, Mark, Check, Refetch, Save, Fail, UpdateTrusted, UpdateGet, Adopt,
           Apply, Persist, USave, ULink, UFail, PDestroy, PConfigure, PStart, PConnect,
           PSave, PLink, PFail, Move
  <1>3. ASSUME NEW new \in Run, new.pc # "idle", new.inst = run[r].inst,
               run' = [run EXCEPT ![r] = new]
        PROVE  SameWork
    BY <1>0, <1>1, <1>2, <1>3 DEF SameWork, Active
  <1>4. ASSUME NEW pc \in RunPc, Goto(r, pc)
        PROVE  SameWork
    BY <1>0, <1>1, <1>2, <1>4 DEF SameWork, Active, Goto, Run, RunPc, UpdatePc, ProvisionPc,
                                  ReconcilePc
  <1> USE DEF RunPc, UpdatePc, ProvisionPc, ReconcilePc
  <1>5. CASE Load(r) \/ UpdateGet(r) \/ Adopt(r) \/ Apply(r) \/ PConnect(r)
    <2>1. CASE Load(r)
      BY <1>0, <1>1, <1>2, <1>4, <2>1, SMTT(30) DEF Load, SameWork, Active, Run
    <2>2. CASE UpdateGet(r)
      BY <1>0, <1>1, <1>2, <1>4, <2>2 DEF UpdateGet, SameWork, Active, Run
    <2>3. CASE Adopt(r)
      BY <1>0, <1>1, <1>2, <1>4, <2>3 DEF Adopt, SameWork, Active, Run
    <2>4. CASE Apply(r)
      BY <1>0, <1>1, <1>2, <1>4, <2>4 DEF Apply, SameWork, Active, Run
    <2>5. CASE PConnect(r)
      BY <1>0, <1>1, <1>2, <1>4, <2>5 DEF PConnect, Move, SameWork, Active, Run
    <2>6. QED
      BY <1>5, <2>1, <2>2, <2>3, <2>4, <2>5
  <1>6. CASE Check(r) \/ Refetch(r) \/ UpdateTrusted(r)
    BY <1>4, <1>6 DEF Check, Refetch, UpdateTrusted, Move
  <1>7. CASE Mark(r) \/ Save(r) \/ Fail(r) \/ USave(r) \/ UFail(r) \/ PSave(r) \/ PFail(r)
    BY <1>4, <1>7 DEF Mark, Save, Fail, USave, UFail, PSave, PFail, Update
  <1>8. CASE Persist(r) \/ ULink(r) \/ PLink(r) \/ PDestroy(r) \/ PConfigure(r) \/ PStart(r)
    BY <1>4, <1>8 DEF Persist, ULink, PLink, PDestroy, PConfigure, PStart, Upsert
  <1>9. QED
    BY <1>5, <1>6, <1>7, <1>8 DEF RunStep

\* Every other step leaves the calls alone, except Call and Crash.
LEMMA OtherStepSameWork ==
  ASSUME \/ \E q \in Requests : ReqStep(q)
         \/ \E q \in Requests, i \in Instances, k \in RequestKinds : Ask(q, i, k)
         \/ \E i \in Instances : UserStep(i) \/ SchedulerStep(i) \/ WorldStep(i)
         \/ StuckScan
         \/ UNCHANGED vars
  PROVE  SameWork /\ UNCHANGED run
  <1> SUFFICES UNCHANGED <<inProgress, run>>
    BY DEF SameWork, Active
  <1>1. ASSUME NEW q \in Requests, ReqStep(q) PROVE UNCHANGED <<inProgress, run>>
    BY <1>1 DEF ReqStep, Destroy, Unlink, MarkDeleting, FinishStop, FinishDelete,
                UpgradeRestart, UpgradeSave
  <1>2. ASSUME NEW i \in Instances, UserStep(i) PROVE UNCHANGED <<inProgress, run>>
    BY <1>2 DEF UserStep, Create, UpdateManifest, Restart, Pause, Resume, SetRow
  <1>3. ASSUME NEW i \in Instances, SchedulerStep(i) PROVE UNCHANGED <<inProgress, run>>
    BY <1>3 DEF SchedulerStep, PollStart, PollStep, PollHealthy, PollUnreachable,
                PollVerify, OrphanProbe, OrphanMark, StuckMark
  <1>4. ASSUME NEW i \in Instances, WorldStep(i) PROVE UNCHANGED <<inProgress, run>>
    BY <1>4 DEF WorldStep, Age, Drift, Outage, Revive, World
  <1>5. QED
    BY <1>1, <1>2, <1>3, <1>4 DEF Ask, StuckScan, vars

LEMMA CallGuarded ==
  ASSUME Guarded, NEW r \in Runs, NEW i \in Instances, Call(r, i)
  PROVE  GuardExact' /\ OneRunPerInstance'
  <1>1. /\ run \in [Runs -> Run]
        /\ ~Active(r)
        /\ \A s \in Runs : Active(s) => run[s].inst # i
    BY DEF Guarded, Typed, TypeOK, GuardExact, Call, Admitted, At, Active
  <1>2. /\ run'[r].inst = i /\ Active(r)'
        /\ \A s \in Runs \ {r} : run'[s] = run[s]
    BY <1>1 DEF Call, IdleRun, Active
  <1>3. inProgress' = inProgress \cup {i}
    BY DEF Call
  <1>4. QED
    BY <1>1, <1>2, <1>3 DEF Guarded, GuardExact, OneRunPerInstance, Active

LEMMA ReleaseGuarded ==
  ASSUME Guarded, NEW r \in Runs, Release(r)
  PROVE  GuardExact' /\ OneRunPerInstance'
  <1>1. /\ run \in [Runs -> Run]
        /\ Active(r)
        /\ \A s \in Runs \ {r} : Active(s) => run[s].inst # run[r].inst
    BY DEF Guarded, Typed, TypeOK, OneRunPerInstance, Release, At, Active
  <1>2. /\ ~Active(r)'
        /\ \A s \in Runs \ {r} : run'[s] = run[s]
    BY <1>1 DEF Release, IdleRun, Active
  <1>3. inProgress' = inProgress \ {run[r].inst}
    BY DEF Release
  <1>4. QED
    BY <1>1, <1>2, <1>3 DEF Guarded, GuardExact, OneRunPerInstance, Active

LEMMA CrashGuarded ==
  ASSUME Crash
  PROVE  GuardExact' /\ OneRunPerInstance' /\ \A s \in Runs : ~Active(s)'
  BY DEF Crash, GuardExact, OneRunPerInstance, Active, IdleRun

\* In every reachable state reconcileInProgress holds exactly the ids being
\* worked on, one call each: reconcile()'s guard and its finally block are
\* enough, for any number of calls, instances and restarts.
THEOREM GuardCorrect == Spec => []Guarded
  <1>1. Init => GuardExact /\ OneRunPerInstance
    BY DEF Init, GuardExact, OneRunPerInstance, Active, IdleRun
  <1>2. Guarded /\ [Next]_vars => GuardExact' /\ OneRunPerInstance'
    <2> SUFFICES ASSUME Guarded, [Next]_vars PROVE GuardExact' /\ OneRunPerInstance'
      OBVIOUS
    <2>1. ASSUME NEW r \in Runs, RunStep(r) PROVE GuardExact' /\ OneRunPerInstance'
      BY <2>1, RunStepSameWork, SameWorkKeepsGuard, ReleaseGuarded DEF Guarded
    <2>2. ASSUME NEW r \in Runs, NEW i \in Instances, Call(r, i)
          PROVE  GuardExact' /\ OneRunPerInstance'
      BY <2>2, CallGuarded
    <2>3. ASSUME SameWork PROVE GuardExact' /\ OneRunPerInstance'
      BY <2>3, SameWorkKeepsGuard DEF Guarded
    <2>4. QED
      BY <2>1, <2>2, <2>3, OtherStepSameWork, CrashGuarded DEF Next
  <1>3. QED
    BY <1>1, <1>2, TypeCorrect, PTL DEF Spec, Guarded

\* The same, by the names the runs check.
COROLLARY TypesAndGuard == Spec => [](TypeOK /\ OneRunPerInstance /\ GuardExact)
  BY GuardCorrect, PTL DEF Guarded, Typed

\* Each step of the control plane is, for its calls, a take, a drop, a restart
\* that drops everything, or no change.
THEOREM GuardImplementsExclusiveWork == Spec => ImplementsExclusiveWork
  <1> DEFINE work == {<<r, run[r].inst>> : r \in {s \in Runs : Active(s)}}
  <1>1. Init => work = {}
    BY DEF Init, Active, IdleRun
  <1>2. Guarded /\ [Next]_vars => [Work!Next]_work
    <2> SUFFICES ASSUME Guarded, [Next]_vars PROVE [Work!Next]_work
      OBVIOUS
    <2>1. ASSUME SameWork PROVE work' = work
      BY <2>1 DEF SameWork, Active
    <2>2. ASSUME NEW r \in Runs, Release(r) PROVE Work!Next
      <3>1. run \in [Runs -> Run] /\ Active(r) /\ run[r].inst \in Instances
        BY <2>2 DEF Guarded, Typed, TypeOK, BusyHaveInstance, Release, At, Active
      <3>2. ~Active(r)' /\ \A s \in Runs \ {r} : run'[s] = run[s]
        BY <2>2, <3>1 DEF Release, IdleRun, Active
      <3>3. work' = work \ {<<r, run[r].inst>>}
        BY <3>1, <3>2 DEF Active
      <3>4. QED
        BY <3>1, <3>3 DEF Work!Next, Work!Drop
    <2>3. ASSUME NEW r \in Runs, NEW i \in Instances, Call(r, i) PROVE Work!Next
      <3>1. /\ run \in [Runs -> Run]
            /\ ~Active(r)
            /\ \A s \in Runs : Active(s) => run[s].inst # i
        BY <2>3 DEF Guarded, Typed, TypeOK, GuardExact, Call, Admitted, At, Active
      <3>2. /\ run'[r].inst = i /\ Active(r)'
            /\ \A s \in Runs \ {r} : run'[s] = run[s]
        BY <2>3, <3>1 DEF Call, IdleRun, Active
      <3>3. work' = work \cup {<<r, i>>}
        BY <3>1, <3>2 DEF Active
      <3>4. QED
        BY <3>1, <3>3 DEF Work!Next, Work!Take
    <2>4. ASSUME Crash PROVE Work!Next
      BY <2>4, CrashGuarded DEF Work!Next, Work!DropAll
    <2>5. QED
      BY <2>1, <2>2, <2>3, <2>4, RunStepSameWork, OtherStepSameWork DEF Next, Guarded
  <1>3. QED
    BY <1>1, <1>2, GuardCorrect, PTL DEF Spec, ImplementsExclusiveWork, Work!Spec, Work!Init

-----------------------------------------------------------------------------
(* The row of an instance *)

\* What the rows written by a call keep and change: it never writes a row of
\* an instance it is not about, deletes none, and gives a hash only to a row
\* it has marked (adopt, usave) or sets to RUNNING.
LEMMA RunWritesRow ==
  ASSUME Typed, NEW r \in Runs, RunStep(r), ~UNCHANGED db
  PROVE  /\ Active(r) /\ run[r].inst \in Instances /\ Present(run[r].inst)
         /\ UNCHANGED <<link, infra, left>>
         /\ \A j \in Instances \ {run[r].inst} : db'[j] = db[j]
         /\ db'[run[r].inst].status \in {db[run[r].inst].status, "RECONCILING", "RUNNING", "ERROR"}
         /\ \/ db'[run[r].inst].hash = db[run[r].inst].hash
            \/ db'[run[r].inst].status = "RUNNING"
            \/ run[r].pc \in {"adopt", "usave"}
  <1> DEFINE i == run[r].inst
  <1>1. \/ Mark(r) \/ Save(r) \/ Fail(r) \/ USave(r) \/ UFail(r) \/ PSave(r) \/ PFail(r)
        \/ Adopt(r)
    BY DEF RunStep, Load, Check, Refetch, Release, UpdateTrusted, UpdateGet, Apply, Persist,
           ULink, PLink, PDestroy, PConfigure, PStart, PConnect, Move
  <1>2. Active(r) /\ UNCHANGED <<link, infra, left>> /\ Present(i)
    BY <1>1 DEF Mark, Save, Fail, USave, UFail, PSave, PFail, Adopt, Update, At, Active
  <1>3. i \in Instances /\ db \in [Instances -> Row] /\ db[i] \in Row
    BY <1>2 DEF Typed, TypeOK, BusyHaveInstance
  <1>4. CASE Mark(r)
    <2>1. Put(i, [db[i] EXCEPT !.status = "RECONCILING"])
      BY <1>2, <1>4 DEF Mark, Update
    <2>2. QED
      BY <1>2, <1>3, <2>1 DEF Put, Row
  <1>5. CASE Save(r) \/ PSave(r)
    <2>1. Put(i, [db[i] EXCEPT !.status = "RUNNING", !.hash = run[r].goal,
                               !.reconciled = TRUE, !.errs = 0])
      BY <1>2, <1>5 DEF Save, PSave, Update
    <2>2. QED
      BY <1>2, <1>3, <2>1 DEF Put, Row
  <1>6. CASE Fail(r)
    <2>1. Put(i, [db[i] EXCEPT !.status = "ERROR", !.reconciled = TRUE, !.errs = Bump(@)])
      BY <1>2, <1>6 DEF Fail, Update
    <2>2. QED
      BY <1>2, <1>3, <2>1 DEF Put, Row
  <1>7. CASE PFail(r)
    <2>1. Put(i, [db[i] EXCEPT !.status = "ERROR", !.errs = Bump(@)])
      BY <1>2, <1>7 DEF PFail, Update
    <2>2. QED
      BY <1>2, <1>3, <2>1 DEF Put, Row
  <1>8. CASE UFail(r)
    <2>1. Put(i, [db[i] EXCEPT !.errs = Bump(@)])
      BY <1>2, <1>8 DEF UFail, Update
    <2>2. QED
      BY <1>2, <1>3, <2>1 DEF Put, Row
  <1>9. CASE USave(r)
    <2>1. At(r, "usave") /\ Put(i, [db[i] EXCEPT !.hash = run[r].goal, !.reconciled = TRUE])
      BY <1>2, <1>9 DEF USave, Update
    <2>2. QED
      BY <1>2, <1>3, <2>1 DEF Put, Row, At
  <1>10. CASE Adopt(r)
    <2>1. At(r, "adopt") /\ Put(i, [db[i] EXCEPT !.hash = run[r].goal])
      BY <1>2, <1>10 DEF Adopt
    <2>2. QED
      BY <1>2, <1>3, <2>1 DEF Put, Row, At
  <1>11. QED
    BY <1>1, <1>4, <1>5, <1>6, <1>7, <1>8, <1>9, <1>10

\* The same of a row written by anything but a call: it never changes the
\* hash, deletes a row only at the end of a delete request, which takes the
\* connection row along, and sets CREATING on a row that never was created.
LEMMA OthersWriteRow ==
  ASSUME Typed, NEW i \in Instances,
         \/ \E q \in Requests : ReqStep(q) /\ i = req[q].inst
         \/ \E q \in Requests, k \in RequestKinds : Ask(q, i, k)
         \/ UserStep(i) \/ SchedulerStep(i) \/ WorldStep(i),
         ~UNCHANGED db
  PROVE  /\ Present(i) \/ db[i].status = "NONE"
         /\ \A j \in Instances \ {i} : db'[j] = db[j]
         /\ db'[i].hash = db[i].hash
         /\ db'[i].status = "GONE" => link' = link \ {i}
         /\ db'[i].status # "GONE" => link' = link
         /\ db'[i].status \in {"NONE", "CREATING"} => db[i].status \in {"NONE", "CREATING"}
  <1> DEFINE Goal == /\ Present(i) \/ db[i].status = "NONE"
                     /\ \A j \in Instances \ {i} : db'[j] = db[j]
                     /\ db'[i].hash = db[i].hash
                     /\ db'[i].status = "GONE" => link' = link \ {i}
                     /\ db'[i].status # "GONE" => link' = link
                     /\ db'[i].status \in {"NONE", "CREATING"} => db[i].status \in {"NONE", "CREATING"}
  <1>1. db \in [Instances -> Row] /\ db[i] \in Row
    BY DEF Typed, TypeOK
  <1>3. ASSUME NEW q \in Requests, ReqStep(q), i = req[q].inst PROVE Goal
    <2>1. CASE MarkDeleting(q)
      <3>1. Present(i) /\ UNCHANGED link /\ Put(i, [db[i] EXCEPT !.status = "DELETING"])
        BY <1>3, <2>1 DEF MarkDeleting, ReqUpdate
      <3>2. QED
        BY <1>1, <3>1 DEF Put, Row
    <2>2. CASE FinishStop(q)
      <3>1. Present(i) /\ UNCHANGED link /\ Put(i, [db[i] EXCEPT !.status = "STOPPED"])
        BY <1>3, <2>2 DEF FinishStop, ReqUpdate
      <3>2. QED
        BY <1>1, <3>1 DEF Put, Row
    <2>3. CASE FinishDelete(q)
      <3>1. Present(i) /\ link' = link \ {i} /\ Put(i, [db[i] EXCEPT !.status = "GONE"])
        BY <1>3, <2>3 DEF FinishDelete, ReqUpdate
      <3>2. QED
        BY <1>1, <3>1 DEF Put, Row
    <2>4. CASE UpgradeSave(q)
      <3>1. /\ Present(i) /\ UNCHANGED link
            /\ Put(i, [db[i] EXCEPT !.status = "RUNNING", !.reconciled = TRUE])
        BY <1>3, <2>4 DEF UpgradeSave, ReqUpdate
      <3>2. QED
        BY <1>1, <3>1 DEF Put, Row
    <2>5. QED
      BY <1>3, <2>1, <2>2, <2>3, <2>4 DEF ReqStep, Destroy, Unlink, UpgradeRestart
  <1>4. ASSUME NEW q \in Requests, NEW k \in RequestKinds, Ask(q, i, k) PROVE Goal
    <2>1. Present(i) /\ UNCHANGED link /\ Put(i, db[i])
      BY <1>4 DEF Ask
    <2>2. QED
      BY <1>1, <2>1 DEF Put, Row, Present, Stored
  <1>5. CASE UserStep(i)
    <2>1. CASE Create(i)
      <3>1. /\ db[i].status = "NONE" /\ UNCHANGED link
            /\ \E h : Put(i, [db[i] EXCEPT !.status = "CREATING", !.want = h])
        BY <2>1 DEF Create
      <3>2. QED
        BY <1>1, <3>1 DEF Put, Row
    <2>2. CASE UpdateManifest(i)
      <3>1. Present(i) /\ UNCHANGED link /\ \E h : Put(i, [db[i] EXCEPT !.want = h])
        BY <2>2 DEF UpdateManifest, SetRow
      <3>2. QED
        BY <1>1, <3>1 DEF Put, Row, Present, Stored
    <2>3. CASE Restart(i)
      <3>1. /\ Present(i) /\ UNCHANGED link
            /\ Put(i, [db[i] EXCEPT !.status = "RECONCILING", !.reconciled = TRUE])
        BY <2>3 DEF Restart, SetRow
      <3>2. QED
        BY <1>1, <3>1 DEF Put, Row
    <2>4. CASE Pause(i) \/ Resume(i)
      <3>1. /\ Present(i) /\ UNCHANGED link
            /\ \E st \in {"PAUSED", "PENDING"} : Put(i, [db[i] EXCEPT !.status = st])
        BY <2>4 DEF Pause, Resume, SetRow
      <3>2. QED
        BY <1>1, <3>1 DEF Put, Row
    <2>5. QED
      BY <1>5, <2>1, <2>2, <2>3, <2>4 DEF UserStep
  <1>6. CASE SchedulerStep(i)
    <2>1. CASE PollHealthy(i)
      <3>1. Present(i) /\ UNCHANGED link /\ Put(i, [db[i] EXCEPT !.errs = 0])
        BY <2>1 DEF PollHealthy
      <3>2. QED
        BY <1>1, <3>1 DEF Put, Row, Present, Stored
    <2>2. CASE PollUnreachable(i)
      <3>1. Present(i) /\ UNCHANGED link /\ Put(i, [db[i] EXCEPT !.errs = Bump(@)])
        BY <2>2 DEF PollUnreachable
      <3>2. QED
        BY <1>1, <3>1 DEF Put, Row, Present, Stored
    <2>3. CASE PollVerify(i)
      <3>1. Present(i) /\ UNCHANGED link /\ Put(i, [db[i] EXCEPT !.status = "STOPPED"])
        BY <2>3 DEF PollVerify
      <3>2. QED
        BY <1>1, <3>1 DEF Put, Row
    <2>4. CASE OrphanMark(i)
      <3>1. /\ Present(i) /\ UNCHANGED link
            /\ \E st \in {"STOPPED", "ERROR"} : Put(i, [db[i] EXCEPT !.status = st])
        BY <2>4 DEF OrphanMark
      <3>2. QED
        BY <1>1, <3>1 DEF Put, Row
    <2>5. CASE StuckMark(i)
      <3>1. /\ Present(i) /\ UNCHANGED link
            /\ Put(i, [db[i] EXCEPT !.status = "ERROR", !.errs = Bump(@)])
        BY <2>5 DEF StuckMark
      <3>2. QED
        BY <1>1, <3>1 DEF Put, Row
    <2>6. QED
      BY <1>6, <2>1, <2>2, <2>3, <2>4, <2>5 DEF SchedulerStep, PollStep, PollStart, OrphanProbe
  <1>7. CASE WorldStep(i)
    <2>1. Age(i)
      BY <1>7 DEF WorldStep, Drift, Outage, Revive, World
    <2>2. QED
      BY <1>1, <2>1 DEF Age, Transient, Present, Stored, Row
  <1>8. QED
    BY <1>3, <1>4, <1>5, <1>6, <1>7

\* The remaining steps leave rows and connection rows alone.
LEMMA RowOrNot ==
  ASSUME Typed, [Next]_vars, ~UNCHANGED db
  PROVE  \/ \E r \in Runs : RunStep(r)
         \/ \E i \in Instances :
              \/ \E q \in Requests : ReqStep(q) /\ i = req[q].inst
              \/ \E q \in Requests, k \in RequestKinds : Ask(q, i, k)
              \/ UserStep(i) \/ SchedulerStep(i) \/ WorldStep(i)
  <1>1. ASSUME NEW q \in Requests, ReqStep(q) PROVE req[q].inst \in Instances
    BY <1>1 DEF Typed, BusyHaveInstance, ReqStep, Destroy, Unlink, MarkDeleting,
           FinishStop, FinishDelete, UpgradeRestart, UpgradeSave, ReqAt
  <1>2. ~UNCHANGED vars /\ ~StuckScan /\ ~Crash /\ \A r \in Runs, i \in Instances : ~Call(r, i)
    BY DEF StuckScan, Crash, Call, vars
  <1>3. QED
    BY <1>1, <1>2 DEF Next

-----------------------------------------------------------------------------
(* A deleted instance *)

GoneUnlinked == \A i \in Instances : db[i].status = "GONE" => i \notin link

\* Only an upsert for a present instance adds a connection row.
LEMMA LinksOfTheLiving ==
  ASSUME Typed, [Next]_vars, UNCHANGED db
  PROVE  \A i \in link' \ link : Present(i)
  <1>1. ASSUME NEW r \in Runs, RunStep(r) PROVE \A i \in link' \ link : Present(i)
    BY <1>1 DEF RunStep, Load, Mark, Check, Refetch, Save, Fail, Release, UpdateTrusted,
                UpdateGet, Adopt, Apply, Persist, USave, ULink, UFail, PDestroy, PConfigure,
                PStart, PConnect, PSave, PLink, PFail, Move, Upsert
  <1>2. ASSUME NEW q \in Requests, ReqStep(q) PROVE link' \subseteq link
    BY <1>2 DEF ReqStep, Destroy, Unlink, MarkDeleting, FinishStop, FinishDelete,
                UpgradeRestart, UpgradeSave
  <1>3. ASSUME NEW i \in Instances, UserStep(i) \/ SchedulerStep(i) \/ WorldStep(i)
        PROVE  link' = link
    BY <1>3 DEF UserStep, Create, UpdateManifest, Restart, Pause, Resume, SetRow,
                SchedulerStep, PollStart, PollStep, PollHealthy, PollUnreachable, PollVerify,
                OrphanProbe, OrphanMark, StuckMark, WorldStep, Age, Drift, Outage, Revive, World
  <1>4. QED
    BY <1>1, <1>2, <1>3 DEF Next, Call, Ask, StuckScan, Crash, vars

\* Deleting an instance is final, for any number of calls, requests and
\* restarts in flight: every write and every upsert of theirs needs the row.
THEOREM DeletionIsFinal == Spec => DeletedStaysDeleted
  <1>1. Init => GoneUnlinked
    BY DEF Init, GoneUnlinked
  <1>2. Typed /\ GoneUnlinked /\ [Next]_vars
          => /\ GoneUnlinked'
             /\ \A i \in Instances :
                  db[i].status = "GONE" => db'[i].status = "GONE" /\ i \notin link'
    <2> SUFFICES ASSUME Typed, GoneUnlinked, [Next]_vars, NEW i \in Instances
                 PROVE  /\ db[i].status = "GONE" => db'[i].status = "GONE" /\ i \notin link'
                        /\ db'[i].status = "GONE" => i \notin link'
      BY DEF GoneUnlinked
    <2>1. db[i].status = "GONE" => i \notin link /\ ~Present(i)
      BY DEF GoneUnlinked, Present, Stored
    <2>2. CASE UNCHANGED db
      BY <2>1, <2>2, LinksOfTheLiving
    <2>3. ASSUME NEW r \in Runs, RunStep(r), ~UNCHANGED db
          PROVE  /\ db[i].status = "GONE" => db'[i].status = "GONE" /\ i \notin link'
                 /\ db'[i].status = "GONE" => i \notin link'
      BY <2>1, <2>3, RunWritesRow DEF Present, Stored
    <2>4. ASSUME NEW j \in Instances, ~UNCHANGED db,
                 \/ \E q \in Requests : ReqStep(q) /\ j = req[q].inst
                 \/ \E q \in Requests, k \in RequestKinds : Ask(q, j, k)
                 \/ UserStep(j) \/ SchedulerStep(j) \/ WorldStep(j)
          PROVE  /\ db[i].status = "GONE" => db'[i].status = "GONE" /\ i \notin link'
                 /\ db'[i].status = "GONE" => i \notin link'
      <3>1. /\ Present(j) \/ db[j].status = "NONE"
            /\ \A l \in Instances \ {j} : db'[l] = db[l]
            /\ db'[j].status = "GONE" => link' = link \ {j}
            /\ db'[j].status # "GONE" => link' = link
        BY <2>4, OthersWriteRow
      <3>2. QED
        BY <2>1, <3>1
    <2>5. QED
      BY <2>2, <2>3, <2>4, RowOrNot
  <1>3. QED
    BY <1>1, <1>2, TypeCorrect, PTL DEF Spec, DeletedStaysDeleted
-----------------------------------------------------------------------------
(* What a call remembers *)

\* After Load, a call keeps the instance, the goal and the hash it read.
LEMMA RunKeeps ==
  ASSUME Typed, NEW r \in Runs, RunStep(r), ~Release(r)
  PROVE  /\ \A s \in Runs \ {r} : run'[s] = run[s]
         /\ run'[r].inst = run[r].inst
         /\ ~Load(r) => /\ run'[r].isNew = run[r].isNew
                        /\ run'[r].known = run[r].known
                        /\ run'[r].goal = run[r].goal
  <1> DEFINE Goal == /\ \A s \in Runs \ {r} : run'[s] = run[s]
                     /\ run'[r].inst = run[r].inst
                     /\ ~Load(r) => /\ run'[r].isNew = run[r].isNew
                                    /\ run'[r].known = run[r].known
                                    /\ run'[r].goal = run[r].goal
  <1>1. run \in [Runs -> Run] /\ run[r] \in Run
    BY DEF Typed, TypeOK
  <1>2. ASSUME NEW pc, Goto(r, pc) PROVE Goal
    BY <1>1, <1>2 DEF Goto, Run
  <1>3. CASE Load(r)
    BY <1>1, <1>2, <1>3 DEF Load, Run
  <1>4. CASE UpdateGet(r)
    BY <1>1, <1>2, <1>4 DEF UpdateGet, Run
  <1>5. CASE Adopt(r)
    BY <1>1, <1>2, <1>5 DEF Adopt, Run
  <1>6. CASE Apply(r)
    BY <1>1, <1>2, <1>6 DEF Apply, Run
  <1>7. CASE PConnect(r)
    BY <1>1, <1>2, <1>7 DEF PConnect, Move, Run
  <1>8. CASE Check(r) \/ Refetch(r) \/ UpdateTrusted(r)
    BY <1>2, <1>8 DEF Check, Refetch, UpdateTrusted, Move
  <1>9. CASE Mark(r) \/ Save(r) \/ Fail(r) \/ USave(r) \/ UFail(r) \/ PSave(r) \/ PFail(r)
    BY <1>2, <1>9 DEF Mark, Save, Fail, USave, UFail, PSave, PFail, Update
  <1>10. CASE Persist(r) \/ ULink(r) \/ PLink(r) \/ PDestroy(r) \/ PConfigure(r) \/ PStart(r)
    BY <1>2, <1>10 DEF Persist, ULink, PLink, PDestroy, PConfigure, PStart, Upsert
  <1>11. QED
    BY <1>3, <1>4, <1>5, <1>6, <1>7, <1>8, <1>9, <1>10 DEF RunStep

\* Steps that are not of a call leave the calls alone, start one or end all.
LEMMA OthersKeepCalls ==
  ASSUME [Next]_vars, \A r \in Runs : ~RunStep(r)
  PROVE  \/ UNCHANGED run
         \/ Crash
         \/ \E r \in Runs, i \in Instances : Call(r, i)
  BY OtherStepSameWork DEF Next

-----------------------------------------------------------------------------
(* A known instance is not provisioned as a new one *)

\* A hash is recorded only once the row was marked, and no row returns to
\* CREATING: the status a call takes for a new instance comes with no hash.
Fresh == {"NONE", "CREATING"}
PastMark == {"check", "update", "adopt", "apply", "persist", "usave"}

Recorded ==
  /\ \A i \in Instances : db[i].status \in Fresh => db[i].hash = NoHash
  /\ \A r \in Runs : run[r].pc \in PastMark => db[run[r].inst].status \notin Fresh
  /\ NeverReprovisionKnown

LEMMA FreshKeepsNoHash ==
  ASSUME Typed, Recorded, [Next]_vars
  PROVE  \A i \in Instances :
           db'[i].status \in Fresh => db[i].status \in Fresh /\ db'[i].hash = NoHash
  <1> SUFFICES ASSUME NEW i \in Instances, db'[i].status \in Fresh
               PROVE  db[i].status \in Fresh /\ db'[i].hash = NoHash
    OBVIOUS
  <1>1. CASE UNCHANGED db
    BY <1>1 DEF Recorded
  <1>2. ASSUME NEW r \in Runs, RunStep(r), ~UNCHANGED db
        PROVE  db[i].status \in Fresh /\ db'[i].hash = NoHash
    BY <1>2, RunWritesRow DEF Recorded, Fresh, PastMark
  <1>3. ASSUME NEW j \in Instances, ~UNCHANGED db,
               \/ \E q \in Requests : ReqStep(q) /\ j = req[q].inst
               \/ \E q \in Requests, k \in RequestKinds : Ask(q, j, k)
               \/ UserStep(j) \/ SchedulerStep(j) \/ WorldStep(j)
        PROVE  db[i].status \in Fresh /\ db'[i].hash = NoHash
    <2>1. /\ \A l \in Instances \ {j} : db'[l] = db[l]
          /\ db'[j].hash = db[j].hash
          /\ db'[j].status \in Fresh => db[j].status \in Fresh
      BY <1>3, OthersWriteRow DEF Fresh
    <2>2. QED
      BY <2>1 DEF Recorded
  <1>4. QED
    BY <1>1, <1>2, <1>3, RowOrNot

\* A call passes Mark only by writing RECONCILING.
LEMMA MarkComesFirst ==
  ASSUME Typed, NEW r \in Runs, RunStep(r), run'[r].pc \in PastMark
  PROVE  run[r].pc \in PastMark \/ db'[run[r].inst].status = "RECONCILING"
  <1>1. run \in [Runs -> Run] /\ run[r] \in Run
    BY DEF Typed, TypeOK
  <1>2. CASE Mark(r)
    <2>1. run[r].inst \in Instances
      BY <1>2 DEF Typed, BusyHaveInstance, Mark, At, Active
    <2>2. Put(run[r].inst, [db[run[r].inst] EXCEPT !.status = "RECONCILING"])
      BY <1>1, <1>2 DEF Mark, Update, Goto, Run, PastMark
    <2>3. QED
      BY <2>1, <2>2 DEF Put, Typed, TypeOK, Row
  <1>3. CASE Check(r) \/ UpdateTrusted(r) \/ UpdateGet(r) \/ Apply(r) \/ Persist(r)
    BY <1>3 DEF Check, UpdateTrusted, FastPath, SlowPath, UpdateGet, Apply, Persist, Move, At,
                PastMark
  <1>4. ASSUME NEW pc, Goto(r, pc), pc \notin PastMark PROVE FALSE
    BY <1>1, <1>4 DEF Goto, Run
  <1>5. CASE Load(r) \/ Adopt(r) \/ Release(r) \/ PConnect(r)
    BY <1>1, <1>5 DEF Load, Adopt, Release, PConnect, Goto, Move, IdleRun, Run, PastMark
  <1>6. CASE \/ Refetch(r) \/ Save(r) \/ Fail(r) \/ USave(r) \/ UFail(r) \/ PSave(r)
             \/ PFail(r)
    BY <1>4, <1>6 DEF Refetch, Save, Fail, USave, UFail, PSave, PFail, Update, Move, PastMark
  <1>7. CASE ULink(r) \/ PLink(r) \/ PDestroy(r) \/ PConfigure(r) \/ PStart(r)
    BY <1>4, <1>7 DEF ULink, PLink, PDestroy, PConfigure, PStart, Upsert, PastMark
  <1>8. QED
    BY <1>2, <1>3, <1>5, <1>6, <1>7 DEF RunStep

\* For any calls, failures and restarts: a run that takes the provisioning path
\* straight away read a row no configuration was ever recorded for.
THEOREM KnownIsNotNew == Spec => []NeverReprovisionKnown
  <1>1. Init => Recorded
    BY DEF Init, Recorded, NeverReprovisionKnown, Active, IdleRun, PastMark
  <1>2. Typed /\ Recorded /\ [Next]_vars => Recorded'
    <2> SUFFICES ASSUME Typed, Recorded, [Next]_vars PROVE Recorded'
      OBVIOUS
    <2>1. \A i \in Instances :
            db'[i].status \in Fresh => db[i].status \in Fresh /\ db'[i].hash = NoHash
      BY FreshKeepsNoHash
    <2>2. run \in [Runs -> Run] /\ \A s \in Runs : Active(s) => run[s].inst \in Instances
      BY DEF Typed, TypeOK, BusyHaveInstance
    <2>3. \A s \in Runs : run[s].pc \in PastMark => db'[run[s].inst].status \notin Fresh
      BY <2>1, <2>2 DEF Recorded, Active, PastMark
    <2>4. ASSUME NEW r \in Runs, RunStep(r) PROVE Recorded'
      <3>1. CASE Release(r)
        <4>1. run' = [run EXCEPT ![r] = IdleRun]
          BY <3>1 DEF Release
        <4>2. QED
          BY <2>1, <2>2, <2>3, <4>1
             DEF Recorded, NeverReprovisionKnown, Active, IdleRun, PastMark
      <3>2. CASE ~Release(r)
        <4>1. /\ \A s \in Runs \ {r} : run'[s] = run[s]
              /\ run'[r].inst = run[r].inst
          BY <2>4, <3>2, RunKeeps
        <4>2. run'[r].pc \in PastMark => db'[run[r].inst].status \notin Fresh
          BY <2>3, <2>4, MarkComesFirst DEF Fresh
        <4>3. Active(r)' /\ run'[r].isNew => run'[r].known = NoHash
          <5>1. CASE Load(r)
            <6>1. Active(r) /\ run[r].inst \in Instances
              BY <2>2, <5>1 DEF Load, At, Active
            <6>2. CASE Goto(r, "fail")
              BY <2>2, <6>1, <6>2 DEF Goto, Recorded, NeverReprovisionKnown, Run
            <6>3. CASE ~Goto(r, "fail")
              <7>1. /\ run'[r].isNew = IsNewInstance(db[run[r].inst])
                    /\ run'[r].known = db[run[r].inst].hash
                BY <2>2, <5>1, <6>3 DEF Load, Run
              <7>2. QED
                BY <6>1, <7>1 DEF IsNewInstance, Recorded, Fresh
            <6>4. QED
              BY <6>2, <6>3
          <5>2. CASE ~Load(r)
            <6>1. Active(r)' => Active(r)
              BY <2>4, <3>2, RunStepSameWork DEF SameWork
            <6>2. QED
              BY <2>4, <3>2, <5>2, <6>1, RunKeeps DEF Recorded, NeverReprovisionKnown
          <5>3. QED
            BY <5>1, <5>2
        <4>4. QED
          BY <2>1, <2>3, <4>1, <4>2, <4>3 DEF Recorded, NeverReprovisionKnown, Active
      <3>3. QED
        BY <3>1, <3>2
    <2>5. CASE UNCHANGED run
      BY <2>1, <2>3, <2>5 DEF Recorded, NeverReprovisionKnown, Active
    <2>6. CASE Crash
      BY <2>1, <2>6 DEF Crash, Recorded, NeverReprovisionKnown, Active, IdleRun, PastMark
    <2>7. ASSUME NEW r \in Runs, NEW i \in Instances, Call(r, i) PROVE Recorded'
      <3>1. /\ run'[r].pc = "load" /\ ~run'[r].isNew
            /\ \A s \in Runs \ {r} : run'[s] = run[s]
        BY <2>2, <2>7 DEF Call, IdleRun
      <3>2. QED
        BY <2>1, <2>3, <3>1 DEF Recorded, NeverReprovisionKnown, Active, PastMark
    <2>8. QED
      BY <2>4, <2>5, <2>6, <2>7, OthersKeepCalls
  <1>3. QED
    BY <1>1, <1>2, TypeCorrect, PTL DEF Spec, Recorded
-----------------------------------------------------------------------------
(* What was pushed is what runs *)

\* Where a call stands says what its gateway runs, as long as nobody else
\* touches it: c is the call, f what runs of the instance it is about.
InStep(c, f) ==
  /\ c.pc \in {"load", "mark", "check", "update"} => c.via = "none"
  /\ c.pc = "adopt" => f.live = c.goal
  /\ c.pc \in {"persist", "usave", "ulink", "connect", "psave", "plink"}
       => (f.box = "up" => f.live = c.goal)
  /\ c.pc \in {"configure", "start"} => f.box = "absent"
  /\ c.pc = "start" => f.store = c.goal
  /\ c.pc \in {"refetch", "save"} /\ c.via # "none" => (f.box = "up" => f.live = c.goal)

Pushing ==
  /\ \A k \in EnvKinds : left[k] <= Budget[k]
  /\ Untouched => /\ \A q \in Requests : req[q].pc = "idle"
                  /\ \A r \in Runs : Active(r) => InStep(run[r], infra[run[r].inst])

\* The budgets only shrink, so what is untouched after a step was so before,
\* and the step spent none of the four budgets.
LEMMA BudgetsShrink ==
  ASSUME Typed, [Next]_vars
  PROVE  UNCHANGED left \/ \E k \in EnvKinds : Spend(k)
  <1>1. ASSUME NEW r \in Runs, RunStep(r) PROVE UNCHANGED left \/ Spend("undestroyed")
    BY <1>1 DEF RunStep, Load, Mark, Check, Refetch, Save, Fail, Release, UpdateTrusted,
                UpdateGet, Adopt, Apply, Persist, USave, ULink, UFail, PDestroy, PConfigure,
                PStart, PConnect, PSave, PLink, PFail, Move, TearDown
  <1>2. ASSUME NEW q \in Requests, ReqStep(q) PROVE UNCHANGED left \/ Spend("undestroyed")
    BY <1>2 DEF ReqStep, Destroy, Unlink, MarkDeleting, FinishStop, FinishDelete,
                UpgradeRestart, UpgradeSave, TearDown
  <1>3. ASSUME NEW i \in Instances, UserStep(i) \/ SchedulerStep(i) \/ WorldStep(i)
        PROVE  UNCHANGED left \/ \E k \in EnvKinds : Spend(k)
    BY <1>3 DEF UserStep, Create, UpdateManifest, Restart, Pause, Resume, SetRow,
                SchedulerStep, PollStart, PollStep, PollHealthy, PollUnreachable, PollVerify,
                OrphanProbe, OrphanMark, StuckMark, WorldStep, Age, Drift, Outage, Revive,
                World, EnvKinds
  <1>4. QED
    BY <1>1, <1>2, <1>3 DEF Next, Call, Ask, StuckScan, Crash, vars, EnvKinds

LEMMA StillUntouched ==
  ASSUME Typed, Pushing, [Next]_vars
  PROVE  /\ \A k \in EnvKinds : left'[k] <= Budget[k]
         /\ Untouched' => /\ Untouched
                          /\ \A k \in {"drift", "undestroyed", "revive", "request"} : ~Spend(k)
  <1> DEFINE Kinds == {"drift", "undestroyed", "revive", "request"}
  <1>1. /\ left \in [EnvKinds -> Nat] /\ Budget \in [EnvKinds -> Nat]
        /\ \A k \in EnvKinds : left[k] <= Budget[k]
        /\ Kinds \subseteq EnvKinds
    BY BudgetAssumption DEF Typed, TypeOK, Pushing, EnvKinds
  <1>2. CASE UNCHANGED left
    <2>1. \A k \in EnvKinds : ~Spend(k)
      BY <1>1, <1>2 DEF Spend
    <2>2. QED
      BY <1>1, <1>2, <2>1 DEF Untouched
  <1>3. ASSUME NEW k \in EnvKinds, Spend(k)
        PROVE  /\ \A l \in EnvKinds : left'[l] <= Budget[l]
               /\ Untouched' => Untouched /\ \A l \in Kinds : ~Spend(l)
    <2>1. left'[k] = left[k] - 1 /\ \A l \in EnvKinds \ {k} : left'[l] = left[l]
      BY <1>1, <1>3 DEF Spend
    <2>2. \A l \in EnvKinds : left'[l] <= Budget[l]
      BY <1>1, <2>1
    <2>3. ASSUME Untouched' PROVE k \notin Kinds
      BY <1>1, <2>1, <2>3 DEF Untouched
    <2>4. ASSUME NEW l \in Kinds, Spend(l) PROVE left'[l] = left[l] - 1
      BY <1>1, <2>4 DEF Spend
    <2>5. ASSUME Untouched' PROVE Untouched /\ \A l \in Kinds : ~Spend(l)
      BY <1>1, <2>1, <2>3, <2>4, <2>5 DEF Untouched
    <2>6. QED
      BY <2>2, <2>5
  <1>4. QED
    BY <1>2, <1>3, BudgetsShrink

\* One step of a call, with its own tear-downs succeeding.
LEMMA CallStaysInStep ==
  ASSUME Typed, NEW r \in Runs, RunStep(r), ~Release(r), ~Spend("undestroyed"),
         InStep(run[r], infra[run[r].inst])
  PROVE  /\ InStep(run'[r], infra'[run[r].inst])
         /\ \A i \in Instances \ {run[r].inst} : infra'[i] = infra[i]
  <1> DEFINE i == run[r].inst
             Goal == /\ InStep(run'[r], infra'[i])
                     /\ \A j \in Instances \ {i} : infra'[j] = infra[j]
  <1>1. /\ run \in [Runs -> Run] /\ run[r] \in Run /\ infra \in [Instances -> Infra]
    BY DEF Typed, TypeOK
  <1>2. Active(r)
    BY DEF RunStep, Load, Mark, Check, Refetch, Save, Fail, Release, UpdateTrusted, UpdateGet,
           Adopt, Apply, Persist, USave, ULink, UFail, PDestroy, PConfigure, PStart, PConnect,
           PSave, PLink, PFail, FastPath, SlowPath, Move, At, Active
  <1>3. i \in Instances /\ infra[i] \in Infra
    BY <1>1, <1>2 DEF Typed, BusyHaveInstance
  \* The steps that change only where the call stands.
  <1>4. ASSUME NEW pc, Goto(r, pc), UNCHANGED infra,
               \/ pc \in {"fail", "ufail", "pfail", "destroy", "release"}
               \/ run[r].pc = "mark" /\ pc = "check"
               \/ run[r].pc = "check" /\ pc = "update"
               \/ run[r].pc = "update" /\ pc = "refetch"
               \/ run[r].pc = "refetch" /\ pc = "save"
               \/ run[r].pc = "usave" /\ pc = "ulink"
               \/ run[r].pc = "ulink" /\ pc = "refetch"
               \/ run[r].pc = "psave" /\ pc = "plink"
               \/ run[r].pc = "plink" /\ pc = "refetch"
        PROVE  Goal
    <2>1. /\ run'[r].pc = pc /\ run'[r].via = run[r].via /\ run'[r].goal = run[r].goal
          /\ infra'[i] = infra[i]
      BY <1>1, <1>4 DEF Goto, Run
    <2>2. QED
      BY <1>4, <2>1 DEF InStep
  <1>5. CASE Load(r)
    <2>1. run[r].via = "none"
      BY <1>5 DEF Load, At, InStep
    <2>2. /\ infra' = infra /\ run'[r].pc \in {"mark", "fail"} /\ run'[r].via = run[r].via
      BY <1>1, <1>5 DEF Load, Goto, Run
    <2>3. QED
      BY <2>1, <2>2 DEF InStep
  <1>6. CASE \/ Mark(r) \/ Save(r) \/ Fail(r) \/ USave(r) \/ UFail(r) \/ PSave(r) \/ PFail(r)
    <2>1. UNCHANGED infra
      BY <1>6 DEF Mark, Save, Fail, USave, UFail, PSave, PFail
    <2>2. QED
      BY <1>4, <1>6, <2>1 DEF Mark, Save, Fail, USave, UFail, PSave, PFail, Update, At
  <1>7. CASE Check(r) \/ Refetch(r) \/ UpdateTrusted(r)
    <2>1. UNCHANGED infra
      BY <1>7 DEF Check, Refetch, UpdateTrusted, Move
    <2>2. QED
      BY <1>4, <1>7, <2>1 DEF Check, Refetch, UpdateTrusted, Move, At, FastPath
  <1>8. CASE ULink(r) \/ PLink(r)
    BY <1>4, <1>8 DEF ULink, PLink, Upsert, At
  <1>9. CASE UpdateGet(r)
    <2>1. CASE Goto(r, "ufail")
      BY <1>4, <1>9, <2>1 DEF UpdateGet
    <2>2. CASE ~Goto(r, "ufail")
      <3>1. /\ infra' = infra /\ run'[r].goal = run[r].goal
            /\ \/ run'[r].pc = "adopt" /\ infra[i].live = run[r].goal
               \/ run'[r].pc = "apply"
        BY <1>1, <1>9, <2>2 DEF UpdateGet, Run
      <3>2. QED
        BY <3>1 DEF InStep
    <2>3. QED
      BY <2>1, <2>2
  <1>10. CASE Adopt(r)
    <2>1. CASE Goto(r, "ufail")
      BY <1>4, <1>10, <2>1 DEF Adopt
    <2>2. CASE ~Goto(r, "ufail")
      <3>1. /\ infra' = infra /\ run'[r].goal = run[r].goal /\ run'[r].pc = "refetch"
            /\ infra[i].live = run[r].goal
        BY <1>1, <1>10, <2>2 DEF Adopt, Run, At, InStep
      <3>2. QED
        BY <3>1 DEF InStep
    <2>3. QED
      BY <2>1, <2>2
  <1>11. CASE Apply(r)
    <2>1. CASE UNCHANGED infra /\ Goto(r, "ufail")
      BY <1>4, <2>1
    <2>2. CASE infra' = [infra EXCEPT ![i].live = run[r].goal]
      <3>1. /\ infra'[i].live = run[r].goal
            /\ \A j \in Instances \ {i} : infra'[j] = infra[j]
        BY <1>1, <1>3, <2>2 DEF Infra
      <3>2. run'[r].goal = run[r].goal /\ run'[r].pc \in {"persist", "ufail"}
        BY <1>1, <1>11 DEF Apply, Goto, Run
      <3>3. QED
        BY <3>1, <3>2 DEF InStep
    <2>3. QED
      BY <1>11, <2>1, <2>2 DEF Apply
  <1>12. CASE Persist(r)
    <2>1. /\ infra'[i].box = infra[i].box /\ infra'[i].live = infra[i].live
          /\ \A j \in Instances \ {i} : infra'[j] = infra[j]
      BY <1>1, <1>3, <1>12 DEF Persist, Infra
    <2>2. run[r].pc = "persist" /\ run'[r].pc = "usave" /\ run'[r].goal = run[r].goal
      BY <1>1, <1>12 DEF Persist, Goto, At, Run
    <2>3. QED
      BY <2>1, <2>2 DEF InStep
  <1>13. CASE PDestroy(r)
    <2>1. infra' = [infra EXCEPT ![i].box = "absent"]
      BY <1>13 DEF PDestroy, TearDown
    <2>2. infra'[i].box = "absent" /\ \A j \in Instances \ {i} : infra'[j] = infra[j]
      BY <1>1, <1>3, <2>1 DEF Infra
    <2>3. run'[r].pc \in {"configure", "pfail"}
      BY <1>1, <1>13 DEF PDestroy, Goto, Run
    <2>4. QED
      BY <2>2, <2>3 DEF InStep
  <1>14. CASE PConfigure(r)
    <2>1. CASE UNCHANGED infra /\ Goto(r, "pfail")
      BY <1>4, <2>1
    <2>2. CASE infra' = [infra EXCEPT ![i].store = run[r].goal] /\ Goto(r, "start")
      <3>1. /\ infra'[i].store = run[r].goal /\ infra'[i].box = infra[i].box
            /\ \A j \in Instances \ {i} : infra'[j] = infra[j]
        BY <1>1, <1>3, <2>2 DEF Infra
      <3>2. run[r].pc = "configure" /\ run'[r].pc = "start" /\ run'[r].goal = run[r].goal
        BY <1>1, <1>14, <2>2 DEF PConfigure, Goto, At, Run
      <3>3. QED
        BY <3>1, <3>2 DEF InStep
    <2>3. QED
      BY <1>14, <2>1, <2>2 DEF PConfigure
  <1>15. CASE PStart(r)
    <2>1. CASE UNCHANGED infra /\ Goto(r, "pfail")
      BY <1>4, <2>1
    <2>2. CASE Boot(i) /\ Goto(r, "connect")
      <3>1. infra[i].box = "absent" /\ infra[i].store = run[r].goal
        BY <1>15 DEF PStart, At, InStep
      <3>2. infra' = [infra EXCEPT ![i].box = "up", ![i].live = infra[i].store]
        BY <2>2, <3>1 DEF Boot, Up
      <3>3. /\ infra'[i].live = run[r].goal
            /\ \A j \in Instances \ {i} : infra'[j] = infra[j]
        BY <1>1, <1>3, <3>1, <3>2 DEF Infra
      <3>4. run'[r].pc = "connect" /\ run'[r].goal = run[r].goal
        BY <1>1, <2>2 DEF Goto, Run
      <3>5. QED
        BY <3>3, <3>4 DEF InStep
    <2>3. QED
      BY <1>15, <2>1, <2>2 DEF PStart
  <1>16. CASE PConnect(r)
    <2>1. CASE Move(r, "connect", "pfail")
      BY <1>4, <2>1 DEF Move
    <2>2. CASE ~Move(r, "connect", "pfail")
      <3>1. /\ infra' = infra /\ run[r].pc = "connect" /\ run'[r].pc = "psave"
            /\ run'[r].goal = run[r].goal
        BY <1>1, <1>16, <2>2 DEF PConnect, At, Run
      <3>2. QED
        BY <3>1 DEF InStep
    <2>3. QED
      BY <2>1, <2>2
  <1>17. QED
    BY <1>5, <1>6, <1>7, <1>8, <1>9, <1>10, <1>11, <1>12, <1>13, <1>14, <1>15, <1>16
       DEF RunStep

\* A step that is not of a call or a request leaves what runs alone, or is one
\* of the three of the world, of which only an outage is free.
LEMMA OthersLeaveInfra ==
  ASSUME Typed, [Next]_vars, \A r \in Runs : ~RunStep(r), \A q \in Requests : ~ReqStep(q),
         ~Spend("drift"), ~Spend("revive")
  PROVE  \/ UNCHANGED infra
         \/ \E i \in Instances : Up(i) /\ infra' = [infra EXCEPT ![i].box = "down"]
  <1>1. ASSUME NEW i \in Instances, UserStep(i) \/ SchedulerStep(i) PROVE UNCHANGED infra
    BY <1>1 DEF UserStep, Create, UpdateManifest, Restart, Pause, Resume, SetRow,
                SchedulerStep, PollStart, PollStep, PollHealthy, PollUnreachable, PollVerify,
                OrphanProbe, OrphanMark, StuckMark
  <1>2. ASSUME NEW i \in Instances, WorldStep(i)
        PROVE  UNCHANGED infra \/ (Up(i) /\ infra' = [infra EXCEPT ![i].box = "down"])
    <2>1. Age(i) \/ Outage(i)
      BY <1>2 DEF WorldStep, Drift, Revive, World
    <2>2. infra[i] \in Infra /\ infra \in [Instances -> Infra]
      BY DEF Typed, TypeOK
    <2>3. QED
      BY <2>1, <2>2 DEF Age, Outage, World
  <1>3. QED
    BY <1>1, <1>2 DEF Next, Call, Ask, StuckScan, Crash, vars

\* For any budgets of the environment, and whatever calls, crashes, outages and
\* manifest edits there are: as long as nobody else touched what runs, a call
\* about to record that it pushed its goal has a gateway that runs it, if up.
THEOREM RecordedIsLive == Spec => []PushedIsLive
  <1>1. Init => Pushing
    BY BudgetAssumption DEF Init, Pushing, Active, IdleRun, IdleRequest
  <1>2. Guarded /\ Pushing /\ [Next]_vars => Pushing'
    <2> SUFFICES ASSUME Guarded, Pushing, [Next]_vars, Untouched'
                 PROVE  /\ \A q \in Requests : req'[q].pc = "idle"
                        /\ \A s \in Runs : Active(s)' => InStep(run'[s], infra'[run'[s].inst])
      BY StillUntouched DEF Guarded, Pushing
    <2>1. /\ Typed /\ run \in [Runs -> Run] /\ infra \in [Instances -> Infra]
          /\ \A s \in Runs : Active(s) => run[s].inst \in Instances
      BY DEF Guarded, Typed, TypeOK, BusyHaveInstance
    <2>2. /\ ~Spend("drift") /\ ~Spend("undestroyed") /\ ~Spend("revive") /\ ~Spend("request")
          /\ \A q \in Requests : req[q].pc = "idle"
          /\ \A s \in Runs : Active(s) => InStep(run[s], infra[run[s].inst])
      BY <2>1, StillUntouched DEF Pushing
    <2>3. \A q \in Requests : ~ReqStep(q)
      BY <2>2 DEF ReqStep, Destroy, Unlink, MarkDeleting, FinishStop, FinishDelete,
                  UpgradeRestart, UpgradeSave, ReqAt
    <2>4. \A q \in Requests : req'[q].pc = "idle"
      <3>1. ASSUME NEW r \in Runs, RunStep(r) PROVE UNCHANGED req
        BY <3>1 DEF RunStep, Load, Mark, Check, Refetch, Save, Fail, Release, UpdateTrusted,
                    UpdateGet, Adopt, Apply, Persist, USave, ULink, UFail, PDestroy,
                    PConfigure, PStart, PConnect, PSave, PLink, PFail, Move
      <3>2. ASSUME NEW i \in Instances, UserStep(i) \/ SchedulerStep(i) \/ WorldStep(i)
            PROVE  UNCHANGED req
        BY <3>2 DEF UserStep, Create, UpdateManifest, Restart, Pause, Resume, SetRow,
                    SchedulerStep, PollStart, PollStep, PollHealthy, PollUnreachable,
                    PollVerify, OrphanProbe, OrphanMark, StuckMark, WorldStep, Age, Drift,
                    Outage, Revive, World
      <3>3. UNCHANGED req \/ Crash
        BY <2>2, <2>3, <3>1, <3>2 DEF Next, Call, Ask, StuckScan, vars
      <3>4. QED
        BY <2>2, <3>3 DEF Crash, IdleRequest
    <2>5. ASSUME NEW s \in Runs, Active(s)'
          PROVE  InStep(run'[s], infra'[run'[s].inst])
      <3>1. CASE \E r \in Runs : RunStep(r)
        <4>1. PICK r \in Runs : RunStep(r)
          BY <3>1
        <4>2. CASE Release(r)
          <5>1. run' = [run EXCEPT ![r] = IdleRun] /\ infra' = infra
            BY <4>2 DEF Release
          <5>2. QED
            BY <2>1, <2>2, <2>5, <5>1 DEF Active, IdleRun
        <4>3. CASE ~Release(r)
          <5>1. /\ \A t \in Runs : run'[t].inst = run[t].inst /\ (Active(t)' <=> Active(t))
                /\ \A t \in Runs \ {r} : run'[t] = run[t]
            BY <2>1, <4>1, <4>3, RunStepSameWork, RunKeeps DEF SameWork
          <5>2. Active(r) /\ Active(s)
            BY <2>5, <4>1, <5>1
               DEF RunStep, Load, Mark, Check, Refetch, Save, Fail, Release, UpdateTrusted,
                   UpdateGet, Adopt, Apply, Persist, USave, ULink, UFail, PDestroy,
                   PConfigure, PStart, PConnect, PSave, PLink, PFail, FastPath, SlowPath,
                   Move, At, Active
          <5>3. /\ InStep(run'[r], infra'[run[r].inst])
                /\ \A i \in Instances \ {run[r].inst} : infra'[i] = infra[i]
            BY <2>1, <2>2, <4>1, <4>3, <5>2, CallStaysInStep
          <5>4. CASE s = r
            BY <5>1, <5>3, <5>4
          <5>5. CASE s # r
            <6>1. run[s].inst \in Instances \ {run[r].inst}
              BY <2>1, <5>2, <5>5 DEF Guarded, OneRunPerInstance
            <6>2. QED
              BY <2>2, <5>1, <5>2, <5>3, <5>5, <6>1
          <5>6. QED
            BY <5>4, <5>5
        <4>4. QED
          BY <4>2, <4>3
      <3>2. CASE \A r \in Runs : ~RunStep(r)
        <4>1. /\ \/ UNCHANGED infra
                 \/ \E i \in Instances : Up(i) /\ infra' = [infra EXCEPT ![i].box = "down"]
              /\ \/ UNCHANGED run \/ Crash
                 \/ \E r \in Runs, i \in Instances : Call(r, i)
          BY <2>1, <2>2, <2>3, <3>2, OthersLeaveInfra, OthersKeepCalls
        <4>2. ~Crash
          BY <2>5 DEF Crash, Active, IdleRun
        <4>3. run'[s] = run[s] \/ (run'[s].pc = "load" /\ run'[s].via = "none")
          <5>1. CASE UNCHANGED run
            BY <5>1
          <5>2. ASSUME NEW r \in Runs, NEW i \in Instances, Call(r, i)
                PROVE  run'[s] = run[s] \/ (run'[s].pc = "load" /\ run'[s].via = "none")
            BY <2>1, <5>2 DEF Call, IdleRun
          <5>3. QED
            BY <4>1, <4>2, <5>1, <5>2
        <4>4. CASE run'[s].pc = "load" /\ run'[s].via = "none"
          BY <4>4 DEF InStep
        <4>5. CASE run'[s] = run[s]
          <5>1. /\ Active(s) /\ run[s].inst \in Instances
                /\ InStep(run[s], infra[run[s].inst])
            BY <2>1, <2>2, <2>5, <4>5 DEF Active
          <5>2. \/ infra'[run[s].inst] = infra[run[s].inst]
                \/ /\ infra[run[s].inst].box = "up" /\ infra'[run[s].inst].box = "down"
                   /\ infra'[run[s].inst].live = infra[run[s].inst].live
                   /\ infra'[run[s].inst].store = infra[run[s].inst].store
            BY <2>1, <4>1, <5>1 DEF Infra, Up
          <5>3. QED
            BY <4>5, <5>1, <5>2 DEF InStep, Infra
        <4>6. QED
          BY <4>3, <4>4, <4>5
      <3>3. QED
        BY <3>1, <3>2
    <2>6. QED
      BY <2>4, <2>5
  <1>3. Pushing => PushedIsLive
    BY DEF Pushing, InStep, PushedIsLive, At, Active, Up
  <1>4. QED
    BY <1>1, <1>2, <1>3, GuardCorrect, PTL DEF Spec
=============================================================================
