---------------------------- MODULE AlertsProofs ----------------------------
(***************************************************************************)
(* While the SLO evaluator's ticks do not overlap and nothing disturbs it, *)
(* it leaves no alert behind: for any SLOs, rows and metric changes.       *)
(***************************************************************************)
EXTENDS Alerts, TLAPS

\* No other tick of evaluateAllSlos is in flight, and at most one is.
Alone(t) == \A u \in SloTicks : u # t => job[u] = Idle
OneTick == \A t \in SloTicks : job[t] # Idle => Alone(t)

Bounded == \A k \in EnvKinds : left[k] <= Budget[k]

Quiet == source = "slo" /\ Undisturbed /\ ~overlap

\* Without operators a row is unused, active or resolved, and one is open.
Plain ==
  /\ fixing = {}
  /\ \A a \in Ids : alerts[a] \in {"none", "ACTIVE", "RESOLVED"}
  /\ \A a, b \in Ids : alerts[a] = "ACTIVE" /\ alerts[b] = "ACTIVE" => a = b

\* What a tick knows: the list it read is right about every SLO it has not come
\* to, and the row it found is the open one.
Informed(t) ==
  /\ job[t].pc = "idle" => job[t] = Idle
  /\ job[t].pc = "next" => job[t].op = "none"
  /\ job[t].pc # "write" => job[t].row = None
  /\ job[t].pc = "clear" => job[t].op = "resolve" /\ job[t].slo \notin job[t].todo
  /\ job[t].pc \in {"find", "write"} => job[t].op \in {"upsert", "resolve"}
  /\ job[t].op = "upsert" => job[t].slo \in breached
  /\ \A s \in job[t].todo : s \in job[t].was <=> s \in breached
  /\ job[t].pc = "write" =>
       IF job[t].row = None
       THEN job[t].op = "upsert" /\ \A a \in Ids : alerts[a] # "ACTIVE"
       ELSE alerts[job[t].row] = "ACTIVE"

\* An open alert of SLOs none of which is breached is about to be closed.
Due ==
  (\A s \in Slos : s \notin breached) =>
    \/ \A a \in Ids : alerts[a] # "ACTIVE"
    \/ \E t \in SloTicks : job[t].op = "resolve"

Tidy ==
  /\ Plain
  /\ \A t \in RuleTicks : job[t] = Idle
  /\ \A t \in SloTicks : Informed(t)
  /\ OneTick
  /\ Due

Agreement == TypeOK /\ Bounded /\ (Quiet => Tidy)

-----------------------------------------------------------------------------
LEMMA ProceedIsJob ==
  ASSUME TypeOK, NEW t \in Ticks
  PROVE  Proceed(t) \in Jobs
  BY DEF TypeOK, Proceed, Jobs, Idle

LEMMA StatusStep ==
  ASSUME TypeOK, NEW S, NEW s \in Statuses, SetStatus(S, s)
  PROVE  alerts' \in [Ids -> Statuses]
  BY DEF TypeOK, SetStatus

LEMMA SpendStep ==
  ASSUME left \in [EnvKinds -> Nat], NEW k \in EnvKinds, Spend(k)
  PROVE  /\ left' \in [EnvKinds -> Nat]
         /\ left'[k] < left[k]
         /\ \A j \in EnvKinds : left'[j] <= left[j]
  BY DEF Spend

LEMMA KindsAre ==
  \A k \in {"user", "fault", "metric", "fail", "crash"} : k \in EnvKinds
  BY DEF EnvKinds

\* The steps of a tick, by the part of the type they can disturb.
LEMMA JobTypes ==
  ASSUME TypeOK, NEW t \in Ticks, JobStep(t) \/ Throws(t)
  PROVE  TypeOK'
  <1> USE DEF TypeOK
  <1>1. Proceed(t) \in Jobs
    BY ProceedIsJob
  <1>2. CASE Find(t)
    BY <1>2, <1>1 DEF Find, With, rows, world, Jobs
  <1>3. CASE Reactivate(t) \/ Raise(t) \/ Close(t)
    <2>1. PICK a : \E s \in Statuses : Written(t, a, s)
      BY <1>3 DEF Reactivate, Raise, Close, Statuses
    <2>2. alerts' \in [Ids -> Statuses]
      BY <2>1, StatusStep DEF Written
    <2>3. job' \in [Ticks -> Jobs]
      BY <2>1, <1>1 DEF Written
    <2>4. QED
      BY <2>1, <2>2, <2>3 DEF Written, world
  <1>4. CASE Clear(t)
    BY <1>4 DEF Clear, rows, world, Jobs
  <1>5. ASSUME NEW s \in Slos, Evaluate(t, s)
        PROVE  TypeOK'
    <2>1. breached' \in SUBSET Slos
      BY <1>5 DEF Evaluate
    <2>2. job' \in [Ticks -> Jobs]
      <3>1. job[t] \in Jobs /\ Idle \in Jobs
        BY DEF Jobs, Idle
      <3>2. PICK j \in Jobs : job' = [job EXCEPT ![t] = j]
        BY <1>5, <3>1 DEF Evaluate, Jobs
      <3>3. QED
        BY <3>2
    <2>3. QED
      BY <1>5, <2>1, <2>2 DEF Evaluate, rows, world
  <1>6. CASE Throws(t)
    <2>1. left' \in [EnvKinds -> Nat]
      BY <1>6, SpendStep, KindsAre DEF Throws
    <2>2. QED
      BY <1>6, <1>1, <2>1 DEF Throws, rows, world
  <1>7. QED
    BY <1>2, <1>3, <1>4, <1>5, <1>6 DEF JobStep

LEMMA UserTypes ==
  ASSUME TypeOK, NEW S, NEW s \in Statuses, SetStatus(S, s), ByUser
  PROVE  TypeOK'
  <1>1. alerts' \in [Ids -> Statuses]
    BY StatusStep
  <1>2. left' \in [EnvKinds -> Nat]
    BY SpendStep, KindsAre DEF ByUser, TypeOK
  <1>3. QED
    BY <1>1, <1>2 DEF ByUser, TypeOK, world

\* All other steps.
LEMMA OtherTypes ==
  ASSUME TypeOK,
         \/ \E t \in RuleTicks : RuleTick(t)
         \/ \E t \in SloTicks : SloTick(t)
         \/ \E a \in Ids : Remediate(a) \/ Remediated(a)
         \/ \E s \in Slos : MetricChanges(s) \/ Toggle(s)
         \/ FaultChanges
         \/ Crash
  PROVE  TypeOK'
  <1>1. \A k \in EnvKinds : Spend(k) => left' \in [EnvKinds -> Nat]
    BY SpendStep DEF TypeOK
  <1> USE <1>1, KindsAre DEF TypeOK, rows, world
  <1>2. ASSUME NEW t \in RuleTicks, RuleTick(t) PROVE TypeOK'
    BY <1>2 DEF RuleTick, Jobs, Ticks
  <1>3. ASSUME NEW t \in SloTicks, SloTick(t) PROVE TypeOK'
    <2>1. t \in Ticks /\ job[t] \in Jobs
      BY DEF Ticks
    <2>2. [job[t] EXCEPT !.pc = "next", !.was = breached, !.todo = active] \in Jobs
      BY <2>1 DEF Jobs
    <2>3. job' \in [Ticks -> Jobs]
      BY <1>3, <2>1, <2>2 DEF SloTick
    <2>4. QED
      BY <1>3, <2>3 DEF SloTick
  <1>4. ASSUME NEW a \in Ids, Remediate(a) PROVE TypeOK'
    BY <1>4 DEF Remediate
  <1>5. ASSUME NEW a \in Ids, Remediated(a) PROVE TypeOK'
    <2>1. alerts' \in [Ids -> Statuses]
      BY <1>5, StatusStep DEF Remediated, Statuses
    <2>2. QED
      BY <1>5, <2>1 DEF Remediated
  <1>6. ASSUME NEW s \in Slos, MetricChanges(s) \/ Toggle(s) PROVE TypeOK'
    BY <1>6 DEF MetricChanges, Toggle
  <1>7. CASE FaultChanges
    BY <1>7 DEF FaultChanges
  <1>8. CASE Crash
    BY <1>8 DEF Crash, Jobs, Idle
  <1>9. QED
    BY <1>2, <1>3, <1>4, <1>5, <1>6, <1>7, <1>8

LEMMA TypeStep ==
  ASSUME TypeOK, [Next]_vars
  PROVE  TypeOK'
  <1>1. CASE \E t \in Ticks : JobStep(t) \/ Throws(t)
    BY <1>1, JobTypes
  <1>2. CASE \E S, s : s \in Statuses /\ SetStatus(S, s) /\ ByUser
    BY <1>2, UserTypes
  <1>3. ASSUME NEW a \in Ids, Acknowledge(a) \/ Resolve(a) \/ Suppress(a) PROVE TypeOK'
    BY <1>3, <1>2 DEF Acknowledge, Resolve, Suppress, Statuses
  <1>4. ASSUME NEW S \in SUBSET Ids, BulkAcknowledge(S) \/ BulkResolve(S) PROVE TypeOK'
    BY <1>4, <1>2 DEF BulkAcknowledge, BulkResolve, Statuses
  <1>5. CASE UNCHANGED vars
    BY <1>5 DEF vars, rows, world, TypeOK
  <1>6. QED
    BY <1>1, <1>3, <1>4, <1>5, OtherTypes DEF Next, UserStep

\* The initial states are well typed.
LEMMA InitTypes == Init => TypeOK
  <1> SUFFICES ASSUME Init PROVE TypeOK
    OBVIOUS
  <1>1. overlap \in BOOLEAN
    BY Zenon DEF Init
  <1>2. QED
    BY <1>1, BudgetAssumption DEF Init, TypeOK, Statuses, Jobs, Idle

\* For any rows, SLOs, ticks and budgets, overlapping or not.
THEOREM AlertTypes == Spec => []TypeOK
  <1>1. Init => TypeOK
    BY InitTypes
  <1>2. QED
    BY <1>1, TypeStep, PTL DEF Spec

-----------------------------------------------------------------------------
\* What a step does to the budget.
LEMMA Spending ==
  ASSUME [Next]_vars
  PROVE  /\ source' = source
         /\ \/ UNCHANGED left
            \/ \E k \in EnvKinds : Spend(k)
  <1> USE KindsAre
  <1>1. ASSUME NEW t \in Ticks, JobStep(t) \/ Throws(t) \/ RuleTick(t) \/ SloTick(t)
        PROVE  source' = source /\ (UNCHANGED left \/ \E k \in EnvKinds : Spend(k))
    BY <1>1 DEF JobStep, Find, Reactivate, Raise, Close, Written, Clear, Evaluate, Throws,
                RuleTick, SloTick
  <1>2. ASSUME NEW a \in Ids, UserStep(a) \/ Remediated(a)
        PROVE  source' = source /\ (UNCHANGED left \/ \E k \in EnvKinds : Spend(k))
    BY <1>2 DEF UserStep, Acknowledge, Resolve, Suppress, ByUser, Remediate, Remediated
  <1>3. ASSUME NEW S \in SUBSET Ids, BulkAcknowledge(S) \/ BulkResolve(S)
        PROVE  source' = source /\ (UNCHANGED left \/ \E k \in EnvKinds : Spend(k))
    BY <1>3 DEF BulkAcknowledge, BulkResolve, ByUser
  <1>4. ASSUME NEW s \in Slos, MetricChanges(s) \/ Toggle(s)
        PROVE  source' = source /\ (UNCHANGED left \/ \E k \in EnvKinds : Spend(k))
    BY <1>4 DEF MetricChanges, Toggle
  <1>5. CASE FaultChanges \/ Crash
    BY <1>5 DEF FaultChanges, Crash
  <1>6. CASE UNCHANGED vars
    BY <1>6 DEF vars
  <1>7. QED
    BY <1>1, <1>2, <1>3, <1>4, <1>5, <1>6 DEF Next, Ticks

LEMMA BoundStep ==
  ASSUME TypeOK, Bounded, [Next]_vars
  PROVE  Bounded'
  <1>1. CASE UNCHANGED left
    BY <1>1 DEF Bounded
  <1>2. ASSUME NEW k \in EnvKinds, Spend(k) PROVE Bounded'
    <2>1. \A j \in EnvKinds : left'[j] <= left[j] /\ left'[j] \in Nat /\ left[j] \in Nat
      BY <1>2, SpendStep DEF TypeOK
    <2>2. QED
      BY <2>1, BudgetAssumption DEF Bounded
  <1>3. QED
    BY <1>1, <1>2, Spending

\* A spent disturbance shows for good.
LEMMA SpentShows ==
  ASSUME TypeOK, Bounded, NEW k \in {"user", "fail", "crash"}, Spend(k)
  PROVE  ~Undisturbed'
  <1>1. k \in EnvKinds
    BY KindsAre
  <1>2. left'[k] < left[k] /\ left[k] <= Budget[k] /\ left'[k] \in Nat /\ left[k] \in Nat
    BY <1>1, SpendStep DEF TypeOK, Bounded
  <1>3. Budget[k] \in Nat
    BY <1>1, BudgetAssumption
  <1>4. left'[k] # Budget[k]
    BY <1>2, <1>3
  <1>5. QED
    BY <1>4 DEF Undisturbed

\* So a step between two quiet states is one of the evaluator, the end of a
\* remediation or a change of a metric.
LEMMA QuietSteps ==
  ASSUME TypeOK, Bounded, [Next]_vars, Quiet'
  PROVE  /\ Quiet
         /\ \/ \E t \in SloTicks : SloTick(t)
            \/ \E t \in Ticks : JobStep(t)
            \/ \E a \in Ids : Remediated(a)
            \/ \E s \in Slos : MetricChanges(s)
            \/ UNCHANGED vars
  <1>1. source = "slo" /\ Undisturbed'
    BY Spending DEF Quiet
  <1>2. \A k \in {"user", "fail", "crash"} : ~Spend(k)
    BY <1>1, SpentShows
  <1>3. Undisturbed
    <2>1. ASSUME NEW k \in {"user", "fail", "crash"} PROVE left[k] = Budget[k]
      <3>1. k \in EnvKinds /\ left'[k] = Budget[k]
        BY <1>1, KindsAre DEF Undisturbed
      <3>2. CASE UNCHANGED left
        BY <3>1, <3>2
      <3>3. ASSUME NEW j \in EnvKinds, Spend(j) PROVE left[k] = Budget[k]
        <4>1. left'[k] <= left[k] /\ left[k] <= Budget[k] /\ left[k] \in Nat /\ Budget[k] \in Nat
          BY <3>1, <3>3, SpendStep, BudgetAssumption DEF TypeOK, Bounded
        <4>2. QED
          BY <4>1, <3>1
      <3>4. QED
        BY <3>2, <3>3, Spending
    <2>2. QED
      BY <2>1 DEF Undisturbed
  <1>4. /\ \A t \in Ticks : ~Throws(t) /\ ~RuleTick(t)
        /\ \A a \in Ids : ~UserStep(a)
        /\ \A S \in SUBSET Ids : ~BulkAcknowledge(S) /\ ~BulkResolve(S)
        /\ \A s \in Slos : ~Toggle(s)
        /\ ~FaultChanges /\ ~Crash
    BY <1>1, <1>2
       DEF Throws, RuleTick, UserStep, Acknowledge, Resolve, Suppress, ByUser, Remediate,
           BulkAcknowledge, BulkResolve, Toggle, FaultChanges, Crash
  <1>5. ~overlap
    <2>1. overlap => overlap'
      <3>1. ASSUME NEW t \in SloTicks, SloTick(t) PROVE overlap => overlap'
        BY <3>1, Zenon DEF SloTick
      <3>2. ASSUME NEW t \in Ticks, JobStep(t) PROVE overlap' = overlap
        BY <3>2 DEF JobStep, Find, Reactivate, Raise, Close, Written, Clear, Evaluate
      <3>3. (\E a \in Ids : Remediated(a)) \/ (\E s \in Slos : MetricChanges(s)) \/ UNCHANGED vars
              => overlap' = overlap
        BY DEF Remediated, MetricChanges, vars
      <3>4. QED
        BY <1>4, <3>1, <3>2, <3>3, Zenon DEF Next, Ticks
    <2>2. ~overlap'
      BY Zenon DEF Quiet
    <2>3. QED
      BY <2>1, <2>2, Zenon
  <1>6. QED
    BY <1>1, <1>3, <1>4, <1>5 DEF Next, Ticks, Quiet

-----------------------------------------------------------------------------
\* With one tick at a time it is enough to look at that tick.
LEMMA TidyOf ==
  ASSUME NEW t \in SloTicks, Alone(t), TypeOK, TypeOK', Tidy,
         \A u \in Ticks \ {t} : job'[u] = job[u],
         Plain', Informed(t)',
         (\A s \in Slos : s \notin breached') =>
           (\A a \in Ids : alerts'[a] # "ACTIVE") \/ job'[t].op = "resolve"
  PROVE  Tidy'
  <1>1. \A u \in RuleTicks : job'[u] = Idle
    BY TickAssumption DEF Tidy, Ticks
  <1>2. \A u \in SloTicks : u # t => job'[u] = Idle
    BY DEF Alone, Ticks
  <1>3. \A u \in SloTicks : Informed(u)'
    BY <1>2 DEF Informed, Idle
  <1>6. OneTick'
    BY <1>2 DEF OneTick, Alone
  <1>4. Due'
    BY DEF Due
  <1>5. QED
    BY <1>1, <1>3, <1>4, <1>6 DEF Tidy

\* The tick lists the SLOs: all it reads is right.
LEMMA TidySloTick ==
  ASSUME NEW t \in SloTicks, Alone(t), TypeOK, TypeOK', Tidy, SloTick(t)
  PROVE  Tidy'
  <1>1. t \in Ticks
    BY DEF Ticks
  <1>2. /\ job[t] = Idle
        /\ job' = [job EXCEPT ![t] = [Idle EXCEPT !.pc = "next", !.was = breached, !.todo = active]]
    BY DEF SloTick
  <1>3. /\ job'[t].pc = "next" /\ job'[t].op = "none"
        /\ job'[t].was = breached /\ job'[t].todo = active /\ job'[t].row = None
        /\ \A u \in Ticks \ {t} : job'[u] = job[u]
    BY <1>1, <1>2 DEF TypeOK, Idle
  <1>4. UNCHANGED <<breached, alerts, fixing>>
    BY DEF SloTick, rows
  <1>5. Plain'
    BY <1>4 DEF Tidy, Plain
  <1>6. Informed(t)'
    BY <1>3, <1>4 DEF Informed
  <1>7. (\A s \in Slos : s \notin breached) => \A a \in Ids : alerts[a] # "ACTIVE"
    <2>1. \A u \in SloTicks : job[u].op # "resolve"
      BY <1>2 DEF Idle, Alone
    <2>2. QED
      BY <2>1 DEF Tidy, Due
  <1>8. QED
    BY <1>3, <1>4, <1>5, <1>6, <1>7, TidyOf

LEMMA Proceeding ==
  ASSUME TypeOK, NEW t \in Ticks
  PROVE  /\ Proceed(t).op = "none" /\ Proceed(t).row = None
         /\ \/ Proceed(t) = Idle
            \/ /\ Proceed(t).pc = "next"
               /\ Proceed(t).was = job[t].was /\ Proceed(t).todo = job[t].todo
  BY DEF TypeOK, Proceed, Jobs, Idle

\* A tick that has finished with an SLO still knows the rest.
LEMMA InformedAfter ==
  ASSUME NEW t \in SloTicks, TypeOK, Informed(t), job'[t] = Proceed(t), UNCHANGED breached
  PROVE  Informed(t)'
  <1>1. t \in Ticks
    BY DEF Ticks
  <1>2. CASE Proceed(t) = Idle
    BY <1>2 DEF Informed, Idle
  <1>3. ASSUME Proceed(t).pc = "next",
               Proceed(t).was = job[t].was, Proceed(t).todo = job[t].todo
        PROVE  Informed(t)'
    <2>1. /\ job'[t].pc = "next" /\ job'[t].op = "none" /\ job'[t].row = None
          /\ job'[t].was = job[t].was /\ job'[t].todo = job[t].todo
      BY <1>1, <1>3, Proceeding
    <2>2. \A s \in job'[t].todo : s \in job'[t].was <=> s \in breached'
      BY <2>1 DEF Informed
    <2>3. QED
      BY <2>1, <2>2 DEF Informed
  <1>4. QED
    BY <1>1, <1>2, <1>3, Proceeding

LEMMA TidyFind ==
  ASSUME NEW t \in SloTicks, Alone(t), TypeOK, TypeOK', Tidy, Find(t)
  PROVE  Tidy'
  <1> DEFINE found == With(IF job[t].op = "upsert" THEN Open ELSE Resolvable)
  <1>1. /\ t \in Ticks /\ job[t] \in Jobs /\ Informed(t) /\ Plain
        /\ job[t].pc = "find" /\ job[t].op \in {"upsert", "resolve"}
    BY DEF Ticks, TypeOK, Tidy, Find, Informed
  <1>2. UNCHANGED <<breached, alerts, fixing>> /\ Plain'
    BY <1>1 DEF Find, rows, Plain
  <1>3. \A a \in Ids : a \in found <=> alerts[a] = "ACTIVE"
    BY <1>1 DEF Plain, With, Open, Resolvable
  <1>4. Due /\ \A u \in SloTicks : u # t => job[u].op = "none"
    BY DEF Tidy, Alone, Idle
  <1>5. ASSUME NEW a \in found, job' = [job EXCEPT ![t].pc = "write", ![t].row = a]
        PROVE  Tidy'
    <2>1. /\ job'[t] = [job[t] EXCEPT !.pc = "write", !.row = a]
          /\ \A u \in Ticks \ {t} : job'[u] = job[u]
      BY <1>1, <1>5 DEF TypeOK
    <2>2. /\ job'[t].pc = "write" /\ job'[t].row = a /\ job'[t].op = job[t].op
          /\ job'[t].slo = job[t].slo /\ job'[t].was = job[t].was /\ job'[t].todo = job[t].todo
      BY <1>1, <2>1 DEF Jobs
    <2>3. a \in Ids /\ a # None
      BY NoneAssumption DEF With
    <2>4. alerts'[a] = "ACTIVE"
      BY <1>2, <1>3, <2>3
    <2>5. Informed(t)'
      <3>1. /\ job'[t].op \in {"upsert", "resolve"}
            /\ job'[t].op = "upsert" => job'[t].slo \in breached'
            /\ \A s \in job'[t].todo : s \in job'[t].was <=> s \in breached'
        BY <1>1, <1>2, <2>2 DEF Informed
      <3>2. QED
        BY <2>2, <2>3, <2>4, <3>1 DEF Informed
    <2>6. (\A s \in Slos : s \notin breached') => job'[t].op = "resolve"
      BY <1>2, <1>4, <2>2, <2>3, <2>4 DEF Due
    <2>7. QED
      BY <1>2, <2>1, <2>5, <2>6, TidyOf
  <1>6. CASE found = {} /\ job[t].op = "upsert"
    <2>1. job' = [job EXCEPT ![t] = [job[t] EXCEPT !.pc = "write"]] \/ found # {}
      BY <1>6 DEF Find
    <2>2. job'[t] = [job[t] EXCEPT !.pc = "write"] /\ \A u \in Ticks \ {t} : job'[u] = job[u]
      BY <1>1, <1>6, <2>1 DEF TypeOK
    <2>3. /\ job'[t].pc = "write" /\ job'[t].row = job[t].row /\ job'[t].op = "upsert"
          /\ job'[t].slo = job[t].slo /\ job'[t].was = job[t].was /\ job'[t].todo = job[t].todo
      BY <1>1, <1>6, <2>2 DEF Jobs
    <2>4. \A a \in Ids : alerts'[a] # "ACTIVE"
      BY <1>2, <1>3, <1>6
    <2>5. job[t].row = None
      BY <1>1 DEF Informed
    <2>6. Informed(t)'
      <3>1. /\ job'[t].slo \in breached'
            /\ \A s \in job'[t].todo : s \in job'[t].was <=> s \in breached'
        BY <1>1, <1>2, <1>6, <2>3 DEF Informed
      <3>2. QED
        BY <2>3, <2>4, <2>5, <3>1 DEF Informed
    <2>7. QED
      BY <1>2, <2>2, <2>4, <2>6, TidyOf
  <1>7. CASE found = {} /\ job[t].op = "resolve"
    <2>1. job' = [job EXCEPT ![t] = Proceed(t)]
      BY <1>7 DEF Find
    <2>2. job'[t] = Proceed(t) /\ \A u \in Ticks \ {t} : job'[u] = job[u]
      BY <1>1, <2>1 DEF TypeOK
    <2>3. Informed(t)'
      BY <1>1, <1>2, <2>2, InformedAfter
    <2>4. \A a \in Ids : alerts'[a] # "ACTIVE"
      BY <1>2, <1>3, <1>7
    <2>5. QED
      BY <1>2, <2>2, <2>3, <2>4, TidyOf
  <1>8. QED
    BY <1>1, <1>5, <1>6, <1>7 DEF Find

\* The three writes: the found row is open, and only a missing one is added.
LEMMA TidyWritten ==
  ASSUME NEW t \in SloTicks, Alone(t), TypeOK, TypeOK', Tidy,
         Reactivate(t) \/ Raise(t) \/ Close(t)
  PROVE  Tidy'
  <1>1. /\ t \in Ticks /\ job[t] \in Jobs /\ Informed(t) /\ Plain
        /\ job[t].pc = "write"
    BY DEF Ticks, TypeOK, Tidy, Reactivate, Raise, Close, Written
  <1>2. /\ job' = [job EXCEPT ![t] = Proceed(t)]
        /\ UNCHANGED <<breached, fixing>>
    BY DEF Reactivate, Raise, Close, Written
  <1>3. job'[t] = Proceed(t) /\ \A u \in Ticks \ {t} : job'[u] = job[u]
    BY <1>1, <1>2 DEF TypeOK
  <1>4. Informed(t)'
    BY <1>1, <1>2, <1>3, InformedAfter
  <1>5. CASE Reactivate(t)
    <2>1. alerts[job[t].row] = "ACTIVE" /\ job[t].slo \in breached
      BY <1>1, <1>5 DEF Informed, Reactivate
    <2>2. \A a \in Ids : alerts'[a] = alerts[a]
      BY <1>5, <2>1 DEF Reactivate, Written, SetStatus
    <2>3. Plain'
      BY <1>1, <1>2, <2>2 DEF Plain
    <2>4. job[t].slo \in Slos
      BY <2>1 DEF TypeOK
    <2>5. QED
      BY <1>2, <1>3, <1>4, <2>1, <2>3, <2>4, TidyOf
  <1>6. CASE Raise(t)
    <2>1. (\A a \in Ids : alerts[a] # "ACTIVE") /\ job[t].slo \in breached
      BY <1>1, <1>6 DEF Informed, Raise
    <2>2. PICK b \in Ids : \A a \in Ids : alerts'[a] = IF a = b THEN "ACTIVE" ELSE alerts[a]
      BY <1>6 DEF Raise, Written, SetStatus, Vacant, With
    <2>3. Plain'
      BY <1>1, <1>2, <2>1, <2>2 DEF Plain
    <2>4. job[t].slo \in Slos
      BY <2>1 DEF TypeOK
    <2>5. QED
      BY <1>2, <1>3, <1>4, <2>1, <2>3, <2>4, TidyOf
  <1>7. CASE Close(t)
    <2>1. alerts[job[t].row] = "ACTIVE"
      BY <1>1, <1>7 DEF Informed, Close
    <2>2. \A a \in Ids : alerts'[a] = IF a = job[t].row THEN "RESOLVED" ELSE alerts[a]
      BY <1>7 DEF Close, Written, SetStatus
    <2>3. job[t].row \in Ids
      BY <1>1, <1>7 DEF Close, Informed, Jobs
    <2>4. (\A a \in Ids : alerts'[a] # "ACTIVE") /\ Plain'
      BY <1>1, <1>2, <2>1, <2>2, <2>3 DEF Plain
    <2>5. QED
      BY <1>3, <1>4, <2>4, TidyOf
  <1>8. QED
    BY <1>5, <1>6, <1>7

\* The recovered SLO is cleared a second time, on its own.
LEMMA TidyClear ==
  ASSUME NEW t \in SloTicks, Alone(t), TypeOK, TypeOK', Tidy, Clear(t)
  PROVE  Tidy'
  <1>1. /\ t \in Ticks /\ job[t] \in Jobs /\ Informed(t) /\ Plain
        /\ job[t].pc = "clear" /\ job[t].op = "resolve" /\ job[t].slo \notin job[t].todo
        /\ job[t].row = None
    BY DEF Ticks, TypeOK, Tidy, Clear, Informed
  <1>2. /\ job' = [job EXCEPT ![t].pc = "find"] /\ UNCHANGED <<alerts, fixing>>
        /\ breached' = breached \ {job[t].slo}
    BY DEF Clear, rows
  <1>3. /\ job'[t] = [job[t] EXCEPT !.pc = "find"]
        /\ \A u \in Ticks \ {t} : job'[u] = job[u]
    BY <1>1, <1>2 DEF TypeOK
  <1>4. /\ job'[t].pc = "find" /\ job'[t].row = None /\ job'[t].op = "resolve"
        /\ job'[t].was = job[t].was /\ job'[t].todo = job[t].todo
    BY <1>1, <1>3 DEF Jobs
  <1>5. \A s \in job'[t].todo : s \in job'[t].was <=> s \in breached'
    BY <1>1, <1>2, <1>4 DEF Informed
  <1>6. Informed(t)'
    BY <1>4, <1>5 DEF Informed
  <1>7. Plain'
    BY <1>1, <1>2 DEF Plain
  <1>8. QED
    BY <1>3, <1>4, <1>6, <1>7, TidyOf

\* One SLO is compared with what the list said of it, which is what is saved.
LEMMA TidyEvaluate ==
  ASSUME NEW t \in SloTicks, NEW s \in Slos, Alone(t), TypeOK, TypeOK', Tidy, Evaluate(t, s)
  PROVE  Tidy'
  <1> DEFINE rest == job[t].todo \ {s}
             go(pc, op) == [job[t] EXCEPT !.pc = pc, !.op = op, !.slo = s, !.todo = rest]
             stay == IF rest = {} THEN Idle ELSE [job[t] EXCEPT !.todo = rest]
  <1>1. /\ t \in Ticks /\ job[t] \in Jobs /\ Informed(t) /\ Plain /\ Due
        /\ job[t].pc = "next" /\ job[t].op = "none" /\ job[t].row = None
        /\ s \in job[t].todo /\ (s \in job[t].was <=> s \in breached)
    BY DEF Ticks, TypeOK, Tidy, Evaluate, Informed
  <1>2. UNCHANGED <<alerts, fixing>> /\ Plain'
    BY <1>1 DEF Evaluate, rows, Plain
  <1>3. \A r \in rest : r \in job[t].was <=> r \in breached'
    BY <1>1 DEF Evaluate, Informed
  <1>4. ASSUME NEW j, job' = [job EXCEPT ![t] = j]
        PROVE  job'[t] = j /\ \A u \in Ticks \ {t} : job'[u] = job[u]
    BY <1>1, <1>4 DEF TypeOK
  <1>5. CASE job' = [job EXCEPT ![t] = go("find", "upsert")] /\ breached' = breached \cup {s}
    <2>1. job'[t] = go("find", "upsert") /\ \A u \in Ticks \ {t} : job'[u] = job[u]
      BY <1>4, <1>5
    <2>2. /\ job'[t].pc = "find" /\ job'[t].op = "upsert" /\ job'[t].row = None
          /\ job'[t].slo = s /\ job'[t].was = job[t].was /\ job'[t].todo = rest
      BY <1>1, <2>1 DEF Jobs
    <2>3. s \in breached' /\ \A r \in job'[t].todo : r \in job'[t].was <=> r \in breached'
      BY <1>3, <1>5, <2>2
    <2>4. Informed(t)'
      BY <2>2, <2>3 DEF Informed
    <2>5. QED
      BY <1>2, <2>1, <2>3, <2>4, TidyOf
  <1>6. CASE job' = [job EXCEPT ![t] = go("clear", "resolve")]
    <2>1. job'[t] = go("clear", "resolve") /\ \A u \in Ticks \ {t} : job'[u] = job[u]
      BY <1>4, <1>6
    <2>2. /\ job'[t].pc = "clear" /\ job'[t].op = "resolve" /\ job'[t].row = None
          /\ job'[t].slo = s /\ job'[t].was = job[t].was /\ job'[t].todo = rest
      BY <1>1, <2>1 DEF Jobs
    <2>3. \A r \in job'[t].todo : r \in job'[t].was <=> r \in breached'
      BY <1>3, <2>2
    <2>4. Informed(t)'
      BY <2>2, <2>3 DEF Informed
    <2>5. QED
      BY <1>2, <2>1, <2>2, <2>4, TidyOf
  <1>7. CASE job' = [job EXCEPT ![t] = stay] /\ breached' = breached
    <2>1. job'[t] = stay /\ \A u \in Ticks \ {t} : job'[u] = job[u]
      BY <1>4, <1>7
    <2>2. (\A r \in Slos : r \notin breached') => \A a \in Ids : alerts'[a] # "ACTIVE"
      <3>1. \A u \in SloTicks : job[u].op = "none"
        BY <1>1 DEF Alone, Idle
      <3>2. QED
        BY <1>1, <1>2, <1>7, <3>1 DEF Due
    <2>3. Informed(t)'
      <3>1. CASE rest = {}
        BY <2>1, <3>1 DEF Informed, Idle
      <3>2. CASE rest # {}
        <4>1. /\ job'[t].pc = "next" /\ job'[t].op = "none" /\ job'[t].row = None
              /\ job'[t].was = job[t].was /\ job'[t].todo = rest
          BY <1>1, <2>1, <3>2 DEF Jobs
        <4>2. \A r \in job'[t].todo : r \in job'[t].was <=> r \in breached'
          BY <1>3, <4>1
        <4>3. QED
          BY <4>1, <4>2 DEF Informed
      <3>3. QED
        BY <3>1, <3>2
    <2>4. QED
      BY <1>2, <2>1, <2>2, <2>3, TidyOf
  <1>8. \/ /\ job' = [job EXCEPT ![t] = go("find", "upsert")]
           /\ breached' = breached \cup {s}
        \/ job' = [job EXCEPT ![t] = go("clear", "resolve")]
        \/ job' = [job EXCEPT ![t] = stay] /\ breached' = breached
    <2>1. metric[s] \in {"met", "missed", "nodata"}
      BY DEF TypeOK
    <2>2. CASE metric[s] = "missed"
      BY <1>1, <2>2 DEF Evaluate
    <2>3. CASE metric[s] = "met"
      BY <1>1, <2>3 DEF Evaluate
    <2>4. CASE metric[s] = "nodata"
      BY <1>1, <2>4 DEF Evaluate
    <2>5. QED
      BY <2>1, <2>2, <2>3, <2>4
  <1>9. QED
    BY <1>5, <1>6, <1>7, <1>8

-----------------------------------------------------------------------------
\* No step of an undisturbed evaluator breaks the agreement.
LEMMA TidyStep ==
  ASSUME TypeOK, TypeOK', Bounded, Tidy, [Next]_vars, Quiet'
  PROVE  Tidy'
  <1>1. ASSUME NEW t \in SloTicks, SloTick(t) \/ JobStep(t) PROVE Tidy'
    <2>1. CASE SloTick(t)
      <3>1. Alone(t)
        BY <2>1 DEF SloTick, Quiet, Alone
      <3>2. QED
        BY <2>1, <3>1, TidySloTick
    <2>2. CASE JobStep(t)
      <3>1. job[t].pc \in {"find", "write", "clear", "next"}
        BY <2>2, Zenon DEF JobStep, Find, Reactivate, Raise, Close, Written, Clear, Evaluate
      <3>2. Alone(t)
        BY <3>1 DEF Tidy, OneTick, Idle
      <3>3. QED
        BY <2>2, <3>2, TidyFind, TidyWritten, TidyClear, TidyEvaluate DEF JobStep
    <2>3. QED
      BY <1>1, <2>1, <2>2
  <1>2. ASSUME NEW t \in RuleTicks, JobStep(t) PROVE FALSE
    <2>1. job[t].pc = "idle"
      BY DEF Tidy, Idle
    <2>2. job[t].pc \in {"find", "write", "clear", "next"}
      BY <1>2, Zenon DEF JobStep, Find, Reactivate, Raise, Close, Written, Clear, Evaluate
    <2>3. QED
      BY <2>1, <2>2
  <1>3. ASSUME NEW a \in Ids, Remediated(a) PROVE FALSE
    BY <1>3 DEF Tidy, Plain, Remediated
  <1>4. CASE UNCHANGED <<alerts, fixing, breached, job>>
    BY <1>4 DEF Tidy, Plain, Informed, Due, OneTick, Alone
  <1>5. (\E s \in Slos : MetricChanges(s)) \/ UNCHANGED vars
          => UNCHANGED <<alerts, fixing, breached, job>>
    BY DEF MetricChanges, vars, rows
  <1>6. QED
    BY <1>1, <1>2, <1>3, <1>4, <1>5, QuietSteps DEF Ticks

LEMMA AgreementStep ==
  ASSUME Agreement, [Next]_vars
  PROVE  Agreement'
  <1>1. TypeOK /\ TypeOK' /\ Bounded /\ Bounded'
    BY TypeStep, BoundStep DEF Agreement
  <1>2. ASSUME Quiet' PROVE Tidy'
    <2>1. Tidy
      BY <1>1, <1>2, QuietSteps DEF Agreement
    <2>2. QED
      BY <1>1, <1>2, <2>1, TidyStep
  <1>3. QED
    BY <1>1, <1>2 DEF Agreement

\* For any number of SLOs, rows and ticks: as long as no tick of evaluateAllSlos has begun
\* before the last one had ended, and nobody else touched the alert, an alert that is open
\* between ticks stands for a breached SLO.
THEOREM SloAlertsFollow == Spec => []NoStaleSloAlert
  <1>1. Init => Agreement
    <2>1. Init => TypeOK
      BY InitTypes
    <2>2. Init => Bounded
      BY BudgetAssumption DEF Init, Bounded
    <2>3. Init => Tidy
      BY DEF Init, Tidy, Plain, Informed, Due, Idle, Ticks, OneTick, Alone
    <2>4. QED
      BY <2>1, <2>2, <2>3 DEF Agreement
  <1>2. Agreement /\ [Next]_vars => Agreement'
    BY AgreementStep
  <1>3. Agreement => NoStaleSloAlert
    <2> SUFFICES ASSUME Agreement, Quiet, \A t \in Ticks : job[t] = Idle, breached = {}
                 PROVE  With(Open) = {}
      BY DEF NoStaleSloAlert, Quiet
    <2>1. Tidy /\ \A t \in SloTicks : job[t].op # "resolve"
      BY DEF Agreement, Ticks, Idle
    <2>2. \A a \in Ids : alerts[a] # "ACTIVE" /\ alerts[a] \in {"none", "ACTIVE", "RESOLVED"}
      BY <2>1 DEF Tidy, Plain, Due
    <2>3. QED
      BY <2>2 DEF With, Open
  <1>4. QED
    BY <1>1, <1>2, <1>3, PTL DEF Spec
=============================================================================
