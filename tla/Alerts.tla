------------------------------- MODULE Alerts -------------------------------
(***************************************************************************)
(* The health alerts of one key (a rule and an instance): the rows, the    *)
(* operators and remediations that change them by id, and the cron job     *)
(* that opens and closes them by key.  Keys share no row, so one is        *)
(* enough.  A key belongs to a rule of AlertingService or, for the rule    *)
(* "slo_breach", to the SloEvaluator and all SLOs of the instance.         *)
(*                                                                         *)
(* A tick of a cron job runs from await to await; Nest starts the next     *)
(* tick whether or not the last one has ended.  Changes by key find a row  *)
(* in one step and write it in another.                                    *)
(***************************************************************************)
EXTENDS Naturals

CONSTANTS
  Ids,        \* rows the table keeps: a new alert takes the slot of a resolved one
  Slos,       \* SLO definitions of the instance
  RuleTicks,  \* ticks of evaluateAlerts that can overlap
  SloTicks,   \* ticks of evaluateAllSlos that can overlap
  None,       \* no row, no SLO
  Budget      \* how often the environment may take each of its steps

EnvKinds == {"user", "fault", "metric", "fail", "crash"}

ASSUME BudgetAssumption == Budget \in [EnvKinds -> Nat]
ASSUME NoneAssumption == None \notin Ids \cup Slos
ASSUME TickAssumption == RuleTicks \cap SloTicks = {}

VARIABLES
  source,    \* who watches the key: "rule" or "slo"
  alerts,    \* HealthAlert.status of each row, "none" for a slot never used
  fixing,    \* alerts whose remediation is awaited
  fault,     \* what the rule sees: "present", "absent" or too early to tell
  metric,    \* what the window of each SLO shows
  active,    \* SloDefinition.isActive
  breached,  \* SloDefinition.isBreached
  job,       \* the ticks in flight
  overlap,   \* history: a tick of evaluateAllSlos began before the last one had ended
  left       \* what remains of Budget

rows == <<alerts, fixing>>
world == <<fault, metric, active>>
vars == <<source, rows, world, breached, job, overlap, left>>

Ticks == RuleTicks \cup SloTicks

Idle == [pc |-> "idle", op |-> "none", row |-> None, slo |-> None, was |-> {}, todo |-> {}]

Statuses == {"none", "ACTIVE", "ACKNOWLEDGED", "SUPPRESSED", "RESOLVED"}

Jobs == [pc : {"idle", "next", "clear", "find", "write"}, op : {"none", "upsert", "resolve"},
         row : Ids \cup {None}, slo : Slos \cup {None}, was : SUBSET Slos, todo : SUBSET Slos]

TypeOK ==
  /\ source \in {"rule", "slo"}
  /\ alerts \in [Ids -> Statuses]
  /\ fixing \in SUBSET Ids
  /\ fault \in {"present", "absent", "unclear"}
  /\ metric \in [Slos -> {"met", "missed", "nodata"}]
  /\ active \in SUBSET Slos
  /\ breached \in SUBSET Slos
  /\ job \in [Ticks -> Jobs]
  /\ overlap \in BOOLEAN
  /\ left \in [EnvKinds -> Nat]

Spend(k) == left[k] > 0 /\ left' = [left EXCEPT ![k] = @ - 1]

-----------------------------------------------------------------------------
(* AlertRepository: changes by id *)

With(S) == {a \in Ids : alerts[a] \in S}
Rows == With(Statuses \ {"none"})

SetStatus(S, s) == alerts' = [a \in Ids |-> IF a \in S THEN s ELSE alerts[a]]

ByUser == Spend("user") /\ UNCHANGED <<source, overlap, fixing, world, breached, job>>

\* By id, whatever the status: a resolved alert can be acknowledged again.
Acknowledge(a) == a \in Rows /\ SetStatus({a}, "ACKNOWLEDGED") /\ ByUser
Resolve(a) == a \in Rows /\ SetStatus({a}, "RESOLVED") /\ ByUser

\* Faulty variant: a status nothing else knows.
SuppressUnknown(a) == a \in Rows /\ SetStatus({a}, "MUTED") /\ ByUser

Suppress(a) == a \in Rows /\ SetStatus({a}, "SUPPRESSED") /\ ByUser

BulkAcknowledge(S) == SetStatus(S \cap With({"ACTIVE"}), "ACKNOWLEDGED") /\ ByUser
BulkResolve(S) == SetStatus(S \cap With({"ACTIVE", "ACKNOWLEDGED"}), "RESOLVED") /\ ByUser

\* RemediationService.executeRemediation up to its await ...
Remediate(a) ==
  /\ a \in Rows \ fixing
  /\ Spend("user")
  /\ fixing' = fixing \cup {a}
  /\ UNCHANGED <<source, overlap, alerts, world, breached, job>>

\* ... and after it: only a success changes the status, and it always does.
Remediated(a) ==
  /\ a \in fixing
  /\ fixing' = fixing \ {a}
  /\ SetStatus({a}, "RESOLVED") \/ UNCHANGED alerts
  /\ UNCHANGED <<source, overlap, world, breached, job, left>>

-----------------------------------------------------------------------------
(* AlertRepository: changes by key *)

\* upsertByKey looks for a row that is not resolved, resolveByKey for one that
\* is active or acknowledged: a suppressed alert is left to the user.
Open == {"ACTIVE", "ACKNOWLEDGED", "SUPPRESSED"}

\* Faulty variant: acknowledged alerts are overlooked.
ResolvableActive == {"ACTIVE"}

Resolvable == {"ACTIVE", "ACKNOWLEDGED"}

\* What a tick does after this alert: the next SLO, or nothing.
Proceed(t) ==
  IF job[t].todo = {} THEN Idle
  ELSE [job[t] EXCEPT !.pc = "next", !.op = "none", !.row = None, !.slo = None]

\* findFirst names no order: any matching row.
Find(t) ==
  /\ job[t].pc = "find"
  /\ LET found == With(IF job[t].op = "upsert" THEN Open ELSE Resolvable) IN
     \/ \E a \in found : job' = [job EXCEPT ![t].pc = "write", ![t].row = a]
     \/ /\ found = {}
        /\ job' = [job EXCEPT ![t] =
             IF job[t].op = "upsert" THEN [@ EXCEPT !.pc = "write"] ELSE Proceed(t)]
  /\ UNCHANGED <<source, overlap, rows, world, breached, left>>

\* Slots nobody is about to write to.
Vacant == With({"none", "RESOLVED"}) \ (fixing \cup {job[t].row : t \in Ticks})

Written(t, a, s) ==
  /\ job[t].pc = "write"
  /\ SetStatus({a}, s)
  /\ job' = [job EXCEPT ![t] = Proceed(t)]
  /\ UNCHANGED <<source, overlap, fixing, world, breached, left>>

\* Faulty variant: an alert someone acknowledged or suppressed stays so.
UpdateQuietly(t) ==
  LET a == job[t].row IN
  job[t].op = "upsert" /\ a # None /\ Written(t, a, IF alerts[a] \in Open THEN alerts[a] ELSE "ACTIVE")

\* The alert that was found becomes active, whatever became of it meanwhile.
Reactivate(t) == job[t].op = "upsert" /\ job[t].row # None /\ Written(t, job[t].row, "ACTIVE")
Raise(t) == job[t].op = "upsert" /\ job[t].row = None /\ \E a \in Vacant : Written(t, a, "ACTIVE")
Close(t) == job[t].op = "resolve" /\ Written(t, job[t].row, "RESOLVED")

\* The find or the write throws: the tick loses this alert.
Throws(t) ==
  /\ job[t].pc # "idle"
  /\ Spend("fail")
  /\ job' = [job EXCEPT ![t] = Proceed(t)]
  /\ UNCHANGED <<source, overlap, rows, world, breached>>

-----------------------------------------------------------------------------
(* AlertingService.evaluateAlerts, every minute *)

\* The instances are listed and the rule decides: raise, close or neither.
RuleTick(t) ==
  /\ source = "rule" /\ job[t] = Idle
  /\ fault # "unclear"
  /\ job' = [job EXCEPT ![t].pc = "find",
                        ![t].op = IF fault = "present" THEN "upsert" ELSE "resolve"]
  /\ UNCHANGED <<source, overlap, rows, world, breached, left>>

-----------------------------------------------------------------------------
(* SloEvaluatorService.evaluateAllSlos, every minute *)

\* isBreached is read with the list; each SLO is compared with it later.
SloTick(t) ==
  /\ source = "slo" /\ job[t] = Idle
  /\ active # {}
  /\ job' = [job EXCEPT ![t].pc = "next", ![t].was = breached, ![t].todo = active]
  /\ overlap' = (overlap \/ \E u \in SloTicks : job[u] # Idle)
  /\ UNCHANGED <<source, rows, world, breached, left>>

\* evaluateSlo and the evaluation it saves; alerts change on a transition only.
Evaluate(t, s) ==
  LET missed == metric[s] = "missed"
      before == s \in job[t].was
      rest == job[t].todo \ {s}
      go(pc, op) == [job[t] EXCEPT !.pc = pc, !.op = op, !.slo = s, !.todo = rest]
  IN
  /\ job[t].pc = "next" /\ s \in job[t].todo
  /\ breached' = CASE metric[s] = "nodata" -> breached
                   [] missed -> breached \cup {s}
                   [] OTHER -> breached \ {s}
  /\ job' = [job EXCEPT ![t] =
       CASE missed /\ ~before -> go("find", "upsert")
         [] metric[s] = "met" /\ before -> go("clear", "resolve")
         [] OTHER -> IF rest = {} THEN Idle ELSE [@ EXCEPT !.todo = rest]]
  /\ UNCHANGED <<source, overlap, rows, world, left>>

\* Faulty variant: a recovered SLO forgets its alert.
ClearOnly(t) ==
  /\ job[t].pc = "clear"
  /\ breached' = breached \ {job[t].slo}
  /\ job' = [job EXCEPT ![t] = Proceed(t)]
  /\ UNCHANGED <<source, overlap, rows, world, left>>

Clear(t) ==
  /\ job[t].pc = "clear"
  /\ breached' = breached \ {job[t].slo}
  /\ job' = [job EXCEPT ![t].pc = "find"]
  /\ UNCHANGED <<source, overlap, rows, world, left>>

-----------------------------------------------------------------------------
(* The world *)

FaultChanges ==
  /\ source = "rule" /\ Spend("fault")
  /\ \E f \in {"present", "absent", "unclear"} \ {fault} : fault' = f
  /\ UNCHANGED <<source, overlap, rows, metric, active, breached, job>>

MetricChanges(s) ==
  /\ source = "slo" /\ Spend("metric")
  /\ \E m \in {"met", "missed", "nodata"} \ {metric[s]} : metric' = [metric EXCEPT ![s] = m]
  /\ UNCHANGED <<source, overlap, rows, fault, active, breached, job>>

\* A user switches an SLO on or off; nothing is done about its alert.
Toggle(s) ==
  /\ source = "slo" /\ Spend("user")
  /\ active' = IF s \in active THEN active \ {s} ELSE active \cup {s}
  /\ UNCHANGED <<source, overlap, rows, fault, metric, breached, job>>

Crash ==
  /\ Spend("crash")
  /\ job' = [t \in Ticks |-> Idle]
  /\ fixing' = {}
  /\ UNCHANGED <<source, overlap, alerts, world, breached>>

-----------------------------------------------------------------------------
Init ==
  /\ source \in {"rule", "slo"}
  /\ alerts = [a \in Ids |-> "none"]
  /\ fixing = {}
  /\ fault = "absent"
  /\ metric = [s \in Slos |-> "met"]
  /\ active = Slos
  /\ breached = {}
  /\ job = [t \in Ticks |-> Idle]
  /\ overlap = FALSE
  /\ left = Budget

JobStep(t) ==
  \/ Find(t) \/ Reactivate(t) \/ Raise(t) \/ Close(t) \/ Clear(t)
  \/ \E s \in Slos : Evaluate(t, s)

UserStep(a) == Acknowledge(a) \/ Resolve(a) \/ Suppress(a) \/ Remediate(a)

Next ==
  \/ \E t \in RuleTicks : RuleTick(t)
  \/ \E t \in SloTicks : SloTick(t)
  \/ \E t \in Ticks : JobStep(t) \/ Throws(t)
  \/ \E a \in Ids : UserStep(a) \/ Remediated(a)
  \/ \E S \in SUBSET Ids : BulkAcknowledge(S) \/ BulkResolve(S)
  \/ \E s \in Slos : MetricChanges(s) \/ Toggle(s)
  \/ FaultChanges
  \/ Crash

Spec == Init /\ [][Next]_vars

\* The cron jobs keep firing and what they await settles.
Fairness ==
  /\ \A t \in RuleTicks : WF_vars(RuleTick(t))
  /\ \A t \in SloTicks : WF_vars(SloTick(t))
  /\ \A t \in Ticks : WF_vars(JobStep(t))
  /\ \A a \in Ids : WF_vars(Remediated(a))

FairSpec == Spec /\ Fairness

-----------------------------------------------------------------------------
(* Properties *)

\* When a rule's condition is gone for good, so are its alerts: no overlap of
\* ticks, acknowledgement or remediation leaves one open (a suppressed alert
\* excepted), although each tick closes one row only.
AlertsEndWithCondition ==
  source = "rule" /\ <>[](fault = "absent") => <>[](With({"ACTIVE", "ACKNOWLEDGED"}) = {})

\* A condition that stays is an active alert in the end, whatever was
\* acknowledged, suppressed, resolved or "remediated" before.
StandingFaultIsActive ==
  source = "rule" /\ <>[](fault = "present") => <>[](With({"ACTIVE"}) # {})

\* Nobody but the evaluator touched the SLOs and their alert, and no step of
\* the evaluator was lost.
Undisturbed == \A k \in {"user", "fail", "crash"} : left[k] = Budget[k]

\* Between ticks an open alert means that some SLO of the instance is breached,
\* although alerts change only when a saved isBreached does, as long as no tick began
\* before the last one had ended.  The code does not prevent that, and then a tick that
\* listed the SLOs earlier raises an alert for a breach another one has cleared.
NoStaleSloAlert ==
  source = "slo" /\ Undisturbed /\ ~overlap /\ (\A t \in Ticks : job[t] = Idle) /\ With(Open) # {}
    => breached # {}

\* Between ticks a breached SLO has an open alert ("Create HealthAlert if SLO
\* breached", "Resolve alert if SLO recovered").
BreachHasAlert ==
  source = "slo" /\ Undisturbed /\ (\A t \in Ticks : job[t] = Idle) /\ breached # {}
    => With(Open) # {}
=============================================================================
