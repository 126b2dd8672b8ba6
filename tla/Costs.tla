-------------------------------- MODULE Costs --------------------------------
(***************************************************************************)
(* What one instance costs: the usage its gateway reports per day, the     *)
(* CostEvent rows the collector copies it into, the spend of the budget    *)
(* that covers it, and the verdict of the budget rules on that spend.  The *)
(* event and the budget are two database calls outside a transaction.      *)
(***************************************************************************)
EXTENDS Naturals, FiniteSets

CONSTANTS
  LastDay,     \* days are numbered from 1
  SyncDays,    \* how many days a call copies at most, 30 in the code
  MaxUsage,    \* of a day; what the API records is as much at the most
  Collectors,  \* calls of collectCosts in flight
  CostBudget   \* how often each step of the environment may be taken

CostKinds == {"usage", "collect", "direct", "fail", "reset"}
Days == 1..LastDay

ASSUME CostAssumption ==
  LastDay \in Nat \ {0} /\ SyncDays \in Nat \ {0} /\ MaxUsage \in Nat \ {0} /\ CostBudget \in [CostKinds -> Nat]

VARIABLES
  today,
  usage,      \* what the gateway reports for each day
  daily,      \* cents of the row the collector wrote for the day, or no row
  direct,     \* cents of the row the API recorded on the day, or no row
  spend,      \* BudgetConfig.currentSpendCents and currentDailySpendCents
  lastSync,   \* BotInstance.lastCostSyncDate
  collecting, \* CostCollectionService.running
  collect,    \* the calls in flight
  cut,        \* history: a call ended between a row and the budget
  crossed,    \* history: midnight passed while a report was on its way
  missed,     \* history: days that waited with SyncDays newer ones when a report arrived
  costLeft

costVars == <<today, usage, daily, direct, spend, lastSync, collecting, collect, cut, crossed, missed, costLeft>>

NoRow == MaxUsage + 1
Rows == 0..NoRow
CollectIdle == [pc |-> "idle", report |-> [d \in Days |-> 0], todo |-> {}, day |-> 0,
                old |-> NoRow, own |-> TRUE, now |-> 0, latest |-> 0]

CostTypeOK ==
  /\ today \in Days
  /\ usage \in [Days -> 0..MaxUsage]
  /\ daily \in [Days -> Rows] /\ direct \in [Days -> Rows]
  /\ spend \in [month : Nat, day : Nat]
  /\ lastSync \in 0..LastDay
  /\ collecting \in BOOLEAN
  /\ collect \in [Collectors ->
       [pc : {"idle", "report", "filter", "find", "row", "budget", "save"}, report : [Days -> 0..MaxUsage],
        todo : SUBSET Days, day : 0..LastDay, old : Rows, own : BOOLEAN, now : 0..LastDay, latest : 0..LastDay]]
  /\ cut \in BOOLEAN /\ crossed \in BOOLEAN /\ missed \subseteq Days
  /\ costLeft \in [CostKinds -> Nat]

CostSpend(k) == costLeft[k] > 0 /\ costLeft' = [costLeft EXCEPT ![k] = @ - 1]
Job(c, j) == collect' = [collect EXCEPT ![c] = j]
AllCollected == \A c \in Collectors : collect[c] = CollectIdle
OnlyCollect == UNCHANGED <<today, usage, daily, direct, spend, lastSync, collecting, cut, crossed, missed>>

-----------------------------------------------------------------------------
(* CostCollectionService *)

\* Faulty variant: the flag is not asked.
CollectAgain(c) ==
  /\ CostSpend("collect")
  /\ collect[c] = CollectIdle
  /\ collecting' = TRUE
  /\ Job(c, [CollectIdle EXCEPT !.pc = "report", !.latest = lastSync])
  /\ UNCHANGED <<today, usage, daily, direct, spend, lastSync, cut, crossed, missed>>

\* The cron job every quarter of an hour, and POST /costs/refresh.
CollectCosts(c) ==
  /\ CostSpend("collect")
  /\ collect[c] = CollectIdle
  /\ ~collecting
  /\ collecting' = TRUE
  /\ Job(c, [CollectIdle EXCEPT !.pc = "report", !.latest = lastSync])
  /\ UNCHANGED <<today, usage, daily, direct, spend, lastSync, cut, crossed, missed>>

\* The gateway makes its report ...
GetUsage(c) ==
  /\ collect[c].pc = "report"
  /\ Job(c, [collect[c] EXCEPT !.pc = "filter", !.report = usage])
  /\ OnlyCollect /\ UNCHANGED costLeft

CostsDone(c) == Job(c, CollectIdle) /\ collecting' = FALSE

\* ... and when it arrives, today and every day after the last one synced are due ...
Due(j) == {d \in Days : d <= today /\ j.report[d] > 0 /\ (d = today \/ d > j.latest)}

\* ... of which the newest are taken and the others left out, this time and, once a
\* newer day is noted as synced, for good.
NewestOf(days) == {d \in days : Cardinality({e \in days : e > d}) < SyncDays}

FilterDays(c) ==
  LET j == collect[c]
      days == NewestOf(Due(j))
  IN
  /\ j.pc = "filter"
  /\ missed' = missed \cup (Due(j) \ days)
  /\ IF days = {} THEN CostsDone(c)
     ELSE Job(c, [j EXCEPT !.pc = "find", !.todo = days, !.now = today]) /\ UNCHANGED collecting
  /\ UNCHANGED <<today, usage, daily, direct, spend, lastSync, cut, crossed, costLeft>>

\* upsertDailyCostEvent: any row of the day is taken for the day's row.
FindRow(c) ==
  LET j == collect[c]
      Found(d, old, own) == Job(c, [j EXCEPT !.pc = "row", !.day = d, !.old = old, !.own = own])
  IN
  /\ j.pc = "find"
  /\ \E d \in j.todo :
       /\ \A other \in j.todo : d <= other
       /\ \/ daily[d] # NoRow /\ Found(d, daily[d], TRUE)
          \/ direct[d] # NoRow /\ Found(d, direct[d], FALSE)
          \/ daily[d] = NoRow /\ direct[d] = NoRow /\ Found(d, NoRow, TRUE)
  /\ OnlyCollect /\ UNCHANGED costLeft

WriteRow(c) ==
  LET j == collect[c] IN
  /\ j.pc = "row"
  /\ daily' = IF j.own THEN [daily EXCEPT ![j.day] = j.report[j.day]] ELSE daily
  /\ direct' = IF j.own THEN direct ELSE [direct EXCEPT ![j.day] = j.report[j.day]]
  /\ Job(c, [j EXCEPT !.pc = "budget"])
  /\ UNCHANGED <<today, usage, spend, lastSync, collecting, cut, crossed, missed, costLeft>>

\* Only more than before is added, to both counters, for whatever day it was.
Charge(old, new) ==
  LET more == IF old = NoRow THEN new ELSE IF new > old THEN new - old ELSE 0
  IN  spend' = [month |-> spend.month + more, day |-> spend.day + more]

\* Faulty variant: today is remembered as well.
LatestOfAll(j) == IF j.day > j.latest THEN j.day ELSE j.latest

\* A day that is over is remembered as synced.
Latest(j) == IF j.day # j.now /\ j.day > j.latest THEN j.day ELSE j.latest

AddToBudget(c) ==
  LET j == collect[c]
      rest == j.todo \ {j.day}
  IN
  /\ j.pc = "budget"
  /\ Charge(j.old, j.report[j.day])
  /\ Job(c, [j EXCEPT !.pc = IF rest = {} THEN "save" ELSE "find", !.todo = rest,
                      !.latest = Latest(j)])
  /\ UNCHANGED <<today, usage, daily, direct, lastSync, collecting, cut, crossed, missed, costLeft>>

SaveSyncDate(c) ==
  /\ collect[c].pc = "save"
  /\ lastSync' = collect[c].latest
  /\ CostsDone(c)
  /\ UNCHANGED <<today, usage, daily, direct, spend, cut, crossed, missed, costLeft>>

\* A call fails, or the process dies: the instance is left as it is.
CollectThrows(c) ==
  /\ CostSpend("fail")
  /\ collect[c] # CollectIdle
  /\ CostsDone(c)
  /\ cut' = (cut \/ collect[c].pc = "budget")
  /\ UNCHANGED <<today, usage, daily, direct, spend, lastSync, crossed, missed>>

-----------------------------------------------------------------------------
(* CostsService and BudgetService *)

\* recordCostEvent: a row of its own, now.
RecordCostEvent ==
  /\ CostSpend("direct")
  /\ direct[today] = NoRow
  /\ direct' = [direct EXCEPT ![today] = 1]
  /\ Charge(NoRow, 1)
  /\ UNCHANGED <<today, usage, daily, lastSync, collecting, collect, cut, crossed, missed>>

ResetDailyBudgets ==
  /\ CostSpend("reset")
  /\ spend' = [spend EXCEPT !.day = 0]
  /\ UNCHANGED <<today, usage, daily, direct, lastSync, collecting, collect, cut, crossed, missed>>

-----------------------------------------------------------------------------
(* The bot spends, and days pass. *)

Use ==
  /\ CostSpend("usage")
  /\ usage[today] < MaxUsage
  /\ usage' = [usage EXCEPT ![today] = @ + 1]
  /\ UNCHANGED <<today, daily, direct, spend, lastSync, collecting, collect, cut, crossed, missed>>

Midnight ==
  /\ today < LastDay
  /\ today' = today + 1
  /\ crossed' = (crossed \/ \E c \in Collectors : collect[c].pc = "filter")
  /\ UNCHANGED <<usage, daily, direct, spend, lastSync, collecting, collect, cut, missed, costLeft>>

-----------------------------------------------------------------------------
CostInit ==
  /\ today = 1
  /\ usage = [d \in Days |-> 0]
  /\ daily = [d \in Days |-> NoRow] /\ direct = [d \in Days |-> NoRow]
  /\ spend = [month |-> 0, day |-> 0]
  /\ lastSync = 0
  /\ collecting = FALSE
  /\ collect = [c \in Collectors |-> CollectIdle]
  /\ cut = FALSE /\ crossed = FALSE /\ missed = {}
  /\ costLeft = CostBudget

CostNext ==
  \/ \E c \in Collectors :
       \/ CollectCosts(c) \/ GetUsage(c) \/ FilterDays(c) \/ FindRow(c) \/ WriteRow(c)
       \/ AddToBudget(c) \/ SaveSyncDate(c) \/ CollectThrows(c)
  \/ RecordCostEvent \/ ResetDailyBudgets \/ Use \/ Midnight

CostSpec == CostInit /\ [][CostNext]_costVars

-----------------------------------------------------------------------------
(* Properties *)

Cents(row) == IF row = NoRow THEN 0 ELSE row
InRows(r) ==
  LET upTo[d \in 0..LastDay] == IF d = 0 THEN 0 ELSE upTo[d - 1] + Cents(r[d])
  IN  upTo[LastDay]

\* Collected again and again, by the clock and by hand, a day is charged once:
\* between collections the budget has grown by what the rows hold, unless a call
\* was cut off between the two or the API records rows of its own.
ChargedOnce ==
  AllCollected /\ ~cut /\ (\A d \in Days : direct[d] = NoRow) => spend.month = InRows(daily)

\* A day up to which the collector has noted everything as synced has been copied in
\* full, unless SyncDays newer days waited with it when a call copied the newest only, a
\* report was on its way at midnight, or the API records rows of its own.
SyncedDaysAreComplete ==
  ~crossed /\ (\A d \in Days : direct[d] = NoRow)
    => \A d \in Days \ missed : d <= lastSync /\ usage[d] > 0 => d < today /\ daily[d] = usage[d]
=============================================================================
