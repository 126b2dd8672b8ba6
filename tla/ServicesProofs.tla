--------------------------- MODULE ServicesProofs ---------------------------
(* The pool of gateway clients, channel authentication, the tasks of agents, the proxy, *)
(* and all services together.                                                           *)
EXTENDS Services, BotStateProofs, OnboardingProofs, WellFoundedInduction

-----------------------------------------------------------------------------
(* ClientPool: for any clients, callers and browsers *)

Working(c) == get[c].pc # "idle"
Waiting(b) == watch[b] # NoClient

\* Without overlap one call at most is under way, of either kind.
OneAtATime ==
  /\ \A c, d \in PoolCalls : Working(c) /\ Working(d) => c = d
  /\ \A b, d \in Browsers : Waiting(b) /\ Waiting(d) => b = d
  /\ \A c \in PoolCalls, b \in Browsers : ~(Working(c) /\ Waiting(b))

\* What a call that is under way has found.
CallsHold ==
  /\ \A c \in PoolCalls :
       /\ get[c].pc = "clean" => pool # NoClient /\ client[pool] = "gone"
       /\ get[c].pc = "connect" =>
            pool = NoClient /\ get[c].new \in Clients /\ client[get[c].new] = "connecting"
  /\ \A b \in Browsers :
       Waiting(b) => stream = NoClient /\ client[watch[b]] = "connecting" /\ b \in subs

\* The two holders of a connection.
PoolHolds == pool # NoClient => client[pool] \in {"up", "lost", "gone"} /\ pool # stream
StreamHolds ==
  /\ \A x \in Clients : client[x] \in {"new", "connecting"} => watchers[x] = {}
  /\ stream # NoClient => /\ client[stream] \in {"up", "lost"}
                          /\ watchers[stream] # {} /\ watchers[stream] \subseteq subs
NothingElse == \A x \in Clients : client[x] \in {"up", "lost"} => x \in {pool, stream}
IdleIsIdle == \A c \in PoolCalls : get[c].pc = "idle" => get[c] = GetIdle

PoolParts == OneAtATime /\ CallsHold /\ PoolHolds /\ StreamHolds /\ NothingElse

PoolInv == PoolTypeOK /\ IdleIsIdle /\ (solo => PoolParts)

LEMMA QuietMeansNone ==
  ASSUME Quiet
  PROVE  (\A c \in PoolCalls : ~Working(c)) /\ (\A b \in Browsers : ~Waiting(b))
  BY DEF Quiet, GetIdle, Working, Waiting

LEMMA PoolInvInit == PoolInit => PoolInv
  BY PoolAssumption
     DEF PoolInit, PoolInv, PoolTypeOK, IdleIsIdle, PoolParts, OneAtATime, CallsHold, PoolHolds,
         StreamHolds, NothingElse, Working, Waiting, GetIdle

LEMMA PoolTypeStep ==
  ASSUME PoolTypeOK, IdleIsIdle, [PoolNext]_poolVars
  PROVE  PoolTypeOK' /\ IdleIsIdle'
  <1> USE PoolAssumption DEF PoolTypeOK, IdleIsIdle, GetIdle
  <1>1. ASSUME NEW c \in PoolCalls, GetClient(c) PROVE PoolTypeOK' /\ IdleIsIdle'
    BY <1>1 DEF GetClient, Ask
  <1>2. ASSUME NEW c \in PoolCalls, CleanUp(c) PROVE PoolTypeOK' /\ IdleIsIdle'
    BY <1>2 DEF CleanUp
  <1>3. ASSUME NEW c \in PoolCalls, Connected(c) PROVE PoolTypeOK' /\ IdleIsIdle'
    BY <1>3 DEF Connected
  <1>4. ASSUME NEW c \in PoolCalls, Refused(c) PROVE PoolTypeOK' /\ IdleIsIdle'
    <2>1. poolDrops' \in Nat
      BY <1>4 DEF Refused
    <2>2. client' \in [Clients -> {"new", "connecting", "up", "lost", "gone"}]
      BY <1>4 DEF Refused
    <2>3. get' \in [PoolCalls -> [pc : {"idle", "clean", "connect"}, new : Clients \cup {NoClient}]]
          /\ IdleIsIdle'
      BY <1>4 DEF Refused
    <2>4. QED
      BY <1>4, <2>1, <2>2, <2>3 DEF Refused
  <1>5. CASE RemoveClient
    BY <1>5 DEF RemoveClient
  <1>6. ASSUME NEW x \in Clients, Lost(x) \/ Reconnected(x) PROVE PoolTypeOK' /\ IdleIsIdle'
    BY <1>6 DEF Lost, Reconnected
  <1>7. ASSUME NEW b \in Browsers, SubscribeLogs(b) PROVE PoolTypeOK' /\ IdleIsIdle'
    BY <1>7 DEF SubscribeLogs, Subscribed
  <1>8. ASSUME NEW b \in Browsers, StreamOpen(b) PROVE PoolTypeOK' /\ IdleIsIdle'
    BY <1>8 DEF StreamOpen, Subscribed
  <1>9. ASSUME NEW b \in Browsers, StreamRefused(b) PROVE PoolTypeOK' /\ IdleIsIdle'
    BY <1>9 DEF StreamRefused
  <1>10. ASSUME NEW b \in Browsers, Unsubscribe(b) PROVE PoolTypeOK' /\ IdleIsIdle'
    <2>1. CASE stream = NoClient
      BY <1>10, <2>1 DEF Unsubscribe
    <2>2. CASE stream # NoClient
      <3>1. subs' \in SUBSET Browsers /\ watchers' \in [Clients -> SUBSET Browsers]
        BY <1>10, <2>2 DEF Unsubscribe, RemoveSubscriber
      <3>2. client' \in [Clients -> {"new", "connecting", "up", "lost", "gone"}]
            /\ stream' \in Clients \cup {NoClient}
        BY <1>10, <2>2 DEF Unsubscribe, RemoveSubscriber
      <3>3. UNCHANGED <<pool, get, watch, poolDrops>> /\ solo' \in BOOLEAN
        BY <1>10 DEF Unsubscribe
      <3>4. QED
        BY <3>1, <3>2, <3>3
    <2>3. QED
      BY <2>1, <2>2
  <1>11. CASE UNCHANGED poolVars
    BY <1>11 DEF poolVars
  <1>12. QED
    BY <1>1, <1>2, <1>3, <1>4, <1>5, <1>6, <1>7, <1>8, <1>9, <1>10, <1>11 DEF PoolNext

\* Steps of the manager's calls.
LEMMA ManagerStep ==
  ASSUME PoolInv, solo', PoolTypeOK', NEW c \in PoolCalls,
         GetClient(c) \/ CleanUp(c) \/ Connected(c) \/ Refused(c)
  PROVE  PoolParts'
  <1> USE PoolAssumption
      DEF PoolInv, PoolTypeOK, IdleIsIdle, PoolParts, OneAtATime, CallsHold, PoolHolds, StreamHolds,
          NothingElse, Working, Waiting, GetIdle
  <1>1. CASE GetClient(c) /\ pool # NoClient
    <2>0. (\A d \in PoolCalls : ~Working(d)) /\ (\A d \in Browsers : ~Waiting(d))
      BY <1>1, QuietMeansNone DEF GetClient, Ask
    <2>1. OneAtATime'
      BY <2>0, <1>1 DEF GetClient, Ask
    <2>2. CallsHold'
      BY <2>0, <1>1 DEF GetClient, Ask
    <2>3. PoolHolds'
      BY <2>0, <1>1 DEF GetClient, Ask
    <2>4. StreamHolds'
      BY <2>0, <1>1 DEF GetClient, Ask
    <2>5. NothingElse'
      BY <2>0, <1>1 DEF GetClient, Ask
    <2>6. QED
      BY <2>1, <2>2, <2>3, <2>4, <2>5
  <1>2. CASE GetClient(c) /\ pool = NoClient
    <2>0. (\A d \in PoolCalls : ~Working(d)) /\ (\A d \in Browsers : ~Waiting(d))
      BY <1>2, QuietMeansNone DEF GetClient, Ask
    <2>1. OneAtATime'
      BY <2>0, <1>2 DEF GetClient, Ask
    <2>2. CallsHold'
      BY <2>0, <1>2 DEF GetClient, Ask
    <2>3. PoolHolds'
      BY <2>0, <1>2 DEF GetClient, Ask
    <2>4. StreamHolds'
      BY <2>0, <1>2 DEF GetClient, Ask
    <2>5. NothingElse'
      BY <2>0, <1>2 DEF GetClient, Ask
    <2>6. QED
      BY <2>1, <2>2, <2>3, <2>4, <2>5
  <1>3. CASE CleanUp(c)
    <2>1. OneAtATime'
      BY <1>3 DEF CleanUp
    <2>2. CallsHold'
      BY <1>3 DEF CleanUp
    <2>3. PoolHolds'
      BY <1>3 DEF CleanUp
    <2>4. StreamHolds'
      BY <1>3 DEF CleanUp
    <2>5. NothingElse'
      BY <1>3 DEF CleanUp
    <2>6. QED
      BY <2>1, <2>2, <2>3, <2>4, <2>5
  <1>4. CASE Connected(c)
    <2>1. OneAtATime'
      BY <1>4 DEF Connected
    <2>2. CallsHold'
      BY <1>4 DEF Connected
    <2>3. PoolHolds'
      BY <1>4 DEF Connected
    <2>4. StreamHolds'
      BY <1>4 DEF Connected
    <2>5. NothingElse'
      BY <1>4 DEF Connected
    <2>6. QED
      BY <2>1, <2>2, <2>3, <2>4, <2>5
  <1>5. CASE Refused(c)
    BY <1>5 DEF Refused
  <1>6. QED
    BY <1>1, <1>2, <1>3, <1>4, <1>5

\* Steps of the log stream.
LEMMA StreamStep ==
  ASSUME PoolInv, solo', PoolTypeOK', NEW b \in Browsers,
         SubscribeLogs(b) \/ StreamOpen(b) \/ StreamRefused(b) \/ Unsubscribe(b)
  PROVE  PoolParts'
  <1> USE PoolAssumption
      DEF PoolInv, PoolTypeOK, IdleIsIdle, PoolParts, OneAtATime, CallsHold, PoolHolds, StreamHolds,
          NothingElse, Working, Waiting, GetIdle
  <1>1. CASE SubscribeLogs(b) /\ stream # NoClient
    BY <1>1 DEF SubscribeLogs, Subscribed, Quiet
  <1>2. CASE SubscribeLogs(b) /\ stream = NoClient
    <2>0. (\A d \in PoolCalls : ~Working(d)) /\ (\A d \in Browsers : ~Waiting(d))
      BY <1>2, QuietMeansNone DEF SubscribeLogs
    <2>1. OneAtATime'
      BY <2>0, <1>2 DEF SubscribeLogs, Subscribed
    <2>2. CallsHold'
      BY <2>0, <1>2 DEF SubscribeLogs, Subscribed
    <2>3. PoolHolds'
      BY <2>0, <1>2 DEF SubscribeLogs, Subscribed
    <2>4. StreamHolds'
      BY <2>0, <1>2 DEF SubscribeLogs, Subscribed
    <2>5. NothingElse'
      BY <2>0, <1>2 DEF SubscribeLogs, Subscribed
    <2>6. QED
      BY <2>1, <2>2, <2>3, <2>4, <2>5
  <1>3. CASE StreamOpen(b)
    <2>1. OneAtATime'
      BY <1>3 DEF StreamOpen, Subscribed
    <2>2. CallsHold'
      BY <1>3 DEF StreamOpen, Subscribed
    <2>3. PoolHolds'
      BY <1>3 DEF StreamOpen, Subscribed
    <2>4. StreamHolds'
      BY <1>3 DEF StreamOpen, Subscribed
    <2>5. NothingElse'
      BY <1>3 DEF StreamOpen, Subscribed
    <2>6. QED
      BY <2>1, <2>2, <2>3, <2>4, <2>5
  <1>4. CASE StreamRefused(b)
    <2>1. OneAtATime'
      BY <1>4 DEF StreamRefused
    <2>2. CallsHold'
      BY <1>4 DEF StreamRefused
    <2>3. PoolHolds'
      BY <1>4 DEF StreamRefused
    <2>4. StreamHolds'
      BY <1>4 DEF StreamRefused
    <2>5. NothingElse'
      BY <1>4 DEF StreamRefused
    <2>6. QED
      BY <2>1, <2>2, <2>3, <2>4, <2>5
  <1>5. CASE Unsubscribe(b)
    <2>1. OneAtATime'
      BY <1>5 DEF Unsubscribe, RemoveSubscriber
    <2>2. CallsHold'
      BY <1>5, ZenonT(30) DEF Unsubscribe, RemoveSubscriber
    <2>3. PoolHolds'
      BY <1>5 DEF Unsubscribe, RemoveSubscriber
    <2>4. StreamHolds'
      BY <1>5 DEF Unsubscribe, RemoveSubscriber
    <2>5. NothingElse'
      BY <1>5 DEF Unsubscribe, RemoveSubscriber
    <2>6. QED
      BY <2>1, <2>2, <2>3, <2>4, <2>5
  <1>6. QED
    BY <1>1, <1>2, <1>3, <1>4, <1>5

\* removeClient, and what happens to a connection by itself.
LEMMA OtherPoolStep ==
  ASSUME PoolInv, solo', PoolTypeOK',
         RemoveClient \/ (\E x \in Clients : Lost(x) \/ Reconnected(x)) \/ UNCHANGED poolVars
  PROVE  PoolParts'
  <1> USE PoolAssumption
      DEF PoolInv, PoolTypeOK, IdleIsIdle, PoolParts, OneAtATime, CallsHold, PoolHolds, StreamHolds,
          NothingElse, Working, Waiting, GetIdle
  <1>1. CASE RemoveClient
    <2>0. (\A d \in PoolCalls : ~Working(d)) /\ (\A d \in Browsers : ~Waiting(d))
      BY <1>1, QuietMeansNone DEF RemoveClient
    <2>1. OneAtATime'
      BY <2>0, <1>1 DEF RemoveClient
    <2>2. CallsHold'
      BY <2>0, <1>1 DEF RemoveClient
    <2>3. PoolHolds'
      BY <2>0, <1>1 DEF RemoveClient
    <2>4. StreamHolds'
      BY <2>0, <1>1 DEF RemoveClient
    <2>5. NothingElse'
      BY <2>0, <1>1 DEF RemoveClient
    <2>6. QED
      BY <2>1, <2>2, <2>3, <2>4, <2>5
  <1>2. ASSUME NEW x \in Clients, Lost(x) PROVE PoolParts'
    BY <1>2 DEF Lost
  <1>3. ASSUME NEW x \in Clients, Reconnected(x) PROVE PoolParts'
    BY <1>3 DEF Reconnected
  <1>4. CASE UNCHANGED poolVars
    BY <1>4 DEF poolVars
  <1>5. QED
    BY <1>1, <1>2, <1>3, <1>4

\* While getClient, removeClient and the handlers of the log viewer do not overlap,
\* every connection to the gateway that is up or may come back is the pool's, or the
\* stream's with a subscriber: closing those two closes all.
THEOREM NoConnectionLeaks == PoolSpec => []NoLeakedConnection
  <1>1. PoolInv /\ [PoolNext]_poolVars => PoolInv'
    BY PoolTypeStep, ManagerStep, StreamStep, OtherPoolStep DEF PoolInv, PoolNext
  <1>2. PoolInv => NoLeakedConnection
    <2>1. SUFFICES ASSUME PoolTypeOK, solo, NothingElse, StreamHolds,
                         NEW x \in Clients, client[x] \in {"up", "lost"}, x # pool
                  PROVE  x = stream /\ watchers[x] \cap subs # {}
      BY DEF PoolInv, PoolParts, NoLeakedConnection
    <2>2. x = stream
      BY <2>1 DEF NothingElse
    <2>3. stream # NoClient
      BY <2>2, PoolAssumption
    <2>4. QED
      BY <2>1, <2>2, <2>3 DEF StreamHolds
  <1>3. QED
    BY PoolInvInit, <1>1, <1>2, PTL DEF PoolSpec

-----------------------------------------------------------------------------
(* ChannelAuth: for any number of sessions and of refreshes *)

\* A QR timer belongs to a QR session, and a token is only validated for a channel
\* that signs in by token.
TimersHaveQr == qr.state = "none" => qrTimers = {}
OnlyTokensAreChecked == checking > 0 => authKind = "token"

AuthInv == AuthTypeOK /\ TimersHaveQr /\ OnlyTokensAreChecked /\ PairedInBoth

LEMMA AuthInvInit == AuthInit => AuthInv
  BY AuthAssumption
     DEF AuthInit, AuthInv, AuthTypeOK, TimersHaveQr, OnlyTokensAreChecked, PairedInBoth,
         NoAuth, NoQr, AuthStates

\* What a refresh makes of the QR session.
LEMMA RefreshedKeeps ==
  ASSUME AuthTypeOK
  PROVE  /\ Refreshed \in [state : AuthStates, count : 0..MaxQrRefreshes]
         /\ qr.state # "none" => Refreshed.state # "none"
         /\ qr.state # "paired" => Refreshed.state # "paired"
         /\ qr.state = "paired" => Refreshed = qr
  BY AuthAssumption DEF AuthTypeOK, AuthStates, Refreshed

\* The steps of ChannelAuthService.
LEMMA SessionStep ==
  ASSUME AuthInv, NEW id \in AuthIds, Expire(id) \/ \E s \in AuthStates : StartAuth(id, s)
  PROVE  AuthInv'
  <1> USE AuthAssumption
      DEF AuthInv, AuthTypeOK, TimersHaveQr, OnlyTokensAreChecked, PairedInBoth, AuthStates, SessionIs
  <1>1. CASE Expire(id)
    BY <1>1 DEF Expire
  <1>2. ASSUME NEW s \in AuthStates, StartAuth(id, s) PROVE AuthInv'
    <2>1. CASE authKind = "whatsapp"
      BY <1>2, <2>1 DEF StartAuth, AuthCall
    <2>2. CASE authKind # "whatsapp"
      <3>1. UNCHANGED <<authKind, qr, qrTimers, checking, overdue, row, writes>>
        BY <1>2, <2>2 DEF StartAuth
      <3>2. session' \in [id : AuthIds \cup {NoSession}, state : AuthStates]
        BY <1>2 DEF StartAuth
      <3>3. fresh' \subseteq AuthIds /\ expiries' \subseteq AuthIds /\ authOps' \in Nat
        BY <1>2 DEF StartAuth, AuthCall
      <3>4. QED
        BY <2>2, <3>1, <3>2, <3>3
    <2>3. QED
      BY <2>1, <2>2
  <1>3. QED
    BY <1>1, <1>2

LEMMA TokenStep ==
  ASSUME AuthInv, ValidateToken \/ Validated("paired") \/ Validated("error")
  PROVE  AuthInv'
  <1> USE AuthAssumption
      DEF AuthInv, AuthTypeOK, TimersHaveQr, OnlyTokensAreChecked, PairedInBoth, AuthStates, SessionIs
  <1>1. CASE ValidateToken
    BY <1>1 DEF ValidateToken, AuthCall
  <1>2. ASSUME NEW s \in {"paired", "error"}, Validated(s) PROVE AuthInv'
    BY <1>2 DEF Validated, Kept
  <1>3. QED
    BY <1>1, <1>2

LEMMA StatusStep ==
  ASSUME AuthInv,
         GetAuthStatus \/ CompleteAuth \/ FailAuth \/ StatusWritten("ACTIVE") \/ StatusWritten("ERROR")
  PROVE  AuthInv'
  <1> USE AuthAssumption
      DEF AuthInv, AuthTypeOK, TimersHaveQr, OnlyTokensAreChecked, PairedInBoth, AuthStates, SessionIs
  <1>1. CASE GetAuthStatus
    BY <1>1 DEF GetAuthStatus
  <1>2. CASE CompleteAuth
    BY <1>2 DEF CompleteAuth, Finish, AuthCall, NoQr
  <1>3. CASE FailAuth
    BY <1>3 DEF FailAuth, Finish, AuthCall, NoQr
  <1>4. ASSUME NEW status \in {"ACTIVE", "ERROR"}, StatusWritten(status) PROVE AuthInv'
    BY <1>4 DEF StatusWritten
  <1>5. QED
    BY <1>1, <1>2, <1>3, <1>4

\* The steps of WhatsAppAuthService.
LEMMA QrStep ==
  ASSUME AuthInv, RefreshQr \/ AutoRefresh \/ SessionTimeout
  PROVE  AuthInv'
  <1> USE AuthAssumption, RefreshedKeeps
      DEF AuthInv, AuthTypeOK, TimersHaveQr, OnlyTokensAreChecked, PairedInBoth, AuthStates, SessionIs
  <1>1. CASE RefreshQr
    BY <1>1 DEF RefreshQr, AuthCall, Kept, NoQr
  <1>2. CASE AutoRefresh
    BY <1>2, ZenonT(30) DEF AutoRefresh
  <1>3. CASE SessionTimeout
    BY <1>3 DEF SessionTimeout
  <1>4. QED
    BY <1>1, <1>2, <1>3

LEMMA AuthInvStep == AuthInv /\ [AuthNext]_authVars => AuthInv'
  <1> SUFFICES ASSUME AuthInv, [AuthNext]_authVars PROVE AuthInv'
    OBVIOUS
  <1>1. CASE UNCHANGED authVars
    BY <1>1 DEF authVars, AuthInv, AuthTypeOK, TimersHaveQr, OnlyTokensAreChecked, PairedInBoth
  <1>2. CASE AuthNext
    <2>1. CASE \E id \in AuthIds : Expire(id) \/ \E s \in AuthStates : StartAuth(id, s)
      BY <2>1, SessionStep
    <2>2. CASE ValidateToken \/ \E s \in {"paired", "error"} : Validated(s)
      BY <2>2, TokenStep
    <2>3. CASE \/ GetAuthStatus \/ CompleteAuth \/ FailAuth
               \/ \E status \in {"ACTIVE", "ERROR"} : StatusWritten(status)
      BY <2>3, StatusStep
    <2>4. CASE RefreshQr \/ AutoRefresh \/ SessionTimeout
      BY <2>4, QrStep
    <2>5. QED
      BY <1>2, <2>1, <2>2, <2>3, <2>4 DEF AuthNext
  <1>3. QED
    BY <1>1, <1>2

\* A WhatsApp channel whose user was told "paired" has no QR session that still
\* waits or has given up, in whatever order its calls, polls and timers come.
THEOREM SignedInInBoth == AuthSpec => []PairedInBoth
  <1>1. AuthInv => PairedInBoth
    BY DEF AuthInv
  <1>2. QED
    BY AuthInvInit, AuthInvStep, <1>1, PTL DEF AuthSpec

-----------------------------------------------------------------------------
(* AgentTasks *)

\* Whoever can be canceled waits for the agent.
RunsWait == \A t \in Tasks : t \in activeRuns => task[t].pc = "agent"

\* What is over is complete.
OverIsFinished == \A t \in Tasks : task[t].pc = "over" => t \in finished

NoFinal(t) == \A i \in DOMAIN told[t] : told[t][i] \notin Finals
FinalLast(t) == \A i \in DOMAIN told[t] : told[t][i] \in Finals => i = Len(told[t])

\* Until the answer nothing final was told, unless the subject is complete.
Waits(t) == task[t].pc \in {"none", "validate", "client", "agent", "refuse"}

NothingFinalYet ==
  \A t \in Tasks : t \notin unwritten /\ Waits(t) /\ t \notin finished => NoFinal(t)

TaskInv == TaskTypeOK /\ RunsWait /\ OverIsFinished /\ NothingFinalYet /\ OneFinalAnswer

Events == Finals \cup {"working", "chunk", "last"}

LEMMA TaskInvInit == TaskInit => TaskInv
  BY TaskAssumption
     DEF TaskInit, TaskInv, TaskTypeOK, TaskPcs, RunsWait, OverIsFinished, NothingFinalYet, NoFinal,
         OneFinalAnswer

\* What one step tells of t, after what has been told of it.
LEMMA Telling ==
  ASSUME TaskTypeOK, NEW t \in Tasks, NEW events \in Seq(Events), Tells(t, events)
  PROVE  /\ told' \in [Tasks -> Seq(Events)]
         /\ \A u \in Tasks : u # t => told'[u] = told[u]
         /\ told'[t] = told[t] \/ (t \notin finished /\ told'[t] = told[t] \o events)
  <1>1. told \in [Tasks -> Seq(Events)]
    BY DEF TaskTypeOK, Events
  <1>2. told[t] \o events \in Seq(Events)
    BY <1>1
  <1>3. QED
    BY <1>1, <1>2 DEF Tells

LEMMA Appending ==
  ASSUME NEW s \in Seq(Events), NEW events \in Seq(Events),
         \A i \in DOMAIN s : s[i] \notin Finals
  PROVE  /\ (\A i \in DOMAIN events : events[i] \notin Finals)
              => \A i \in DOMAIN (s \o events) : (s \o events)[i] \notin Finals
         /\ (\A i \in DOMAIN events : events[i] \in Finals => i = Len(events))
              => \A i \in DOMAIN (s \o events) : (s \o events)[i] \in Finals => i = Len(s \o events)
  <1>1. Len(s \o events) = Len(s) + Len(events) /\ Len(s) \in Nat /\ Len(events) \in Nat
        /\ DOMAIN s = 1..Len(s) /\ DOMAIN events = 1..Len(events)
        /\ DOMAIN (s \o events) = 1..(Len(s) + Len(events))
    OBVIOUS
  <1>2. \A i \in DOMAIN (s \o events) :
          \/ i \in DOMAIN s /\ (s \o events)[i] = s[i]
          \/ i - Len(s) \in DOMAIN events /\ (s \o events)[i] = events[i - Len(s)]
    BY <1>1
  <1>3. QED
    BY <1>1, <1>2, SMTT(30)

TaskRecord == [streams : BOOLEAN, pc : TaskPcs, chunks : 0..MaxChunks]

\* The record of a task changes within its type.
LEMMA TaskMoves ==
  ASSUME TaskTypeOK, NEW t \in Tasks, NEW pc \in TaskPcs, TaskAt(t, pc)
  PROVE  /\ task' \in [Tasks -> TaskRecord]
         /\ task'[t].pc = pc
         /\ \A u \in Tasks : u # t => task'[u] = task[u]
  <1>1. task \in [Tasks -> TaskRecord]
    BY DEF TaskTypeOK, TaskRecord
  <1>2. [task[t] EXCEPT !.pc = pc] \in TaskRecord
    BY <1>1 DEF TaskRecord
  <1>3. QED
    BY <1>1, <1>2 DEF TaskAt, TaskRecord

\* What has to be shown of the task that makes a step.
OwnTask(t) ==
  /\ t \in activeRuns => task[t].pc = "agent"
  /\ task[t].pc = "over" => t \in finished
  /\ t \notin unwritten /\ Waits(t) /\ t \notin finished => NoFinal(t)
  /\ t \notin unwritten => FinalLast(t)

LEMMA OneTaskSteps ==
  ASSUME TaskInv, TaskTypeOK', NEW t \in Tasks, OwnTask(t)',
         \A u \in Tasks : u # t =>
           /\ told'[u] = told[u] /\ task'[u] = task[u]
           /\ u \in activeRuns' => u \in activeRuns
           /\ u \in finished' <=> u \in finished
           /\ u \in unwritten' <=> u \in unwritten
  PROVE  TaskInv'
  <1>1. \A u \in Tasks : OwnTask(u)
    BY DEF TaskInv, OwnTask, RunsWait, OverIsFinished, NothingFinalYet, OneFinalAnswer, FinalLast
  <1>2. \A u \in Tasks : u # t => OwnTask(u)'
    BY <1>1 DEF OwnTask, Waits, NoFinal, FinalLast
  <1>3. QED
    BY <1>2 DEF TaskInv, OwnTask, RunsWait, OverIsFinished, NothingFinalYet, OneFinalAnswer, FinalLast

\* What an action that tells something new leaves of the telling.
LEMMA ToldOnce ==
  ASSUME TaskInv, NEW t \in Tasks, NEW events \in Seq(Events), Tells(t, events),
         Waits(t), t \notin unwritten
  PROVE  /\ (\A i \in DOMAIN events : events[i] \in Finals => i = Len(events)) => FinalLast(t)'
         /\ (\A i \in DOMAIN events : events[i] \notin Finals) =>
              FinalLast(t)' /\ (t \notin finished => NoFinal(t)')
  <1>1. told[t] \in Seq(Events) /\ TaskTypeOK
    BY DEF TaskInv, TaskTypeOK, Events
  <1>2. FinalLast(t)
    BY DEF TaskInv, OneFinalAnswer, FinalLast
  <1>3. t \notin finished => NoFinal(t)
    BY DEF TaskInv, NothingFinalYet
  <1>4. CASE told'[t] = told[t]
    BY <1>2, <1>3, <1>4 DEF FinalLast, NoFinal
  <1>5. CASE t \notin finished /\ told'[t] = told[t] \o events
    BY <1>1, <1>3, <1>5, Appending DEF FinalLast, NoFinal
  <1>6. QED
    BY <1>1, <1>4, <1>5, Telling

\* The steps by which a call begins and ends without an answer.
LEMMA CallSide ==
  ASSUME TaskInv, NEW t \in Tasks,
         \/ \E streams \in BOOLEAN : SendMessage(t, streams)
         \/ NotValid(t) \/ TraceCreated(t) \/ GotClient(t) \/ NoGateway(t) \/ RefusalWritten(t)
  PROVE  TaskInv'
  <1>0. TaskTypeOK /\ OwnTask(t)
    BY DEF TaskInv, OwnTask, RunsWait, OverIsFinished, NothingFinalYet, OneFinalAnswer, FinalLast
  <1>1. <<"failed">> \in Seq(Events) /\ <<"working">> \in Seq(Events)
    BY DEF Events, Finals
  <1>2. CASE \E streams \in BOOLEAN : SendMessage(t, streams)
    <2>1. PICK streams \in BOOLEAN : SendMessage(t, streams)
      BY <1>2
    <2>2. /\ task' \in [Tasks -> TaskRecord] /\ task'[t].pc = "validate"
          /\ \A u \in Tasks : u # t => task'[u] = task[u]
      BY <1>0, <2>1, ZenonT(30) DEF SendMessage, TaskTypeOK, TaskRecord, TaskPcs
    <2>3. UNCHANGED <<trace, activeRuns, told, finished, canceling, unwritten, taskFaults>>
          /\ task[t].pc = "none"
      BY <2>1 DEF SendMessage
    <2>4. TaskTypeOK'
      BY <1>0, <2>2, <2>3 DEF TaskTypeOK, TaskRecord
    <2>5. OwnTask(t)'
      BY <1>0, <2>2, <2>3 DEF OwnTask, Waits, NoFinal, FinalLast
    <2>6. QED
      BY <2>2, <2>3, <2>4, <2>5, OneTaskSteps
  <1>3. CASE NotValid(t) \/ RefusalWritten(t)
    <2>1. /\ TaskAt(t, "over") /\ Tells(t, <<"failed">>) /\ Completes(t)
          /\ task[t].pc \in {"validate", "refuse"} /\ UNCHANGED <<activeRuns, canceling, unwritten, taskFaults>>
          /\ trace' = trace \/ trace' = [trace EXCEPT ![t] = "ERROR"]
      BY <1>3 DEF NotValid, RefusalWritten
    <2>2. /\ task' \in [Tasks -> TaskRecord] /\ task'[t].pc = "over"
          /\ \A u \in Tasks : u # t => task'[u] = task[u]
      BY <1>0, <2>1, TaskMoves DEF TaskPcs
    <2>3. told' \in [Tasks -> Seq(Events)] /\ \A u \in Tasks : u # t => told'[u] = told[u]
      BY <1>0, <1>1, <2>1, Telling
    <2>4. TaskTypeOK'
      BY <1>0, <2>1, <2>2, <2>3, ZenonT(30) DEF TaskTypeOK, TaskRecord, Events, Completes
    <2>5. t \notin unwritten => FinalLast(t)'
      <3>1. Waits(t)
        BY <2>1 DEF Waits
      <3>2. \A i \in DOMAIN <<"failed">> : <<"failed">>[i] \in Finals => i = Len(<<"failed">>)
        OBVIOUS
      <3>3. QED
        BY <1>1, <2>1, <3>1, <3>2, ToldOnce
    <2>6. OwnTask(t)'
      BY <1>0, <2>1, <2>2, <2>5 DEF OwnTask, Waits, Completes
    <2>7. QED
      BY <2>1, <2>2, <2>3, <2>4, <2>6, OneTaskSteps DEF Completes
  <1>4. CASE TraceCreated(t)
    <2>1. /\ TaskAt(t, "client") /\ Tells(t, <<"working">>) /\ task[t].pc = "validate"
          /\ trace' = [trace EXCEPT ![t] = "PENDING"]
          /\ UNCHANGED <<activeRuns, finished, canceling, unwritten, taskFaults>>
      BY <1>4 DEF TraceCreated
    <2>2. /\ task' \in [Tasks -> TaskRecord] /\ task'[t].pc = "client"
          /\ \A u \in Tasks : u # t => task'[u] = task[u]
      BY <1>0, <2>1, TaskMoves DEF TaskPcs
    <2>3. told' \in [Tasks -> Seq(Events)] /\ \A u \in Tasks : u # t => told'[u] = told[u]
      BY <1>0, <1>1, <2>1, Telling
    <2>4. TaskTypeOK'
      BY <1>0, <2>1, <2>2, <2>3 DEF TaskTypeOK, TaskRecord, Events
    <2>5. t \notin unwritten => FinalLast(t)' /\ (t \notin finished => NoFinal(t)')
      <3>1. Waits(t)
        BY <2>1 DEF Waits
      <3>2. \A i \in DOMAIN <<"working">> : <<"working">>[i] \notin Finals
        BY DEF Finals
      <3>3. QED
        BY <1>1, <2>1, <3>1, <3>2, ToldOnce
    <2>6. OwnTask(t)'
      BY <1>0, <2>1, <2>2, <2>5 DEF OwnTask, Waits
    <2>7. QED
      BY <2>1, <2>2, <2>3, <2>4, <2>6, OneTaskSteps
  <1>5. CASE GotClient(t) \/ NoGateway(t)
    <2>1. /\ task[t].pc = "client" /\ UNCHANGED <<trace, told, finished, canceling, unwritten, taskFaults>>
          /\ \/ TaskAt(t, "agent") /\ (activeRuns' = activeRuns \cup {t} \/ activeRuns' = activeRuns)
             \/ TaskAt(t, "refuse") /\ activeRuns' = activeRuns
      BY <1>5 DEF GotClient, NoGateway
    <2>2. PICK pc \in {"agent", "refuse"} :
            /\ task' \in [Tasks -> TaskRecord] /\ task'[t].pc = pc
            /\ \A u \in Tasks : u # t => task'[u] = task[u]
            /\ t \in activeRuns' => pc = "agent"
      BY <1>0, <2>1, TaskMoves DEF TaskPcs, OwnTask
    <2>3. TaskTypeOK'
      BY <1>0, <2>1, <2>2 DEF TaskTypeOK, TaskRecord
    <2>4. OwnTask(t)'
      BY <1>0, <2>1, <2>2 DEF OwnTask, Waits, NoFinal, FinalLast
    <2>5. QED
      BY <2>1, <2>2, <2>3, <2>4, OneTaskSteps
  <1>6. QED
    BY <1>2, <1>3, <1>4, <1>5

\* The steps from the agent's output to the writing of the trace.
LEMMA AgentSide ==
  ASSUME TaskInv, NEW t \in Tasks,
         \/ AgentOutput(t) \/ AgentAnswers(t) \/ TraceWritten(t) \/ TraceNotWritten(t)
  PROVE  TaskInv'
  <1>0. TaskTypeOK /\ OwnTask(t) /\ taskFaults \in 0..TaskFaults
    BY DEF TaskInv, OwnTask, RunsWait, OverIsFinished, NothingFinalYet, OneFinalAnswer, FinalLast,
           TaskTypeOK
  <1>1. <<"failed">> \in Seq(Events) /\ <<"chunk">> \in Seq(Events)
        /\ <<"last", "completed">> \in Seq(Events)
    BY DEF Events, Finals
  <1>2. CASE AgentOutput(t)
    <2>0. task' = [task EXCEPT ![t].chunks = @ + 1]
      BY <1>2 DEF AgentOutput
    <2>1. /\ Tells(t, <<"chunk">>) /\ task[t].pc = "agent" /\ task[t].chunks < MaxChunks
          /\ UNCHANGED <<trace, activeRuns, finished, canceling, unwritten, taskFaults>>
      BY <1>2 DEF AgentOutput
    <2>2. /\ task \in [Tasks -> TaskRecord] /\ task[t] \in TaskRecord
          /\ task[t].chunks + 1 \in 0..MaxChunks
      BY <1>0, <2>1, TaskAssumption DEF TaskTypeOK, TaskRecord
    <2>3. /\ task' \in [Tasks -> TaskRecord] /\ task'[t].pc = "agent"
          /\ \A u \in Tasks : u # t => task'[u] = task[u]
      BY <2>0, <2>1, <2>2 DEF TaskRecord
    <2>4. told' \in [Tasks -> Seq(Events)] /\ \A u \in Tasks : u # t => told'[u] = told[u]
      BY <1>0, <1>1, <2>1, Telling
    <2>5. TaskTypeOK'
      BY <1>0, <2>1, <2>3, <2>4 DEF TaskTypeOK, TaskRecord, Events
    <2>6. t \notin unwritten => FinalLast(t)' /\ (t \notin finished => NoFinal(t)')
      <3>1. Waits(t)
        BY <2>1 DEF Waits
      <3>2. \A i \in DOMAIN <<"chunk">> : <<"chunk">>[i] \notin Finals
        BY DEF Finals
      <3>3. QED
        BY <1>1, <2>1, <3>1, <3>2, ToldOnce
    <2>7. OwnTask(t)'
      BY <1>0, <2>1, <2>3, <2>6 DEF OwnTask, Waits
    <2>8. QED
      BY <2>1, <2>3, <2>4, <2>5, <2>7, OneTaskSteps
  <1>3. CASE AgentAnswers(t)
    <2>1. /\ task[t].pc = "agent" /\ activeRuns' = activeRuns \ {t}
          /\ UNCHANGED <<trace, finished, canceling, unwritten, taskFaults>>
      BY <1>3 DEF AgentAnswers
    <2>2. PICK pc \in {"complete", "empty", "fail"}, events \in {<<"last", "completed">>, <<"failed">>} :
            TaskAt(t, pc) /\ Tells(t, events)
      BY <1>3 DEF AgentAnswers
    <2>3. /\ task' \in [Tasks -> TaskRecord] /\ task'[t].pc = pc
          /\ \A u \in Tasks : u # t => task'[u] = task[u]
      BY <1>0, <2>2, TaskMoves DEF TaskPcs
    <2>4. told' \in [Tasks -> Seq(Events)] /\ \A u \in Tasks : u # t => told'[u] = told[u]
      BY <1>0, <1>1, <2>2, Telling
    <2>5. TaskTypeOK'
      BY <1>0, <2>1, <2>3, <2>4 DEF TaskTypeOK, TaskRecord, Events
    <2>6. t \notin unwritten => FinalLast(t)'
      <3>1. Waits(t)
        BY <2>1 DEF Waits
      <3>2. \A i \in DOMAIN events : events[i] \in Finals => i = Len(events)
        <4>1. CASE events = <<"failed">>
          BY <4>1
        <4>2. CASE events = <<"last", "completed">>
          BY <4>2 DEF Finals
        <4>3. QED
          BY <4>1, <4>2
      <3>3. QED
        BY <1>1, <2>2, <3>1, <3>2, ToldOnce
    <2>7. OwnTask(t)'
      BY <1>0, <2>1, <2>3, <2>6 DEF OwnTask, Waits
    <2>8. QED
      BY <2>1, <2>3, <2>4, <2>5, <2>7, OneTaskSteps
  <1>4. CASE TraceWritten(t)
    <2>1. /\ TaskAt(t, "over") /\ Completes(t) /\ task[t].pc \in {"complete", "empty", "fail"}
          /\ UNCHANGED <<activeRuns, told, canceling, unwritten, taskFaults>>
          /\ trace' \in {[trace EXCEPT ![t] = "SUCCESS"], [trace EXCEPT ![t] = "ERROR"]}
      BY <1>4 DEF TraceWritten
    <2>2. /\ task' \in [Tasks -> TaskRecord] /\ task'[t].pc = "over"
          /\ \A u \in Tasks : u # t => task'[u] = task[u]
      BY <1>0, <2>1, TaskMoves DEF TaskPcs
    <2>3. TaskTypeOK'
      BY <1>0, <2>1, <2>2, ZenonT(30) DEF TaskTypeOK, TaskRecord, Completes
    <2>4. OwnTask(t)'
      BY <1>0, <2>1, <2>2 DEF OwnTask, Waits, FinalLast, Completes
    <2>5. QED
      BY <2>1, <2>2, <2>3, <2>4, OneTaskSteps DEF Completes
  <1>5. CASE TraceNotWritten(t)
    <2>1. /\ Tells(t, <<"failed">>) /\ unwritten' = unwritten \cup {t}
          /\ task[t].pc \in {"complete", "empty", "fail", "refuse"} /\ UNCHANGED <<trace, activeRuns, canceling>>
      BY <1>5 DEF TraceNotWritten
    <2>2. taskFaults' \in 0..TaskFaults
      BY <1>0, <1>5, TaskAssumption DEF TraceNotWritten
    <2>3. PICK pc \in {"fail", "over"} :
            /\ TaskAt(t, pc)
            /\ pc = "over" => Completes(t)
            /\ pc = "fail" => finished' = finished
      BY <1>5 DEF TraceNotWritten
    <2>4. /\ task' \in [Tasks -> TaskRecord] /\ task'[t].pc = pc
          /\ \A u \in Tasks : u # t => task'[u] = task[u]
      BY <1>0, <2>3, TaskMoves DEF TaskPcs
    <2>5. told' \in [Tasks -> Seq(Events)] /\ \A u \in Tasks : u # t => told'[u] = told[u]
      BY <1>0, <1>1, <2>1, Telling
    <2>6. TaskTypeOK'
      BY <1>0, <2>1, <2>2, <2>3, <2>4, <2>5 DEF TaskTypeOK, TaskRecord, Events, Completes
    <2>7. OwnTask(t)'
      BY <1>0, <2>1, <2>3, <2>4 DEF OwnTask, Completes
    <2>8. QED
      BY <2>1, <2>3, <2>4, <2>5, <2>6, <2>7, OneTaskSteps DEF Completes
  <1>6. QED
    BY <1>2, <1>3, <1>4, <1>5

\* The two steps of cancelTask.
LEMMA CancelSide ==
  ASSUME TaskInv, NEW t \in Tasks, CancelTask(t) \/ CancelWritten(t) \/ CancelNotWritten(t)
  PROVE  TaskInv'
  <1>0. TaskTypeOK /\ OwnTask(t) /\ taskFaults \in 0..TaskFaults
    BY DEF TaskInv, OwnTask, RunsWait, OverIsFinished, NothingFinalYet, OneFinalAnswer, FinalLast,
           TaskTypeOK
  <1>1. CASE CancelTask(t)
    <2>1. /\ t \in activeRuns /\ activeRuns' = activeRuns \ {t} /\ Tells(t, <<"canceled">>)
          /\ Completes(t) /\ canceling' = canceling \cup {t}
          /\ UNCHANGED <<task, trace, unwritten, taskFaults>>
      BY <1>1 DEF CancelTask
    <2>2. <<"canceled">> \in Seq(Events)
      BY DEF Events, Finals
    <2>3. told' \in [Tasks -> Seq(Events)] /\ \A u \in Tasks : u # t => told'[u] = told[u]
      BY <1>0, <2>1, <2>2, Telling
    <2>4. TaskTypeOK'
      BY <1>0, <2>1, <2>3 DEF TaskTypeOK, Events, Completes
    <2>5. t \notin unwritten => FinalLast(t)'
      <3>1. Waits(t)
        BY <1>0, <2>1 DEF Waits, OwnTask
      <3>2. \A i \in DOMAIN <<"canceled">> : <<"canceled">>[i] \in Finals => i = Len(<<"canceled">>)
        OBVIOUS
      <3>3. QED
        BY <2>1, <2>2, <3>1, <3>2, ToldOnce
    <2>6. OwnTask(t)'
      BY <1>0, <2>1, <2>5 DEF OwnTask, Waits, Completes
    <2>7. QED
      BY <2>1, <2>3, <2>4, <2>6, OneTaskSteps DEF Completes
  <1>2. CASE CancelWritten(t) \/ CancelNotWritten(t)
    <2>1. /\ canceling' = canceling \ {t} /\ UNCHANGED <<task, activeRuns, told, finished>>
          /\ unwritten' \in {unwritten, unwritten \cup {t}}
          /\ trace' \in {trace, [trace EXCEPT ![t] = "ERROR"]}
      BY <1>2 DEF CancelWritten, CancelNotWritten
    <2>2. taskFaults' \in 0..TaskFaults
      BY <1>0, <1>2, TaskAssumption DEF CancelWritten, CancelNotWritten
    <2>3. TaskTypeOK'
      <3>1. trace' \in [Tasks -> {"none", "PENDING", "SUCCESS", "ERROR"}]
        BY <1>0, <2>1 DEF TaskTypeOK
      <3>2. {activeRuns, finished, canceling, unwritten}' \subseteq SUBSET Tasks
        BY <1>0, <2>1 DEF TaskTypeOK
      <3>3. QED
        BY <1>0, <2>1, <2>2, <3>1, <3>2 DEF TaskTypeOK
    <2>4. OwnTask(t)'
      BY <1>0, <2>1 DEF OwnTask, Waits, NoFinal, FinalLast
    <2>5. QED
      BY <2>1, <2>3, <2>4, OneTaskSteps
  <1>3. QED
    BY <1>1, <1>2

LEMMA TaskInvStep == TaskInv /\ [TaskNext]_taskVars => TaskInv'
  <1>1. TaskInv /\ UNCHANGED taskVars => TaskInv'
    BY DEF taskVars, TaskInv, TaskTypeOK, RunsWait, OverIsFinished, NothingFinalYet, OneFinalAnswer,
           Waits, NoFinal
  <1>2. QED
    BY <1>1, CallSide, AgentSide, CancelSide DEF TaskNext, Works

\* A stream hears one final state of its task and nothing after it, wherever its cancellation
\* falls, for any number of tasks and chunks, as long as the task's trace can be written.
THEOREM StreamsEndOnce == TaskSpec => []OneFinalAnswer
  <1>1. TaskInv => OneFinalAnswer
    BY DEF TaskInv
  <1>2. QED
    BY <1>1, TaskInvInit, TaskInvStep, PTL DEF TaskSpec

\* The last a stream was told.
LastTold(t) == told[t][Len(told[t])]

\* Where a call stands, and whether it was canceled, says what its stream heard
\* last and what its trace will be.
TraceFollows(t) ==
  t \notin unwritten =>
    /\ task[t].pc = "none" => t \notin finished
    /\ task[t].pc \in {"none", "validate"} => trace[t] = "none" /\ t \notin canceling
    /\ task[t].streams =>
         /\ t \in canceling => t \in finished /\ LastTold(t) = "canceled"
         /\ t \in finished /\ task[t].pc # "over" => LastTold(t) = "canceled"
         /\ task[t].pc = "complete" => LastTold(t) \in {"completed", "canceled"}
         /\ task[t].pc \in {"empty", "fail"} => LastTold(t) \in {"failed", "canceled"}
         /\ task[t].pc = "over" /\ trace[t] # "none" =>
              \/ LastTold(t) = "canceled"
              \/ LastTold(t) = "completed" /\ trace[t] = "SUCCESS"
              \/ LastTold(t) = "failed" /\ trace[t] = "ERROR"

TraceInv == \A t \in Tasks : TraceFollows(t)

\* What is told last is the last of the events told, unless the subject is complete.
LEMMA TellsLast ==
  ASSUME TaskTypeOK, NEW t \in Tasks, NEW e \in Seq(Events), e # <<>>, Tells(t, e)
  PROVE  /\ \A u \in Tasks : u # t => told'[u] = told[u]
         /\ t \in finished \/ ~task[t].streams => told'[t] = told[t]
         /\ t \notin finished /\ task[t].streams => LastTold(t)' = e[Len(e)]
  <1>1. told \in [Tasks -> Seq(Events)]
    BY DEF TaskTypeOK, Events
  <1>2. ASSUME NEW old \in Seq(Events) PROVE (old \o e)[Len(old \o e)] = e[Len(e)]
    <2>1. Len(e) \in Nat \ {0} /\ Len(old) \in Nat /\ Len(old \o e) = Len(old) + Len(e)
      OBVIOUS
    <2>2. QED
      BY <2>1
  <1>3. CASE t \in finished \/ ~task[t].streams
    BY <1>3 DEF Tells
  <1>4. CASE t \notin finished /\ task[t].streams
    <2>1. told' = [told EXCEPT ![t] = told[t] \o e]
      BY <1>4 DEF Tells
    <2>2. told'[t] = told[t] \o e /\ \A u \in Tasks : u # t => told'[u] = told[u]
      BY <1>1, <2>1
    <2>3. LastTold(t)' = e[Len(e)]
      BY <1>1, <1>2, <2>2 DEF LastTold
    <2>4. QED
      BY <1>4, <2>2, <2>3
  <1>5. QED
    BY <1>3, <1>4

\* A step of a task leaves what is known of the others.
LEMMA OtherTraces ==
  ASSUME TraceInv, NEW t \in Tasks, TraceFollows(t)',
         \A u \in Tasks : u # t =>
           /\ told'[u] = told[u] /\ task'[u] = task[u] /\ trace'[u] = trace[u]
           /\ u \in canceling' <=> u \in canceling
           /\ u \in finished' <=> u \in finished
           /\ u \in unwritten' <=> u \in unwritten
  PROVE  TraceInv'
  <1>1. ASSUME NEW u \in Tasks, u # t PROVE TraceFollows(u)'
    BY <1>1 DEF TraceInv, TraceFollows, LastTold
  <1>2. QED
    BY <1>1 DEF TraceInv

LEMMA TraceStep ==
  ASSUME TaskInv, TraceInv, NEW t \in Tasks,
         \/ \E streams \in BOOLEAN : SendMessage(t, streams)
         \/ Works(t) \/ AgentOutput(t) \/ CancelTask(t)
  PROVE  TraceInv'
  <1>0. /\ TaskTypeOK /\ TraceFollows(t) /\ (t \in activeRuns => task[t].pc = "agent")
        /\ task \in [Tasks -> TaskRecord] /\ task[t] \in TaskRecord
        /\ trace \in [Tasks -> {"none", "PENDING", "SUCCESS", "ERROR"}]
    BY DEF TaskInv, TraceInv, TaskTypeOK, RunsWait, TaskRecord
  \* What a step that moves the call and tells it e has to show.
  <1>1. ASSUME NEW pc \in TaskPcs, TaskAt(t, pc)
        PROVE  /\ task'[t].pc = pc /\ task'[t].streams = task[t].streams
               /\ \A u \in Tasks : u # t => task'[u] = task[u]
    BY <1>0, <1>1 DEF TaskAt, TaskRecord
  <1>2. ASSUME NEW x \in Finals \cup {"working", "chunk"}, Tells(t, <<x>>)
        PROVE  /\ \A u \in Tasks : u # t => told'[u] = told[u]
               /\ t \in finished \/ ~task[t].streams => LastTold(t)' = LastTold(t)
               /\ t \notin finished /\ task[t].streams => LastTold(t)' = x
    <2>1. <<x>> \in Seq(Events) /\ <<x>> # <<>> /\ Len(<<x>>) = 1 /\ <<x>>[1] = x
      BY DEF Events
    <2>2. QED
      BY <1>0, <1>2, <2>1, TellsLast DEF LastTold
  <1>3. CASE \E streams \in BOOLEAN : SendMessage(t, streams)
    <2>1. /\ task'[t].pc = "validate" /\ task[t].pc = "none"
          /\ \A u \in Tasks : u # t => task'[u] = task[u]
      <3>1. PICK streams \in BOOLEAN : SendMessage(t, streams)
        BY <1>3
      <3>2. task' = [task EXCEPT ![t] = [task[t] EXCEPT !.streams = streams, !.pc = "validate"]]
        BY <1>0, <3>1 DEF SendMessage
      <3>3. task'[t] = [task[t] EXCEPT !.streams = streams, !.pc = "validate"]
            /\ \A u \in Tasks : u # t => task'[u] = task[u]
        BY <1>0, <3>2
      <3>4. task[t].pc = "none"
        BY <3>1 DEF SendMessage
      <3>5. QED
        BY <1>0, <3>3, <3>4 DEF TaskRecord
    <2>2. UNCHANGED <<trace, told, finished, canceling, unwritten>>
      BY <1>3 DEF SendMessage
    <2>3. TraceFollows(t)'
      BY <1>0, <2>1, <2>2 DEF TraceFollows
    <2>4. QED
      BY <2>1, <2>2, <2>3, OtherTraces
  <1>4. CASE NotValid(t) \/ RefusalWritten(t)
    <2>1. /\ TaskAt(t, "over") /\ Tells(t, <<"failed">>) /\ finished' = finished \cup {t}
          /\ task[t].pc \in {"validate", "refuse"} /\ UNCHANGED <<canceling, unwritten>>
          /\ \/ task[t].pc = "validate" /\ trace' = trace
             \/ task[t].pc = "refuse" /\ trace' = [trace EXCEPT ![t] = "ERROR"]
      BY <1>4 DEF NotValid, RefusalWritten, Completes
    <2>2. /\ task'[t].pc = "over" /\ task'[t].streams = task[t].streams
          /\ \A u \in Tasks : u # t => task'[u] = task[u]
      BY <1>1, <2>1 DEF TaskPcs
    <2>3. /\ \A u \in Tasks : u # t => told'[u] = told[u]
          /\ t \in finished \/ ~task[t].streams => LastTold(t)' = LastTold(t)
          /\ t \notin finished /\ task[t].streams => LastTold(t)' = "failed"
      BY <1>2, <2>1 DEF Finals
    <2>4. /\ task[t].pc = "validate" => trace'[t] = trace[t]
          /\ task[t].pc = "refuse" => trace'[t] = "ERROR"
          /\ \A u \in Tasks : u # t => trace'[u] = trace[u]
      BY <1>0, <2>1
    <2>5. TraceFollows(t)'
      BY <1>0, <2>1, <2>2, <2>3, <2>4 DEF TraceFollows
    <2>6. QED
      BY <2>1, <2>2, <2>3, <2>4, <2>5, OtherTraces
  <1>5. CASE TraceCreated(t)
    <2>1. /\ TaskAt(t, "client") /\ Tells(t, <<"working">>) /\ task[t].pc = "validate"
          /\ trace' = [trace EXCEPT ![t] = "PENDING"]
          /\ UNCHANGED <<finished, canceling, unwritten>>
      BY <1>5 DEF TraceCreated
    <2>2. /\ task'[t].pc = "client" /\ task'[t].streams = task[t].streams
          /\ \A u \in Tasks : u # t => task'[u] = task[u] /\ trace'[u] = trace[u]
      BY <1>0, <1>1, <2>1 DEF TaskPcs
    <2>3. /\ \A u \in Tasks : u # t => told'[u] = told[u]
          /\ t \in finished \/ ~task[t].streams => LastTold(t)' = LastTold(t)
      BY <1>2, <2>1
    <2>4. TraceFollows(t)'
      BY <1>0, <2>1, <2>2, <2>3 DEF TraceFollows
    <2>5. QED
      BY <2>1, <2>2, <2>3, <2>4, OtherTraces
  <1>6. CASE GotClient(t) \/ NoGateway(t)
    <2>1. /\ task[t].pc = "client" /\ UNCHANGED <<trace, told, finished, canceling, unwritten>>
          /\ \E pc \in {"agent", "refuse"} : TaskAt(t, pc)
      BY <1>6 DEF GotClient, NoGateway
    <2>2. /\ task'[t].pc \in {"agent", "refuse"} /\ task'[t].streams = task[t].streams
          /\ \A u \in Tasks : u # t => task'[u] = task[u]
      BY <1>1, <2>1 DEF TaskPcs
    <2>3. TraceFollows(t)'
      BY <1>0, <2>1, <2>2 DEF TraceFollows, LastTold
    <2>4. QED
      BY <2>1, <2>2, <2>3, OtherTraces
  <1>7. CASE AgentOutput(t)
    <2>1. /\ task' = [task EXCEPT ![t].chunks = @ + 1] /\ Tells(t, <<"chunk">>)
          /\ task[t].pc = "agent" /\ UNCHANGED <<trace, finished, canceling, unwritten>>
      BY <1>7 DEF AgentOutput
    <2>2. /\ task'[t].pc = "agent" /\ task'[t].streams = task[t].streams
          /\ \A u \in Tasks : u # t => task'[u] = task[u]
      BY <1>0, <2>1 DEF TaskRecord
    <2>3. /\ \A u \in Tasks : u # t => told'[u] = told[u]
          /\ t \in finished \/ ~task[t].streams => LastTold(t)' = LastTold(t)
      BY <1>2, <2>1
    <2>4. TraceFollows(t)'
      BY <1>0, <2>1, <2>2, <2>3 DEF TraceFollows
    <2>5. QED
      BY <2>1, <2>2, <2>3, <2>4, OtherTraces
  <1>8. CASE AgentAnswers(t)
    <2>1. task[t].pc = "agent" /\ UNCHANGED <<trace, finished, canceling, unwritten>>
      BY <1>8 DEF AgentAnswers
    <2>2. PICK pc \in {"complete", "empty", "fail"} :
            /\ TaskAt(t, pc)
            /\ pc = "complete" => Tells(t, <<"last", "completed">>)
            /\ pc # "complete" => Tells(t, <<"failed">>)
      BY <1>8 DEF AgentAnswers
    <2>3. /\ task'[t].pc = pc /\ task'[t].streams = task[t].streams
          /\ \A u \in Tasks : u # t => task'[u] = task[u]
      BY <1>1, <2>2 DEF TaskPcs
    <2>4. /\ \A u \in Tasks : u # t => told'[u] = told[u]
          /\ t \in finished \/ ~task[t].streams => LastTold(t)' = LastTold(t)
          /\ t \notin finished /\ task[t].streams =>
               LastTold(t)' = IF pc = "complete" THEN "completed" ELSE "failed"
      <3>1. CASE pc = "complete"
        <4>1. /\ <<"last", "completed">> \in Seq(Events) /\ <<"last", "completed">> # <<>>
              /\ Len(<<"last", "completed">>) = 2 /\ <<"last", "completed">>[2] = "completed"
          BY DEF Events, Finals
        <4>2. Tells(t, <<"last", "completed">>)
          BY <2>2, <3>1
        <4>3. /\ \A u \in Tasks : u # t => told'[u] = told[u]
              /\ t \in finished \/ ~task[t].streams => told'[t] = told[t]
              /\ t \notin finished /\ task[t].streams =>
                   LastTold(t)' = <<"last", "completed">>[Len(<<"last", "completed">>)]
          BY <1>0, <4>1, <4>2, TellsLast
        <4>4. QED
          BY <3>1, <4>1, <4>3 DEF LastTold
      <3>2. CASE pc # "complete"
        BY <1>2, <2>2, <3>2 DEF Finals
      <3>3. QED
        BY <3>1, <3>2
    <2>5. TraceFollows(t)'
      BY <1>0, <2>1, <2>3, <2>4 DEF TraceFollows
    <2>6. QED
      BY <2>1, <2>3, <2>4, <2>5, OtherTraces
  <1>9. CASE TraceWritten(t)
    <2>1. /\ TaskAt(t, "over") /\ finished' = finished \cup {t}
          /\ task[t].pc \in {"complete", "empty", "fail"} /\ UNCHANGED <<told, canceling, unwritten>>
          /\ trace' = [trace EXCEPT ![t] = IF task[t].pc = "complete" THEN "SUCCESS" ELSE "ERROR"]
      BY <1>9 DEF TraceWritten, Completes
    <2>2. /\ task'[t].pc = "over" /\ task'[t].streams = task[t].streams
          /\ \A u \in Tasks : u # t => task'[u] = task[u]
      BY <1>1, <2>1 DEF TaskPcs
    <2>3. /\ trace'[t] = IF task[t].pc = "complete" THEN "SUCCESS" ELSE "ERROR"
          /\ \A u \in Tasks : u # t => trace'[u] = trace[u]
      BY <1>0, <2>1
    <2>4. TraceFollows(t)'
      BY <1>0, <2>1, <2>2, <2>3 DEF TraceFollows, LastTold
    <2>5. QED
      BY <2>1, <2>2, <2>3, <2>4, OtherTraces
  <1>10. CASE TraceNotWritten(t)
    <2>1. /\ unwritten' = unwritten \cup {t} /\ Tells(t, <<"failed">>)
          /\ finished' = finished \/ finished' = finished \cup {t}
          /\ UNCHANGED <<trace, canceling>> /\ \E pc \in {"fail", "over"} : TaskAt(t, pc)
      BY <1>10 DEF TraceNotWritten, Completes
    <2>2. \A u \in Tasks : u # t => task'[u] = task[u]
      BY <1>1, <2>1 DEF TaskPcs
    <2>3. \A u \in Tasks : u # t => told'[u] = told[u]
      BY <1>2, <2>1 DEF Finals
    <2>4. TraceFollows(t)'
      BY <2>1 DEF TraceFollows
    <2>5. QED
      BY <2>1, <2>2, <2>3, <2>4, OtherTraces
  <1>11. CASE CancelTask(t)
    <2>1. /\ t \in activeRuns /\ Tells(t, <<"canceled">>) /\ finished' = finished \cup {t}
          /\ canceling' = canceling \cup {t} /\ UNCHANGED <<task, trace, unwritten>>
      BY <1>11 DEF CancelTask, Completes
    <2>2. /\ \A u \in Tasks : u # t => told'[u] = told[u]
          /\ t \in finished \/ ~task[t].streams => LastTold(t)' = LastTold(t)
          /\ t \notin finished /\ task[t].streams => LastTold(t)' = "canceled"
      BY <1>2, <2>1 DEF Finals
    <2>3. TraceFollows(t)'
      BY <1>0, <2>1, <2>2 DEF TraceFollows
    <2>4. QED
      BY <2>1, <2>2, <2>3, OtherTraces
  <1>12. CASE CancelWritten(t)
    <2>1. /\ t \in canceling /\ canceling' = canceling \ {t}
          /\ trace' = [trace EXCEPT ![t] = "ERROR"] /\ UNCHANGED <<task, told, finished, unwritten>>
      BY <1>12 DEF CancelWritten
    <2>2. trace'[t] = "ERROR" /\ \A u \in Tasks : u # t => trace'[u] = trace[u]
      BY <1>0, <2>1
    <2>3. TraceFollows(t)'
      BY <1>0, <2>1, <2>2 DEF TraceFollows, LastTold
    <2>4. QED
      BY <2>1, <2>2, <2>3, OtherTraces
  <1>13. CASE CancelNotWritten(t)
    <2>1. /\ canceling' = canceling \ {t} /\ unwritten' = unwritten \cup {t}
          /\ UNCHANGED <<task, trace, told, finished>>
      BY <1>13 DEF CancelNotWritten
    <2>2. TraceFollows(t)'
      BY <2>1 DEF TraceFollows
    <2>3. QED
      BY <2>1, <2>2, OtherTraces
  <1>14. QED
    BY <1>3, <1>4, <1>5, <1>6, <1>7, <1>8, <1>9, <1>10, <1>11, <1>12, <1>13 DEF Works

\* Once a task is over and its writes have succeeded, its trace says what its stream
\* heard, wherever answers, errors and cancellations fall.
THEOREM TracesSayWhatWasTold == TaskSpec => [](TaskTypeOK /\ TraceAgrees)
  <1>1. TaskInit => TraceInv
    BY DEF TaskInit, TraceInv, TraceFollows
  <1>2. TaskInv /\ TraceInv /\ [TaskNext]_taskVars => TraceInv'
    <2>1. TraceInv /\ UNCHANGED taskVars => TraceInv'
      BY DEF taskVars, TraceInv, TraceFollows, LastTold
    <2>2. QED
      BY <2>1, TraceStep DEF TaskNext
  <1>3. TaskInv /\ TraceInv => TaskTypeOK /\ TraceAgrees
    BY DEF TaskInv, TraceInv, TraceFollows, LastTold, TraceAgrees, HasEnded
  <1>4. QED
    BY <1>1, <1>2, <1>3, TaskInvInit, TaskInvStep, PTL DEF TaskSpec

-----------------------------------------------------------------------------
(* MiddlewareProxy *)

\* Before the half towards the gateway opens everything waits; then nothing does.
ProxyInv ==
  /\ ProxyTypeOK
  /\ \A f \in Frames : place[f] = "chain" => hooks[f] < Middlewares
  /\ upstream = "CONNECTING" => ~upstreamReady /\ arrived = <<>> /\ held = passed
  /\ upstream = "OPEN" => upstreamReady /\ held = <<>> /\ arrived = passed

LEMMA ProxyInvInit == ProxyInit => ProxyInv
  <1> SUFFICES ASSUME ProxyInit PROVE ProxyInv
    OBVIOUS
  <1>1. upstreamReady \in BOOLEAN /\ joined \in BOOLEAN /\ ~upstreamReady
    BY Zenon DEF ProxyInit
  <1>2. /\ clientWs = "OPEN" /\ upstream = "CONNECTING"
        /\ held = <<>> /\ arrived = <<>> /\ returned = <<>> /\ passed = <<>>
        /\ place = [f \in Frames |-> "unsent"] /\ hooks = [f \in Frames |-> 0]
    BY Zenon DEF ProxyInit
  <1>3. ProxyTypeOK
    BY <1>1, <1>2, ProxyAssumption DEF ProxyTypeOK
  <1>4. QED
    BY <1>1, <1>2, <1>3 DEF ProxyInv

\* What the chain lets through keeps it.
LEMMA ReachesKeeps ==
  ASSUME ProxyInv, NEW f \in Frames, NEW k \in 0..Middlewares, Reaches(f, k),
         UNCHANGED <<clientWs, upstream>>, upstreamReady' = upstreamReady, joined' = joined
  PROVE  ProxyInv'
  <1>1. /\ {held, arrived, passed} \subseteq Seq(Inbound) /\ returned \in Seq(Outbound)
        /\ place \in [Frames -> {"unsent", "chain", "blocked", "through"}] /\ hooks \in [Frames -> 0..Middlewares]
    BY DEF ProxyInv, ProxyTypeOK
  <1>2. place' \in [Frames -> {"unsent", "chain", "blocked", "through"}] /\ hooks' \in [Frames -> 0..Middlewares]
    BY <1>1 DEF Reaches
  <1>3. upstreamReady' \in BOOLEAN /\ joined' \in BOOLEAN
    BY Zenon DEF ProxyInv, ProxyTypeOK
  <1>p. \A g \in Frames : place'[g] = "chain" => hooks'[g] < Middlewares
    BY <1>1, ProxyAssumption DEF Reaches, ProxyInv
  <1>4. CASE UNCHANGED <<held, arrived, returned, passed>>
    <2>1. ProxyTypeOK'
      BY <1>1, <1>2, <1>3, <1>4 DEF ProxyInv, ProxyTypeOK
    <2>2. QED
      BY <1>p, <1>4, <2>1 DEF ProxyInv
  <1>5. CASE Send(f) /\ f \in Inbound
    <2>0. passed' = Append(passed, f) /\ returned' = returned
      BY <1>5, Zenon DEF Send
    <2>1. passed' = Append(passed, f) /\ passed' \in Seq(Inbound) /\ returned' = returned
      BY <1>1, <1>5, <2>0
    <2>2. CASE upstreamReady /\ upstream = "OPEN"
      <3>1. arrived' = Append(arrived, f) /\ held' = held
        BY <1>5, <2>2 DEF Send
      <3>2. arrived' \in Seq(Inbound)
        BY <1>1, <1>5, <3>1
      <3>3. ProxyTypeOK'
        BY <1>1, <1>2, <1>3, <2>1, <3>1, <3>2 DEF ProxyInv, ProxyTypeOK
      <3>4. QED
        BY <1>p, <2>1, <2>2, <3>1, <3>3 DEF ProxyInv
    <2>3. CASE ~upstreamReady
      <3>1. held' = Append(held, f) /\ arrived' = arrived
        BY <1>5, <2>3 DEF Send
      <3>2. held' \in Seq(Inbound)
        BY <1>1, <1>5, <3>1
      <3>3. ProxyTypeOK'
        BY <1>1, <1>2, <1>3, <2>1, <3>1, <3>2 DEF ProxyInv, ProxyTypeOK
      <3>4. QED
        BY <1>p, <2>1, <2>3, <3>1, <3>3 DEF ProxyInv
    <2>4. CASE upstreamReady /\ upstream # "OPEN"
      <3>1. UNCHANGED <<held, arrived>>
        BY <1>5, <2>4 DEF Send
      <3>2. ProxyTypeOK'
        BY <1>1, <1>2, <1>3, <2>1, <3>1 DEF ProxyInv, ProxyTypeOK
      <3>3. QED
        BY <1>p, <2>4, <3>1, <3>2 DEF ProxyInv
    <2>5. QED
      BY <2>2, <2>3, <2>4
  <1>6. CASE Send(f) /\ f \notin Inbound
    <2>0. /\ UNCHANGED <<passed, held, arrived>>
          /\ returned' = IF clientWs = "OPEN" THEN Append(returned, f) ELSE returned
      BY <1>6, Zenon DEF Send
    <2>1. UNCHANGED <<passed, held, arrived>> /\ returned' \in Seq(Outbound)
      BY <1>1, <1>6, <2>0 DEF Frames
    <2>2. ProxyTypeOK'
      BY <1>1, <1>2, <1>3, <2>1 DEF ProxyInv, ProxyTypeOK
    <2>3. QED
      BY <1>p, <2>1, <2>2 DEF ProxyInv
  <1>7. QED
    BY <1>4, <1>5, <1>6 DEF Reaches

LEMMA ProxyInvStep == ASSUME ProxyInv, [ProxyNext]_proxyVars PROVE ProxyInv'
  <1>0. joined' \in BOOLEAN /\ upstreamReady' \in BOOLEAN
    <2>1. joined \in BOOLEAN /\ upstreamReady \in BOOLEAN
      BY DEF ProxyInv, ProxyTypeOK
    <2>2. CASE UNCHANGED <<upstreamReady, joined>>
      BY <2>1, <2>2, Zenon
    <2>3. CASE UpstreamOpens
      BY <2>3, Zenon DEF UpstreamOpens
    <2>4. QED
      BY <2>2, <2>3, Zenon DEF ProxyNext, proxyVars, Receive, Hook, Block, UpstreamFails, UpstreamCloses,
         ClientCloses, StopProxy
  <1>1. CASE UNCHANGED proxyVars
    BY <1>1 DEF proxyVars, ProxyInv, ProxyTypeOK
  <1>2. ASSUME NEW f \in Frames, Receive(f) PROVE ProxyInv'
    <2>1. \E k \in 0..Middlewares : Reaches(f, k)
      BY <1>2, ProxyAssumption DEF Receive
    <2>2. UNCHANGED <<clientWs, upstream>> /\ upstreamReady' = upstreamReady /\ joined' = joined
      BY <1>2, Zenon DEF Receive
    <2>3. QED
      BY <2>1, <2>2, ReachesKeeps
  <1>3. ASSUME NEW f \in Frames, Hook(f) PROVE ProxyInv'
    <2>1. UNCHANGED <<clientWs, upstream>> /\ upstreamReady' = upstreamReady /\ joined' = joined
      BY <1>3, Zenon DEF Hook
    <2>2. hooks[f] + 1 \in 0..Middlewares
      <3>1. hooks[f] \in 0..Middlewares /\ hooks[f] < Middlewares
        BY <1>3 DEF Hook, ProxyInv, ProxyTypeOK
      <3>2. QED
        BY <3>1, ProxyAssumption
    <2>3. QED
      BY <1>3, <2>1, <2>2, ReachesKeeps DEF Hook
  <1>4. ASSUME NEW f \in Frames, Block(f) PROVE ProxyInv'
    <2>1. UNCHANGED <<clientWs, upstream, held, hooks, arrived, returned, passed>>
      BY <1>4, Zenon DEF Block
    <2>2. upstreamReady' = upstreamReady /\ joined' = joined
      BY <1>4, Zenon DEF Block
    <2>3. place' \in [Frames -> {"unsent", "chain", "blocked", "through"}]
      BY <1>4 DEF Block, ProxyInv, ProxyTypeOK
    <2>4. ProxyTypeOK'
      BY <1>0, <2>1, <2>3 DEF ProxyInv, ProxyTypeOK
    <2>5. \A g \in Frames : place'[g] = "chain" => hooks'[g] < Middlewares
      BY <1>4, <2>1 DEF Block, ProxyInv, ProxyTypeOK
    <2>6. QED
      BY <2>1, <2>2, <2>4, <2>5 DEF ProxyInv
  <1>5. CASE UpstreamOpens
    <2>1. arrived' = held /\ held' = <<>> /\ passed' = passed /\ held = passed
      BY <1>5 DEF UpstreamOpens, ProxyInv, ProxyTypeOK
    <2>2. ProxyTypeOK'
      BY <1>0, <1>5, <2>1 DEF UpstreamOpens, ProxyInv, ProxyTypeOK
    <2>3. upstream' = "OPEN" /\ upstreamReady' /\ UNCHANGED <<place, hooks>>
      BY <1>5, Zenon DEF UpstreamOpens
    <2>4. QED
      BY <2>1, <2>2, <2>3 DEF ProxyInv
  <1>6. CASE UpstreamFails \/ UpstreamCloses \/ ClientCloses \/ StopProxy
    <2>1. UNCHANGED <<held, place, hooks, arrived, returned, passed>>
      BY <1>6, Zenon DEF UpstreamFails, UpstreamCloses, ClientCloses, StopProxy
    <2>2. upstreamReady' = upstreamReady /\ joined' = joined
      BY <1>6, Zenon DEF UpstreamFails, UpstreamCloses, ClientCloses, StopProxy
    <2>3. /\ clientWs' \in {"OPEN", "CLOSING", "CLOSED"}
          /\ \/ upstream' = "CLOSED" \/ upstream' = "CLOSING" \/ upstream' = upstream
      BY <1>6 DEF UpstreamFails, UpstreamCloses, ClientCloses, StopProxy, Closes, ProxyInv, ProxyTypeOK
    <2>4. ProxyTypeOK'
      BY <1>0, <2>1, <2>3 DEF ProxyInv, ProxyTypeOK
    <2>5. QED
      BY <2>1, <2>2, <2>3, <2>4 DEF ProxyInv
  <1>7. QED
    BY <1>1, <1>2, <1>3, <1>4, <1>5, <1>6 DEF ProxyNext

\* A connection that is not open yet neither loses, repeats nor reorders a frame.
THEOREM FramesArriveInOrder == ProxySpec => []PassedFramesArrive
  <1>1. ProxyInv => PassedFramesArrive
    BY DEF ProxyInv, ProxyTypeOK, PassedFramesArrive
  <1>2. QED
    BY <1>1, ProxyInvInit, ProxyInvStep, PTL DEF ProxySpec

-----------------------------------------------------------------------------
(* A day that is taken for synced is synced *)

CostJobs == [pc : {"idle", "report", "filter", "find", "row", "budget", "save"}, report : [Days -> 0..MaxUsage],
             todo : SUBSET Days, day : 0..LastDay, old : Rows, own : BOOLEAN, now : 0..LastDay, latest : 0..LastDay]

Collects(c) == collect[c].pc # "idle"
Walks(j) == j.pc \in {"find", "row", "budget", "save"}

\* One call collects, and holds the flag.
OneCollects ==
  \A c, e \in Collectors :
    /\ ~Collects(c) => collect[c] = CollectIdle
    /\ Collects(c) => collecting /\ (Collects(e) => e = c)

\* What is remembered as synced is over, and the call that collects knows of it.
SyncIsPast ==
  /\ lastSync < today
  /\ \A d \in Days : d > today => usage[d] = 0
  /\ \A c \in Collectors : Collects(c) =>
       /\ lastSync <= collect[c].latest /\ collect[c].latest < today
       /\ Walks(collect[c]) => collect[c].latest < collect[c].now /\ collect[c].now <= today
       /\ Walks(collect[c]) => \A d \in collect[c].todo : d <= collect[c].now
       /\ collect[c].pc \in {"row", "budget"} => collect[c].day \in collect[c].todo

\* The rows of all days up to this one, but for those left out, hold what the bot used.
CopiedTo(day) == \A d \in Days \ missed : d <= day /\ usage[d] > 0 => daily[d] = usage[d]

\* The report tells of the days before the one it came on, and who walks through it in
\* order has left no such day behind.
WalksInOrder(j) ==
  /\ CopiedTo(j.latest)
  /\ j.pc = "filter" => \A d \in Days : d < today => j.report[d] = usage[d]
  /\ Walks(j) => \A d \in Days : d < j.now =>
       j.report[d] = usage[d] /\ (usage[d] > 0 /\ d > j.latest => d \in j.todo \cup missed)
  /\ j.pc \in {"row", "budget"} => j.own /\ \A d \in j.todo : j.day <= d
  /\ j.pc = "budget" => daily[j.day] = j.report[j.day]

NoDirectRow == \A d \in Days : direct[d] = NoRow
SyncedInv ==
  /\ CostTypeOK /\ OneCollects /\ SyncIsPast
  /\ ~crossed /\ NoDirectRow => /\ CopiedTo(lastSync)
                                /\ \A c \in Collectors : Collects(c) => WalksInOrder(collect[c])

LEMMA CostSpendTypes ==
  ASSUME costLeft \in [CostKinds -> Nat], NEW k \in CostKinds, CostSpend(k)
  PROVE  costLeft' \in [CostKinds -> Nat]
  <1>1. costLeft[k] - 1 \in Nat
    BY DEF CostSpend
  <1>2. QED
    BY <1>1 DEF CostSpend

LEMMA ChargeTypes ==
  ASSUME spend \in [month : Nat, day : Nat], NEW old \in Rows, NEW new \in Nat, Charge(old, new)
  PROVE  spend' \in [month : Nat, day : Nat]
  <1> DEFINE more == IF old = NoRow THEN new ELSE IF new > old THEN new - old ELSE 0
  <1>1. more \in Nat
    BY CostAssumption DEF Rows, NoRow
  <1>2. spend' = [month |-> spend.month + more, day |-> spend.day + more]
    BY Zenon DEF Charge
  <1> HIDE DEF more
  <1>3. QED
    BY <1>1, <1>2

\* What a call that collects becomes.
LEMMA JobTypes ==
  ASSUME CostTypeOK, NEW c \in Collectors,
         \/ CollectCosts(c) \/ GetUsage(c) \/ FilterDays(c) \/ FindRow(c) \/ WriteRow(c)
         \/ AddToBudget(c) \/ SaveSyncDate(c) \/ CollectThrows(c)
  PROVE  /\ collect \in [Collectors -> CostJobs]
         /\ \E r \in CostJobs : collect' = [collect EXCEPT ![c] = r]
  <1>1. collect \in [Collectors -> CostJobs] /\ collect[c] \in CostJobs
    BY DEF CostTypeOK, CostJobs
  <1>2. lastSync \in 0..LastDay /\ today \in Days /\ today \in 0..LastDay
    BY DEF CostTypeOK, Days
  <1>3. CollectIdle \in CostJobs
    <2>1. 0 \in 0..MaxUsage /\ 0 \in 0..LastDay /\ NoRow \in Rows
      BY CostAssumption DEF Rows, NoRow
    <2>2. QED
      BY <2>1 DEF CollectIdle, CostJobs
  <1>4. CASE CollectCosts(c)
    <2> DEFINE r == [CollectIdle EXCEPT !.pc = "report", !.latest = lastSync]
    <2>1. r \in CostJobs
      BY <1>2, <1>3 DEF CostJobs
    <2>2. collect' = [collect EXCEPT ![c] = r]
      BY <1>4 DEF CollectCosts, Job
    <2>3. QED
      BY <1>1, <2>1, <2>2
  <1>5. CASE GetUsage(c)
    <2> DEFINE r == [collect[c] EXCEPT !.pc = "filter", !.report = usage]
    <2>1. r \in CostJobs
      BY <1>1 DEF CostJobs, CostTypeOK
    <2>2. collect' = [collect EXCEPT ![c] = r]
      BY <1>5 DEF GetUsage, Job
    <2>3. QED
      BY <1>1, <2>1, <2>2
  <1>6. CASE FilterDays(c)
    <2> DEFINE days == NewestOf(Due(collect[c]))
               r == [collect[c] EXCEPT !.pc = "find", !.todo = days, !.now = today]
    <2>1. r \in CostJobs
      <3>1. days \in SUBSET Days
        BY DEF NewestOf, Due
      <3> HIDE DEF days
      <3>2. QED
        BY <1>1, <1>2, <3>1 DEF CostJobs
    <2>2. collect' = [collect EXCEPT ![c] = r] \/ collect' = [collect EXCEPT ![c] = CollectIdle]
      BY <1>6 DEF FilterDays, Job, CostsDone
    <2> HIDE DEF r
    <2>3. QED
      BY <1>1, <1>3, <2>1, <2>2
  <1>7. CASE FindRow(c)
    <2>1. PICK d \in Days, old \in Rows, own \in BOOLEAN :
            collect' = [collect EXCEPT ![c] = [collect[c] EXCEPT !.pc = "row", !.day = d, !.old = old, !.own = own]]
      <3>1. \A d \in collect[c].todo : d \in Days /\ daily[d] \in Rows /\ direct[d] \in Rows
        BY <1>1 DEF CostJobs, CostTypeOK
      <3>2. NoRow \in Rows
        BY CostAssumption DEF Rows, NoRow
      <3>3. QED
        BY <1>7, <3>1, <3>2 DEF FindRow, Job
    <2> DEFINE r == [collect[c] EXCEPT !.pc = "row", !.day = d, !.old = old, !.own = own]
    <2>2. d \in 0..LastDay
      BY DEF Days
    <2>3. r \in CostJobs
      BY <1>1, <2>2 DEF CostJobs
    <2>4. QED
      BY <1>1, <2>1, <2>3
  <1>8. CASE WriteRow(c)
    <2> DEFINE r == [collect[c] EXCEPT !.pc = "budget"]
    <2>1. r \in CostJobs
      BY <1>1 DEF CostJobs
    <2>2. collect' = [collect EXCEPT ![c] = r]
      BY <1>8 DEF WriteRow, Job
    <2>3. QED
      BY <1>1, <2>1, <2>2
  <1>9. CASE AddToBudget(c)
    <2> DEFINE rest == collect[c].todo \ {collect[c].day}
               pc == IF rest = {} THEN "save" ELSE "find"
               r == [collect[c] EXCEPT !.pc = pc, !.todo = rest, !.latest = Latest(collect[c])]
    <2>1. Latest(collect[c]) \in 0..LastDay /\ rest \in SUBSET Days /\ pc \in {"save", "find"}
      BY <1>1 DEF Latest, CostJobs
    <2>2. collect' = [collect EXCEPT ![c] = r]
      BY <1>9 DEF AddToBudget, Job
    <2> HIDE DEF rest, pc
    <2>3. r \in CostJobs
      BY <1>1, <2>1 DEF CostJobs
    <2>4. QED
      BY <1>1, <2>2, <2>3
  <1>10. CASE SaveSyncDate(c) \/ CollectThrows(c)
    BY <1>1, <1>3, <1>10 DEF SaveSyncDate, CollectThrows, CostsDone, Job
  <1>11. QED
    BY <1>4, <1>5, <1>6, <1>7, <1>8, <1>9, <1>10

LEMMA CostTypes == ASSUME CostTypeOK, SyncIsPast, [CostNext]_costVars PROVE CostTypeOK'
  <1>1. /\ today \in Days /\ usage \in [Days -> 0..MaxUsage] /\ daily \in [Days -> Rows] /\ direct \in [Days -> Rows]
        /\ spend \in [month : Nat, day : Nat] /\ lastSync \in 0..LastDay /\ costLeft \in [CostKinds -> Nat]
        /\ LastDay \in Nat /\ MaxUsage \in Nat
    BY CostAssumption DEF CostTypeOK
  <1>2. collecting' \in BOOLEAN /\ cut' \in BOOLEAN /\ crossed' \in BOOLEAN
    BY ZenonT(30) DEF CostTypeOK, CostNext, costVars, CollectCosts, GetUsage, FilterDays, FindRow, WriteRow,
       AddToBudget,
       SaveSyncDate, CollectThrows, RecordCostEvent, ResetDailyBudgets, Use, Midnight, OnlyCollect, CostsDone
  <1>10. missed' \subseteq Days
    <2>1. ASSUME NEW c \in Collectors, FilterDays(c) PROVE missed' \subseteq Days
      BY <2>1 DEF CostTypeOK, FilterDays, Due
    <2>2. QED
      BY <2>1 DEF CostTypeOK, CostNext, costVars, CollectCosts, GetUsage, FindRow, WriteRow, AddToBudget,
         SaveSyncDate, CollectThrows, RecordCostEvent, ResetDailyBudgets, Use, Midnight, OnlyCollect
  <1>3. ASSUME NEW c \in Collectors,
               \/ CollectCosts(c) \/ GetUsage(c) \/ FilterDays(c) \/ FindRow(c) \/ WriteRow(c)
               \/ AddToBudget(c) \/ SaveSyncDate(c) \/ CollectThrows(c)
        PROVE  CostTypeOK'
    <2>1. collect \in [Collectors -> CostJobs] /\ collect' \in [Collectors -> CostJobs]
      BY <1>3, JobTypes
    <2>2. collect[c] \in CostJobs
      BY <2>1
    <2>3. UNCHANGED <<today, usage>>
      BY <1>3 DEF CollectCosts, GetUsage, FilterDays, FindRow, WriteRow, AddToBudget, SaveSyncDate,
         CollectThrows, OnlyCollect
    <2>4. daily' \in [Days -> Rows] /\ direct' \in [Days -> Rows]
      <3>1. CASE WriteRow(c)
        <4>1. \A d \in Days : collect[c].report[d] \in Rows
          BY <1>1, <2>2 DEF CostJobs, Rows, NoRow
        <4>2. /\ daily' = daily \/ daily' = [daily EXCEPT ![collect[c].day] = collect[c].report[collect[c].day]]
              /\ direct' = direct \/ direct' = [direct EXCEPT ![collect[c].day] = collect[c].report[collect[c].day]]
          BY <3>1 DEF WriteRow
        <4>3. QED
          BY <1>1, <4>1, <4>2
      <3>2. CASE ~WriteRow(c)
        <4>1. UNCHANGED <<daily, direct>>
          BY <1>3, <3>2 DEF CollectCosts, GetUsage, FilterDays, FindRow, AddToBudget, SaveSyncDate,
             CollectThrows, OnlyCollect
        <4>2. QED
          BY <1>1, <4>1
      <3>3. QED
        BY <3>1, <3>2
    <2>5. spend' \in [month : Nat, day : Nat]
      <3>1. CASE AddToBudget(c)
        <4>1. collect[c].day \in Days
          BY <2>2, <3>1 DEF AddToBudget, SyncIsPast, Collects, CostJobs
        <4>2. collect[c].old \in Rows /\ collect[c].report[collect[c].day] \in Nat
          BY <2>2, <4>1, <1>1 DEF CostJobs
        <4>3. QED
          BY <1>1, <3>1, <4>2, ChargeTypes DEF AddToBudget
      <3>2. CASE ~AddToBudget(c)
        BY <1>1, <1>3, <3>2 DEF CollectCosts, GetUsage, FilterDays, FindRow, WriteRow, SaveSyncDate,
           CollectThrows, OnlyCollect
      <3>3. QED
        BY <3>1, <3>2
    <2>6. lastSync' \in 0..LastDay
      BY <1>1, <1>3, <2>2 DEF CollectCosts, GetUsage, FilterDays, FindRow, WriteRow, AddToBudget, SaveSyncDate,
         CollectThrows, OnlyCollect, CostJobs
    <2>7. costLeft' \in [CostKinds -> Nat]
      <3>1. CASE CostSpend("collect") \/ CostSpend("fail")
        BY <1>1, <3>1, CostSpendTypes DEF CostKinds
      <3>2. CASE UNCHANGED costLeft
        BY <1>1, <3>2
      <3>3. QED
        BY <1>3, <3>1, <3>2 DEF CollectCosts, GetUsage, FilterDays, FindRow, WriteRow, AddToBudget,
           SaveSyncDate, CollectThrows
    <2>8. QED
      BY <1>1, <1>2, <1>10, <2>1, <2>3, <2>4, <2>5, <2>6, <2>7 DEF CostTypeOK, CostJobs
  <1>4. CASE RecordCostEvent
    <2>1. /\ costLeft' \in [CostKinds -> Nat] /\ direct' = [direct EXCEPT ![today] = 1] /\ Charge(NoRow, 1)
          /\ UNCHANGED <<today, usage, daily, lastSync, collect>>
      BY <1>1, <1>4, CostSpendTypes DEF RecordCostEvent, CostKinds
    <2>2. 1 \in Rows /\ NoRow \in Rows /\ 1 \in Nat
      BY <1>1 DEF Rows, NoRow
    <2>3. spend' \in [month : Nat, day : Nat]
      BY <1>1, <2>1, <2>2, ChargeTypes
    <2>4. direct' \in [Days -> Rows]
      BY <1>1, <2>1, <2>2
    <2>5. QED
      BY <1>2, <1>10, <2>1, <2>3, <2>4 DEF CostTypeOK
  <1>5. CASE ResetDailyBudgets
    <2>1. /\ costLeft' \in [CostKinds -> Nat] /\ spend' = [spend EXCEPT !.day = 0]
          /\ UNCHANGED <<today, usage, daily, direct, lastSync, collect>>
      BY <1>1, <1>5, CostSpendTypes DEF ResetDailyBudgets, CostKinds
    <2>2. spend' \in [month : Nat, day : Nat]
      BY <1>1, <2>1
    <2>3. QED
      BY <1>2, <1>10, <2>1, <2>2 DEF CostTypeOK
  <1>6. CASE Use
    <2>1. /\ costLeft' \in [CostKinds -> Nat] /\ usage[today] < MaxUsage
          /\ usage' = [usage EXCEPT ![today] = usage[today] + 1]
          /\ UNCHANGED <<today, daily, direct, spend, lastSync, collect>>
      BY <1>1, <1>6, CostSpendTypes DEF Use, CostKinds
    <2>2. usage[today] + 1 \in 0..MaxUsage
      BY <1>1, <2>1
    <2>3. usage' \in [Days -> 0..MaxUsage]
      BY <1>1, <2>1, <2>2
    <2>4. QED
      BY <1>2, <1>10, <2>1, <2>3 DEF CostTypeOK
  <1>7. CASE Midnight
    <2>1. today' \in Days /\ UNCHANGED <<usage, daily, direct, spend, lastSync, collect, costLeft>>
      BY <1>1, <1>7 DEF Midnight, Days
    <2>2. QED
      BY <1>2, <1>10, <2>1 DEF CostTypeOK
  <1>8. CASE UNCHANGED costVars
    BY <1>8 DEF costVars, CostTypeOK
  <1>9. QED
    BY <1>3, <1>4, <1>5, <1>6, <1>7, <1>8 DEF CostNext

\* A step of the call that collects which writes no row, and may leave days out.
LEMMA JobLeavesOut ==
  ASSUME SyncedInv, CostTypeOK', NEW c \in Collectors, NEW r \in CostJobs,
         collect' = [collect EXCEPT ![c] = r],
         UNCHANGED <<today, usage, daily, direct>>, lastSync' \in Nat, ~crossed' => ~crossed, missed \subseteq missed',
         \A e \in Collectors : e # c => ~Collects(e),
         r.pc = "idle" => r = CollectIdle,
         lastSync' < today,
         r.pc # "idle" =>
           /\ collecting'
           /\ lastSync' <= r.latest /\ r.latest < today
           /\ Walks(r) => r.latest < r.now /\ r.now <= today /\ \A d \in r.todo : d <= r.now
           /\ r.pc \in {"row", "budget"} => r.day \in r.todo,
         ~crossed /\ NoDirectRow => CopiedTo(lastSync') /\ (r.pc # "idle" => WalksInOrder(r)')
  PROVE  SyncedInv'
  <1>1. collect \in [Collectors -> CostJobs]
    BY DEF SyncedInv, CostTypeOK, CostJobs
  <1>2. collect'[c] = r /\ \A e \in Collectors : e # c => collect'[e] = collect[e]
    BY <1>1
  <1>3. \A e \in Collectors : e # c => ~Collects(e)'
    BY <1>2 DEF Collects
  <1>4. OneCollects'
    BY <1>2, <1>3 DEF SyncedInv, OneCollects, Collects
  <1>5. SyncIsPast'
    BY <1>2, <1>3 DEF SyncedInv, SyncIsPast, Collects, Walks
  <1>6. ASSUME ~crossed', NoDirectRow'
        PROVE  CopiedTo(lastSync)' /\ \A e \in Collectors : Collects(e)' => WalksInOrder(collect[e])'
    <2>1. ~crossed /\ NoDirectRow
      BY <1>6 DEF NoDirectRow
    <2>2. CopiedTo(lastSync)'
      BY <2>1 DEF CopiedTo
    <2>3. ASSUME NEW e \in Collectors, Collects(e)' PROVE WalksInOrder(collect[e])'
      <3>1. e = c /\ r.pc # "idle"
        BY <1>2, <1>3, <2>3 DEF Collects
      <3>2. WalksInOrder(r)'
        BY <2>1, <3>1
      <3>3. QED
        BY <1>2, <3>1, <3>2 DEF WalksInOrder, CopiedTo, Walks
    <2>4. QED
      BY <2>2, <2>3
  <1>7. QED
    BY <1>4, <1>5, <1>6 DEF SyncedInv

\* One that leaves none out.
LEMMA JobMoves ==
  ASSUME SyncedInv, CostTypeOK', NEW c \in Collectors, NEW r \in CostJobs,
         collect' = [collect EXCEPT ![c] = r],
         UNCHANGED <<today, usage, daily, direct, missed>>, lastSync' \in Nat, ~crossed' => ~crossed,
         \A e \in Collectors : e # c => ~Collects(e),
         r.pc = "idle" => r = CollectIdle,
         lastSync' < today,
         r.pc # "idle" =>
           /\ collecting'
           /\ lastSync' <= r.latest /\ r.latest < today
           /\ Walks(r) => r.latest < r.now /\ r.now <= today /\ \A d \in r.todo : d <= r.now
           /\ r.pc \in {"row", "budget"} => r.day \in r.todo,
         ~crossed /\ NoDirectRow => CopiedTo(lastSync') /\ (r.pc # "idle" => WalksInOrder(r))
  PROVE  SyncedInv'
  <1>1. ~crossed /\ NoDirectRow /\ r.pc # "idle" => WalksInOrder(r)'
    BY DEF WalksInOrder, CopiedTo, Walks
  <1>2. missed \subseteq missed' /\ UNCHANGED <<today, usage, daily, direct>>
    OBVIOUS
  <1>3. QED
    BY <1>1, <1>2, JobLeavesOut

\* Who collects, collects alone.
LEMMA CollectsAlone ==
  ASSUME SyncedInv, NEW c \in Collectors, Collects(c)
  PROVE  /\ collecting /\ \A e \in Collectors : e # c => ~Collects(e)
         /\ collect[c] \in CostJobs
         /\ lastSync <= collect[c].latest /\ collect[c].latest < today
         /\ Walks(collect[c]) => /\ collect[c].latest < collect[c].now /\ collect[c].now <= today
                                 /\ \A d \in collect[c].todo : d <= collect[c].now
         /\ collect[c].pc \in {"row", "budget"} => collect[c].day \in collect[c].todo
         /\ ~crossed /\ NoDirectRow => CopiedTo(lastSync) /\ WalksInOrder(collect[c])
         /\ lastSync \in Nat /\ today \in Nat /\ lastSync < today /\ collect[c].latest \in Nat
         /\ usage \in [Days -> Nat]
  <1>1. collect[c] \in CostJobs /\ lastSync \in Nat /\ today \in Nat /\ collect[c].latest \in Nat
    BY DEF SyncedInv, CostTypeOK, CostJobs, Days
  <1>2. usage \in [Days -> Nat]
    BY CostAssumption DEF SyncedInv, CostTypeOK
  <1>3. QED
    BY <1>1, <1>2 DEF SyncedInv, OneCollects, SyncIsPast

LEMMA CollectCostsSyncs == ASSUME SyncedInv, CostTypeOK', NEW c \in Collectors, CollectCosts(c) PROVE SyncedInv'
  <1>1. PICK r : r = [CollectIdle EXCEPT !.pc = "report", !.latest = lastSync]
    OBVIOUS
  <1>2. r.pc = "report" /\ r.latest = lastSync
    BY <1>1 DEF CollectIdle
  <1>3. collect' = [collect EXCEPT ![c] = r] /\ collecting' /\ ~collecting
        /\ UNCHANGED <<today, usage, daily, direct, lastSync, crossed, missed>>
    BY <1>1 DEF CollectCosts, Job
  <1>4. r \in CostJobs /\ lastSync \in Nat
    BY <1>3 DEF SyncedInv, CostTypeOK, CostJobs
  <1>5. \A e \in Collectors : ~Collects(e)
    BY <1>3 DEF SyncedInv, OneCollects
  <1>6. lastSync < today /\ lastSync <= lastSync
    BY <1>4 DEF SyncedInv, SyncIsPast
  <1>7. ~crossed /\ NoDirectRow => CopiedTo(lastSync)
    BY DEF SyncedInv
  <1>8. ~crossed /\ NoDirectRow => WalksInOrder(r)
    BY <1>2, <1>7 DEF WalksInOrder, Walks
  <1>9. QED
    BY <1>2, <1>3, <1>4, <1>5, <1>6, <1>7, <1>8, JobMoves DEF Walks

LEMMA GetUsageSyncs == ASSUME SyncedInv, CostTypeOK', NEW c \in Collectors, GetUsage(c) PROVE SyncedInv'
  <1>1. PICK r : r = [collect[c] EXCEPT !.pc = "filter", !.report = usage]
    OBVIOUS
  <1>2. collect[c].pc = "report" /\ Collects(c)
    BY DEF GetUsage, Collects
  <1>3. /\ collect' = [collect EXCEPT ![c] = r]
        /\ UNCHANGED <<today, usage, daily, direct, lastSync, crossed, missed, collecting>>
    BY <1>1 DEF GetUsage, Job, OnlyCollect
  <1>4. r.pc = "filter" /\ r.latest = collect[c].latest /\ r.report = usage /\ r \in CostJobs
    BY <1>1, <1>2, CollectsAlone, ZenonT(30) DEF CostJobs, SyncedInv, CostTypeOK
  <1>5. ~crossed /\ NoDirectRow => WalksInOrder(r)
    BY <1>2, <1>4, CollectsAlone DEF WalksInOrder, Walks
  <1>6. QED
    BY <1>2, <1>3, <1>4, <1>5, CollectsAlone, JobMoves DEF Walks

LEMMA EndsSyncs ==
  ASSUME SyncedInv, CostTypeOK', NEW c \in Collectors,
         SaveSyncDate(c) \/ CollectThrows(c) \/ (FilterDays(c) /\ CostsDone(c))
  PROVE  SyncedInv'
  <1>1. Collects(c)
    BY DEF SaveSyncDate, CollectThrows, FilterDays, Collects, SyncedInv, OneCollects
  <1>2. /\ collect' = [collect EXCEPT ![c] = CollectIdle]
        /\ UNCHANGED <<today, usage, daily, direct, crossed>> /\ missed \subseteq missed'
        /\ lastSync' = lastSync \/ lastSync' = collect[c].latest
    BY DEF SaveSyncDate, CollectThrows, FilterDays, CostsDone, Job
  <1>3. CollectIdle \in CostJobs /\ CollectIdle.pc = "idle"
    <2>1. 0 \in 0..MaxUsage /\ 0 \in 0..LastDay /\ NoRow \in Rows
      BY CostAssumption DEF Rows, NoRow
    <2>2. QED
      BY <2>1 DEF CollectIdle, CostJobs
  <1>4. lastSync' \in Nat /\ lastSync' < today
    BY <1>1, <1>2, CollectsAlone
  <1>5. ~crossed /\ NoDirectRow => CopiedTo(lastSync) /\ CopiedTo(collect[c].latest)
    BY <1>1, CollectsAlone DEF WalksInOrder
  <1>6. ~crossed /\ NoDirectRow => CopiedTo(lastSync')
    BY <1>2, <1>5 DEF CopiedTo
  <1>7. QED
    BY <1>1, <1>2, <1>3, <1>4, <1>6, CollectsAlone, JobLeavesOut

\* The report of the days before midnight is the report of the days before now.
LEMMA FilterSyncs == ASSUME SyncedInv, CostTypeOK', NEW c \in Collectors, FilterDays(c) PROVE SyncedInv'
  <1>1. CASE CostsDone(c)
    BY <1>1, EndsSyncs
  <1>2. CASE ~CostsDone(c)
    <2> DEFINE days == NewestOf(Due(collect[c]))
    <2>1. PICK r : r = [collect[c] EXCEPT !.pc = "find", !.todo = days, !.now = today]
      OBVIOUS
    <2>2. collect[c].pc = "filter" /\ Collects(c)
      BY DEF FilterDays, Collects
    <2>3. /\ collect' = [collect EXCEPT ![c] = r]
          /\ UNCHANGED <<today, usage, daily, direct, lastSync, crossed, collecting>>
          /\ missed' = missed \cup (Due(collect[c]) \ days)
      BY <1>2, <2>1 DEF FilterDays, Job
    <2>4. /\ r.pc = "find" /\ r.latest = collect[c].latest /\ r.report = collect[c].report /\ r.todo = days
          /\ r.now = today /\ r \in CostJobs
      <3>1. days \in SUBSET Days /\ today \in 0..LastDay
        BY DEF SyncedInv, CostTypeOK, Days, NewestOf, Due
      <3> HIDE DEF days
      <3>2. QED
        BY <2>1, <2>2, <3>1, CollectsAlone DEF CostJobs
    <2>5. ~crossed /\ NoDirectRow => WalksInOrder(r)'
      <3>1. SUFFICES ASSUME ~crossed, NoDirectRow PROVE WalksInOrder(r)'
        OBVIOUS
      <3>2. CopiedTo(collect[c].latest) /\ \A d \in Days : d < today => collect[c].report[d] = usage[d]
        BY <2>2, <3>1, CollectsAlone DEF WalksInOrder
      <3>3. \A d \in Days : d < today /\ usage[d] > 0 /\ d > collect[c].latest => d \in days \cup missed'
        <4>1. \A d \in Days : d < today /\ usage[d] > 0 /\ d > collect[c].latest => d \in Due(collect[c])
          BY <3>2, <2>2, CollectsAlone DEF Days, Due
        <4> HIDE DEF days
        <4>2. QED
          BY <2>3, <4>1
      <3> HIDE DEF days
      <3>4. QED
        BY <2>3, <2>4, <3>2, <3>3 DEF WalksInOrder, CopiedTo
    <2>6. \A d \in r.todo : d <= r.now
      BY <2>4 DEF NewestOf, Due
    <2>9. ~crossed /\ NoDirectRow => CopiedTo(lastSync)
      BY <2>2, CollectsAlone
    <2>10. missed \subseteq missed'
      BY <2>3
    <2>7. today <= today /\ lastSync \in Nat
      BY <2>2, CollectsAlone
    <2> HIDE DEF days
    <2>8. QED
      BY <2>2, <2>3, <2>4, <2>5, <2>6, <2>7, <2>9, <2>10, CollectsAlone, JobLeavesOut DEF Walks
  <1>3. QED
    BY <1>1, <1>2

LEMMA FindRowSyncs == ASSUME SyncedInv, CostTypeOK', NEW c \in Collectors, FindRow(c) PROVE SyncedInv'
  <1>1. collect[c].pc = "find" /\ Collects(c)
    BY DEF FindRow, Collects
  <1>2. PICK d \in collect[c].todo, old \in Rows, own \in BOOLEAN :
          /\ collect' = [collect EXCEPT ![c] = [collect[c] EXCEPT !.pc = "row", !.day = d, !.old = old, !.own = own]]
          /\ \A other \in collect[c].todo : d <= other
          /\ NoDirectRow => own
    <2>1. \A d \in collect[c].todo : d \in Days /\ daily[d] \in Rows /\ direct[d] \in Rows
      BY <1>1, CollectsAlone DEF CostJobs, SyncedInv, CostTypeOK
    <2>2. NoRow \in Rows
      BY CostAssumption DEF Rows, NoRow
    <2>3. QED
      BY <2>1, <2>2 DEF FindRow, Job, NoDirectRow
  <1>3. PICK r : r = [collect[c] EXCEPT !.pc = "row", !.day = d, !.old = old, !.own = own]
    OBVIOUS
  <1>4. /\ r.pc = "row" /\ r.latest = collect[c].latest /\ r.report = collect[c].report /\ r.todo = collect[c].todo
        /\ r.now = collect[c].now /\ r.day = d /\ r.own = own /\ r \in CostJobs
    <2>1. d \in 0..LastDay
      BY <1>1, CollectsAlone DEF CostJobs, Days
    <2>2. QED
      BY <1>1, <1>3, <2>1, CollectsAlone DEF CostJobs
  <1>5. UNCHANGED <<today, usage, daily, direct, lastSync, crossed, missed, collecting>>
    BY DEF FindRow, OnlyCollect
  <1>6. ~crossed /\ NoDirectRow => WalksInOrder(r)
    <2>1. SUFFICES ASSUME ~crossed, NoDirectRow PROVE WalksInOrder(r)
      OBVIOUS
    <2>2. WalksInOrder(collect[c])
      BY <1>1, <2>1, CollectsAlone
    <2>3. QED
      BY <1>1, <1>2, <1>4, <2>1, <2>2 DEF WalksInOrder, Walks
  <1>7. QED
    BY <1>1, <1>2, <1>3, <1>4, <1>5, <1>6, CollectsAlone, JobMoves DEF Walks

LEMMA WriteRowSyncs == ASSUME SyncedInv, CostTypeOK', NEW c \in Collectors, WriteRow(c) PROVE SyncedInv'
  <1>1. collect[c].pc = "row" /\ Collects(c)
    BY DEF WriteRow, Collects
  <1>2. PICK r : r = [collect[c] EXCEPT !.pc = "budget"]
    OBVIOUS
  <1>3. collect' = [collect EXCEPT ![c] = r] /\ UNCHANGED <<today, usage, lastSync, crossed, missed, collecting>>
    BY <1>2 DEF WriteRow, Job
  <1>4. /\ r.pc = "budget" /\ r.latest = collect[c].latest /\ r.report = collect[c].report /\ r.todo = collect[c].todo
        /\ r.now = collect[c].now /\ r.day = collect[c].day /\ r.own = collect[c].own /\ r \in CostJobs
    BY <1>1, <1>2, CollectsAlone DEF CostJobs
  <1>5. collect'[c] = r /\ \A e \in Collectors : e # c => collect'[e] = collect[e]
    BY <1>3 DEF SyncedInv, CostTypeOK
  <1>6. \A e \in Collectors : e # c => ~Collects(e) /\ ~Collects(e)'
    BY <1>1, <1>5, CollectsAlone DEF Collects
  <1>7. OneCollects'
    BY <1>1, <1>3, <1>4, <1>5, <1>6, CollectsAlone DEF SyncedInv, OneCollects, Collects
  <1>8. SyncIsPast'
    BY <1>1, <1>3, <1>4, <1>5, <1>6, CollectsAlone DEF SyncedInv, SyncIsPast, Collects, Walks
  <1>9. ASSUME ~crossed', NoDirectRow'
        PROVE  CopiedTo(lastSync)' /\ \A e \in Collectors : Collects(e)' => WalksInOrder(collect[e])'
    <2>1. r.day \in Days /\ r.day \in r.todo
      BY <1>1, <1>4, CollectsAlone DEF CostJobs
    <2>2. NoDirectRow
      <3>1. SUFFICES ASSUME NEW d \in Days PROVE direct[d] = NoRow
        BY DEF NoDirectRow
      <3>2. direct'[d] = NoRow
        BY <1>9 DEF NoDirectRow
      <3>3. r.report[r.day] # NoRow
        BY <1>4, <2>1, CostAssumption DEF CostJobs, NoRow
      <3>4. direct' = direct \/ (direct'[r.day] = r.report[r.day] /\ \A x \in Days : x # r.day => direct'[x] = direct[x])
        BY <1>4, <2>1 DEF WriteRow, SyncedInv, CostTypeOK
      <3>5. direct' = direct
        BY <1>9, <2>1, <3>3, <3>4 DEF NoDirectRow
      <3>6. QED
        BY <3>2, <3>5
    <2>3. ~crossed /\ WalksInOrder(collect[c])
      BY <1>1, <1>3, <1>9, <2>2, CollectsAlone
    <2>4. r.own /\ daily' = [daily EXCEPT ![r.day] = r.report[r.day]]
      BY <1>1, <1>4, <2>3 DEF WalksInOrder, WriteRow
    <2>5. daily'[r.day] = r.report[r.day] /\ \A d \in Days : d # r.day => daily'[d] = daily[d]
      BY <2>1, <2>4 DEF SyncedInv, CostTypeOK
    <2>6. /\ CopiedTo(r.latest) /\ \A d \in Days : d < r.now =>
               r.report[d] = usage[d] /\ (usage[d] > 0 /\ d > r.latest => d \in r.todo \cup missed)
          /\ \A d \in r.todo : r.day <= d
      BY <1>1, <1>4, <2>3 DEF WalksInOrder, Walks
    <2>7. r.latest < r.now /\ lastSync <= r.latest /\ r.latest \in Nat /\ r.now \in Nat /\ lastSync \in Nat
      BY <1>1, <1>4, CollectsAlone DEF Walks, CostJobs
    <2>8. \A d \in Days \ missed : d <= r.latest /\ usage[d] > 0 => daily'[d] = usage[d]
      BY <2>1, <2>5, <2>6, <2>7 DEF CopiedTo, Days
    <2>9. CopiedTo(lastSync)'
      BY <1>3, <2>7, <2>8 DEF CopiedTo, Days
    <2>10. WalksInOrder(collect[c])'
      BY <1>3, <1>4, <1>5, <2>4, <2>5, <2>6, <2>8 DEF WalksInOrder, CopiedTo, Walks
    <2>11. QED
      BY <1>6, <2>9, <2>10
  <1>10. QED
    BY <1>7, <1>8, <1>9 DEF SyncedInv

LEMMA AddToBudgetSyncs == ASSUME SyncedInv, CostTypeOK', NEW c \in Collectors, AddToBudget(c) PROVE SyncedInv'
  <1> DEFINE rest == collect[c].todo \ {collect[c].day}
             pc == IF rest = {} THEN "save" ELSE "find"
  <1>1. collect[c].pc = "budget" /\ Collects(c)
    BY DEF AddToBudget, Collects
  <1>2. PICK r : r = [collect[c] EXCEPT !.pc = pc, !.todo = rest, !.latest = Latest(collect[c])]
    OBVIOUS
  <1>3. /\ collect' = [collect EXCEPT ![c] = r]
        /\ UNCHANGED <<today, usage, daily, direct, lastSync, crossed, missed, collecting>>
    BY <1>2 DEF AddToBudget, Job
  <1>4. pc \in {"save", "find"} /\ rest \in SUBSET Days /\ Latest(collect[c]) \in 0..LastDay
    BY <1>1, CollectsAlone DEF CostJobs, Latest
  <1> HIDE DEF pc, rest
  <1>5. /\ r.pc \in {"save", "find"} /\ r.latest = Latest(collect[c]) /\ r.report = collect[c].report
        /\ r.todo = rest /\ r.now = collect[c].now /\ r \in CostJobs
    BY <1>1, <1>2, <1>4, CollectsAlone DEF CostJobs
  <1>6. /\ collect[c].day \in Days /\ collect[c].day \in Nat /\ collect[c].now \in Nat /\ collect[c].latest \in Nat
        /\ lastSync \in Nat /\ today \in Nat
    BY <1>1, CollectsAlone DEF CostJobs, Days
  <1>7. Walks(collect[c]) /\ Walks(r)
    BY <1>1, <1>5 DEF Walks
  <1>8. collect[c].day <= collect[c].now
    BY <1>1, <1>7, CollectsAlone
  <1>9. r.latest < r.now /\ r.latest < today /\ lastSync <= r.latest /\ r.latest >= collect[c].latest /\ r.now <= today
    BY <1>1, <1>5, <1>6, <1>7, <1>8, CollectsAlone DEF Latest
  <1>10. \A d \in r.todo : d <= r.now
    BY <1>1, <1>5, <1>7, CollectsAlone DEF rest
  <1>11. ~crossed /\ NoDirectRow => WalksInOrder(r)
    <2>1. SUFFICES ASSUME ~crossed, NoDirectRow PROVE WalksInOrder(r)
      OBVIOUS
    <2>2. WalksInOrder(collect[c])
      BY <1>1, <2>1, CollectsAlone
    <2>3. /\ CopiedTo(collect[c].latest)
          /\ \A d \in Days : d < collect[c].now => /\ collect[c].report[d] = usage[d]
                                                   /\ usage[d] > 0 /\ d > collect[c].latest => d \in collect[c].todo \cup missed
          /\ \A d \in collect[c].todo : collect[c].day <= d
          /\ daily[collect[c].day] = collect[c].report[collect[c].day]
      BY <1>1, <1>7, <2>2 DEF WalksInOrder
    <2>4. CopiedTo(r.latest)
      <3>1. SUFFICES ASSUME NEW d \in Days \ missed, d <= r.latest, usage[d] > 0, d > collect[c].latest PROVE daily[d] = usage[d]
        BY <1>6, <2>3 DEF CopiedTo, Days
      <3>2. d < collect[c].now /\ d <= collect[c].day
        BY <1>5, <1>6, <1>9, <3>1 DEF Latest, Days
      <3>3. d \in collect[c].todo
        BY <2>3, <3>1, <3>2
      <3>4. d = collect[c].day
        BY <1>6, <2>3, <3>2, <3>3 DEF Days
      <3>5. QED
        BY <2>3, <3>2, <3>4
    <2>5. \A d \in Days : d < r.now =>
            r.report[d] = usage[d] /\ (usage[d] > 0 /\ d > r.latest => d \in r.todo \cup missed)
      <3>1. SUFFICES ASSUME NEW d \in Days, d < r.now
                     PROVE  r.report[d] = usage[d] /\ (usage[d] > 0 /\ d > r.latest => d \in r.todo \cup missed)
        OBVIOUS
      <3>2. d > r.latest => d > collect[c].latest
        BY <1>5, <1>6, <1>9 DEF Days, CostJobs
      <3>3. d > r.latest => d # collect[c].day
        BY <1>5, <1>6, <3>1 DEF Latest, Days
      <3>4. QED
        BY <1>5, <2>3, <3>1, <3>2, <3>3 DEF rest
    <2>6. QED
      BY <1>5, <2>4, <2>5 DEF WalksInOrder
  <1>12. ~crossed /\ NoDirectRow => CopiedTo(lastSync)
    BY <1>1, CollectsAlone
  <1>13. QED
    BY <1>1, <1>3, <1>5, <1>6, <1>9, <1>10, <1>11, <1>12, CollectsAlone, JobMoves

\* Days that are over are not used any more, and a report on its way at midnight is noted.
LEMMA WorldSyncs ==
  ASSUME SyncedInv, CostTypeOK', RecordCostEvent \/ ResetDailyBudgets \/ Use \/ Midnight
  PROVE  SyncedInv'
  <1>1. /\ today \in Nat /\ lastSync \in Nat /\ lastSync < today /\ today \in Days
        /\ usage \in [Days -> Nat] /\ \A d \in Days : d > today => usage[d] = 0
    BY CostAssumption DEF SyncedInv, CostTypeOK, SyncIsPast, Days
  <1>2. \A c \in Collectors : collect[c] \in CostJobs
    BY DEF SyncedInv, CostTypeOK, CostJobs
  <1>3. UNCHANGED <<daily, lastSync, collecting, collect, missed>>
    BY DEF RecordCostEvent, ResetDailyBudgets, Use, Midnight
  <1>4. /\ today' \in Nat /\ today' >= today
        /\ \A d \in Days : d < today => usage'[d] = usage[d]
        /\ \A d \in Days : d > today' => usage'[d] = 0
    <2>1. CASE Use
      <3>1. today' = today /\ usage' = [usage EXCEPT ![today] = usage[today] + 1]
        BY <2>1 DEF Use
      <3>2. QED
        BY <1>1, <3>1 DEF Days
    <2>2. CASE Midnight
      BY <1>1, <2>2 DEF Midnight, Days
    <2>3. CASE RecordCostEvent \/ ResetDailyBudgets
      BY <1>1, <2>3 DEF RecordCostEvent, ResetDailyBudgets
    <2>4. QED
      BY <2>1, <2>2, <2>3
  <1>5. ~crossed' => ~crossed
    BY Zenon DEF RecordCostEvent, ResetDailyBudgets, Use, Midnight
  <1>6. ~crossed' /\ NoDirectRow' => NoDirectRow
    BY <1>1, CostAssumption DEF RecordCostEvent, ResetDailyBudgets, Use, Midnight, NoDirectRow, NoRow,
       SyncedInv, CostTypeOK
  <1>7. OneCollects'
    BY <1>3 DEF SyncedInv, OneCollects, Collects
  <1>8. \A c \in Collectors : /\ collect[c].latest \in Nat /\ collect[c].now \in Nat
                              /\ Collects(c) => /\ collect[c].latest < today
                                                /\ Walks(collect[c]) => collect[c].now <= today
    BY <1>2 DEF SyncedInv, SyncIsPast, CostJobs
  <1>9. SyncIsPast'
    <2>1. lastSync' < today' /\ \A d \in Days : d > today' => usage'[d] = 0
      BY <1>1, <1>3, <1>4
    <2>2. ASSUME NEW c \in Collectors, Collects(c)
          PROVE  collect[c].latest < today' /\ (Walks(collect[c]) => collect[c].now <= today')
      BY <1>1, <1>4, <1>8, <2>2
    <2>3. QED
      BY <1>3, <2>1, <2>2 DEF SyncedInv, SyncIsPast, Collects, Walks
  <1>10. ASSUME ~crossed', NoDirectRow'
         PROVE  CopiedTo(lastSync)' /\ \A c \in Collectors : Collects(c)' => WalksInOrder(collect[c])'
    <2>1. ~crossed /\ NoDirectRow
      BY <1>5, <1>6, <1>10
    <2>2. ASSUME NEW n \in Nat, n < today, CopiedTo(n)
          PROVE  \A d \in Days \ missed : d <= n /\ usage'[d] > 0 => daily'[d] = usage'[d]
      BY <1>1, <1>3, <1>4, <2>2 DEF CopiedTo, Days
    <2>3. CopiedTo(lastSync)'
      BY <1>1, <1>3, <2>1, <2>2 DEF CopiedTo, SyncedInv
    <2>4. ASSUME NEW c \in Collectors, Collects(c) PROVE WalksInOrder(collect[c])'
      <3>1. WalksInOrder(collect[c])
        BY <2>1, <2>4 DEF SyncedInv
      <3>2. \A d \in Days \ missed : d <= collect[c].latest /\ usage'[d] > 0 => daily'[d] = usage'[d]
        BY <1>8, <2>2, <2>4, <3>1 DEF WalksInOrder
      <3>3. collect[c].pc = "filter" => today' = today
        <4>1. SUFFICES ASSUME collect[c].pc = "filter", Midnight PROVE FALSE
          BY DEF RecordCostEvent, ResetDailyBudgets, Use
        <4>2. crossed'
          BY <4>1, Zenon DEF Midnight
        <4>3. QED
          BY <1>10, <4>2
      <3>4. collect[c].pc = "filter" => \A d \in Days : d < today' => collect[c].report[d] = usage'[d]
        BY <1>4, <3>1, <3>3 DEF WalksInOrder
      <3>5. Walks(collect[c]) => \A d \in Days : d < collect[c].now => usage'[d] = usage[d]
        BY <1>1, <1>4, <1>8, <2>4 DEF Days
      <3>6. QED
        BY <1>3, <3>1, <3>2, <3>4, <3>5 DEF WalksInOrder, CopiedTo, Walks
    <2>5. QED
      BY <1>3, <2>3, <2>4 DEF Collects
  <1>11. QED
    BY <1>7, <1>9, <1>10 DEF SyncedInv

LEMMA SyncedInvInit == CostInit => SyncedInv
  <1> SUFFICES ASSUME CostInit PROVE SyncedInv
    OBVIOUS
  <1>1. \A c \in Collectors : collect[c] = CollectIdle /\ ~Collects(c)
    BY DEF CostInit, Collects, CollectIdle
  <1>2. 1 \in Days /\ 0 \in 0..MaxUsage /\ 0 \in 0..LastDay /\ NoRow \in Rows
    BY CostAssumption DEF Days, Rows, NoRow
  <1>3. CollectIdle \in CostJobs
    BY <1>2 DEF CollectIdle, CostJobs
  <1>4. collect \in [Collectors -> CostJobs]
    BY <1>3 DEF CostInit
  <1>5. collecting \in BOOLEAN /\ cut \in BOOLEAN /\ crossed \in BOOLEAN /\ missed = {}
    BY Zenon DEF CostInit
  <1>6. CostTypeOK
    BY <1>2, <1>4, <1>5, CostAssumption DEF CostInit, CostTypeOK, CostJobs
  <1>7. QED
    BY <1>1, <1>6 DEF CostInit, SyncedInv, OneCollects, SyncIsPast, CopiedTo

LEMMA SyncedStep == ASSUME SyncedInv, [CostNext]_costVars PROVE SyncedInv'
  <1>1. CostTypeOK'
    BY CostTypes DEF SyncedInv
  <1>2. CASE UNCHANGED costVars
    <2>1. UNCHANGED <<today, usage, daily, direct, lastSync, collecting, collect, missed>> /\ (~crossed' => ~crossed)
      BY <1>2, Zenon DEF costVars
    <2>2. OneCollects' /\ SyncIsPast'
      BY <2>1 DEF SyncedInv, OneCollects, Collects, SyncIsPast, Walks
    <2>3. NoDirectRow' => NoDirectRow
      BY <2>1 DEF NoDirectRow
    <2>4. QED
      BY <1>1, <2>1, <2>2, <2>3 DEF SyncedInv, CopiedTo, WalksInOrder, Walks, Collects
  <1>3. CASE CostNext
    BY <1>1, <1>3, CollectCostsSyncs, GetUsageSyncs, FilterSyncs, FindRowSyncs, WriteRowSyncs, AddToBudgetSyncs,
       EndsSyncs, WorldSyncs, Zenon DEF CostNext
  <1>4. QED
    BY <1>2, <1>3

\* Whatever fails between two of its steps, and however the bot goes on spending: a day that
\* the collector will not look at again is over, and its row holds what the bot used, unless
\* it was left out because SyncDays newer days waited with it, a report was on its way at
\* midnight, or the API records rows of its own.
THEOREM SyncedDaysAreCopied == CostSpec => [](CostTypeOK /\ SyncedDaysAreComplete)
  <1>1. SyncedInv => CostTypeOK /\ SyncedDaysAreComplete
    <2>1. SUFFICES ASSUME SyncedInv, ~crossed, NoDirectRow,
                          NEW d \in Days \ missed, d <= lastSync, usage[d] > 0
                   PROVE  d < today /\ daily[d] = usage[d]
      BY DEF SyncedInv, SyncedDaysAreComplete, NoDirectRow
    <2>2. daily[d] = usage[d]
      BY <2>1 DEF SyncedInv, CopiedTo
    <2>3. lastSync \in Nat /\ today \in Nat /\ d \in Nat /\ lastSync < today
      BY <2>1 DEF SyncedInv, SyncIsPast, CostTypeOK, Days
    <2>4. QED
      BY <2>1, <2>2, <2>3
  <1>2. QED
    BY <1>1, SyncedInvInit, SyncedStep, PTL DEF CostSpec

-----------------------------------------------------------------------------
(* A day is charged once *)

\* A set of numbers has a least one: what is not so of all numbers is first wrong somewhere.
LEMMA LeastNumber == ASSUME NEW T, T \subseteq Nat, T # {} PROVE \E n \in T : \A m \in T : n <= m
  <1>1. PICK n \in T : \A m \in T : <<m, n>> \notin OpToRel(<, Nat)
    BY NatLessThanWellFounded, WFMin, Zenon
  <1>2. ASSUME NEW m \in T PROVE n <= m
    <2>1. m \in Nat /\ n \in Nat
      OBVIOUS
    <2>2. ~(m < n)
      BY <1>1, <2>1 DEF OpToRel
    <2>3. QED
      BY <2>1, <2>2
  <1>3. QED
    BY <1>2

\* A table of the sums of rows r up to each of the days 0..n.
SumsTo(n, r, g) == g = [d \in 0..n |-> IF d = 0 THEN 0 ELSE g[d - 1] + Cents(r[d])]

LEMMA CentsType == ASSUME NEW x \in Rows PROVE Cents(x) \in Nat
  BY CostAssumption DEF Cents, Rows, NoRow

LEMMA SumsExist ==
  ASSUME NEW r \in [Days -> Rows]
  PROVE  \A n \in 0..LastDay : \E g \in [0..n -> Nat] : SumsTo(n, r, g)
  <1> DEFINE bad == {n \in 0..LastDay : ~\E g \in [0..n -> Nat] : SumsTo(n, r, g)}
  <1>1. SUFFICES ASSUME bad # {} PROVE FALSE
    OBVIOUS
  <1>2. bad \subseteq Nat /\ LastDay \in Nat
    BY CostAssumption
  <1>3. PICK n \in bad : \A m \in bad : n <= m
    BY <1>1, <1>2, LeastNumber
  <1>4. CASE n = 0
    <2> DEFINE g == [d \in 0..0 |-> 0]
    <2>1. g \in [0..0 -> Nat] /\ SumsTo(0, r, g)
      BY DEF SumsTo
    <2>2. QED
      BY <1>3, <1>4, <2>1
  <1>5. CASE n # 0
    <2>1. n \in 1..LastDay /\ n - 1 \in 0..LastDay /\ n - 1 \notin bad
      BY <1>2, <1>3, <1>5
    <2>2. PICK g \in [0..(n - 1) -> Nat] : SumsTo(n - 1, r, g)
      BY <2>1
    <2>3. Cents(r[n]) \in Nat /\ n - 1 \in 0..(n - 1)
      BY <2>1, CentsType DEF Days
    <2>4. g[n - 1] + Cents(r[n]) \in Nat
      BY <2>2, <2>3
    <2>5. PICK h : h = [d \in 0..n |-> IF d = n THEN g[n - 1] + Cents(r[n]) ELSE g[d]]
      OBVIOUS
    <2>6. \A d \in 0..n : d # n => d \in 0..(n - 1)
      BY <2>1
    <2>7. h \in [0..n -> Nat]
      BY <2>2, <2>4, <2>5, <2>6
    <2>8. ASSUME NEW d \in 0..n PROVE h[d] = IF d = 0 THEN 0 ELSE h[d - 1] + Cents(r[d])
      <3>1. CASE d = n
        <4>1. h[n - 1] = g[n - 1] /\ n - 1 \in 0..n /\ h[n] = g[n - 1] + Cents(r[n])
          BY <2>1, <2>5
        <4>2. QED
          BY <1>5, <3>1, <4>1
      <3>2. CASE d # n
        <4>1. d \in 0..(n - 1) /\ h[d] = g[d]
          BY <2>5, <2>6, <3>2
        <4>2. g[d] = IF d = 0 THEN 0 ELSE g[d - 1] + Cents(r[d])
          BY <2>2, <4>1 DEF SumsTo
        <4>3. d # 0 => d - 1 \in 0..n /\ d - 1 # n /\ h[d - 1] = g[d - 1]
          BY <2>1, <2>5, <4>1
        <4>4. QED
          BY <4>1, <4>2, <4>3
      <3>3. QED
        BY <3>1, <3>2
    <2>9. h = [d \in 0..n |-> h[d]]
      BY <2>7
    <2>10. SumsTo(n, r, h)
      BY <2>8, <2>9 DEF SumsTo
    <2>11. QED
      BY <1>3, <2>7, <2>10
  <1>6. QED
    BY <1>4, <1>5

\* The sum that the property speaks of is the last entry of such a table.
LEMMA SumIsLast ==
  ASSUME NEW r \in [Days -> Rows]
  PROVE  \E g \in [0..LastDay -> Nat] :
           /\ InRows(r) = g[LastDay] /\ g[0] = 0
           /\ \A d \in Days : g[d] = g[d - 1] + Cents(r[d])
  <1>1. LastDay \in Nat /\ LastDay \in 0..LastDay
    BY CostAssumption
  <1>2. PICK g : /\ InRows(r) = g[LastDay]
                 /\ SumsTo(LastDay, r, g)
    <2>1. \E x : SumsTo(LastDay, r, x)
      BY <1>1, SumsExist
    <2>2. SumsTo(LastDay, r, CHOOSE x : SumsTo(LastDay, r, x))
      BY <2>1
    <2>3. InRows(r) = (CHOOSE x : SumsTo(LastDay, r, x))[LastDay]
      BY DEF InRows, SumsTo
    <2>4. QED
      BY <2>2, <2>3
  <1>3. g[0] = 0 /\ \A d \in Days : d \in 0..LastDay /\ d - 1 \in 0..LastDay /\ g[d] = g[d - 1] + Cents(r[d])
    BY <1>1, <1>2 DEF SumsTo, Days
  <1>4. \A d \in 0..LastDay : g[d] \in Nat
    <2> DEFINE bad == {d \in 0..LastDay : g[d] \notin Nat}
    <2>1. SUFFICES ASSUME bad # {} PROVE FALSE
      OBVIOUS
    <2>2. bad \subseteq Nat
      BY <1>1
    <2>3. PICK d \in bad : \A e \in bad : d <= e
      BY <2>1, <2>2, LeastNumber
    <2>4. d \in Days /\ d - 1 \notin bad /\ d - 1 \in 0..LastDay
      BY <1>1, <1>3, <2>3 DEF Days
    <2>5. g[d - 1] \in Nat /\ Cents(r[d]) \in Nat
      BY <2>4, CentsType
    <2>6. QED
      BY <1>3, <2>3, <2>4, <2>5
  <1>5. g \in [0..LastDay -> Nat]
    BY <1>2, <1>4 DEF SumsTo
  <1>6. QED
    BY <1>2, <1>3, <1>5

\* To write one row changes the sum by what the row changes.
LEMMA SumFollowsRow ==
  ASSUME NEW r \in [Days -> Rows], NEW day \in Days, NEW x \in Rows
  PROVE  /\ InRows(r) \in Nat /\ InRows([r EXCEPT ![day] = x]) \in Nat
         /\ InRows([r EXCEPT ![day] = x]) + Cents(r[day]) = InRows(r) + Cents(x)
  <1>1. PICK s \in [Days -> Rows] : s = [r EXCEPT ![day] = x]
    OBVIOUS
  <1>2. LastDay \in Nat /\ LastDay \in 0..LastDay /\ day <= LastDay
    BY CostAssumption DEF Days
  <1>3. PICK g \in [0..LastDay -> Nat] :
           /\ InRows(r) = g[LastDay] /\ g[0] = 0
           /\ \A d \in Days : g[d] = g[d - 1] + Cents(r[d])
    BY SumIsLast
  <1>4. PICK h \in [0..LastDay -> Nat] :
           /\ InRows(s) = h[LastDay] /\ h[0] = 0
           /\ \A d \in Days : h[d] = h[d - 1] + Cents(s[d])
    BY SumIsLast
  <1>5. s[day] = x /\ \A d \in Days : d # day => s[d] = r[d]
    BY <1>1
  <1>6. \A d \in Days : Cents(r[d]) \in Nat /\ Cents(s[d]) \in Nat
    BY CentsType
  <1> DEFINE Agree(d) == IF d < day THEN h[d] = g[d] ELSE h[d] + Cents(r[day]) = g[d] + Cents(x)
  <1>7. \A d \in 0..LastDay : Agree(d)
    <2> DEFINE bad == {d \in 0..LastDay : ~Agree(d)}
    <2>1. SUFFICES ASSUME bad # {} PROVE FALSE
      OBVIOUS
    <2>2. bad \subseteq Nat
      BY <1>2
    <2> HIDE DEF bad
    <2>3. PICK d \in bad : \A e \in bad : d <= e
      BY <2>1, <2>2, LeastNumber
    <2>4. d \in 0..LastDay /\ ~Agree(d)
      BY <2>3 DEF bad
    <2>5. d # 0
      BY <1>3, <1>4, <2>4 DEF Days
    <2>6. d \in Days /\ d - 1 \in 0..LastDay /\ d - 1 \notin bad
      BY <1>2, <2>2, <2>3, <2>4, <2>5 DEF Days
    <2>7. Agree(d - 1)
      BY <2>6 DEF bad
    <2>8. /\ h[d] = h[d - 1] + Cents(s[d]) /\ g[d] = g[d - 1] + Cents(r[d])
          /\ g[d] \in Nat /\ h[d] \in Nat /\ g[d - 1] \in Nat /\ h[d - 1] \in Nat /\ d \in Nat /\ day \in Nat
          /\ Cents(r[d]) \in Nat /\ Cents(s[d]) \in Nat
      BY <1>3, <1>4, <1>6, <2>4, <2>6, SMTT(30) DEF Days
    <2>9. CASE d < day
      <3>1. h[d - 1] = g[d - 1] /\ s[d] = r[d]
        BY <1>5, <2>6, <2>7, <2>8, <2>9
      <3>2. QED
        BY <2>4, <2>8, <2>9, <3>1
    <2>10. CASE d = day
      <3>1. h[d - 1] = g[d - 1] /\ s[d] = x
        BY <1>5, <2>7, <2>8, <2>10
      <3>2. QED
        BY <2>4, <2>8, <2>10, <3>1
    <2>11. CASE d > day
      <3>1. h[d - 1] + Cents(r[day]) = g[d - 1] + Cents(x) /\ s[d] = r[d]
        BY <1>5, <2>6, <2>7, <2>8, <2>11
      <3>2. PICK a \in Nat, b \in Nat, e \in Nat : a = Cents(r[day]) /\ b = Cents(x) /\ e = Cents(r[d])
        BY <2>8, CentsType
      <3>3. h[d] + a = g[d] + b
        <4>1. h[d] = h[d - 1] + e /\ g[d] = g[d - 1] + e /\ h[d - 1] + a = g[d - 1] + b
          BY <2>8, <3>1, <3>2
        <4>2. QED
          BY <2>8, <3>2, <4>1, SMTT(30)
      <3>4. QED
        BY <2>4, <2>8, <2>11, <3>2, <3>3
    <2>12. QED
      BY <2>8, <2>9, <2>10, <2>11
  <1>8. Agree(LastDay)
    BY <1>2, <1>7
  <1>9. ~(LastDay < day)
    BY <1>2 DEF Days
  <1>10. QED
    BY <1>1, <1>2, <1>3, <1>4, <1>8, <1>9

LEMMA SumOfNone == InRows([d \in Days |-> NoRow]) = 0
  <1> DEFINE none == [d \in Days |-> NoRow]
  <1>1. none \in [Days -> Rows]
    BY CostAssumption DEF Rows, NoRow
  <1>2. PICK g \in [0..LastDay -> Nat] :
           /\ InRows(none) = g[LastDay] /\ g[0] = 0
           /\ \A d \in Days : g[d] = g[d - 1] + Cents(none[d])
    BY <1>1, SumIsLast
  <1>3. \A d \in Days : g[d] = g[d - 1]
    <2>1. SUFFICES ASSUME NEW d \in Days PROVE g[d] = g[d - 1]
      OBVIOUS
    <2>2. Cents(none[d]) = 0 /\ g[d - 1] \in Nat
      BY CostAssumption DEF Cents, Days
    <2>3. QED
      BY <1>2, <2>2
  <1>4. \A d \in 0..LastDay : g[d] = 0
    <2> DEFINE bad == {d \in 0..LastDay : g[d] # 0}
    <2>1. SUFFICES ASSUME bad # {} PROVE FALSE
      OBVIOUS
    <2>2. bad \subseteq Nat
      BY CostAssumption
    <2>3. PICK d \in bad : \A e \in bad : d <= e
      BY <2>1, <2>2, LeastNumber
    <2>4. d \in Days /\ d - 1 \in 0..LastDay /\ d - 1 \notin bad
      BY <1>2, <2>3, CostAssumption DEF Days
    <2>5. QED
      BY <1>3, <2>3, <2>4
  <1>5. QED
    BY <1>2, <1>4, CostAssumption

\* What a report says of a day is between its row and what the bot used, and the call that
\* writes the row knows what was there.
JobFits(j) ==
  /\ j.pc = "filter" \/ Walks(j) => \A d \in Days :
       j.report[d] <= usage[d] /\ (daily[d] # NoRow => daily[d] <= j.report[d])
  /\ j.pc = "row" => j.own /\ j.old = daily[j.day]
  /\ j.pc = "budget" => /\ daily[j.day] = j.report[j.day]
                        /\ j.old # NoRow => j.old <= j.report[j.day]

\* The budget has had what is in the rows, but for what was just written.
Settled(j) ==
  IF j.pc = "budget" THEN InRows(daily) + Cents(j.old) = spend.month + j.report[j.day]
                     ELSE spend.month = InRows(daily)

RowsFit == /\ \A d \in Days : daily[d] # NoRow => daily[d] <= usage[d]
           /\ \A c \in Collectors : JobFits(collect[c])
AllSettled == /\ AllCollected => spend.month = InRows(daily)
              /\ \A c \in Collectors : Collects(c) => Settled(collect[c])
ChargedInv == SyncedInv /\ (NoDirectRow => RowsFit /\ (~cut => AllSettled))

LEMMA SumType == ASSUME NEW r \in [Days -> Rows] PROVE InRows(r) \in Nat
  <1>1. LastDay \in 0..LastDay
    BY CostAssumption
  <1>2. QED
    BY <1>1, SumIsLast

LEMMA CostFacts ==
  ASSUME SyncedInv
  PROVE  /\ usage \in [Days -> Nat] /\ daily \in [Days -> Rows] /\ direct \in [Days -> Rows]
         /\ spend.month \in Nat /\ today \in Days /\ collect \in [Collectors -> CostJobs]
         /\ \A c \in Collectors : collect[c].pc \in {"row", "budget"} => collect[c].day \in Days
         /\ \A x \in 0..MaxUsage : x # NoRow /\ x \in Rows /\ Cents(x) = x
         /\ MaxUsage \in Nat /\ NoRow \in Nat
  <1>1. \A x \in 0..MaxUsage : x # NoRow /\ x \in Rows /\ Cents(x) = x
    BY CostAssumption DEF Rows, NoRow, Cents
  <1>2. usage \in [Days -> Nat] /\ MaxUsage \in Nat /\ NoRow \in Nat
    BY CostAssumption DEF SyncedInv, CostTypeOK, NoRow
  <1>3. daily \in [Days -> Rows] /\ direct \in [Days -> Rows] /\ spend.month \in Nat /\ today \in Days
        /\ collect \in [Collectors -> CostJobs]
    BY DEF SyncedInv, CostTypeOK, CostJobs
  <1>4. ASSUME NEW c \in Collectors, collect[c].pc \in {"row", "budget"} PROVE collect[c].day \in Days
    BY <1>3, <1>4 DEF SyncedInv, SyncIsPast, Collects, CostJobs
  <1>5. QED
    BY <1>1, <1>2, <1>3, <1>4

\* A row that the API recorded stays.
LEMMA DirectRowsStay == ASSUME SyncedInv, [CostNext]_costVars, NoDirectRow' PROVE NoDirectRow
  <1>1. CASE UNCHANGED direct
    BY <1>1 DEF NoDirectRow
  <1>2. ASSUME NEW c \in Collectors, WriteRow(c), ~UNCHANGED direct PROVE FALSE
    <2>1. /\ collect[c].pc = "row"
          /\ direct' = [direct EXCEPT ![collect[c].day] = collect[c].report[collect[c].day]]
      BY <1>2 DEF WriteRow
    <2>2. collect[c].day \in Days /\ collect[c].report[collect[c].day] \in 0..MaxUsage
      BY <2>1, CostFacts DEF CostJobs
    <2>3. direct'[collect[c].day] # NoRow
      BY <2>1, <2>2, CostFacts
    <2>4. QED
      BY <2>2, <2>3 DEF NoDirectRow
  <1>3. CASE RecordCostEvent
    <2>1. direct' = [direct EXCEPT ![today] = 1] /\ 1 \in 0..MaxUsage
      BY <1>3, CostAssumption DEF RecordCostEvent
    <2>2. direct'[today] # NoRow /\ today \in Days
      BY <2>1, CostFacts
    <2>3. QED
      BY <2>2 DEF NoDirectRow
  <1>4. ASSUME NEW c \in Collectors,
               \/ CollectCosts(c) \/ GetUsage(c) \/ FilterDays(c) \/ FindRow(c)
               \/ AddToBudget(c) \/ SaveSyncDate(c) \/ CollectThrows(c)
        PROVE  UNCHANGED direct
    BY <1>4 DEF CollectCosts, GetUsage, FilterDays, FindRow, AddToBudget, SaveSyncDate, CollectThrows,
       OnlyCollect
  <1>5. CASE ResetDailyBudgets \/ Use \/ Midnight \/ UNCHANGED costVars
    BY <1>1, <1>5 DEF ResetDailyBudgets, Use, Midnight, costVars
  <1>6. QED
    BY <1>1, <1>2, <1>3, <1>4, <1>5 DEF CostNext

\* A step of the call that collects.
LEMMA ChargedMoves ==
  ASSUME SyncedInv, NEW c \in Collectors, NEW r,
         collect' = [collect EXCEPT ![c] = r],
         \A e \in Collectors : e # c => ~Collects(e),
         \A d \in Days : daily'[d] # NoRow => daily'[d] <= usage'[d],
         JobFits(r)', ~cut' => Settled(r)'
  PROVE  RowsFit' /\ (~cut' => AllSettled')
  <1>1. collect'[c] = r /\ \A e \in Collectors : e # c => collect'[e] = CollectIdle
    BY CostFacts DEF SyncedInv, OneCollects
  <1>2. CollectIdle.pc = "idle"
    BY DEF CollectIdle
  <1>3. ASSUME NEW e \in Collectors PROVE JobFits(collect[e])'
    BY <1>1, <1>2 DEF JobFits, Walks
  <1>4. ASSUME ~cut', AllCollected' PROVE (spend.month = InRows(daily))'
    <2>1. r.pc = "idle"
      BY <1>1, <1>2, <1>4 DEF AllCollected
    <2>2. Settled(r)'
      BY <1>4
    <2>3. QED
      BY <2>1, <2>2 DEF Settled
  <1>5. ASSUME ~cut', NEW e \in Collectors, Collects(e)' PROVE Settled(collect[e])'
    <2>1. e = c
      BY <1>1, <1>2, <1>5 DEF Collects
    <2>2. Settled(r)'
      BY <1>5
    <2>3. QED
      BY <1>1, <2>1, <2>2 DEF Settled
  <1>6. QED
    BY <1>3, <1>4, <1>5 DEF RowsFit, AllSettled

\* Such a step that leaves rows, usage and spend alone.
LEMMA ChargedMovesOnly ==
  ASSUME ChargedInv, NoDirectRow, NEW c \in Collectors, NEW r,
         collect' = [collect EXCEPT ![c] = r], UNCHANGED <<daily, usage, spend>>,
         \A e \in Collectors : e # c => ~Collects(e),
         JobFits(r), ~cut' => ~cut /\ Settled(r)
  PROVE  RowsFit' /\ (~cut' => AllSettled')
  <1>1. JobFits(r)'
    BY DEF JobFits, Walks
  <1>2. ~cut' => Settled(r)'
    BY DEF Settled
  <1>3. \A d \in Days : daily'[d] # NoRow => daily'[d] <= usage'[d]
    BY DEF ChargedInv, RowsFit
  <1>4. SyncedInv
    BY DEF ChargedInv
  <1>5. QED
    BY <1>1, <1>2, <1>3, <1>4, ChargedMoves

LEMMA FirstStepsSettle ==
  ASSUME ChargedInv, NoDirectRow, NEW c \in Collectors,
         CollectCosts(c) \/ GetUsage(c) \/ SaveSyncDate(c) \/ CollectThrows(c) \/ (FilterDays(c) /\ CostsDone(c))
  PROVE  RowsFit' /\ (~cut' => AllSettled')
  <1>1. SyncedInv /\ RowsFit /\ (~cut => AllSettled)
    BY DEF ChargedInv
  <1>2. CASE CollectCosts(c)
    <2>1. PICK r : r = [CollectIdle EXCEPT !.pc = "report", !.latest = lastSync]
      OBVIOUS
    <2>2. r.pc = "report" /\ JobFits(r)
      BY <2>1 DEF CollectIdle, JobFits, Walks
    <2>3. collect' = [collect EXCEPT ![c] = r] /\ UNCHANGED <<daily, usage, spend, cut>> /\ ~collecting
      BY <1>2, <2>1 DEF CollectCosts, Job
    <2>4. \A e \in Collectors : ~Collects(e)
      BY <1>1, <2>3 DEF SyncedInv, OneCollects
    <2>5. AllCollected
      BY <1>1, <2>4 DEF SyncedInv, OneCollects, AllCollected
    <2>6. ~cut => Settled(r)
      BY <1>1, <2>2, <2>5 DEF AllSettled, Settled
    <2>7. QED
      BY <2>2, <2>3, <2>4, <2>6, ChargedMovesOnly
  <1>3. CASE GetUsage(c)
    <2>1. PICK r : r = [collect[c] EXCEPT !.pc = "filter", !.report = usage]
      OBVIOUS
    <2>2. collect' = [collect EXCEPT ![c] = r] /\ UNCHANGED <<daily, usage, spend, cut>>
          /\ collect[c].pc = "report" /\ Collects(c)
      BY <1>3, <2>1 DEF GetUsage, Job, OnlyCollect, Collects
    <2>3. r.pc = "filter" /\ r.report = usage
      BY <1>1, <2>1, CostFacts DEF CostJobs
    <2>4. JobFits(r)
      BY <1>1, <2>3, CostFacts DEF JobFits, Walks, RowsFit
    <2>5. ~cut => Settled(r)
      BY <1>1, <2>2, <2>3 DEF AllSettled, Settled
    <2>6. \A e \in Collectors : e # c => ~Collects(e)
      BY <1>1, <2>2, CollectsAlone
    <2>7. QED
      BY <2>2, <2>4, <2>5, <2>6, ChargedMovesOnly
  <1>4. CASE SaveSyncDate(c) \/ CollectThrows(c) \/ (FilterDays(c) /\ CostsDone(c))
    <2>1. /\ collect' = [collect EXCEPT ![c] = CollectIdle] /\ UNCHANGED <<daily, usage, spend>>
          /\ Collects(c)
      BY <1>1, <1>4 DEF SaveSyncDate, CollectThrows, FilterDays, CostsDone, Job, Collects, SyncedInv,
         OneCollects
    <2>2. ~cut' => ~cut /\ collect[c].pc # "budget"
      <3>1. collect[c].pc \in {"save", "filter"} => collect[c].pc # "budget"
        OBVIOUS
      <3>2. QED
        BY <1>4, <3>1, Zenon DEF SaveSyncDate, CollectThrows, FilterDays
    <2>3. CollectIdle.pc = "idle"
      BY DEF CollectIdle
    <2>4. JobFits(CollectIdle)
      BY <2>3 DEF JobFits, Walks
    <2>5. ~cut' => ~cut /\ Settled(CollectIdle)
      BY <1>1, <2>1, <2>3, <2>2 DEF AllSettled, Settled
    <2>6. \A e \in Collectors : e # c => ~Collects(e)
      BY <1>1, <2>1, CollectsAlone
    <2>7. QED
      BY <2>1, <2>4, <2>5, <2>6, ChargedMovesOnly
  <1>5. QED
    BY <1>2, <1>3, <1>4

LEMMA WalkSettles ==
  ASSUME ChargedInv, NoDirectRow, NEW c \in Collectors, FilterDays(c) \/ FindRow(c)
  PROVE  RowsFit' /\ (~cut' => AllSettled')
  <1>1. SyncedInv /\ RowsFit /\ (~cut => AllSettled) /\ collect[c] \in CostJobs
    BY CostFacts DEF ChargedInv
  <1>2. Collects(c) /\ UNCHANGED <<daily, usage, spend, cut>> /\ collect[c].pc \in {"filter", "find"}
    BY DEF FilterDays, FindRow, OnlyCollect, Collects
  <1>3. \A e \in Collectors : e # c => ~Collects(e)
    BY <1>1, <1>2, CollectsAlone
  <1>4. /\ ~cut => spend.month = InRows(daily)
        /\ \A d \in Days : /\ collect[c].report[d] <= usage[d]
                           /\ daily[d] # NoRow => daily[d] <= collect[c].report[d]
    BY <1>1, <1>2 DEF RowsFit, AllSettled, JobFits, Settled, Walks
  <1>5. CASE FilterDays(c)
    <2>1. CASE CostsDone(c)
      BY <1>5, <2>1, FirstStepsSettle
    <2>2. CASE ~CostsDone(c)
      <3>1. PICK days : collect' = [collect EXCEPT ![c] = [collect[c] EXCEPT !.pc = "find", !.todo = days, !.now = today]]
        BY <1>5, <2>2 DEF FilterDays, Job
      <3>2. PICK r : r = [collect[c] EXCEPT !.pc = "find", !.todo = days, !.now = today]
        OBVIOUS
      <3>3. r.pc = "find" /\ r.report = collect[c].report
        BY <1>1, <3>2 DEF CostJobs
      <3>4. JobFits(r) /\ (~cut => Settled(r))
        BY <1>4, <3>3 DEF JobFits, Settled
      <3>5. collect' = [collect EXCEPT ![c] = r]
        BY <3>1, <3>2
      <3>6. QED
        BY <1>2, <1>3, <3>4, <3>5, ChargedMovesOnly
    <2>3. QED
      BY <2>1, <2>2
  <1>6. CASE FindRow(c)
    <2>1. PICK d \in collect[c].todo :
            collect' = [collect EXCEPT ![c] = [collect[c] EXCEPT !.pc = "row", !.day = d, !.old = daily[d], !.own = TRUE]]
      <3>1. \A d \in collect[c].todo : d \in Days /\ direct[d] = NoRow
        BY <1>1 DEF CostJobs, NoDirectRow
      <3>2. QED
        BY <1>6, <3>1 DEF FindRow, Job
    <2>2. PICK r : r = [collect[c] EXCEPT !.pc = "row", !.day = d, !.old = daily[d], !.own = TRUE]
      OBVIOUS
    <2>3. r.pc = "row" /\ r.report = collect[c].report /\ r.day = d /\ r.old = daily[d]
      BY <1>1, <2>2 DEF CostJobs
    <2>4. r.own
      BY <1>1, <2>1, <2>2 DEF CostJobs
    <2>5. JobFits(r) /\ (~cut => Settled(r))
      BY <1>4, <2>1, <2>3, <2>4 DEF JobFits, Settled
    <2>6. collect' = [collect EXCEPT ![c] = r]
      BY <2>1, <2>2
    <2>7. QED
      BY <1>2, <1>3, <2>5, <2>6, ChargedMovesOnly
  <1>7. QED
    BY <1>5, <1>6

LEMMA WriteRowSettles ==
  ASSUME ChargedInv, NoDirectRow, NEW c \in Collectors, WriteRow(c)
  PROVE  RowsFit' /\ (~cut' => AllSettled')
  <1>1. SyncedInv /\ RowsFit /\ (~cut => AllSettled) /\ collect[c] \in CostJobs
    BY CostFacts DEF ChargedInv
  <1>2. Collects(c) /\ collect[c].pc = "row" /\ UNCHANGED <<usage, spend, cut>>
    BY DEF WriteRow, Collects
  <1>3. \A e \in Collectors : e # c => ~Collects(e)
    BY <1>1, <1>2, CollectsAlone
  <1>4. PICK day \in Days, new \in 0..MaxUsage : day = collect[c].day /\ new = collect[c].report[day]
    BY <1>1, <1>2, CostFacts DEF CostJobs
  <1>5. /\ ~cut => spend.month = InRows(daily)
        /\ \A d \in Days : /\ collect[c].report[d] <= usage[d]
                           /\ daily[d] # NoRow => daily[d] <= collect[c].report[d]
        /\ collect[c].own /\ collect[c].old = daily[day]
    BY <1>1, <1>2, <1>4 DEF RowsFit, AllSettled, JobFits, Settled, Walks
  <1>6. daily' = [daily EXCEPT ![day] = new]
    BY <1>4, <1>5 DEF WriteRow
  <1>7. /\ daily'[day] = new /\ \A d \in Days : d # day => daily'[d] = daily[d]
        /\ new # NoRow /\ new \in Rows /\ Cents(new) = new /\ new \in Nat
    BY <1>1, <1>6, CostFacts
  <1>8. PICK r : r = [collect[c] EXCEPT !.pc = "budget"]
    OBVIOUS
  <1>9. r.pc = "budget" /\ r.report = collect[c].report /\ r.old = collect[c].old /\ r.day = day
    BY <1>1, <1>4, <1>8 DEF CostJobs
  <1>10. collect' = [collect EXCEPT ![c] = r]
    BY <1>8 DEF WriteRow, Job
  <1>11. \A d \in Days : daily'[d] # NoRow => daily'[d] <= usage'[d] /\ daily'[d] <= r.report[d]
    <2>1. SUFFICES ASSUME NEW d \in Days, daily'[d] # NoRow PROVE daily'[d] <= usage[d] /\ daily'[d] <= r.report[d]
      BY <1>2
    <2>2. CASE d = day
      BY <1>4, <1>5, <1>7, <1>9, <2>2
    <2>3. CASE d # day
      BY <1>1, <1>5, <1>7, <1>9, <2>1, <2>3 DEF RowsFit
    <2>4. QED
      BY <2>2, <2>3
  <1>12. JobFits(r)'
    BY <1>2, <1>4, <1>5, <1>7, <1>9, <1>11 DEF JobFits
  <1>13. ~cut' => Settled(r)'
    <2>1. InRows(daily') + Cents(daily[day]) = InRows(daily) + new
      <3>1. daily \in [Days -> Rows]
        BY <1>1, CostFacts
      <3>2. InRows([daily EXCEPT ![day] = new]) + Cents(daily[day]) = InRows(daily) + Cents(new)
        BY <1>7, <3>1, SumFollowsRow
      <3>3. QED
        BY <1>6, <1>7, <3>2
    <2>2. ~cut => InRows(daily') + Cents(r.old) = spend.month + r.report[r.day]
      BY <1>4, <1>5, <1>9, <2>1
    <2>3. InRows(daily)' = InRows(daily') /\ Cents(r.old)' = Cents(r.old)
      OBVIOUS
    <2>4. QED
      BY <1>2, <1>9, <2>2, <2>3 DEF Settled
  <1>14. QED
    BY <1>1, <1>3, <1>10, <1>11, <1>12, <1>13, ChargedMoves

LEMMA AddToBudgetSettles ==
  ASSUME ChargedInv, NoDirectRow, NEW c \in Collectors, AddToBudget(c)
  PROVE  RowsFit' /\ (~cut' => AllSettled')
  <1>1. SyncedInv /\ RowsFit /\ (~cut => AllSettled) /\ collect[c] \in CostJobs
    BY CostFacts DEF ChargedInv
  <1>2. Collects(c) /\ collect[c].pc = "budget" /\ UNCHANGED <<usage, daily, cut>>
    BY DEF AddToBudget, Collects
  <1>3. \A e \in Collectors : e # c => ~Collects(e)
    BY <1>1, <1>2, CollectsAlone
  <1>4. PICK day \in Days, new \in 0..MaxUsage, old \in Rows :
          day = collect[c].day /\ new = collect[c].report[day] /\ old = collect[c].old
    BY <1>1, <1>2, CostFacts DEF CostJobs
  <1>5. /\ ~cut => InRows(daily) + Cents(old) = spend.month + new
        /\ \A d \in Days : /\ collect[c].report[d] <= usage[d]
                           /\ daily[d] # NoRow => daily[d] <= collect[c].report[d]
        /\ old # NoRow => old <= new
    BY <1>1, <1>2, <1>4 DEF RowsFit, AllSettled, JobFits, Settled, Walks
  <1>6. InRows(daily) \in Nat /\ spend.month \in Nat /\ new \in Nat /\ Cents(old) \in Nat /\ old \in Nat
    BY <1>1, CostFacts, SumType, CentsType, CostAssumption DEF Rows, NoRow
  <1>7. spend.month' = spend.month + new - Cents(old)
    <2> DEFINE more == IF old = NoRow THEN new ELSE IF new > old THEN new - old ELSE 0
    <2>1. more = new - Cents(old)
      BY <1>5, <1>6 DEF Cents
    <2>2. spend' = [month |-> spend.month + more, day |-> spend.day + more]
      BY <1>4 DEF AddToBudget, Charge
    <2> HIDE DEF more
    <2>3. spend'.month = spend.month + more
      BY <2>2
    <2>4. QED
      BY <1>6, <2>1, <2>3
  <1> DEFINE rest == collect[c].todo \ {collect[c].day}
  <1>8. PICK pc \in {"save", "find"} :
          collect' = [collect EXCEPT ![c] = [collect[c] EXCEPT !.pc = pc, !.todo = rest, !.latest = Latest(collect[c])]]
    BY DEF AddToBudget, Job
  <1>9. PICK r : r = [collect[c] EXCEPT !.pc = pc, !.todo = rest, !.latest = Latest(collect[c])]
    OBVIOUS
  <1>10. r.pc \in {"save", "find"} /\ r.report = collect[c].report
    BY <1>1, <1>9 DEF CostJobs
  <1>11. JobFits(r)'
    BY <1>2, <1>5, <1>10 DEF JobFits
  <1>12. ~cut' => Settled(r)'
    <2>1. ~cut => spend.month' = InRows(daily)
      BY <1>5, <1>6, <1>7
    <2>2. InRows(daily)' = InRows(daily)
      BY <1>2
    <2>3. QED
      BY <1>2, <1>10, <2>1, <2>2 DEF Settled
  <1>13. \A d \in Days : daily'[d] # NoRow => daily'[d] <= usage'[d]
    BY <1>1, <1>2 DEF RowsFit
  <1>14. collect' = [collect EXCEPT ![c] = r]
    BY <1>8, <1>9
  <1>15. QED
    BY <1>1, <1>3, <1>11, <1>12, <1>13, <1>14, ChargedMoves

\* Days pass, the bot spends, and the counter of the day is reset.
LEMMA WorldSettles ==
  ASSUME ChargedInv, NoDirectRow, ResetDailyBudgets \/ Use \/ Midnight \/ UNCHANGED costVars
  PROVE  RowsFit' /\ (~cut' => AllSettled')
  <1>1. SyncedInv /\ RowsFit /\ (~cut => AllSettled)
    BY DEF ChargedInv
  <1>2. UNCHANGED <<daily, collect>> /\ spend.month' = spend.month /\ (~cut' => ~cut)
    <2>1. CASE ResetDailyBudgets
      <3>1. spend \in [month : Nat, day : Nat]
        BY <1>1 DEF SyncedInv, CostTypeOK
      <3>2. spend' = [spend EXCEPT !.day = 0] /\ UNCHANGED <<daily, collect>> /\ (~cut' => ~cut)
        BY <2>1 DEF ResetDailyBudgets
      <3>3. QED
        BY <3>1, <3>2
    <2>2. CASE Use \/ Midnight \/ UNCHANGED costVars
      BY <2>2 DEF Use, Midnight, costVars
    <2>3. QED
      BY <2>1, <2>2
  <1>3. \A d \in Days : usage[d] <= usage'[d] /\ usage'[d] \in Nat
    <2>1. usage \in [Days -> Nat]
      BY <1>1, CostFacts
    <2>2. CASE UNCHANGED usage
      BY <2>1, <2>2
    <2>3. CASE Use
      BY <2>1, <2>3 DEF Use
    <2>4. QED
      BY <2>2, <2>3 DEF ResetDailyBudgets, Midnight, costVars
  <1>4. /\ \A d \in Days : usage[d] \in Nat /\ (daily[d] # NoRow => daily[d] \in Nat)
        /\ \A c \in Collectors, d \in Days : collect[c].report[d] \in Nat
    BY <1>1, CostFacts, CostAssumption DEF Rows, NoRow, CostJobs
  <1>5. RowsFit'
    <2>1. \A d \in Days : daily'[d] # NoRow => daily'[d] <= usage'[d]
      BY <1>1, <1>2, <1>3, <1>4 DEF RowsFit
    <2>2. ASSUME NEW c \in Collectors PROVE JobFits(collect[c])'
      <3>1. JobFits(collect[c])
        BY <1>1 DEF RowsFit
      <3>2. QED
        BY <1>2, <1>3, <1>4, <3>1 DEF JobFits, Walks
    <2>3. QED
      BY <2>1, <2>2 DEF RowsFit
  <1>6. InRows(daily)' = InRows(daily)
    BY <1>2
  <1>7. ~cut' => AllSettled'
    BY <1>1, <1>2, <1>6 DEF AllSettled, AllCollected, Collects, Settled
  <1>8. QED
    BY <1>5, <1>7

LEMMA ChargedStep == ASSUME ChargedInv, [CostNext]_costVars PROVE ChargedInv'
  <1>1. SyncedInv /\ SyncedInv'
    BY SyncedStep DEF ChargedInv
  <1>2. SUFFICES ASSUME NoDirectRow' PROVE RowsFit' /\ (~cut' => AllSettled')
    BY <1>1 DEF ChargedInv
  <1>3. NoDirectRow
    BY <1>1, <1>2, DirectRowsStay
  <1>4. CASE RecordCostEvent
    <2>1. direct' = [direct EXCEPT ![today] = 1] /\ 1 \in 0..MaxUsage
      BY <1>4, CostAssumption DEF RecordCostEvent
    <2>2. direct'[today] # NoRow /\ today \in Days
      BY <1>1, <2>1, CostFacts
    <2>3. QED
      BY <1>2, <2>2 DEF NoDirectRow
  <1>5. QED
    BY <1>3, <1>4, FirstStepsSettle, WalkSettles, WriteRowSettles, AddToBudgetSettles, WorldSettles, Zenon
       DEF CostNext

\* However often it is collected, by the clock and by hand, and whatever else fails: between
\* collections the budget has grown by the sum of the rows, for any number of days, unless a
\* call was cut off between a row and the budget or the API records rows of its own.
THEOREM DaysAreChargedOnce == CostSpec => []ChargedOnce
  <1>1. CostInit => ChargedInv
    <2>1. SUFFICES ASSUME CostInit PROVE RowsFit /\ AllSettled
      BY SyncedInvInit DEF ChargedInv
    <2>2. \A c \in Collectors : collect[c].pc = "idle"
      BY <2>1 DEF CostInit, CollectIdle
    <2>3. daily = [d \in Days |-> NoRow] /\ spend.month = 0
      BY <2>1 DEF CostInit
    <2>4. InRows(daily) = 0
      BY <2>3, SumOfNone
    <2>5. QED
      BY <2>2, <2>3, <2>4 DEF RowsFit, AllSettled, JobFits, Walks, Collects
  <1>2. ChargedInv => ChargedOnce
    BY DEF ChargedInv, ChargedOnce, AllSettled, NoDirectRow
  <1>3. QED
    BY <1>1, <1>2, ChargedStep, PTL DEF CostSpec

-----------------------------------------------------------------------------
(* The services together *)

\* What one service promises it promises among the others: their composition
\* implements the specification of each, fairness included.
THEOREM ServicesKeepTheirSpecs ==
  ServicesSpec => /\ SyncSpec /\ ProvSpec /\ PairSpec /\ PoolSpec /\ AuthSpec
                  /\ CostSpec /\ TaskSpec /\ ObSpec /\ ProxySpec
  <1>1. ServicesInit => /\ SyncInit /\ ProvInit /\ PairInit /\ PoolInit /\ AuthInit
                        /\ CostInit /\ TaskInit /\ ObInit /\ ProxyInit
    BY DEF ServicesInit
  <1>2. [ServicesNext]_servicesVars =>
          /\ [SyncNext]_syncVars /\ [ProvNext]_provVars /\ [PairNext]_pairVars
          /\ [PoolNext]_poolVars /\ [AuthNext]_authVars /\ [CostNext]_costVars
          /\ [TaskNext]_taskVars /\ [ObNext]_obVars /\ [ProxyNext]_proxyVars
    BY DEF ServicesNext, servicesVars
  <1>3. QED
    BY <1>1, <1>2, PTL
       DEF ServicesSpec, SyncSpec, ProvSpec, PairSpec, PoolSpec, AuthSpec, CostSpec, TaskSpec, ObSpec, ProxySpec

\* In the composition that the runs check: restores are confirmed, a page that joins sees
\* each line of a run once, pairings agree with the gateway, no connection leaks, a channel
\* that is paired has no waiting QR session, days are charged once and copied in full, a
\* stream ends once and its trace says what it was told, a bot has its own token, target
\* and port and all the channels it asked for, nothing is left of a bot that was cleaned
\* up, and the proxy keeps the frames' order. A backup leaves what it read, and no patch of
\* a list loses another one.
THEOREM ServicesAreSafe ==
  ServicesSpec =>
    /\ [](/\ RestoresOnlyConfirmed /\ JoinedSeesEachLineOnce /\ RowsMatchGateway /\ NoLeakedConnection
          /\ PairedInBoth /\ ChargedOnce /\ SyncedDaysAreComplete /\ OneFinalAnswer /\ TraceAgrees
          /\ OwnTokenAndPort /\ DeployedIsWhole /\ PassedFramesArrive)
    /\ BackupLeavesWhatItRead /\ NoLostListUpdate
  BY ServicesKeepTheirSpecs, RestoresConfirmed, BackupsAreWhole, PageSeesEachLineOnce, RowsAgree,
     PatchesAreAtomic, NoConnectionLeaks,
     SignedInInBoth, DaysAreChargedOnce, SyncedDaysAreCopied, StreamsEndOnce, TracesSayWhatWasTold,
     BotsAreTheirOwn, DeploymentsAreWhole, FramesArriveInOrder, PTL
=============================================================================
