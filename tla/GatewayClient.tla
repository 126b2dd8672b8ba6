---------------------------- MODULE GatewayClient ----------------------------
(***************************************************************************)
(* One GatewayClient: its WebSocket, the handshake, automatic reconnection *)
(* and the tracker of pending calls.                                       *)
(*                                                                         *)
(* Everything runs on one event loop, so a step is one callback: a socket  *)
(* event, a timer, the continuation of an await or a call by the user.     *)
(* The user connects only while nothing else brings the client up.         *)
(***************************************************************************)
EXTENDS Naturals

CONSTANTS
  Rpcs,         \* calls of request()
  Agents,       \* calls of agent(): an ack frame, then a completion frame
  MaxAttempts,  \* ReconnectOptions.maxAttempts
  MaxConnects,  \* how often the user calls connect()
  MaxDrops      \* how often the network or the gateway closes an open socket

ASSUME BoundAssumption == MaxAttempts \in Nat /\ MaxConnects \in Nat /\ MaxDrops \in Nat
ASSUME CallAssumption == Rpcs \cap Agents = {}

Calls == Rpcs \cup Agents

VARIABLES
  state,        \* WebSocketConnection._state
  sock,         \* phase of _socket, "none" for null
  ears,         \* which groups of listeners _socket carries
  attempt,      \* who awaits a connect() promise: "none", "user", "reconnect"
  deadline,     \* is connectTimeout armed
  intentional,  \* GatewayClient.intentionalClose
  attempts,     \* ReconnectionManager._currentAttempt
  timer,        \* is reconnectTimer armed
  closing,      \* is a disconnect() awaited
  reapers,      \* 3-second timers of closeSocket that have not fired
  call,         \* progress of each call
  tracked,      \* ids in PendingRequestTracker
  online,       \* calls sent over the present socket
  served,       \* frames the gateway has sent for each call
  connects, drops

connection == <<state, sock, ears, attempt, deadline>>
reconnection == <<intentional, attempts, timer>>
calls == <<call, tracked, online, served>>
bounds == <<connects, drops>>
vars == <<connection, reconnection, closing, reapers, calls, bounds>>

-----------------------------------------------------------------------------
Awaited == {"waiting", "acking", "completing"}
Settled == {"ok", "failed", "timedout"}
CallStates == {"new", "outbound", "inbound", "acked"} \cup Awaited \cup Settled

TypeOK ==
  /\ state \in {"disconnected", "connecting", "connected"}
  /\ sock \in {"none", "opening", "challenged", "open", "closing", "closed"}
  /\ ears \in SUBSET {"shake", "full", "closer"}
  /\ attempt \in {"none", "user", "reconnect"}
  /\ deadline \in BOOLEAN /\ intentional \in BOOLEAN
  /\ timer \in BOOLEAN /\ closing \in BOOLEAN
  /\ attempts \in 0..MaxAttempts
  /\ reapers \in Nat
  /\ call \in [Calls -> CallStates]
  /\ tracked \in SUBSET Calls
  /\ online \in SUBSET Calls
  /\ served \in [Calls -> 0..2]
  /\ connects \in 0..MaxConnects /\ drops \in 0..MaxDrops

IsConnected == state = "connected" /\ sock = "open"

\* Faulty variant: a state the rest of the class does not know.
CleanupCloses == state' = "closed" /\ sock' = "none" /\ ears' = {} /\ online' = {}

\* WebSocketConnection.cleanup: no listener hears of the socket again.
Cleanup == state' = "disconnected" /\ sock' = "none" /\ ears' = {} /\ online' = {}

\* Faulty variant: the tracker is cleared and nobody is told (clear()).
ClearAll == tracked' = {} /\ UNCHANGED <<call, served>>

\* PendingRequestTracker.rejectAll.
RejectAll ==
  /\ call' = [c \in Calls |-> IF c \in tracked /\ call[c] \in Awaited THEN "failed" ELSE call[c]]
  /\ tracked' = {}
  /\ UNCHANGED served

\* ReconnectionManager.scheduleReconnect.
ScheduleReconnect ==
  IF attempts >= MaxAttempts
  THEN UNCHANGED <<attempts, timer>>
  ELSE attempts' = attempts + 1 /\ timer' = TRUE

\* Faulty variant: an intentional close reconnects like any other.
OnDisconnectedAlways == RejectAll /\ ScheduleReconnect /\ UNCHANGED intentional

\* The onDisconnected callback.
OnDisconnected ==
  /\ RejectAll
  /\ IF intentional THEN UNCHANGED <<attempts, timer>> ELSE ScheduleReconnect
  /\ UNCHANGED intentional

-----------------------------------------------------------------------------
(* Connecting *)

\* GatewayClient.connect and WebSocketConnection.connect up to the first await.
Open(who) ==
  /\ intentional' = FALSE
  /\ attempts' = 0
  /\ \/ /\ state' = "connecting" /\ sock' = "opening" /\ ears' = {"shake"}
        /\ attempt' = who
        /\ deadline' = TRUE
     \/ /\ state' = "disconnected"      \* the factory throws
        /\ attempt' = "none"
        /\ UNCHANGED <<sock, ears, deadline>>
  /\ UNCHANGED <<closing, reapers, calls, drops>>

Connect ==
  /\ connects < MaxConnects
  /\ state = "disconnected" /\ attempt = "none" /\ ~timer /\ ~closing
  /\ sock \in {"none", "closed"}
  /\ connects' = connects + 1
  /\ Open("user")
  /\ UNCHANGED timer

\* The reconnect timer: performReconnect is connect().
Reconnect ==
  /\ timer
  /\ timer' = FALSE
  /\ Open("reconnect")
  /\ UNCHANGED connects

\* Faulty variant: the deadline covers the socket's opening only.
ChallengeDisarms ==
  /\ sock = "opening" /\ "shake" \in ears
  /\ sock' = "challenged"
  /\ deadline' = FALSE
  /\ UNCHANGED <<state, ears, attempt, reconnection, closing, reapers, calls, bounds>>

\* The first message is the challenge; the connect frame is sent.
Challenge ==
  /\ sock = "opening" /\ "shake" \in ears
  /\ sock' = "challenged"
  /\ UNCHANGED <<state, ears, attempt, deadline, reconnection, closing, reapers, calls, bounds>>

\* The second message; it may still come after close() was called.
Accepted ==
  /\ sock = "challenged" /\ "shake" \in ears
  /\ deadline' = FALSE
  /\ state' = "connected"
  /\ sock' = IF "closer" \in ears THEN "closing" ELSE "open"
  /\ ears' = ears \cup {"full"}
  /\ attempt' = "none"
  /\ UNCHANGED <<reconnection, closing, reapers, calls, bounds>>

\* A frame that does not parse, or { ok: false }.
Refused ==
  /\ sock \in {"opening", "challenged"} /\ "shake" \in ears
  /\ deadline' = FALSE
  /\ Cleanup
  /\ attempt' = "none"
  /\ UNCHANGED <<reconnection, closing, reapers, call, tracked, served, bounds>>

\* An error or a close during the handshake.
ShakeFails ==
  /\ sock \in {"opening", "challenged"} /\ ears = {"shake"}
  /\ deadline' = FALSE
  /\ state' = "disconnected"
  /\ sock' = "closed"
  /\ ears' = {}
  /\ attempt' = "none"
  /\ UNCHANGED <<reconnection, closing, reapers, calls, bounds>>

\* connectTimeout terminates _socket; of what the terminated socket then emits
\* only a disconnect() under way takes notice.
ConnectTimeout ==
  /\ deadline
  /\ deadline' = FALSE
  /\ state' = "disconnected"
  /\ sock' = CASE sock = "none" -> "none" [] "closer" \in ears -> "closing" [] OTHER -> "closed"
  /\ ears' = ears \cap {"closer"}
  /\ attempt' = "none"
  /\ UNCHANGED <<reconnection, closing, reapers, calls, bounds>>

-----------------------------------------------------------------------------
(* Losing and closing the connection *)

\* The socket closes under the client, with or without an error before.
Drop ==
  /\ drops < MaxDrops
  /\ sock = "open" /\ "full" \in ears
  /\ drops' = drops + 1
  /\ state' = "disconnected"
  /\ sock' = "closed"
  /\ ears' = {}
  /\ online' = {}
  /\ OnDisconnected
  /\ UNCHANGED <<attempt, deadline, closing, reapers, connects>>

\* GatewayClient.disconnect, and closeSocket up to its promise.
Disconnect ==
  /\ intentional' = TRUE
  /\ timer' = FALSE
  /\ RejectAll
  /\ IF sock \in {"none", "closed"} \/ "closer" \in ears
     THEN /\ Cleanup
          /\ UNCHANGED <<closing, reapers>>
     ELSE /\ sock' = IF sock = "open" THEN "closing" ELSE sock
          /\ ears' = ears \cup {"closer"}
          /\ closing' = TRUE
          /\ reapers' = reapers + 1
          /\ UNCHANGED <<state, online>>
  /\ UNCHANGED <<attempt, deadline, attempts, bounds>>

\* The close event of the socket disconnect() closed: all its listeners run.
Closed ==
  /\ closing /\ "closer" \in ears
  /\ Cleanup
  /\ closing' = FALSE
  /\ IF "full" \in ears
     THEN OnDisconnected /\ UNCHANGED <<attempt, deadline>>
     ELSE /\ attempt' = "none"
          /\ deadline' = FALSE
          /\ UNCHANGED <<reconnection, call, tracked, served>>
  /\ UNCHANGED <<reapers, bounds>>

\* closeSocket's 3-second timer is never cleared: it cleans up whatever
\* _socket is by then.
Reap ==
  /\ reapers > 0
  /\ reapers' = reapers - 1
  /\ Cleanup
  /\ closing' = (closing /\ reapers > 1)
  /\ UNCHANGED <<attempt, deadline, reconnection, call, tracked, served, bounds>>

-----------------------------------------------------------------------------
(* Calls *)

Set(c, s) == call' = [call EXCEPT ![c] = s]

\* ensureConnected; agent() then sends at once, request() awaits the outbound
\* interceptors first.
Ask(c) ==
  /\ call[c] = "new"
  /\ IF ~IsConnected
     THEN Set(c, "failed") /\ UNCHANGED <<tracked, online>>
     ELSE IF c \in Rpcs
          THEN Set(c, "outbound") /\ UNCHANGED <<tracked, online>>
          ELSE /\ Set(c, "acking")
               /\ tracked' = tracked \cup {c}
               /\ online' = online \cup {c}
  /\ UNCHANGED <<connection, reconnection, closing, reapers, served, bounds>>

\* pending.add, then send; a send that throws rejects the promise and leaves
\* the entry to its timer.  An interceptor may also swallow the message.
Send(c) ==
  /\ call[c] = "outbound"
  /\ \/ /\ tracked' = tracked \cup {c}
        /\ Set(c, IF IsConnected THEN "waiting" ELSE "failed")
        /\ online' = IF IsConnected THEN online \cup {c} ELSE online
     \/ /\ Set(c, "ok")
        /\ UNCHANGED <<tracked, online>>
  /\ UNCHANGED <<connection, reconnection, closing, reapers, served, bounds>>

\* The gateway answers what it was sent: handleResponse takes the entry out and
\* starts the inbound interceptors; a frame without an entry is dropped.
Frame(c) ==
  /\ sock \in {"open", "closing"} /\ "full" \in ears
  /\ c \in online
  /\ served[c] < (IF c \in Agents THEN 2 ELSE 1)
  /\ served' = [served EXCEPT ![c] = @ + 1]
  /\ IF c \in tracked
     THEN /\ tracked' = tracked \ {c}
          /\ Set(c, IF call[c] = "acking" THEN "acked" ELSE "inbound")
     ELSE UNCHANGED <<call, tracked>>
  /\ UNCHANGED <<connection, reconnection, closing, reapers, online, bounds>>

\* The ack went through the interceptors: agent() registers the completion.
Acked(c) ==
  /\ call[c] = "acked"
  /\ \/ Set(c, "completing") /\ tracked' = tracked \cup {c}
     \/ Set(c, "failed") /\ UNCHANGED tracked
  /\ UNCHANGED <<connection, reconnection, closing, reapers, online, served, bounds>>

Answered(c) ==
  /\ call[c] = "inbound"
  /\ Set(c, "ok") \/ Set(c, "failed")
  /\ UNCHANGED <<connection, reconnection, closing, reapers, tracked, online, served, bounds>>

\* The entry's own timer.
Timeout(c) ==
  /\ c \in tracked
  /\ tracked' = tracked \ {c}
  /\ call' = [call EXCEPT ![c] = IF @ \in Awaited THEN "timedout" ELSE @]
  /\ UNCHANGED <<connection, reconnection, closing, reapers, online, served, bounds>>

CallStep(c) == Send(c) \/ Acked(c) \/ Answered(c) \/ Timeout(c)

-----------------------------------------------------------------------------
Init ==
  /\ state = "disconnected" /\ sock = "none" /\ ears = {}
  /\ attempt = "none" /\ deadline = FALSE
  /\ intentional = FALSE /\ attempts = 0 /\ timer = FALSE
  /\ closing = FALSE /\ reapers = 0
  /\ call = [c \in Calls |-> "new"] /\ tracked = {}
  /\ online = {} /\ served = [c \in Calls |-> 0]
  /\ connects = 0 /\ drops = 0

Next ==
  \/ Connect \/ Reconnect \/ Challenge \/ Accepted \/ Refused \/ ShakeFails
  \/ ConnectTimeout \/ Drop \/ Disconnect \/ Closed \/ Reap
  \/ \E c \in Calls : Ask(c) \/ Frame(c) \/ CallStep(c)

Spec == Init /\ [][Next]_vars

\* Timers fire and awaited interceptors return; the network promises nothing.
Fairness ==
  /\ WF_vars(ConnectTimeout) /\ WF_vars(Reconnect) /\ WF_vars(Reap)
  /\ \A c \in Calls : WF_vars(CallStep(c))

FairSpec == Spec /\ Fairness

-----------------------------------------------------------------------------
(* Properties *)

\* Nobody waits on an entry that is gone: a call still awaited is in the
\* tracker, where an answer, a disconnect or its timer will find it.
AwaitedIsTracked == \A c \in Calls : call[c] \in Awaited => c \in tracked

\* After disconnect() no reconnect timer is armed, whichever of the drop and
\* the call came first: an abandoned client never comes back by itself.
ClosedStaysClosed == intentional => ~timer

\* Every call settles, whatever happens to the connection it went out on.
CallsSettle ==
  \A c \in Calls : call[c] # "new" ~> call[c] \in Settled

\* Every connect() settles, even when its socket is torn down under it by a
\* disconnect() or an old safety timer.
ConnectSettles == attempt # "none" ~> attempt = "none"

\* A reconnect attempt that fails leads to the next one, until the attempts are
\* used up: "connect() failure will trigger another close -> scheduleReconnect".
KeepsReconnecting ==
  [][attempt = "reconnect" /\ attempt' = "none" /\ ~intentional
       => state' = "connected" \/ timer' \/ attempts' >= MaxAttempts]_vars
=============================================================================
