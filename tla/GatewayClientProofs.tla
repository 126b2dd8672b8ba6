-------------------------- MODULE GatewayClientProofs --------------------------
(* Theorems about GatewayClient, for any sets of calls and any bounds. *)
EXTENDS GatewayClient, TLAPS

Tracking == call \in [Calls -> CallStates] /\ AwaitedIsTracked

\* The steps that leave the tracker and the calls alone.
LEMMA CallsUntouched ==
  ASSUME Tracking, UNCHANGED <<call, tracked>>
  PROVE  Tracking'
  BY DEF Tracking, AwaitedIsTracked

LEMMA RejectAllTracks ==
  ASSUME Tracking, RejectAll
  PROVE  Tracking'
  BY DEF Tracking, AwaitedIsTracked, RejectAll, CallStates, Awaited, Settled

\* The steps of one call.
LEMMA CallTracks ==
  ASSUME Tracking, NEW c \in Calls, Ask(c) \/ Frame(c) \/ CallStep(c)
  PROVE  Tracking'
  <1> USE DEF Tracking, AwaitedIsTracked, Set, CallStates, Awaited, Settled
  <1>1. CASE Ask(c)
    BY <1>1 DEF Ask
  <1>2. CASE Frame(c)
    BY <1>2 DEF Frame
  <1>3. CASE Send(c)
    BY <1>3 DEF Send
  <1>4. CASE Acked(c)
    BY <1>4 DEF Acked
  <1>5. CASE Answered(c)
    BY <1>5 DEF Answered
  <1>6. CASE Timeout(c)
    BY <1>6 DEF Timeout
  <1>7. QED
    BY <1>1, <1>2, <1>3, <1>4, <1>5, <1>6 DEF CallStep

\* Whatever becomes of the connection, no caller waits on an entry that the
\* tracker has lost: add, remove and rejectAll keep promise and entry together.
THEOREM NobodyForgotten == Spec => []AwaitedIsTracked
  <1>1. Init => Tracking
    BY DEF Init, Tracking, AwaitedIsTracked, CallStates, Awaited, Settled
  <1>2. Tracking /\ [Next]_vars => Tracking'
    <2> SUFFICES ASSUME Tracking, [Next]_vars PROVE Tracking'
      OBVIOUS
    <2>1. CASE RejectAll
      BY <2>1, RejectAllTracks
    <2>2. CASE UNCHANGED <<call, tracked>>
      BY <2>2, CallsUntouched
    <2>3. CASE \E c \in Calls : Ask(c) \/ Frame(c) \/ CallStep(c)
      BY <2>3, CallTracks
    <2>4. QED
      BY <2>1, <2>2, <2>3
         DEF Next, Connect, Reconnect, Open, Challenge, Accepted, Refused, ShakeFails,
             ConnectTimeout, Drop, Disconnect, Closed, Reap, OnDisconnected, calls, vars
  <1>3. QED
    BY <1>1, <1>2, PTL DEF Spec, Tracking

\* disconnect() is the last word: a drop, a late close event or an old timer
\* never arms the reconnect timer of a client that was closed on purpose.
THEOREM NoReconnectAfterClose == Spec => []ClosedStaysClosed
  <1>1. Init => ClosedStaysClosed
    BY DEF Init, ClosedStaysClosed
  <1>2. ClosedStaysClosed /\ [Next]_vars => ClosedStaysClosed'
    <2> SUFFICES ASSUME ClosedStaysClosed, [Next]_vars PROVE ClosedStaysClosed'
      OBVIOUS
    <2> USE DEF ClosedStaysClosed
    <2>1. CASE Connect \/ Reconnect
      BY <2>1 DEF Connect, Reconnect, Open
    <2>2. CASE Drop \/ Closed
      BY <2>2 DEF Drop, Closed, OnDisconnected, ScheduleReconnect, reconnection
    <2>3. CASE Disconnect
      BY <2>3 DEF Disconnect
    <2>4. ASSUME NEW c \in Calls, Ask(c) \/ Frame(c) \/ CallStep(c)
          PROVE  ClosedStaysClosed'
      BY <2>4 DEF Ask, Frame, CallStep, Send, Acked, Answered, Timeout, reconnection
    <2>5. QED
      BY <2>1, <2>2, <2>3, <2>4
         DEF Next, Challenge, Accepted, Refused, ShakeFails, ConnectTimeout, Reap,
             reconnection, vars
  <1>3. QED
    BY <1>1, <1>2, PTL DEF Spec
=============================================================================
