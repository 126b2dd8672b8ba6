-------------------------- MODULE MiddlewareProxy --------------------------
(***************************************************************************)
(* One WebSocket connection of the middleware proxy that stands before a   *)
(* gateway: the half towards the client, the half towards the gateway, and *)
(* the frames, each of which goes through the chain of middlewares on its  *)
(* own, so that a later frame may overtake an earlier one.                 *)
(***************************************************************************)
EXTENDS Naturals, Sequences, FiniteSets

CONSTANTS
  Inbound,      \* frames of the client
  Outbound,     \* frames of the gateway
  Middlewares   \* how many middlewares have a hook

ASSUME ProxyAssumption == Middlewares \in Nat /\ Inbound \cap Outbound = {}

VARIABLES
  clientWs,       \* readyState of the client's socket
  upstream,       \* readyState of upstream
  upstreamReady,  \* it has been open
  held,           \* buffer: frames that passed before it was
  place,          \* where each frame is
  hooks,          \* how many hooks it has behind it
  arrived,        \* what the gateway received
  returned,       \* what the client received
  passed,         \* history: frames of the client in the order they left the chain
  joined          \* history: both halves have been open at once

proxyVars == <<clientWs, upstream, upstreamReady, held, place, hooks, arrived, returned, passed, joined>>

Frames == Inbound \cup Outbound

ProxyTypeOK ==
  /\ clientWs \in {"OPEN", "CLOSING", "CLOSED"}
  /\ upstream \in {"CONNECTING", "OPEN", "CLOSING", "CLOSED"}
  /\ upstreamReady \in BOOLEAN /\ joined \in BOOLEAN
  /\ {held, arrived, passed} \subseteq Seq(Inbound)
  /\ returned \in Seq(Outbound)
  /\ place \in [Frames -> {"unsent", "chain", "blocked", "through"}]
  /\ hooks \in [Frames -> 0..Middlewares]

-----------------------------------------------------------------------------
(* Frames *)

\* processHook: the next hook lets the frame pass, changes it or throws, which all
\* come to the same, or blocks it.  Whoever has the frame after the last hook
\* sends it at once.
Send(f) ==
  IF f \in Inbound
  THEN /\ passed' = Append(passed, f)
       /\ IF upstreamReady /\ upstream = "OPEN" THEN arrived' = Append(arrived, f) /\ UNCHANGED held
          ELSE IF ~upstreamReady THEN held' = Append(held, f) /\ UNCHANGED arrived
          ELSE UNCHANGED <<held, arrived>>
       /\ UNCHANGED returned
  ELSE /\ returned' = IF clientWs = "OPEN" THEN Append(returned, f) ELSE returned
       /\ UNCHANGED <<passed, held, arrived>>

Reaches(f, k) ==
  /\ hooks' = [hooks EXCEPT ![f] = k]
  /\ place' = [place EXCEPT ![f] = IF k < Middlewares THEN "chain" ELSE "through"]
  /\ IF k < Middlewares THEN UNCHANGED <<held, arrived, returned, passed>> ELSE Send(f)

\* A half that is being closed still hears the other side.
SenderOpen(f) == IF f \in Inbound THEN clientWs # "CLOSED" ELSE upstream \in {"OPEN", "CLOSING"}

\* A JSON frame enters the chain; binary data and what is not JSON goes past it.
Receive(f) ==
  /\ place[f] = "unsent" /\ SenderOpen(f)
  /\ \E k \in {0, Middlewares} : Reaches(f, k)
  /\ UNCHANGED <<clientWs, upstream, upstreamReady, joined>>

Hook(f) ==
  /\ place[f] = "chain"
  /\ Reaches(f, hooks[f] + 1)
  /\ UNCHANGED <<clientWs, upstream, upstreamReady, joined>>

Block(f) ==
  /\ place[f] = "chain"
  /\ place' = [place EXCEPT ![f] = "blocked"]
  /\ UNCHANGED <<clientWs, upstream, upstreamReady, held, hooks, arrived, returned, passed, joined>>

-----------------------------------------------------------------------------
(* The two halves *)

\* Faulty variant: the buffer is not cleared.
UpstreamOpensAgain ==
  /\ upstream = "CONNECTING"
  /\ upstream' = "OPEN" /\ upstreamReady' = TRUE
  /\ arrived' = arrived \o held /\ UNCHANGED held
  /\ joined' = (clientWs = "OPEN")
  /\ UNCHANGED <<clientWs, place, hooks, returned, passed>>

UpstreamOpens ==
  /\ upstream = "CONNECTING"
  /\ upstream' = "OPEN" /\ upstreamReady' = TRUE
  /\ arrived' = arrived \o held /\ held' = <<>>
  /\ joined' = (clientWs = "OPEN")
  /\ UNCHANGED <<clientWs, place, hooks, returned, passed>>

Closes(state) == IF state = "OPEN" THEN "CLOSING" ELSE state

\* An error, before or after it was open, and the close event that follows.
UpstreamFails ==
  /\ upstream \in {"CONNECTING", "OPEN"}
  /\ upstream' = "CLOSED" /\ clientWs' = Closes(clientWs)
  /\ UNCHANGED <<upstreamReady, held, place, hooks, arrived, returned, passed, joined>>

\* The gateway closes, or answers a close frame (or ws gives up waiting for that).
UpstreamCloses ==
  /\ upstream \in {"OPEN", "CLOSING"}
  /\ upstream' = "CLOSED" /\ clientWs' = Closes(clientWs)
  /\ UNCHANGED <<upstreamReady, held, place, hooks, arrived, returned, passed, joined>>

\* Faulty variant: the other half is forgotten.
ClientClosesAlone ==
  /\ clientWs \in {"OPEN", "CLOSING"}
  /\ clientWs' = "CLOSED"
  /\ UNCHANGED <<upstream, upstreamReady, held, place, hooks, arrived, returned, passed, joined>>

ClientCloses ==
  /\ clientWs \in {"OPEN", "CLOSING"}
  /\ clientWs' = "CLOSED" /\ upstream' = Closes(upstream)
  /\ UNCHANGED <<upstreamReady, held, place, hooks, arrived, returned, passed, joined>>

\* ProxyServer.stop closes every client.
StopProxy ==
  /\ clientWs = "OPEN"
  /\ clientWs' = "CLOSING"
  /\ UNCHANGED <<upstream, upstreamReady, held, place, hooks, arrived, returned, passed, joined>>

-----------------------------------------------------------------------------
ProxyInit ==
  /\ clientWs = "OPEN" /\ upstream = "CONNECTING"
  /\ upstreamReady = FALSE /\ joined = FALSE
  /\ held = <<>> /\ arrived = <<>> /\ returned = <<>> /\ passed = <<>>
  /\ place = [f \in Frames |-> "unsent"] /\ hooks = [f \in Frames |-> 0]

ProxyNext ==
  \/ \E f \in Frames : Receive(f) \/ Hook(f) \/ Block(f)
  \/ UpstreamOpens \/ UpstreamFails \/ UpstreamCloses \/ ClientCloses \/ StopProxy

\* A closing handshake ends: ws waits for thirty seconds and then destroys the socket.
ProxyFairness ==
  /\ WF_proxyVars(clientWs = "CLOSING" /\ ClientCloses)
  /\ WF_proxyVars(upstream = "CLOSING" /\ UpstreamCloses)

ProxySpec == ProxyInit /\ [][ProxyNext]_proxyVars /\ ProxyFairness

-----------------------------------------------------------------------------
(* Properties *)

\* Until the half towards the gateway goes down, what the gateway has received and
\* what waits in the buffer are the frames that passed the chain, each once, in the
\* order in which they passed: the buffer of a connection that is not open yet
\* neither loses, repeats nor reorders one.
PassedFramesArrive ==
  upstream \in {"CONNECTING", "OPEN"} => arrived \o held = passed

\* Once both halves have been open, neither outlives the other.
HalvesCloseTogether ==
  joined /\ (clientWs # "OPEN" \/ upstream # "OPEN") ~> clientWs = "CLOSED" /\ upstream = "CLOSED"
=============================================================================
