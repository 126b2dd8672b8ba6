----------------------------- MODULE ClientPool -----------------------------
(***************************************************************************)
(* The connections that the API server holds to the gateway of one         *)
(* instance: GatewayManager's pool, used by whoever needs a call, and the  *)
(* log stream that LogStreamingGateway opens for the browsers that watch   *)
(* the instance.  Both look for a connection, await a new one if there is  *)
(* none, and only then note it.  GatewayClient itself is the subject of    *)
(* another module: here a client is connected, lost or abandoned.          *)
(***************************************************************************)
EXTENDS Naturals

CONSTANTS
  Clients,     \* GatewayClient objects, each created once
  NoClient,
  PoolCalls,   \* getClient calls that can overlap
  Browsers,    \* sockets of the log viewer
  PoolDrops    \* how often a connection may be lost or refused

ASSUME PoolAssumption == NoClient \notin Clients /\ PoolDrops \in Nat

VARIABLES
  client,    \* "new", "connecting", "up", "lost" (reconnecting) or "gone"
  pool,      \* GatewayManager.clients.get(instanceId)
  get,       \* getClient calls in flight
  stream,    \* streams.get(instanceId): the client of the stream
  watchers,  \* subscribers of each stream object
  watch,     \* subscribe-logs handlers awaiting a stream, by socket
  subs,      \* sockets with the instance in socketSubscriptions
  solo,      \* history: no two of the calls overlapped
  poolDrops

poolVars == <<client, pool, get, stream, watchers, watch, subs, solo, poolDrops>>

GetIdle == [pc |-> "idle", new |-> NoClient]
Quiet == /\ \A c \in PoolCalls : get[c] = GetIdle
         /\ \A b \in Browsers : watch[b] = NoClient

PoolTypeOK ==
  /\ client \in [Clients -> {"new", "connecting", "up", "lost", "gone"}]
  /\ pool \in Clients \cup {NoClient} /\ stream \in Clients \cup {NoClient}
  /\ get \in [PoolCalls -> [pc : {"idle", "clean", "connect"}, new : Clients \cup {NoClient}]]
  /\ watchers \in [Clients -> SUBSET Browsers]
  /\ watch \in [Browsers -> Clients \cup {NoClient}]
  /\ subs \in SUBSET Browsers
  /\ solo \in BOOLEAN
  /\ poolDrops \in Nat

-----------------------------------------------------------------------------
(* GatewayManager *)

\* The branch that finds no client to use.  A connected one is returned at once.
Ask(c, gone) ==
  /\ get[c] = GetIdle
  /\ solo' = (solo /\ Quiet)
  /\ IF pool # NoClient
     THEN /\ client[pool] # "up"
          /\ client' = [x \in Clients |-> IF x \in gone THEN "gone" ELSE client[x]]
          /\ get' = [get EXCEPT ![c].pc = "clean"]
     ELSE \E x \in Clients :
            /\ client[x] = "new"
            /\ client' = [client EXCEPT ![x] = "connecting"]
            /\ get' = [get EXCEPT ![c] = [pc |-> "connect", new |-> x]]
  /\ UNCHANGED <<pool, stream, watchers, watch, subs, poolDrops>>

\* Faulty variant: the stale client is left to its own reconnection.
GetClientOnly(c) == Ask(c, {})

\* A stale client is disconnected first, which is awaited ...
GetClient(c) == Ask(c, {pool} \ {NoClient})

\* ... and then whatever the pool holds is deleted from it.
CleanUp(c) ==
  /\ get[c].pc = "clean"
  /\ pool' = NoClient
  /\ \E x \in Clients :
       /\ client[x] = "new"
       /\ client' = [client EXCEPT ![x] = "connecting"]
       /\ get' = [get EXCEPT ![c] = [pc |-> "connect", new |-> x]]
  /\ UNCHANGED <<stream, watchers, watch, subs, solo, poolDrops>>

Connected(c) ==
  /\ get[c].pc = "connect"
  /\ client' = [client EXCEPT ![get[c].new] = "up"]
  /\ pool' = get[c].new
  /\ get' = [get EXCEPT ![c] = GetIdle]
  /\ UNCHANGED <<stream, watchers, watch, subs, solo, poolDrops>>

\* connect() rejects: getClient throws and nothing is noted.
Refused(c) ==
  /\ get[c].pc = "connect" /\ poolDrops > 0
  /\ poolDrops' = poolDrops - 1
  /\ client' = [client EXCEPT ![get[c].new] = "gone"]
  /\ get' = [get EXCEPT ![c] = GetIdle]
  /\ UNCHANGED <<pool, stream, watchers, watch, subs, solo>>

\* removeClient, and disconnectAll for this instance.
RemoveClient ==
  /\ pool # NoClient
  /\ client' = [client EXCEPT ![pool] = "gone"]
  /\ pool' = NoClient
  /\ solo' = (solo /\ Quiet)
  /\ UNCHANGED <<get, stream, watchers, watch, subs, poolDrops>>

-----------------------------------------------------------------------------
(* GatewayClient, as its users see it *)

Lost(x) ==
  /\ client[x] = "up" /\ poolDrops > 0
  /\ poolDrops' = poolDrops - 1
  /\ client' = [client EXCEPT ![x] = "lost"]
  /\ UNCHANGED <<pool, get, stream, watchers, watch, subs, solo>>

Reconnected(x) ==
  /\ client[x] = "lost"
  /\ client' = [client EXCEPT ![x] = "up"]
  /\ UNCHANGED <<pool, get, stream, watchers, watch, subs, solo, poolDrops>>

-----------------------------------------------------------------------------
(* LogStreamingGateway *)

Subscribed(b, x) == watchers' = [watchers EXCEPT ![x] = @ \cup {b}]

\* An existing stream takes one more subscriber, whatever its client's state.
SubscribeLogs(b) ==
  /\ watch[b] = NoClient
  /\ subs' = subs \cup {b}
  /\ IF stream # NoClient
     THEN Subscribed(b, stream) /\ UNCHANGED <<client, watch>>
     ELSE \E x \in Clients :
            /\ client[x] = "new"
            /\ client' = [client EXCEPT ![x] = "connecting"]
            /\ watch' = [watch EXCEPT ![b] = x]
            /\ UNCHANGED watchers
  /\ solo' = (solo /\ (stream # NoClient \/ Quiet))
  /\ UNCHANGED <<pool, get, stream, poolDrops>>

\* createStream has connected: the new stream replaces what the map holds.
StreamOpen(b) ==
  /\ watch[b] # NoClient
  /\ client' = [client EXCEPT ![watch[b]] = "up"]
  /\ stream' = watch[b]
  /\ Subscribed(b, watch[b])
  /\ watch' = [watch EXCEPT ![b] = NoClient]
  /\ UNCHANGED <<pool, get, subs, solo, poolDrops>>

StreamRefused(b) ==
  /\ watch[b] # NoClient /\ poolDrops > 0
  /\ poolDrops' = poolDrops - 1
  /\ client' = [client EXCEPT ![watch[b]] = "gone"]
  /\ watch' = [watch EXCEPT ![b] = NoClient]
  /\ UNCHANGED <<pool, get, stream, watchers, subs, solo>>

\* removeSubscriber: the last one closes the stream.
RemoveSubscriber(b) ==
  /\ watchers' = [watchers EXCEPT ![stream] = @ \ {b}]
  /\ IF watchers'[stream] = {}
     THEN client' = [client EXCEPT ![stream] = "gone"] /\ stream' = NoClient
     ELSE UNCHANGED <<client, stream>>

\* unsubscribe-logs and handleDisconnect, which may come while a subscription of
\* the socket still awaits its stream.
Unsubscribe(b) ==
  /\ b \in subs
  /\ subs' = subs \ {b}
  /\ IF stream = NoClient THEN UNCHANGED <<client, stream, watchers>> ELSE RemoveSubscriber(b)
  /\ solo' = (solo /\ \A c \in Browsers : watch[c] = NoClient)
  /\ UNCHANGED <<pool, get, watch, poolDrops>>

-----------------------------------------------------------------------------
PoolInit ==
  /\ client = [x \in Clients |-> "new"]
  /\ pool = NoClient /\ stream = NoClient
  /\ get = [c \in PoolCalls |-> GetIdle]
  /\ watchers = [x \in Clients |-> {}]
  /\ watch = [b \in Browsers |-> NoClient]
  /\ subs = {}
  /\ solo = TRUE
  /\ poolDrops = PoolDrops

PoolNext ==
  \/ \E c \in PoolCalls : GetClient(c) \/ CleanUp(c) \/ Connected(c) \/ Refused(c)
  \/ RemoveClient
  \/ \E x \in Clients : Lost(x) \/ Reconnected(x)
  \/ \E b \in Browsers : SubscribeLogs(b) \/ StreamOpen(b) \/ StreamRefused(b) \/ Unsubscribe(b)

PoolSpec == PoolInit /\ [][PoolNext]_poolVars

-----------------------------------------------------------------------------
(* Properties *)

\* No connection is left behind: as long as calls do not overlap, every client
\* that is up or may come back is in the pool, or is the stream and has a
\* subscriber that counts on it.  (Two overlapping calls leave one behind.)
NoLeakedConnection ==
  solo => \A x \in Clients :
            client[x] \in {"up", "lost"} => x = pool \/ (x = stream /\ watchers[x] \cap subs # {})
=============================================================================
