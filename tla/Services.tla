------------------------------ MODULE Services ------------------------------
(***************************************************************************)
(* The services of the API server that share no state with each other, and *)
(* the proxy before a gateway.  What one of them does another neither sees *)
(* nor prevents, so a behaviour follows one of them while the others rest; *)
(* which one is chosen at the start.                                       *)
(***************************************************************************)
EXTENDS StateSync, Provisioning, Pairing, ClientPool, ChannelAuth, Costs, AgentTasks,
        Onboarding, MiddlewareProxy

VARIABLE service   \* the part that is at work

Parts == {"sync", "prov", "pair", "pool", "auth", "cost", "task", "board", "proxy"}
servicesVars == <<service, syncVars, provVars, pairVars, poolVars, authVars, costVars, taskVars, obVars, proxyVars>>

ServicesInit ==
  /\ service \in Parts
  /\ SyncInit /\ ProvInit /\ PairInit /\ PoolInit /\ AuthInit /\ CostInit /\ TaskInit /\ ObInit /\ ProxyInit
  \* What rests need not vary.
  /\ service # "auth" => authKind = "token"
  /\ service # "board" => otherPorts = {}

ServicesNext ==
  /\ UNCHANGED service
  /\ \/ service = "sync" /\ SyncNext
        /\ UNCHANGED <<provVars, pairVars, poolVars, authVars, costVars, taskVars, obVars, proxyVars>>
     \/ service = "prov" /\ ProvNext
        /\ UNCHANGED <<syncVars, pairVars, poolVars, authVars, costVars, taskVars, obVars, proxyVars>>
     \/ service = "pair" /\ PairNext
        /\ UNCHANGED <<syncVars, provVars, poolVars, authVars, costVars, taskVars, obVars, proxyVars>>
     \/ service = "pool" /\ PoolNext
        /\ UNCHANGED <<syncVars, provVars, pairVars, authVars, costVars, taskVars, obVars, proxyVars>>
     \/ service = "auth" /\ AuthNext
        /\ UNCHANGED <<syncVars, provVars, pairVars, poolVars, costVars, taskVars, obVars, proxyVars>>
     \/ service = "cost" /\ CostNext
        /\ UNCHANGED <<syncVars, provVars, pairVars, poolVars, authVars, taskVars, obVars, proxyVars>>
     \/ service = "task" /\ TaskNext
        /\ UNCHANGED <<syncVars, provVars, pairVars, poolVars, authVars, costVars, obVars, proxyVars>>
     \/ service = "board" /\ ObNext
        /\ UNCHANGED <<syncVars, provVars, pairVars, poolVars, authVars, costVars, taskVars, proxyVars>>
     \/ service = "proxy" /\ ProxyNext
        /\ UNCHANGED <<syncVars, provVars, pairVars, poolVars, authVars, costVars, taskVars, obVars>>

ServicesSpec ==
  ServicesInit /\ [][ServicesNext]_servicesVars /\ ProvFairness /\ TaskFairness /\ ProxyFairness

\* The type invariant of the services.
ServicesTypeOK ==
  /\ service \in Parts
  /\ SyncTypeOK /\ ProvTypeOK /\ PairTypeOK
  /\ PoolTypeOK /\ AuthTypeOK /\ CostTypeOK
  /\ TaskTypeOK /\ ObTypeOK /\ ProxyTypeOK
=============================================================================
