-------------------------- MODULE OnboardingProofs --------------------------
(* Theorems about Onboarding, for any calls, names, channels, ports and faults. *)
EXTENDS Onboarding, TLAPS

CleanPcs == {"related", "prefix", "bot", "unlink"}
Calls == [pc : DeployPcs, name : BotNames, vm : BOOLEAN, port : 0..LastPort,
          cleans : Deploys \cup {NoDeploy}]

\* d has made its row, or never will.
Past(d) == deploy[d].pc \in {"channels", "reconcile", "over"} \/ deploy[d].cleans = d

\* Who cleans up, cleans up after a call that makes no row any more.
Cleaners ==
  \A d \in Deploys :
    /\ deploy[d].cleans # NoDeploy <=> deploy[d].pc \in CleanPcs
    /\ deploy[d].cleans # NoDeploy => Past(deploy[d].cleans)
    /\ deploy[d].pc = "unlink" => ~HasRow(deploy[d].cleans)

\* A row was made by its call, and its target goes after it.
Made == \A d \in Deploys : /\ HasRow(d) => Past(d) /\ d \in targets
                           /\ deploy[d].pc = "row" => d \in targets

\* As long as calls did not crowd, one holds the template and a port nobody has.
Window ==
  ~crowded =>
    /\ \A d, e \in Deploys : InWindow(d) /\ InWindow(e) => d = e
    /\ \A d \in Deploys : /\ InWindow(d) => sharedToken = d
                          /\ deploy[d].pc \in {"target", "row"} /\ ~deploy[d].vm
                               => deploy[d].port \notin UsedPorts

BoardInv == ObTypeOK /\ Cleaners /\ Made /\ Window /\ OwnTokenAndPort

LEMMA BoardInvInit == ObInit => BoardInv
  <1> SUFFICES ASSUME ObInit PROVE BoardInv
    OBVIOUS
  <1>1. \A d \in Deploys : deploy[d].pc = "none" /\ deploy[d].cleans = NoDeploy /\ ~HasRow(d)
    BY DEF ObInit, HasRow
  <1>2. ObTypeOK
    <2>1. (CHOOSE n \in BotNames : TRUE) \in BotNames
      BY ObAssumption
    <2>2. deploy \in [Deploys -> Calls]
      BY <2>1, ObAssumption DEF ObInit, Calls, DeployPcs
    <2>3. bots \in [Deploys -> Row \cup {NoBot}]
      BY DEF ObInit
    <2>4. {crowded, tangled} \subseteq BOOLEAN
      BY DEF ObInit
    <2>5. QED
      BY <2>2, <2>3, <2>4, ObAssumption DEF ObInit, ObTypeOK, Calls
  <1>3. QED
    BY <1>1, <1>2 DEF BoardInv, Cleaners, CleanPcs, Made, Window, InWindow, OwnTokenAndPort, Deployed

\* A step of one call, as far as the cleaners see it.
LEMMA CleanersStep ==
  ASSUME ObTypeOK, Cleaners, NEW d \in Deploys, NEW r \in Calls,
         deploy' = [deploy EXCEPT ![d] = r],
         \A e \in Deploys : HasRow(e)' => HasRow(e) \/ (e = d /\ ~Past(d)),
         r.cleans # NoDeploy <=> r.pc \in CleanPcs,
         Past(d) => r.pc \in {"channels", "reconcile", "over"} \/ r.cleans = d,
         r.cleans # NoDeploy => r.cleans \in {deploy[d].cleans, d} \/ Past(r.cleans),
         r.pc = "unlink" => ~HasRow(r.cleans)'
  PROVE  /\ Cleaners'
         /\ \A e \in Deploys : Past(e) => Past(e)'
         /\ deploy'[d] = r /\ \A e \in Deploys : e # d => deploy'[e] = deploy[e]
  <1>1. deploy \in [Deploys -> Calls]
    BY DEF ObTypeOK, Calls
  <1>2. deploy'[d] = r /\ \A e \in Deploys : e # d => deploy'[e] = deploy[e]
    BY <1>1
  <1>3. \A e \in Deploys : Past(e) => Past(e)'
    BY <1>2 DEF Past
  <1>4. \A e \in Deploys : deploy[e].cleans # NoDeploy => deploy[e].cleans \in Deploys
    BY <1>1 DEF Calls
  <1>5. r.cleans # NoDeploy => r.cleans \in Deploys
    BY DEF Calls
  <1>6. r.cleans # NoDeploy => Past(r.cleans)'
    <2>1. r.cleans = d => Past(d)'
      BY <1>2 DEF Past
    <2>2. QED
      BY <1>3, <1>4, <1>5, <2>1 DEF Cleaners
  <1>7. \A e \in Deploys : e # d /\ deploy[e].cleans # NoDeploy => Past(deploy[e].cleans)'
    BY <1>3, <1>4 DEF Cleaners
  <1>8. ASSUME NEW e \in Deploys, e # d, deploy[e].pc = "unlink" PROVE ~HasRow(deploy[e].cleans)'
    <2>1. deploy[e].cleans \in Deploys /\ Past(deploy[e].cleans) /\ ~HasRow(deploy[e].cleans)
      BY <1>4, <1>8 DEF Cleaners, CleanPcs
    <2>2. deploy'[e].cleans = deploy[e].cleans
      BY <1>2, <1>8
    <2>3. QED
      BY <2>1, <2>2
  <1>9. QED
    BY <1>2, <1>3, <1>6, <1>7, <1>8 DEF Cleaners

\* Rows that go, or change in what the property does not speak of.
LEMMA RowsKept ==
  ASSUME OwnTokenAndPort, otherPorts' = otherPorts, ~crowded' => ~crowded,
         \A e \in Deploys : HasRow(e)' => /\ HasRow(e)
                                          /\ bots'[e].token = bots[e].token
                                          /\ bots'[e].port = bots[e].port
                                          /\ bots'[e].vm = bots[e].vm
                                          /\ e \in targets => e \in targets'
  PROVE  OwnTokenAndPort' /\ UsedPorts' \subseteq UsedPorts
  <1>1. \A e \in Deployed' : /\ e \in Deployed /\ bots'[e].token = bots[e].token
                             /\ bots'[e].port = bots[e].port /\ bots'[e].vm = bots[e].vm
                             /\ e \in targets => e \in targets'
    <2>1. \A e \in Deployed' : e \in Deploys /\ HasRow(e)'
      BY DEF Deployed
    <2>2. \A e \in Deploys : HasRow(e) => e \in Deployed
      BY DEF Deployed
    <2>3. QED
      BY <2>1, <2>2, Zenon
  <1>2. OwnTokenAndPort'
    <2>1. SUFFICES ASSUME ~crowded', NEW x \in Deployed'
                   PROVE  /\ bots'[x].token = x
                          /\ x \in targets'
                          /\ ~bots'[x].vm => /\ bots'[x].port \notin otherPorts'
                                             /\ \A y \in Deployed' \ {x} :
                                                 bots'[y].vm \/ bots'[y].port # bots'[x].port
      BY Zenon DEF OwnTokenAndPort
    <2>2. /\ bots[x].token = x /\ x \in targets
          /\ ~bots[x].vm => /\ bots[x].port \notin otherPorts
                            /\ \A y \in Deployed \ {x} : bots[y].vm \/ bots[y].port # bots[x].port
      BY <1>1, <2>1, Zenon DEF OwnTokenAndPort
    <2>3. QED
      BY <1>1, <2>1, <2>2, Zenon
  <1>3. UsedPorts' \subseteq UsedPorts
    BY <1>1 DEF UsedPorts
  <1>4. QED
    BY <1>2, <1>3

\* A step of one call that writes no row, target or template and makes the call
\* neither enter nor continue its window.
LEMMA OneMoves ==
  ASSUME BoardInv, ObTypeOK', NEW d \in Deploys, NEW r \in Calls,
         deploy' = [deploy EXCEPT ![d] = r],
         UNCHANGED <<bots, targets, otherPorts, sharedToken>>, crowded' = crowded,
         r.pc \notin {"ports", "target", "row"},
         r.cleans # NoDeploy <=> r.pc \in CleanPcs,
         Past(d) => r.pc \in {"channels", "reconcile", "over"} \/ r.cleans = d,
         r.cleans # NoDeploy => r.cleans \in {deploy[d].cleans, d} \/ Past(r.cleans),
         r.pc = "unlink" => ~HasRow(r.cleans)
  PROVE  BoardInv'
  <1>1. \A e \in Deploys : HasRow(e)' = HasRow(e)
    BY DEF HasRow
  <1>2. /\ Cleaners' /\ \A e \in Deploys : Past(e) => Past(e)'
        /\ deploy'[d] = r /\ \A e \in Deploys : e # d => deploy'[e] = deploy[e]
    <2>1. ObTypeOK /\ Cleaners
      BY DEF BoardInv
    <2>2. r.pc = "unlink" => ~HasRow(r.cleans)'
      BY DEF HasRow
    <2>3. QED
      BY <1>1, <2>1, <2>2, CleanersStep
  <1>3. Made'
    BY <1>1, <1>2 DEF BoardInv, Made
  <1>4. UsedPorts' = UsedPorts /\ Deployed' = Deployed
    BY DEF UsedPorts, Deployed, HasRow
  <1>5. Window'
    BY <1>2, <1>4 DEF BoardInv, Window, InWindow
  <1>6. OwnTokenAndPort'
    BY <1>4 DEF BoardInv, OwnTokenAndPort
  <1>7. QED
    BY <1>2, <1>3, <1>5, <1>6 DEF BoardInv

\* A call goes on.
LEMMA DeployTypes ==
  ASSUME ObTypeOK, NEW d \in Deploys, NEW pc \in DeployPcs
  PROVE  /\ Goes(d, pc) => deploy' \in [Deploys -> Calls]
         /\ \A cleans \in Deploys \cup {NoDeploy} :
              deploy' = [deploy EXCEPT ![d].pc = pc, ![d].cleans = cleans] => deploy' \in [Deploys -> Calls]
         /\ \A port \in 0..LastPort :
              deploy' = [deploy EXCEPT ![d].pc = pc, ![d].port = port] => deploy' \in [Deploys -> Calls]
  <1>1. deploy \in [Deploys -> Calls]
    BY DEF ObTypeOK, Calls
  <1>2. [deploy[d] EXCEPT !.pc = pc] \in Calls
    BY <1>1 DEF Calls
  <1>3. \A cleans \in Deploys \cup {NoDeploy} : [deploy[d] EXCEPT !.pc = pc, !.cleans = cleans] \in Calls
    BY <1>1 DEF Calls
  <1>4. \A port \in 0..LastPort : [deploy[d] EXCEPT !.pc = pc, !.port = port] \in Calls
    BY <1>1 DEF Calls
  <1>5. QED
    BY <1>1, <1>2, <1>3, <1>4 DEF Goes

\* A row changes its status.
LEMMA RowTypes ==
  ASSUME ObTypeOK, NEW d \in Deploys, HasRow(d), NEW status \in {"RUNNING", "ERROR"}, NEW old \in BOOLEAN
  PROVE  /\ bots[d] \in Row
         /\ [bots[d] EXCEPT !.status = status, !.old = old] \in Row
         /\ [bots[d] EXCEPT !.old = old] \in Row
  <1>1. bots[d] \in Row
    BY DEF ObTypeOK, HasRow
  <1>2. QED
    BY <1>1 DEF Row

\* The types, one variable at a time.
LEMMA ObTypesOne ==
  ASSUME deploy' \in [Deploys -> Calls], bots' \in [Deploys -> Row \cup {NoBot}],
         targets' \subseteq Deploys, channels' \subseteq BotNames \X Wanted,
         otherPorts' \subseteq 0..LastPort, sharedToken' \in Deploys \cup {NoDeploy},
         obFaults' \in 0..ObFaults, crowded' \in BOOLEAN, tangled' \in BOOLEAN
  PROVE  ObTypeOK'
  BY DEF ObTypeOK, Calls

\* The history flags; a matter for Zenon.
LEMMA ObFlags == ASSUME ObTypeOK, [ObNext]_obVars PROVE crowded' \in BOOLEAN /\ tangled' \in BOOLEAN
  <1>0. crowded \in BOOLEAN /\ tangled \in BOOLEAN
    BY DEF ObTypeOK
  <1>1. CASE UNCHANGED <<crowded, tangled>>
    BY <1>0, <1>1, Zenon
  <1>2. ASSUME NEW d \in Deploys, NEW name \in BotNames, NEW vm \in BOOLEAN, Deploy(d, name, vm)
        PROVE  crowded' \in BOOLEAN /\ tangled' \in BOOLEAN
    BY <1>0, <1>2, Zenon DEF Deploy
  <1>3. ASSUME NEW d \in Deploys, Configure(d)
        PROVE  crowded' \in BOOLEAN /\ tangled' \in BOOLEAN
    BY <1>0, <1>3, Zenon DEF Configure
  <1>4. ASSUME ~UNCHANGED <<crowded, tangled>>
        PROVE  \E d \in Deploys : \/ \E name \in BotNames, vm \in BOOLEAN : Deploy(d, name, vm)
                                 \/ Configure(d)
    <2>1. ~UNCHANGED obVars
      BY <1>4, Zenon DEF obVars
    <2>2. ~ObCrash
      BY <1>4, Zenon DEF ObCrash
    <2>3. ASSUME NEW d \in Deploys
          PROVE  /\ ~NameIsFree(d) /\ ~ReplaceFailed(d) /\ ~NameIsTaken(d) /\ ~AllocateGatewayPort(d)
                 /\ ~NoPortLeft(d) /\ ~CreateTarget(d) /\ ~CreateBot(d) /\ ~UpsertChannel(d)
                 /\ ~ReconcileSucceeds(d) /\ ~ReconcileFails(d) /\ ~FindById(d)
                 /\ ~DeleteChannelsByNamePrefix(d) /\ ~DeleteBot(d) /\ ~DeleteTarget(d)
                 /\ ~Ages(d) /\ ~Breaks(d) /\ ~ObFails(d)
      BY <1>4, Zenon DEF NameIsFree, ReplaceFailed, NameIsTaken, AllocateGatewayPort, NoPortLeft,
           CreateTarget, CreateBot, UpsertChannel, ReconcileSucceeds, ReconcileFails, FindById,
           DeleteChannelsByNamePrefix, DeleteBot, DeleteTarget, Ages, Breaks, ObFails
    <2>4. QED
      BY <2>1, <2>2, <2>3, Zenon DEF ObNext
  <1>5. QED
    BY <1>1, <1>2, <1>3, <1>4, Zenon

LEMMA ObTypesInv == ASSUME ObTypeOK, [ObNext]_obVars PROVE ObTypeOK'
  <1> USE ObAssumption
  <1>0. deploy \in [Deploys -> Calls] /\ bots \in [Deploys -> Row \cup {NoBot}]
    BY DEF ObTypeOK, Calls
  <1>t. /\ targets \subseteq Deploys /\ channels \subseteq BotNames \X Wanted
        /\ otherPorts \subseteq 0..LastPort /\ sharedToken \in Deploys \cup {NoDeploy}
        /\ obFaults \in 0..ObFaults
    BY DEF ObTypeOK, Calls
  <1>f. crowded' \in BOOLEAN /\ tangled' \in BOOLEAN
    BY ObFlags
  <1>1. CASE UNCHANGED obVars
    BY <1>1 DEF ObTypeOK, obVars
  <1>2. CASE ObCrash
    <2>1. deploy' \in [Deploys -> Calls]
      BY <1>0, <1>2, ZenonT(30) DEF ObCrash, Calls, DeployPcs
    <2>2. UNCHANGED <<bots, targets, channels, otherPorts>> /\ sharedToken' = NoDeploy
      BY <1>2, Zenon DEF ObCrash
    <2>3. obFaults > 0 /\ obFaults' = obFaults - 1
      BY <1>2, Zenon DEF ObCrash
    <2>4. /\ bots' \in [Deploys -> Row \cup {NoBot}] /\ targets' \subseteq Deploys
          /\ channels' \subseteq BotNames \X Wanted /\ otherPorts' \subseteq 0..LastPort
          /\ sharedToken' \in Deploys \cup {NoDeploy} /\ obFaults' \in 0..ObFaults
      BY <1>0, <1>t, <2>2, <2>3
    <2>5. QED
      BY <1>f, <2>1, <2>4, ObTypesOne, Zenon
  <1>3. ASSUME NEW d \in Deploys,
               \/ NameIsFree(d) \/ NameIsTaken(d) \/ NoPortLeft(d) \/ CreateTarget(d)
               \/ FindById(d) \/ DeleteChannelsByNamePrefix(d)
        PROVE  ObTypeOK'
    <2>1. \E pc \in DeployPcs : Goes(d, pc)
      BY <1>3 DEF NameIsFree, NameIsTaken, NoPortLeft, CreateTarget, FindById,
                  DeleteChannelsByNamePrefix, DeployPcs
    <2>2. deploy' \in [Deploys -> Calls]
      BY <2>1, DeployTypes
    <2>3. /\ bots' \in [Deploys -> Row \cup {NoBot}] /\ targets' \subseteq Deploys
          /\ channels' \subseteq BotNames \X Wanted /\ otherPorts' \subseteq 0..LastPort
          /\ sharedToken' \in Deploys \cup {NoDeploy} /\ obFaults' \in 0..ObFaults
      BY <1>0, <1>t, <1>3, <2>2
      DEF NameIsFree, NameIsTaken, NoPortLeft, CreateTarget, FindById, DeleteChannelsByNamePrefix
    <2>4. QED
      BY <1>f, <2>2, <2>3, ObTypesOne, Zenon
  <1>4. ASSUME NEW d \in Deploys, NEW name \in BotNames, NEW vm \in BOOLEAN, Deploy(d, name, vm)
        PROVE  ObTypeOK'
    <2>1. [pc |-> "search", name |-> name, vm |-> vm, port |-> 0, cleans |-> NoDeploy] \in Calls
      BY DEF Calls, DeployPcs
    <2>2. deploy' \in [Deploys -> Calls]
      BY <1>0, <1>4, <2>1 DEF Deploy
    <2>3. tangled' \in BOOLEAN
      BY <1>4 DEF Deploy, ObTypeOK
    <2>4. /\ bots' \in [Deploys -> Row \cup {NoBot}] /\ targets' \subseteq Deploys
          /\ channels' \subseteq BotNames \X Wanted /\ otherPorts' \subseteq 0..LastPort
          /\ sharedToken' \in Deploys \cup {NoDeploy} /\ obFaults' \in 0..ObFaults
      BY <1>0, <1>t, <1>4, <2>2, <2>3 DEF Deploy
    <2>5. QED
      BY <1>f, <2>2, <2>3, <2>4, ObTypesOne, Zenon
  <1>5. ASSUME NEW d \in Deploys, ReplaceFailed(d) PROVE ObTypeOK'
    <2>1. PICK e \in Deploys : Cleans(d, e)
      BY <1>5 DEF ReplaceFailed, WithName, Deployed
    <2>2. deploy' \in [Deploys -> Calls]
      BY <2>1, DeployTypes DEF Cleans, DeployPcs
    <2>3. /\ bots' \in [Deploys -> Row \cup {NoBot}] /\ targets' \subseteq Deploys
          /\ channels' \subseteq BotNames \X Wanted /\ otherPorts' \subseteq 0..LastPort
          /\ sharedToken' \in Deploys \cup {NoDeploy} /\ obFaults' \in 0..ObFaults
      BY <1>0, <1>t, <1>5, <2>2 DEF ReplaceFailed
    <2>4. QED
      BY <1>f, <2>2, <2>3, ObTypesOne, Zenon
  <1>6. ASSUME NEW d \in Deploys, Configure(d) PROVE ObTypeOK'
    <2>1. deploy' \in [Deploys -> Calls]
      BY <1>6, DeployTypes DEF Configure, DeployPcs
    <2>2. crowded' \in BOOLEAN
      BY <1>6 DEF Configure, ObTypeOK
    <2>3. /\ bots' \in [Deploys -> Row \cup {NoBot}] /\ targets' \subseteq Deploys
          /\ channels' \subseteq BotNames \X Wanted /\ otherPorts' \subseteq 0..LastPort
          /\ sharedToken' \in Deploys \cup {NoDeploy} /\ obFaults' \in 0..ObFaults
      BY <1>0, <1>t, <1>6, <2>1, <2>2 DEF Configure
    <2>4. QED
      BY <1>f, <2>1, <2>2, <2>3, ObTypesOne, Zenon
  <1>7. ASSUME NEW d \in Deploys, AllocateGatewayPort(d) PROVE ObTypeOK'
    <2>1. \E port \in 0..LastPort : deploy' = [deploy EXCEPT ![d].pc = "target", ![d].port = port]
      <3>1. PICK p \in 0..LastPort : deploy' = [deploy EXCEPT ![d].pc = "target",
                                                    ![d].port = IF deploy[d].vm THEN 0 ELSE p]
        BY <1>7, Zenon DEF AllocateGatewayPort
      <3>2. (IF deploy[d].vm THEN 0 ELSE p) \in 0..LastPort
        BY ObAssumption
      <3>3. QED
        BY <3>1, <3>2, Zenon
    <2>2. deploy' \in [Deploys -> Calls]
      BY <2>1, DeployTypes DEF DeployPcs
    <2>3. /\ bots' \in [Deploys -> Row \cup {NoBot}] /\ targets' \subseteq Deploys
          /\ channels' \subseteq BotNames \X Wanted /\ otherPorts' \subseteq 0..LastPort
          /\ sharedToken' \in Deploys \cup {NoDeploy} /\ obFaults' \in 0..ObFaults
      BY <1>0, <1>t, <1>7, <2>2 DEF AllocateGatewayPort
    <2>4. QED
      BY <1>f, <2>2, <2>3, ObTypesOne, Zenon
  <1>8. ASSUME NEW d \in Deploys, CreateBot(d) PROVE ObTypeOK'
    <2>1. \E pc \in DeployPcs : Goes(d, pc)
      BY <1>8 DEF CreateBot, DeployPcs
    <2>2. deploy' \in [Deploys -> Calls]
      BY <2>1, DeployTypes
    <2>3. [name |-> deploy[d].name, vm |-> deploy[d].vm, status |-> "CREATING", old |-> FALSE,
           port |-> deploy[d].port, token |-> sharedToken] \in Row
      BY <1>0 DEF ObTypeOK, Calls, Row
    <2>4. bots' \in [Deploys -> Row \cup {NoBot}]
      BY <1>0, <1>8, <2>3 DEF CreateBot
    <2>5. /\ bots' \in [Deploys -> Row \cup {NoBot}] /\ targets' \subseteq Deploys
          /\ channels' \subseteq BotNames \X Wanted /\ otherPorts' \subseteq 0..LastPort
          /\ sharedToken' \in Deploys \cup {NoDeploy} /\ obFaults' \in 0..ObFaults
      BY <1>0, <1>t, <1>8, <2>2, <2>4 DEF CreateBot
    <2>6. QED
      BY <1>f, <2>2, <2>4, <2>5, ObTypesOne, Zenon
  <1>9. ASSUME NEW d \in Deploys, UpsertChannel(d) PROVE ObTypeOK'
    <2>1. deploy' = deploy \/ Goes(d, "reconcile")
      BY <1>9 DEF UpsertChannel, Goes
    <2>2. deploy' \in [Deploys -> Calls]
      BY <1>0, <2>1, DeployTypes DEF DeployPcs
    <2>3. Asked(d) \subseteq BotNames \X Wanted
      BY <1>0 DEF Asked, Calls
    <2>4. channels' \subseteq BotNames \X Wanted
      BY <1>9, <2>3 DEF UpsertChannel, ObTypeOK
    <2>5. /\ bots' \in [Deploys -> Row \cup {NoBot}] /\ targets' \subseteq Deploys
          /\ channels' \subseteq BotNames \X Wanted /\ otherPorts' \subseteq 0..LastPort
          /\ sharedToken' \in Deploys \cup {NoDeploy} /\ obFaults' \in 0..ObFaults
      BY <1>0, <1>t, <1>9, <2>2, <2>4 DEF UpsertChannel
    <2>6. QED
      BY <1>f, <2>2, <2>4, <2>5, ObTypesOne, Zenon
  <1>10. ASSUME NEW d \in Deploys, ReconcileSucceeds(d) \/ ReconcileFails(d) PROVE ObTypeOK'
    <2>1. Goes(d, "over") \/ deploy' = [deploy EXCEPT ![d].pc = "related", ![d].cleans = d]
      BY <1>10 DEF ReconcileSucceeds, ReconcileFails, Cleans
    <2>2. deploy' \in [Deploys -> Calls]
      BY <2>1, DeployTypes DEF DeployPcs
    <2>3. \/ bots' = bots
          \/ HasRow(d) /\ bots' = [bots EXCEPT ![d] = [bots[d] EXCEPT !.status = "RUNNING", !.old = FALSE]]
          \/ HasRow(d) /\ bots' = [bots EXCEPT ![d] = [bots[d] EXCEPT !.status = "ERROR", !.old = FALSE]]
      BY <1>10 DEF ReconcileSucceeds, ReconcileFails
    <2>4. bots' \in [Deploys -> Row \cup {NoBot}]
      BY <1>0, <2>3, RowTypes
    <2>5. /\ bots' \in [Deploys -> Row \cup {NoBot}] /\ targets' \subseteq Deploys
          /\ channels' \subseteq BotNames \X Wanted /\ otherPorts' \subseteq 0..LastPort
          /\ sharedToken' \in Deploys \cup {NoDeploy} /\ obFaults' \in 0..ObFaults
      BY <1>0, <1>t, <1>10, <2>2, <2>4 DEF ReconcileSucceeds, ReconcileFails
    <2>6. QED
      BY <1>f, <2>2, <2>4, <2>5, ObTypesOne, Zenon
  <1>11. ASSUME NEW d \in Deploys, DeleteBot(d) \/ DeleteTarget(d) PROVE ObTypeOK'
    <2>1. Goes(d, "unlink") \/ Cleaned(d)
      BY <1>11 DEF DeleteBot, DeleteTarget
    <2>2. deploy' \in [Deploys -> Calls]
      BY <2>1, DeployTypes DEF DeployPcs, Cleaned
    <2>3. bots' \in [Deploys -> Row \cup {NoBot}]
      BY <1>0, <1>11 DEF DeleteBot, DeleteTarget
    <2>4. targets' \subseteq Deploys
      BY <1>11 DEF DeleteBot, DeleteTarget, ObTypeOK
    <2>5. /\ bots' \in [Deploys -> Row \cup {NoBot}] /\ targets' \subseteq Deploys
          /\ channels' \subseteq BotNames \X Wanted /\ otherPorts' \subseteq 0..LastPort
          /\ sharedToken' \in Deploys \cup {NoDeploy} /\ obFaults' \in 0..ObFaults
      BY <1>0, <1>t, <1>11, <2>2, <2>3, <2>4 DEF DeleteBot, DeleteTarget
    <2>6. QED
      BY <1>f, <2>2, <2>3, <2>4, <2>5, ObTypesOne, Zenon
  <1>12. ASSUME NEW d \in Deploys, Ages(d) \/ Breaks(d) PROVE ObTypeOK'
    <2>1. /\ HasRow(d)
          /\ \/ bots' = [bots EXCEPT ![d] = [bots[d] EXCEPT !.old = TRUE]]
             \/ bots' = [bots EXCEPT ![d] = [bots[d] EXCEPT !.status = "ERROR", !.old = FALSE]]
      BY <1>12 DEF Ages, Breaks
    <2>2. bots' \in [Deploys -> Row \cup {NoBot}]
      BY <1>0, <2>1, RowTypes
    <2>3. /\ bots' \in [Deploys -> Row \cup {NoBot}] /\ targets' \subseteq Deploys
          /\ channels' \subseteq BotNames \X Wanted /\ otherPorts' \subseteq 0..LastPort
          /\ sharedToken' \in Deploys \cup {NoDeploy} /\ obFaults' \in 0..ObFaults
      BY <1>0, <1>t, <1>12, <2>2 DEF Ages, Breaks
    <2>4. deploy' \in [Deploys -> Calls]
      BY <1>0, <1>12 DEF Ages, Breaks
    <2>5. QED
      BY <1>f, <2>3, <2>4, ObTypesOne, Zenon
  <1>13. ASSUME NEW d \in Deploys, ObFails(d) PROVE ObTypeOK'
    <2>1. Goes(d, "over") \/ Cleaned(d)
      BY <1>13 DEF ObFails
    <2>2. deploy' \in [Deploys -> Calls]
      BY <2>1, DeployTypes DEF DeployPcs, Cleaned
    <2>3. /\ bots' \in [Deploys -> Row \cup {NoBot}] /\ targets' \subseteq Deploys
          /\ channels' \subseteq BotNames \X Wanted /\ otherPorts' \subseteq 0..LastPort
          /\ sharedToken' \in Deploys \cup {NoDeploy} /\ obFaults' \in 0..ObFaults
      BY <1>0, <1>t, <1>13, <2>2 DEF ObFails
    <2>4. QED
      BY <1>f, <2>2, <2>3, ObTypesOne, Zenon
  <1>14. QED
    BY <1>1, <1>2, <1>3, <1>4, <1>5, <1>6, <1>7, <1>8, <1>9, <1>10, <1>11, <1>12, <1>13 DEF ObNext

\* One call goes on, or the clean-up it does ends.
LEMMA MovesOn ==
  ASSUME BoardInv, ObTypeOK', NEW d \in Deploys, NEW pc \in DeployPcs, Goes(d, pc),
         UNCHANGED <<bots, targets, otherPorts, sharedToken>>, crowded' = crowded,
         pc \notin {"ports", "target", "row"},
         deploy[d].pc \in CleanPcs <=> pc \in CleanPcs,
         Past(d) => pc \in {"channels", "reconcile", "over"} \/ deploy[d].cleans = d,
         pc = "unlink" => ~HasRow(deploy[d].cleans)
  PROVE  BoardInv'
  <1> DEFINE r == [deploy[d] EXCEPT !.pc = pc]
  <1>1. deploy[d] \in Calls
    BY DEF BoardInv, ObTypeOK, Calls
  <1>2. r \in Calls /\ r.pc = pc /\ r.cleans = deploy[d].cleans
    BY <1>1 DEF Calls
  <1>3. deploy' = [deploy EXCEPT ![d] = r]
    BY DEF Goes
  <1>4. r.cleans # NoDeploy <=> r.pc \in CleanPcs
    BY <1>2 DEF BoardInv, Cleaners
  <1> HIDE DEF r
  <1>5. QED
    BY <1>2, <1>3, <1>4, OneMoves

LEMMA CleanUpEnds ==
  ASSUME BoardInv, NEW d \in Deploys, Cleaned(d), deploy[d].cleans # NoDeploy
  PROVE  \E r \in Calls : /\ deploy' = [deploy EXCEPT ![d] = r]
                          /\ r.cleans = NoDeploy /\ r.pc \in {"over", "fleet"}
                          /\ Past(d) => r.pc = "over"
  <1> DEFINE r == [deploy[d] EXCEPT !.pc = IF deploy[d].cleans = d THEN "over" ELSE "fleet",
                                    !.cleans = NoDeploy]
  <1>1. deploy[d] \in Calls
    BY DEF BoardInv, ObTypeOK, Calls
  <1>2. /\ r \in Calls /\ r.cleans = NoDeploy
        /\ r.pc = IF deploy[d].cleans = d THEN "over" ELSE "fleet"
    BY <1>1 DEF Calls, DeployPcs
  <1>3. deploy' = [deploy EXCEPT ![d] = r]
    BY DEF Cleaned
  <1>4. Past(d) => deploy[d].cleans = d
    BY DEF Past, BoardInv, Cleaners, CleanPcs
  <1> HIDE DEF r
  <1>5. QED
    BY <1>2, <1>3, <1>4

\* The steps, one lemma for each.
LEMMA DeployKeeps ==
  ASSUME BoardInv, ObTypeOK', NEW d \in Deploys, NEW name \in BotNames, NEW vm \in BOOLEAN,
         Deploy(d, name, vm)
  PROVE  BoardInv'
  <1> DEFINE r == [pc |-> "search", name |-> name, vm |-> vm, port |-> 0, cleans |-> NoDeploy]
  <1>1. r \in Calls /\ r.pc = "search" /\ r.cleans = NoDeploy
    BY ObAssumption DEF Calls, DeployPcs
  <1>2. deploy' = [deploy EXCEPT ![d] = r] /\ deploy[d].pc = "none"
    BY DEF Deploy
  <1>3. UNCHANGED <<bots, targets, otherPorts, sharedToken>>
    BY DEF Deploy
  <1>4. crowded' = crowded
    BY Zenon DEF Deploy
  <1>5. ~Past(d)
    BY <1>2, ObAssumption DEF BoardInv, Cleaners, CleanPcs, Past
  <1> HIDE DEF r
  <1>6. QED
    BY <1>1, <1>2, <1>3, <1>4, <1>5, OneMoves DEF CleanPcs

LEMMA EarlyStepsKeep ==
  ASSUME BoardInv, ObTypeOK', NEW d \in Deploys, NameIsFree(d) \/ NameIsTaken(d) \/ NoPortLeft(d)
  PROVE  BoardInv'
  <1>1. /\ deploy[d].pc \in {"search", "ports"} /\ \E pc \in {"fleet", "over"} : Goes(d, pc)
        /\ UNCHANGED <<bots, targets, otherPorts, sharedToken>>
    BY DEF NameIsFree, NameIsTaken, NoPortLeft
  <1>2. crowded' = crowded
    BY Zenon DEF NameIsFree, NameIsTaken, NoPortLeft
  <1>3. deploy[d].pc \notin CleanPcs /\ ~Past(d)
    BY <1>1, ObAssumption DEF BoardInv, Cleaners, CleanPcs, Past
  <1>4. QED
    BY <1>1, <1>2, <1>3, MovesOn DEF CleanPcs, DeployPcs

LEMMA ReplaceFailedKeeps ==
  ASSUME BoardInv, ObTypeOK', NEW d \in Deploys, ReplaceFailed(d)
  PROVE  BoardInv'
  <1>1. PICK e \in Deploys : HasRow(e) /\ Cleans(d, e)
    BY DEF ReplaceFailed, WithName, Deployed
  <1> DEFINE r == [deploy[d] EXCEPT !.pc = "related", !.cleans = e]
  <1>2. deploy[d] \in Calls
    BY DEF BoardInv, ObTypeOK, Calls
  <1>3. r \in Calls /\ r.pc = "related" /\ r.cleans = e
    BY <1>2 DEF Calls, DeployPcs
  <1>4. deploy' = [deploy EXCEPT ![d] = r]
    BY <1>1 DEF Cleans
  <1>5. UNCHANGED <<bots, targets, otherPorts, sharedToken>> /\ deploy[d].pc = "search"
    BY DEF ReplaceFailed
  <1>6. crowded' = crowded
    BY Zenon DEF ReplaceFailed
  <1>7. Past(e) /\ ~Past(d)
    BY <1>1, <1>5, ObAssumption DEF BoardInv, Cleaners, CleanPcs, Made, Past
  <1> HIDE DEF r
  <1>8. QED
    BY <1>3, <1>4, <1>5, <1>6, <1>7, ObAssumption, OneMoves DEF CleanPcs

LEMMA ConfigureKeeps ==
  ASSUME BoardInv, ObTypeOK', NEW d \in Deploys, Configure(d)
  PROVE  BoardInv'
  <1> DEFINE r == [deploy[d] EXCEPT !.pc = "ports"]
  <1>1. deploy[d] \in Calls /\ deploy[d].pc = "fleet"
    BY DEF BoardInv, ObTypeOK, Calls, Configure
  <1>2. r \in Calls /\ r.pc = "ports" /\ r.cleans = deploy[d].cleans
    BY <1>1 DEF Calls, DeployPcs
  <1>3. deploy' = [deploy EXCEPT ![d] = r] /\ UNCHANGED <<bots, targets, otherPorts>> /\ sharedToken' = d
    BY DEF Configure, Goes
  <1>4. ~crowded' => ~crowded /\ \A e \in Deploys : ~InWindow(e)
    BY Zenon DEF Configure
  <1>5. deploy[d].cleans = NoDeploy /\ ~Past(d)
    BY <1>1, ObAssumption DEF BoardInv, Cleaners, CleanPcs, Past
  <1> HIDE DEF r
  <1>6. \A e \in Deploys : HasRow(e)' = HasRow(e)
    BY <1>3 DEF HasRow
  <1>7. /\ Cleaners' /\ \A e \in Deploys : Past(e) => Past(e)'
        /\ deploy'[d] = r /\ \A e \in Deploys : e # d => deploy'[e] = deploy[e]
    BY <1>2, <1>3, <1>5, <1>6, CleanersStep DEF BoardInv, CleanPcs
  <1>8. Made'
    BY <1>2, <1>3, <1>6, <1>7 DEF BoardInv, Made
  <1>9. Window'
    BY <1>2, <1>3, <1>4, <1>7 DEF BoardInv, Window, InWindow
  <1>10. OwnTokenAndPort'
    <2>1. \A e \in Deploys : HasRow(e)' => HasRow(e)
      BY <1>6
    <2>2. QED
      BY <1>3, <1>4, <2>1, RowsKept DEF BoardInv
  <1>11. QED
    BY <1>7, <1>8, <1>9, <1>10 DEF BoardInv

LEMMA AllocateKeeps ==
  ASSUME BoardInv, ObTypeOK', NEW d \in Deploys, AllocateGatewayPort(d)
  PROVE  BoardInv'
  <1>1. deploy[d] \in Calls /\ deploy[d].pc = "ports"
    BY DEF BoardInv, ObTypeOK, Calls, AllocateGatewayPort
  <1>2. PICK p \in 0..LastPort :
          /\ p \notin UsedPorts
          /\ deploy' = [deploy EXCEPT ![d].pc = "target", ![d].port = IF deploy[d].vm THEN 0 ELSE p]
    BY Zenon DEF AllocateGatewayPort, IsFirstFree
  <1> DEFINE q == IF deploy[d].vm THEN 0 ELSE p
             r == [deploy[d] EXCEPT !.pc = "target", !.port = q]
  <1>3. q \in 0..LastPort
    BY ObAssumption
  <1>4. ~deploy[d].vm => q \notin UsedPorts
    BY <1>2
  <1>5. deploy' = [deploy EXCEPT ![d] = r]
    BY <1>2
  <1> HIDE DEF q
  <1>6. r \in Calls /\ r.pc = "target" /\ r.cleans = deploy[d].cleans /\ r.port = q
    BY <1>1, <1>3 DEF Calls, DeployPcs
  <1>7. r.vm = deploy[d].vm
    BY <1>1 DEF Calls
  <1>8. UNCHANGED <<bots, targets, otherPorts, sharedToken>>
    BY DEF AllocateGatewayPort
  <1>9. crowded' = crowded
    BY Zenon DEF AllocateGatewayPort
  <1>10. deploy[d].cleans = NoDeploy /\ ~Past(d)
    BY <1>1, ObAssumption DEF BoardInv, Cleaners, CleanPcs, Past
  <1> HIDE DEF r
  <1>11. \A e \in Deploys : HasRow(e)' = HasRow(e)
    BY <1>8 DEF HasRow
  <1>12. /\ Cleaners' /\ \A e \in Deploys : Past(e) => Past(e)'
         /\ deploy'[d] = r /\ \A e \in Deploys : e # d => deploy'[e] = deploy[e]
    BY <1>5, <1>6, <1>10, <1>11, CleanersStep DEF BoardInv, CleanPcs
  <1>13. Made'
    BY <1>6, <1>8, <1>11, <1>12 DEF BoardInv, Made
  <1>14. UsedPorts' = UsedPorts /\ Deployed' = Deployed
    BY <1>8 DEF UsedPorts, Deployed, HasRow
  <1>15. Window'
    BY <1>1, <1>4, <1>6, <1>7, <1>8, <1>9, <1>12, <1>14 DEF BoardInv, Window, InWindow
  <1>16. OwnTokenAndPort'
    BY <1>8, <1>9, <1>14 DEF BoardInv, OwnTokenAndPort
  <1>17. QED
    BY <1>12, <1>13, <1>15, <1>16 DEF BoardInv

LEMMA CreateTargetKeeps ==
  ASSUME BoardInv, ObTypeOK', NEW d \in Deploys, CreateTarget(d)
  PROVE  BoardInv'
  <1> DEFINE r == [deploy[d] EXCEPT !.pc = "row"]
  <1>1. deploy[d] \in Calls /\ deploy[d].pc = "target"
    BY DEF BoardInv, ObTypeOK, Calls, CreateTarget
  <1>2. r \in Calls /\ r.pc = "row" /\ r.cleans = deploy[d].cleans /\ r.port = deploy[d].port
    BY <1>1 DEF Calls, DeployPcs
  <1>3. r.vm = deploy[d].vm
    BY <1>1 DEF Calls
  <1>4. /\ deploy' = [deploy EXCEPT ![d] = r] /\ UNCHANGED <<bots, otherPorts, sharedToken>>
        /\ targets' = targets \cup {d}
    BY DEF CreateTarget, Goes
  <1>5. crowded' = crowded
    BY Zenon DEF CreateTarget
  <1>6. deploy[d].cleans = NoDeploy /\ ~Past(d)
    BY <1>1, ObAssumption DEF BoardInv, Cleaners, CleanPcs, Past
  <1> HIDE DEF r
  <1>7. \A e \in Deploys : HasRow(e)' = HasRow(e)
    BY <1>4 DEF HasRow
  <1>8. /\ Cleaners' /\ \A e \in Deploys : Past(e) => Past(e)'
        /\ deploy'[d] = r /\ \A e \in Deploys : e # d => deploy'[e] = deploy[e]
    BY <1>2, <1>4, <1>6, <1>7, CleanersStep DEF BoardInv, CleanPcs
  <1>9. Made'
    BY <1>2, <1>4, <1>7, <1>8 DEF BoardInv, Made
  <1>10. UsedPorts' = UsedPorts
    BY <1>4 DEF UsedPorts, Deployed, HasRow
  <1>11. Window'
    BY <1>1, <1>2, <1>3, <1>4, <1>5, <1>8, <1>10 DEF BoardInv, Window, InWindow
  <1>12. OwnTokenAndPort'
    <2>1. \A e \in Deploys : HasRow(e)' => HasRow(e) /\ (e \in targets => e \in targets')
      BY <1>4, <1>7
    <2>2. QED
      BY <1>4, <1>5, <2>1, RowsKept DEF BoardInv
  <1>13. QED
    BY <1>8, <1>9, <1>11, <1>12 DEF BoardInv

LEMMA CreateBotKeeps ==
  ASSUME BoardInv, ObTypeOK', NEW d \in Deploys, CreateBot(d)
  PROVE  BoardInv'
  <1>1. deploy[d] \in Calls /\ deploy[d].pc = "row" /\ bots \in [Deploys -> Row \cup {NoBot}]
    BY DEF BoardInv, ObTypeOK, Calls, CreateBot
  <1>2. UNCHANGED <<targets, otherPorts, sharedToken>>
    BY DEF CreateBot
  <1>3. crowded' = crowded
    BY Zenon DEF CreateBot
  <1>4. deploy[d].cleans = NoDeploy /\ ~Past(d) /\ d \in targets
    BY <1>1, ObAssumption DEF BoardInv, Cleaners, CleanPcs, Past, Made
  <1>5. CASE Goes(d, "over") /\ UNCHANGED bots
    BY <1>1, <1>2, <1>3, <1>4, <1>5, MovesOn DEF CleanPcs, DeployPcs
  <1>6. ASSUME ~(Goes(d, "over") /\ UNCHANGED bots) PROVE BoardInv'
    <2> DEFINE r == [deploy[d] EXCEPT !.pc = "channels"]
               row == [name |-> deploy[d].name, vm |-> deploy[d].vm, status |-> "CREATING",
                       old |-> FALSE, port |-> deploy[d].port, token |-> sharedToken]
    <2>1. deploy' = [deploy EXCEPT ![d] = r] /\ bots' = [bots EXCEPT ![d] = row]
      BY <1>6 DEF CreateBot, Goes
    <2>2. r \in Calls /\ r.pc = "channels" /\ r.cleans = NoDeploy
      BY <1>1, <1>4 DEF Calls, DeployPcs
    <2>3. row.token = sharedToken /\ row.port = deploy[d].port
      OBVIOUS
    <2>4. row.vm = deploy[d].vm
      OBVIOUS
    <2> HIDE DEF r, row
    <2>5. bots'[d] = row /\ \A e \in Deploys : e # d => bots'[e] = bots[e]
      BY <1>1, <2>1
    <2>6. \A e \in Deploys : e # d => HasRow(e)' = HasRow(e)
      BY <2>5 DEF HasRow
    <2>7. /\ Cleaners' /\ \A e \in Deploys : Past(e) => Past(e)'
          /\ deploy'[d] = r /\ \A e \in Deploys : e # d => deploy'[e] = deploy[e]
      BY <1>4, <2>1, <2>2, <2>6, CleanersStep DEF BoardInv, CleanPcs
    <2>8. Past(d)'
      BY <2>2, <2>7 DEF Past
    <2>9. Made'
      BY <1>2, <1>4, <2>2, <2>6, <2>7, <2>8 DEF BoardInv, Made
    <2>10. Window'
      <3>1. ~crowded => \A e \in Deploys : ~InWindow(e)'
        BY <1>1, <2>2, <2>7 DEF BoardInv, Window, InWindow
      <3>2. QED
        BY <1>3, <3>1 DEF Window, InWindow
    <2>11. OwnTokenAndPort'
      <3>1. SUFFICES ASSUME ~crowded, NEW x \in Deployed'
                     PROVE  /\ bots'[x].token = x
                            /\ x \in targets'
                            /\ ~bots'[x].vm =>
                                 /\ bots'[x].port \notin otherPorts'
                                 /\ \A y \in Deployed' \ {x} : bots'[y].vm \/ bots'[y].port # bots'[x].port
        BY <1>3, Zenon DEF OwnTokenAndPort
      <3>2. sharedToken = d /\ (~deploy[d].vm => deploy[d].port \notin UsedPorts)
        BY <1>1, <3>1, Zenon DEF BoardInv, Window, InWindow
      <3>3. \A y \in Deployed' : y \in Deploys /\ (y # d => y \in Deployed)
        BY <2>6 DEF Deployed
      <3>4. \A y \in Deployed : bots[y].port \in UsedPorts
        BY DEF UsedPorts
      <3>5. otherPorts \subseteq UsedPorts
        BY DEF UsedPorts
      <3>6. \A y \in Deployed' : y # d =>
              /\ bots[y].token = y /\ y \in targets
              /\ ~bots[y].vm => bots[y].port \notin otherPorts
        BY <3>1, <3>3, Zenon DEF BoardInv, OwnTokenAndPort
      <3>7. \A y, z \in Deployed' : y # d /\ z # d /\ y # z /\ ~bots[y].vm =>
                                      bots[z].vm \/ bots[z].port # bots[y].port
        BY <3>1, <3>3, Zenon DEF BoardInv, OwnTokenAndPort
      <3>8. bots'[x].token = x /\ x \in targets'
        BY <1>2, <1>4, <2>3, <2>5, <3>2, <3>3, <3>6
      <3>9. ~bots'[x].vm => bots'[x].port \notin otherPorts'
        BY <1>2, <2>3, <2>4, <2>5, <3>2, <3>3, <3>5, <3>6, Zenon
      <3>10. ASSUME ~bots'[x].vm, NEW y \in Deployed', y # x
             PROVE  bots'[y].vm \/ bots'[y].port # bots'[x].port
        <4>1. CASE x = d
          BY <2>3, <2>4, <2>5, <3>2, <3>3, <3>4, <3>10, <4>1, Zenon
        <4>2. CASE y = d
          BY <2>3, <2>4, <2>5, <3>2, <3>3, <3>4, <3>10, <4>2, Zenon
        <4>3. CASE x # d /\ y # d
          BY <2>5, <3>3, <3>7, <3>10, <4>3, Zenon
        <4>4. QED
          BY <4>1, <4>2, <4>3
      <3>11. QED
        BY <3>8, <3>9, <3>10, Zenon
    <2>12. QED
      BY <2>7, <2>9, <2>10, <2>11 DEF BoardInv
  <1>7. QED
    BY <1>5, <1>6 DEF CreateBot

LEMMA UpsertKeeps ==
  ASSUME BoardInv, ObTypeOK', NEW d \in Deploys, UpsertChannel(d)
  PROVE  BoardInv'
  <1>1. deploy[d] \in Calls /\ deploy[d].pc = "channels" /\ deploy \in [Deploys -> Calls]
    BY DEF BoardInv, ObTypeOK, Calls, UpsertChannel
  <1>2. Goes(d, "reconcile") \/ Goes(d, "channels")
    <2>1. Goes(d, "reconcile") \/ deploy' = deploy
      BY DEF UpsertChannel, Goes
    <2>2. [deploy EXCEPT ![d].pc = "channels"] = deploy
      BY <1>1 DEF Calls
    <2>3. QED
      BY <2>1, <2>2 DEF Goes
  <1>3. UNCHANGED <<bots, targets, otherPorts, sharedToken>>
    BY DEF UpsertChannel
  <1>4. crowded' = crowded
    BY Zenon DEF UpsertChannel
  <1>5. QED
    BY <1>1, <1>2, <1>3, <1>4, MovesOn DEF CleanPcs, DeployPcs

LEMMA CleanUpKeeps ==
  ASSUME BoardInv, ObTypeOK', NEW d \in Deploys, FindById(d) \/ DeleteChannelsByNamePrefix(d)
  PROVE  BoardInv'
  <1>1. /\ deploy[d].pc \in {"related", "prefix"} /\ \E pc \in {"prefix", "bot"} : Goes(d, pc)
        /\ UNCHANGED <<bots, targets, otherPorts, sharedToken>>
    BY DEF FindById, DeleteChannelsByNamePrefix
  <1>2. crowded' = crowded
    BY Zenon DEF FindById, DeleteChannelsByNamePrefix
  <1>3. Past(d) => deploy[d].cleans = d
    BY <1>1 DEF Past
  <1>4. QED
    BY <1>1, <1>2, <1>3, MovesOn DEF CleanPcs, DeployPcs

\* The status of a row.
LEMMA StatusOnly ==
  ASSUME ObTypeOK, NEW d \in Deploys, HasRow(d), NEW status \in {"RUNNING", "ERROR"}, NEW old \in BOOLEAN,
         \/ bots' = [bots EXCEPT ![d] = [bots[d] EXCEPT !.status = status, !.old = old]]
         \/ bots' = [bots EXCEPT ![d] = [bots[d] EXCEPT !.old = old]]
  PROVE  \A e \in Deploys : /\ HasRow(e)' => HasRow(e)
                            /\ bots'[e].token = bots[e].token /\ bots'[e].port = bots[e].port
                            /\ bots'[e].vm = bots[e].vm
  <1>1. bots[d] \in Row /\ bots \in [Deploys -> Row \cup {NoBot}]
    BY DEF ObTypeOK, HasRow
  <1> DEFINE b == [bots[d] EXCEPT !.status = status, !.old = old]
             c == [bots[d] EXCEPT !.old = old]
  <1>2. /\ b.token = bots[d].token /\ b.port = bots[d].port
        /\ c.token = bots[d].token /\ c.port = bots[d].port
    BY <1>1 DEF Row
  <1>3. b.vm = bots[d].vm /\ c.vm = bots[d].vm
    BY <1>1 DEF Row
  <1> HIDE DEF b, c
  <1>4. /\ bots'[d] \in {b, c}
        /\ \A e \in Deploys : e # d => bots'[e] = bots[e]
    BY <1>1 DEF b, c
  <1>5. \A e \in Deploys : HasRow(e)' => HasRow(e)
    BY <1>4 DEF HasRow
  <1>6. \A e \in Deploys : bots'[e].token = bots[e].token /\ bots'[e].port = bots[e].port
    BY <1>2, <1>4
  <1>7. \A e \in Deploys : bots'[e].vm = bots[e].vm
    BY <1>3, <1>4
  <1>8. QED
    BY <1>5, <1>6, <1>7, Zenon

\* Rows that lose nothing but their status, while d moves on.
LEMMA ReconcileKeeps ==
  ASSUME BoardInv, ObTypeOK', NEW d \in Deploys, ReconcileSucceeds(d) \/ ReconcileFails(d)
  PROVE  BoardInv'
  <1>1. deploy[d] \in Calls /\ deploy[d].pc = "reconcile" /\ ObTypeOK
    BY DEF BoardInv, ObTypeOK, Calls, ReconcileSucceeds, ReconcileFails
  <1>2. UNCHANGED <<targets, otherPorts, sharedToken>>
    BY DEF ReconcileSucceeds, ReconcileFails
  <1>3. crowded' = crowded
    BY Zenon DEF ReconcileSucceeds, ReconcileFails
  <1>4. \A e \in Deploys : /\ HasRow(e)' => HasRow(e)
                           /\ bots'[e].token = bots[e].token /\ bots'[e].port = bots[e].port
                           /\ bots'[e].vm = bots[e].vm
    <2>1. CASE UNCHANGED bots
      BY <2>1 DEF HasRow
    <2>2. CASE ~UNCHANGED bots
      <3>1. /\ HasRow(d)
            /\ \E status \in {"RUNNING", "ERROR"} :
                 bots' = [bots EXCEPT ![d] = [bots[d] EXCEPT !.status = status, !.old = FALSE]]
        BY <2>2 DEF ReconcileSucceeds, ReconcileFails
      <3>2. QED
        BY <1>1, <3>1, StatusOnly
    <2>3. QED
      BY <2>1, <2>2
  <1>5. PICK r \in Calls : /\ deploy' = [deploy EXCEPT ![d] = r]
                           /\ \/ r.pc = "over" /\ r.cleans = NoDeploy
                              \/ r.pc = "related" /\ r.cleans = d
    <2>1. deploy[d].cleans = NoDeploy
      BY <1>1 DEF BoardInv, Cleaners, CleanPcs
    <2>2. CASE Goes(d, "over")
      <3> DEFINE q == [deploy[d] EXCEPT !.pc = "over"]
      <3>1. q \in Calls /\ q.pc = "over" /\ q.cleans = NoDeploy
        BY <1>1, <2>1 DEF Calls, DeployPcs
      <3>2. deploy' = [deploy EXCEPT ![d] = q]
        BY <2>2 DEF Goes
      <3> HIDE DEF q
      <3>3. QED
        BY <3>1, <3>2
    <2>3. CASE Cleans(d, d)
      <3>1. [deploy[d] EXCEPT !.pc = "related", !.cleans = d] \in Calls
        BY <1>1 DEF Calls, DeployPcs
      <3>2. QED
        BY <1>1, <2>3, <3>1 DEF Cleans, Calls
    <2>4. QED
      BY <2>2, <2>3 DEF ReconcileSucceeds, ReconcileFails
  <1>6. /\ Cleaners' /\ \A e \in Deploys : Past(e) => Past(e)'
        /\ deploy'[d] = r /\ \A e \in Deploys : e # d => deploy'[e] = deploy[e]
    BY <1>1, <1>4, <1>5, ObAssumption, CleanersStep DEF BoardInv, CleanPcs
  <1>7. Made'
    BY <1>2, <1>4, <1>5, <1>6 DEF BoardInv, Made
  <1>8. OwnTokenAndPort' /\ UsedPorts' \subseteq UsedPorts
    BY <1>2, <1>3, <1>4, RowsKept DEF BoardInv
  <1>9. Window'
    BY <1>2, <1>3, <1>5, <1>6, <1>8 DEF BoardInv, Window, InWindow
  <1>10. QED
    BY <1>6, <1>7, <1>8, <1>9 DEF BoardInv

LEMMA DeleteBotKeeps ==
  ASSUME BoardInv, ObTypeOK', NEW d \in Deploys, DeleteBot(d)
  PROVE  BoardInv'
  <1>1. /\ deploy[d] \in Calls /\ deploy[d].pc = "bot" /\ deploy[d].cleans # NoDeploy
        /\ deploy[d].cleans \in Deploys /\ bots \in [Deploys -> Row \cup {NoBot}]
    BY DEF BoardInv, ObTypeOK, Calls, DeleteBot, Cleaners, CleanPcs
  <1>2. UNCHANGED <<targets, otherPorts, sharedToken>>
    BY DEF DeleteBot
  <1>3. crowded' = crowded
    BY Zenon DEF DeleteBot
  <1>c. PICK c \in Deploys : c = deploy[d].cleans
    BY <1>1
  <1>4. CASE UNCHANGED bots /\ Cleaned(d)
    BY <1>1, <1>2, <1>3, <1>4, CleanUpEnds, OneMoves DEF CleanPcs
  <1>5. CASE bots' = [bots EXCEPT ![c] = NoBot] /\ Goes(d, "unlink")
    <2>1. PICK r \in Calls : r.pc = "unlink" /\ r.cleans = c /\ deploy' = [deploy EXCEPT ![d] = r]
      <3> DEFINE q == [deploy[d] EXCEPT !.pc = "unlink"]
      <3>1. q \in Calls /\ q.pc = "unlink" /\ q.cleans = c
        BY <1>1, <1>c DEF Calls, DeployPcs
      <3>2. deploy' = [deploy EXCEPT ![d] = q]
        BY <1>5 DEF Goes
      <3> HIDE DEF q
      <3>3. QED
        BY <3>1, <3>2
    <2>2. ~HasRow(c)'
      BY <1>1, <1>5 DEF HasRow
    <2>3. \A e \in Deploys : HasRow(e)' => HasRow(e)
      BY <1>1, <1>5 DEF HasRow
    <2>4. Past(d) => r.cleans = d
      BY <1>1, <1>c, <2>1 DEF Past
    <2>5. r.pc = "unlink" => ~HasRow(r.cleans)'
      BY <2>1, <2>2
    <2>6. /\ Cleaners' /\ \A e \in Deploys : Past(e) => Past(e)'
          /\ deploy'[d] = r /\ \A e \in Deploys : e # d => deploy'[e] = deploy[e]
      BY <1>1, <1>c, <2>1, <2>3, <2>4, <2>5, CleanersStep DEF BoardInv, CleanPcs
    <2>7. Made'
      BY <1>2, <2>1, <2>3, <2>6 DEF BoardInv, Made
    <2>8. \A e \in Deploys : HasRow(e)' => bots'[e] = bots[e]
      BY <1>1, <1>5 DEF HasRow
    <2>9. OwnTokenAndPort' /\ UsedPorts' \subseteq UsedPorts
      BY <1>2, <1>3, <2>3, <2>8, RowsKept DEF BoardInv
    <2>10. Window'
      BY <1>2, <1>3, <2>1, <2>6, <2>9 DEF BoardInv, Window, InWindow
    <2>11. QED
      BY <2>6, <2>7, <2>9, <2>10 DEF BoardInv
  <1>6. QED
    BY <1>c, <1>4, <1>5 DEF DeleteBot

LEMMA DeleteTargetKeeps ==
  ASSUME BoardInv, ObTypeOK', NEW d \in Deploys, DeleteTarget(d)
  PROVE  BoardInv'
  <1>1. /\ deploy[d].pc = "unlink" /\ deploy[d].cleans # NoDeploy /\ deploy[d].cleans \in Deploys
        /\ Past(deploy[d].cleans) /\ ~HasRow(deploy[d].cleans) /\ deploy[d] \in Calls
    BY DEF BoardInv, ObTypeOK, Calls, DeleteTarget, Cleaners, CleanPcs
  <1>2. UNCHANGED <<bots, otherPorts, sharedToken>> /\ targets' = targets \ {deploy[d].cleans}
    BY DEF DeleteTarget
  <1>3. crowded' = crowded
    BY Zenon DEF DeleteTarget
  <1>4. PICK r \in Calls : /\ deploy' = [deploy EXCEPT ![d] = r]
                           /\ r.cleans = NoDeploy /\ r.pc \in {"over", "fleet"}
                           /\ Past(d) => r.pc = "over"
    BY <1>1, CleanUpEnds DEF DeleteTarget
  <1>5. \A e \in Deploys : HasRow(e)' = HasRow(e)
    BY <1>2 DEF HasRow
  <1>6. /\ Cleaners' /\ \A e \in Deploys : Past(e) => Past(e)'
        /\ deploy'[d] = r /\ \A e \in Deploys : e # d => deploy'[e] = deploy[e]
    BY <1>4, <1>5, CleanersStep DEF BoardInv, CleanPcs
  <1>7. Made'
    <2>1. \A e \in Deploys : e # deploy[d].cleans => (e \in targets <=> e \in targets')
      BY <1>2
    <2>2. \A e \in Deploys : deploy[e].pc = "row" => ~Past(e)
      BY ObAssumption DEF Past, BoardInv, Cleaners, CleanPcs
    <2>3. \A e \in Deploys : deploy'[e].pc = "row" => deploy[e].pc = "row"
      BY <1>4, <1>6
    <2>4. QED
      BY <1>1, <1>5, <1>6, <2>1, <2>2, <2>3 DEF BoardInv, Made
  <1>8. UsedPorts' = UsedPorts
    BY <1>2 DEF UsedPorts, Deployed, HasRow
  <1>9. Window'
    BY <1>2, <1>3, <1>4, <1>6, <1>8 DEF BoardInv, Window, InWindow
  <1>10. OwnTokenAndPort'
    <2>1. \A e \in Deploys : HasRow(e)' =>
           HasRow(e) /\ bots'[e] = bots[e] /\ (e \in targets => e \in targets')
      BY <1>1, <1>2, <1>5
    <2>2. QED
      BY <1>2, <1>3, <2>1, RowsKept DEF BoardInv
  <1>11. QED
    BY <1>6, <1>7, <1>9, <1>10 DEF BoardInv

LEMMA WorldKeeps ==
  ASSUME BoardInv, ObTypeOK', NEW d \in Deploys, Ages(d) \/ Breaks(d)
  PROVE  BoardInv'
  <1>1. UNCHANGED <<deploy, targets, otherPorts, sharedToken>> /\ HasRow(d) /\ ObTypeOK
    BY DEF Ages, Breaks, BoardInv
  <1>2. crowded' = crowded
    BY Zenon DEF Ages, Breaks
  <1>3. \A e \in Deploys : /\ HasRow(e)' => HasRow(e)
                           /\ bots'[e].token = bots[e].token /\ bots'[e].port = bots[e].port
                           /\ bots'[e].vm = bots[e].vm
    <2>1. \/ bots' = [bots EXCEPT ![d] = [bots[d] EXCEPT !.status = "ERROR", !.old = FALSE]]
          \/ bots' = [bots EXCEPT ![d] = [bots[d] EXCEPT !.old = TRUE]]
      BY DEF Ages, Breaks
    <2>2. QED
      BY <1>1, <2>1, StatusOnly
  <1>4. OwnTokenAndPort' /\ UsedPorts' \subseteq UsedPorts
    BY <1>1, <1>2, <1>3, RowsKept DEF BoardInv
  <1>5. Cleaners'
    <2>1. \A e \in Deploys : deploy[e].pc = "unlink" => deploy[e].cleans \in Deploys
      BY DEF BoardInv, ObTypeOK, Cleaners, CleanPcs
    <2>2. \A e \in Deploys : deploy[e].pc = "unlink" => ~HasRow(deploy[e].cleans)'
      BY <1>1, <1>3, <2>1 DEF BoardInv, Cleaners
    <2>3. QED
      BY <1>1, <2>2 DEF BoardInv, Cleaners, Past
  <1>6. Made'
    BY <1>1, <1>3 DEF BoardInv, Made, Past
  <1>7. Window'
    BY <1>1, <1>2, <1>4 DEF BoardInv, Window, InWindow
  <1>8. QED
    BY <1>4, <1>5, <1>6, <1>7 DEF BoardInv

LEMMA FailKeeps ==
  ASSUME BoardInv, ObTypeOK', NEW d \in Deploys, ObFails(d)
  PROVE  BoardInv'
  <1>1. UNCHANGED <<bots, targets, otherPorts, sharedToken>> /\ deploy[d] \in Calls
    BY DEF ObFails, BoardInv, ObTypeOK, Calls
  <1>2. crowded' = crowded
    BY Zenon DEF ObFails
  <1>3. CASE deploy[d].cleans # NoDeploy /\ Cleaned(d)
    BY <1>1, <1>2, <1>3, CleanUpEnds, OneMoves DEF CleanPcs
  <1>4. CASE deploy[d].cleans = NoDeploy /\ Goes(d, "over")
    <2>1. deploy[d].pc \notin CleanPcs
      BY <1>4 DEF BoardInv, Cleaners
    <2>2. QED
      BY <1>1, <1>2, <1>4, <2>1, MovesOn DEF CleanPcs, DeployPcs
  <1>5. QED
    BY <1>3, <1>4 DEF ObFails

LEMMA CrashKeeps ==
  ASSUME BoardInv, ObTypeOK', ObCrash
  PROVE  BoardInv'
  <1>1. UNCHANGED <<bots, targets, otherPorts>> /\ deploy \in [Deploys -> Calls]
    BY DEF ObCrash, BoardInv, ObTypeOK, Calls
  <1>2. crowded' = crowded
    BY Zenon DEF ObCrash
  <1>3. \A e \in Deploys : deploy'[e].cleans = NoDeploy /\ deploy'[e].pc \in {"none", "over"}
                           /\ (deploy[e].pc = "over" => deploy'[e].pc = "over")
                           /\ (deploy'[e].pc = "none" => deploy[e].pc = "none")
    BY <1>1 DEF ObCrash, Rests, Calls, BoardInv, Cleaners, CleanPcs
  <1>4. \A e \in Deploys : HasRow(e)' = HasRow(e)
    BY <1>1 DEF HasRow
  <1>5. Cleaners'
    BY <1>3 DEF Cleaners, CleanPcs
  <1>6. Made'
    <2>1. \A e \in Deploys : Past(e) => deploy[e].pc # "none"
      BY ObAssumption DEF Past, BoardInv, Cleaners, CleanPcs
    <2>2. \A e \in Deploys : Past(e) => Past(e)'
      BY <1>3, <2>1 DEF Past
    <2>3. QED
      BY <1>1, <1>3, <1>4, <2>2 DEF BoardInv, Made
  <1>7. Window'
    BY <1>3 DEF Window, InWindow
  <1>8. OwnTokenAndPort'
    <2>1. \A e \in Deploys : HasRow(e)' =>
           HasRow(e) /\ bots'[e] = bots[e] /\ (e \in targets => e \in targets')
      BY <1>1, <1>4
    <2>2. QED
      BY <1>1, <1>2, <2>1, RowsKept DEF BoardInv
  <1>9. QED
    BY <1>5, <1>6, <1>7, <1>8 DEF BoardInv

LEMMA BoardStep == ASSUME BoardInv, [ObNext]_obVars PROVE BoardInv'
  <1>1. ObTypeOK'
    BY ObTypesInv DEF BoardInv
  <1>2. CASE UNCHANGED obVars
    BY <1>2 DEF obVars, BoardInv, ObTypeOK, Cleaners, Past, HasRow, Made, Window, InWindow, UsedPorts,
                Deployed, OwnTokenAndPort
  <1>3. CASE ObNext
    BY <1>1, <1>3, DeployKeeps, EarlyStepsKeep, ReplaceFailedKeeps, ConfigureKeeps, AllocateKeeps,
       CreateTargetKeeps, CreateBotKeeps, UpsertKeeps, ReconcileKeeps, CleanUpKeeps, DeleteBotKeeps,
       DeleteTargetKeeps, WorldKeeps, FailKeeps, CrashKeeps, Zenon DEF ObNext
  <1>4. QED
    BY <1>2, <1>3

\* Whatever fails, crashes, is cleaned up or deployed again: a bot whose call was
\* alone between configuration and row has its own token, target and port.
THEOREM BotsAreTheirOwn == ObSpec => []OwnTokenAndPort
  <1>1. BoardInv => OwnTokenAndPort
    BY DEF BoardInv
  <1>2. QED
    BY <1>1, BoardInvInit, BoardStep, PTL DEF ObSpec

-----------------------------------------------------------------------------
(* The clean-up takes all of a failed bot and nothing of another *)

Started(d) == deploy[d].pc # "none"
RowNames == \A d \in Deploys : HasRow(d) => bots[d].name = deploy[d].name

\* Calls of one name follow one another, and no name in use begins with another one.
Apart ==
  \A d, e \in Deploys :
    d # e /\ Started(d) /\ Started(e) /\ Related(deploy[d].name, deploy[e].name) =>
      deploy[d].name = deploy[e].name /\ (Rests(d) \/ Rests(e))

\* A name has one row.
OneRow ==
  \A d, e \in Deploys : HasRow(d) /\ HasRow(e) /\ deploy[d].name = deploy[e].name => d = e

\* What a call has found, made or is about to delete is there, as it took it to be.
AsFound(d) ==
  /\ deploy[d].pc \in {"fleet", "ports", "target", "row", "unlink"} =>
       \A e \in Deploys : HasRow(e) => deploy[e].name # deploy[d].name
  /\ deploy[d].pc \in {"channels", "reconcile"} => HasRow(d)
  /\ deploy[d].pc \in CleanPcs => deploy[deploy[d].cleans].name = deploy[d].name
  /\ deploy[d].pc \in {"related", "prefix", "bot"} => HasRow(deploy[d].cleans)
  /\ deploy[d].pc = "bot" => \A c \in channels : c[1] # deploy[d].name
AllAsFound == \A d \in Deploys : AsFound(d)

\* A target has a row, will have one, or is about to go.
HasUse(d) ==
  HasRow(d) \/ deploy[d].pc = "row" \/ \E e \in Deploys : deploy[e].cleans = d /\ deploy[e].pc = "unlink"
TargetsUsed == \A d \in targets : HasUse(d)

ChannelsUsed == \A c \in channels : \E d \in Deploys : HasRow(d) /\ deploy[d].name = c[1]

ChannelsThere ==
  \A d \in Deploys : HasRow(d) /\ deploy[d].pc \in {"reconcile", "over"} /\ ~IsCleaned(d) =>
                       Asked(d) \subseteq channels

TidyNow == Apart /\ OneRow /\ AllAsFound /\ TargetsUsed /\ ChannelsUsed /\ ChannelsThere
Tidy == obFaults = ObFaults /\ ~tangled => TidyNow
WholeInv == BoardInv /\ RowNames /\ Tidy

LEMMA StartedRows ==
  ASSUME BoardInv
  PROVE  /\ deploy \in [Deploys -> Calls]
         /\ \A d \in Deploys : HasRow(d) => Started(d)
         /\ \A d \in Deploys : deploy[d].cleans # NoDeploy =>
              deploy[d].cleans \in Deploys /\ Started(deploy[d].cleans) /\ deploy[d].pc \in CleanPcs
  <1>1. deploy \in [Deploys -> Calls]
    BY DEF BoardInv, ObTypeOK, Calls
  <1>2. \A d \in Deploys : Past(d) => Started(d)
    BY ObAssumption DEF Past, Started, BoardInv, Cleaners, CleanPcs
  <1>3. \A d \in Deploys : deploy[d].cleans \in Deploys \cup {NoDeploy}
    BY <1>1 DEF Calls
  <1>4. QED
    BY <1>1, <1>2, <1>3 DEF BoardInv, Made, Cleaners

\* A call at work is alone with its name.
LEMMA AloneWithName ==
  ASSUME Apart, NEW d \in Deploys, ~Rests(d), NEW e \in Deploys, e # d, Started(e)
  PROVE  /\ deploy[e].name = deploy[d].name => Rests(e)
         /\ <<deploy[e].name, deploy[d].name>> \in Longer => deploy[e].name = deploy[d].name /\ Rests(e)
  BY DEF Apart, Started, Rests, Related

\* A call goes on under its name.
LEMMA ApartKept ==
  ASSUME Apart, deploy \in [Deploys -> Calls], NEW d \in Deploys, Started(d), NEW r \in Calls,
         deploy' = [deploy EXCEPT ![d] = r], r.name = deploy[d].name,
         Rests(d) => r.pc \in {"none", "over"}
  PROVE  Apart'
  <1>1. \A e \in Deploys : deploy'[e].name = deploy[e].name
    OBVIOUS
  <1>2. \A e \in Deploys : Started(e)' => Started(e)
    BY DEF Started
  <1>3. \A e \in Deploys : Rests(e) => Rests(e)'
    BY DEF Rests
  <1>4. QED
    BY <1>1, <1>2, <1>3 DEF Apart, Related

\* A step of one call that makes and deletes nothing.
LEMMA StaysTidy ==
  ASSUME TidyNow, targets \subseteq Deploys, deploy \in [Deploys -> Calls],
         NEW d \in Deploys, Started(d), NEW r \in Calls,
         deploy' = [deploy EXCEPT ![d] = r], r.name = deploy[d].name,
         Rests(d) => r.pc \in {"none", "over"},
         \A e \in Deploys : HasRow(e)' <=> HasRow(e),
         \A e \in Deploys : deploy[e].cleans # NoDeploy => deploy[e].cleans \in Deploys,
         r.cleans # NoDeploy \/ r.pc \notin CleanPcs,
         UNCHANGED <<targets, channels>>,
         r.pc \in {"fleet", "ports", "target", "row", "unlink"} =>
           \A e \in Deploys : HasRow(e) => deploy[e].name # r.name,
         r.pc \in {"channels", "reconcile"} => HasRow(d),
         r.pc \in CleanPcs => deploy[r.cleans].name = r.name,
         r.pc \in {"related", "prefix", "bot"} => HasRow(r.cleans),
         r.pc = "bot" => \A c \in channels : c[1] # r.name,
         deploy[d].pc = "row" => r.pc = "row",
         deploy[d].pc = "unlink" => r.pc = "unlink" /\ r.cleans = deploy[d].cleans,
         r.cleans = deploy[d].cleans \/ deploy[d].cleans = NoDeploy,
         r.pc \in {"reconcile", "over"} /\ HasRow(d) =>
           deploy[d].pc \in {"reconcile", "over"} \/ Asked(d) \subseteq channels,
         \A e \in Deploys : deploy[e].pc \in CleanPcs => deploy[e].cleans # NoDeploy
  PROVE  TidyNow'
  <1>1. /\ deploy'[d] = r /\ \A e \in Deploys : e # d => deploy'[e] = deploy[e]
        /\ \A e \in Deploys : deploy'[e].name = deploy[e].name
    OBVIOUS
  <1>2. Apart'
    BY ApartKept DEF TidyNow
  <1>3. OneRow'
    BY <1>1 DEF TidyNow, OneRow
  <1>4. AllAsFound'
    <2>1. SUFFICES ASSUME NEW e \in Deploys PROVE AsFound(e)'
      BY DEF AllAsFound
    <2>2. AsFound(e)
      BY DEF TidyNow, AllAsFound
    <2>3. CASE e # d
      BY <1>1, <2>2, <2>3 DEF AsFound, CleanPcs
    <2>4. CASE e = d
      <3>1. r.pc \in CleanPcs => r.cleans \in Deploys
        BY DEF Calls
      <3>2. QED
        BY <1>1, <2>4, <3>1 DEF AsFound, CleanPcs
    <2>5. QED
      BY <2>3, <2>4
  <1>5. TargetsUsed'
    <2>1. SUFFICES ASSUME NEW x \in targets PROVE HasUse(x)'
      BY DEF TargetsUsed
    <2>2. HasUse(x)
      BY DEF TidyNow, TargetsUsed
    <2>3. CASE HasRow(x) \/ deploy[x].pc = "row"
      BY <1>1, <2>3 DEF HasUse
    <2>4. CASE \E e \in Deploys : deploy[e].cleans = x /\ deploy[e].pc = "unlink"
      <3>1. PICK e \in Deploys : deploy[e].cleans = x /\ deploy[e].pc = "unlink"
        BY <2>4
      <3>2. deploy'[e].cleans = x /\ deploy'[e].pc = "unlink"
        BY <1>1, <3>1
      <3>3. QED
        BY <3>2 DEF HasUse
    <2>5. QED
      BY <2>2, <2>3, <2>4 DEF HasUse
  <1>6. ChannelsUsed'
    BY <1>1 DEF TidyNow, ChannelsUsed
  <1>7. ChannelsThere'
    <2>1. SUFFICES ASSUME NEW x \in Deploys, HasRow(x)', deploy'[x].pc \in {"reconcile", "over"}, ~IsCleaned(x)'
                   PROVE  Asked(x)' \subseteq channels'
      BY DEF ChannelsThere
    <2>2. ~IsCleaned(x)
      BY <1>1, <2>1, ObAssumption DEF IsCleaned
    <2>3. HasRow(x) /\ Asked(x)' = Asked(x)
      BY <1>1, <2>1 DEF Asked
    <2>4. deploy[x].pc \in {"reconcile", "over"} \/ Asked(x) \subseteq channels
      BY <1>1, <2>1, <2>3
    <2>5. Asked(x) \subseteq channels
      BY <2>2, <2>3, <2>4 DEF TidyNow, ChannelsThere
    <2>6. QED
      BY <2>3, <2>5
  <1>8. QED
    BY <1>2, <1>3, <1>4, <1>5, <1>6, <1>7 DEF TidyNow

\* What a step may use while nothing failed and no names met.
Calm == WholeInv /\ ObTypeOK' /\ obFaults' = ObFaults /\ ~tangled'

LEMMA CalmBefore ==
  ASSUME Calm, [ObNext]_obVars
  PROVE  /\ TidyNow /\ BoardInv /\ RowNames /\ obFaults = ObFaults /\ ~tangled
         /\ targets \subseteq Deploys /\ deploy \in [Deploys -> Calls]
         /\ \A e \in Deploys : /\ deploy[e].cleans # NoDeploy => deploy[e].cleans \in Deploys
                               /\ deploy[e].pc \in CleanPcs <=> deploy[e].cleans # NoDeploy
  <1>1. obFaults \in Nat /\ obFaults <= ObFaults /\ obFaults' <= obFaults
    <2>1. obFaults \in 0..ObFaults /\ ObFaults \in Nat
      BY ObAssumption DEF Calm, WholeInv, BoardInv, ObTypeOK
    <2>2. obFaults' = obFaults \/ obFaults' = obFaults - 1
      BY DEF ObNext, obVars, Deploy, NameIsFree, ReplaceFailed, NameIsTaken, Configure, AllocateGatewayPort,
         NoPortLeft, CreateTarget, CreateBot, UpsertChannel, ReconcileSucceeds, ReconcileFails, FindById,
         DeleteChannelsByNamePrefix, DeleteBot, DeleteTarget, Ages, Breaks, ObFails, ObCrash
    <2>3. QED
      BY <2>1, <2>2
  <1>2. obFaults = ObFaults
    BY <1>1, ObAssumption DEF Calm
  <1>3. tangled => tangled'
    BY ZenonT(30) DEF ObNext, obVars, Deploy, NameIsFree, ReplaceFailed, NameIsTaken, Configure,
       AllocateGatewayPort,
       NoPortLeft, CreateTarget, CreateBot, UpsertChannel, ReconcileSucceeds, ReconcileFails, FindById,
       DeleteChannelsByNamePrefix, DeleteBot, DeleteTarget, Ages, Breaks, ObFails, ObCrash
  <1>4. QED
    BY <1>2, <1>3, StartedRows DEF Calm, WholeInv, Tidy, BoardInv, ObTypeOK, Cleaners

\* A step that only moves a call on.
LEMMA GoesTidily ==
  ASSUME TidyNow, BoardInv, NEW d \in Deploys, NEW pc \in DeployPcs, Goes(d, pc), ~Rests(d),
         UNCHANGED <<bots, targets, channels>>,
         deploy[d].pc \notin {"row", "unlink"}, pc # "bot" /\ pc # "unlink",
         deploy[d].pc \in CleanPcs <=> pc \in CleanPcs,
         pc \in {"fleet", "ports", "target", "row"} =>
           \/ \A e \in Deploys : HasRow(e) => deploy[e].name # deploy[d].name
           \/ deploy[d].pc \in {"fleet", "ports", "target"},
         pc \in {"channels", "reconcile"} => deploy[d].pc = "channels",
         pc \in {"related", "prefix"} => deploy[d].pc \in {"related", "prefix"},
         pc = "reconcile" => Asked(d) \subseteq channels,
         pc = "over" => ~HasRow(d)
  PROVE  TidyNow'
  <1> DEFINE r == [deploy[d] EXCEPT !.pc = pc]
  <1>1. deploy[d] \in Calls /\ deploy \in [Deploys -> Calls] /\ targets \subseteq Deploys
    BY DEF BoardInv, ObTypeOK, Calls
  <1>2. r \in Calls /\ r.pc = pc /\ r.cleans = deploy[d].cleans /\ r.name = deploy[d].name
    BY <1>1 DEF Calls
  <1>3. deploy' = [deploy EXCEPT ![d] = r]
    BY DEF Goes
  <1>4. Started(d) /\ AsFound(d)
    BY DEF Started, Rests, TidyNow, AllAsFound
  <1>5. \A e \in Deploys : HasRow(e)' <=> HasRow(e)
    BY DEF HasRow
  <1>6. /\ \A e \in Deploys : deploy[e].cleans # NoDeploy => deploy[e].cleans \in Deploys
        /\ \A e \in Deploys : deploy[e].pc \in CleanPcs <=> deploy[e].cleans # NoDeploy
    BY StartedRows DEF BoardInv, Cleaners
  <1> HIDE DEF r
  <1>7. r.cleans # NoDeploy \/ r.pc \notin CleanPcs
    BY <1>2, <1>6
  <1>8. r.pc \in {"fleet", "ports", "target", "row", "unlink"} =>
           \A e \in Deploys : HasRow(e) => deploy[e].name # r.name
    BY <1>2, <1>4 DEF AsFound
  <1>9. /\ r.pc \in {"channels", "reconcile"} => HasRow(d)
        /\ r.pc \in CleanPcs => deploy[r.cleans].name = r.name
        /\ r.pc \in {"related", "prefix", "bot"} => HasRow(r.cleans)
    BY <1>2, <1>4 DEF AsFound, CleanPcs
  <1>10. QED
    BY <1>1, <1>2, <1>3, <1>4, <1>5, <1>6, <1>7, <1>8, <1>9, StaysTidy DEF Rests

LEMMA NameIsFreeTidy ==
  ASSUME Calm, ObNext, NEW d \in Deploys, NameIsFree(d) \/ NameIsTaken(d) PROVE TidyNow'
  <1>1. TidyNow /\ BoardInv /\ RowNames
    BY CalmBefore
  <1>2. deploy[d].pc = "search" /\ ~Rests(d) /\ UNCHANGED <<bots, targets, channels>>
    BY DEF NameIsFree, NameIsTaken, Rests
  <1>3. ~HasRow(d)
    BY <1>1, <1>2, ObAssumption DEF BoardInv, Made, Past, Cleaners, CleanPcs
  <1>4. CASE NameIsTaken(d)
    BY <1>1, <1>2, <1>3, <1>4, GoesTidily DEF NameIsTaken, DeployPcs, CleanPcs
  <1>5. CASE NameIsFree(d)
    <2>1. \A e \in WithName(deploy[d].name) : bots[e].name = deploy[d].name
      <3>1. SUFFICES ASSUME NEW e \in Deploys, HasRow(e), <<bots[e].name, deploy[d].name>> \in Longer
                     PROVE  bots[e].name = deploy[d].name
        BY DEF WithName, Deployed
      <3>2. bots[e].name = deploy[e].name /\ Started(e) /\ e # d
        BY <1>1, <1>3, <3>1, StartedRows DEF RowNames
      <3>3. QED
        BY <1>1, <1>2, <3>1, <3>2, AloneWithName DEF TidyNow
    <2>2. WithName(deploy[d].name) = {}
      BY <1>5, <2>1 DEF NameIsFree
    <2>3. \A e \in Deploys : HasRow(e) => deploy[e].name # deploy[d].name
      BY <1>1, <2>2 DEF WithName, Deployed, RowNames
    <2>4. QED
      BY <1>1, <1>2, <1>5, <2>3, GoesTidily DEF NameIsFree, DeployPcs, CleanPcs
  <1>6. QED
    BY <1>4, <1>5

LEMMA ReplaceFailedTidy ==
  ASSUME Calm, ObNext, NEW d \in Deploys, ReplaceFailed(d) PROVE TidyNow'
  <1>1. /\ TidyNow /\ BoardInv /\ RowNames /\ targets \subseteq Deploys /\ deploy \in [Deploys -> Calls]
        /\ \A e \in Deploys : /\ deploy[e].cleans # NoDeploy => deploy[e].cleans \in Deploys
                              /\ deploy[e].pc \in CleanPcs => deploy[e].cleans # NoDeploy
    BY CalmBefore
  <1>2. deploy[d].pc = "search" /\ UNCHANGED <<bots, targets, channels>>
    BY DEF ReplaceFailed
  <1>3. PICK e \in Deploys : HasRow(e) /\ bots[e].name = deploy[d].name /\ Cleans(d, e)
    BY DEF ReplaceFailed, WithName, Deployed
  <1> DEFINE r == [deploy[d] EXCEPT !.pc = "related", !.cleans = e]
  <1>4. r \in Calls /\ r.pc = "related" /\ r.cleans = e /\ r.name = deploy[d].name
    BY <1>1 DEF Calls, DeployPcs
  <1>5. deploy' = [deploy EXCEPT ![d] = r]
    BY <1>3 DEF Cleans
  <1>6. deploy[d].cleans = NoDeploy /\ deploy[e].name = deploy[d].name /\ e # NoDeploy
    BY <1>1, <1>2, <1>3, ObAssumption DEF RowNames, BoardInv, Cleaners, CleanPcs
  <1>7. \A x \in Deploys : HasRow(x)' <=> HasRow(x)
    BY <1>2 DEF HasRow
  <1>8. Started(d) /\ ~Rests(d)
    BY <1>2 DEF Started, Rests
  <1> HIDE DEF r
  <1>9. QED
    BY <1>1, <1>2, <1>3, <1>4, <1>5, <1>6, <1>7, <1>8, StaysTidy

LEMMA MiddleTidy ==
  ASSUME Calm, ObNext, NEW d \in Deploys,
         \/ Configure(d) \/ NoPortLeft(d) \/ FindById(d)
         \/ UpsertChannel(d) /\ UNCHANGED channels
  PROVE  TidyNow'
  <1>1. TidyNow /\ BoardInv
    BY CalmBefore
  <1>2. CASE Configure(d)
    BY <1>1, <1>2, GoesTidily DEF Configure, DeployPcs, CleanPcs, Rests
  <1>3. CASE NoPortLeft(d)
    <2>1. ~HasRow(d)
      BY <1>1, <1>3, ObAssumption DEF NoPortLeft, BoardInv, Made, Past, Cleaners, CleanPcs
    <2>2. QED
      BY <1>1, <1>3, <2>1, GoesTidily DEF NoPortLeft, DeployPcs, CleanPcs, Rests
  <1>4. CASE FindById(d)
    <2>1. HasRow(deploy[d].cleans)
      BY <1>1, <1>4 DEF FindById, TidyNow, AllAsFound, AsFound
    <2>2. deploy[d].pc = "related" /\ Goes(d, "prefix") /\ UNCHANGED <<bots, targets, channels>>
      BY <1>4, <2>1 DEF FindById
    <2>3. QED
      BY <1>1, <2>2, GoesTidily DEF DeployPcs, CleanPcs, Rests
  <1>5. CASE UpsertChannel(d) /\ UNCHANGED channels
    <2>1. Asked(d) \subseteq channels /\ Goes(d, "reconcile") /\ deploy[d].pc = "channels"
          /\ UNCHANGED <<bots, targets>>
      BY <1>5 DEF UpsertChannel
    <2>2. QED
      BY <1>1, <1>5, <2>1, GoesTidily DEF DeployPcs, CleanPcs, Rests
  <1>6. QED
    BY <1>2, <1>3, <1>4, <1>5

LEMMA AllocateTidy ==
  ASSUME Calm, ObNext, NEW d \in Deploys, AllocateGatewayPort(d) PROVE TidyNow'
  <1>1. /\ TidyNow /\ BoardInv /\ targets \subseteq Deploys /\ deploy \in [Deploys -> Calls]
        /\ \A e \in Deploys : /\ deploy[e].cleans # NoDeploy => deploy[e].cleans \in Deploys
                              /\ deploy[e].pc \in CleanPcs => deploy[e].cleans # NoDeploy
    BY CalmBefore
  <1>2. deploy[d].pc = "ports" /\ UNCHANGED <<bots, targets, channels>>
    BY DEF AllocateGatewayPort
  <1>3. PICK p \in 0..LastPort :
          deploy' = [deploy EXCEPT ![d].pc = "target", ![d].port = IF deploy[d].vm THEN 0 ELSE p]
    BY Zenon DEF AllocateGatewayPort
  <1> DEFINE q == IF deploy[d].vm THEN 0 ELSE p
             r == [deploy[d] EXCEPT !.pc = "target", !.port = q]
  <1>5. deploy' = [deploy EXCEPT ![d] = r]
    BY <1>3
  <1>10. q \in 0..LastPort
    BY ObAssumption
  <1> HIDE DEF q
  <1>4. r \in Calls /\ r.pc = "target" /\ r.cleans = deploy[d].cleans /\ r.name = deploy[d].name
    BY <1>1, <1>10 DEF Calls, DeployPcs
  <1>6. \A e \in Deploys : HasRow(e) => deploy[e].name # deploy[d].name
    BY <1>1, <1>2 DEF TidyNow, AllAsFound, AsFound
  <1>7. \A x \in Deploys : HasRow(x)' <=> HasRow(x)
    BY <1>2 DEF HasRow
  <1>8. Started(d) /\ ~Rests(d)
    BY <1>2 DEF Started, Rests
  <1> HIDE DEF r
  <1>9. r.pc \notin CleanPcs
    BY <1>4 DEF CleanPcs
  <1>11. QED
    BY <1>1, <1>2, <1>4, <1>5, <1>6, <1>7, <1>8, <1>9, StaysTidy

\* The status of a row.
LEMMA StatusKeepsRows ==
  ASSUME ObTypeOK, NEW d \in Deploys, HasRow(d), NEW status \in {"RUNNING", "ERROR"}, NEW old \in BOOLEAN,
         \/ bots' = [bots EXCEPT ![d] = [bots[d] EXCEPT !.status = status, !.old = old]]
         \/ bots' = [bots EXCEPT ![d] = [bots[d] EXCEPT !.old = old]]
  PROVE  \A e \in Deploys : (HasRow(e)' <=> HasRow(e)) /\ bots'[e].name = bots[e].name
  <1>1. bots[d] \in Row /\ bots \in [Deploys -> Row \cup {NoBot}]
    BY DEF ObTypeOK, HasRow
  <1> DEFINE b == [bots[d] EXCEPT !.status = status, !.old = old]
             c == [bots[d] EXCEPT !.old = old]
  <1>2. b.name = bots[d].name /\ c.name = bots[d].name
    BY <1>1 DEF Row
  <1>3. b # NoBot /\ c # NoBot
    BY <1>1 DEF Row, NoBot
  <1>4. /\ bots'[d] \in {b, c}
        /\ \A e \in Deploys : e # d => bots'[e] = bots[e]
    BY <1>1
  <1> HIDE DEF b, c
  <1>5. QED
    BY <1>2, <1>3, <1>4 DEF HasRow

LEMMA ReconcileTidy ==
  ASSUME Calm, ObNext, NEW d \in Deploys, ReconcileSucceeds(d) \/ ReconcileFails(d)
  PROVE  TidyNow' /\ \A e \in Deploys : (HasRow(e)' <=> HasRow(e)) /\ bots'[e].name = bots[e].name
  <1>1. /\ TidyNow /\ BoardInv /\ targets \subseteq Deploys /\ deploy \in [Deploys -> Calls]
        /\ \A e \in Deploys : /\ deploy[e].cleans # NoDeploy => deploy[e].cleans \in Deploys
                              /\ deploy[e].pc \in CleanPcs => deploy[e].cleans # NoDeploy
    BY CalmBefore
  <1>2. deploy[d].pc = "reconcile" /\ UNCHANGED <<targets, channels>> /\ deploy[d].cleans = NoDeploy
    BY <1>1 DEF ReconcileSucceeds, ReconcileFails, CleanPcs, BoardInv, Cleaners
  <1>3. HasRow(d) /\ Started(d) /\ ~Rests(d)
    BY <1>1, <1>2 DEF TidyNow, AllAsFound, AsFound, Started, Rests
  <1>4. \A e \in Deploys : (HasRow(e)' <=> HasRow(e)) /\ bots'[e].name = bots[e].name
    <2>1. \E status \in {"RUNNING", "ERROR"} :
            bots' = [bots EXCEPT ![d] = [bots[d] EXCEPT !.status = status, !.old = FALSE]]
      BY <1>3 DEF ReconcileSucceeds, ReconcileFails
    <2>2. ObTypeOK
      BY <1>1 DEF BoardInv
    <2>3. QED
      BY <1>3, <2>1, <2>2, StatusKeepsRows
  <1>5. PICK r \in Calls : /\ deploy' = [deploy EXCEPT ![d] = r] /\ r.name = deploy[d].name
                           /\ \/ r.pc = "over" /\ r.cleans = NoDeploy
                              \/ r.pc = "related" /\ r.cleans = d
    <2>1. CASE ReconcileSucceeds(d)
      <3> DEFINE r == [deploy[d] EXCEPT !.pc = "over"]
      <3>1. r \in Calls /\ r.name = deploy[d].name /\ r.pc = "over" /\ r.cleans = NoDeploy
        BY <1>1, <1>2 DEF Calls, DeployPcs
      <3>2. deploy' = [deploy EXCEPT ![d] = r]
        BY <2>1 DEF ReconcileSucceeds, Goes
      <3> HIDE DEF r
      <3>3. QED
        BY <3>1, <3>2
    <2>2. CASE ReconcileFails(d)
      <3> DEFINE r == [deploy[d] EXCEPT !.pc = "related", !.cleans = d]
      <3>1. r \in Calls /\ r.name = deploy[d].name /\ r.pc = "related" /\ r.cleans = d
        BY <1>1, <1>2 DEF Calls, DeployPcs
      <3>2. deploy' = [deploy EXCEPT ![d] = r]
        BY <2>2 DEF ReconcileFails, Cleans
      <3> HIDE DEF r
      <3>3. QED
        BY <3>1, <3>2
    <2>3. QED
      BY <2>1, <2>2
  <1>6. TidyNow'
    BY <1>1, <1>2, <1>3, <1>4, <1>5, ObAssumption, StaysTidy DEF CleanPcs
  <1>7. QED
    BY <1>4, <1>6

LEMMA WorldTidy ==
  ASSUME Calm, ObNext, NEW d \in Deploys, Ages(d) \/ Breaks(d)
  PROVE  TidyNow' /\ \A e \in Deploys : (HasRow(e)' <=> HasRow(e)) /\ bots'[e].name = bots[e].name
  <1>1. /\ TidyNow /\ BoardInv /\ targets \subseteq Deploys /\ deploy \in [Deploys -> Calls]
        /\ \A e \in Deploys : /\ deploy[e].cleans # NoDeploy => deploy[e].cleans \in Deploys
                              /\ deploy[e].pc \in CleanPcs => deploy[e].cleans # NoDeploy
    BY CalmBefore
  <1>2. HasRow(d) /\ UNCHANGED <<targets, channels, deploy>> /\ ObTypeOK
    BY <1>1 DEF Ages, Breaks, BoardInv
  <1>3. \A e \in Deploys : (HasRow(e)' <=> HasRow(e)) /\ bots'[e].name = bots[e].name
    <2>1. \/ bots' = [bots EXCEPT ![d] = [bots[d] EXCEPT !.status = "ERROR", !.old = FALSE]]
          \/ bots' = [bots EXCEPT ![d] = [bots[d] EXCEPT !.old = TRUE]]
      BY DEF Ages, Breaks
    <2>2. QED
      BY <1>2, <2>1, StatusKeepsRows
  <1>4. Started(d)
    BY <1>1, <1>2, StartedRows
  <1>5. deploy[d] \in Calls /\ deploy' = [deploy EXCEPT ![d] = deploy[d]]
    BY <1>1, <1>2
  <1>6. AsFound(d)
    BY <1>1 DEF TidyNow, AllAsFound
  <1>7. PICK r \in Calls : r = deploy[d]
    BY <1>5
  <1>9. /\ r.pc \in {"fleet", "ports", "target", "row", "unlink"} =>
             \A e \in Deploys : HasRow(e) => deploy[e].name # r.name
        /\ r.pc \in {"channels", "reconcile"} => HasRow(d)
        /\ r.pc \in CleanPcs => deploy[r.cleans].name = r.name
        /\ r.pc \in {"related", "prefix", "bot"} => HasRow(r.cleans)
        /\ r.pc = "bot" => \A c \in channels : c[1] # r.name
    BY <1>6, <1>7 DEF AsFound
  <1>10. /\ Rests(d) => r.pc \in {"none", "over"}
         /\ r.cleans # NoDeploy \/ r.pc \notin CleanPcs
         /\ deploy' = [deploy EXCEPT ![d] = r] /\ r.name = deploy[d].name
         /\ deploy[d].pc = "row" => r.pc = "row"
         /\ deploy[d].pc = "unlink" => r.pc = "unlink" /\ r.cleans = deploy[d].cleans
         /\ r.cleans = deploy[d].cleans
         /\ r.pc \in {"reconcile", "over"} => deploy[d].pc \in {"reconcile", "over"}
    BY <1>1, <1>5, <1>7 DEF Rests
  <1>11. TidyNow'
    BY <1>1, <1>2, <1>3, <1>4, <1>9, <1>10, StaysTidy
  <1>8. QED
    BY <1>3, <1>11

\* A step of d that leaves its name.  What follows is what a lemma on such a step assumes.
LEMMA OneChanged ==
  ASSUME deploy \in [Deploys -> Calls], NEW d \in Deploys, NEW r, r.name = deploy[d].name,
         deploy' = [deploy EXCEPT ![d] = r]
  PROVE  /\ deploy'[d] = r /\ \A e \in Deploys : e # d => deploy'[e] = deploy[e]
         /\ \A e \in Deploys : deploy'[e].name = deploy[e].name
  OBVIOUS

LEMMA DeployTidy ==
  ASSUME Calm, ObNext, NEW d \in Deploys, NEW name \in BotNames, NEW vm \in BOOLEAN, Deploy(d, name, vm)
  PROVE  TidyNow'
  <1>1. /\ TidyNow /\ BoardInv /\ targets \subseteq Deploys /\ deploy \in [Deploys -> Calls]
        /\ \A e \in Deploys : deploy[e].cleans # NoDeploy => deploy[e].cleans \in Deploys
        /\ \A e \in Deploys : deploy[e].pc \in CleanPcs <=> deploy[e].cleans # NoDeploy
    BY CalmBefore
  <1>2. PICK r : r = [pc |-> "search", name |-> name, vm |-> vm, port |-> 0, cleans |-> NoDeploy]
    OBVIOUS
  <1>3. /\ deploy'[d] = r /\ \A e \in Deploys : e # d => deploy'[e] = deploy[e]
        /\ r.pc = "search" /\ r.name = name /\ r.cleans = NoDeploy
        /\ deploy[d].pc = "none" /\ UNCHANGED <<bots, targets, channels>>
    BY <1>1, <1>2 DEF Deploy
  <1>4. \A e \in Deploys : HasRow(e) \/ (\E x \in Deploys : deploy[x].cleans = e) => e # d
    BY <1>1, <1>3, ObAssumption, StartedRows DEF Started
  <1>5. \A e \in Deploys : HasRow(e)' <=> HasRow(e)
    BY <1>3 DEF HasRow
  <1>6. \A e \in Deploys : Started(e) /\ Related(deploy[e].name, name) => deploy[e].name = name /\ Rests(e)
    <2>1. ~tangled'
      BY DEF Calm
    <2>2. QED
      BY <2>1, Zenon DEF Deploy, Started
  <1>7. Apart'
    <2>1. \A e \in Deploys : e # d => (Started(e)' <=> Started(e)) /\ (Rests(e)' <=> Rests(e))
      BY <1>3 DEF Started, Rests
    <2>2. \A e \in Deploys : Related(name, deploy[e].name) <=> Related(deploy[e].name, name)
      BY DEF Related
    <2>3. ASSUME NEW x \in Deploys, NEW y \in Deploys, x # y, Started(x)', Started(y)',
                 Related(deploy[x].name, deploy[y].name)'
          PROVE  deploy'[x].name = deploy'[y].name /\ (Rests(x)' \/ Rests(y)')
      <3>1. Related(deploy'[x].name, deploy'[y].name)
        BY <2>3 DEF Related
      <3>2. CASE x = d
        BY <1>3, <1>6, <2>1, <2>2, <2>3, <3>1, <3>2
      <3>3. CASE y = d
        BY <1>3, <1>6, <2>1, <2>2, <2>3, <3>1, <3>3
      <3>4. CASE x # d /\ y # d
        BY <1>1, <1>3, <2>1, <2>3, <3>1, <3>4 DEF TidyNow, Apart
      <3>5. QED
        BY <3>2, <3>3, <3>4
    <2>4. QED
      BY <2>3, Zenon DEF Apart
  <1>8. OneRow'
    BY <1>1, <1>3, <1>4, <1>5 DEF TidyNow, OneRow
  <1>9. AllAsFound'
    <2>1. SUFFICES ASSUME NEW e \in Deploys PROVE AsFound(e)'
      BY DEF AllAsFound
    <2>2. AsFound(e)
      BY <1>1 DEF TidyNow, AllAsFound
    <2>3. CASE e = d
      BY <1>3, <2>3 DEF AsFound, CleanPcs
    <2>4. CASE e # d
      <3>1. deploy[e].pc \in CleanPcs => deploy[e].cleans \in Deploys /\ deploy[e].cleans # d
        BY <1>1, <1>4
      <3>2. QED
        BY <1>3, <1>4, <1>5, <2>2, <2>4, <3>1 DEF AsFound, CleanPcs
    <2>5. QED
      BY <2>3, <2>4
  <1>10. TargetsUsed'
    <2>1. SUFFICES ASSUME NEW x \in targets PROVE HasUse(x)'
      BY <1>3 DEF TargetsUsed
    <2>2. HasUse(x) /\ x \in Deploys
      BY <1>1 DEF TidyNow, TargetsUsed
    <2>3. QED
      BY <1>3, <1>5, <2>2 DEF HasUse
  <1>11. ChannelsUsed'
    BY <1>1, <1>3, <1>4, <1>5 DEF TidyNow, ChannelsUsed
  <1>12. ChannelsThere'
    <2>1. SUFFICES ASSUME NEW x \in Deploys, HasRow(x)', deploy'[x].pc \in {"reconcile", "over"}, ~IsCleaned(x)'
                   PROVE  Asked(x)' \subseteq channels'
      BY DEF ChannelsThere
    <2>2. x # d /\ HasRow(x) /\ Asked(x)' = Asked(x)
      BY <1>3, <1>4, <1>5, <2>1 DEF Asked
    <2>3. ~IsCleaned(x)
      BY <1>1, <1>3, <2>1 DEF IsCleaned, CleanPcs
    <2>4. QED
      BY <1>1, <1>3, <2>1, <2>2, <2>3 DEF TidyNow, ChannelsThere
  <1>13. QED
    BY <1>7, <1>8, <1>9, <1>10, <1>11, <1>12 DEF TidyNow

LEMMA CreateTargetTidy ==
  ASSUME Calm, ObNext, NEW d \in Deploys, CreateTarget(d) PROVE TidyNow'
  <1>1. /\ TidyNow /\ deploy \in [Deploys -> Calls] /\ targets \subseteq Deploys
        /\ \A e \in Deploys : deploy[e].cleans # NoDeploy => deploy[e].cleans \in Deploys
        /\ \A e \in Deploys : deploy[e].pc \in CleanPcs => deploy[e].cleans # NoDeploy
    BY CalmBefore
  <1>2. PICK r \in Calls : /\ deploy' = [deploy EXCEPT ![d] = r] /\ r.pc = "row"
                           /\ r.name = deploy[d].name /\ r.cleans = deploy[d].cleans
    <2> DEFINE q == [deploy[d] EXCEPT !.pc = "row"]
    <2>1. q \in Calls /\ q.pc = "row" /\ q.name = deploy[d].name /\ q.cleans = deploy[d].cleans
      BY <1>1 DEF Calls, DeployPcs
    <2>2. deploy' = [deploy EXCEPT ![d] = q]
      BY DEF CreateTarget, Goes
    <2> HIDE DEF q
    <2>3. QED
      BY <2>1, <2>2
  <1>3. deploy[d].pc = "target" /\ targets' = targets \cup {d} /\ UNCHANGED <<bots, channels>>
    BY DEF CreateTarget
  <1>4. /\ deploy'[d] = r /\ \A e \in Deploys : e # d => deploy'[e] = deploy[e]
        /\ \A e \in Deploys : deploy'[e].name = deploy[e].name
    BY <1>1, <1>2, OneChanged
  <1>5. \A e \in Deploys : HasRow(e)' <=> HasRow(e)
    BY <1>3 DEF HasRow
  <1>6. Apart' /\ OneRow'
    <2>1. Apart'
      BY <1>1, <1>2, <1>3, ApartKept DEF TidyNow, Started, Rests
    <2>2. OneRow'
      BY <1>1, <1>4, <1>5 DEF TidyNow, OneRow
    <2>3. QED
      BY <2>1, <2>2
  <1>7. AllAsFound'
    <2>1. SUFFICES ASSUME NEW e \in Deploys PROVE AsFound(e)'
      BY DEF AllAsFound
    <2>2. AsFound(e) /\ AsFound(d)
      BY <1>1 DEF TidyNow, AllAsFound
    <2>3. CASE e = d
      BY <1>2, <1>3, <1>4, <1>5, <2>2, <2>3 DEF AsFound, CleanPcs
    <2>4. CASE e # d
      BY <1>1, <1>3, <1>4, <1>5, <2>2, <2>4 DEF AsFound, CleanPcs
    <2>5. QED
      BY <2>3, <2>4
  <1>8. TargetsUsed'
    <2>1. SUFFICES ASSUME NEW x \in targets \cup {d} PROVE HasUse(x)'
      BY <1>3 DEF TargetsUsed
    <2>2. CASE x = d
      BY <1>2, <1>4, <2>2 DEF HasUse
    <2>3. CASE x # d
      <3>1. HasUse(x) /\ x \in Deploys
        BY <1>1, <2>3 DEF TidyNow, TargetsUsed
      <3>2. QED
        BY <1>3, <1>4, <1>5, <2>3, <3>1 DEF HasUse
    <2>4. QED
      BY <2>2, <2>3
  <1>9. ChannelsUsed'
    BY <1>1, <1>3, <1>4, <1>5 DEF TidyNow, ChannelsUsed
  <1>10. ChannelsThere'
    <2>1. SUFFICES ASSUME NEW x \in Deploys, HasRow(x)', deploy'[x].pc \in {"reconcile", "over"}, ~IsCleaned(x)'
                   PROVE  Asked(x)' \subseteq channels'
      BY DEF ChannelsThere
    <2>2. x # d /\ HasRow(x) /\ Asked(x)' = Asked(x)
      BY <1>2, <1>4, <1>5, <2>1 DEF Asked
    <2>3. ~IsCleaned(x)
      BY <1>2, <1>4, <2>1 DEF IsCleaned
    <2>4. QED
      BY <1>1, <1>3, <1>4, <2>1, <2>2, <2>3 DEF TidyNow, ChannelsThere
  <1>11. QED
    BY <1>6, <1>7, <1>8, <1>9, <1>10 DEF TidyNow

\* The row of a name that is free.
LEMMA CreateBotTidy ==
  ASSUME Calm, ObNext, NEW d \in Deploys, CreateBot(d)
  PROVE  TidyNow' /\ RowNames'
  <1>1. /\ TidyNow /\ RowNames /\ deploy \in [Deploys -> Calls] /\ targets \subseteq Deploys
        /\ \A e \in Deploys : deploy[e].cleans # NoDeploy => deploy[e].cleans \in Deploys
        /\ \A e \in Deploys : deploy[e].pc \in CleanPcs => deploy[e].cleans # NoDeploy
    BY CalmBefore
  <1>2. deploy[d].pc = "row" /\ UNCHANGED <<targets, channels>> /\ Started(d) /\ ~Rests(d)
    BY DEF CreateBot, Started, Rests
  <1>3. \A e \in Deploys : HasRow(e) => deploy[e].name # deploy[d].name
    BY <1>1, <1>2 DEF TidyNow, AllAsFound, AsFound
  <1>4. ~ \E e \in Deployed : bots[e].name = deploy[d].name
    BY <1>1, <1>3 DEF Deployed, RowNames
  <1>5. PICK b : /\ b = [name |-> deploy[d].name, vm |-> deploy[d].vm, status |-> "CREATING", old |-> FALSE,
                         port |-> deploy[d].port, token |-> sharedToken]
                 /\ bots' = [bots EXCEPT ![d] = b]
    BY <1>4 DEF CreateBot
  <1>6. b # NoBot /\ b.name = deploy[d].name
    <2>1. b.status = "CREATING" /\ NoBot.status = "none" /\ b.name = deploy[d].name
      BY <1>5 DEF NoBot
    <2>2. QED
      BY <2>1
  <1>7. bots'[d] = b /\ \A e \in Deploys : e # d => bots'[e] = bots[e]
    BY <1>5 DEF Calm, WholeInv, BoardInv, ObTypeOK
  <1>8. HasRow(d)' /\ \A e \in Deploys : e # d => (HasRow(e)' <=> HasRow(e))
    BY <1>6, <1>7 DEF HasRow
  <1>9. PICK r \in Calls : /\ deploy' = [deploy EXCEPT ![d] = r] /\ r.pc = "channels"
                           /\ r.name = deploy[d].name /\ r.cleans = deploy[d].cleans
    <2> DEFINE q == [deploy[d] EXCEPT !.pc = "channels"]
    <2>1. q \in Calls /\ q.pc = "channels" /\ q.name = deploy[d].name /\ q.cleans = deploy[d].cleans
      BY <1>1 DEF Calls, DeployPcs
    <2>2. deploy' = [deploy EXCEPT ![d] = q]
      BY <1>4 DEF CreateBot, Goes
    <2> HIDE DEF q
    <2>3. QED
      BY <2>1, <2>2
  <1>10. /\ deploy'[d] = r /\ \A e \in Deploys : e # d => deploy'[e] = deploy[e]
         /\ \A e \in Deploys : deploy'[e].name = deploy[e].name
    BY <1>1, <1>9, OneChanged
  <1>11. RowNames'
    BY <1>1, <1>6, <1>7, <1>8, <1>10 DEF RowNames
  <1>12. Apart'
    BY <1>1, <1>2, <1>9, ApartKept DEF TidyNow
  <1>13. OneRow'
    BY <1>1, <1>3, <1>8, <1>10 DEF TidyNow, OneRow
  <1>14. AllAsFound'
    <2>1. SUFFICES ASSUME NEW e \in Deploys PROVE AsFound(e)'
      BY DEF AllAsFound
    <2>2. AsFound(e)
      BY <1>1 DEF TidyNow, AllAsFound
    <2>3. CASE e = d
      BY <1>8, <1>9, <1>10, <2>3 DEF AsFound, CleanPcs
    <2>4. CASE e # d
      <3>1. Started(e) /\ deploy[e].name = deploy[d].name => Rests(e)
        BY <1>1, <1>2, <2>4, AloneWithName DEF TidyNow
      <3>2. deploy[e].pc \in {"fleet", "ports", "target", "row", "unlink"} => deploy[e].name # deploy[d].name
        BY <3>1 DEF Started, Rests
      <3>3. QED
        BY <1>1, <1>2, <1>8, <1>10, <2>2, <2>4, <3>2 DEF AsFound, CleanPcs
    <2>5. QED
      BY <2>3, <2>4
  <1>15. TargetsUsed'
    <2>1. SUFFICES ASSUME NEW x \in targets PROVE HasUse(x)'
      BY <1>2 DEF TargetsUsed
    <2>2. HasUse(x) /\ x \in Deploys
      BY <1>1 DEF TidyNow, TargetsUsed
    <2>3. CASE x = d
      BY <1>8, <2>3 DEF HasUse
    <2>4. CASE x # d
      BY <1>2, <1>8, <1>10, <2>2, <2>4 DEF HasUse
    <2>5. QED
      BY <2>3, <2>4
  <1>16. ChannelsUsed'
    BY <1>1, <1>2, <1>8, <1>10 DEF TidyNow, ChannelsUsed
  <1>17. ChannelsThere'
    <2>1. SUFFICES ASSUME NEW x \in Deploys, HasRow(x)', deploy'[x].pc \in {"reconcile", "over"}, ~IsCleaned(x)'
                   PROVE  Asked(x)' \subseteq channels'
      BY DEF ChannelsThere
    <2>2. x # d /\ HasRow(x) /\ Asked(x)' = Asked(x)
      BY <1>8, <1>9, <1>10, <2>1 DEF Asked
    <2>3. ~IsCleaned(x)
      BY <1>9, <1>10, <2>1 DEF IsCleaned
    <2>4. QED
      BY <1>1, <1>2, <1>10, <2>1, <2>2, <2>3 DEF TidyNow, ChannelsThere
  <1>18. QED
    BY <1>11, <1>12, <1>13, <1>14, <1>15, <1>16, <1>17 DEF TidyNow

\* A channel more.
LEMMA UpsertTidy ==
  ASSUME Calm, ObNext, NEW d \in Deploys, UpsertChannel(d), ~UNCHANGED channels
  PROVE  TidyNow'
  <1>1. /\ TidyNow /\ deploy \in [Deploys -> Calls] /\ targets \subseteq Deploys
        /\ \A e \in Deploys : deploy[e].cleans # NoDeploy => deploy[e].cleans \in Deploys
        /\ \A e \in Deploys : deploy[e].pc \in CleanPcs => deploy[e].cleans # NoDeploy
    BY CalmBefore
  <1>2. deploy[d].pc = "channels" /\ UNCHANGED <<targets, bots>> /\ Started(d) /\ ~Rests(d)
    BY DEF UpsertChannel, Started, Rests
  <1>3. PICK c \in Asked(d) : /\ channels' = channels \cup {c}
                              /\ deploy' = IF Asked(d) \subseteq channels'
                                           THEN [deploy EXCEPT ![d].pc = "reconcile"] ELSE deploy
    BY DEF UpsertChannel
  <1>4. HasRow(d) /\ c[1] = deploy[d].name
    BY <1>1, <1>2, <1>3 DEF TidyNow, AllAsFound, AsFound, Asked
  <1>5. PICK r \in Calls : /\ deploy' = [deploy EXCEPT ![d] = r]
                           /\ r.name = deploy[d].name /\ r.cleans = deploy[d].cleans
                           /\ r.pc = "channels" \/ (r.pc = "reconcile" /\ Asked(d) \subseteq channels')
    <2>1. deploy[d] \in Calls /\ deploy = [deploy EXCEPT ![d] = deploy[d]]
      BY <1>1
    <2> DEFINE q == [deploy[d] EXCEPT !.pc = "reconcile"]
    <2>2. q \in Calls /\ q.pc = "reconcile" /\ q.name = deploy[d].name /\ q.cleans = deploy[d].cleans
      BY <2>1 DEF Calls, DeployPcs
    <2>3. \/ deploy' = [deploy EXCEPT ![d] = q] /\ Asked(d) \subseteq channels'
          \/ deploy' = [deploy EXCEPT ![d] = deploy[d]]
      BY <1>3, <2>1
    <2> HIDE DEF q
    <2>4. QED
      BY <1>2, <2>1, <2>2, <2>3
  <1>6. /\ deploy'[d] = r /\ \A e \in Deploys : e # d => deploy'[e] = deploy[e]
        /\ \A e \in Deploys : deploy'[e].name = deploy[e].name
    BY <1>1, <1>5, OneChanged
  <1>7. \A e \in Deploys : HasRow(e)' <=> HasRow(e)
    BY <1>2 DEF HasRow
  <1>8. Apart' /\ OneRow'
    <2>1. Apart'
      BY <1>1, <1>2, <1>5, ApartKept DEF TidyNow
    <2>2. OneRow'
      BY <1>1, <1>6, <1>7 DEF TidyNow, OneRow
    <2>3. QED
      BY <2>1, <2>2
  <1>9. AllAsFound'
    <2>1. SUFFICES ASSUME NEW e \in Deploys PROVE AsFound(e)'
      BY DEF AllAsFound
    <2>2. AsFound(e)
      BY <1>1 DEF TidyNow, AllAsFound
    <2>3. CASE e = d
      BY <1>4, <1>5, <1>6, <1>7, <2>3 DEF AsFound, CleanPcs
    <2>4. CASE e # d
      <3>1. Started(e) /\ deploy[e].name = deploy[d].name => Rests(e)
        BY <1>1, <1>2, <2>4, AloneWithName DEF TidyNow
      <3>2. deploy[e].pc = "bot" => deploy[e].name # deploy[d].name
        BY <3>1 DEF Started, Rests
      <3>3. QED
        BY <1>1, <1>3, <1>4, <1>6, <1>7, <2>2, <2>4, <3>2 DEF AsFound, CleanPcs
    <2>5. QED
      BY <2>3, <2>4
  <1>10. TargetsUsed'
    <2>1. SUFFICES ASSUME NEW x \in targets PROVE HasUse(x)'
      BY <1>2 DEF TargetsUsed
    <2>2. HasUse(x) /\ x \in Deploys
      BY <1>1 DEF TidyNow, TargetsUsed
    <2>3. QED
      BY <1>2, <1>6, <1>7, <2>2 DEF HasUse
  <1>11. ChannelsUsed'
    BY <1>1, <1>3, <1>4, <1>6, <1>7 DEF TidyNow, ChannelsUsed
  <1>12. ChannelsThere'
    <2>1. SUFFICES ASSUME NEW x \in Deploys, HasRow(x)', deploy'[x].pc \in {"reconcile", "over"}, ~IsCleaned(x)'
                   PROVE  Asked(x)' \subseteq channels'
      BY DEF ChannelsThere
    <2>2. HasRow(x) /\ Asked(x)' = Asked(x) /\ channels \subseteq channels'
      BY <1>3, <1>6, <1>7, <2>1 DEF Asked
    <2>3. ~IsCleaned(x)
      BY <1>5, <1>6, <2>1 DEF IsCleaned
    <2>4. CASE x = d
      BY <1>5, <1>6, <2>1, <2>2, <2>4
    <2>5. CASE x # d
      BY <1>1, <1>6, <2>1, <2>2, <2>3, <2>5 DEF TidyNow, ChannelsThere
    <2>6. QED
      BY <2>4, <2>5
  <1>13. QED
    BY <1>8, <1>9, <1>10, <1>11, <1>12 DEF TidyNow

\* The channels of a name go: no other call works under it, and no other row has it.
LEMMA DeleteChannelsTidy ==
  ASSUME Calm, ObNext, NEW d \in Deploys, DeleteChannelsByNamePrefix(d)
  PROVE  TidyNow'
  <1>1. /\ TidyNow /\ BoardInv /\ deploy \in [Deploys -> Calls] /\ targets \subseteq Deploys
        /\ \A e \in Deploys : deploy[e].cleans # NoDeploy => deploy[e].cleans \in Deploys
        /\ \A e \in Deploys : deploy[e].pc \in CleanPcs => deploy[e].cleans # NoDeploy
    BY CalmBefore
  <1>2. deploy[d].pc = "prefix" /\ UNCHANGED <<targets, bots>> /\ Started(d) /\ ~Rests(d)
    BY DEF DeleteChannelsByNamePrefix, Started, Rests
  <1>3. channels' = {c \in channels : c[1] # deploy[d].name /\ <<c[1], deploy[d].name>> \notin Longer}
    BY DEF DeleteChannelsByNamePrefix
  <1>4. PICK r \in Calls : /\ deploy' = [deploy EXCEPT ![d] = r] /\ r.pc = "bot"
                           /\ r.name = deploy[d].name /\ r.cleans = deploy[d].cleans
    <2> DEFINE q == [deploy[d] EXCEPT !.pc = "bot"]
    <2>1. q \in Calls /\ q.pc = "bot" /\ q.name = deploy[d].name /\ q.cleans = deploy[d].cleans
      BY <1>1 DEF Calls, DeployPcs
    <2>2. deploy' = [deploy EXCEPT ![d] = q]
      BY DEF DeleteChannelsByNamePrefix, Goes
    <2> HIDE DEF q
    <2>3. QED
      BY <2>1, <2>2
  <1>5. /\ deploy'[d] = r /\ \A e \in Deploys : e # d => deploy'[e] = deploy[e]
        /\ \A e \in Deploys : deploy'[e].name = deploy[e].name
    BY <1>1, <1>4, OneChanged
  <1>6. \A e \in Deploys : HasRow(e)' <=> HasRow(e)
    BY <1>2 DEF HasRow
  <1>7. deploy[d].cleans \in Deploys /\ HasRow(deploy[d].cleans) /\ deploy[deploy[d].cleans].name = deploy[d].name
    BY <1>1, <1>2 DEF CleanPcs, TidyNow, AllAsFound, AsFound
  <1>8. Apart' /\ OneRow'
    <2>1. Apart'
      BY <1>1, <1>2, <1>4, ApartKept DEF TidyNow
    <2>2. OneRow'
      BY <1>1, <1>5, <1>6 DEF TidyNow, OneRow
    <2>3. QED
      BY <2>1, <2>2
  <1>9. AllAsFound'
    <2>1. SUFFICES ASSUME NEW e \in Deploys PROVE AsFound(e)'
      BY DEF AllAsFound
    <2>2. AsFound(e)
      BY <1>1 DEF TidyNow, AllAsFound
    <2>3. CASE e = d
      BY <1>3, <1>4, <1>5, <1>6, <1>7, <2>3 DEF AsFound, CleanPcs
    <2>4. CASE e # d
      BY <1>1, <1>3, <1>5, <1>6, <2>2, <2>4 DEF AsFound, CleanPcs
    <2>5. QED
      BY <2>3, <2>4
  <1>10. TargetsUsed'
    <2>1. SUFFICES ASSUME NEW x \in targets PROVE HasUse(x)'
      BY <1>2 DEF TargetsUsed
    <2>2. HasUse(x) /\ x \in Deploys
      BY <1>1 DEF TidyNow, TargetsUsed
    <2>3. QED
      BY <1>2, <1>5, <1>6, <2>2 DEF HasUse
  <1>11. ChannelsUsed'
    BY <1>1, <1>3, <1>5, <1>6 DEF TidyNow, ChannelsUsed
  <1>12. ChannelsThere'
    <2>1. SUFFICES ASSUME NEW x \in Deploys, HasRow(x)', deploy'[x].pc \in {"reconcile", "over"}, ~IsCleaned(x)'
                   PROVE  Asked(x)' \subseteq channels'
      BY DEF ChannelsThere
    <2>2. x # d /\ HasRow(x) /\ Asked(x)' = Asked(x)
      BY <1>4, <1>5, <1>6, <2>1 DEF Asked
    <2>3. ~IsCleaned(x)
      BY <1>4, <1>5, <2>1 DEF IsCleaned
    <2>4. Asked(x) \subseteq channels
      BY <1>1, <1>5, <2>1, <2>2, <2>3 DEF TidyNow, ChannelsThere
    <2>5. deploy[x].name # deploy[d].name
      BY <1>1, <1>7, <2>2, <2>3 DEF TidyNow, OneRow, IsCleaned
    <2>6. <<deploy[x].name, deploy[d].name>> \notin Longer
      <3>1. Started(x)
        BY <1>1, <2>2, StartedRows
      <3>2. QED
        BY <1>1, <1>2, <2>2, <2>5, <3>1, AloneWithName DEF TidyNow
    <2>7. QED
      BY <1>3, <2>2, <2>4, <2>5, <2>6 DEF Asked
  <1>13. QED
    BY <1>8, <1>9, <1>10, <1>11, <1>12 DEF TidyNow

\* The row goes, and its target is next.
LEMMA DeleteBotTidy ==
  ASSUME Calm, ObNext, NEW d \in Deploys, DeleteBot(d)
  PROVE  TidyNow'
  <1>1. /\ TidyNow /\ BoardInv /\ deploy \in [Deploys -> Calls] /\ targets \subseteq Deploys
        /\ \A e \in Deploys : deploy[e].cleans # NoDeploy => deploy[e].cleans \in Deploys
        /\ \A e \in Deploys : deploy[e].pc \in CleanPcs => deploy[e].cleans # NoDeploy
    BY CalmBefore
  <1>2. deploy[d].pc = "bot" /\ UNCHANGED <<targets, channels>> /\ Started(d) /\ ~Rests(d)
    BY DEF DeleteBot, Started, Rests
  <1>3. /\ deploy[d].cleans \in Deploys /\ HasRow(deploy[d].cleans)
        /\ deploy[deploy[d].cleans].name = deploy[d].name /\ \A c \in channels : c[1] # deploy[d].name
    BY <1>1, <1>2 DEF CleanPcs, TidyNow, AllAsFound, AsFound
  <1>4. PICK gone \in Deploys : gone = deploy[d].cleans
    BY <1>3
  <1>5. ~HasRow(gone)' /\ \A e \in Deploys : e # gone => (HasRow(e)' <=> HasRow(e))
    <2>1. bots' = [bots EXCEPT ![gone] = NoBot] /\ bots \in [Deploys -> Row \cup {NoBot}]
      BY <1>1, <1>3, <1>4 DEF DeleteBot, BoardInv, ObTypeOK
    <2>2. QED
      BY <2>1 DEF HasRow
  <1>6. PICK r \in Calls : /\ deploy' = [deploy EXCEPT ![d] = r] /\ r.pc = "unlink"
                           /\ r.name = deploy[d].name /\ r.cleans = gone
    <2> DEFINE q == [deploy[d] EXCEPT !.pc = "unlink"]
    <2>1. q \in Calls /\ q.pc = "unlink" /\ q.name = deploy[d].name /\ q.cleans = gone
      BY <1>1, <1>4 DEF Calls, DeployPcs
    <2>2. deploy' = [deploy EXCEPT ![d] = q]
      BY <1>3 DEF DeleteBot, Goes
    <2> HIDE DEF q
    <2>3. QED
      BY <2>1, <2>2
  <1>7. /\ deploy'[d] = r /\ \A e \in Deploys : e # d => deploy'[e] = deploy[e]
        /\ \A e \in Deploys : deploy'[e].name = deploy[e].name
    BY <1>1, <1>6, OneChanged
  <1>8. \A e \in Deploys : e # d /\ deploy[e].name = deploy[d].name => Rests(e) \/ ~Started(e)
    BY <1>1, <1>2, AloneWithName DEF TidyNow
  <1>9. Apart' /\ OneRow'
    <2>1. Apart'
      BY <1>1, <1>2, <1>6, ApartKept DEF TidyNow
    <2>2. OneRow'
      BY <1>1, <1>5, <1>7 DEF TidyNow, OneRow
    <2>3. QED
      BY <2>1, <2>2
  <1>10. AllAsFound'
    <2>1. SUFFICES ASSUME NEW e \in Deploys PROVE AsFound(e)'
      BY DEF AllAsFound
    <2>2. AsFound(e)
      BY <1>1 DEF TidyNow, AllAsFound
    <2>3. CASE e = d
      <3>1. \A y \in Deploys : HasRow(y)' => deploy[y].name # deploy[d].name
        BY <1>1, <1>3, <1>4, <1>5 DEF TidyNow, OneRow
      <3>2. QED
        BY <1>3, <1>4, <1>6, <1>7, <2>3, <3>1 DEF AsFound, CleanPcs
    <2>4. CASE e # d
      <3>1. deploy[e].pc \in {"channels", "reconcile"} => e # gone
        BY <1>3, <1>4, <1>8, <2>4 DEF Rests, Started
      <3>2. deploy[e].pc \in CleanPcs => deploy[e].cleans \in Deploys /\ deploy[e].cleans # gone
        BY <1>1, <1>3, <1>4, <1>8, <2>2, <2>4 DEF AsFound, CleanPcs, Rests, Started
      <3>3. QED
        BY <1>2, <1>5, <1>7, <2>2, <2>4, <3>1, <3>2 DEF AsFound, CleanPcs
    <2>5. QED
      BY <2>3, <2>4
  <1>11. TargetsUsed'
    <2>1. SUFFICES ASSUME NEW x \in targets PROVE HasUse(x)'
      BY <1>2 DEF TargetsUsed
    <2>2. HasUse(x) /\ x \in Deploys
      BY <1>1 DEF TidyNow, TargetsUsed
    <2>3. CASE x = gone
      BY <1>6, <1>7, <2>3 DEF HasUse
    <2>4. CASE x # gone
      BY <1>2, <1>5, <1>7, <2>2, <2>4 DEF HasUse
    <2>5. QED
      BY <2>3, <2>4
  <1>12. ChannelsUsed'
    BY <1>1, <1>2, <1>3, <1>4, <1>5, <1>7 DEF TidyNow, ChannelsUsed
  <1>13. ChannelsThere'
    <2>1. SUFFICES ASSUME NEW x \in Deploys, HasRow(x)', deploy'[x].pc \in {"reconcile", "over"}, ~IsCleaned(x)'
                   PROVE  Asked(x)' \subseteq channels'
      BY DEF ChannelsThere
    <2>2. x # d /\ HasRow(x) /\ Asked(x)' = Asked(x)
      BY <1>5, <1>6, <1>7, <2>1 DEF Asked
    <2>3. ~IsCleaned(x)
      BY <1>4, <1>6, <1>7, <2>1 DEF IsCleaned
    <2>4. QED
      BY <1>1, <1>2, <1>7, <2>1, <2>2, <2>3 DEF TidyNow, ChannelsThere
  <1>14. QED
    BY <1>9, <1>10, <1>11, <1>12, <1>13 DEF TidyNow

\* The target goes, and the name is free.
LEMMA DeleteTargetTidy ==
  ASSUME Calm, ObNext, NEW d \in Deploys, DeleteTarget(d)
  PROVE  TidyNow'
  <1>1. /\ TidyNow /\ BoardInv /\ deploy \in [Deploys -> Calls] /\ targets \subseteq Deploys
        /\ \A e \in Deploys : deploy[e].cleans # NoDeploy => deploy[e].cleans \in Deploys
        /\ \A e \in Deploys : deploy[e].pc \in CleanPcs <=> deploy[e].cleans # NoDeploy
    BY CalmBefore
  <1>2. deploy[d].pc = "unlink" /\ UNCHANGED <<bots, channels>> /\ Started(d) /\ ~Rests(d)
    BY DEF DeleteTarget, Started, Rests
  <1>3. PICK gone \in Deploys : gone = deploy[d].cleans
    BY <1>1, <1>2 DEF CleanPcs
  <1>4. ~HasRow(gone) /\ \A e \in Deploys : HasRow(e) => deploy[e].name # deploy[d].name
    BY <1>1, <1>2, <1>3 DEF BoardInv, Cleaners, TidyNow, AllAsFound, AsFound
  <1>5. targets' = targets \ {gone}
    BY <1>3 DEF DeleteTarget
  <1>6. PICK r \in Calls : /\ deploy' = [deploy EXCEPT ![d] = r]
                           /\ r.pc = IF gone = d THEN "over" ELSE "fleet"
                           /\ r.name = deploy[d].name /\ r.cleans = NoDeploy
    <2> DEFINE pc == IF gone = d THEN "over" ELSE "fleet"
               q == [deploy[d] EXCEPT !.pc = pc, !.cleans = NoDeploy]
    <2>1. deploy' = [deploy EXCEPT ![d] = q]
      BY <1>3 DEF DeleteTarget, Cleaned
    <2>2. pc \in DeployPcs
      BY DEF DeployPcs
    <2> HIDE DEF pc
    <2>3. q \in Calls /\ q.pc = pc /\ q.name = deploy[d].name /\ q.cleans = NoDeploy
      BY <1>1, <2>2 DEF Calls
    <2> HIDE DEF q
    <2>4. QED
      BY <2>1, <2>3 DEF pc
  <1>7. /\ deploy'[d] = r /\ \A e \in Deploys : e # d => deploy'[e] = deploy[e]
        /\ \A e \in Deploys : deploy'[e].name = deploy[e].name
    BY <1>1, <1>6, OneChanged
  <1>8. \A e \in Deploys : HasRow(e)' <=> HasRow(e)
    BY <1>2 DEF HasRow
  <1>9. Apart' /\ OneRow'
    <2>1. Apart'
      BY <1>1, <1>2, <1>6, ApartKept DEF TidyNow
    <2>2. OneRow'
      BY <1>1, <1>7, <1>8 DEF TidyNow, OneRow
    <2>3. QED
      BY <2>1, <2>2
  <1>10. AllAsFound'
    <2>1. SUFFICES ASSUME NEW e \in Deploys PROVE AsFound(e)'
      BY DEF AllAsFound
    <2>2. AsFound(e)
      BY <1>1 DEF TidyNow, AllAsFound
    <2>3. CASE e = d
      BY <1>4, <1>6, <1>7, <1>8, <2>3 DEF AsFound, CleanPcs
    <2>4. CASE e # d
      BY <1>1, <1>2, <1>7, <1>8, <2>2, <2>4 DEF AsFound, CleanPcs
    <2>5. QED
      BY <2>3, <2>4
  <1>11. TargetsUsed'
    <2>1. SUFFICES ASSUME NEW x \in targets, x # gone PROVE HasUse(x)'
      BY <1>5 DEF TargetsUsed
    <2>2. HasUse(x) /\ x \in Deploys
      BY <1>1, <2>1 DEF TidyNow, TargetsUsed
    <2>3. QED
      BY <1>2, <1>3, <1>7, <1>8, <2>1, <2>2 DEF HasUse
  <1>12. ChannelsUsed'
    BY <1>1, <1>2, <1>7, <1>8 DEF TidyNow, ChannelsUsed
  <1>13. ChannelsThere'
    <2>1. SUFFICES ASSUME NEW x \in Deploys, HasRow(x)', deploy'[x].pc \in {"reconcile", "over"}, ~IsCleaned(x)'
                   PROVE  Asked(x)' \subseteq channels'
      BY DEF ChannelsThere
    <2>2. HasRow(x) /\ Asked(x)' = Asked(x) /\ x # gone
      BY <1>4, <1>7, <1>8, <2>1 DEF Asked
    <2>3. x # d
      BY <1>6, <1>7, <2>1, <2>2
    <2>4. ~IsCleaned(x)
      BY <1>3, <1>7, <2>1, <2>2 DEF IsCleaned
    <2>5. QED
      BY <1>1, <1>2, <1>7, <2>1, <2>2, <2>3, <2>4 DEF TidyNow, ChannelsThere
  <1>14. QED
    BY <1>9, <1>10, <1>11, <1>12, <1>13 DEF TidyNow

\* A row bears the name of its call, whatever fails and overlaps.
LEMMA RowNamesStep == ASSUME BoardInv, RowNames, [ObNext]_obVars PROVE RowNames'
  <1>1. deploy \in [Deploys -> Calls] /\ ObTypeOK /\ bots \in [Deploys -> Row \cup {NoBot}]
    BY DEF BoardInv, ObTypeOK, Calls
  <1>2. CASE \E d \in Deploys, name \in BotNames, vm \in BOOLEAN : Deploy(d, name, vm)
    <2>1. PICK d \in Deploys : /\ deploy[d].pc = "none" /\ bots' = bots
                               /\ \A e \in Deploys : e # d => deploy'[e] = deploy[e]
      BY <1>1, <1>2 DEF Deploy
    <2>2. \A e \in Deploys : HasRow(e) => e # d
      BY <2>1, StartedRows DEF Started
    <2>3. QED
      BY <2>1, <2>2 DEF RowNames, HasRow
  <1>3. CASE ~ \E d \in Deploys, name \in BotNames, vm \in BOOLEAN : Deploy(d, name, vm)
    <2>1. \A e \in Deploys : deploy'[e].name = deploy[e].name
      <3>1. CASE ObCrash
        BY <3>1, <1>1 DEF ObCrash, Calls
      <3>2. CASE UNCHANGED deploy
        BY <3>2
      <3>3. CASE \E d \in Deploys, pc \in DeployPcs : Goes(d, pc)
        BY <3>3, <1>1 DEF Goes, Calls
      <3>4. CASE \E d \in Deploys : \E e \in Deploys : Cleans(d, e)
        BY <3>4, <1>1 DEF Cleans, Calls
      <3>5. CASE \E d \in Deploys : Cleaned(d)
        <4>1. PICK d \in Deploys :
                deploy' = [deploy EXCEPT ![d].pc = IF deploy[d].cleans = d THEN "over" ELSE "fleet",
                                         ![d].cleans = NoDeploy]
          BY <3>5, Zenon DEF Cleaned
        <4>2. QED
          BY <4>1, <1>1 DEF Calls
      <3>6. CASE \E d \in Deploys : AllocateGatewayPort(d)
        <4>1. PICK d \in Deploys, port \in 0..LastPort :
                deploy' = [deploy EXCEPT ![d].pc = "target", ![d].port = IF deploy[d].vm THEN 0 ELSE port]
          BY <3>6, Zenon DEF AllocateGatewayPort
        <4>2. QED
          BY <4>1, <1>1 DEF Calls
      <3>7. CASE \E d \in Deploys : UpsertChannel(d)
        <4>1. PICK d \in Deploys : Goes(d, "reconcile") \/ UNCHANGED deploy
          BY <3>7, Zenon DEF UpsertChannel, Goes
        <4>2. QED
          BY <4>1, <1>1 DEF Goes, Calls
      <3>8. QED
        <4>1. {"fleet", "over", "ports", "row", "channels", "prefix", "bot", "unlink"} \subseteq DeployPcs
          BY DEF DeployPcs
        <4>2. ASSUME NEW d \in Deploys,
                     \/ NameIsFree(d) \/ NameIsTaken(d) \/ Configure(d) \/ NoPortLeft(d) \/ CreateTarget(d)
                     \/ CreateBot(d) \/ ReconcileSucceeds(d) \/ FindById(d) \/ DeleteChannelsByNamePrefix(d)
              PROVE  \E pc \in DeployPcs : Goes(d, pc)
          BY <4>1, <4>2, Zenon DEF NameIsFree, NameIsTaken, Configure, NoPortLeft, CreateTarget, CreateBot,
             ReconcileSucceeds, FindById, DeleteChannelsByNamePrefix
        <4>3. ASSUME NEW d \in Deploys, ReplaceFailed(d) \/ ReconcileFails(d)
              PROVE  \E e \in Deploys : Cleans(d, e)
          BY <4>3 DEF ReplaceFailed, ReconcileFails, WithName, Deployed
        <4>4. ASSUME NEW d \in Deploys, DeleteBot(d) \/ DeleteTarget(d) \/ ObFails(d)
              PROVE  Cleaned(d) \/ \E pc \in DeployPcs : Goes(d, pc)
          BY <4>1, <4>4, Zenon DEF DeleteBot, DeleteTarget, ObFails
        <4>5. ASSUME NEW d \in Deploys, Ages(d) \/ Breaks(d)
              PROVE  UNCHANGED deploy
          BY <4>5 DEF Ages, Breaks
        <4>6. ObNext \/ UNCHANGED deploy
          BY DEF obVars
        <4>7. QED
          BY <1>3, <3>1, <3>2, <3>3, <3>4, <3>5, <3>6, <3>7, <4>2, <4>3, <4>4, <4>5, <4>6, Zenon DEF ObNext
    <2>2. \A e \in Deploys : HasRow(e)' => bots'[e].name = deploy[e].name
      <3>1. CASE UNCHANGED bots
        BY <3>1 DEF RowNames, HasRow
      <3>2. CASE \E d \in Deploys : CreateBot(d)
        <4>1. PICK d \in Deploys : CreateBot(d)
          BY <3>2
        <4>2. CASE UNCHANGED bots
          BY <4>2, <3>1
        <4>3. CASE ~UNCHANGED bots
          <5>1. PICK b : b.name = deploy[d].name /\ bots' = [bots EXCEPT ![d] = b]
            BY <4>1, <4>3 DEF CreateBot
          <5>2. QED
            BY <1>1, <5>1 DEF RowNames, HasRow
        <4>4. QED
          BY <4>2, <4>3
      <3>3. CASE \E d \in Deploys : ReconcileSucceeds(d) \/ ReconcileFails(d) \/ Ages(d) \/ Breaks(d)
        <4>1. PICK d \in Deploys : ReconcileSucceeds(d) \/ ReconcileFails(d) \/ Ages(d) \/ Breaks(d)
          BY <3>3
        <4>2. CASE UNCHANGED bots
          BY <4>2, <3>1
        <4>3. CASE ~UNCHANGED bots
          <5>1. /\ HasRow(d)
                /\ \E status \in {"RUNNING", "ERROR"}, old \in BOOLEAN :
                     \/ bots' = [bots EXCEPT ![d] = [bots[d] EXCEPT !.status = status, !.old = old]]
                     \/ bots' = [bots EXCEPT ![d] = [bots[d] EXCEPT !.old = old]]
            BY <4>1, <4>3 DEF ReconcileSucceeds, ReconcileFails, Ages, Breaks
          <5>2. QED
            BY <1>1, <5>1, StatusKeepsRows DEF RowNames
        <4>4. QED
          BY <4>2, <4>3
      <3>4. CASE \E d \in Deploys : DeleteBot(d)
        <4>1. PICK d \in Deploys : bots' = [bots EXCEPT ![deploy[d].cleans] = NoBot] \/ bots' = bots
          BY <3>4 DEF DeleteBot
        <4>2. QED
          BY <1>1, <4>1 DEF RowNames, HasRow
      <3>5. QED
        <4>1. ASSUME NEW d \in Deploys,
                     \/ NameIsFree(d) \/ ReplaceFailed(d) \/ NameIsTaken(d) \/ Configure(d)
                     \/ AllocateGatewayPort(d) \/ NoPortLeft(d) \/ CreateTarget(d) \/ UpsertChannel(d)
                     \/ FindById(d) \/ DeleteChannelsByNamePrefix(d) \/ DeleteTarget(d) \/ ObFails(d)
              PROVE  UNCHANGED bots
          BY <4>1 DEF NameIsFree, ReplaceFailed, NameIsTaken, Configure, AllocateGatewayPort, NoPortLeft,
             CreateTarget, UpsertChannel, FindById, DeleteChannelsByNamePrefix, DeleteTarget, ObFails
        <4>2. ObCrash => UNCHANGED bots
          BY DEF ObCrash
        <4>3. ObNext \/ UNCHANGED bots
          BY DEF obVars
        <4>4. QED
          BY <1>3, <3>1, <3>2, <3>3, <3>4, <4>1, <4>2, <4>3, Zenon DEF ObNext
    <2>3. QED
      BY <2>1, <2>2 DEF RowNames
  <1>4. QED
    BY <1>2, <1>3

LEMMA WholeInvInit == ObInit => WholeInv
  <1> SUFFICES ASSUME ObInit PROVE WholeInv
    OBVIOUS
  <1>1. \A d \in Deploys : deploy[d].pc = "none" /\ deploy[d].cleans = NoDeploy /\ ~HasRow(d)
    BY DEF ObInit, HasRow
  <1>2. targets = {} /\ channels = {}
    BY DEF ObInit
  <1>3. TidyNow
    BY <1>1, <1>2 DEF TidyNow, Apart, Started, OneRow, AllAsFound, AsFound, CleanPcs, TargetsUsed, ChannelsUsed,
       ChannelsThere
  <1>4. QED
    BY <1>1, <1>3, BoardInvInit DEF WholeInv, RowNames, Tidy

LEMMA WholeStep == ASSUME WholeInv, [ObNext]_obVars PROVE WholeInv'
  <1>1. BoardInv' /\ RowNames'
    BY BoardStep, RowNamesStep DEF WholeInv
  <1>2. SUFFICES ASSUME obFaults' = ObFaults, ~tangled' PROVE TidyNow'
    BY <1>1 DEF WholeInv, Tidy
  <1>3. Calm
    BY <1>1, <1>2 DEF Calm, BoardInv
  <1>4. CASE UNCHANGED obVars
    <2>1. TidyNow
      BY <1>3, CalmBefore
    <2>2. UNCHANGED <<deploy, bots, targets, channels>>
      BY <1>4 DEF obVars
    <2>3. \A e \in Deploys : HasRow(e)' <=> HasRow(e)
      BY <2>2 DEF HasRow
    <2>4. Apart' /\ OneRow' /\ ChannelsUsed'
      BY <2>1, <2>2, <2>3 DEF TidyNow, Apart, Started, Rests, OneRow, ChannelsUsed
    <2>5. AllAsFound'
      BY <2>1, <2>2 DEF TidyNow, AllAsFound, AsFound, HasRow
    <2>6. TargetsUsed' /\ ChannelsThere'
      BY <2>1, <2>2 DEF TidyNow, TargetsUsed, HasUse, HasRow, ChannelsThere, IsCleaned, Asked
    <2>7. QED
      BY <2>4, <2>5, <2>6 DEF TidyNow
  <1>5. CASE ObNext
    <2>1. obFaults = ObFaults /\ obFaults \in Nat
      BY <1>3, CalmBefore, ObAssumption
    <2>2. ~ObCrash /\ \A d \in Deploys : ~ObFails(d)
      <3>1. obFaults' # obFaults - 1
        BY <1>2, <2>1
      <3>2. QED
        BY <3>1, Zenon DEF ObCrash, ObFails
    <2>3. \A d \in Deploys : UpsertChannel(d) => TidyNow'
      BY <1>3, <1>5, UpsertTidy, MiddleTidy, Zenon
    <2>4. QED
      BY <1>3, <1>5, <2>2, <2>3, DeployTidy, NameIsFreeTidy, ReplaceFailedTidy, MiddleTidy, AllocateTidy,
         CreateTargetTidy, CreateBotTidy, ReconcileTidy, DeleteChannelsTidy, DeleteBotTidy, DeleteTargetTidy,
         WorldTidy, Zenon DEF ObNext
  <1>6. QED
    BY <1>4, <1>5

\* Without failing calls, and as long as calls of one name followed one another and
\* no name in use began with another one: a deployed bot has the channels its call
\* asked for, and when all calls rest nothing is left of those that were cleaned up.
THEOREM DeploymentsAreWhole == ObSpec => []DeployedIsWhole
  <1>1. WholeInv => DeployedIsWhole
    <2>1. SUFFICES ASSUME WholeInv, TidyNow
                   PROVE  /\ \A d \in Deployed :
                               deploy[d].pc \in {"reconcile", "over"} /\ ~IsCleaned(d) => Asked(d) \subseteq channels
                          /\ (\A d \in Deploys : Rests(d)) =>
                               targets = Deployed /\ \A c \in channels : \E d \in Deployed : bots[d].name = c[1]
      BY DEF DeployedIsWhole, WholeInv, Tidy
    <2>2. ASSUME NEW d \in Deployed, deploy[d].pc \in {"reconcile", "over"}, ~IsCleaned(d)
          PROVE  Asked(d) \subseteq channels
      BY <2>1, <2>2 DEF TidyNow, ChannelsThere, Deployed
    <2>3. ASSUME \A d \in Deploys : Rests(d)
          PROVE  targets = Deployed
      <3>1. \A d \in Deploys : HasRow(d) => d \in targets
        BY <2>1 DEF WholeInv, BoardInv, Made
      <3>2. \A d \in targets : d \in Deploys /\ HasRow(d)
        BY <2>1, <2>3 DEF WholeInv, BoardInv, ObTypeOK, TidyNow, TargetsUsed, HasUse, Rests
      <3>3. QED
        BY <3>1, <3>2 DEF Deployed
    <2>4. \A c \in channels : \E d \in Deployed : bots[d].name = c[1]
      BY <2>1 DEF TidyNow, ChannelsUsed, WholeInv, RowNames, Deployed
    <2>5. QED
      BY <2>2, <2>3, <2>4
  <1>2. QED
    BY <1>1, WholeInvInit, WholeStep, PTL DEF ObSpec
=============================================================================
