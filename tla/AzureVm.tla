------------------------------- MODULE AzureVm -------------------------------
(***************************************************************************)
(* Bots on Azure: AzureVmTarget with its network, compute and shared       *)
(* infrastructure managers, and the cloud-init of a VM.  The bots of a     *)
(* resource group share the network, the storage account with one file     *)
(* share, the identity and the vault; whoever destroys the last VM removes *)
(* them.  An operation is a sequence of calls, each awaited.  Operations   *)
(* overlap, those of one bot too: a delete, a stop and a resize never ask  *)
(* whether the bot is being reconciled.  A restart is left out: it changes *)
(* neither a resource nor the power.  Azure itself refuses to create a     *)
(* resource whose parts are missing and to delete one in use.              *)
(***************************************************************************)
EXTENDS Naturals, Sequences, TargetCalls

CONSTANTS
  VmBots,
  VmTasks,      \* the operations that can be under way at once
  Rg,           \* the resource group, owner of what is shared
  AzureOps,     \* how many operations are asked for
  AzureFaults   \* how many calls may fail

ASSUME AzureAssumption == Rg \notin VmBots /\ AzureOps \in Nat /\ AzureFaults \in Nat

VARIABLES
  azure,       \* the resources: pairs of kind and owner
  setup,       \* the target's configuration: keyVaultName, tenantId
  todo,        \* the operations under way: what each does, to which bot, the calls it has left
  power,       \* VMs that are allocated
  boot,        \* how far cloud-init is
  secret,      \* the bot's secret in the vault
  shareFile,   \* openclaw.json in the file share, mounted by every VM
  gateway,     \* the configuration each container has started with
  azCalm,      \* history: no operation overlapped a destroy
  leaky,       \* history: operations with a failing call, destroys an install of the bot overlapped
  azureLeft

azVars == <<azure, setup, todo, power, boot, secret, shareFile, gateway, azCalm, leaky, azureLeft>>
azRest == <<setup, azCalm, leaky, azureLeft>>

SharedKinds == {"vnet", "nsg", "subnet", "storage", "share", "identity", "vault", "roles"}
OwnKinds == {"pip", "nic", "vm", "disk"}
Shared(k) == <<k, Rg>>
AllShared(K) == {Shared(k) : k \in K}

NoFile == [of |-> Rg, is |-> "none"]
ConfigFiles == [of : VmBots, is : {"config", "generated"}] \cup {NoFile}
NoOp == [op |-> "none", bot |-> Rg, calls |-> <<>>]

AzureTypeOK ==
  /\ azure \subseteq AllShared(SharedKinds) \cup (OwnKinds \X VmBots)
  /\ setup \in [vault : BOOLEAN, tenant : BOOLEAN]
  /\ \A o \in VmTasks :
       \/ todo[o] = NoOp
       \/ todo[o].bot \in VmBots /\ todo[o].op \in {"install", "configure", "start", "stop", "resize", "destroy"}
  /\ power \subseteq VmBots
  /\ boot \in [VmBots -> {"off", "mount", "fetch", "write", "run", "up", "dead"}]
  /\ secret \in [VmBots -> {"absent", "empty", "config"}]
  /\ shareFile \in ConfigFiles
  /\ gateway \in [VmBots -> ConfigFiles]
  /\ leaky \subseteq VmTasks /\ azCalm \in BOOLEAN
  /\ azureLeft \in [op : Nat, fault : Nat]

HasVm(b) == <<"vm", b>> \in azure
VmBot(o) == todo[o].bot
NextIs(o, call) == todo[o].calls # <<>> /\ Head(todo[o].calls) = call
\* The next call; an operation that has made its last one is over.
Skip(o, n) ==
  LET calls == todo[o].calls
  IN  todo' = [todo EXCEPT ![o] = IF Len(calls) = n THEN NoOp
                                  ELSE [@ EXCEPT !.calls = SubSeq(calls, n + 1, Len(calls))]]
Proceed(o) == Skip(o, 1)
Abandon(o) == todo' = [todo EXCEPT ![o] = NoOp]
Machines == <<power, boot, secret, shareFile, gateway>>

-----------------------------------------------------------------------------
(* The managers: what is missing is created, if Azure has what it needs. *)

Ensure(o, r, needs) ==
  /\ NextIs(o, r[1])
  /\ IF r \in azure \/ needs \subseteq azure
     THEN azure' = azure \cup {r} /\ Proceed(o)
     ELSE azure' = azure /\ Abandon(o)
  /\ UNCHANGED <<azRest, Machines>>

EnsureVNet(o) == Ensure(o, Shared("vnet"), {})
EnsureNSG(o) == Ensure(o, Shared("nsg"), {})
EnsureVmSubnet(o) == Ensure(o, Shared("subnet"), AllShared({"vnet", "nsg"}))
EnsureStorageAccount(o) == Ensure(o, Shared("storage"), {})
EnsureFileShare(o) == Ensure(o, Shared("share"), AllShared({"storage"}))
EnsureManagedIdentity(o) == Ensure(o, Shared("identity"), {})
EnsureKeyVault(o) == Ensure(o, Shared("vault"), {})
AssignRoles(o) == Ensure(o, Shared("roles"), AllShared({"identity", "storage", "vault"}))
EnsurePublicIp(o) == Ensure(o, <<"pip", VmBot(o)>>, {})

\* The subnet is asked for, whether or not the NIC is there.
CreateNic(o) ==
  IF Shared("subnet") \in azure THEN Ensure(o, <<"nic", VmBot(o)>>, {<<"pip", VmBot(o)>>})
  ELSE NextIs(o, "nic") /\ Abandon(o) /\ UNCHANGED <<azure, azRest, Machines>>

\* The secret is emptied; failures do not matter.
StoreEmptySecret(o) ==
  /\ NextIs(o, "secret")
  /\ secret' = IF setup.vault \/ setup.tenant THEN [secret EXCEPT ![VmBot(o)] = "empty"] ELSE secret
  /\ Proceed(o)
  /\ UNCHANGED <<azure, power, boot, shareFile, gateway, azRest>>

\* A new VM boots; an existing one is updated in place.
CreateVm(o) ==
  /\ NextIs(o, "vm")
  /\ LET b == VmBot(o)
     IN  IF ~({<<"nic", b>>, Shared("identity")} \subseteq azure)
         THEN Abandon(o) /\ UNCHANGED <<azure, power, boot>>
         ELSE /\ Proceed(o)
              /\ azure' = azure \cup {<<"vm", b>>, <<"disk", b>>}
              /\ power' = IF HasVm(b) THEN power ELSE power \cup {b}
              /\ boot' = IF HasVm(b) THEN boot ELSE [boot EXCEPT ![b] = "mount"]
  /\ UNCHANGED <<secret, shareFile, gateway, azRest>>

-----------------------------------------------------------------------------
(* The managers: deletions, whose errors all count as "not found" *)

Gone(o, call, rs, free) ==
  /\ NextIs(o, call)
  /\ azure' = IF free THEN azure \ rs ELSE azure
  /\ Proceed(o)

DeleteVm(o) ==
  /\ Gone(o, "delVm", {<<"vm", VmBot(o)>>}, TRUE)
  /\ power' = power \ {VmBot(o)}
  /\ boot' = [boot EXCEPT ![VmBot(o)] = "off"] /\ gateway' = [gateway EXCEPT ![VmBot(o)] = NoFile]
  /\ UNCHANGED <<secret, shareFile, azRest>>
DeleteNic(o) == Gone(o, "delNic", {<<"nic", VmBot(o)>>}, ~HasVm(VmBot(o))) /\ UNCHANGED <<azRest, Machines>>
DeleteDisk(o) == Gone(o, "delDisk", {<<"disk", VmBot(o)>>}, ~HasVm(VmBot(o))) /\ UNCHANGED <<azRest, Machines>>
DeletePublicIp(o) ==
  Gone(o, "delPip", {<<"pip", VmBot(o)>>}, <<"nic", VmBot(o)>> \notin azure) /\ UNCHANGED <<azRest, Machines>>

\* Only a vault that was named in the configuration has a client here.
DeleteSecret(o) ==
  /\ NextIs(o, "delSecret")
  /\ secret' = IF setup.vault THEN [secret EXCEPT ![VmBot(o)] = "absent"] ELSE secret
  /\ Proceed(o)
  /\ UNCHANGED <<azure, power, boot, shareFile, gateway, azRest>>

\* The list of VMs decides about the next "n" deletions.
ListVms(o, call, n) ==
  /\ NextIs(o, call)
  /\ Skip(o, IF \E c \in VmBots : HasVm(c) THEN n + 1 ELSE 1)
  /\ UNCHANGED <<azure, azRest, Machines>>

NicsInUse == \E c \in VmBots : <<"nic", c>> \in azure
CheckNetwork(o) == ListVms(o, "listNet", 2)
DeleteVNet(o) ==
  Gone(o, "delVnet", AllShared({"vnet", "subnet"}), ~NicsInUse) /\ UNCHANGED <<azRest, Machines>>
DeleteNSG(o) ==
  Gone(o, "delNsg", AllShared({"nsg"}), Shared("subnet") \notin azure) /\ UNCHANGED <<azRest, Machines>>

\* Faulty variant: nobody looks for other VMs.
DeleteShared(o) == ListVms(o, "listShared", 0)

DeleteSharedInfraIfOrphaned(o) == ListVms(o, "listShared", 3)
DeleteStorage(o) ==
  /\ Gone(o, "delStorage", AllShared({"storage", "share", "roles"}), TRUE)
  /\ shareFile' = NoFile
  /\ UNCHANGED <<power, boot, secret, gateway, azRest>>
DeleteIdentity(o) == Gone(o, "delIdentity", AllShared({"identity", "roles"}), TRUE) /\ UNCHANGED <<azRest, Machines>>
\* By its derived name: a vault named in the configuration stays.
DeleteVault(o) ==
  /\ Gone(o, "delVault", AllShared({"vault", "roles"}), ~setup.vault)
  /\ secret' = IF setup.vault THEN secret ELSE [c \in VmBots |-> "absent"]
  /\ UNCHANGED <<power, boot, shareFile, gateway, azRest>>

-----------------------------------------------------------------------------
(* AzureVmTarget *)

\* Faulty variant: the NIC comes before its address.
NicFirst ==
  <<"vnet", "nsg", "subnet", "storage", "share", "identity">>
  \o (IF setup.tenant THEN <<"vault", "roles">> ELSE <<>>) \o <<"secret", "nic", "pip", "vm">>

InstallCalls ==
  <<"vnet", "nsg", "subnet", "storage", "share", "identity">>
  \o (IF setup.tenant THEN <<"vault", "roles">> ELSE <<>>) \o <<"secret", "pip", "nic", "vm">>

\* Faulty variant: the address goes before the NIC that holds it.
AddressFirst ==
  <<"delVm", "delPip", "delNic", "delDisk", "delSecret", "listNet", "delVnet", "delNsg",
    "listShared", "delStorage", "delIdentity", "delVault">>

DestroyCalls ==
  <<"delVm", "delNic", "delDisk", "delPip", "delSecret", "listNet", "delVnet", "delNsg",
    "listShared", "delStorage", "delIdentity", "delVault">>

ConfigureCalls == IF setup.vault THEN <<"putSecret", "run">> ELSE <<"run">>

Busy(o) == todo[o] # NoOp
Destroying(o) == todo[o].op = "destroy"

\* The reconciler, or what else calls the target of a bot, starts an operation.
\* An operation that overlaps a destroy, and a destroy that overlaps an install
\* of its bot or has a failing call, are noted for the properties.
Ask(o, b, op, calls) ==
  /\ azureLeft.op > 0 /\ azureLeft' = [azureLeft EXCEPT !.op = @ - 1]
  /\ ~Busy(o)
  /\ MayCall(todo, b, op)
  /\ todo' = [todo EXCEPT ![o] = [op |-> op, bot |-> b, calls |-> calls]]
  /\ azCalm' = (azCalm /\ \A p \in VmTasks : ~Destroying(p) /\ (op = "destroy" => ~Busy(p)))
  /\ leaky' = CASE op = "install" -> (leaky \ {o}) \cup Underway(todo, b, {"destroy"})
              [] op = "destroy" /\ Underway(todo, b, {"install"}) # {} -> leaky \cup {o}
              [] OTHER -> leaky \ {o}
  /\ UNCHANGED <<azure, setup, Machines>>

Install(o, b) == Ask(o, b, "install", InstallCalls)
Configure(o, b) == Ask(o, b, "configure", ConfigureCalls)
Start(o, b) == Ask(o, b, "start", <<"start">>)
Stop(o, b) == Ask(o, b, "stop", <<"stop">>)
UpdateResources(o, b) == Ask(o, b, "resize", <<"stop", "resize", "start">>)
Destroy(o, b) == Ask(o, b, "destroy", DestroyCalls)

PutSecret(o) ==
  /\ NextIs(o, "putSecret")
  /\ secret' = [secret EXCEPT ![VmBot(o)] = "config"]
  /\ Proceed(o)
  /\ UNCHANGED <<azure, power, boot, shareFile, gateway, azRest>>

Mounted(b) == boot[b] \in {"fetch", "write", "run", "up"}

\* The Run Command writes the file and restarts the container; it fails only when
\* the VM does not run.  Before the share is mounted the write is lost, unnoticed.
RunCommand(o) ==
  /\ NextIs(o, "run")
  /\ IF VmBot(o) \in power THEN Proceed(o) ELSE Abandon(o)
  /\ shareFile' = IF VmBot(o) \in power /\ Mounted(VmBot(o)) THEN [of |-> VmBot(o), is |-> "config"] ELSE shareFile
  /\ gateway' = IF VmBot(o) \in power /\ boot[VmBot(o)] = "up" THEN [gateway EXCEPT ![VmBot(o)] = shareFile'] ELSE gateway
  /\ UNCHANGED <<azure, power, boot, secret, azRest>>

\* A resize that fails starts the VM again; another operation ends.
GiveUpOn(o) ==
  IF todo[o].op = "resize" /\ todo[o].calls # <<"recover">>
  THEN todo' = [todo EXCEPT ![o].calls = <<"recover">>]
  ELSE Abandon(o)

\* A VM that is gone by now can be neither stopped, resized nor started.
OnVm(o, call) ==
  /\ NextIs(o, call)
  /\ IF HasVm(VmBot(o)) THEN Proceed(o) ELSE GiveUpOn(o)

\* The container comes back with the VM; an interrupted cloud-init starts again.
PowerOn(b) ==
  IF b \in power \/ ~HasVm(b) THEN UNCHANGED <<power, gateway, boot>>
  ELSE /\ power' = power \cup {b}
       /\ gateway' = IF boot[b] = "up" THEN [gateway EXCEPT ![b] = shareFile] ELSE gateway
       /\ boot' = IF boot[b] \in {"fetch", "write", "run"} THEN [boot EXCEPT ![b] = "mount"] ELSE boot

StartVm(o) == OnVm(o, "start") /\ PowerOn(VmBot(o)) /\ UNCHANGED <<azure, secret, shareFile, azRest>>
RecoverVm(o) == OnVm(o, "recover") /\ PowerOn(VmBot(o)) /\ UNCHANGED <<azure, secret, shareFile, azRest>>

StopVm(o) ==
  /\ OnVm(o, "stop")
  /\ power' = power \ {VmBot(o)}
  /\ UNCHANGED <<azure, boot, secret, shareFile, gateway, azRest>>

ResizeVm(o) == OnVm(o, "resize") /\ UNCHANGED <<azure, azRest, Machines>>

\* A call that Azure fails ends an operation; deletions and lists go on.
CallFails(o) ==
  /\ Busy(o)
  /\ azureLeft.fault > 0 /\ azureLeft' = [azureLeft EXCEPT !.fault = @ - 1]
  /\ CASE Destroying(o) ->
            Skip(o, IF NextIs(o, "listNet") THEN 3
                    ELSE IF NextIs(o, "listShared") THEN 4
                    \* safeDelete passes errors on to the end of destroy
                    ELSE IF NextIs(o, "delStorage") THEN 3
                    ELSE IF NextIs(o, "delIdentity") THEN 2 ELSE 1)
       [] NextIs(o, "putSecret") \/ NextIs(o, "secret") -> Proceed(o)
       [] OTHER -> GiveUpOn(o)
  /\ leaky' = leaky \cup {o}
  /\ UNCHANGED <<azure, setup, azCalm, Machines>>

-----------------------------------------------------------------------------
(* cloud-init on the VM *)

Boots(b, from, to) == b \in power /\ boot[b] = from /\ boot' = [boot EXCEPT ![b] = to]

\* The storage key needs the role; without it the script exits, for good.
MountShare(b) ==
  /\ Boots(b, "mount", IF AllShared({"share", "roles"}) \subseteq azure
                       THEN IF setup.tenant THEN "fetch" ELSE "run" ELSE "dead")
  /\ UNCHANGED <<azure, todo, power, secret, shareFile, gateway, azRest>>

\* A secret that is there is written to the share; a token is generated otherwise.
FetchSecret(b) ==
  /\ Boots(b, "fetch", IF secret[b] = "config" THEN "run" ELSE "write")
  /\ shareFile' = IF secret[b] = "config" THEN [of |-> b, is |-> "config"] ELSE shareFile
  /\ UNCHANGED <<azure, todo, power, secret, gateway, azRest>>

WriteGenerated(b) ==
  /\ Boots(b, "write", "run")
  /\ shareFile' = [of |-> b, is |-> "generated"]
  /\ UNCHANGED <<azure, todo, power, secret, gateway, azRest>>

RunContainer(b) ==
  /\ Boots(b, "run", "up")
  /\ gateway' = [gateway EXCEPT ![b] = shareFile]
  /\ UNCHANGED <<azure, todo, power, secret, shareFile, azRest>>

-----------------------------------------------------------------------------
AzureInit ==
  /\ azure = {}
  /\ setup \in [vault : BOOLEAN, tenant : BOOLEAN]
  /\ todo = [o \in VmTasks |-> NoOp]
  /\ power = {} /\ boot = [b \in VmBots |-> "off"]
  /\ secret = [b \in VmBots |-> "absent"]
  /\ shareFile = NoFile /\ gateway = [b \in VmBots |-> NoFile]
  /\ azCalm = TRUE /\ leaky = {}
  /\ azureLeft = [op |-> AzureOps, fault |-> AzureFaults]

AzureNext ==
  \/ \E o \in VmTasks :
       \/ \E b \in VmBots : Install(o, b) \/ Configure(o, b) \/ Start(o, b) \/ Stop(o, b)
                            \/ UpdateResources(o, b) \/ Destroy(o, b)
       \/ EnsureVNet(o) \/ EnsureNSG(o) \/ EnsureVmSubnet(o) \/ EnsureStorageAccount(o)
       \/ EnsureFileShare(o) \/ EnsureManagedIdentity(o) \/ EnsureKeyVault(o) \/ AssignRoles(o)
       \/ EnsurePublicIp(o) \/ CreateNic(o) \/ StoreEmptySecret(o) \/ CreateVm(o)
       \/ DeleteVm(o) \/ DeleteNic(o) \/ DeleteDisk(o) \/ DeletePublicIp(o) \/ DeleteSecret(o)
       \/ CheckNetwork(o) \/ DeleteVNet(o) \/ DeleteNSG(o)
       \/ DeleteSharedInfraIfOrphaned(o) \/ DeleteStorage(o) \/ DeleteIdentity(o) \/ DeleteVault(o)
       \/ PutSecret(o) \/ RunCommand(o) \/ StartVm(o) \/ StopVm(o) \/ ResizeVm(o)
       \/ CallFails(o) \/ RecoverVm(o)
  \/ \E b \in VmBots : MountShare(b) \/ FetchSecret(b) \/ WriteGenerated(b) \/ RunContainer(b)

AzureSpec == AzureInit /\ [][AzureNext]_azVars

-----------------------------------------------------------------------------
(* Properties *)

\* Whatever installs, failures and destroys came before, a VM has the shared
\* resources it was made with: the last destroy alone removes them.  Only as long
\* as nothing overlaps a destroy: the lists of VMs cannot see an install that has
\* not come to its VM yet.
VmsKeepShared ==
  azCalm /\ (\E b \in VmBots : HasVm(b)) =>
    AllShared({"vnet", "subnet", "nsg", "storage", "share", "identity"}) \subseteq azure

\* A destroy of which no call failed leaves nothing of the bot that costs money,
\* whatever else runs for this bot or for others, except an install of this bot:
\* the reconciler lets a delete overlap it, and what it makes behind the delete stays.
DestroyLeavesNothing ==
  [][\A o \in VmTasks : Destroying(o) /\ todo'[o] = NoOp /\ o \notin leaky'
       => \A k \in OwnKinds : <<k, VmBot(o)>> \notin azure']_azVars

\* An install after failed installs and destroys, none of them overlapping a
\* destroy, finds what it needs at each call: it fails only when Azure fails it.
InstallFindsItsNeeds ==
  [][\A o \in VmTasks : azCalm /\ todo[o].op = "install" /\ todo'[o] = NoOp /\ azureLeft' = azureLeft
       => <<"vm", VmBot(o)>> \in azure']_azVars
=============================================================================
