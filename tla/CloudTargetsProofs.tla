-------------------------- MODULE CloudTargetsProofs --------------------------
(* Theorems about the deployment targets, for any bots, networks, operations    *)
(* and faults.  An operation is a sequence of calls, so an invariant says what  *)
(* an operation has achieved when so many of its calls are left.                *)
EXTENDS CloudTargets, PersonasProofs, SequenceTheorems, TLAPS

-----------------------------------------------------------------------------
(* What is left of a sequence of calls *)

IsRest(X, s, C) ==
  /\ s \in Seq(X) /\ s # <<>> /\ Len(s) <= Len(C)
  /\ \A i \in 1..Len(s) : s[i] = C[Len(C) - Len(s) + i]

LEMMA RestAtFirst ==
  ASSUME NEW X, NEW C \in Seq(X), C # <<>>
  PROVE  IsRest(X, C, C)
  BY DEF IsRest

\* The next call is known from how many are left, and what follows is a rest again.
LEMMA RestGoesOn ==
  ASSUME NEW X, NEW C \in Seq(X), NEW s, IsRest(X, s, C)
  PROVE  /\ Len(s) \in Nat \ {0} /\ Len(C) \in Nat /\ Len(s) <= Len(C)
         /\ Head(s) = C[Len(C) - Len(s) + 1]
         /\ \A n \in 1..Len(s) - 1 : /\ Len(SubSeq(s, n + 1, Len(s))) = Len(s) - n
                                     /\ IsRest(X, SubSeq(s, n + 1, Len(s)), C)
  <1>1. s \in Seq(X) /\ Len(s) \in Nat \ {0} /\ Len(C) \in Nat /\ Len(s) <= Len(C)
    BY DEF IsRest
  <1>2. Head(s) = C[Len(C) - Len(s) + 1]
    BY <1>1 DEF IsRest
  <1>3. ASSUME NEW n \in 1..Len(s) - 1
        PROVE  /\ Len(SubSeq(s, n + 1, Len(s))) = Len(s) - n
               /\ IsRest(X, SubSeq(s, n + 1, Len(s)), C)
    <2> DEFINE t == SubSeq(s, n + 1, Len(s))
    <2>1. \A i \in n + 1 .. Len(s) : s[i] \in X
      BY <1>1, ElementOfSeq
    <2>2. t \in Seq(X) /\ Len(t) = Len(s) - n /\ \A i \in 1..Len(s) - n : t[i] = s[n + i]
      <3>1. /\ t \in Seq(X)
            /\ Len(t) = IF n + 1 <= Len(s) THEN Len(s) - (n + 1) + 1 ELSE 0
            /\ \A i \in 1 .. Len(s) - (n + 1) + 1 : t[i] = s[(n + 1) + i - 1]
        <4>1. n + 1 \in Int /\ Len(s) \in Int
          BY <1>1
        <4> HIDE DEF t
        <4>2. QED
          BY <2>1, <4>1, SubSeqProperties DEF t
      <3> HIDE DEF t
      <3>2. QED
        BY <1>1, <3>1
    <2> HIDE DEF t
    <2>3. t # <<>>
      <3>1. Len(t) # 0
        BY <1>1, <2>2
      <3>2. QED
        BY <3>1, EmptySeq
    <2>4. \A i \in 1..Len(t) : t[i] = C[Len(C) - Len(t) + i]
      <3>1. TAKE i \in 1..Len(t)
      <3>2. n + i \in 1..Len(s) /\ Len(C) - Len(s) + (n + i) = Len(C) - Len(t) + i
        BY <1>1, <2>2
      <3>3. QED
        BY <1>1, <2>2, <3>2 DEF IsRest
    <2>5. QED
      BY <1>1, <2>2, <2>3, <2>4 DEF IsRest, t
  <1>4. QED
    BY <1>1, <1>2, <1>3

-----------------------------------------------------------------------------
(* AzureVm *)

AzCalls ==
  {"vnet", "nsg", "subnet", "storage", "share", "identity", "vault", "roles", "secret", "pip", "nic",
   "vm", "delVm", "delNic", "delDisk", "delPip", "delSecret", "listNet", "delVnet", "delNsg",
   "listShared", "delStorage", "delIdentity", "delVault", "putSecret", "run", "start", "stop",
   "resize", "recover"}

LEMMA InstallOrder ==
  ASSUME setup.tenant \in BOOLEAN
  PROVE  /\ InstallCalls \in Seq(AzCalls) /\ InstallCalls # <<>>
         /\ Len(InstallCalls) = IF setup.tenant THEN 12 ELSE 10
         /\ InstallCalls[1] = "vnet" /\ InstallCalls[2] = "nsg" /\ InstallCalls[3] = "subnet"
         /\ InstallCalls[4] = "storage" /\ InstallCalls[5] = "share" /\ InstallCalls[6] = "identity"
         /\ setup.tenant => /\ InstallCalls[7] = "vault" /\ InstallCalls[8] = "roles"
                            /\ InstallCalls[9] = "secret" /\ InstallCalls[10] = "pip"
                            /\ InstallCalls[11] = "nic" /\ InstallCalls[12] = "vm"
         /\ ~setup.tenant => /\ InstallCalls[7] = "secret" /\ InstallCalls[8] = "pip"
                             /\ InstallCalls[9] = "nic" /\ InstallCalls[10] = "vm"
  <1> DEFINE S == <<"vnet", "nsg", "subnet", "storage", "share", "identity">>
             T == IF setup.tenant THEN <<"vault", "roles">> ELSE <<>>
             U == <<"secret", "pip", "nic", "vm">>
  <1>1. /\ S \in Seq(AzCalls) /\ Len(S) = 6
        /\ S[1] = "vnet" /\ S[2] = "nsg" /\ S[3] = "subnet"
        /\ S[4] = "storage" /\ S[5] = "share" /\ S[6] = "identity"
    BY DEF AzCalls
  <1>2. /\ U \in Seq(AzCalls) /\ Len(U) = 4
        /\ U[1] = "secret" /\ U[2] = "pip" /\ U[3] = "nic" /\ U[4] = "vm"
    BY DEF AzCalls
  <1>3. /\ T \in Seq(AzCalls) /\ Len(T) = IF setup.tenant THEN 2 ELSE 0
        /\ setup.tenant => T[1] = "vault" /\ T[2] = "roles"
    <2>1. CASE setup.tenant
      BY <2>1 DEF AzCalls
    <2>2. CASE ~setup.tenant
      BY <2>2, EmptySeq
    <2>3. QED
      BY <2>1, <2>2
  <1>4. InstallCalls = (S \o T) \o U
    BY DEF InstallCalls
  <1> HIDE DEF S, T, U
  <1>5. /\ S \o T \in Seq(AzCalls) /\ Len(S \o T) = Len(S) + Len(T)
        /\ \A i \in 1..Len(S) + Len(T) : (S \o T)[i] = IF i <= Len(S) THEN S[i] ELSE T[i - Len(S)]
    BY <1>1, <1>3, ConcatProperties
  <1> DEFINE V == S \o T
  <1>6. /\ V \in Seq(AzCalls) /\ Len(V) = 6 + Len(T)
        /\ \A i \in 1..6 : V[i] = S[i]
        /\ \A i \in 1..Len(T) : V[i + 6] = T[i]
    <2>1. \A i \in 1..Len(T) : i + 6 \in 1..6 + Len(T) /\ ~(i + 6 <= 6) /\ i + 6 - 6 = i
      BY <1>3
    <2>2. QED
      BY <1>1, <1>3, <1>5, <2>1
  <1> HIDE DEF V
  <1>7. /\ V \o U \in Seq(AzCalls) /\ Len(V \o U) = Len(V) + Len(U)
        /\ \A i \in 1..Len(V) + Len(U) : (V \o U)[i] = IF i <= Len(V) THEN V[i] ELSE U[i - Len(V)]
    <2>1. V \in Seq(AzCalls) /\ U \in Seq(AzCalls)
      BY <1>2, <1>6
    <2>2. QED
      BY <2>1, ConcatProperties
  <1> DEFINE W == InstallCalls
  <1>8. /\ W \in Seq(AzCalls) /\ Len(W) = Len(V) + Len(U)
        /\ \A i \in 1..Len(V) + Len(U) : W[i] = IF i <= Len(V) THEN V[i] ELSE U[i - Len(V)]
    BY <1>4, <1>7, Zenon DEF V
  <1> HIDE DEF W
  <1>9. CASE setup.tenant
    <2>1. V[7] = "vault" /\ V[8] = "roles" /\ Len(V) = 8
      <3>1. 1 \in 1..Len(T) /\ 2 \in 1..Len(T) /\ 1 + 6 = 7 /\ 2 + 6 = 8
        BY <1>3, <1>9
      <3>2. QED
        BY <1>3, <1>6, <1>9, <3>1
    <2>2. Len(W) = 12 /\ \A i \in 1..12 : W[i] = IF i <= 8 THEN V[i] ELSE U[i - 8]
      BY <1>2, <1>8, <2>1
    <2>3. \A i \in 1..6 : W[i] = S[i]
      BY <1>6, <2>2
    <2>4. /\ W[7] = "vault" /\ W[8] = "roles" /\ W[9] = "secret"
          /\ W[10] = "pip" /\ W[11] = "nic" /\ W[12] = "vm"
      BY <1>2, <2>1, <2>2
    <2>5. W # <<>>
      BY <2>2, EmptySeq
    <2>6. /\ W[1] = "vnet" /\ W[2] = "nsg" /\ W[3] = "subnet"
          /\ W[4] = "storage" /\ W[5] = "share" /\ W[6] = "identity"
      BY <1>1, <2>3
    <2>7. W \in Seq(AzCalls) /\ Len(W) = IF setup.tenant THEN 12 ELSE 10
      BY <1>8, <1>9, <2>2
    <2>8. QED
      BY <1>9, <2>4, <2>5, <2>6, <2>7, Zenon DEF W
  <1>10. CASE ~setup.tenant
    <2>1. Len(V) = 6
      BY <1>3, <1>6, <1>10
    <2>2. Len(W) = 10 /\ \A i \in 1..10 : W[i] = IF i <= 6 THEN V[i] ELSE U[i - 6]
      BY <1>2, <1>8, <2>1
    <2>3. \A i \in 1..6 : W[i] = S[i]
      BY <1>6, <2>2
    <2>4. W[7] = "secret" /\ W[8] = "pip" /\ W[9] = "nic" /\ W[10] = "vm"
      BY <1>2, <2>2
    <2>5. W # <<>>
      BY <2>2, EmptySeq
    <2>6. /\ W[1] = "vnet" /\ W[2] = "nsg" /\ W[3] = "subnet"
          /\ W[4] = "storage" /\ W[5] = "share" /\ W[6] = "identity"
      BY <1>1, <2>3
    <2>7. W \in Seq(AzCalls) /\ Len(W) = IF setup.tenant THEN 12 ELSE 10
      BY <1>8, <1>10, <2>2
    <2>8. QED
      BY <1>10, <2>4, <2>5, <2>6, <2>7, Zenon DEF W
  <1>11. QED
    BY <1>9, <1>10

LEMMA DestroyOrder ==
  /\ DestroyCalls \in Seq(AzCalls) /\ DestroyCalls # <<>> /\ Len(DestroyCalls) = 12
  /\ DestroyCalls[1] = "delVm" /\ DestroyCalls[2] = "delNic" /\ DestroyCalls[3] = "delDisk"
  /\ DestroyCalls[4] = "delPip" /\ DestroyCalls[5] = "delSecret" /\ DestroyCalls[6] = "listNet"
  /\ DestroyCalls[7] = "delVnet" /\ DestroyCalls[8] = "delNsg" /\ DestroyCalls[9] = "listShared"
  /\ DestroyCalls[10] = "delStorage" /\ DestroyCalls[11] = "delIdentity" /\ DestroyCalls[12] = "delVault"
  BY DEF DestroyCalls, AzCalls

Left(o) == Len(todo[o].calls)
OtherOps == {"configure", "start", "stop", "resize"}
OtherCalls == {"putSecret", "run", "start", "stop", "resize", "recover"}

\* Where an operation stands.
Stands(o) ==
  \/ todo[o] = NoOp
  \/ /\ todo[o].bot \in VmBots
     /\ \/ todo[o].op = "install" /\ IsRest(AzCalls, todo[o].calls, InstallCalls)
        \/ todo[o].op = "destroy" /\ IsRest(AzCalls, todo[o].calls, DestroyCalls)
        \/ todo[o].op \in OtherOps /\ todo[o].calls # <<>> /\ todo[o].calls \in Seq(OtherCalls)

AzOps ==
  [op : {"none", "install", "destroy"} \cup OtherOps, bot : VmBots \cup {Rg}, calls : Seq(AzCalls)]

AzShape ==
  /\ setup \in [vault : BOOLEAN, tenant : BOOLEAN]
  /\ azureLeft \in [op : Nat, fault : Nat]
  /\ todo \in [VmTasks -> AzOps]
  /\ \A o \in VmTasks : Stands(o)

\* How many calls are left of an install when the one for a resource is next.
LeftAt(k) ==
  LET more == IF setup.tenant THEN 2 ELSE 0
  IN  CASE k = "vnet" -> 10 + more
        [] k = "nsg" -> 9 + more
        [] k = "subnet" -> 8 + more
        [] k = "storage" -> 7 + more
        [] k = "share" -> 6 + more
        [] k = "identity" -> 5 + more
        [] k = "vault" -> 6
        [] k = "roles" -> 5
        [] k = "pip" -> 3
        [] k = "nic" -> 2

Base == {"vnet", "nsg", "subnet", "storage", "share", "identity"}
MadeKinds == Base \cup {"pip", "nic"} \cup (IF setup.tenant THEN {"vault", "roles"} ELSE {})
MadeBy(k, b) == IF k \in {"pip", "nic"} THEN <<k, b>> ELSE Shared(k)

\* As long as nothing overlaps a destroy, an install finds what it has made.
MadeSoFar(o) ==
  azCalm /\ todo[o].op = "install" =>
    \A k \in MadeKinds : Left(o) < LeftAt(k) => MadeBy(k, VmBot(o)) \in azure

\* A destroy that counts for the property has no install of its bot beside it.
Unhindered(o) ==
  Destroying(o) /\ o \notin leaky =>
    \A p \in VmTasks : todo[p].op = "install" => VmBot(p) # VmBot(o)

\* It leaves nothing of what it has deleted.
GoneSoFar(o) ==
  Destroying(o) /\ o \notin leaky =>
    /\ Left(o) < 12 => <<"vm", VmBot(o)>> \notin azure
    /\ Left(o) < 11 => <<"nic", VmBot(o)>> \notin azure
    /\ Left(o) < 10 => <<"disk", VmBot(o)>> \notin azure
    /\ Left(o) < 9 => <<"pip", VmBot(o)>> \notin azure

\* A destroy that does not overlap is alone, and deletes what is shared when
\* there is no VM.
DestroyAlone(o) ==
  azCalm /\ Destroying(o) =>
    /\ \A p \in VmTasks \ {o} : todo[p] = NoOp
    /\ Left(o) \in {6, 5, 3, 2, 1} => \A c \in VmBots : ~HasVm(c)

AzInv ==
  /\ AzShape
  /\ \A o \in VmTasks : MadeSoFar(o) /\ Unhindered(o) /\ GoneSoFar(o) /\ DestroyAlone(o)
  /\ VmsKeepShared

MakeNames ==
  {"vnet", "nsg", "subnet", "storage", "share", "identity", "vault", "roles", "secret", "pip", "nic", "vm"}
DeleteNames ==
  {"delVm", "delNic", "delDisk", "delPip", "delSecret", "listNet", "delVnet", "delNsg", "listShared",
   "delStorage", "delIdentity", "delVault"}

\* Who makes a call, and how far its operation is.
LEMMA WhoCalls ==
  ASSUME AzShape, NEW o \in VmTasks, NEW call, NextIs(o, call)
  PROVE  /\ todo[o] # NoOp /\ Left(o) \in Nat \ {0}
         /\ \A k \in MadeKinds : call = k => todo[o].op = "install" /\ Left(o) = LeftAt(k)
         /\ call = "secret" => todo[o].op = "install" /\ Left(o) = 4
         /\ call = "vm" => todo[o].op = "install" /\ Left(o) = 1
         /\ call = "delVm" => todo[o].op = "destroy" /\ Left(o) = 12
         /\ call = "delNic" => todo[o].op = "destroy" /\ Left(o) = 11
         /\ call = "delDisk" => todo[o].op = "destroy" /\ Left(o) = 10
         /\ call = "delPip" => todo[o].op = "destroy" /\ Left(o) = 9
         /\ call = "delSecret" => todo[o].op = "destroy" /\ Left(o) = 8
         /\ call = "listNet" => todo[o].op = "destroy" /\ Left(o) = 7
         /\ call = "delVnet" => todo[o].op = "destroy" /\ Left(o) = 6
         /\ call = "delNsg" => todo[o].op = "destroy" /\ Left(o) = 5
         /\ call = "listShared" => todo[o].op = "destroy" /\ Left(o) = 4
         /\ call = "delStorage" => todo[o].op = "destroy" /\ Left(o) = 3
         /\ call = "delIdentity" => todo[o].op = "destroy" /\ Left(o) = 2
         /\ call = "delVault" => todo[o].op = "destroy" /\ Left(o) = 1
         /\ call \in OtherCalls => todo[o].op \in OtherOps
         /\ call \in {"vault", "roles"} => setup.tenant
  <1>1. todo[o] # NoOp /\ todo[o].calls # <<>> /\ call = Head(todo[o].calls)
    BY DEF NextIs, NoOp
  <1>2. /\ setup.tenant \in BOOLEAN /\ Stands(o)
        /\ todo[o].calls \in Seq(AzCalls)
    BY DEF AzShape, AzOps
  <1>3. CASE todo[o].op = "install" /\ IsRest(AzCalls, todo[o].calls, InstallCalls)
    <2>1. /\ Left(o) \in Nat \ {0} /\ Left(o) <= Len(InstallCalls)
          /\ call = InstallCalls[Len(InstallCalls) - Left(o) + 1]
      <3>1. InstallCalls \in Seq(AzCalls)
        BY <1>2, InstallOrder
      <3>2. PICK C \in Seq(AzCalls) : C = InstallCalls
        BY <3>1
      <3>3. PICK s : s = todo[o].calls
        OBVIOUS
      <3>4. IsRest(AzCalls, s, C)
        BY <1>3, <3>2, <3>3
      <3>5. Len(s) \in Nat \ {0} /\ Len(s) <= Len(C) /\ Head(s) = C[Len(C) - Len(s) + 1]
        BY <3>4, RestGoesOn
      <3>6. QED
        BY <1>1, <3>2, <3>3, <3>5 DEF Left
    <2>2. CASE setup.tenant
      <3>1. /\ Left(o) = 1 => call = "vm"
            /\ Left(o) = 2 => call = "nic"
            /\ Left(o) = 3 => call = "pip"
            /\ Left(o) = 4 => call = "secret"
            /\ Left(o) = 5 => call = "roles"
            /\ Left(o) = 6 => call = "vault"
            /\ Left(o) = 7 => call = "identity"
            /\ Left(o) = 8 => call = "share"
            /\ Left(o) = 9 => call = "storage"
            /\ Left(o) = 10 => call = "subnet"
            /\ Left(o) = 11 => call = "nsg"
            /\ Left(o) = 12 => call = "vnet"
            /\ Left(o) \in 1..12
        <4>0. Len(InstallCalls) = 12
          BY <1>2, <2>2, InstallOrder
        <4>1. Left(o) \in 1..12 /\ call = InstallCalls[13 - Left(o)]
          BY <2>1, <4>0
        <4>2. QED
          BY <1>2, <2>2, <4>1, InstallOrder
      <3>2. \A k \in MadeKinds : call = k => Left(o) = LeftAt(k)
        BY <2>2, <3>1 DEF MadeKinds, Base, LeftAt
      <3>3. Left(o) \in Nat \ {0}
        BY <2>1
      <3>4. QED
        <4>1. todo[o].op = "install"
          BY <1>3
        <4>2. call \notin OtherCalls /\ \A k \in DeleteNames : call # k
          BY <3>1 DEF OtherCalls, DeleteNames
        <4>3. (call = "secret" => Left(o) = 4) /\ (call = "vm" => Left(o) = 1)
          BY <3>1
        <4>4. call \in {"vault", "roles"} => setup.tenant
          BY <2>2, <3>1
        <4>5. QED
          BY <1>1, <3>2, <3>3, <4>1, <4>2, <4>3, <4>4 DEF DeleteNames
    <2>3. CASE ~setup.tenant
      <3>1. /\ Left(o) = 1 => call = "vm"
            /\ Left(o) = 2 => call = "nic"
            /\ Left(o) = 3 => call = "pip"
            /\ Left(o) = 4 => call = "secret"
            /\ Left(o) = 5 => call = "identity"
            /\ Left(o) = 6 => call = "share"
            /\ Left(o) = 7 => call = "storage"
            /\ Left(o) = 8 => call = "subnet"
            /\ Left(o) = 9 => call = "nsg"
            /\ Left(o) = 10 => call = "vnet"
            /\ Left(o) \in 1..10
        <4>0. Len(InstallCalls) = 10
          BY <1>2, <2>3, InstallOrder
        <4>1. Left(o) \in 1..10 /\ call = InstallCalls[11 - Left(o)]
          BY <2>1, <4>0
        <4>2. QED
          BY <1>2, <2>3, <4>1, InstallOrder
      <3>2. \A k \in MadeKinds : call = k => Left(o) = LeftAt(k)
        BY <2>3, <3>1 DEF MadeKinds, Base, LeftAt
      <3>3. Left(o) \in Nat \ {0}
        BY <2>1
      <3>4. QED
        <4>1. todo[o].op = "install"
          BY <1>3
        <4>2. call \notin OtherCalls /\ \A k \in DeleteNames : call # k
          BY <3>1 DEF OtherCalls, DeleteNames
        <4>3. (call = "secret" => Left(o) = 4) /\ (call = "vm" => Left(o) = 1)
          BY <3>1
        <4>4. call \in {"vault", "roles"} => setup.tenant
          BY <2>3, <3>1
        <4>5. QED
          BY <1>1, <3>2, <3>3, <4>1, <4>2, <4>3, <4>4 DEF DeleteNames
    <2>4. QED
      BY <2>2, <2>3
  <1>4. CASE todo[o].op = "destroy" /\ IsRest(AzCalls, todo[o].calls, DestroyCalls)
    <2>1. /\ Left(o) \in Nat \ {0} /\ Left(o) <= 12
          /\ call = DestroyCalls[12 - Left(o) + 1]
      <3>1. /\ DestroyCalls \in Seq(AzCalls) /\ Len(DestroyCalls) = 12
            /\ IsRest(AzCalls, todo[o].calls, DestroyCalls)
        BY <1>4, DestroyOrder
      <3>2. /\ Len(todo[o].calls) \in Nat \ {0} /\ Len(todo[o].calls) <= Len(DestroyCalls)
            /\ Head(todo[o].calls) = DestroyCalls[Len(DestroyCalls) - Len(todo[o].calls) + 1]
        BY <3>1, RestGoesOn, ZenonT(30)
      <3>3. QED
        BY <1>1, <3>1, <3>2 DEF Left
    <2>2. /\ Left(o) = 1 => call = "delVault"
          /\ Left(o) = 2 => call = "delIdentity"
          /\ Left(o) = 3 => call = "delStorage"
          /\ Left(o) = 4 => call = "listShared"
          /\ Left(o) = 5 => call = "delNsg"
          /\ Left(o) = 6 => call = "delVnet"
          /\ Left(o) = 7 => call = "listNet"
          /\ Left(o) = 8 => call = "delSecret"
          /\ Left(o) = 9 => call = "delPip"
          /\ Left(o) = 10 => call = "delDisk"
          /\ Left(o) = 11 => call = "delNic"
          /\ Left(o) = 12 => call = "delVm"
          /\ Left(o) \in 1..12
      BY <2>1, DestroyOrder, SMTT(30)
    <2>3. call \notin OtherCalls /\ call \notin MakeNames
      BY <2>2 DEF OtherCalls, MakeNames
    <2>4. \A k \in MadeKinds : k \in MakeNames
      BY DEF MadeKinds, Base, MakeNames
    <2>5. /\ call = "delVm" => Left(o) = 12
          /\ call = "delNic" => Left(o) = 11
          /\ call = "delDisk" => Left(o) = 10
          /\ call = "delPip" => Left(o) = 9
          /\ call = "delSecret" => Left(o) = 8
          /\ call = "listNet" => Left(o) = 7
          /\ call = "delVnet" => Left(o) = 6
          /\ call = "delNsg" => Left(o) = 5
          /\ call = "listShared" => Left(o) = 4
          /\ call = "delStorage" => Left(o) = 3
          /\ call = "delIdentity" => Left(o) = 2
          /\ call = "delVault" => Left(o) = 1
      BY <2>2
    <2>6. todo[o].op = "destroy"
      BY <1>4
    <2>7. QED
      BY <1>1, <2>1, <2>3, <2>4, <2>5, <2>6 DEF MakeNames
  <1>5. CASE todo[o].op \in OtherOps /\ todo[o].calls \in Seq(OtherCalls)
    <2>1. call \in OtherCalls
      BY <1>1, <1>5
    <2>2. Left(o) \in Nat \ {0}
      BY <1>1, <1>5 DEF Left
    <2>3. QED
      BY <1>1, <1>5, <2>1, <2>2 DEF MadeKinds, Base, OtherCalls
  <1>6. QED
    BY <1>1, <1>2, <1>3, <1>4, <1>5 DEF Stands

LEMMA SkipsOn ==
  ASSUME AzShape, NEW o \in VmTasks, todo[o] # NoOp, NEW n \in 1..Left(o), Skip(o, n), setup' = setup
  PROVE  /\ todo' \in [VmTasks -> AzOps] /\ Stands(o)'
         /\ \A c \in VmTasks \ {o} : todo'[c] = todo[c]
         /\ n = Left(o) => todo'[o] = NoOp
         /\ n # Left(o) => todo'[o].op = todo[o].op /\ todo'[o].bot = todo[o].bot /\ Left(o)' = Left(o) - n
  <1> DEFINE s == todo[o].calls
             t == SubSeq(s, n + 1, Len(s))
  <1>1. todo \in [VmTasks -> AzOps] /\ todo[o] \in AzOps /\ s \in Seq(AzCalls) /\ Stands(o)
    BY DEF AzShape, AzOps
  <1>2. NoOp \in AzOps
    BY EmptySeq DEF NoOp, AzOps
  <1>3. CASE n = Left(o)
    <2>1. todo' = [todo EXCEPT ![o] = NoOp]
      BY <1>1, <1>3 DEF Skip, Left
    <2>2. QED
      BY <1>1, <1>2, <1>3, <2>1 DEF Stands
  <1>4. CASE n # Left(o)
    <2>1. todo' = [todo EXCEPT ![o] = [todo[o] EXCEPT !.calls = t]]
      <3>1. Len(todo[o].calls) # n
        BY <1>4 DEF Left
      <3>2. QED
        BY <3>1 DEF Skip
    <2>2. t \in Seq(AzCalls) /\ Len(t) = Len(s) - n
      <3>1. \A i \in n + 1 .. Len(s) : s[i] \in AzCalls
        BY <1>1, ElementOfSeq
      <3>2. n + 1 \in Int /\ Len(s) \in Int /\ n + 1 <= Len(s)
        BY <1>1, <1>4 DEF Left
      <3> HIDE DEF s
      <3>3. t \in Seq(AzCalls) /\ Len(t) = IF n + 1 <= Len(s) THEN Len(s) - (n + 1) + 1 ELSE 0
        BY <3>1, <3>2, SubSeqProperties
      <3>4. QED
        BY <3>2, <3>3
    <2> HIDE DEF t
    <2>3. /\ todo'[o].op = todo[o].op /\ todo'[o].bot = todo[o].bot /\ todo'[o].calls = t
          /\ todo' \in [VmTasks -> AzOps]
          /\ \A c \in VmTasks \ {o} : todo'[c] = todo[c]
      BY <1>1, <2>1, <2>2 DEF AzOps
    <2>4. n \in 1..Len(s) - 1
      BY <1>1, <1>4 DEF Left
    <2>5. Stands(o)'
      <3>0. todo[o].bot \in VmBots
        BY <1>1 DEF Stands
      <3>1. CASE todo[o].op = "install" /\ IsRest(AzCalls, s, InstallCalls)
        <4>1. PICK C \in Seq(AzCalls) : C = InstallCalls
          BY InstallOrder DEF AzShape
        <4>2. PICK r : r = s
          OBVIOUS
        <4>3. IsRest(AzCalls, r, C)
          BY <3>1, <4>1, <4>2
        <4>4. \A k \in 1..Len(r) - 1 : IsRest(AzCalls, SubSeq(r, k + 1, Len(r)), C)
          BY <4>3, RestGoesOn
        <4>5. IsRest(AzCalls, t, C)
          BY <2>4, <4>2, <4>4 DEF t
        <4>6. InstallCalls' = C
          BY <4>1 DEF InstallCalls
        <4>7. QED
          BY <2>3, <3>0, <3>1, <4>5, <4>6 DEF Stands
      <3>2. CASE todo[o].op = "destroy" /\ IsRest(AzCalls, s, DestroyCalls)
        <4>1. \A k \in 1..Len(s) - 1 : IsRest(AzCalls, SubSeq(s, k + 1, Len(s)), DestroyCalls)
          BY <3>2, DestroyOrder, RestGoesOn
        <4>2. IsRest(AzCalls, t, DestroyCalls)
          BY <2>4, <4>1 DEF t
        <4>3. QED
          BY <2>3, <3>0, <3>2, <4>2 DEF Stands
      <3>3. CASE todo[o].op \in OtherOps /\ s \in Seq(OtherCalls)
        <4>1. t # <<>>
          BY <2>2, <2>4, EmptySeq
        <4>2. \A i \in n + 1 .. Len(s) : s[i] \in OtherCalls
          BY <3>3, ElementOfSeq
        <4>3. n + 1 \in Int /\ Len(s) \in Int
          BY <1>1
        <4> HIDE DEF s
        <4>4. t \in Seq(OtherCalls)
          BY <4>2, <4>3, SubSeqProperties DEF t
        <4>5. QED
          BY <2>3, <3>0, <3>3, <4>1, <4>4 DEF Stands
      <3>4. QED
        BY <1>1, <3>1, <3>2, <3>3 DEF Stands
    <2>6. QED
      BY <1>4, <2>2, <2>3, <2>5 DEF Left
  <1>5. QED
    BY <1>3, <1>4

\* An operation that is over or given up.
LEMMA GivesUp ==
  ASSUME AzShape, NEW o \in VmTasks, Abandon(o)
  PROVE  /\ todo' \in [VmTasks -> AzOps] /\ Stands(o)' /\ todo'[o] = NoOp
         /\ \A c \in VmTasks \ {o} : todo'[c] = todo[c]
  BY EmptySeq DEF AzShape, AzOps, Abandon, NoOp, Stands

LEMMA ShapeKept ==
  ASSUME AzShape, NEW o \in VmTasks, setup' = setup, azureLeft' \in [op : Nat, fault : Nat],
         todo' \in [VmTasks -> AzOps], Stands(o)', \A c \in VmTasks \ {o} : todo'[c] = todo[c]
  PROVE  AzShape'
  <1>1. InstallCalls' = InstallCalls
    BY DEF InstallCalls
  <1>2. ASSUME NEW c \in VmTasks \ {o} PROVE Stands(c)'
    BY <1>1, <1>2 DEF AzShape, Stands
  <1>3. QED
    BY <1>2 DEF AzShape, AzOps

\* What a step of o has to show.
\* The operation o goes on, for the same bot.
SameOp(o) == todo[o] # NoOp /\ todo'[o].op = todo[o].op /\ todo'[o].bot = todo[o].bot

\* What a step of o has to show.
LEMMA AzKept ==
  ASSUME AzInv, NEW o \in VmTasks, AzShape', setup' = setup, azCalm' = azCalm,
         \A p \in VmTasks \ {o} : todo'[p] = todo[p] /\ (p \in leaky' <=> p \in leaky),
         leaky \subseteq leaky', todo'[o] = NoOp \/ SameOp(o),
         \A c \in VmBots, k \in OwnKinds :
           <<k, c>> \in azure' => <<k, c>> \in azure \/ (todo[o].op = "install" /\ c = VmBot(o)),
         todo[o].op # "destroy" => azure \subseteq azure',
         azCalm /\ Destroying(o)' /\ Left(o)' \in {6, 5, 3, 2, 1} => \A c \in VmBots : ~HasVm(c),
         MadeSoFar(o)', GoneSoFar(o)', VmsKeepShared'
  PROVE  AzInv'
  <1>0. todo'[o] # NoOp => todo'[o].op = todo[o].op /\ todo'[o].bot = todo[o].bot
    BY DEF SameOp
  <1>1. ASSUME NEW p \in VmTasks \ {o} PROVE GoneSoFar(p)'
    <2>1. SUFFICES ASSUME Destroying(p), p \notin leaky, NEW k \in OwnKinds, <<k, VmBot(p)>> \notin azure
                   PROVE  <<k, VmBot(p)>> \notin azure'
      BY DEF AzInv, GoneSoFar, Destroying, Left, OwnKinds, VmBot
    <2>2. VmBot(p) \in VmBots
      BY <2>1 DEF AzInv, AzShape, Stands, Destroying, NoOp, VmBot
    <2>3. todo[o].op = "install" => VmBot(o) # VmBot(p)
      BY <2>1 DEF AzInv, Unhindered
    <2>4. QED
      BY <2>1, <2>2, <2>3
  <1>2. ASSUME NEW p \in VmTasks \ {o} PROVE MadeSoFar(p)'
    <2>1. SUFFICES ASSUME azCalm, todo[p].op = "install", NEW k \in MadeKinds, Left(p) < LeftAt(k)
                   PROVE  MadeBy(k, VmBot(p)) \in azure'
      BY DEF MadeSoFar, MadeKinds, Left, LeftAt, MadeBy, Shared, VmBot
    <2>2. todo[p] # NoOp /\ MadeBy(k, VmBot(p)) \in azure
      BY <2>1 DEF AzInv, MadeSoFar, NoOp
    <2>3. todo[o].op # "destroy"
      BY <2>1, <2>2 DEF AzInv, DestroyAlone, Destroying
    <2>4. QED
      BY <2>2, <2>3
  <1>3. ASSUME NEW p \in VmTasks \ {o} PROVE DestroyAlone(p)'
    <2>1. SUFFICES ASSUME azCalm, Destroying(p)
                   PROVE  /\ \A q \in VmTasks \ {p} : todo'[q] = NoOp
                          /\ Left(p)' \in {6, 5, 3, 2, 1} => \A d \in VmBots : ~HasVm(d)'
      BY DEF DestroyAlone, Destroying
    <2>2. /\ \A q \in VmTasks \ {p} : todo[q] = NoOp
          /\ Left(p) \in {6, 5, 3, 2, 1} => \A d \in VmBots : ~HasVm(d)
      BY <2>1 DEF AzInv, DestroyAlone
    <2>3. todo[o] = NoOp /\ todo'[o] = NoOp /\ Left(p)' = Left(p)
      BY <2>2 DEF Left, SameOp
    <2>4. \A d \in VmBots : HasVm(d)' => HasVm(d)
      <3>1. todo[o].op # "install"
        BY <2>3 DEF NoOp
      <3>2. QED
        BY <3>1 DEF HasVm, OwnKinds
    <2>5. QED
      BY <2>2, <2>3, <2>4
  <1>4. DestroyAlone(o)'
    <2>1. SUFFICES ASSUME azCalm, Destroying(o)'
                   PROVE  /\ \A p \in VmTasks \ {o} : todo'[p] = NoOp
                          /\ Left(o)' \in {6, 5, 3, 2, 1} => \A d \in VmBots : ~HasVm(d)'
      BY DEF DestroyAlone
    <2>2. Destroying(o)
      BY <1>0, <2>1 DEF Destroying, NoOp
    <2>3. \A p \in VmTasks \ {o} : todo[p] = NoOp
      BY <2>1, <2>2 DEF AzInv, DestroyAlone
    <2>4. \A d \in VmBots : HasVm(d)' => HasVm(d)
      BY <2>2 DEF HasVm, OwnKinds, Destroying
    <2>5. QED
      BY <2>1, <2>3, <2>4
  <1>5. ASSUME NEW p \in VmTasks PROVE Unhindered(p)'
    <2>1. SUFFICES ASSUME todo'[p].op = "destroy", p \notin leaky',
                          NEW q \in VmTasks, todo'[q].op = "install"
                   PROVE  todo'[q].bot # todo'[p].bot
      BY DEF Unhindered, Destroying, VmBot
    <2>2. \A r \in {p, q} : todo'[r].op = todo[r].op /\ todo'[r].bot = todo[r].bot
      BY <1>0, <2>1 DEF NoOp
    <2>3. p \notin leaky
      BY <2>1
    <2>4. QED
      BY <2>1, <2>2, <2>3 DEF AzInv, Unhindered, Destroying, VmBot
  <1>6. \A p \in VmTasks : MadeSoFar(p)' /\ Unhindered(p)' /\ GoneSoFar(p)' /\ DestroyAlone(p)'
    BY <1>1, <1>2, <1>3, <1>4, <1>5
  <1>7. QED
    BY <1>6 DEF AzInv

LEMMA LeftAtValues ==
  /\ LeftAt("vnet") = IF setup.tenant THEN 12 ELSE 10
  /\ LeftAt("nsg") = IF setup.tenant THEN 11 ELSE 9
  /\ LeftAt("subnet") = IF setup.tenant THEN 10 ELSE 8
  /\ LeftAt("storage") = IF setup.tenant THEN 9 ELSE 7
  /\ LeftAt("share") = IF setup.tenant THEN 8 ELSE 6
  /\ LeftAt("identity") = IF setup.tenant THEN 7 ELSE 5
  /\ LeftAt("vault") = 6 /\ LeftAt("roles") = 5 /\ LeftAt("pip") = 3 /\ LeftAt("nic") = 2
  BY DEF LeftAt

LEMMA LeftAtRange ==
  ASSUME NEW k \in MadeKinds
  PROVE  /\ LeftAt(k) \in Nat /\ LeftAt(k) > 1
         /\ \A j \in MadeKinds : LeftAt(j) = LeftAt(k) => j = k
  BY LeftAtValues DEF MadeKinds, Base

\* A call for a resource: it is there or made, or the install is given up.
LEMMA MakeStep ==
  ASSUME AzInv, NEW o \in VmTasks, NEW k \in MadeKinds, todo[o].op = "install", Left(o) = LeftAt(k),
         UNCHANGED <<setup, azCalm, leaky, azureLeft>>,
         \/ azure' = azure \cup {MadeBy(k, VmBot(o))} /\ Skip(o, 1)
         \/ azure' = azure /\ Abandon(o)
  PROVE  AzInv'
  <1>1. /\ AzShape /\ setup.tenant \in BOOLEAN /\ todo[o] # NoOp /\ Left(o) \in Nat /\ Left(o) > 1
        /\ azureLeft' \in [op : Nat, fault : Nat]
    <2>1. LeftAt(k) \in Nat /\ LeftAt(k) > 1
      BY LeftAtRange
    <2>2. QED
      BY <2>1 DEF AzInv, AzShape, NoOp
  <1>2. /\ todo' \in [VmTasks -> AzOps] /\ Stands(o)'
        /\ \A c \in VmTasks \ {o} : todo'[c] = todo[c]
        /\ \/ todo'[o] = NoOp
           \/ /\ todo'[o].op = "install" /\ todo'[o].bot = todo[o].bot /\ Left(o)' = Left(o) - 1
              /\ azure' = azure \cup {MadeBy(k, VmBot(o))}
    <2>1. CASE azure' = azure \cup {MadeBy(k, VmBot(o))} /\ Skip(o, 1)
      <3>1. 1 \in 1..Left(o) /\ 1 # Left(o)
        BY <1>1
      <3>2. QED
        BY <1>1, <2>1, <3>1, SkipsOn
    <2>2. CASE Abandon(o)
      BY <1>1, <2>2, GivesUp
    <2>3. QED
      BY <2>1, <2>2
  <1>3. AzShape'
    BY <1>1, <1>2, ShapeKept
  <1>4. azure \subseteq azure' /\ azure' \subseteq azure \cup {MadeBy(k, VmBot(o))}
    OBVIOUS
  <1>5. \A c \in VmBots, x \in OwnKinds : <<x, c>> = MadeBy(k, VmBot(o)) => c = VmBot(o) /\ x # "vm"
    BY AzureAssumption DEF MadeBy, Shared, OwnKinds
  <1>6. MadeSoFar(o)'
    <2>1. SUFFICES ASSUME azCalm, todo'[o].op = "install", NEW j \in MadeKinds, Left(o)' < LeftAt(j)
                   PROVE  MadeBy(j, VmBot(o)) \in azure'
      <3>1. todo'[o].op = "install" => VmBot(o)' = VmBot(o)
        BY <1>2 DEF NoOp, VmBot
      <3>2. QED
        BY <3>1 DEF MadeSoFar, MadeKinds, LeftAt, MadeBy, Shared
    <2>2. Left(o)' = Left(o) - 1 /\ azure' = azure \cup {MadeBy(k, VmBot(o))}
      BY <1>2, <2>1 DEF NoOp
    <2>3. Left(o) < LeftAt(j) \/ j = k
      <3>1. Left(o) - 1 < LeftAt(j) /\ LeftAt(j) \in Nat
        BY <2>1, <2>2, LeftAtRange
      <3>2. Left(o) < LeftAt(j) \/ LeftAt(j) = LeftAt(k)
        BY <1>1, <3>1
      <3>3. QED
        BY <3>2, LeftAtRange
    <2>4. QED
      BY <2>1, <2>2, <2>3 DEF AzInv, MadeSoFar
  <1>7. GoneSoFar(o)' /\ ~Destroying(o)'
    BY <1>2 DEF GoneSoFar, Destroying, NoOp
  <1>8. VmsKeepShared'
    BY <1>4, <1>5 DEF AzInv, VmsKeepShared, HasVm, OwnKinds
  <1>9. /\ leaky \subseteq leaky'
        /\ \A c \in VmBots, x \in OwnKinds :
             <<x, c>> \in azure' => <<x, c>> \in azure \/ (todo[o].op = "install" /\ c = VmBot(o))
    BY <1>4, <1>5
  <1>10. todo'[o] = NoOp \/ SameOp(o)
    <2>1. todo[o].op = "install" /\ todo[o] # NoOp
      BY <1>1
    <2>2. todo'[o] = NoOp \/ (todo'[o].op = "install" /\ todo'[o].bot = todo[o].bot)
      BY <1>2
    <2>3. QED
      BY <2>1, <2>2 DEF SameOp
  <1>11. \A c \in VmTasks \ {o} : todo'[c] = todo[c] /\ (c \in leaky' <=> c \in leaky)
    BY <1>2
  <1>12. QED
    BY <1>3, <1>4, <1>6, <1>7, <1>8, <1>9, <1>10, <1>11, AzKept

\* A step that leaves the resources, of an operation that is not a destroy and of
\* which an install makes nothing more.
LEMMA QuietStep ==
  ASSUME AzInv, NEW o \in VmTasks, azure' = azure, setup' = setup, azCalm' = azCalm,
         leaky' \in {leaky, leaky \cup {o}}, azureLeft' \in [op : Nat, fault : Nat],
         todo' \in [VmTasks -> AzOps], Stands(o)', \A c \in VmTasks \ {o} : todo'[c] = todo[c],
         \/ todo'[o] = NoOp
         \/ todo'[o] = todo[o]
         \/ todo[o].op \in OtherOps /\ todo'[o].op = todo[o].op /\ todo'[o].bot = todo[o].bot
  PROVE  AzInv'
  <1>1. AzShape'
    BY ShapeKept DEF AzInv
  <1>2. todo'[o] = NoOp \/ SameOp(o)
    BY DEF OtherOps, NoOp, SameOp
  <1>3. MadeSoFar(o)'
    <2>1. CASE todo'[o] = NoOp
      BY <2>1 DEF MadeSoFar, NoOp
    <2>2. CASE todo'[o] = todo[o]
      BY <2>2 DEF AzInv, MadeSoFar, MadeKinds, Left, LeftAt, MadeBy, Shared, VmBot
    <2>3. CASE todo'[o].op \in OtherOps
      BY <2>3 DEF MadeSoFar, OtherOps
    <2>4. QED
      BY <2>1, <2>2, <2>3
  <1>4. GoneSoFar(o)'
    <2>1. CASE todo'[o].op # "destroy"
      BY <2>1 DEF GoneSoFar, Destroying
    <2>2. CASE todo'[o].op = "destroy"
      <3>1. todo'[o] = todo[o] /\ (o \notin leaky' => o \notin leaky)
        BY <2>2 DEF NoOp, OtherOps
      <3>2. QED
        BY <3>1 DEF AzInv, GoneSoFar, Destroying, Left, VmBot
    <2>3. QED
      BY <2>1, <2>2
  <1>5. azCalm /\ Destroying(o)' /\ Left(o)' \in {6, 5, 3, 2, 1} => \A c \in VmBots : ~HasVm(c)
    BY DEF AzInv, DestroyAlone, Destroying, Left, NoOp, OtherOps
  <1>6. VmsKeepShared'
    BY DEF AzInv, VmsKeepShared, HasVm
  <1>7. leaky \subseteq leaky'
    OBVIOUS
  <1>8. \A c \in VmTasks \ {o} : todo'[c] = todo[c] /\ (c \in leaky' <=> c \in leaky)
    OBVIOUS
  <1>9. QED
    BY <1>1, <1>2, <1>3, <1>4, <1>5, <1>6, <1>7, <1>8, AzKept

\* The call for the secret, which may fail.
LEMMA SecretStep ==
  ASSUME AzInv, NEW o \in VmTasks, NextIs(o, "secret"), Skip(o, 1), azure' = azure, setup' = setup,
         azCalm' = azCalm, leaky' \in {leaky, leaky \cup {o}}, azureLeft' \in [op : Nat, fault : Nat]
  PROVE  AzInv' /\ todo'[o].op = "install" /\ \A c \in VmTasks \ {o} : todo'[c] = todo[c]
  <1>1. NextIs(o, "secret") /\ Skip(o, 1) /\ azure' = azure /\ setup' = setup /\ azCalm' = azCalm
    OBVIOUS
  <1>2. AzShape /\ todo[o].op = "install" /\ Left(o) = 4 /\ todo[o] # NoOp
    BY <1>1, WhoCalls DEF AzInv
  <1>3. 1 \in 1..Left(o) /\ 1 # Left(o) /\ setup' = setup
    BY <1>1, <1>2
  <1>4. /\ todo' \in [VmTasks -> AzOps] /\ Stands(o)'
        /\ todo'[o].op = "install" /\ todo'[o].bot = todo[o].bot /\ Left(o)' = Left(o) - 1
        /\ \A c \in VmTasks \ {o} : todo'[c] = todo[c]
    BY <1>1, <1>2, <1>3, SkipsOn
  <1>5. AzShape'
    BY <1>2, <1>3, <1>4, ShapeKept
  <1>6. MadeSoFar(o)'
    <2>1. SUFFICES ASSUME azCalm, NEW k \in MadeKinds, 3 < LeftAt(k)
                   PROVE  MadeBy(k, VmBot(o)) \in azure
      <3>1. Left(o)' = 3 /\ azure' = azure /\ azCalm' = azCalm
        BY <1>1, <1>2, <1>4
      <3>2. MadeKinds' = MadeKinds /\ \A k : LeftAt(k)' = LeftAt(k) /\ MadeBy(k, VmBot(o))' = MadeBy(k, VmBot(o))
        <4>1. VmBot(o)' = VmBot(o)
          BY <1>4 DEF VmBot
        <4>2. QED
          BY <1>3, <4>1 DEF MadeKinds, LeftAt, MadeBy
      <3>3. azCalm => \A k \in MadeKinds : 3 < LeftAt(k) => MadeBy(k, VmBot(o)) \in azure
        BY <2>1
      <3>4. ASSUME azCalm', NEW k \in MadeKinds', Left(o)' < LeftAt(k)' PROVE MadeBy(k, VmBot(o))' \in azure'
        <4>1. k \in MadeKinds /\ LeftAt(k)' = LeftAt(k) /\ MadeBy(k, VmBot(o))' = MadeBy(k, VmBot(o))
          BY <3>2, <3>4, Zenon
        <4>2. 3 < LeftAt(k)
          BY <3>1, <3>4, <4>1, Zenon
        <4>3. azCalm
          BY <3>1, <3>4
        <4>4. MadeBy(k, VmBot(o)) \in azure
          BY <3>3, <4>1, <4>2, <4>3
        <4>5. QED
          BY <3>1, <4>1, <4>4, SMT
      <3>5. QED
        BY <3>4, Zenon DEF MadeSoFar
    <2>2. LeftAt(k) # 4
      BY LeftAtValues DEF MadeKinds, Base
    <2>3. 4 < LeftAt(k)
      BY <2>1, <2>2, LeftAtRange
    <2>4. QED
      BY <1>2, <2>1, <2>3 DEF AzInv, MadeSoFar
  <1>7. GoneSoFar(o)' /\ ~Destroying(o)'
    BY <1>4 DEF GoneSoFar, Destroying
  <1>8. VmsKeepShared' /\ leaky \subseteq leaky'
    BY <1>1 DEF AzInv, VmsKeepShared, HasVm
  <1>9. todo'[o] = NoOp \/ SameOp(o)
    BY <1>2, <1>4 DEF SameOp
  <1>10. \A c \in VmTasks \ {o} : todo'[c] = todo[c] /\ (c \in leaky' <=> c \in leaky)
    BY <1>1, <1>4
  <1>11. AzInv'
    BY <1>1, <1>5, <1>6, <1>7, <1>8, <1>9, <1>10, AzKept
  <1>12. QED
    BY <1>4, <1>11

LEMMA CreateVmStep == ASSUME AzInv, NEW o \in VmTasks, CreateVm(o) PROVE AzInv'
  <1>1. /\ NextIs(o, "vm") /\ UNCHANGED <<setup, azCalm, leaky, azureLeft>>
        /\ \/ Abandon(o) /\ azure' = azure
           \/ Skip(o, 1) /\ azure' = azure \cup {<<"vm", VmBot(o)>>, <<"disk", VmBot(o)>>}
    BY DEF CreateVm, Proceed, azRest, HasVm
  <1>2. AzShape /\ todo[o].op = "install" /\ Left(o) = 1 /\ todo[o] # NoOp
    BY <1>1, WhoCalls DEF AzInv
  <1>3. /\ todo' \in [VmTasks -> AzOps] /\ Stands(o)' /\ todo'[o] = NoOp
        /\ \A c \in VmTasks \ {o} : todo'[c] = todo[c]
    <2>1. CASE Abandon(o)
      BY <1>2, <2>1, GivesUp
    <2>2. CASE Skip(o, 1)
      <3>1. 1 \in 1..Left(o) /\ 1 = Left(o) /\ setup' = setup
        BY <1>1, <1>2
      <3>2. QED
        BY <1>2, <2>2, <3>1, SkipsOn
    <2>3. QED
      BY <1>1, <2>1, <2>2
  <1>4. AzShape'
    <2>1. azureLeft' \in [op : Nat, fault : Nat] /\ setup' = setup
      BY <1>1, <1>2 DEF AzShape
    <2>2. QED
      BY <1>2, <1>3, <2>1, ShapeKept
  <1>5. MadeSoFar(o)' /\ GoneSoFar(o)' /\ ~Destroying(o)'
    BY <1>3 DEF MadeSoFar, GoneSoFar, Destroying, NoOp
  <1>6. azure \subseteq azure' /\ azure' \subseteq azure \cup {<<"vm", VmBot(o)>>, <<"disk", VmBot(o)>>}
    BY <1>1
  <1>7. VmsKeepShared'
    <2>1. SUFFICES ASSUME azCalm PROVE AllShared(Base) \subseteq azure'
      BY <1>1 DEF VmsKeepShared, Base, AllShared
    <2>2. ASSUME NEW k \in Base PROVE Shared(k) \in azure
      <3>1. k \in MadeKinds /\ MadeBy(k, VmBot(o)) = Shared(k)
        BY DEF MadeKinds, Base, MadeBy
      <3>2. Left(o) < LeftAt(k)
        BY <1>2, <3>1, LeftAtRange
      <3>3. QED
        BY <1>2, <2>1, <3>1, <3>2 DEF AzInv, MadeSoFar
    <2>3. QED
      BY <1>6, <2>2 DEF AllShared
  <1>8. /\ leaky \subseteq leaky'
        /\ \A c \in VmBots, k \in OwnKinds :
             <<k, c>> \in azure' => <<k, c>> \in azure \/ (todo[o].op = "install" /\ c = VmBot(o))
    BY <1>1, <1>2, <1>6
  <1>9. \A c \in VmTasks \ {o} : todo'[c] = todo[c] /\ (c \in leaky' <=> c \in leaky)
    BY <1>1, <1>3
  <1>10. QED
    BY <1>1, <1>2, <1>3, <1>4, <1>5, <1>6, <1>7, <1>8, <1>9, AzKept

\* A deletion, or a list that is not acted upon: what it takes is o's own, or it is
\* shared and no VM is left.
LEMMA DeleteStep ==
  ASSUME AzInv, NEW o \in VmTasks, Destroying(o), Left(o) \in Nat \ {0}, Skip(o, 1),
         UNCHANGED <<setup, azCalm, leaky, azureLeft>>, azure' \subseteq azure,
         \/ Left(o) \in {6, 5, 3, 2, 1}
         \/ AllShared(Base) \cap azure \subseteq azure',
         o \notin leaky =>
           /\ Left(o) = 12 => <<"vm", VmBot(o)>> \notin azure'
           /\ Left(o) = 11 => <<"nic", VmBot(o)>> \notin azure'
           /\ Left(o) = 10 => <<"disk", VmBot(o)>> \notin azure'
           /\ Left(o) = 9 => <<"pip", VmBot(o)>> \notin azure',
         azCalm /\ Left(o) \in {7, 4} => \A c \in VmBots : ~HasVm(c)
  PROVE  AzInv'
  <1>1. AzShape /\ todo[o] # NoOp /\ todo[o].op = "destroy" /\ GoneSoFar(o) /\ DestroyAlone(o)
    BY DEF AzInv, Destroying, NoOp
  <1>2. 1 \in 1..Left(o) /\ setup' = setup
    OBVIOUS
  <1>3. /\ todo' \in [VmTasks -> AzOps] /\ Stands(o)'
        /\ \A c \in VmTasks \ {o} : todo'[c] = todo[c]
        /\ \/ todo'[o] = NoOp
           \/ todo'[o].op = "destroy" /\ todo'[o].bot = todo[o].bot /\ Left(o)' = Left(o) - 1
    BY <1>1, <1>2, SkipsOn
  <1>4. AzShape'
    <2>1. azureLeft' \in [op : Nat, fault : Nat]
      BY <1>1 DEF AzShape
    <2>2. QED
      BY <1>1, <1>2, <1>3, <2>1, ShapeKept
  <1>5. MadeSoFar(o)'
    BY <1>3 DEF MadeSoFar, NoOp
  <1>6. GoneSoFar(o)'
    <2>1. SUFFICES ASSUME todo'[o].op = "destroy", o \notin leaky
                   PROVE  /\ Left(o)' < 12 => <<"vm", VmBot(o)>> \notin azure'
                          /\ Left(o)' < 11 => <<"nic", VmBot(o)>> \notin azure'
                          /\ Left(o)' < 10 => <<"disk", VmBot(o)>> \notin azure'
                          /\ Left(o)' < 9 => <<"pip", VmBot(o)>> \notin azure'
      <3>1. todo'[o].op = "destroy" => VmBot(o)' = VmBot(o)
        BY <1>3 DEF NoOp, VmBot
      <3>2. QED
        BY <3>1 DEF GoneSoFar, Destroying
    <2>2. Left(o)' = Left(o) - 1
      BY <1>3, <2>1 DEF NoOp
    <2>3. QED
      BY <1>1, <2>1, <2>2 DEF GoneSoFar
  <1>7. azCalm /\ Destroying(o)' /\ Left(o)' \in {6, 5, 3, 2, 1} => \A c \in VmBots : ~HasVm(c)
    <2>1. SUFFICES ASSUME azCalm, Destroying(o)', Left(o)' \in {6, 5, 3, 2, 1}
                   PROVE  Left(o) \in {7, 6, 4, 3, 2}
      BY <1>1 DEF DestroyAlone
    <2>2. Left(o)' = Left(o) - 1
      BY <1>3, <2>1 DEF Destroying, NoOp
    <2>3. QED
      BY <2>1, <2>2
  <1>8. VmsKeepShared'
    <2>1. SUFFICES ASSUME azCalm, NEW c \in VmBots, HasVm(c)'
                   PROVE  AllShared(Base) \subseteq azure'
      BY DEF VmsKeepShared, Base, AllShared
    <2>2. HasVm(c)
      BY <2>1 DEF HasVm
    <2>3. AllShared(Base) \subseteq azure
      BY <2>1, <2>2 DEF AzInv, VmsKeepShared, Base, AllShared
    <2>4. Left(o) \notin {6, 5, 3, 2, 1}
      BY <1>1, <2>1, <2>2 DEF DestroyAlone
    <2>5. QED
      BY <2>3, <2>4
  <1>9. leaky \subseteq leaky'
    OBVIOUS
  <1>10. todo'[o] = NoOp \/ SameOp(o)
    BY <1>1, <1>3 DEF SameOp
  <1>11. \A c \in VmTasks \ {o} : todo'[c] = todo[c] /\ (c \in leaky' <=> c \in leaky)
    BY <1>3
  <1>12. \A c \in VmBots, k \in OwnKinds : <<k, c>> \in azure' => <<k, c>> \in azure
    OBVIOUS
  <1>13. QED
    BY <1>1, <1>2, <1>4, <1>5, <1>6, <1>7, <1>8, <1>9, <1>10, <1>11, <1>12, AzKept

\* A destroy that goes on although a call failed, or past the deletions that a list
\* forbids, deletes nothing shared before it has listed again.
LEMMA SkippingStep ==
  ASSUME AzInv, NEW o \in VmTasks, Destroying(o), NEW n \in 1..Left(o), Skip(o, n),
         azure' = azure, setup' = setup, azCalm' = azCalm, azureLeft' \in [op : Nat, fault : Nat],
         leaky' = leaky \cup {o} \/ (leaky' = leaky /\ Left(o) \in {7, 4}),
         Left(o) = 7 => n = 3, Left(o) = 4 => n = 4, Left(o) = 3 => n = 3, Left(o) = 2 => n = 2,
         Left(o) \notin {7, 4, 3, 2} => n = 1
  PROVE  AzInv'
  <1>1. AzShape /\ todo[o] # NoOp /\ todo[o].op = "destroy" /\ GoneSoFar(o) /\ DestroyAlone(o)
    BY DEF AzInv, Destroying, NoOp
  <1>2. /\ todo' \in [VmTasks -> AzOps] /\ Stands(o)'
        /\ \A c \in VmTasks \ {o} : todo'[c] = todo[c]
        /\ \/ todo'[o] = NoOp
           \/ /\ todo'[o].op = "destroy" /\ todo'[o].bot = todo[o].bot
              /\ n # Left(o) /\ Left(o)' = Left(o) - n
    BY <1>1, SkipsOn
  <1>3. AzShape'
    BY <1>1, <1>2, ShapeKept
  <1>4. MadeSoFar(o)'
    BY <1>2 DEF MadeSoFar, NoOp
  <1>5. Left(o) \in Nat
    BY <1>1 DEF Left, AzShape
  <1>6. GoneSoFar(o)'
    <2>1. SUFFICES ASSUME todo'[o].op = "destroy", leaky' = leaky, o \notin leaky, Left(o) = 7
                   PROVE  \A k \in OwnKinds : <<k, VmBot(o)>> \notin azure
      <3>1. todo'[o].op = "destroy" => VmBot(o)' = VmBot(o)
        BY <1>2 DEF NoOp, VmBot
      <3>2. QED
        BY <1>2, <1>5, <3>1 DEF GoneSoFar, Destroying, OwnKinds, NoOp
    <2>2. QED
      BY <1>1, <2>1 DEF GoneSoFar, OwnKinds
  <1>7. azCalm /\ Destroying(o)' /\ Left(o)' \in {6, 5, 3, 2, 1} => \A c \in VmBots : ~HasVm(c)
    <2>1. SUFFICES ASSUME azCalm, Destroying(o)', Left(o)' \in {6, 5, 3, 2, 1}
                   PROVE  Left(o) \in {6, 5, 3, 2, 1}
      BY <1>1 DEF DestroyAlone
    <2>2. n # Left(o) /\ Left(o)' = Left(o) - n
      BY <1>2, <2>1 DEF Destroying, NoOp
    <2>3. QED
      BY <1>5, <2>1, <2>2
  <1>8. VmsKeepShared' /\ leaky \subseteq leaky'
    BY DEF AzInv, VmsKeepShared, HasVm
  <1>9. todo'[o] = NoOp \/ SameOp(o)
    BY <1>1, <1>2 DEF SameOp
  <1>10. \A c \in VmTasks \ {o} : todo'[c] = todo[c] /\ (c \in leaky' <=> c \in leaky)
    BY <1>2
  <1>11. QED
    BY <1>3, <1>4, <1>6, <1>7, <1>8, <1>9, <1>10, AzKept

LEMMA AskStep ==
  ASSUME AzInv, NEW o \in VmTasks, NEW b \in VmBots, NEW op, NEW calls, Ask(o, b, op, calls),
         \/ op = "install" /\ calls = InstallCalls
         \/ op = "destroy" /\ calls = DestroyCalls
         \/ op \in OtherOps /\ calls \in Seq(OtherCalls) /\ calls # <<>>
  PROVE  /\ AzInv' /\ todo[o] = NoOp /\ todo'[o].op = op /\ todo'[o] # NoOp
         /\ \A p \in VmTasks \ {o} : todo'[p] = todo[p]
  <1>1. /\ AzShape /\ todo \in [VmTasks -> AzOps] /\ setup.tenant \in BOOLEAN /\ todo[o] = NoOp
        /\ todo' = [todo EXCEPT ![o] = [op |-> op, bot |-> b, calls |-> calls]]
        /\ azure' = azure /\ setup' = setup
        /\ azureLeft' = [azureLeft EXCEPT !.op = @ - 1] /\ azureLeft.op > 0
        /\ azCalm' = (azCalm /\ \A p \in VmTasks : ~Destroying(p) /\ (op = "destroy" => ~Busy(p)))
    BY DEF AzInv, AzShape, Ask, Machines, Busy
  <1>2. calls \in Seq(AzCalls) /\ calls # <<>> /\ op \in {"install", "destroy"} \cup OtherOps
    BY <1>1, InstallOrder, DestroyOrder, SMTT(30) DEF OtherCalls, AzCalls
  <1>3. /\ todo'[o] = [op |-> op, bot |-> b, calls |-> calls] /\ todo' \in [VmTasks -> AzOps]
        /\ \A p \in VmTasks \ {o} : todo'[p] = todo[p]
    BY <1>1, <1>2 DEF AzOps
  <1>4. Stands(o)'
    <2>1. CASE op = "install" /\ calls = InstallCalls
      <3>1. IsRest(AzCalls, calls, calls)
        BY <1>2, RestAtFirst
      <3>2. InstallCalls' = calls
        BY <1>1, <2>1 DEF InstallCalls
      <3>3. QED
        BY <1>3, <2>1, <3>1, <3>2 DEF Stands
    <2>2. CASE op = "destroy" /\ calls = DestroyCalls
      <3>1. IsRest(AzCalls, calls, calls)
        BY <1>2, RestAtFirst
      <3>2. QED
        BY <1>3, <2>2, <3>1 DEF Stands
    <2>3. CASE op \in OtherOps /\ calls \in Seq(OtherCalls) /\ calls # <<>>
      BY <1>3, <2>3 DEF Stands
    <2>4. QED
      BY <2>1, <2>2, <2>3
  <1>5. AzShape'
    <2>1. azureLeft' \in [op : Nat, fault : Nat]
      BY <1>1 DEF AzShape
    <2>2. QED
      BY <1>1, <1>3, <1>4, <2>1, ShapeKept
  <1>6. azCalm' => azCalm /\ \A p \in VmTasks : ~Destroying(p) /\ (op = "destroy" => todo[p] = NoOp)
    BY <1>1 DEF Busy
  <1>7. /\ \A p \in VmTasks \ {o} : p \notin leaky' => p \notin leaky
        /\ \A p \in VmTasks \ {o} :
             op = "install" /\ p \notin leaky' /\ Destroying(p) => VmBot(p) # b
        /\ op = "destroy" /\ o \notin leaky' =>
             \A p \in VmTasks : todo[p].op = "install" => VmBot(p) # b
    <2>1. DOMAIN todo = VmTasks
      BY <1>1
    <2>2. CASE op = "install"
      <3>1. leaky' = (leaky \ {o}) \cup Underway(todo, b, {"destroy"})
        BY <2>2 DEF Ask
      <3>2. QED
        BY <2>1, <2>2, <3>1 DEF Underway, Destroying, VmBot
    <2>3. CASE op = "destroy" /\ Underway(todo, b, {"install"}) # {}
      <3>1. leaky' = leaky \cup {o}
        BY <2>3 DEF Ask
      <3>2. QED
        BY <2>3, <3>1
    <2>4. CASE op # "install" /\ ~(op = "destroy" /\ Underway(todo, b, {"install"}) # {})
      <3>1. leaky' = leaky \ {o}
        BY <2>4 DEF Ask
      <3>2. QED
        BY <2>1, <2>4, <3>1 DEF Underway, VmBot
    <2>5. QED
      BY <2>2, <2>3, <2>4
  <1>8. ASSUME NEW p \in VmTasks \ {o} PROVE MadeSoFar(p)' /\ GoneSoFar(p)' /\ DestroyAlone(p)'
    <2>1. todo'[p] = todo[p] /\ (p \notin leaky' => p \notin leaky)
      BY <1>3, <1>7
    <2>2. MadeKinds' = MadeKinds /\ \A k : LeftAt(k)' = LeftAt(k)
      BY <1>1 DEF MadeKinds, LeftAt
    <2>3. MadeSoFar(p) /\ VmBot(p)' = VmBot(p)
      BY <2>1 DEF AzInv, VmBot
    <2>4. MadeSoFar(p)'
      <3>1. Left(p)' = Left(p) /\ \A k : MadeBy(k, VmBot(p))' = MadeBy(k, VmBot(p))
        BY <2>1, <2>3 DEF Left, MadeBy
      <3>2. QED
        BY <1>1, <1>6, <2>1, <2>2, <2>3, <3>1, Zenon DEF MadeSoFar
    <2>5. GoneSoFar(p)'
      BY <1>1, <2>1 DEF AzInv, GoneSoFar, Destroying, Left, VmBot
    <2>6. DestroyAlone(p)'
      BY <1>6, <2>1 DEF DestroyAlone, Destroying
    <2>7. QED
      BY <2>4, <2>5, <2>6
  <1>9. MadeSoFar(o)'
    <2>1. SUFFICES ASSUME op = "install", NEW k \in MadeKinds, Len(calls) < LeftAt(k) PROVE FALSE
      <3>1. MadeKinds' = MadeKinds /\ \A k : LeftAt(k)' = LeftAt(k)
        BY <1>1 DEF MadeKinds, LeftAt
      <3>2. Left(o)' = Len(calls) /\ todo'[o].op = op
        BY <1>3 DEF Left
      <3>3. QED
        BY <3>1, <3>2, Zenon DEF MadeSoFar
    <2>2. Len(calls) = IF setup.tenant THEN 12 ELSE 10
      BY <1>1, <2>1, InstallOrder DEF OtherOps
    <2>3. QED
      BY <2>1, <2>2, LeftAtValues DEF MadeKinds, Base
  <1>10. GoneSoFar(o)' /\ DestroyAlone(o)'
    <2>1. op = "destroy" => Left(o)' = 12
      BY <1>3, DestroyOrder DEF Left, OtherOps
    <2>2. todo'[o].op = op
      BY <1>3
    <2>3. QED
      BY <1>3, <1>6, <2>1, <2>2 DEF GoneSoFar, DestroyAlone, Destroying
  <1>11. ASSUME NEW p \in VmTasks PROVE Unhindered(p)'
    <2>1. SUFFICES ASSUME todo'[p].op = "destroy", p \notin leaky',
                          NEW q \in VmTasks, todo'[q].op = "install"
                   PROVE  todo'[q].bot # todo'[p].bot
      BY DEF Unhindered, Destroying, VmBot
    <2>2. todo'[o].op = op /\ todo'[o].bot = b
      BY <1>3
    <2>3. CASE p = o
      <3>1. q # o /\ op = "destroy"
        BY <2>1, <2>2, <2>3
      <3>2. todo'[q] = todo[q] /\ todo[q].bot # b
        BY <1>3, <1>7, <2>1, <2>3, <3>1 DEF VmBot
      <3>3. QED
        BY <2>2, <2>3, <3>2
    <2>4. CASE p # o /\ q = o
      <3>1. todo'[p] = todo[p] /\ op = "install"
        BY <1>3, <2>1, <2>2, <2>4
      <3>2. todo[p].bot # b
        BY <1>7, <2>1, <2>4, <3>1 DEF VmBot, Destroying
      <3>3. QED
        BY <2>2, <2>4, <3>1, <3>2
    <2>5. CASE p # o /\ q # o
      <3>1. todo'[p] = todo[p] /\ todo'[q] = todo[q] /\ p \notin leaky
        BY <1>3, <1>7, <2>1, <2>5
      <3>2. QED
        BY <2>1, <3>1 DEF AzInv, Unhindered, Destroying, VmBot
    <2>6. QED
      BY <2>3, <2>4, <2>5
  <1>12. VmsKeepShared'
    BY <1>1, <1>6 DEF AzInv, VmsKeepShared, HasVm
  <1>13. todo'[o].op = op /\ todo'[o] # NoOp
    BY <1>2, <1>3 DEF NoOp, OtherOps
  <1>14. \A p \in VmTasks : MadeSoFar(p)' /\ Unhindered(p)' /\ GoneSoFar(p)' /\ DestroyAlone(p)'
    BY <1>8, <1>9, <1>10, <1>11
  <1>15. QED
    BY <1>1, <1>3, <1>5, <1>12, <1>13, <1>14 DEF AzInv

\* What the action properties ask of a step of o.
EndsClean(o) ==
  Destroying(o) /\ todo'[o] = NoOp /\ o \notin leaky' => \A k \in OwnKinds : <<k, VmBot(o)>> \notin azure'
EndsMade(o) ==
  azCalm /\ todo[o].op = "install" /\ todo'[o] = NoOp /\ azureLeft' = azureLeft
    => <<"vm", VmBot(o)>> \in azure'
StepOK(o) ==
  /\ AzInv' /\ EndsClean(o) /\ EndsMade(o)
  /\ \A c \in VmTasks \ {o} : todo'[c] = todo[c]

LEMMA EnsureKeeps ==
  ASSUME AzInv, NEW o \in VmTasks, NEW k, k \in MadeKinds \/ k \in {"vault", "roles"},
         NEW needs, Ensure(o, MadeBy(k, VmBot(o)), needs),
         \A r \in needs : \E j \in MadeKinds : r = MadeBy(j, VmBot(o)) /\ LeftAt(k) < LeftAt(j)
  PROVE  StepOK(o)
  <1>1. MadeBy(k, VmBot(o))[1] = k
    BY DEF MadeBy, Shared
  <1>2. NextIs(o, k) /\ UNCHANGED <<setup, azCalm, leaky, azureLeft>>
    BY <1>1 DEF Ensure, azRest
  <1>3. k \in MadeKinds
    BY <1>2, WhoCalls DEF AzInv, MadeKinds
  <1>4. AzShape /\ todo[o].op = "install" /\ Left(o) = LeftAt(k) /\ todo[o] # NoOp
    BY <1>2, <1>3, WhoCalls DEF AzInv
  <1>5. azCalm => needs \subseteq azure
    BY <1>4 DEF AzInv, MadeSoFar
  <1>6. \/ azure' = azure \cup {MadeBy(k, VmBot(o))} /\ Skip(o, 1)
        \/ azure' = azure /\ Abandon(o) /\ ~azCalm
    BY <1>5 DEF Ensure, Proceed
  <1>7. AzInv'
    BY <1>2, <1>3, <1>4, <1>6, MakeStep
  <1>8. CASE Skip(o, 1)
    <2>1. 1 \in 1..Left(o) /\ 1 # Left(o) /\ setup' = setup
      BY <1>2, <1>3, <1>4, LeftAtRange
    <2>2. (\A c \in VmTasks \ {o} : todo'[c] = todo[c]) /\ todo'[o].op = "install"
      BY <1>4, <1>8, <2>1, SkipsOn
    <2>3. QED
      BY <1>4, <1>7, <2>2 DEF StepOK, EndsClean, EndsMade, Destroying, NoOp
  <1>9. CASE Abandon(o) /\ ~azCalm
    <2>1. \A c \in VmTasks \ {o} : todo'[c] = todo[c]
      BY <1>4, <1>9, GivesUp
    <2>2. QED
      BY <1>4, <1>7, <1>9, <2>1 DEF StepOK, EndsClean, EndsMade, Destroying
  <1>10. QED
    BY <1>6, <1>8, <1>9

LEMMA MakingKeeps ==
  ASSUME AzInv, NEW o \in VmTasks,
         \/ EnsureVNet(o) \/ EnsureNSG(o) \/ EnsureVmSubnet(o) \/ EnsureStorageAccount(o)
         \/ EnsureFileShare(o) \/ EnsureManagedIdentity(o) \/ EnsureKeyVault(o) \/ AssignRoles(o)
         \/ EnsurePublicIp(o) \/ CreateNic(o)
  PROVE  StepOK(o)
  <1>0. \A k \in Base \cup {"vault", "roles"} : MadeBy(k, VmBot(o)) = Shared(k)
    BY DEF MadeBy, Base
  <1>1. \A j \in Base : j \in MadeKinds
    BY DEF MadeKinds
  <1>2. CASE EnsureVNet(o) \/ EnsureNSG(o) \/ EnsureStorageAccount(o) \/ EnsureManagedIdentity(o)
    <2>1. PICK k \in {"vnet", "nsg", "storage", "identity"} : Ensure(o, Shared(k), {})
      BY <1>2 DEF EnsureVNet, EnsureNSG, EnsureStorageAccount, EnsureManagedIdentity
    <2>2. k \in MadeKinds /\ Ensure(o, MadeBy(k, VmBot(o)), {})
      BY <1>0, <1>1, <2>1 DEF Base
    <2>3. QED
      BY <2>2, EnsureKeeps
  <1>3. CASE EnsureKeyVault(o)
    <2>1. Ensure(o, MadeBy("vault", VmBot(o)), {})
      BY <1>0, <1>3 DEF EnsureKeyVault
    <2>2. QED
      BY <2>1, EnsureKeeps
  <1>4. CASE EnsureVmSubnet(o)
    <2>1. Ensure(o, MadeBy("subnet", VmBot(o)), AllShared({"vnet", "nsg"}))
      BY <1>0, <1>4 DEF EnsureVmSubnet, Base
    <2>2. ASSUME NEW r \in AllShared({"vnet", "nsg"})
          PROVE  \E j \in MadeKinds : r = MadeBy(j, VmBot(o)) /\ LeftAt("subnet") < LeftAt(j)
      <3>1. PICK j \in {"vnet", "nsg"} : r = Shared(j)
        BY <2>2 DEF AllShared
      <3>2. j \in MadeKinds /\ r = MadeBy(j, VmBot(o))
        BY <1>0, <1>1, <3>1 DEF Base
      <3>3. LeftAt("subnet") < LeftAt(j)
        BY <3>1, LeftAtValues
      <3>4. QED
        BY <3>2, <3>3
    <2>3. "subnet" \in MadeKinds
      BY <1>1 DEF Base
    <2>4. QED
      BY <2>1, <2>2, <2>3, EnsureKeeps
  <1>5. CASE EnsureFileShare(o)
    <2>1. Ensure(o, MadeBy("share", VmBot(o)), AllShared({"storage"}))
      BY <1>0, <1>5 DEF EnsureFileShare, Base
    <2>2. ASSUME NEW r \in AllShared({"storage"})
          PROVE  \E j \in MadeKinds : r = MadeBy(j, VmBot(o)) /\ LeftAt("share") < LeftAt(j)
      <3>1. r = MadeBy("storage", VmBot(o)) /\ "storage" \in MadeKinds
        BY <1>0, <1>1, <2>2 DEF AllShared, Base
      <3>2. QED
        BY <3>1, LeftAtValues
    <2>3. "share" \in MadeKinds
      BY <1>1 DEF Base
    <2>4. QED
      BY <2>1, <2>2, <2>3, EnsureKeeps
  <1>6. CASE AssignRoles(o)
    <2>1. Ensure(o, MadeBy("roles", VmBot(o)), AllShared({"identity", "storage", "vault"}))
      BY <1>0, <1>6 DEF AssignRoles
    <2>2. NextIs(o, "roles")
      BY <1>6 DEF AssignRoles, Ensure, Shared
    <2>3. setup.tenant
      BY <2>2, WhoCalls DEF AzInv
    <2>4. ASSUME NEW r \in AllShared({"identity", "storage", "vault"})
          PROVE  \E j \in MadeKinds : r = MadeBy(j, VmBot(o)) /\ LeftAt("roles") < LeftAt(j)
      <3>1. PICK j \in {"identity", "storage", "vault"} : r = Shared(j)
        BY <2>4 DEF AllShared
      <3>2. j \in MadeKinds /\ r = MadeBy(j, VmBot(o))
        BY <1>0, <2>3, <3>1 DEF Base, MadeKinds
      <3>3. LeftAt("roles") < LeftAt(j)
        BY <2>3, <3>1, LeftAtValues
      <3>4. QED
        BY <3>2, <3>3
    <2>5. QED
      BY <2>1, <2>4, EnsureKeeps
  <1>7. CASE EnsurePublicIp(o)
    <2>1. Ensure(o, MadeBy("pip", VmBot(o)), {}) /\ "pip" \in MadeKinds
      BY <1>7 DEF EnsurePublicIp, MadeBy, MadeKinds
    <2>2. QED
      BY <2>1, EnsureKeeps
  <1>8. CASE CreateNic(o) /\ Shared("subnet") \in azure
    <2>1. Ensure(o, MadeBy("nic", VmBot(o)), {<<"pip", VmBot(o)>>}) /\ "nic" \in MadeKinds
      BY <1>8 DEF CreateNic, MadeBy, MadeKinds
    <2>2. <<"pip", VmBot(o)>> = MadeBy("pip", VmBot(o)) /\ "pip" \in MadeKinds /\ LeftAt("nic") < LeftAt("pip")
      BY LeftAtValues DEF MadeBy, MadeKinds
    <2>3. QED
      BY <2>1, <2>2, EnsureKeeps
  <1>9. CASE CreateNic(o) /\ Shared("subnet") \notin azure
    <2>1. /\ NextIs(o, "nic") /\ Abandon(o) /\ azure' = azure
          /\ UNCHANGED <<setup, azCalm, leaky, azureLeft>>
      BY <1>9 DEF CreateNic, azRest
    <2>2. "nic" \in MadeKinds
      BY DEF MadeKinds
    <2>3. AzShape /\ todo[o].op = "install" /\ Left(o) = LeftAt("nic")
      BY <2>1, <2>2, WhoCalls DEF AzInv
    <2>4. AzInv'
      BY <2>1, <2>2, <2>3, MakeStep
    <2>5. ~azCalm
      <3>1. "subnet" \in MadeKinds /\ MadeBy("subnet", VmBot(o)) = Shared("subnet")
        BY <1>0, <1>1 DEF Base
      <3>2. Left(o) < LeftAt("subnet")
        BY <2>3, LeftAtValues
      <3>3. QED
        BY <1>9, <2>3, <3>1, <3>2 DEF AzInv, MadeSoFar
    <2>6. \A c \in VmTasks \ {o} : todo'[c] = todo[c]
      BY <2>1, <2>3, GivesUp
    <2>7. QED
      BY <2>3, <2>4, <2>5, <2>6 DEF StepOK, EndsClean, EndsMade, Destroying
  <1>10. QED
    BY <1>2, <1>3, <1>4, <1>5, <1>6, <1>7, <1>8, <1>9

LEMMA InstallingKeeps ==
  ASSUME AzInv, NEW o \in VmTasks, StoreEmptySecret(o) \/ CreateVm(o)
  PROVE  StepOK(o)
  <1>1. CASE StoreEmptySecret(o)
    <2>1. /\ NextIs(o, "secret") /\ Skip(o, 1) /\ azure' = azure /\ setup' = setup
          /\ azCalm' = azCalm /\ leaky' = leaky /\ azureLeft' = azureLeft
      BY <1>1 DEF StoreEmptySecret, Proceed, azRest
    <2>2. azureLeft' \in [op : Nat, fault : Nat] /\ leaky' \in {leaky, leaky \cup {o}}
      BY <2>1 DEF AzInv, AzShape
    <2>3. AzInv' /\ todo'[o].op = "install" /\ \A c \in VmTasks \ {o} : todo'[c] = todo[c]
      BY <2>1, <2>2, SecretStep
    <2>4. todo[o].op = "install"
      BY <2>1, WhoCalls DEF AzInv
    <2>5. QED
      BY <2>3, <2>4 DEF StepOK, EndsClean, EndsMade, Destroying, NoOp
  <1>2. CASE CreateVm(o)
    <2>1. /\ NextIs(o, "vm") /\ setup' = setup
          /\ \/ Abandon(o) /\ ~({<<"nic", VmBot(o)>>, Shared("identity")} \subseteq azure)
             \/ Skip(o, 1) /\ <<"vm", VmBot(o)>> \in azure'
      BY <1>2 DEF CreateVm, Proceed, HasVm, azRest
    <2>2. AzShape /\ todo[o].op = "install" /\ Left(o) = 1 /\ todo[o] # NoOp
      BY <2>1, WhoCalls DEF AzInv
    <2>3. azCalm => {<<"nic", VmBot(o)>>, Shared("identity")} \subseteq azure
      <3>1. "nic" \in MadeKinds /\ MadeBy("nic", VmBot(o)) = <<"nic", VmBot(o)>>
        BY DEF MadeKinds, MadeBy
      <3>2. "identity" \in MadeKinds /\ MadeBy("identity", VmBot(o)) = Shared("identity")
        BY DEF MadeKinds, Base, MadeBy
      <3>3. QED
        BY <2>2, <3>1, <3>2, LeftAtRange DEF AzInv, MadeSoFar
    <2>4. \A c \in VmTasks \ {o} : todo'[c] = todo[c]
      <3>1. CASE Abandon(o)
        BY <2>2, <3>1, GivesUp
      <3>2. CASE Skip(o, 1)
        <4>1. 1 \in 1..Left(o)
          BY <2>2
        <4>2. QED
          BY <2>1, <2>2, <3>2, <4>1, SkipsOn
      <3>3. QED
        BY <2>1, <3>1, <3>2
    <2>5. QED
      BY <1>2, <2>1, <2>2, <2>3, <2>4, CreateVmStep DEF StepOK, EndsClean, EndsMade, Destroying
  <1>3. QED
    BY <1>1, <1>2

\* A destroy that takes one call further.
LEMMA DeletionOK ==
  ASSUME AzInv, NEW o \in VmTasks, AzInv', Destroying(o), azure' \subseteq azure,
         NEW n \in 1..Left(o), Skip(o, n), setup' = setup,
         o \in leaky' \/ (o \notin leaky /\ (n = Left(o) => Left(o) < 9))
  PROVE  StepOK(o)
  <1>1. AzShape /\ todo[o] # NoOp /\ todo[o].op = "destroy" /\ GoneSoFar(o) /\ Left(o) \in Nat
    BY DEF AzInv, Destroying, NoOp, Left, AzShape
  <1>2. \A c \in VmTasks \ {o} : todo'[c] = todo[c]
    BY <1>1, SkipsOn
  <1>3. EndsClean(o)
    <2>1. SUFFICES ASSUME todo'[o] = NoOp, o \notin leaky'
                   PROVE  \A k \in OwnKinds : <<k, VmBot(o)>> \notin azure'
      BY DEF EndsClean
    <2>2. n = Left(o)
      BY <1>1, <2>1, SkipsOn DEF NoOp
    <2>3. \A k \in OwnKinds : <<k, VmBot(o)>> \notin azure
      BY <1>1, <2>1, <2>2 DEF GoneSoFar, OwnKinds
    <2>4. QED
      BY <2>3
  <1>4. QED
    BY <1>1, <1>2, <1>3 DEF StepOK, EndsMade

LEMMA DeletingKeeps ==
  ASSUME AzInv, NEW o \in VmTasks,
         \/ DeleteVm(o) \/ DeleteNic(o) \/ DeleteDisk(o) \/ DeletePublicIp(o) \/ DeleteSecret(o)
         \/ DeleteVNet(o) \/ DeleteNSG(o) \/ DeleteStorage(o) \/ DeleteIdentity(o) \/ DeleteVault(o)
  PROVE  StepOK(o)
  <1> DEFINE Going(m) ==
        /\ Destroying(o) /\ Left(o) = m /\ Skip(o, 1) /\ azure' \subseteq azure
        /\ UNCHANGED <<setup, azCalm, leaky, azureLeft>>
        /\ m \in {6, 5, 3, 2, 1} \/ AllShared(Base) \cap azure \subseteq azure'
        /\ o \notin leaky => /\ m = 12 => <<"vm", VmBot(o)>> \notin azure'
                             /\ m = 11 => <<"nic", VmBot(o)>> \notin azure'
                             /\ m = 10 => <<"disk", VmBot(o)>> \notin azure'
                             /\ m = 9 => <<"pip", VmBot(o)>> \notin azure'
  <1>1. ASSUME NEW m \in {12, 11, 10, 9, 8, 6, 5, 3, 2, 1}, Going(m) PROVE StepOK(o)
    <2>1. Destroying(o) /\ Left(o) \in Nat \ {0} /\ 1 \in 1..Left(o) /\ setup' = setup
      BY <1>1
    <2>2. AzInv'
      BY <1>1, <2>1, DeleteStep
    <2>3. o \in leaky' \/ (o \notin leaky /\ (1 = Left(o) => Left(o) < 9))
      BY <1>1
    <2>4. QED
      BY <1>1, <2>1, <2>2, <2>3, DeletionOK
  <1>2. Destroying(o) => \A k \in OwnKinds : {<<k, VmBot(o)>>} \cap AllShared(Base) = {}
    <2>1. Destroying(o) => VmBot(o) \in VmBots
      BY DEF AzInv, AzShape, Stands, Destroying, NoOp, VmBot
    <2>2. QED
      BY <2>1, AzureAssumption DEF AllShared, Shared
  <1>3. AzShape /\ GoneSoFar(o)
    BY DEF AzInv
  <1>4. CASE DeleteVm(o)
    <2>1. /\ NextIs(o, "delVm") /\ Skip(o, 1) /\ azure' = azure \ {<<"vm", VmBot(o)>>}
          /\ UNCHANGED <<setup, azCalm, leaky, azureLeft>>
      BY <1>4 DEF DeleteVm, Gone, Proceed, azRest
    <2>2. Destroying(o) /\ Left(o) = 12
      BY <1>3, <2>1, WhoCalls DEF Destroying
    <2>3. Going(12)
      BY <1>2, <2>1, <2>2 DEF OwnKinds
    <2>4. QED
      BY <1>1, <2>3
  <1>5. CASE DeleteNic(o)
    <2>1. /\ NextIs(o, "delNic") /\ Skip(o, 1) /\ UNCHANGED <<setup, azCalm, leaky, azureLeft>>
          /\ azure' = IF ~HasVm(VmBot(o)) THEN azure \ {<<"nic", VmBot(o)>>} ELSE azure
      BY <1>5 DEF DeleteNic, Gone, Proceed, azRest
    <2>2. Destroying(o) /\ Left(o) = 11
      BY <1>3, <2>1, WhoCalls DEF Destroying
    <2>3. o \notin leaky => ~HasVm(VmBot(o))
      BY <1>3, <2>2 DEF GoneSoFar, HasVm
    <2>4. Going(11)
      BY <1>2, <2>1, <2>2, <2>3 DEF OwnKinds
    <2>5. QED
      BY <1>1, <2>4
  <1>6. CASE DeleteDisk(o)
    <2>1. /\ NextIs(o, "delDisk") /\ Skip(o, 1) /\ UNCHANGED <<setup, azCalm, leaky, azureLeft>>
          /\ azure' = IF ~HasVm(VmBot(o)) THEN azure \ {<<"disk", VmBot(o)>>} ELSE azure
      BY <1>6 DEF DeleteDisk, Gone, Proceed, azRest
    <2>2. Destroying(o) /\ Left(o) = 10
      BY <1>3, <2>1, WhoCalls DEF Destroying
    <2>3. o \notin leaky => ~HasVm(VmBot(o))
      BY <1>3, <2>2 DEF GoneSoFar, HasVm
    <2>4. Going(10)
      BY <1>2, <2>1, <2>2, <2>3 DEF OwnKinds
    <2>5. QED
      BY <1>1, <2>4
  <1>7. CASE DeletePublicIp(o)
    <2>1. /\ NextIs(o, "delPip") /\ Skip(o, 1) /\ UNCHANGED <<setup, azCalm, leaky, azureLeft>>
          /\ azure' = IF <<"nic", VmBot(o)>> \notin azure THEN azure \ {<<"pip", VmBot(o)>>} ELSE azure
      BY <1>7 DEF DeletePublicIp, Gone, Proceed, azRest
    <2>2. Destroying(o) /\ Left(o) = 9
      BY <1>3, <2>1, WhoCalls DEF Destroying
    <2>3. o \notin leaky => <<"nic", VmBot(o)>> \notin azure
      BY <1>3, <2>2 DEF GoneSoFar
    <2>4. Going(9)
      BY <1>2, <2>1, <2>2, <2>3 DEF OwnKinds
    <2>5. QED
      BY <1>1, <2>4
  <1>8. CASE DeleteSecret(o)
    <2>1. /\ NextIs(o, "delSecret") /\ Skip(o, 1) /\ UNCHANGED <<setup, azCalm, leaky, azureLeft>>
          /\ azure' = azure
      BY <1>8 DEF DeleteSecret, Proceed, azRest
    <2>2. Destroying(o) /\ Left(o) = 8
      BY <1>3, <2>1, WhoCalls DEF Destroying
    <2>3. Going(8)
      BY <2>1, <2>2
    <2>4. QED
      BY <1>1, <2>3
  <1>9. CASE DeleteVNet(o) \/ DeleteNSG(o)
    <2>1. /\ NextIs(o, "delVnet") \/ NextIs(o, "delNsg")
          /\ Skip(o, 1) /\ UNCHANGED <<setup, azCalm, leaky, azureLeft>> /\ azure' \subseteq azure
      BY <1>9 DEF DeleteVNet, DeleteNSG, Gone, Proceed, azRest
    <2>2. Destroying(o) /\ Left(o) \in {6, 5}
      BY <1>3, <2>1, WhoCalls DEF Destroying
    <2>3. Going(Left(o))
      BY <2>1, <2>2
    <2>4. QED
      BY <1>1, <2>2, <2>3
  <1>10. CASE DeleteStorage(o) \/ DeleteIdentity(o) \/ DeleteVault(o)
    <2>1. /\ NextIs(o, "delStorage") \/ NextIs(o, "delIdentity") \/ NextIs(o, "delVault")
          /\ Skip(o, 1) /\ UNCHANGED <<setup, azCalm, leaky, azureLeft>> /\ azure' \subseteq azure
      BY <1>10 DEF DeleteStorage, DeleteIdentity, DeleteVault, Gone, Proceed, azRest
    <2>2. Destroying(o) /\ Left(o) \in {3, 2, 1}
      BY <1>3, <2>1, WhoCalls DEF Destroying
    <2>3. Going(Left(o))
      BY <2>1, <2>2
    <2>4. QED
      BY <1>1, <2>2, <2>3
  <1>11. QED
    BY <1>4, <1>5, <1>6, <1>7, <1>8, <1>9, <1>10

LEMMA ListingKeeps ==
  ASSUME AzInv, NEW o \in VmTasks, CheckNetwork(o) \/ DeleteSharedInfraIfOrphaned(o)
  PROVE  StepOK(o)
  <1>1. PICK n \in {2, 3} :
          /\ NextIs(o, IF n = 2 THEN "listNet" ELSE "listShared")
          /\ Skip(o, IF \E c \in VmBots : HasVm(c) THEN n + 1 ELSE 1)
          /\ azure' = azure /\ UNCHANGED <<setup, azCalm, leaky, azureLeft>>
    <2>1. CASE CheckNetwork(o)
      BY <2>1 DEF CheckNetwork, ListVms, azRest
    <2>2. CASE DeleteSharedInfraIfOrphaned(o)
      BY <2>2 DEF DeleteSharedInfraIfOrphaned, ListVms, azRest
    <2>3. QED
      BY <2>1, <2>2
  <1>2. AzShape /\ Destroying(o) /\ Left(o) = IF n = 2 THEN 7 ELSE 4
    BY <1>1, WhoCalls DEF AzInv, Destroying
  <1>3. setup' = setup /\ azCalm' = azCalm /\ azureLeft' \in [op : Nat, fault : Nat] /\ leaky' = leaky
    BY <1>1, <1>2 DEF AzShape
  <1>4. CASE \E c \in VmBots : HasVm(c)
    <2>1. Skip(o, n + 1) /\ n + 1 \in 1..Left(o)
      BY <1>1, <1>2, <1>4
    <2>2. /\ leaky' = leaky \cup {o} \/ (leaky' = leaky /\ Left(o) \in {7, 4})
          /\ Left(o) = 7 => n + 1 = 3
          /\ Left(o) = 4 => n + 1 = 4
          /\ Left(o) \in {7, 4}
      BY <1>2, <1>3
    <2>3. AzInv'
      BY <1>1, <1>2, <1>3, <2>1, <2>2, SkippingStep
    <2>4. o \in leaky' \/ (o \notin leaky /\ (n + 1 = Left(o) => Left(o) < 9))
      BY <1>2, <1>3
    <2>5. QED
      BY <1>1, <1>2, <1>3, <2>1, <2>3, <2>4, DeletionOK
  <1>5. CASE ~\E c \in VmBots : HasVm(c)
    <2>1. Skip(o, 1) /\ 1 \in 1..Left(o) /\ Left(o) \in Nat \ {0} /\ Left(o) \in {7, 4}
      BY <1>1, <1>2, <1>5
    <2>2. /\ UNCHANGED <<setup, azCalm, leaky, azureLeft>> /\ azure' \subseteq azure
          /\ Left(o) \in {6, 5, 3, 2, 1} \/ AllShared(Base) \cap azure \subseteq azure'
          /\ o \notin leaky => /\ Left(o) = 12 => <<"vm", VmBot(o)>> \notin azure'
                               /\ Left(o) = 11 => <<"nic", VmBot(o)>> \notin azure'
                               /\ Left(o) = 10 => <<"disk", VmBot(o)>> \notin azure'
                               /\ Left(o) = 9 => <<"pip", VmBot(o)>> \notin azure'
      BY <1>1, <2>1
    <2>3. AzInv'
      BY <1>2, <1>5, <2>1, <2>2, DeleteStep
    <2>4. o \in leaky' \/ (o \notin leaky /\ (1 = Left(o) => Left(o) < 9))
      BY <1>3, <2>1
    <2>5. QED
      BY <1>2, <1>3, <2>1, <2>2, <2>3, <2>4, DeletionOK
  <1>6. QED
    BY <1>4, <1>5

\* A resize that failed turns to the start of the VM.
Recovers(o) == todo[o].op = "resize" /\ todo' = [todo EXCEPT ![o].calls = <<"recover">>]

LEMMA RecoversOn ==
  ASSUME AzShape, NEW o \in VmTasks, Recovers(o)
  PROVE  /\ todo' \in [VmTasks -> AzOps] /\ Stands(o)'
         /\ todo'[o].op = todo[o].op /\ todo'[o].bot = todo[o].bot /\ todo[o].op \in OtherOps
         /\ \A c \in VmTasks \ {o} : todo'[c] = todo[c]
  <1>1. <<"recover">> \in Seq(AzCalls) /\ <<"recover">> \in Seq(OtherCalls) /\ <<"recover">> # <<>>
    BY DEF AzCalls, OtherCalls
  <1>2. todo \in [VmTasks -> AzOps] /\ todo[o].bot \in VmBots
    BY DEF AzShape, Stands, Recovers, NoOp
  <1>3. /\ todo' \in [VmTasks -> AzOps] /\ todo'[o].op = "resize" /\ todo'[o].calls = <<"recover">>
        /\ todo'[o].bot = todo[o].bot /\ \A c \in VmTasks \ {o} : todo'[c] = todo[c]
    BY <1>1, <1>2 DEF AzOps, Recovers
  <1>4. QED
    BY <1>1, <1>2, <1>3 DEF Stands, OtherOps, Recovers

\* The calls of the other operations, and what the VMs do, change no resource.
LEMMA RunningKeeps ==
  ASSUME AzInv, NEW o \in VmTasks,
         \/ PutSecret(o) \/ RunCommand(o) \/ StartVm(o) \/ StopVm(o) \/ ResizeVm(o) \/ RecoverVm(o)
  PROVE  StepOK(o)
  <1>1. PICK call \in OtherCalls :
          /\ NextIs(o, call)
          /\ Skip(o, 1) \/ Abandon(o) \/ Recovers(o)
          /\ azure' = azure /\ UNCHANGED <<setup, azCalm, leaky, azureLeft>>
    <2>1. CASE PutSecret(o) \/ RunCommand(o)
      BY <2>1 DEF PutSecret, RunCommand, Proceed, OtherCalls, azRest
    <2>2. CASE StartVm(o) \/ StopVm(o)
      BY <2>2 DEF StartVm, StopVm, OnVm, GiveUpOn, Recovers, Proceed, OtherCalls, azRest
    <2>3. CASE ResizeVm(o) \/ RecoverVm(o)
      BY <2>3 DEF ResizeVm, RecoverVm, OnVm, GiveUpOn, Recovers, Proceed, OtherCalls, azRest
    <2>4. QED
      BY <2>1, <2>2, <2>3
  <1>2. AzShape /\ todo[o] # NoOp /\ todo[o].op \in OtherOps /\ 1 \in 1..Left(o)
    BY <1>1, WhoCalls DEF AzInv
  <1>3. setup' = setup /\ azCalm' = azCalm /\ azureLeft' \in [op : Nat, fault : Nat] /\ leaky' = leaky
    BY <1>1, <1>2 DEF AzShape
  <1>4. /\ todo' \in [VmTasks -> AzOps] /\ Stands(o)'
        /\ \A c \in VmTasks \ {o} : todo'[c] = todo[c]
        /\ todo'[o] = NoOp \/ (todo'[o].op = todo[o].op /\ todo'[o].bot = todo[o].bot)
    <2>1. CASE Skip(o, 1)
      BY <1>2, <1>3, <2>1, SkipsOn
    <2>2. CASE Abandon(o)
      BY <1>2, <2>2, GivesUp
    <2>3. CASE Recovers(o)
      BY <1>2, <2>3, RecoversOn
    <2>4. QED
      BY <1>1, <2>1, <2>2, <2>3
  <1>5. AzInv'
    BY <1>1, <1>2, <1>3, <1>4, QuietStep
  <1>6. todo[o].op \notin {"install", "destroy"}
    BY <1>2 DEF OtherOps
  <1>7. QED
    BY <1>4, <1>5, <1>6 DEF StepOK, EndsClean, EndsMade, Destroying

LEMMA AzUntouched ==
  ASSUME AzInv, UNCHANGED <<azure, setup, todo, azCalm, leaky, azureLeft>>
  PROVE  AzInv'
  <1>1. azure' = azure /\ setup' = setup /\ todo' = todo /\ azCalm' = azCalm /\ leaky' = leaky
        /\ azureLeft' = azureLeft
    OBVIOUS
  <1>2. InstallCalls' = InstallCalls
    BY <1>1 DEF InstallCalls
  <1>3. AzShape'
    BY <1>1, <1>2 DEF AzInv, AzShape, Stands
  <1>4. ASSUME NEW o \in VmTasks
        PROVE  MadeSoFar(o)' /\ Unhindered(o)' /\ GoneSoFar(o)' /\ DestroyAlone(o)'
    <2>1. MadeKinds' = MadeKinds /\ \A k : LeftAt(k)' = LeftAt(k) /\ MadeBy(k, VmBot(o))' = MadeBy(k, VmBot(o))
      BY <1>1 DEF MadeKinds, LeftAt, MadeBy, VmBot
    <2>2. MadeSoFar(o) /\ Left(o)' = Left(o)
      BY <1>1 DEF AzInv, Left
    <2>3. MadeSoFar(o)'
      BY <1>1, <2>1, <2>2, SMT DEF MadeSoFar
    <2>4. GoneSoFar(o)' /\ Unhindered(o)' /\ DestroyAlone(o)'
      BY <1>1, <2>2 DEF AzInv, GoneSoFar, Unhindered, DestroyAlone, Destroying, HasVm, VmBot
    <2>5. QED
      BY <2>3, <2>4
  <1>5. VmsKeepShared'
    BY <1>1 DEF AzInv, VmsKeepShared, HasVm
  <1>6. QED
    BY <1>3, <1>4, <1>5 DEF AzInv

LEMMA BootingKeeps ==
  ASSUME AzInv, NEW b \in VmBots,
         MountShare(b) \/ FetchSecret(b) \/ WriteGenerated(b) \/ RunContainer(b)
  PROVE  AzInv' /\ todo' = todo
  <1>1. azure' = azure /\ todo' = todo /\ UNCHANGED <<setup, azCalm, leaky, azureLeft>>
    BY DEF MountShare, FetchSecret, WriteGenerated, RunContainer, azRest
  <1>2. QED
    BY <1>1, AzUntouched

LEMMA FailingKeeps == ASSUME AzInv, NEW o \in VmTasks, CallFails(o) PROVE StepOK(o)
  <1>1. /\ todo[o] # NoOp /\ azure' = azure /\ setup' = setup /\ azCalm' = azCalm
        /\ leaky' = leaky \cup {o} /\ azureLeft.fault > 0
        /\ azureLeft' = [azureLeft EXCEPT !.fault = @ - 1]
    BY DEF CallFails, Busy
  <1>2. AzShape /\ todo \in [VmTasks -> AzOps] /\ Stands(o)
    BY DEF AzInv, AzShape, AzOps
  <1>3. azureLeft' \in [op : Nat, fault : Nat] /\ azureLeft' # azureLeft
    BY <1>1, <1>2 DEF AzShape
  <1>4. PICK call : NextIs(o, call) /\ call = Head(todo[o].calls)
    BY <1>1, <1>2 DEF Stands, NextIs, IsRest
  <1>5. Left(o) \in Nat \ {0}
    BY <1>2, <1>4, WhoCalls
  <1>6. CASE Destroying(o)
    <2>1. /\ NextIs(o, "listNet") => Skip(o, 3)
          /\ NextIs(o, "listShared") => Skip(o, 4)
          /\ NextIs(o, "delStorage") => Skip(o, 3)
          /\ NextIs(o, "delIdentity") => Skip(o, 2)
          /\ \/ NextIs(o, "listNet") \/ NextIs(o, "listShared")
             \/ NextIs(o, "delStorage") \/ NextIs(o, "delIdentity")
             \/ Skip(o, 1)
      <3>1. ~(NextIs(o, "putSecret") \/ NextIs(o, "secret")) /\ todo[o].op # "resize"
        BY <1>2, <1>6, WhoCalls DEF Destroying, OtherCalls, OtherOps
      <3>2. CASE NextIs(o, "listNet")
        <4>1. ~NextIs(o, "listShared") /\ ~NextIs(o, "delStorage") /\ ~NextIs(o, "delIdentity")
          BY <3>2 DEF NextIs
        <4>2. QED
          BY <1>6, <3>1, <3>2, <4>1 DEF CallFails
      <3>3. CASE NextIs(o, "listShared")
        <4>1. ~NextIs(o, "listNet") /\ ~NextIs(o, "delStorage") /\ ~NextIs(o, "delIdentity")
          BY <3>3 DEF NextIs
        <4>2. QED
          BY <1>6, <3>1, <3>3, <4>1 DEF CallFails
      <3>4. CASE NextIs(o, "delStorage")
        <4>1. ~NextIs(o, "listNet") /\ ~NextIs(o, "listShared") /\ ~NextIs(o, "delIdentity")
          BY <3>4 DEF NextIs
        <4>2. QED
          BY <1>6, <3>1, <3>4, <4>1 DEF CallFails
      <3>5. CASE NextIs(o, "delIdentity")
        <4>1. ~NextIs(o, "listNet") /\ ~NextIs(o, "listShared") /\ ~NextIs(o, "delStorage")
          BY <3>5 DEF NextIs
        <4>2. QED
          BY <1>6, <3>1, <3>5, <4>1 DEF CallFails
      <3>6. CASE /\ ~NextIs(o, "listNet") /\ ~NextIs(o, "listShared")
                 /\ ~NextIs(o, "delStorage") /\ ~NextIs(o, "delIdentity")
        BY <1>6, <3>1, <3>6 DEF CallFails
      <3>7. QED
        BY <3>2, <3>3, <3>4, <3>5, <3>6
    <2>2. PICK n \in 1..Left(o) :
            /\ Skip(o, n)
            /\ Left(o) = 7 => n = 3
            /\ Left(o) = 4 => n = 4
            /\ Left(o) = 3 => n = 3
            /\ Left(o) = 2 => n = 2
            /\ Left(o) \notin {7, 4, 3, 2} => n = 1
      <3>1. IsRest(AzCalls, todo[o].calls, DestroyCalls) /\ todo[o].calls # <<>>
        BY <1>1, <1>2, <1>6 DEF Stands, Destroying, OtherOps, IsRest
      <3>2. DestroyCalls \in Seq(AzCalls) /\ Len(DestroyCalls) = 12
        BY DestroyOrder
      <3>3. /\ Left(o) <= 12
            /\ Head(todo[o].calls) = DestroyCalls[12 - Left(o) + 1]
        <4>1. PICK C \in Seq(AzCalls) : C = DestroyCalls
          BY <3>2
        <4>2. PICK s : s = todo[o].calls
          OBVIOUS
        <4>3. IsRest(AzCalls, s, C)
          BY <3>1, <4>1, <4>2
        <4>4. Len(s) <= Len(C) /\ Head(s) = C[Len(C) - Len(s) + 1]
          BY <4>3, RestGoesOn
        <4>5. QED
          BY <3>2, <4>1, <4>2, <4>4 DEF Left
      <3>4. Left(o) \in 1..12 /\ Head(todo[o].calls) = DestroyCalls[13 - Left(o)]
        BY <1>5, <3>3
      <3>5. /\ NextIs(o, "listNet") <=> Left(o) = 7
            /\ NextIs(o, "listShared") <=> Left(o) = 4
            /\ NextIs(o, "delStorage") <=> Left(o) = 3
            /\ NextIs(o, "delIdentity") <=> Left(o) = 2
        BY <3>1, <3>4, DestroyOrder DEF NextIs
      <3>6. QED
        BY <1>5, <2>1, <3>5
    <2>3. leaky' = leaky \cup {o} \/ (leaky' = leaky /\ Left(o) \in {7, 4})
      BY <1>1
    <2>4. AzInv'
      BY <1>1, <1>3, <1>6, <2>2, <2>3, SkippingStep
    <2>5. o \in leaky' /\ azure' \subseteq azure
      BY <1>1
    <2>6. QED
      BY <1>1, <1>6, <2>2, <2>4, <2>5, DeletionOK
  <1>7. CASE ~Destroying(o)
    <2>1. \/ Abandon(o)
          \/ Skip(o, 1) /\ (NextIs(o, "secret") \/ NextIs(o, "putSecret"))
          \/ Recovers(o)
      <3>1. CASE NextIs(o, "putSecret") \/ NextIs(o, "secret")
        BY <1>7, <3>1 DEF CallFails, Proceed
      <3>2. CASE /\ ~(NextIs(o, "putSecret") \/ NextIs(o, "secret"))
                 /\ todo[o].op = "resize" /\ todo[o].calls # <<"recover">>
        BY <1>7, <3>2 DEF CallFails, GiveUpOn, Recovers
      <3>3. CASE /\ ~(NextIs(o, "putSecret") \/ NextIs(o, "secret"))
                 /\ ~(todo[o].op = "resize" /\ todo[o].calls # <<"recover">>)
        BY <1>7, <3>3 DEF CallFails, GiveUpOn
      <3>4. QED
        BY <3>1, <3>2, <3>3
    <2>2. leaky' \in {leaky, leaky \cup {o}}
      BY <1>1
    <2>3. CASE Abandon(o)
      <3>1. /\ todo' \in [VmTasks -> AzOps] /\ Stands(o)' /\ todo'[o] = NoOp
            /\ \A c \in VmTasks \ {o} : todo'[c] = todo[c]
        BY <1>2, <2>3, GivesUp
      <3>2. AzInv'
        BY <1>1, <1>3, <2>2, <3>1, QuietStep
      <3>3. QED
        BY <1>3, <1>7, <3>1, <3>2 DEF StepOK, EndsClean, EndsMade
    <2>4. CASE Recovers(o)
      <3>1. /\ todo' \in [VmTasks -> AzOps] /\ Stands(o)' /\ todo[o].op \in OtherOps
            /\ todo'[o].op = todo[o].op /\ todo'[o].bot = todo[o].bot
            /\ \A c \in VmTasks \ {o} : todo'[c] = todo[c]
        BY <1>2, <2>4, RecoversOn
      <3>2. AzInv'
        BY <1>1, <1>3, <2>2, <3>1, QuietStep
      <3>3. QED
        BY <1>3, <1>7, <3>1, <3>2 DEF StepOK, EndsClean, EndsMade
    <2>5. CASE Skip(o, 1) /\ NextIs(o, "putSecret")
      <3>1. todo[o].op \in OtherOps /\ 1 \in 1..Left(o)
        BY <1>2, <1>5, <2>5, WhoCalls DEF OtherCalls
      <3>2. /\ todo' \in [VmTasks -> AzOps] /\ Stands(o)'
            /\ todo'[o] = NoOp \/ (todo'[o].op = todo[o].op /\ todo'[o].bot = todo[o].bot)
            /\ \A c \in VmTasks \ {o} : todo'[c] = todo[c]
        BY <1>1, <1>2, <2>5, <3>1, SkipsOn
      <3>3. AzInv'
        BY <1>1, <1>3, <2>2, <3>1, <3>2, QuietStep
      <3>4. QED
        BY <1>3, <1>7, <3>2, <3>3 DEF StepOK, EndsClean, EndsMade
    <2>6. CASE Skip(o, 1) /\ NextIs(o, "secret")
      <3>1. AzInv' /\ todo'[o].op = "install" /\ \A c \in VmTasks \ {o} : todo'[c] = todo[c]
        BY <1>1, <1>3, <2>2, <2>6, SecretStep
      <3>2. QED
        BY <1>7, <3>1 DEF StepOK, EndsClean, EndsMade, NoOp
    <2>7. QED
      BY <2>1, <2>3, <2>4, <2>5, <2>6
  <1>8. QED
    BY <1>6, <1>7

LEMMA AskingKeeps ==
  ASSUME AzInv, NEW o \in VmTasks, NEW b \in VmBots,
         \/ Install(o, b) \/ Configure(o, b) \/ Start(o, b) \/ Stop(o, b)
         \/ UpdateResources(o, b) \/ Destroy(o, b)
  PROVE  StepOK(o)
  <1>1. PICK op, calls :
          /\ Ask(o, b, op, calls)
          /\ \/ op = "install" /\ calls = InstallCalls
             \/ op = "destroy" /\ calls = DestroyCalls
             \/ op \in OtherOps /\ calls \in Seq(OtherCalls) /\ calls # <<>>
    <2>1. CASE Install(o, b) \/ Destroy(o, b)
      BY <2>1 DEF Install, Destroy
    <2>2. CASE Configure(o, b)
      <3>1. <<"run">> \in Seq(OtherCalls) /\ <<"run">> # <<>>
        BY DEF OtherCalls
      <3>2. <<"putSecret", "run">> \in Seq(OtherCalls) /\ <<"putSecret", "run">> # <<>>
        BY DEF OtherCalls
      <3>3. ConfigureCalls \in Seq(OtherCalls) /\ ConfigureCalls # <<>> /\ "configure" \in OtherOps
        BY <3>1, <3>2, Zenon DEF ConfigureCalls, OtherOps
      <3>4. QED
        BY <2>2, <3>3 DEF Configure
    <2>3. CASE Start(o, b)
      <3>1. <<"start">> \in Seq(OtherCalls) /\ <<"start">> # <<>> /\ "start" \in OtherOps
        BY DEF OtherCalls, OtherOps
      <3>2. QED
        BY <2>3, <3>1 DEF Start
    <2>4. CASE Stop(o, b)
      <3>1. <<"stop">> \in Seq(OtherCalls) /\ <<"stop">> # <<>> /\ "stop" \in OtherOps
        BY DEF OtherCalls, OtherOps
      <3>2. QED
        BY <2>4, <3>1 DEF Stop
    <2>5. CASE UpdateResources(o, b)
      <3>1. /\ <<"stop", "resize", "start">> \in Seq(OtherCalls)
            /\ <<"stop", "resize", "start">> # <<>> /\ "resize" \in OtherOps
        BY DEF OtherCalls, OtherOps
      <3>2. QED
        BY <2>5, <3>1 DEF UpdateResources
    <2>6. QED
      BY <2>1, <2>2, <2>3, <2>4, <2>5
  <1>2. /\ AzInv' /\ todo'[o].op = op /\ todo'[o] # NoOp
        /\ \A c \in VmTasks \ {o} : todo'[c] = todo[c]
    BY <1>1, AskStep
  <1>3. QED
    BY <1>2 DEF StepOK, EndsClean, EndsMade

LEMMA AzStep ==
  ASSUME AzInv, AzureNext
  PROVE  AzInv' /\ \A p \in VmTasks : EndsClean(p) /\ EndsMade(p)
  <1>0. \A p \in VmTasks : todo[p] = NoOp => todo[p].op = "none"
    BY DEF NoOp
  <1>1. CASE \E b \in VmBots : MountShare(b) \/ FetchSecret(b) \/ WriteGenerated(b) \/ RunContainer(b)
    <2>1. AzInv' /\ todo' = todo
      BY <1>1, BootingKeeps
    <2>2. QED
      BY <1>0, <2>1 DEF EndsClean, EndsMade, Destroying
  <1>2. ASSUME NEW o \in VmTasks, StepOK(o) PROVE AzInv' /\ \A p \in VmTasks : EndsClean(p) /\ EndsMade(p)
    <2>1. \A p \in VmTasks \ {o} : EndsClean(p) /\ EndsMade(p)
      BY <1>0, <1>2 DEF StepOK, EndsClean, EndsMade, Destroying
    <2>2. QED
      BY <1>2, <2>1 DEF StepOK
  <1>3. CASE \E o \in VmTasks, b \in VmBots :
               \/ Install(o, b) \/ Configure(o, b) \/ Start(o, b) \/ Stop(o, b)
               \/ UpdateResources(o, b) \/ Destroy(o, b)
    BY <1>2, <1>3, AskingKeeps
  <1>4. CASE \E o \in VmTasks :
               \/ EnsureVNet(o) \/ EnsureNSG(o) \/ EnsureVmSubnet(o) \/ EnsureStorageAccount(o)
               \/ EnsureFileShare(o) \/ EnsureManagedIdentity(o) \/ EnsureKeyVault(o) \/ AssignRoles(o)
               \/ EnsurePublicIp(o) \/ CreateNic(o)
    BY <1>2, <1>4, MakingKeeps
  <1>5. CASE \E o \in VmTasks : StoreEmptySecret(o) \/ CreateVm(o)
    BY <1>2, <1>5, InstallingKeeps
  <1>6. CASE \E o \in VmTasks :
               \/ DeleteVm(o) \/ DeleteNic(o) \/ DeleteDisk(o) \/ DeletePublicIp(o) \/ DeleteSecret(o)
               \/ DeleteVNet(o) \/ DeleteNSG(o)
               \/ DeleteStorage(o) \/ DeleteIdentity(o) \/ DeleteVault(o)
    BY <1>2, <1>6, DeletingKeeps
  <1>7. CASE \E o \in VmTasks : CheckNetwork(o) \/ DeleteSharedInfraIfOrphaned(o)
    BY <1>2, <1>7, ListingKeeps
  <1>8. CASE \E o \in VmTasks :
               \/ PutSecret(o) \/ RunCommand(o) \/ StartVm(o) \/ StopVm(o) \/ ResizeVm(o)
               \/ RecoverVm(o)
    BY <1>2, <1>8, RunningKeeps
  <1>9. CASE \E o \in VmTasks : CallFails(o)
    BY <1>2, <1>9, FailingKeeps
  <1>10. QED
    BY <1>1, <1>3, <1>4, <1>5, <1>6, <1>7, <1>8, <1>9 DEF AzureNext

LEMMA AzStart == ASSUME AzureInit PROVE AzInv
  <1>1. AzShape
    BY AzureAssumption, EmptySeq DEF AzureInit, AzShape, AzOps, Stands, NoOp
  <1>2. VmsKeepShared
    BY DEF AzureInit, VmsKeepShared, HasVm
  <1>3. ASSUME NEW o \in VmTasks PROVE MadeSoFar(o) /\ Unhindered(o) /\ GoneSoFar(o) /\ DestroyAlone(o)
    <2>1. todo[o].op = "none"
      BY DEF AzureInit, NoOp
    <2>2. QED
      BY <2>1 DEF MadeSoFar, Unhindered, GoneSoFar, DestroyAlone, Destroying
  <1>4. QED
    BY <1>1, <1>2, <1>3 DEF AzInv

LEMMA AzAlways == AzureSpec => []AzInv
  <1>1. AzureInit => AzInv
    BY AzStart
  <1>2. AzInv /\ [AzureNext]_azVars => AzInv'
    BY AzStep, AzUntouched DEF azVars
  <1>3. QED
    BY <1>1, <1>2, PTL DEF AzureSpec

\* For any bots, operations and failing calls: as long as no operation overlaps a
\* destroy, the VMs of a resource group have the network, the storage, the share and
\* the identity that they share, whatever installs failed and bots were destroyed.
THEOREM SharedOutlivesAzureBots == AzureSpec => []VmsKeepShared
  <1>1. AzInv => VmsKeepShared
    BY DEF AzInv
  <1>2. QED
    BY <1>1, AzAlways, PTL

\* A destroy of which no call failed and that no install of its bot overlapped,
\* whatever else runs for this bot and for others, leaves no VM, NIC, disk or
\* address of the bot.
THEOREM AzureDestroyIsClean == AzureSpec => DestroyLeavesNothing
  <1> DEFINE A == \A o \in VmTasks : Destroying(o) /\ todo'[o] = NoOp /\ o \notin leaky'
                    => \A k \in OwnKinds : <<k, VmBot(o)>> \notin azure'
  <1>1. AzInv /\ [AzureNext]_azVars => [A]_azVars
    BY AzStep DEF EndsClean
  <1>2. QED
    BY <1>1, AzAlways, PTL DEF AzureSpec, DestroyLeavesNothing

\* An install that no destroy overlaps finds each resource the next call needs,
\* whatever was left by installs and destroys before: it ends with its VM unless
\* Azure fails one of its calls.
THEOREM InstallEndsWithVm == AzureSpec => InstallFindsItsNeeds
  <1> DEFINE A == \A o \in VmTasks : azCalm /\ todo[o].op = "install" /\ todo'[o] = NoOp
                                      /\ azureLeft' = azureLeft => <<"vm", VmBot(o)>> \in azure'
  <1>1. AzInv /\ [AzureNext]_azVars => [A]_azVars
    BY AzStep DEF EndsMade
  <1>2. QED
    BY <1>1, AzAlways, PTL DEF AzureSpec, InstallFindsItsNeeds

-----------------------------------------------------------------------------
(* Ec2 *)

InstallNames ==
  {"ensure", "vpc", "igw", "subnet", "rtb", "sg", "iam", "role", "policy", "profile", "link", "secret",
   "template"}
UnmakeNames == {"-link", "-profile", "-policy", "-role", "-sg", "-rtb", "-subnet", "-igw", "-vpc"}
Ec2Names ==
  InstallNames \cup UnmakeNames \cup
    {"put", "find", "infra", "run", "wait", "terminate", "-template", "-secret", "orphan?"}
Ec2OpNames == {"install", "configure", "start", "stop", "restart", "destroy"}

LEMMA Widened ==
  ASSUME NEW X, NEW Y, NEW s \in Seq(X), X \subseteq Y
  PROVE  s \in Seq(Y) /\ \A i \in 1..Len(s) : s[i] \in X
  BY ElementOfSeq

LEMMA Ec2Order ==
  /\ DOMAIN Ec2Calls = Ec2OpNames
  /\ \A op \in Ec2OpNames : Ec2Calls[op] \in Seq(Ec2Names) /\ Ec2Calls[op] # <<>>
  /\ Ec2Calls["install"] \in Seq(InstallNames) /\ Len(Ec2Calls["install"]) = 13
  /\ \A i \in 1..13 : /\ Ec2Calls["install"][i] = "ensure" => i = 1
                      /\ Ec2Calls["install"][i] = "iam" => i = 7
  /\ Ec2Calls["configure"] \in Seq({"put"})
  /\ Ec2Calls["stop"] \in Seq({"terminate"})
  /\ \A op \in {"start", "restart"} :
       /\ Len(Ec2Calls[op]) = 4
       /\ Ec2Calls[op][1] = IF op = "start" THEN "find" ELSE "terminate"
       /\ Ec2Calls[op][2] = "infra" /\ Ec2Calls[op][3] = "run" /\ Ec2Calls[op][4] = "wait"
  /\ Len(Ec2Calls["destroy"]) = 13
  /\ Ec2Calls["destroy"][1] = "terminate" /\ Ec2Calls["destroy"][2] = "-template"
  /\ Ec2Calls["destroy"][3] = "-secret" /\ Ec2Calls["destroy"][4] = "orphan?"
  /\ \A i \in 5..13 : Ec2Calls["destroy"][i] \in UnmakeNames
  <1>1. /\ Ec2Calls["install"] = Installation /\ Ec2Calls["configure"] = <<"put">>
        /\ Ec2Calls["start"] = <<"find">> \o Launch /\ Ec2Calls["stop"] = <<"terminate">>
        /\ Ec2Calls["restart"] = <<"terminate">> \o Launch /\ Ec2Calls["destroy"] = Destruction
        /\ DOMAIN Ec2Calls = Ec2OpNames
    BY DEF Ec2Calls, Ec2OpNames
  <1>2. /\ Installation \in Seq(InstallNames) /\ Len(Installation) = 13
        /\ \A i \in 1..13 : /\ Installation[i] = "ensure" => i = 1
                            /\ Installation[i] = "iam" => i = 7
    <2> DEFINE A == <<"ensure">>
               B == <<"secret", "template">>
    <2>1. A \in Seq(InstallNames) /\ Len(A) = 1 /\ B \in Seq(InstallNames) /\ Len(B) = 2
      BY DEF InstallNames
    <2>2. /\ MakeCalls \in Seq(InstallNames) /\ Len(MakeCalls) = 10
          /\ \A i \in 1..10 : MakeCalls[i] # "ensure" /\ (MakeCalls[i] = "iam" => i = 6)
      BY DEF MakeCalls, InstallNames
    <2>8. A[1] = "ensure" /\ B[1] = "secret" /\ B[2] = "template"
      OBVIOUS
    <2>3. Installation = (A \o MakeCalls) \o B
      BY DEF Installation
    <2> HIDE DEF A, B
    <2>4. /\ A \o MakeCalls \in Seq(InstallNames) /\ Len(A \o MakeCalls) = 11
          /\ \A i \in 1..11 : (A \o MakeCalls)[i] = IF i <= 1 THEN A[i] ELSE MakeCalls[i - 1]
      <3>1. A \in Seq(InstallNames) /\ MakeCalls \in Seq(InstallNames)
        BY <2>1, <2>2
      <3>2. /\ A \o MakeCalls \in Seq(InstallNames) /\ Len(A \o MakeCalls) = Len(A) + Len(MakeCalls)
            /\ \A i \in 1..Len(A) + Len(MakeCalls) :
                  (A \o MakeCalls)[i] = IF i <= Len(A) THEN A[i] ELSE MakeCalls[i - Len(A)]
        BY <3>1, ConcatProperties
      <3>3. QED
        BY <2>1, <2>2, <3>2, SMTT(30)
    <2> DEFINE V == A \o MakeCalls
    <2>5. /\ V \in Seq(InstallNames) /\ Len(V) = 11
          /\ \A i \in 1..11 : V[i] = IF i <= 1 THEN A[i] ELSE MakeCalls[i - 1]
      BY <2>4, Zenon
    <2> HIDE DEF V
    <2>9. \A i \in 1..11 : /\ V[i] = "ensure" => i = 1
                           /\ V[i] = "iam" => i = 7
      <3>1. TAKE i \in 1..11
      <3>2. i # 1 => i - 1 \in 1..10 /\ V[i] = MakeCalls[i - 1]
        BY <2>5
      <3>3. V[1] = "ensure"
        <4>1. 1 \in 1..11 /\ 1 <= 1
          OBVIOUS
        <4>2. QED
          BY <2>5, <2>8, <4>1
      <3>4. QED
        BY <2>2, <3>2, <3>3
    <2> DEFINE W == V \o B
    <2>6. /\ W \in Seq(InstallNames) /\ Len(W) = 13
          /\ \A i \in 1..13 : W[i] = IF i <= 11 THEN V[i] ELSE B[i - 11]
      <3>1. V \in Seq(InstallNames) /\ B \in Seq(InstallNames)
        BY <2>1, <2>5
      <3>2. /\ V \o B \in Seq(InstallNames) /\ Len(V \o B) = Len(V) + Len(B)
            /\ \A i \in 1..Len(V) + Len(B) : (V \o B)[i] = IF i <= Len(V) THEN V[i] ELSE B[i - Len(V)]
        BY <3>1, ConcatProperties
      <3> HIDE DEF W
      <3>3. /\ W \in Seq(InstallNames) /\ Len(W) = Len(V) + Len(B)
            /\ \A i \in 1..Len(V) + Len(B) : W[i] = IF i <= Len(V) THEN V[i] ELSE B[i - Len(V)]
        BY <3>2, Zenon DEF W
      <3>4. QED
        BY <2>1, <2>5, <3>3
    <2> HIDE DEF W
    <2>7. \A i \in 1..13 : /\ W[i] = "ensure" => i = 1
                           /\ W[i] = "iam" => i = 7
      <3>1. TAKE i \in 1..13
      <3>2. CASE i <= 11
        BY <2>6, <2>9, <3>2
      <3>3. CASE i \in {12, 13}
        <4>1. W[i] = B[i - 11] /\ i - 11 \in {1, 2}
          BY <2>6, <3>3
        <4>2. QED
          BY <2>8, <4>1
      <3>4. QED
        BY <3>2, <3>3
    <2>10. Installation = W
      BY <2>3 DEF V, W
    <2>11. QED
      BY <2>6, <2>7, <2>10
  <1>3. Launch \in Seq(Ec2Names) /\ Len(Launch) = 3
        /\ Launch[1] = "infra" /\ Launch[2] = "run" /\ Launch[3] = "wait"
    BY DEF Launch, Ec2Names
  <1>4. ASSUME NEW s \in Seq(Ec2Names), Len(s) = 1
        PROVE  /\ s \o Launch \in Seq(Ec2Names) /\ Len(s \o Launch) = 4
               /\ (s \o Launch)[1] = s[1] /\ (s \o Launch)[2] = "infra"
               /\ (s \o Launch)[3] = "run" /\ (s \o Launch)[4] = "wait"
    <2>1. /\ s \o Launch \in Seq(Ec2Names) /\ Len(s \o Launch) = 4
          /\ \A i \in 1..4 : (s \o Launch)[i] = IF i <= 1 THEN s[i] ELSE Launch[i - 1]
      <3>1. s \in Seq(Ec2Names) /\ Launch \in Seq(Ec2Names)
        BY <1>3
      <3>2. /\ s \o Launch \in Seq(Ec2Names) /\ Len(s \o Launch) = Len(s) + Len(Launch)
            /\ \A i \in 1..Len(s) + Len(Launch) :
                  (s \o Launch)[i] = IF i <= Len(s) THEN s[i] ELSE Launch[i - Len(s)]
        BY <3>1, ConcatProperties
      <3>3. QED
        BY <1>3, <1>4, <3>2
    <2>2. QED
      BY <1>3, <2>1
  <1>5. /\ Destruction \in Seq(Ec2Names) /\ Len(Destruction) = 13
        /\ Destruction[1] = "terminate" /\ Destruction[2] = "-template"
        /\ Destruction[3] = "-secret" /\ Destruction[4] = "orphan?"
        /\ \A i \in 5..13 : Destruction[i] \in UnmakeNames
    <2> DEFINE A == <<"terminate", "-template", "-secret", "orphan?">>
    <2>1. /\ A \in Seq(Ec2Names) /\ Len(A) = 4 /\ A[1] = "terminate" /\ A[2] = "-template"
          /\ A[3] = "-secret" /\ A[4] = "orphan?"
      BY DEF Ec2Names
    <2>2. UnmakeCalls \in Seq(UnmakeNames) /\ Len(UnmakeCalls) = 9
      BY DEF UnmakeCalls, UnmakeNames
    <2>3. UnmakeCalls \in Seq(Ec2Names) /\ \A i \in 1..9 : UnmakeCalls[i] \in UnmakeNames
      <3>1. UnmakeNames \subseteq Ec2Names
        BY DEF Ec2Names
      <3>2. QED
        BY <2>2, <3>1, Widened
    <2>4. Destruction = A \o UnmakeCalls
      BY DEF Destruction
    <2> HIDE DEF A
    <2> DEFINE D == A \o UnmakeCalls
    <2>5. /\ D \in Seq(Ec2Names) /\ Len(D) = 13
          /\ \A i \in 1..13 : D[i] = IF i <= 4 THEN A[i] ELSE UnmakeCalls[i - 4]
      <3>1. A \in Seq(Ec2Names) /\ UnmakeCalls \in Seq(Ec2Names)
        BY <2>1, <2>3
      <3>2. /\ A \o UnmakeCalls \in Seq(Ec2Names)
            /\ Len(A \o UnmakeCalls) = Len(A) + Len(UnmakeCalls)
            /\ \A i \in 1..Len(A) + Len(UnmakeCalls) :
                  (A \o UnmakeCalls)[i] = IF i <= Len(A) THEN A[i] ELSE UnmakeCalls[i - Len(A)]
        BY <3>1, ConcatProperties
      <3> HIDE DEF D
      <3>3. /\ D \in Seq(Ec2Names) /\ Len(D) = Len(A) + Len(UnmakeCalls)
            /\ \A i \in 1..Len(A) + Len(UnmakeCalls) :
                  D[i] = IF i <= Len(A) THEN A[i] ELSE UnmakeCalls[i - Len(A)]
        BY <3>2, Zenon DEF D
      <3>4. QED
        BY <2>1, <2>2, <3>3
    <2> HIDE DEF D
    <2>6. D \in Seq(Ec2Names) /\ Len(D) = 13 /\ D[1] = A[1] /\ D[2] = A[2] /\ D[3] = A[3] /\ D[4] = A[4]
      BY <2>5
    <2>7. ASSUME NEW i \in 5..13 PROVE D[i] \in UnmakeNames
      <3>1. i \in 1..13 /\ ~(i <= 4) /\ i - 4 \in 1..9
        OBVIOUS
      <3>2. QED
        BY <2>3, <2>5, <3>1
    <2>8. Destruction = D
      BY <2>4 DEF D
    <2>9. QED
      BY <2>1, <2>6, <2>7, <2>8
  <1>6. <<"find">> \in Seq(Ec2Names) /\ <<"terminate">> \in Seq(Ec2Names)
        /\ <<"put">> \in Seq({"put"}) /\ <<"terminate">> \in Seq({"terminate"})
        /\ <<"put">> \in Seq(Ec2Names)
    BY DEF Ec2Names
  <1>7. Installation \in Seq(Ec2Names)
    <2>1. InstallNames \subseteq Ec2Names
      BY DEF Ec2Names
    <2>2. QED
      BY <1>2, <2>1, Widened
  <1>8. \A op \in {"start", "restart"} :
       /\ Ec2Calls[op] \in Seq(Ec2Names) /\ Len(Ec2Calls[op]) = 4
       /\ Ec2Calls[op][1] = IF op = "start" THEN "find" ELSE "terminate"
       /\ Ec2Calls[op][2] = "infra" /\ Ec2Calls[op][3] = "run" /\ Ec2Calls[op][4] = "wait"
    <2> DEFINE F == <<"find">>
               T == <<"terminate">>
    <2>1. F \in Seq(Ec2Names) /\ Len(F) = 1 /\ F[1] = "find"
      BY DEF Ec2Names
    <2>2. T \in Seq(Ec2Names) /\ Len(T) = 1 /\ T[1] = "terminate"
      BY DEF Ec2Names
    <2>3. Ec2Calls["start"] = F \o Launch /\ Ec2Calls["restart"] = T \o Launch
      BY <1>1
    <2> HIDE DEF F, T
    <2>4. /\ F \o Launch \in Seq(Ec2Names) /\ Len(F \o Launch) = 4
          /\ (F \o Launch)[1] = "find" /\ (F \o Launch)[2] = "infra"
          /\ (F \o Launch)[3] = "run" /\ (F \o Launch)[4] = "wait"
      BY <1>4, <2>1
    <2>5. /\ T \o Launch \in Seq(Ec2Names) /\ Len(T \o Launch) = 4
          /\ (T \o Launch)[1] = "terminate" /\ (T \o Launch)[2] = "infra"
          /\ (T \o Launch)[3] = "run" /\ (T \o Launch)[4] = "wait"
      BY <1>4, <2>2
    <2> DEFINE FL == F \o Launch
               TL == T \o Launch
    <2> HIDE DEF FL, TL
    <2>6. QED
      BY <2>3, <2>4, <2>5 DEF FL, TL
  <1>9. \A op \in Ec2OpNames : Ec2Calls[op] \in Seq(Ec2Names) /\ Ec2Calls[op] # <<>>
    <2>1. /\ Ec2Calls["install"] \in Seq(Ec2Names) /\ Len(Ec2Calls["install"]) = 13
          /\ Ec2Calls["destroy"] \in Seq(Ec2Names) /\ Len(Ec2Calls["destroy"]) = 13
      BY <1>1, <1>2, <1>5, <1>7
    <2>2. /\ Ec2Calls["configure"] \in Seq(Ec2Names) /\ Len(Ec2Calls["configure"]) = 1
          /\ Ec2Calls["stop"] \in Seq(Ec2Names) /\ Len(Ec2Calls["stop"]) = 1
      BY <1>1, <1>6
    <2>3. \A op \in {"start", "restart"} : Ec2Calls[op] \in Seq(Ec2Names) /\ Len(Ec2Calls[op]) # 0
      BY <1>8
    <2>4. \A op \in Ec2OpNames : Ec2Calls[op] \in Seq(Ec2Names) /\ Len(Ec2Calls[op]) # 0
      <3>1. TAKE op \in Ec2OpNames
      <3>2. CASE op \in {"start", "restart"}
        BY <2>3, <3>2
      <3>3. CASE op \in {"install", "destroy"}
        <4>1. Len(Ec2Calls[op]) = 13 /\ Ec2Calls[op] \in Seq(Ec2Names)
          BY <2>1, <3>3, Zenon
        <4>2. QED
          BY <4>1
      <3>4. CASE op \in {"configure", "stop"}
        <4>1. Len(Ec2Calls[op]) = 1 /\ Ec2Calls[op] \in Seq(Ec2Names)
          BY <2>2, <3>4, Zenon
        <4>2. QED
          BY <4>1
      <3>5. QED
        BY <3>2, <3>3, <3>4 DEF Ec2OpNames
    <2>5. QED
      BY <2>4, EmptySeq
  <1>10. QED
    BY <1>1, <1>2, <1>5, <1>6, <1>8, <1>9

Ahead(o) == Len(work[o].calls)
Ec2Work ==
  [op : {"none"} \cup Ec2OpNames, bot : Ec2Bots \cup {NoVpc}, calls : Seq(Ec2Names),
   found : VpcIds \cup {NoVpc}]
Ec2Machines == [of : Ec2Bots, is : Running \cup {"stopped", "dying"}, in : VpcIds] \cup {NoMachine}
Ec2Stands(o) ==
  \/ work[o] = Idle
  \/ /\ work[o].bot \in Ec2Bots /\ work[o].op \in Ec2OpNames
     /\ IsRest(Ec2Names, work[o].calls, Ec2Calls[work[o].op])

Ec2Typed ==
  /\ vpc \in [VpcIds -> SUBSET VpcParts]
  /\ template \in [Ec2Bots -> VpcIds \cup {NoVpc}]
  /\ machine \in [Ec2Ids -> Ec2Machines]
  /\ ec2Left \in [op : Nat, fault : Nat]
Ec2Shape == Ec2Typed /\ work \in [Ec2Tasks -> Ec2Work] /\ \A o \in Ec2Tasks : Ec2Stands(o)

OneNetwork == oneVpc => \A u, v \in Tagged : u = v

\* Two operations of a bot that undo each other's work.
Clash(x, y) ==
  \/ x \in Launching /\ y \in Launching \cup {"destroy"}
  \/ x = "install" /\ y = "destroy"
  \/ x = "destroy" /\ y \in Launching \cup {"install"}
NoClash ==
  \A o, p \in Ec2Tasks : o # p /\ Ec2Bot(o) = Ec2Bot(p) /\ Ec2Bot(o) \notin crossed
                           => ~Clash(work[o].op, work[p].op)

NoneOf(b) == \A i \in Ec2Ids : Live(i) => machine[i].of # b

\* So a bot has one instance, which is the one that the target finds.
OneInstance ==
  \A i, j \in Ec2Ids :
    Live(i) /\ Live(j) /\ machine[i].of = machine[j].of /\ machine[i].of \notin crossed => i = j

\* A destroy ends the instance and deletes the template first.
Emptied(o) ==
  work[o].op = "destroy" /\ Ec2Bot(o) \notin crossed =>
    /\ Ahead(o) < 13 => NoneOf(Ec2Bot(o))
    /\ Ahead(o) < 12 => template[Ec2Bot(o)] = NoVpc

\* A launch has made sure that there is no instance.
Cleared(o) ==
  work[o].op \in Launching /\ Ahead(o) \in {2, 3} /\ Ec2Bot(o) \notin crossed => NoneOf(Ec2Bot(o))

\* A destroy that does not overlap is alone, and removes what is shared when no
\* instance is left.
DestroyIsAlone(o) ==
  ec2Calm /\ work[o].op = "destroy" =>
    /\ \A p \in Ec2Tasks \ {o} : work[p] = Idle
    /\ oneVpc /\ Ahead(o) < 10 => \A i \in Ec2Ids : ~Live(i)

\* A launch has found a network that is complete, and still is.
ReadyToRun(o) ==
  work[o].op \in Launching /\ Ahead(o) = 2 =>
    work[o].found \in VpcIds /\ (ec2Calm => Complete(work[o].found))

Ec2Inv ==
  /\ Ec2Shape /\ OneNetwork /\ NoClash /\ OneInstance
  /\ \A o \in Ec2Tasks : Emptied(o) /\ Cleared(o) /\ DestroyIsAlone(o) /\ ReadyToRun(o)
  /\ InstanceKeepsShared

\* The operation o goes on, for the same bot.
SameWork(o) == work[o] # Idle /\ work'[o].op = work[o].op /\ work'[o].bot = work[o].bot

\* Who makes a call, and how far its operation is.
LEMMA Ec2Caller ==
  ASSUME Ec2Shape, NEW o \in Ec2Tasks, NEW call, Doing(o, call)
  PROVE  /\ work[o] # Idle /\ work[o].op \in Ec2OpNames /\ Ahead(o) \in Nat \ {0}
         /\ work[o].op = "install" => /\ call \in InstallNames
                                      /\ call = "ensure" => Ahead(o) = 13
                                      /\ call = "iam" => Ahead(o) = 7
         /\ work[o].op = "configure" => call = "put"
         /\ work[o].op = "stop" => call = "terminate"
         /\ work[o].op \in Launching =>
              /\ Ahead(o) = 4 => call \in {"find", "terminate"}
              /\ Ahead(o) = 3 => call = "infra"
              /\ Ahead(o) = 2 => call = "run"
              /\ Ahead(o) = 1 => call = "wait"
              /\ Ahead(o) \in 1..4
         /\ work[o].op = "destroy" =>
              /\ Ahead(o) = 13 => call = "terminate"
              /\ Ahead(o) = 12 => call = "-template"
              /\ Ahead(o) = 11 => call = "-secret"
              /\ Ahead(o) = 10 => call = "orphan?"
              /\ Ahead(o) < 10 => call \in UnmakeNames
              /\ Ahead(o) \in 1..13
  <1>1. work[o].calls # <<>> /\ call = Head(work[o].calls) /\ work[o] # Idle
    BY DEF Doing, Idle
  <1>2. work[o].op \in Ec2OpNames /\ IsRest(Ec2Names, work[o].calls, Ec2Calls[work[o].op])
    BY <1>1 DEF Ec2Shape, Ec2Stands
  <1>3. PICK C \in Seq(Ec2Names) : C = Ec2Calls[work[o].op]
    BY <1>2, Ec2Order
  <1>4. PICK s : s = work[o].calls
    OBVIOUS
  <1>5. IsRest(Ec2Names, s, C)
    BY <1>2, <1>3, <1>4
  <1>6. /\ Len(s) \in Nat \ {0} /\ Len(C) \in Nat /\ Len(s) <= Len(C)
        /\ Head(s) = C[Len(C) - Len(s) + 1]
    BY <1>5, RestGoesOn
  <1>7. /\ Ahead(o) \in Nat \ {0} /\ Ahead(o) <= Len(C) /\ call = C[Len(C) - Ahead(o) + 1]
        /\ Len(C) - Ahead(o) + 1 \in 1..Len(C)
    <2>1. Ahead(o) = Len(s) /\ call = Head(s)
      BY <1>1, <1>4 DEF Ahead
    <2> HIDE DEF Ahead
    <2>2. QED
      BY <1>6, <2>1
  <1>8. CASE work[o].op = "install"
    <2>1. /\ C \in Seq(InstallNames) /\ Len(C) = 13
          /\ \A i \in 1..13 : /\ C[i] = "ensure" => i = 1
                              /\ C[i] = "iam" => i = 7
      BY <1>3, <1>8, Ec2Order
    <2>2. call \in InstallNames
      BY <1>7, <2>1, ElementOfSeq
    <2>3. /\ call = "ensure" => Ahead(o) = 13
          /\ call = "iam" => Ahead(o) = 7
      BY <1>7, <2>1
    <2>4. QED
      BY <1>1, <1>2, <1>7, <1>8, <2>2, <2>3 DEF Launching
  <1>9. CASE work[o].op = "configure"
    <2>1. C \in Seq({"put"})
      BY <1>3, <1>9, Ec2Order
    <2>2. call = "put"
      BY <1>7, <2>1, ElementOfSeq
    <2>3. QED
      BY <1>1, <1>2, <1>7, <1>9, <2>2 DEF Launching
  <1>10. CASE work[o].op = "stop"
    <2>1. C \in Seq({"terminate"})
      BY <1>3, <1>10, Ec2Order
    <2>2. call = "terminate"
      BY <1>7, <2>1, ElementOfSeq
    <2>3. QED
      BY <1>1, <1>2, <1>7, <1>10, <2>2 DEF Launching
  <1>11. CASE work[o].op \in Launching
    <2>1. /\ Len(C) = 4 /\ C[1] \in {"find", "terminate"}
          /\ C[2] = "infra" /\ C[3] = "run" /\ C[4] = "wait"
      BY <1>3, <1>11, Ec2Order DEF Launching
    <2>2. Ahead(o) \in 1..4 /\ call = C[5 - Ahead(o)]
      BY <1>7, <2>1
    <2>3. QED
      BY <1>1, <1>2, <1>7, <1>11, <2>1, <2>2 DEF Launching
  <1>12. CASE work[o].op = "destroy"
    <2>1. /\ Len(C) = 13 /\ C[1] = "terminate" /\ C[2] = "-template" /\ C[3] = "-secret"
          /\ C[4] = "orphan?" /\ \A i \in 5..13 : C[i] \in UnmakeNames
      BY <1>3, <1>12, Ec2Order
    <2>2. Ahead(o) \in 1..13 /\ call = C[14 - Ahead(o)]
      BY <1>7, <2>1, SMTT(30)
    <2>3. Ahead(o) < 10 => 14 - Ahead(o) \in 5..13
      BY <2>2
    <2>4. Ahead(o) < 10 => call \in UnmakeNames
      BY <2>1, <2>2, <2>3
    <2>5. QED
      BY <1>1, <1>2, <1>7, <1>12, <2>1, <2>2, <2>4, SMTT(30) DEF Launching
  <1>13. QED
    BY <1>2, <1>8, <1>9, <1>10, <1>11, <1>12 DEF Ec2OpNames, Launching

\* The next n calls are behind.
LEMMA Ec2Passes ==
  ASSUME Ec2Shape, NEW o \in Ec2Tasks, work[o] # Idle, NEW n \in 1..Ahead(o),
         NEW v \in VpcIds \cup {NoVpc}, Pass(o, n, v)
  PROVE  /\ work' \in [Ec2Tasks -> Ec2Work] /\ Ec2Stands(o)'
         /\ \A p \in Ec2Tasks \ {o} : work'[p] = work[p]
         /\ n = Ahead(o) => work'[o] = Idle
         /\ n # Ahead(o) => /\ work'[o] # Idle /\ SameWork(o) /\ work'[o].found = v
                            /\ Ec2Bot(o)' = Ec2Bot(o) /\ Ahead(o)' = Ahead(o) - n
  <1> DEFINE s == work[o].calls
             t == SubSeq(s, n + 1, Len(s))
  <1>1. /\ work \in [Ec2Tasks -> Ec2Work] /\ work[o] \in Ec2Work /\ s \in Seq(Ec2Names)
        /\ work[o].op \in Ec2OpNames /\ IsRest(Ec2Names, s, Ec2Calls[work[o].op])
        /\ work[o].bot \in Ec2Bots
    BY DEF Ec2Shape, Ec2Work, Ec2Stands
  <1>2. Idle \in Ec2Work
    BY EmptySeq DEF Idle, Ec2Work
  <1>3. CASE n = Ahead(o)
    <2>1. work' = [work EXCEPT ![o] = Idle]
      BY <1>3 DEF Pass, Ahead
    <2>2. QED
      BY <1>1, <1>2, <1>3, <2>1 DEF Ec2Stands
  <1>4. CASE n # Ahead(o)
    <2>1. work' = [work EXCEPT ![o] = [work[o] EXCEPT !.calls = t, !.found = v]]
      <3>1. Len(work[o].calls) # n
        BY <1>4 DEF Ahead
      <3>2. QED
        BY <3>1 DEF Pass
    <2>2. PICK C \in Seq(Ec2Names) : C = Ec2Calls[work[o].op]
      BY <1>1, Ec2Order
    <2>3. PICK r : r = s
      OBVIOUS
    <2>4. IsRest(Ec2Names, r, C) /\ n \in 1..Len(r) - 1
      <3>1. IsRest(Ec2Names, r, C)
        BY <1>1, <2>2, <2>3
      <3>2. Len(r) \in Nat /\ Ahead(o) = Len(r)
        BY <1>1, <2>3 DEF Ahead
      <3>3. QED
        BY <1>4, <3>1, <3>2
    <2>5. /\ Len(SubSeq(r, n + 1, Len(r))) = Len(r) - n
          /\ IsRest(Ec2Names, SubSeq(r, n + 1, Len(r)), C)
      BY <2>4, RestGoesOn
    <2>6. Len(t) = Len(s) - n /\ IsRest(Ec2Names, t, C)
      BY <2>3, <2>5
    <2> HIDE DEF t
    <2>7. t \in Seq(Ec2Names) /\ t # <<>>
      BY <2>6 DEF IsRest
    <2>8. /\ work'[o].op = work[o].op /\ work'[o].bot = work[o].bot
          /\ work'[o].calls = t /\ work'[o].found = v
          /\ work' \in [Ec2Tasks -> Ec2Work]
          /\ \A p \in Ec2Tasks \ {o} : work'[p] = work[p]
      BY <1>1, <2>1, <2>7 DEF Ec2Work
    <2>9. Ec2Calls' = Ec2Calls
      BY DEF Ec2Calls, Installation, Launch, Destruction, MakeCalls, UnmakeCalls
    <2>10. Ec2Stands(o)'
      BY <1>1, <2>2, <2>6, <2>8, <2>9 DEF Ec2Stands
    <2>11. work'[o] # Idle
      BY <2>7, <2>8 DEF Idle
    <2>12. QED
      BY <1>4, <2>6, <2>8, <2>10, <2>11 DEF Ahead, SameWork, Ec2Bot
  <1>5. QED
    BY <1>3, <1>4

LEMMA Ec2GivesUp ==
  ASSUME Ec2Shape, NEW o \in Ec2Tasks, GiveUp(o)
  PROVE  /\ work' \in [Ec2Tasks -> Ec2Work] /\ Ec2Stands(o)' /\ work'[o] = Idle
         /\ \A p \in Ec2Tasks \ {o} : work'[p] = work[p]
  BY EmptySeq DEF Ec2Shape, Ec2Work, GiveUp, Idle, Ec2Stands

LEMMA Ec2CallerOf ==
  ASSUME Ec2Shape, NEW o \in Ec2Tasks, NEW call, Doing(o, call)
  PROVE  /\ call \in InstallNames => work[o].op = "install"
         /\ call = "ensure" => Ahead(o) = 13
         /\ call = "iam" => Ahead(o) = 7
         /\ call = "put" => work[o].op = "configure"
         /\ call = "find" => work[o].op \in Launching /\ Ahead(o) = 4
         /\ call = "infra" => work[o].op \in Launching /\ Ahead(o) = 3
         /\ call = "run" => work[o].op \in Launching /\ Ahead(o) = 2
         /\ call = "wait" => work[o].op \in Launching /\ Ahead(o) = 1
         /\ call = "terminate" => \/ work[o].op = "stop"
                                  \/ work[o].op \in Launching /\ Ahead(o) = 4
                                  \/ work[o].op = "destroy" /\ Ahead(o) = 13
         /\ call = "-template" => work[o].op = "destroy" /\ Ahead(o) = 12
         /\ call = "-secret" => work[o].op = "destroy" /\ Ahead(o) = 11
         /\ call = "orphan?" => work[o].op = "destroy" /\ Ahead(o) = 10
         /\ call \in UnmakeNames => work[o].op = "destroy" /\ Ahead(o) < 10
  <1>1. work[o].op \in Ec2OpNames /\ Ahead(o) \in Nat \ {0}
    BY Ec2Caller
  <1>2. CASE work[o].op = "install"
    <2>1. /\ call \in InstallNames
          /\ call = "ensure" => Ahead(o) = 13
          /\ call = "iam" => Ahead(o) = 7
      BY <1>2, Ec2Caller
    <2>2. QED
      BY <1>2, <2>1 DEF InstallNames, UnmakeNames, Launching
  <1>3. CASE work[o].op \in {"configure", "stop"}
    <2>1. call = IF work[o].op = "configure" THEN "put" ELSE "terminate"
      BY <1>3, Ec2Caller
    <2>2. QED
      BY <1>3, <2>1 DEF InstallNames, UnmakeNames, Launching
  <1>4. CASE work[o].op \in Launching
    <2>1. /\ Ahead(o) = 4 => call \in {"find", "terminate"}
          /\ Ahead(o) = 3 => call = "infra"
          /\ Ahead(o) = 2 => call = "run"
          /\ Ahead(o) = 1 => call = "wait"
          /\ Ahead(o) \in 1..4
      BY <1>4, Ec2Caller
    <2>2. call \in {"find", "terminate", "infra", "run", "wait"}
      BY <2>1
    <2>3. call \notin InstallNames /\ call \notin UnmakeNames
      BY <2>2 DEF InstallNames, UnmakeNames, Launching
    <2>4. call \notin {"put", "-template", "-secret", "orphan?", "ensure", "iam"}
      BY <2>2
    <2>5. /\ call = "find" => Ahead(o) = 4
          /\ call = "infra" => Ahead(o) = 3
          /\ call = "run" => Ahead(o) = 2
          /\ call = "wait" => Ahead(o) = 1
          /\ call = "terminate" => Ahead(o) = 4
      BY <2>1
    <2>6. QED
      BY <1>4, <2>3, <2>4, <2>5
  <1>5. CASE work[o].op = "destroy"
    <2>1. /\ Ahead(o) = 13 => call = "terminate"
          /\ Ahead(o) = 12 => call = "-template"
          /\ Ahead(o) = 11 => call = "-secret"
          /\ Ahead(o) = 10 => call = "orphan?"
          /\ Ahead(o) < 10 => call \in UnmakeNames
          /\ Ahead(o) \in 1..13
      BY <1>5, Ec2Caller
    <2>2. CASE Ahead(o) < 10
      <3>1. call \in UnmakeNames
        BY <2>1, <2>2
      <3>2. /\ call \notin InstallNames
            /\ call \notin {"put", "find", "infra", "run", "wait", "terminate", "-template",
                            "-secret", "orphan?", "ensure", "iam"}
        BY <3>1 DEF InstallNames, UnmakeNames, Launching
      <3>3. QED
        BY <1>5, <2>2, <3>1, <3>2
    <2>3. CASE Ahead(o) \in {10, 11, 12, 13}
      <3>1. call \in {"terminate", "-template", "-secret", "orphan?"}
        BY <2>1, <2>3
      <3>2. /\ call \notin InstallNames /\ call \notin UnmakeNames
            /\ call \notin {"put", "find", "infra", "run", "wait", "ensure", "iam"}
        BY <3>1 DEF InstallNames, UnmakeNames, Launching
      <3>3. /\ call = "terminate" => Ahead(o) = 13
            /\ call = "-template" => Ahead(o) = 12
            /\ call = "-secret" => Ahead(o) = 11
            /\ call = "orphan?" => Ahead(o) = 10
        BY <2>1, <2>3
      <3>4. QED
        BY <1>5, <3>2, <3>3
    <2>4. QED
      BY <2>1, <2>2, <2>3
  <1>6. QED
    BY <1>1, <1>2, <1>3, <1>4, <1>5 DEF Ec2OpNames, Launching

\* What the action property asks of a step of o.
EndsEmptied(o) ==
  work[o].op = "destroy" /\ work'[o] = Idle /\ ec2Left' = ec2Left /\ Ec2Bot(o) \notin crossed
    => (\A i \in Ec2Ids : ~(Live(i)' /\ machine'[i].of = Ec2Bot(o))) /\ template'[Ec2Bot(o)] = NoVpc
Ec2OK(o) == Ec2Inv' /\ EndsEmptied(o) /\ \A p \in Ec2Tasks \ {o} : work'[p] = work[p]

\* No instance comes to life, or one that o launches.
NoneNew ==
  \A i \in Ec2Ids : Live(i)' => Live(i) /\ machine'[i].of = machine[i].of /\ machine'[i].in = machine[i].in
Launches(o) ==
  /\ work[o].op \in Launching /\ Ahead(o) = 2
  /\ \E k \in Ec2Ids, v \in VpcIds :
       /\ ~Live(k) /\ machine'[k].of = Ec2Bot(o) /\ machine'[k].in = v /\ (ec2Calm => Complete(v)')
       /\ \A i \in Ec2Ids \ {k} : machine'[i] = machine[i]

\* What a step of o has to show: what is shared grows, unless it is o's destroy that
\* removes it, and an instance is launched into what is complete.
LEMMA Ec2Kept ==
  ASSUME Ec2Inv, NEW o \in Ec2Tasks, Ec2Typed', work' \in [Ec2Tasks -> Ec2Work], Ec2Stands(o)',
         ec2Calm' = ec2Calm, crossed' = crossed, oneVpc' => oneVpc, OneNetwork',
         \A p \in Ec2Tasks \ {o} : work'[p] = work[p],
         work'[o] = Idle \/ SameWork(o),
         \A c \in Ec2Bots : template[c] = NoVpc =>
           template'[c] = NoVpc \/ (work[o].op = "install" /\ c = Ec2Bot(o)),
         \/ \A v \in VpcIds : Complete(v) => Complete(v)'
         \/ work[o].op = "destroy" /\ Ahead(o) < 10,
         NoneNew \/ Launches(o),
         Emptied(o)', Cleared(o)', ReadyToRun(o)',
         ec2Calm /\ oneVpc /\ work'[o].op = "destroy" /\ Ahead(o)' < 10 => \A i \in Ec2Ids : ~Live(i),
         EndsEmptied(o)
  PROVE  Ec2OK(o)
  <1>1. Ec2Shape'
    <2>1. Ec2Calls' = Ec2Calls
      BY DEF Ec2Calls, Installation, Launch, Destruction, MakeCalls, UnmakeCalls
    <2>2. ASSUME NEW p \in Ec2Tasks \ {o} PROVE Ec2Stands(p)'
      BY <2>1 DEF Ec2Inv, Ec2Shape, Ec2Stands
    <2>3. QED
      BY <2>2 DEF Ec2Shape
  <1>2. /\ \A p \in Ec2Tasks \ {o} : Ahead(p)' = Ahead(p) /\ Ec2Bot(p)' = Ec2Bot(p)
        /\ \A p \in Ec2Tasks : work'[p].op = "none" \/
             (work'[p].op = work[p].op /\ Ec2Bot(p)' = Ec2Bot(p))
    BY DEF Ahead, Ec2Bot, SameWork, Idle
  <1>3. NoClash'
    <2>1. SUFFICES ASSUME NEW p \in Ec2Tasks, NEW q \in Ec2Tasks, p # q, Ec2Bot(p)' = Ec2Bot(q)',
                          Ec2Bot(p)' \notin crossed', Clash(work'[p].op, work'[q].op)
                   PROVE  FALSE
      BY DEF NoClash, Clash
    <2>2. work'[p].op # "none" /\ work'[q].op # "none"
      BY <2>1 DEF Clash, Launching
    <2>3. QED
      BY <1>2, <2>1, <2>2 DEF Ec2Inv, NoClash
  <1>4. ASSUME NEW p \in Ec2Tasks \ {o}, Ec2Bot(p) \notin crossed, Ec2Bot(p) = Ec2Bot(o)
        PROVE  /\ Launches(o) => work[p].op \notin Launching \cup {"destroy"}
               /\ work[o].op = "install" => work[p].op # "destroy"
    BY <1>4 DEF Ec2Inv, NoClash, Clash, Launches
  <1>5. ASSUME NEW p \in Ec2Tasks \ {o}, Ec2Bot(p) \notin crossed, NoneOf(Ec2Bot(p)),
               work[p].op \in Launching \cup {"destroy"}, NEW i \in Ec2Ids, Live(i)'
        PROVE  machine'[i].of # Ec2Bot(p)
    <2>1. CASE NoneNew
      BY <1>5, <2>1 DEF NoneNew, NoneOf
    <2>2. CASE Launches(o)
      <3>1. Ec2Bot(p) # Ec2Bot(o)
        BY <1>4, <1>5, <2>2
      <3>2. QED
        BY <1>5, <2>2, <3>1 DEF Launches, NoneOf, Live
    <2>3. QED
      BY <2>1, <2>2
  <1>6. ASSUME NEW p \in Ec2Tasks \ {o} PROVE Emptied(p)' /\ Cleared(p)'
    <2>1. work'[p] = work[p] /\ Ahead(p)' = Ahead(p) /\ Ec2Bot(p)' = Ec2Bot(p) /\ Emptied(p) /\ Cleared(p)
      BY <1>2 DEF Ec2Inv
    <2>2. Cleared(p)'
      <3>1. SUFFICES ASSUME work[p].op \in Launching, Ahead(p) \in {2, 3}, Ec2Bot(p) \notin crossed,
                            NEW i \in Ec2Ids, Live(i)'
                     PROVE  machine'[i].of # Ec2Bot(p)
        BY <2>1 DEF Cleared, NoneOf, Launching
      <3>2. NoneOf(Ec2Bot(p))
        BY <2>1, <3>1 DEF Cleared
      <3>3. QED
        BY <1>5, <3>1, <3>2
    <2>3. ASSUME work[p].op = "destroy", Ec2Bot(p) \notin crossed
          PROVE  /\ Ahead(p) < 13 => \A i \in Ec2Ids : Live(i)' => machine'[i].of # Ec2Bot(p)
                 /\ Ahead(p) < 12 => template'[Ec2Bot(p)] = NoVpc
      <3>1. Ahead(p) < 13 => \A i \in Ec2Ids : Live(i)' => machine'[i].of # Ec2Bot(p)
        BY <1>5, <2>1, <2>3 DEF Emptied
      <3>2. Ec2Bot(p) \in Ec2Bots
        BY <2>3 DEF Ec2Inv, Ec2Shape, Ec2Stands, Idle, Ec2Bot
      <3>3. Ahead(p) < 12 => template'[Ec2Bot(p)] = NoVpc
        BY <1>4, <2>1, <2>3, <3>2 DEF Emptied
      <3>4. QED
        BY <3>1, <3>3
    <2>4. Emptied(p)'
      BY <2>1, <2>3 DEF Emptied, NoneOf
    <2>5. QED
      BY <2>2, <2>4
  <1>7. ASSUME NEW p \in Ec2Tasks \ {o} PROVE ReadyToRun(p)'
    <2>1. SUFFICES ASSUME work[p].op \in Launching, Ahead(p) = 2
                   PROVE  work[p].found \in VpcIds /\ (ec2Calm => Complete(work[p].found)')
      BY <1>2, Zenon DEF ReadyToRun, Launching
    <2>2. work[p].found \in VpcIds /\ (ec2Calm => Complete(work[p].found))
      BY <2>1 DEF Ec2Inv, ReadyToRun
    <2>3. ec2Calm => work[o].op # "destroy"
      BY <2>1 DEF Ec2Inv, DestroyIsAlone, Idle, Launching
    <2>4. QED
      BY <2>2, <2>3
  <1>8. work[o].op \notin Launching => \A i \in Ec2Ids : Live(i)' => Live(i)
    BY DEF NoneNew, Launches
  <1>9. ASSUME NEW p \in Ec2Tasks \ {o} PROVE DestroyIsAlone(p)'
    <2>1. SUFFICES ASSUME ec2Calm, work[p].op = "destroy"
                   PROVE  /\ \A q \in Ec2Tasks \ {p} : work'[q] = Idle
                          /\ oneVpc' /\ Ahead(p)' < 10 => \A i \in Ec2Ids : ~Live(i)'
      BY DEF DestroyIsAlone
    <2>2. /\ \A q \in Ec2Tasks \ {p} : work[q] = Idle
          /\ oneVpc /\ Ahead(p) < 10 => \A i \in Ec2Ids : ~Live(i)
      BY <2>1 DEF Ec2Inv, DestroyIsAlone
    <2>3. work[o] = Idle /\ work'[o] = Idle /\ work[o].op \notin Launching
      BY <2>2 DEF Idle, SameWork, Launching
    <2>4. QED
      BY <1>2, <1>8, <2>2, <2>3
  <1>10. DestroyIsAlone(o)'
    <2>1. SUFFICES ASSUME ec2Calm, work'[o].op = "destroy"
                   PROVE  /\ \A q \in Ec2Tasks \ {o} : work'[q] = Idle
                          /\ oneVpc' /\ Ahead(o)' < 10 => \A i \in Ec2Ids : ~Live(i)'
      BY DEF DestroyIsAlone
    <2>2. work[o].op = "destroy" /\ work[o].op \notin Launching
      BY <2>1 DEF Idle, SameWork, Launching
    <2>3. \A q \in Ec2Tasks \ {o} : work[q] = Idle
      BY <2>1, <2>2 DEF Ec2Inv, DestroyIsAlone
    <2>4. QED
      BY <1>8, <2>1, <2>2, <2>3
  <1>11. OneInstance'
    <2>1. SUFFICES ASSUME NEW i \in Ec2Ids, NEW j \in Ec2Ids, Live(i)', Live(j)', i # j,
                          machine'[i].of = machine'[j].of, machine'[i].of \notin crossed
                   PROVE  FALSE
      BY DEF OneInstance
    <2>2. CASE NoneNew
      BY <2>1, <2>2 DEF NoneNew, Ec2Inv, OneInstance
    <2>3. CASE Launches(o)
      <3>1. PICK k \in Ec2Ids : /\ machine'[k].of = Ec2Bot(o)
                                /\ \A h \in Ec2Ids \ {k} : machine'[h] = machine[h]
        BY <2>3 DEF Launches
      <3>2. \A h \in Ec2Ids \ {k} : Live(h)' <=> Live(h)
        BY <3>1 DEF Live
      <3>3. CASE i # k /\ j # k
        BY <2>1, <3>1, <3>2, <3>3 DEF Ec2Inv, OneInstance
      <3>4. CASE i = k \/ j = k
        <4>1. Ec2Bot(o) \notin crossed
          BY <2>1, <3>1, <3>4
        <4>2. NoneOf(Ec2Bot(o))
          BY <2>3, <4>1 DEF Ec2Inv, Cleared, Launches
        <4>3. QED
          BY <2>1, <3>1, <3>2, <3>4, <4>2 DEF NoneOf
      <3>5. QED
        BY <3>3, <3>4
    <2>4. QED
      BY <2>2, <2>3
  <1>12. InstanceKeepsShared'
    <2>1. SUFFICES ASSUME NEW i \in Ec2Ids, ec2Calm, oneVpc, Live(i)'
                   PROVE  \E v \in VpcIds : machine'[i].in = v /\ Complete(v)'
      BY DEF InstanceKeepsShared, Complete
    <2>2. CASE Live(i) /\ machine'[i].in = machine[i].in
      <3>1. machine[i].in \in VpcIds
        BY <2>2 DEF Ec2Inv, Ec2Shape, Ec2Typed, Ec2Machines, Live, NoMachine, Running
      <3>2. Complete(machine[i].in)
        BY <2>1, <2>2 DEF Ec2Inv, InstanceKeepsShared, Complete
      <3>3. ~(work[o].op = "destroy" /\ Ahead(o) < 10)
        BY <2>1, <2>2 DEF Ec2Inv, DestroyIsAlone
      <3>4. PICK v \in VpcIds : v = machine[i].in
        BY <3>1
      <3>5. Complete(v)'
        BY <3>2, <3>3, <3>4
      <3>6. QED
        BY <2>2, <3>4, <3>5
    <2>3. CASE ~(Live(i) /\ machine'[i].in = machine[i].in)
      BY <2>1, <2>3 DEF NoneNew, Launches, Live
    <2>4. QED
      BY <2>2, <2>3
  <1>13. \A p \in Ec2Tasks : Emptied(p)' /\ Cleared(p)' /\ DestroyIsAlone(p)' /\ ReadyToRun(p)'
    BY <1>6, <1>7, <1>9, <1>10
  <1>14. QED
    BY <1>1, <1>3, <1>11, <1>12, <1>13 DEF Ec2Inv, Ec2OK

LEMMA Ec2Types ==
  ASSUME Ec2Inv
  PROVE  /\ Ec2Shape /\ vpc \in [VpcIds -> SUBSET VpcParts]
         /\ template \in [Ec2Bots -> VpcIds \cup {NoVpc}]
         /\ machine \in [Ec2Ids -> Ec2Machines]
         /\ work \in [Ec2Tasks -> Ec2Work] /\ ec2Left \in [op : Nat, fault : Nat]
         /\ \A o \in Ec2Tasks : work[o].found \in VpcIds \cup {NoVpc}
                                /\ (work[o] # Idle => Ec2Bot(o) \in Ec2Bots)
  BY DEF Ec2Inv, Ec2Shape, Ec2Typed, Ec2Work, Ec2Stands, Ec2Bot

\* A step that takes an operation further, or ends it, and changes no resource.
LEMMA Ec2Goes ==
  ASSUME Ec2Inv, NEW o \in Ec2Tasks, work[o] # Idle,
         vpc' = vpc, iam' = iam, template' = template, machine' = machine,
         ec2Calm' = ec2Calm, oneVpc' = oneVpc, crossed' = crossed, ec2Left' \in [op : Nat, fault : Nat],
         work' \in [Ec2Tasks -> Ec2Work], Ec2Stands(o)', \A p \in Ec2Tasks \ {o} : work'[p] = work[p],
         \/ work'[o] = Idle /\ (work[o].op = "destroy" => Ahead(o) < 12 \/ ec2Left' # ec2Left)
         \/ /\ work'[o].op = work[o].op /\ work'[o].bot = work[o].bot
            /\ work[o].op = "destroy" => \/ Ahead(o) = 11 /\ Ahead(o)' = 10
                                         \/ /\ Ahead(o) = 10
                                            /\ ec2Calm /\ oneVpc => \A i \in Ec2Ids : ~Live(i)
            /\ work[o].op \in Launching =>
                 \/ Ahead(o)' \notin {2, 3}
                 \/ Ahead(o) = 3 /\ work'[o].found \in VpcIds /\ Complete(work'[o].found)
  PROVE  Ec2OK(o)
  <1>1. Ec2Shape /\ Emptied(o) /\ Cleared(o)
    BY DEF Ec2Inv
  <1>2. NoneNew /\ (\A i \in Ec2Ids : Live(i)' <=> Live(i)) /\ (\A c : NoneOf(c) => NoneOf(c)')
    BY DEF NoneNew, NoneOf, Live
  <1>3. work'[o] = Idle \/ (SameWork(o) /\ Ec2Bot(o)' = Ec2Bot(o))
    BY DEF SameWork, Ec2Bot
  <1>4. Emptied(o)' /\ Cleared(o)'
    <2>1. CASE work'[o] = Idle
      BY <2>1 DEF Emptied, Cleared, Idle, Launching
    <2>2. CASE work'[o] # Idle /\ Ec2Bot(o)' = Ec2Bot(o)
      <3>1. /\ work[o].op = "destroy" => Ahead(o) < 12
            /\ work[o].op \in Launching => Ahead(o)' \notin {2, 3} \/ Ahead(o) = 3
            /\ work'[o].op = work[o].op
        BY <2>2
      <3>2. QED
        BY <1>1, <2>2, <3>1 DEF Emptied, Cleared, NoneOf, Live, Launching
    <2>3. QED
      BY <1>3, <2>1, <2>2
  <1>5. ReadyToRun(o)'
    BY DEF ReadyToRun, Idle, Complete, Launching
  <1>6. ec2Calm /\ oneVpc /\ work'[o].op = "destroy" /\ Ahead(o)' < 10 => \A i \in Ec2Ids : ~Live(i)
    BY DEF Idle
  <1>7. EndsEmptied(o)
    <2>1. SUFFICES ASSUME work[o].op = "destroy", work'[o] = Idle, ec2Left' = ec2Left, Ec2Bot(o) \notin crossed
                   PROVE  NoneOf(Ec2Bot(o)) /\ template[Ec2Bot(o)] = NoVpc
      BY <1>2 DEF EndsEmptied, NoneOf
    <2>2. Ahead(o) < 12 /\ Ahead(o) \in Nat
      <3>1. work[o] \in Ec2Work
        BY <1>1 DEF Ec2Shape
      <3>2. Ahead(o) \in Nat
        BY <3>1 DEF Ec2Work, Ahead
      <3>3. QED
        BY <2>1, <3>2 DEF Idle
    <2>3. QED
      BY <1>1, <2>1, <2>2 DEF Emptied
  <1>8. OneNetwork' /\ Ec2Typed'
    BY Ec2Types DEF Ec2Inv, OneNetwork, Tagged, Ec2Typed
  <1>9. \A v \in VpcIds : Complete(v) => Complete(v)'
    BY DEF Complete
  <1>10. \A c \in Ec2Bots : template[c] = NoVpc =>
           template'[c] = NoVpc \/ (work[o].op = "install" /\ c = Ec2Bot(o))
    OBVIOUS
  <1>11. QED
    BY <1>2, <1>3, <1>4, <1>5, <1>6, <1>7, <1>8, <1>9, <1>10, Ec2Kept

\* The steps of which nothing but the operation changes.
LEMMA Ec2Quiet ==
  ASSUME Ec2Inv, NEW o \in Ec2Tasks,
         \/ EnsureSharedInfra(o) \/ EnsureIamResources(o) \/ WaitRunning(o) \/ SharedInfra(o)
         \/ EnsureSecret(o, "secret", "empty") \/ EnsureSecret(o, "put", "config")
         \/ EnsureSecret(o, "-secret", "absent") \/ DeleteIfOrphaned(o)
  PROVE  Ec2OK(o)
  <1>1. /\ vpc' = vpc /\ iam' = iam /\ template' = template /\ machine' = machine
        /\ ec2Calm' = ec2Calm /\ oneVpc' = oneVpc /\ crossed' = crossed /\ ec2Left' = ec2Left
    BY DEF EnsureSharedInfra, EnsureIamResources, WaitRunning, SharedInfra, EnsureSecret,
           DeleteIfOrphaned, ec2Rest
  <1>2. Ec2Shape /\ ec2Left' \in [op : Nat, fault : Nat]
    BY <1>1, Ec2Types
  <1>3. PICK call : Doing(o, call)
    BY DEF EnsureSharedInfra, EnsureIamResources, WaitRunning, SharedInfra, EnsureSecret,
           DeleteIfOrphaned
  <1>4. work[o] # Idle /\ Ahead(o) \in Nat \ {0} /\ work[o].op \in Ec2OpNames
    BY <1>2, <1>3, Ec2Caller
  <1>5. work[o].found \in VpcIds \cup {NoVpc} /\ Tagged \subseteq VpcIds
    BY Ec2Types DEF Tagged
  <1>6. ASSUME GiveUp(o), work[o].op = "destroy" => Ahead(o) < 12 PROVE Ec2OK(o)
    <2>1. /\ work' \in [Ec2Tasks -> Ec2Work] /\ Ec2Stands(o)' /\ work'[o] = Idle
          /\ \A p \in Ec2Tasks \ {o} : work'[p] = work[p]
      BY <1>2, <1>6, Ec2GivesUp
    <2>2. QED
      BY <1>1, <1>2, <1>4, <1>6, <2>1, Ec2Goes
  <1>7. ASSUME NEW n \in 1..Ahead(o), NEW v \in VpcIds \cup {NoVpc}, Pass(o, n, v),
               work[o].op = "destroy" =>
                 /\ n = 1
                 /\ \/ Ahead(o) = 11
                    \/ Ahead(o) = 10 /\ (ec2Calm /\ oneVpc => \A i \in Ec2Ids : ~Live(i)),
               work[o].op \in Launching =>
                 n = 1 /\ (Ahead(o) = 1 \/ (Ahead(o) = 3 /\ v \in VpcIds /\ Complete(v)))
        PROVE  Ec2OK(o)
    <2>1. /\ work' \in [Ec2Tasks -> Ec2Work] /\ Ec2Stands(o)'
          /\ \A p \in Ec2Tasks \ {o} : work'[p] = work[p]
          /\ n = Ahead(o) => work'[o] = Idle
          /\ n # Ahead(o) => /\ SameWork(o) /\ work'[o].found = v
                             /\ Ahead(o)' = Ahead(o) - n
      BY <1>2, <1>4, <1>7, Ec2Passes
    <2>2. \/ work'[o] = Idle /\ (work[o].op = "destroy" => Ahead(o) < 12 \/ ec2Left' # ec2Left)
          \/ /\ work'[o].op = work[o].op /\ work'[o].bot = work[o].bot
             /\ work[o].op = "destroy" => \/ Ahead(o) = 11 /\ Ahead(o)' = 10
                                          \/ /\ Ahead(o) = 10
                                             /\ ec2Calm /\ oneVpc => \A i \in Ec2Ids : ~Live(i)
             /\ work[o].op \in Launching =>
                  \/ Ahead(o)' \notin {2, 3}
                  \/ Ahead(o) = 3 /\ work'[o].found \in VpcIds /\ Complete(work'[o].found)
      BY <1>4, <1>7, <2>1 DEF SameWork
    <2>3. QED
      BY <1>1, <1>2, <1>4, <2>1, <2>2, Ec2Goes
  <1>8. CASE EnsureSharedInfra(o) \/ EnsureIamResources(o)
    <2>1. \/ Doing(o, "ensure") /\ \E v \in VpcIds \cup {NoVpc}, n \in {1, 11} : Pass(o, n, v)
          \/ Doing(o, "iam") /\ \E v \in VpcIds \cup {NoVpc}, n \in {1, 5} : Pass(o, n, v)
      <3>1. Len(MakeCalls) = 10
        BY DEF MakeCalls
      <3>2. CASE EnsureSharedInfra(o)
        BY <1>5, <3>1, <3>2 DEF EnsureSharedInfra, Then
      <3>3. CASE EnsureIamResources(o)
        BY <1>5, <3>3 DEF EnsureIamResources
      <3>4. QED
        BY <1>8, <3>2, <3>3
    <2>2. PICK v \in VpcIds \cup {NoVpc}, n \in {1, 5, 11} :
            /\ Pass(o, n, v)
            /\ Doing(o, "ensure") \/ (Doing(o, "iam") /\ n # 11)
      BY <2>1
    <2>3. work[o].op = "install" /\ n \in 1..Ahead(o)
      <3>1. CASE Doing(o, "ensure")
        <4>1. work[o].op = "install" /\ Ahead(o) = 13
          BY <1>2, <3>1, Ec2CallerOf DEF InstallNames
        <4>2. QED
          BY <4>1
      <3>2. CASE Doing(o, "iam") /\ n # 11
        <4>1. work[o].op = "install" /\ Ahead(o) = 7
          BY <1>2, <3>2, Ec2CallerOf DEF InstallNames
        <4>2. QED
          BY <3>2, <4>1
      <3>3. QED
        BY <2>2, <3>1, <3>2
    <2>4. QED
      BY <1>7, <2>2, <2>3 DEF Launching
  <1>9. CASE WaitRunning(o)
    <2>1. Doing(o, "wait") /\ Pass(o, 1, work[o].found)
      BY <1>9 DEF WaitRunning, Then
    <2>2. work[o].op \in Launching /\ Ahead(o) = 1
      BY <1>2, <2>1, Ec2CallerOf
    <2>3. 1 \in 1..Ahead(o)
      BY <2>2
    <2>4. QED
      BY <1>5, <1>7, <2>1, <2>2, <2>3 DEF Launching
  <1>10. CASE SharedInfra(o)
    <2>1. Doing(o, "infra") /\ (GiveUp(o) \/ \E v \in VpcIds : Complete(v) /\ Pass(o, 1, v))
      BY <1>5, <1>10 DEF SharedInfra
    <2>2. work[o].op \in Launching /\ Ahead(o) = 3
      BY <1>2, <2>1, Ec2CallerOf
    <2>3. 1 \in 1..Ahead(o)
      BY <2>2
    <2>4. QED
      BY <1>6, <1>7, <2>1, <2>2, <2>3 DEF Launching
  <1>11. CASE \/ EnsureSecret(o, "secret", "empty") \/ EnsureSecret(o, "put", "config")
              \/ EnsureSecret(o, "-secret", "absent")
    <2>1. /\ Doing(o, "secret") \/ Doing(o, "put") \/ Doing(o, "-secret")
          /\ Pass(o, 1, work[o].found)
      BY <1>11 DEF EnsureSecret, Then
    <2>2. work[o].op \in {"install", "configure"} \/ (work[o].op = "destroy" /\ Ahead(o) = 11)
      BY <1>2, <2>1, Ec2CallerOf DEF InstallNames, Launching
    <2>3. 1 \in 1..Ahead(o)
      BY <1>4
    <2>4. QED
      BY <1>5, <1>7, <2>1, <2>2, <2>3 DEF Launching
  <1>12. CASE DeleteIfOrphaned(o)
    <2>1. /\ Doing(o, "orphan?")
          /\ GiveUp(o) \/ \E v \in Tagged : Complete(v) /\ ~InUse(v) /\ Pass(o, 1, v)
      BY <1>12 DEF DeleteIfOrphaned
    <2>2. work[o].op = "destroy" /\ Ahead(o) = 10 /\ 1 \in 1..Ahead(o)
      BY <1>2, <2>1, Ec2CallerOf
    <2>3. CASE GiveUp(o)
      BY <1>6, <2>2, <2>3
    <2>4. CASE \E v \in Tagged : Complete(v) /\ ~InUse(v) /\ Pass(o, 1, v)
      <3>1. PICK v \in Tagged : Complete(v) /\ ~InUse(v) /\ Pass(o, 1, v)
        BY <2>4
      <3>2. ASSUME ec2Calm, oneVpc, NEW i \in Ec2Ids, Live(i) PROVE FALSE
        <4>1. machine[i].in \in VpcIds /\ vpc[machine[i].in] = VpcParts
          BY <1>2, <3>2
          DEF Ec2Inv, Ec2Shape, Ec2Typed, Ec2Machines, InstanceKeepsShared, Live, NoMachine, Running
        <4>2. machine[i].in \in Tagged
          BY <4>1 DEF Tagged, VpcParts
        <4>3. machine[i].in = v
          BY <3>1, <3>2, <4>2 DEF Ec2Inv, OneNetwork
        <4>4. QED
          BY <3>1, <3>2, <4>3 DEF InUse
      <3>3. v \in VpcIds \cup {NoVpc}
        BY <1>5
      <3>4. QED
        BY <1>7, <2>2, <3>1, <3>2, <3>3 DEF Launching
    <2>5. QED
      BY <2>1, <2>3, <2>4
  <1>13. QED
    BY <1>8, <1>9, <1>10, <1>11, <1>12

LEMMA Ec2Failing == ASSUME Ec2Inv, NEW o \in Ec2Tasks, Ec2CallFails(o) PROVE Ec2OK(o)
  <1>1. /\ work[o] # Idle /\ vpc' = vpc /\ iam' = iam /\ template' = template /\ machine' = machine
        /\ ec2Calm' = ec2Calm /\ oneVpc' = oneVpc /\ crossed' = crossed
        /\ ec2Left.fault > 0 /\ ec2Left' = [ec2Left EXCEPT !.fault = @ - 1]
        /\ GiveUp(o) \/ (Doing(o, "-secret") /\ Pass(o, 1, work[o].found))
    BY DEF Ec2CallFails, Then
  <1>2. Ec2Shape /\ ec2Left' \in [op : Nat, fault : Nat] /\ ec2Left' # ec2Left
    BY <1>1, Ec2Types
  <1>3. CASE GiveUp(o)
    <2>1. /\ work' \in [Ec2Tasks -> Ec2Work] /\ Ec2Stands(o)' /\ work'[o] = Idle
          /\ \A p \in Ec2Tasks \ {o} : work'[p] = work[p]
      BY <1>2, <1>3, Ec2GivesUp
    <2>2. QED
      BY <1>1, <1>2, <2>1, Ec2Goes
  <1>4. CASE Doing(o, "-secret") /\ Pass(o, 1, work[o].found)
    <2>1. work[o].op = "destroy" /\ Ahead(o) = 11 /\ 1 \in 1..Ahead(o) /\ 1 # Ahead(o)
      BY <1>2, <1>4, Ec2CallerOf
    <2>2. work[o].found \in VpcIds \cup {NoVpc}
      BY Ec2Types
    <2>3. /\ work' \in [Ec2Tasks -> Ec2Work] /\ Ec2Stands(o)'
          /\ \A p \in Ec2Tasks \ {o} : work'[p] = work[p]
          /\ SameWork(o) /\ Ahead(o)' = Ahead(o) - 1
      BY <1>1, <1>2, <1>4, <2>1, <2>2, Ec2Passes
    <2>4. Ahead(o)' = 10 /\ work[o].op \notin Launching
      BY <2>1, <2>3 DEF Launching
    <2>5. QED
      BY <1>1, <1>2, <2>1, <2>3, <2>4, Ec2Goes DEF SameWork
  <1>5. QED
    BY <1>1, <1>3, <1>4

\* A step of an installation adds to what is shared.
LEMMA Ec2Grows ==
  ASSUME Ec2Inv, NEW o \in Ec2Tasks, work[o] # Idle, work[o].op = "install",
         GiveUp(o) \/ \E v \in VpcIds \cup {NoVpc} : Pass(o, 1, v),
         vpc' \in [VpcIds -> SUBSET VpcParts], template' \in [Ec2Bots -> VpcIds \cup {NoVpc}],
         \A c \in Ec2Bots \ {Ec2Bot(o)} : template'[c] = template[c],
         machine' = machine, ec2Calm' = ec2Calm, crossed' = crossed, oneVpc' => oneVpc, ec2Left' = ec2Left, OneNetwork',
         \A v \in VpcIds : Complete(v) => Complete(v)'
  PROVE  Ec2OK(o)
  <1>1. Ec2Shape /\ Ahead(o) \in Nat \ {0}
    <2>1. Ec2Shape /\ work[o].calls \in Seq(Ec2Names) /\ IsRest(Ec2Names, work[o].calls, Ec2Calls[work[o].op])
      BY DEF Ec2Inv, Ec2Shape, Ec2Work, Ec2Stands
    <2>2. work[o].calls # <<>>
      BY <2>1 DEF IsRest
    <2>3. QED
      BY <2>1, <2>2 DEF Ahead
  <1>2. /\ work' \in [Ec2Tasks -> Ec2Work] /\ Ec2Stands(o)'
        /\ \A p \in Ec2Tasks \ {o} : work'[p] = work[p]
        /\ work'[o] = Idle \/ SameWork(o)
    <2>1. CASE GiveUp(o)
      BY <1>1, <2>1, Ec2GivesUp
    <2>2. CASE \E v \in VpcIds \cup {NoVpc} : Pass(o, 1, v)
      <3>1. PICK v \in VpcIds \cup {NoVpc} : Pass(o, 1, v)
        BY <2>2
      <3>2. 1 \in 1..Ahead(o)
        BY <1>1
      <3>3. QED
        BY <1>1, <3>1, <3>2, Ec2Passes
    <2>3. QED
      BY <2>1, <2>2
  <1>3. Emptied(o)' /\ Cleared(o)' /\ ReadyToRun(o)' /\ work'[o].op # "destroy"
    BY <1>2 DEF Emptied, Cleared, ReadyToRun, Idle, SameWork, Launching
  <1>4. EndsEmptied(o)
    BY DEF EndsEmptied
  <1>5. Ec2Typed' /\ NoneNew
    BY Ec2Types DEF Live, NoneNew, Ec2Typed
  <1>6. \A c \in Ec2Bots : template[c] = NoVpc =>
          template'[c] = NoVpc \/ (work[o].op = "install" /\ c = Ec2Bot(o))
    OBVIOUS
  <1>7. QED
    BY <1>2, <1>3, <1>4, <1>5, <1>6, Ec2Kept

LEMMA Ec2Builds ==
  ASSUME Ec2Inv, NEW o \in Ec2Tasks,
         \/ CreateVpc(o) \/ EnsureLaunchTemplate(o)
         \/ \E p \in VpcParts \ {"vpc"} : CreatePart(o, p)
         \/ \E p \in IamParts : CreateIam(o, p)
  PROVE  Ec2OK(o)
  <1>1. Ec2Shape /\ vpc \in [VpcIds -> SUBSET VpcParts] /\ work[o].found \in VpcIds \cup {NoVpc}
    BY Ec2Types
  <1>2. ASSUME NEW call \in InstallNames, Doing(o, call)
        PROVE  work[o] # Idle /\ work[o].op = "install"
    BY <1>1, <1>2, Ec2CallerOf, Ec2Caller
  <1>3. CASE CreateVpc(o)
    <2>1. /\ Doing(o, "vpc") /\ oneVpc' = (oneVpc /\ Tagged = {}) /\ crossed' = crossed
          /\ iam' = iam /\ template' = template /\ machine' = machine /\ ec2Calm' = ec2Calm
          /\ ec2Left' = ec2Left
          /\ \/ GiveUp(o) /\ vpc' = vpc
             \/ \E v \in VpcIds \ Tagged : vpc' = [vpc EXCEPT ![v] = {"vpc"}] /\ Pass(o, 1, v)
      <3>1. Tagged # VpcIds => (CHOOSE v \in VpcIds \ Tagged : TRUE) \in VpcIds \ Tagged
        BY DEF Tagged
      <3>2. QED
        BY <1>3, <3>1 DEF CreateVpc
    <2>2. work[o] # Idle /\ work[o].op = "install"
      BY <1>2, <2>1 DEF InstallNames
    <2>3. template' \in [Ec2Bots -> VpcIds \cup {NoVpc}]
      BY <2>1, Ec2Types
    <2>4. CASE GiveUp(o) /\ vpc' = vpc
      <3>1. OneNetwork' /\ \A v \in VpcIds : Complete(v) => Complete(v)'
        BY <2>1, <2>4 DEF Ec2Inv, OneNetwork, Tagged, Complete
      <3>2. QED
        BY <1>1, <2>1, <2>2, <2>3, <2>4, <3>1, Ec2Grows
    <2>5. CASE \E v \in VpcIds \ Tagged : vpc' = [vpc EXCEPT ![v] = {"vpc"}] /\ Pass(o, 1, v)
      <3>1. PICK v \in VpcIds \ Tagged : vpc' = [vpc EXCEPT ![v] = {"vpc"}] /\ Pass(o, 1, v)
        BY <2>5
      <3>2. vpc' \in [VpcIds -> SUBSET VpcParts]
        BY <1>1, <3>1 DEF VpcParts
      <3>3. OneNetwork'
        BY <1>1, <2>1, <3>1 DEF OneNetwork, Tagged
      <3>4. \A u \in VpcIds : Complete(u) => Complete(u)'
        BY <1>1, <2>1, <3>1 DEF Complete, Tagged, VpcParts
      <3>5. QED
        BY <2>1, <2>2, <2>3, <3>1, <3>2, <3>3, <3>4, Ec2Grows
    <2>6. QED
      BY <2>1, <2>4, <2>5
  <1>4. CASE EnsureLaunchTemplate(o)
    <2>1. /\ Doing(o, "template") /\ template' = [template EXCEPT ![Ec2Bot(o)] = work[o].found]
          /\ Pass(o, 1, work[o].found) /\ vpc' = vpc /\ iam' = iam /\ machine' = machine
          /\ ec2Calm' = ec2Calm /\ oneVpc' = oneVpc /\ crossed' = crossed /\ ec2Left' = ec2Left
      BY <1>4 DEF EnsureLaunchTemplate, Then, ec2Rest
    <2>2. work[o] # Idle /\ work[o].op = "install"
      BY <1>2, <2>1 DEF InstallNames
    <2>3. /\ template' \in [Ec2Bots -> VpcIds \cup {NoVpc}]
          /\ \A c \in Ec2Bots \ {Ec2Bot(o)} : template'[c] = template[c]
      BY <1>1, <2>1, Ec2Types
    <2>4. OneNetwork' /\ \A v \in VpcIds : Complete(v) => Complete(v)'
      BY <2>1 DEF Ec2Inv, OneNetwork, Tagged, Complete
    <2>5. QED
      BY <1>1, <2>1, <2>2, <2>3, <2>4, Ec2Grows
  <1>5. CASE \E p \in VpcParts \ {"vpc"} : CreatePart(o, p)
    <2>1. PICK p \in VpcParts \ {"vpc"} : CreatePart(o, p)
      BY <1>5
    <2>2. /\ Doing(o, p) /\ iam' = iam /\ template' = template /\ machine' = machine
          /\ ec2Calm' = ec2Calm /\ oneVpc' = oneVpc /\ crossed' = crossed /\ ec2Left' = ec2Left
          /\ \/ GiveUp(o) /\ vpc' = vpc
             \/ /\ vpc[work[o].found] # {} /\ Pass(o, 1, work[o].found)
                /\ vpc' = [vpc EXCEPT ![work[o].found] = @ \cup {p}]
      BY <2>1 DEF CreatePart, Then, ec2Rest
    <2>3. work[o] # Idle /\ work[o].op = "install"
      <3>1. p \in InstallNames
        BY DEF InstallNames, VpcParts
      <3>2. QED
        BY <1>2, <2>2, <3>1
    <2>4. template' \in [Ec2Bots -> VpcIds \cup {NoVpc}]
      BY <2>2, Ec2Types
    <2>5. vpc' \in [VpcIds -> SUBSET VpcParts]
      BY <1>1, <2>2
    <2>6. Tagged' = Tagged
      BY <1>1, <2>2 DEF Tagged
    <2>7. OneNetwork'
      BY <2>2, <2>6 DEF Ec2Inv, OneNetwork
    <2>8. \A v \in VpcIds : Complete(v) => Complete(v)'
      <3>1. \A v \in VpcIds : vpc[v] = VpcParts => vpc'[v] = VpcParts
        <4>1. \A v \in VpcIds : vpc'[v] = vpc[v] \/ vpc'[v] = vpc[v] \cup {p}
          BY <1>1, <2>2
        <4>2. QED
          BY <4>1
      <3>2. QED
        BY <2>2, <3>1 DEF Complete
    <2>9. QED
      BY <1>1, <2>2, <2>3, <2>4, <2>5, <2>7, <2>8, Ec2Grows
  <1>6. CASE \E p \in IamParts : CreateIam(o, p)
    <2>1. PICK p \in IamParts : CreateIam(o, p)
      BY <1>6
    <2>2. /\ Doing(o, p) /\ vpc' = vpc /\ template' = template /\ machine' = machine
          /\ ec2Calm' = ec2Calm /\ oneVpc' = oneVpc /\ crossed' = crossed /\ ec2Left' = ec2Left
          /\ GiveUp(o) \/ Pass(o, 1, work[o].found)
          /\ iam \subseteq iam'
      BY <2>1 DEF CreateIam, Then, ec2Rest
    <2>3. work[o] # Idle /\ work[o].op = "install"
      <3>1. p \in InstallNames
        BY DEF InstallNames, IamParts
      <3>2. QED
        BY <1>2, <2>2, <3>1
    <2>4. template' \in [Ec2Bots -> VpcIds \cup {NoVpc}]
      BY <2>2, Ec2Types
    <2>5. OneNetwork' /\ \A v \in VpcIds : Complete(v) => Complete(v)'
      BY <2>2 DEF Ec2Inv, OneNetwork, Tagged, Complete
    <2>6. QED
      BY <1>1, <2>2, <2>3, <2>4, <2>5, Ec2Grows
  <1>7. QED
    BY <1>3, <1>4, <1>5, <1>6

\* What is shared is removed by a destroy that is past its instance and its template.
LEMMA Ec2Removes ==
  ASSUME Ec2Inv, NEW o \in Ec2Tasks, (\E p \in IamParts : DeleteIam(o, p)) \/ \E p \in VpcParts : DeletePart(o, p)
  PROVE  Ec2OK(o)
  <1>1. Ec2Shape /\ vpc \in [VpcIds -> SUBSET VpcParts] /\ work[o].found \in VpcIds \cup {NoVpc}
    BY Ec2Types
  <1>2. PICK p \in IamParts \cup VpcParts : Doing(o, Unmake[p])
    BY DEF DeleteIam, DeletePart
  <1>3. /\ template' = template /\ machine' = machine /\ ec2Calm' = ec2Calm /\ oneVpc' = oneVpc /\ crossed' = crossed
        /\ ec2Left' = ec2Left /\ (GiveUp(o) \/ Pass(o, 1, work[o].found))
    BY DEF DeleteIam, DeletePart, Then, ec2Rest
  <1>4. vpc' = vpc \/ \E q \in VpcParts : vpc' = [vpc EXCEPT ![work[o].found] = @ \ {q}]
    BY DEF DeleteIam, DeletePart
  <1>5. Unmake[p] \in UnmakeNames
    BY DEF Unmake, UnmakeNames, IamParts, VpcParts
  <1>6. work[o] # Idle /\ work[o].op = "destroy" /\ Ahead(o) \in Nat \ {0} /\ Ahead(o) < 10
    <2>1. PICK call : call = Unmake[p]
      OBVIOUS
    <2>2. Doing(o, call) /\ call \in UnmakeNames
      BY <1>2, <1>5, <2>1
    <2>3. QED
      BY <1>1, <2>2, Ec2CallerOf, Ec2Caller
  <1>7. (ec2Calm /\ oneVpc => \A i \in Ec2Ids : ~Live(i))
    BY <1>6 DEF Ec2Inv, DestroyIsAlone
  <1>8. /\ work' \in [Ec2Tasks -> Ec2Work] /\ Ec2Stands(o)'
        /\ \A q \in Ec2Tasks \ {o} : work'[q] = work[q]
        /\ work'[o] = Idle \/ (SameWork(o) /\ Ec2Bot(o)' = Ec2Bot(o) /\ Ahead(o)' < 10)
    <2>1. CASE GiveUp(o)
      BY <1>1, <2>1, Ec2GivesUp
    <2>2. CASE Pass(o, 1, work[o].found)
      <3>1. 1 \in 1..Ahead(o)
        BY <1>6
      <3>2. QED
        BY <1>1, <1>6, <2>2, <3>1, Ec2Passes
    <2>3. QED
      BY <1>3, <2>1, <2>2
  <1>9. vpc' \in [VpcIds -> SUBSET VpcParts] /\ Tagged' \subseteq Tagged
    BY <1>1, <1>4 DEF Tagged
  <1>10. OneNetwork'
    BY <1>3, <1>9 DEF Ec2Inv, OneNetwork
  <1>11. Ec2Typed' /\ NoneNew
    BY <1>3, <1>9, Ec2Types DEF NoneNew, Live, Ec2Typed
  <1>12. Ec2Bot(o) \notin crossed =>
           /\ \A i \in Ec2Ids : Live(i)' => machine'[i].of # Ec2Bot(o)
           /\ template'[Ec2Bot(o)] = NoVpc
    BY <1>3, <1>6, <1>11 DEF Ec2Inv, Emptied, NoneNew, NoneOf
  <1>13. Emptied(o)'
    BY <1>3, <1>8, <1>12 DEF Emptied, Idle, NoneOf
  <1>14. Cleared(o)' /\ ReadyToRun(o)' /\ EndsEmptied(o)
    BY <1>6, <1>8, <1>12 DEF Cleared, ReadyToRun, EndsEmptied, Idle, SameWork, Launching
  <1>15. QED
    BY <1>3, <1>6, <1>7, <1>8, <1>10, <1>11, <1>13, <1>14, Ec2Kept

\* The bot's only instance is the one that is found and terminated.
LEMMA Ec2Clears ==
  ASSUME Ec2Inv, NEW b \in Ec2Bots,
         \/ \E i \in FindInstanceByTag(b) : Terminate(i)
         \/ FindInstanceByTag(b) = {} /\ machine' = machine
  PROVE  /\ machine' \in [Ec2Ids -> Ec2Machines] /\ NoneNew
         /\ b \notin crossed => \A i \in Ec2Ids : Live(i)' => machine'[i].of # b
  <1>1. machine \in [Ec2Ids -> Ec2Machines]
    BY Ec2Types
  <1>2. CASE \E i \in FindInstanceByTag(b) : Terminate(i)
    <2>1. PICK i \in FindInstanceByTag(b) : Terminate(i)
      BY <1>2
    <2>2. i \in Ec2Ids /\ Live(i) /\ machine[i].of = b
      BY DEF FindInstanceByTag, LiveOf
    <2>3. machine[i] \in [of : Ec2Bots, is : Running \cup {"stopped", "dying"}, in : VpcIds]
      BY <1>1, <2>2 DEF Ec2Machines, Live, NoMachine, Running
    <2>4. /\ machine' \in [Ec2Ids -> Ec2Machines] /\ machine'[i].is = "dying"
          /\ \A j \in Ec2Ids \ {i} : machine'[j] = machine[j]
      BY <1>1, <2>1, <2>2, <2>3 DEF Terminate, Ec2Machines
    <2>5. ~Live(i)' /\ \A j \in Ec2Ids \ {i} : Live(j)' <=> Live(j)
      BY <2>4 DEF Live, Running
    <2>6. QED
      BY <2>2, <2>4, <2>5 DEF NoneNew, Ec2Inv, OneInstance
  <1>3. CASE FindInstanceByTag(b) = {} /\ machine' = machine
    <2>1. \A i \in Ec2Ids : ~(Live(i) /\ machine[i].of = b)
      BY <1>3 DEF FindInstanceByTag, LiveOf
    <2>2. QED
      BY <1>1, <1>3, <2>1 DEF NoneNew, Live
  <1>4. QED
    BY <1>2, <1>3

LEMMA Ec2Terminates ==
  ASSUME Ec2Inv, NEW o \in Ec2Tasks, TerminateInstance(o) \/ FindForStart(o)
  PROVE  Ec2OK(o)
  <1>1. /\ Doing(o, "terminate") \/ Doing(o, "find")
        /\ vpc' = vpc /\ iam' = iam /\ template' = template
        /\ ec2Calm' = ec2Calm /\ oneVpc' = oneVpc /\ crossed' = crossed /\ ec2Left' = ec2Left
        /\ \/ /\ \/ \E i \in FindInstanceByTag(Ec2Bot(o)) : Terminate(i)
                 \/ FindInstanceByTag(Ec2Bot(o)) = {} /\ machine' = machine
              /\ Pass(o, 1, work[o].found)
           \/ Doing(o, "find") /\ GiveUp(o) /\ machine' = machine
    BY DEF TerminateInstance, FindForStart, Then, ec2Rest
  <1>2. Ec2Shape /\ work[o].found \in VpcIds \cup {NoVpc} /\ ec2Left' \in [op : Nat, fault : Nat]
    BY <1>1, Ec2Types
  <1>3. work[o] # Idle /\ Ahead(o) \in Nat \ {0}
    BY <1>1, <1>2, Ec2Caller
  <1>4. /\ \/ work[o].op = "stop"
           \/ work[o].op \in Launching /\ Ahead(o) = 4
           \/ work[o].op = "destroy" /\ Ahead(o) = 13
        /\ Doing(o, "find") => work[o].op \in Launching /\ Ahead(o) = 4
    BY <1>1, <1>2, Ec2CallerOf
  <1>5. CASE Doing(o, "find") /\ GiveUp(o) /\ machine' = machine
    <2>1. work[o].op # "destroy"
      BY <1>4, <1>5 DEF Launching
    <2>2. /\ work' \in [Ec2Tasks -> Ec2Work] /\ Ec2Stands(o)' /\ work'[o] = Idle
          /\ \A p \in Ec2Tasks \ {o} : work'[p] = work[p]
      BY <1>2, <1>5, Ec2GivesUp
    <2>3. QED
      BY <1>1, <1>2, <1>3, <1>5, <2>1, <2>2, Ec2Goes
  <1>6. CASE /\ \/ \E i \in FindInstanceByTag(Ec2Bot(o)) : Terminate(i)
                \/ FindInstanceByTag(Ec2Bot(o)) = {} /\ machine' = machine
             /\ Pass(o, 1, work[o].found)
    <2>1. Ec2Bot(o) \in Ec2Bots
      BY <1>3, Ec2Types
    <2>2. /\ machine' \in [Ec2Ids -> Ec2Machines] /\ NoneNew
          /\ Ec2Bot(o) \notin crossed => \A i \in Ec2Ids : Live(i)' => machine'[i].of # Ec2Bot(o)
      <3>1. PICK b \in Ec2Bots : b = Ec2Bot(o)
        BY <2>1
      <3>2. \/ \E i \in FindInstanceByTag(b) : Terminate(i)
            \/ FindInstanceByTag(b) = {} /\ machine' = machine
        BY <1>6, <3>1
      <3>3. QED
        BY <3>1, <3>2, Ec2Clears
    <2>3. /\ work' \in [Ec2Tasks -> Ec2Work] /\ Ec2Stands(o)'
          /\ \A p \in Ec2Tasks \ {o} : work'[p] = work[p]
          /\ 1 = Ahead(o) => work'[o] = Idle
          /\ 1 # Ahead(o) => SameWork(o) /\ Ec2Bot(o)' = Ec2Bot(o) /\ Ahead(o)' = Ahead(o) - 1
      <3>1. 1 \in 1..Ahead(o)
        BY <1>3
      <3>2. QED
        BY <1>2, <1>3, <1>6, <3>1, Ec2Passes
    <2>4. /\ work[o].op = "destroy" => work'[o] # Idle
          /\ work'[o].op = "destroy" => Ahead(o)' = 12 /\ Ec2Bot(o)' = Ec2Bot(o)
          /\ work'[o].op \in Launching => Ahead(o)' = 3 /\ Ec2Bot(o)' = Ec2Bot(o)
      BY <1>4, <2>3 DEF Idle, SameWork, Launching
    <2>5. Emptied(o)' /\ Cleared(o)'
      BY <1>1, <2>2, <2>4 DEF Emptied, Cleared, NoneOf, Launching
    <2>6. ReadyToRun(o)' /\ EndsEmptied(o) /\ ~(work'[o].op = "destroy" /\ Ahead(o)' < 10)
      BY <2>4 DEF ReadyToRun, EndsEmptied, Launching
    <2>7. OneNetwork' /\ \A v \in VpcIds : Complete(v) => Complete(v)'
      BY <1>1 DEF Ec2Inv, OneNetwork, Tagged, Complete
    <2>8. Ec2Typed' /\ (work'[o] = Idle \/ SameWork(o))
      BY <1>1, <2>2, <2>3, Ec2Types DEF Ec2Typed
    <2>9. \A c \in Ec2Bots : template[c] = NoVpc =>
            template'[c] = NoVpc \/ (work[o].op = "install" /\ c = Ec2Bot(o))
      BY <1>1
    <2>10. QED
      BY <1>1, <2>2, <2>3, <2>5, <2>6, <2>7, <2>8, <2>9, Ec2Kept
  <1>7. QED
    BY <1>1, <1>5, <1>6

LEMMA Ec2Untemplates == ASSUME Ec2Inv, NEW o \in Ec2Tasks, DeleteLaunchTemplate(o) PROVE Ec2OK(o)
  <1>1. /\ Doing(o, "-template") /\ Pass(o, 1, work[o].found) /\ vpc' = vpc /\ iam' = iam
        /\ machine' = machine /\ template' = [template EXCEPT ![Ec2Bot(o)] = NoVpc]
        /\ ec2Calm' = ec2Calm /\ oneVpc' = oneVpc /\ crossed' = crossed /\ ec2Left' = ec2Left
    BY DEF DeleteLaunchTemplate, Then, ec2Rest
  <1>2. /\ Ec2Shape /\ work[o].found \in VpcIds \cup {NoVpc}
        /\ template \in [Ec2Bots -> VpcIds \cup {NoVpc}]
    BY Ec2Types
  <1>3. work[o] # Idle /\ work[o].op = "destroy" /\ Ahead(o) = 12
    BY <1>1, <1>2, Ec2CallerOf, Ec2Caller
  <1>4. Ec2Bot(o) \in Ec2Bots
    BY <1>3, Ec2Types
  <1>5. /\ Ec2Typed' /\ NoneNew /\ template'[Ec2Bot(o)] = NoVpc
        /\ \A c \in Ec2Bots : template[c] = NoVpc => template'[c] = NoVpc
    BY <1>1, <1>2, <1>4, Ec2Types DEF Ec2Typed, NoneNew, Live
  <1>6. /\ work' \in [Ec2Tasks -> Ec2Work] /\ Ec2Stands(o)'
        /\ \A p \in Ec2Tasks \ {o} : work'[p] = work[p]
        /\ SameWork(o) /\ Ec2Bot(o)' = Ec2Bot(o) /\ work'[o] # Idle /\ Ahead(o)' = 11
    <2>1. 1 \in 1..Ahead(o) /\ 1 # Ahead(o)
      BY <1>3
    <2>2. SameWork(o) => work'[o] # Idle
      BY <1>3 DEF SameWork, Idle
    <2>3. QED
      BY <1>1, <1>2, <1>3, <2>1, <2>2, Ec2Passes, SMTT(30)
  <1>7. Ec2Bot(o) \notin crossed => \A i \in Ec2Ids : Live(i)' => machine'[i].of # Ec2Bot(o)
    BY <1>1, <1>3, <1>5 DEF Ec2Inv, Emptied, NoneNew, NoneOf
  <1>8. Emptied(o)'
    BY <1>1, <1>5, <1>6, <1>7 DEF Emptied, NoneOf
  <1>9. /\ Cleared(o)' /\ ReadyToRun(o)' /\ EndsEmptied(o) /\ ~(Ahead(o)' < 10)
        /\ work[o].op \notin Launching
    BY <1>3, <1>6 DEF Cleared, ReadyToRun, EndsEmptied, SameWork, Launching
  <1>10. OneNetwork' /\ \A v \in VpcIds : Complete(v) => Complete(v)'
    BY <1>1 DEF Ec2Inv, OneNetwork, Tagged, Complete
  <1>11. QED
    BY <1>1, <1>5, <1>6, <1>8, <1>9, <1>10, Ec2Kept

\* A launch goes into the network that the operation found, which is still complete.
LEMMA Ec2Launches == ASSUME Ec2Inv, NEW o \in Ec2Tasks, RunInstance(o) PROVE Ec2OK(o)
  <1>1. /\ Doing(o, "run") /\ vpc' = vpc /\ iam' = iam /\ template' = template
        /\ ec2Calm' = ec2Calm /\ oneVpc' = oneVpc /\ crossed' = crossed /\ ec2Left' = ec2Left
        /\ \/ /\ \E k \in Ec2Ids :
                   /\ machine[k] = NoMachine
                   /\ machine' = [machine EXCEPT ![k] = [of |-> Ec2Bot(o), is |-> "pending", in |-> work[o].found]]
              /\ Pass(o, 1, work[o].found)
           \/ GiveUp(o) /\ machine' = machine
    BY DEF RunInstance, Then, ec2Rest
  <1>2. Ec2Shape /\ machine \in [Ec2Ids -> Ec2Machines]
    BY Ec2Types
  <1>3. work[o] # Idle /\ work[o].op \in Launching /\ Ahead(o) = 2
    BY <1>1, <1>2, Ec2CallerOf, Ec2Caller
  <1>4. Ec2Bot(o) \in Ec2Bots /\ work[o].found \in VpcIds /\ (ec2Calm => Complete(work[o].found))
    BY <1>3, Ec2Types DEF Ec2Inv, ReadyToRun
  <1>5. PICK v \in VpcIds : v = work[o].found
    BY <1>4
  <1>6. \A u \in VpcIds : Complete(u) => Complete(u)'
    BY <1>1 DEF Complete
  <1>7. machine' \in [Ec2Ids -> Ec2Machines] /\ (NoneNew \/ Launches(o))
    <2>1. CASE machine' = machine
      BY <1>2, <2>1 DEF NoneNew, Live
    <2>2. CASE \E k \in Ec2Ids :
                 /\ machine[k] = NoMachine
                 /\ machine' = [machine EXCEPT ![k] = [of |-> Ec2Bot(o), is |-> "pending", in |-> v]]
      <3>1. PICK k \in Ec2Ids :
                 /\ machine[k] = NoMachine
                 /\ machine' = [machine EXCEPT ![k] = [of |-> Ec2Bot(o), is |-> "pending", in |-> v]]
        BY <2>2
      <3>2. [of |-> Ec2Bot(o), is |-> "pending", in |-> v] \in Ec2Machines
        BY <1>4 DEF Ec2Machines, Running
      <3>3. ~Live(k)
        BY <3>1 DEF Live, NoMachine, Running
      <3>4. /\ machine' \in [Ec2Ids -> Ec2Machines]
            /\ machine'[k].of = Ec2Bot(o) /\ machine'[k].in = v
            /\ \A i \in Ec2Ids \ {k} : machine'[i] = machine[i]
        BY <1>2, <3>1, <3>2
      <3>5. ec2Calm => Complete(v)'
        BY <1>4, <1>5, <1>6
      <3>6. QED
        BY <1>3, <3>3, <3>4, <3>5 DEF Launches
    <2>3. QED
      BY <1>1, <1>5, <2>1, <2>2
  <1>8. /\ work' \in [Ec2Tasks -> Ec2Work] /\ Ec2Stands(o)'
        /\ \A p \in Ec2Tasks \ {o} : work'[p] = work[p]
        /\ work'[o] = Idle \/ (SameWork(o) /\ Ahead(o)' = 1)
    <2>1. CASE GiveUp(o)
      BY <1>2, <2>1, Ec2GivesUp
    <2>2. CASE Pass(o, 1, work[o].found)
      <3>1. 1 \in 1..Ahead(o) /\ 1 # Ahead(o) /\ work[o].found \in VpcIds \cup {NoVpc}
        BY <1>3, <1>4
      <3>2. QED
        BY <1>2, <1>3, <2>2, <3>1, Ec2Passes
    <2>3. QED
      BY <1>1, <2>1, <2>2
  <1>9. Emptied(o)' /\ Cleared(o)' /\ ReadyToRun(o)' /\ EndsEmptied(o) /\ work'[o].op # "destroy"
    BY <1>3, <1>8 DEF Emptied, Cleared, ReadyToRun, EndsEmptied, SameWork, Idle, Launching
  <1>10. OneNetwork' /\ Ec2Typed'
    BY <1>1, <1>7, Ec2Types DEF Ec2Inv, OneNetwork, Tagged, Ec2Typed
  <1>11. work'[o] = Idle \/ SameWork(o)
    BY <1>8
  <1>12. \A c \in Ec2Bots : template[c] = NoVpc =>
            template'[c] = NoVpc \/ (work[o].op = "install" /\ c = Ec2Bot(o))
    BY <1>1
  <1>13. QED
    BY <1>1, <1>6, <1>7, <1>8, <1>9, <1>10, <1>11, <1>12, Ec2Kept

\* What EC2 does to instances by itself, and a stutter: none comes to life.
LEMMA Ec2Stays ==
  ASSUME Ec2Inv, vpc' = vpc, iam' = iam, template' = template, work' = work,
         machine' \in [Ec2Ids -> Ec2Machines], NoneNew, crossed' = crossed,
         ec2Calm' = ec2Calm, oneVpc' = oneVpc, ec2Left' \in [op : Nat, fault : Nat]
  PROVE  Ec2Inv'
  <1>1. Ec2Calls' = Ec2Calls
    BY DEF Ec2Calls, Installation, Launch, Destruction, MakeCalls, UnmakeCalls
  <1>2. Ec2Shape'
    BY <1>1 DEF Ec2Inv, Ec2Shape, Ec2Typed, Ec2Stands
  <1>3. OneNetwork' /\ NoClash' /\ OneInstance'
    <2>1. OneNetwork' /\ NoClash'
      BY DEF Ec2Inv, OneNetwork, Tagged, NoClash, Ec2Bot, Clash
    <2>2. OneInstance'
      BY DEF Ec2Inv, OneInstance, NoneNew
    <2>3. QED
      BY <2>1, <2>2
  <1>4. \A b : NoneOf(b) => \A i \in Ec2Ids : Live(i)' => machine'[i].of # b
    BY DEF NoneOf, NoneNew
  <1>5. ASSUME NEW o \in Ec2Tasks PROVE Emptied(o)' /\ Cleared(o)' /\ DestroyIsAlone(o)' /\ ReadyToRun(o)'
    <2>1. Ahead(o)' = Ahead(o) /\ Ec2Bot(o)' = Ec2Bot(o)
      BY DEF Ahead, Ec2Bot
    <2>2. Emptied(o)' /\ Cleared(o)'
      BY <1>4, <2>1 DEF Ec2Inv, Emptied, Cleared, NoneOf, Launching
    <2>3. DestroyIsAlone(o)'
      BY <2>1 DEF Ec2Inv, DestroyIsAlone, NoneNew
    <2>4. ReadyToRun(o)'
      BY <2>1 DEF Ec2Inv, ReadyToRun, Complete, Launching
    <2>5. QED
      BY <2>2, <2>3, <2>4
  <1>6. InstanceKeepsShared'
    BY DEF Ec2Inv, InstanceKeepsShared, NoneNew
  <1>7. QED
    BY <1>2, <1>3, <1>5, <1>6 DEF Ec2Inv

\* An operation is asked for; a destroy that overlaps another one ends the calm, and
\* one that undoes what runs for its bot crosses it.
LEMMA Ec2Asks ==
  ASSUME Ec2Inv, NEW o \in Ec2Tasks, NEW b \in Ec2Bots, NEW op \in DOMAIN Ec2Calls, Request(o, b, op)
  PROVE  Ec2OK(o)
  <1>1. /\ work[o] = Idle /\ vpc' = vpc /\ iam' = iam /\ template' = template /\ machine' = machine
        /\ work' = [work EXCEPT ![o] = [op |-> op, bot |-> b, calls |-> Ec2Calls[op], found |-> NoVpc]]
        /\ oneVpc' = oneVpc /\ ec2Left' = [ec2Left EXCEPT !.op = @ - 1] /\ ec2Left.op > 0
        /\ ec2Calm' = (ec2Calm /\ \A p \in Ec2Tasks :
                         work[p].op # "destroy" /\ (op = "destroy" => work[p] = Idle))
        /\ crossed' = IF Crosses(b, op) THEN crossed \cup {b} ELSE crossed
    BY DEF Request
  <1>2. Ec2Shape /\ work \in [Ec2Tasks -> Ec2Work] /\ Ec2Typed'
    BY <1>1, Ec2Types DEF Ec2Typed
  <1>3. op \in Ec2OpNames /\ Ec2Calls[op] \in Seq(Ec2Names) /\ Ec2Calls[op] # <<>>
    BY Ec2Order
  <1>4. PICK calls \in Seq(Ec2Names) : calls = Ec2Calls[op]
    BY <1>3
  <1>5. /\ work' \in [Ec2Tasks -> Ec2Work]
        /\ work'[o].op = op /\ work'[o].bot = b /\ work'[o].calls = calls
        /\ \A p \in Ec2Tasks \ {o} : work'[p] = work[p]
    BY <1>1, <1>2, <1>3, <1>4 DEF Ec2Work
  <1>6. Ec2Calls' = Ec2Calls
    BY DEF Ec2Calls, Installation, Launch, Destruction, MakeCalls, UnmakeCalls
  <1>7. Ec2Shape'
    <2>1. IsRest(Ec2Names, calls, calls)
      BY <1>3, <1>4, RestAtFirst
    <2>2. Ec2Stands(o)'
      BY <1>3, <1>4, <1>5, <1>6, <2>1 DEF Ec2Stands
    <2>3. ASSUME NEW p \in Ec2Tasks \ {o} PROVE Ec2Stands(p)'
      BY <1>2, <1>5, <1>6 DEF Ec2Shape, Ec2Stands
    <2>4. QED
      BY <1>2, <1>5, <2>2, <2>3 DEF Ec2Shape
  <1>8. /\ op = "destroy" => Ahead(o)' = 13
        /\ op \in Launching => Ahead(o)' = 4
    <2>1. Ahead(o)' = Len(calls)
      BY <1>5 DEF Ahead
    <2>2. QED
      BY <1>4, <2>1, Ec2Order DEF Launching
  <1>9. ec2Calm' => ec2Calm /\ \A p \in Ec2Tasks : work[p].op # "destroy" /\ (op = "destroy" => work[p] = Idle)
    BY <1>1
  <1>10. /\ \A i \in Ec2Ids : Live(i)' <=> Live(i)
         /\ crossed \subseteq crossed'
         /\ \A p \in Ec2Tasks \ {o} : Ahead(p)' = Ahead(p) /\ Ec2Bot(p)' = Ec2Bot(p)
         /\ Ec2Bot(o)' = b
    BY <1>1, <1>5 DEF Live, Ahead, Ec2Bot
  <1>11. NoClash'
    <2>1. ASSUME NEW p \in Ec2Tasks \ {o}, Ec2Bot(p) = b, b \notin crossed'
          PROVE  ~Clash(op, work[p].op) /\ ~Clash(work[p].op, op)
      <3>1. ~Crosses(b, op)
        BY <1>1, <2>1
      <3>2. DOMAIN work = Ec2Tasks /\ work[p].bot = b
        BY <1>2, <2>1 DEF Ec2Bot
      <3>3. /\ op \in Launching => work[p].op \notin Launching \cup {"destroy"}
            /\ op = "install" => work[p].op # "destroy"
            /\ op = "destroy" => work[p].op \notin Launching \cup {"install"}
        BY <3>1, <3>2 DEF Crosses, Underway
      <3>4. QED
        BY <3>3 DEF Clash
    <2>2. SUFFICES ASSUME NEW p \in Ec2Tasks, NEW q \in Ec2Tasks, p # q, Ec2Bot(p)' = Ec2Bot(q)',
                          Ec2Bot(p)' \notin crossed', Clash(work'[p].op, work'[q].op)
                   PROVE  FALSE
      BY DEF NoClash, Clash
    <2>3. CASE p = o \/ q = o
      BY <1>5, <1>10, <2>1, <2>2, <2>3
    <2>4. CASE p # o /\ q # o
      BY <1>5, <1>10, <2>2, <2>4 DEF Ec2Inv, NoClash
    <2>5. QED
      BY <2>3, <2>4
  <1>12. OneInstance' /\ OneNetwork' /\ InstanceKeepsShared'
    <2>1. OneInstance'
      BY <1>1, <1>10 DEF Ec2Inv, OneInstance
    <2>2. OneNetwork' /\ InstanceKeepsShared'
      BY <1>1, <1>9, <1>10 DEF Ec2Inv, OneNetwork, Tagged, InstanceKeepsShared
    <2>3. QED
      BY <2>1, <2>2
  <1>13. \A c : NoneOf(c)' <=> NoneOf(c)
    BY <1>1, <1>10 DEF NoneOf
  <1>14. ASSUME NEW p \in Ec2Tasks PROVE Emptied(p)' /\ Cleared(p)'
    <2>1. CASE p = o
      BY <1>5, <1>8, <2>1 DEF Emptied, Cleared, Launching
    <2>2. CASE p # o
      <3>1. /\ work'[p] = work[p] /\ Ahead(p)' = Ahead(p) /\ Ec2Bot(p)' = Ec2Bot(p)
            /\ Emptied(p) /\ Cleared(p) /\ template' = template /\ machine' = machine
            /\ Ec2Bot(p) \notin crossed' => Ec2Bot(p) \notin crossed
        BY <1>1, <1>5, <1>10, <2>2 DEF Ec2Inv
      <3>2. QED
        BY <1>10, <3>1 DEF Emptied, Cleared, NoneOf, Launching
    <2>3. QED
      BY <2>1, <2>2
  <1>15. ASSUME NEW p \in Ec2Tasks PROVE DestroyIsAlone(p)'
    <2>1. SUFFICES ASSUME ec2Calm', work'[p].op = "destroy"
                   PROVE  (\A q \in Ec2Tasks \ {p} : work'[q] = Idle) /\ ~(Ahead(p)' < 10)
      BY Zenon DEF DestroyIsAlone
    <2>2. p = o /\ op = "destroy"
      BY <1>5, <1>9, <2>1
    <2>3. QED
      BY <1>5, <1>8, <1>9, <2>1, <2>2
  <1>16. ASSUME NEW p \in Ec2Tasks PROVE ReadyToRun(p)'
    <2>1. CASE p = o
      BY <1>5, <1>8, <2>1 DEF ReadyToRun, Launching
    <2>2. CASE p # o
      <3>1. \A v \in VpcIds : Complete(v) => Complete(v)'
        BY <1>1 DEF Complete
      <3>2. ReadyToRun(p) /\ work'[p] = work[p] /\ Ahead(p)' = Ahead(p)
        BY <1>5, <1>10, <2>2 DEF Ec2Inv
      <3>3. SUFFICES ASSUME work[p].op \in Launching, Ahead(p) = 2
                     PROVE  work[p].found \in VpcIds /\ (ec2Calm' => Complete(work[p].found)')
        BY <3>2, Zenon DEF ReadyToRun, Launching
      <3>4. work[p].found \in VpcIds /\ (ec2Calm => Complete(work[p].found))
        BY <3>2, <3>3 DEF ReadyToRun
      <3>5. PICK v \in VpcIds : v = work[p].found
        BY <3>4
      <3>6. v = work'[p].found
        BY <3>2, <3>5
      <3>7. ec2Calm' => Complete(v)'
        BY <1>9, <3>1, <3>4, <3>5
      <3>8. work[p].found \in VpcIds /\ (ec2Calm' => vpc'[v] = VpcParts /\ "profile" \in iam')
        BY <3>4, <3>7 DEF Complete
      <3>9. QED
        BY <3>5, <3>6, <3>8 DEF Complete
    <2>3. QED
      BY <2>1, <2>2
  <1>17. EndsEmptied(o)
    BY <1>1 DEF EndsEmptied, Idle
  <1>18. \A p \in Ec2Tasks : Emptied(p)' /\ Cleared(p)' /\ DestroyIsAlone(p)' /\ ReadyToRun(p)'
    BY <1>14, <1>15, <1>16
  <1>19. QED
    BY <1>5, <1>7, <1>11, <1>12, <1>17, <1>18 DEF Ec2Inv, Ec2OK

LEMMA Ec2Start == ASSUME Ec2Init PROVE Ec2Inv
  <1>1. Ec2Shape
    BY Ec2Assumption, EmptySeq
    DEF Ec2Init, Ec2Shape, Ec2Typed, Ec2Machines, Ec2Stands, Ec2Work, Idle, VpcParts
  <1>2. OneNetwork /\ InstanceKeepsShared /\ OneInstance
    BY DEF Ec2Init, OneNetwork, Tagged, InstanceKeepsShared, OneInstance, Live, NoMachine, Running
  <1>3. NoClash /\ \A o \in Ec2Tasks : Emptied(o) /\ Cleared(o) /\ DestroyIsAlone(o) /\ ReadyToRun(o)
    BY DEF Ec2Init, NoClash, Clash, Emptied, Cleared, DestroyIsAlone, ReadyToRun, Idle, Launching
  <1>4. QED
    BY <1>1, <1>2, <1>3 DEF Ec2Inv

\* The steps of EC2 itself.
LEMMA Ec2ByItself ==
  ASSUME Ec2Inv, NEW i \in Ec2Ids, Runs(i) \/ UserData(i) \/ Stops(i) \/ Terminated(i)
  PROVE  Ec2Inv' /\ work' = work
  <1>1. /\ vpc' = vpc /\ iam' = iam /\ template' = template /\ work' = work
        /\ crossed' = crossed /\ ec2Calm' = ec2Calm /\ oneVpc' = oneVpc
        /\ ec2Left' = ec2Left \/ (ec2Left.fault > 0 /\ ec2Left' = [ec2Left EXCEPT !.fault = @ - 1])
        /\ \/ /\ Live(i)
              /\ \E is \in {"boots", "up", "dead", "stopped"} : machine' = [machine EXCEPT ![i].is = is]
           \/ machine' = [machine EXCEPT ![i] = NoMachine]
    BY DEF Runs, UserData, Stops, Terminated, ec2Rest, Live, Running
  <1>2. machine \in [Ec2Ids -> Ec2Machines] /\ ec2Left \in [op : Nat, fault : Nat]
    BY Ec2Types
  <1>3. ec2Left' \in [op : Nat, fault : Nat]
    BY <1>1, <1>2
  <1>4. machine' \in [Ec2Ids -> Ec2Machines] /\ NoneNew
    <2>1. CASE machine' = [machine EXCEPT ![i] = NoMachine]
      <3>1. /\ machine' \in [Ec2Ids -> Ec2Machines] /\ machine'[i] = NoMachine
            /\ \A j \in Ec2Ids \ {i} : machine'[j] = machine[j]
        BY <1>2, <2>1 DEF Ec2Machines
      <3>2. QED
        BY <3>1 DEF NoneNew, Live, NoMachine, Running
    <2>2. CASE /\ Live(i)
               /\ \E is \in {"boots", "up", "dead", "stopped"} : machine' = [machine EXCEPT ![i].is = is]
      <3>1. machine[i] \in [of : Ec2Bots, is : Running \cup {"stopped", "dying"}, in : VpcIds]
        BY <1>2, <2>2 DEF Ec2Machines, Live, NoMachine, Running
      <3>2. PICK is \in {"boots", "up", "dead", "stopped"} : machine' = [machine EXCEPT ![i].is = is]
        BY <2>2
      <3>3. /\ machine' \in [Ec2Ids -> Ec2Machines]
            /\ machine'[i].of = machine[i].of /\ machine'[i].in = machine[i].in
            /\ \A j \in Ec2Ids \ {i} : machine'[j] = machine[j]
        BY <1>2, <3>1, <3>2 DEF Ec2Machines, Running
      <3>4. QED
        BY <2>2, <3>3 DEF NoneNew, Live
    <2>3. QED
      BY <1>1, <2>1, <2>2
  <1>5. QED
    BY <1>1, <1>3, <1>4, Ec2Stays

LEMMA Ec2Step == ASSUME Ec2Inv, Ec2Next PROVE Ec2Inv' /\ \A o \in Ec2Tasks : EndsEmptied(o)
  <1>1. CASE \E i \in Ec2Ids : Runs(i) \/ UserData(i) \/ Stops(i) \/ Terminated(i)
    <2>1. Ec2Inv' /\ work' = work
      BY <1>1, Ec2ByItself
    <2>2. \A o \in Ec2Tasks : EndsEmptied(o)
      BY <2>1 DEF EndsEmptied, Idle
    <2>3. QED
      BY <2>1, <2>2
  <1>2. CASE ~\E i \in Ec2Ids : Runs(i) \/ UserData(i) \/ Stops(i) \/ Terminated(i)
    <2>1. PICK o \in Ec2Tasks :
            \/ \E b \in Ec2Bots, op \in DOMAIN Ec2Calls : Request(o, b, op)
            \/ EnsureSharedInfra(o) \/ CreateVpc(o) \/ EnsureIamResources(o)
            \/ \E p \in VpcParts \ {"vpc"} : CreatePart(o, p)
            \/ \E p \in IamParts : CreateIam(o, p) \/ DeleteIam(o, p)
            \/ DeleteIfOrphaned(o) \/ \E p \in VpcParts : DeletePart(o, p)
            \/ TerminateInstance(o) \/ EnsureLaunchTemplate(o) \/ DeleteLaunchTemplate(o)
            \/ RunInstance(o) \/ WaitRunning(o) \/ SharedInfra(o) \/ FindForStart(o)
            \/ EnsureSecret(o, "secret", "empty") \/ EnsureSecret(o, "put", "config")
            \/ EnsureSecret(o, "-secret", "absent")
            \/ Ec2CallFails(o)
      BY <1>2 DEF Ec2Next
    <2>2. Ec2OK(o)
      <3>1. CASE \E b \in Ec2Bots, op \in DOMAIN Ec2Calls : Request(o, b, op)
        BY <3>1, Ec2Asks
      <3>2. CASE \/ EnsureSharedInfra(o) \/ EnsureIamResources(o) \/ WaitRunning(o) \/ SharedInfra(o)
                 \/ EnsureSecret(o, "secret", "empty") \/ EnsureSecret(o, "put", "config")
                 \/ EnsureSecret(o, "-secret", "absent") \/ DeleteIfOrphaned(o)
        BY <3>2, Ec2Quiet
      <3>3. CASE \/ CreateVpc(o) \/ EnsureLaunchTemplate(o)
                 \/ \E p \in VpcParts \ {"vpc"} : CreatePart(o, p)
                 \/ \E p \in IamParts : CreateIam(o, p)
        BY <3>3, Ec2Builds
      <3>4. CASE (\E p \in IamParts : DeleteIam(o, p)) \/ \E p \in VpcParts : DeletePart(o, p)
        BY <3>4, Ec2Removes
      <3>5. CASE TerminateInstance(o) \/ FindForStart(o)
        BY <3>5, Ec2Terminates
      <3>6. CASE DeleteLaunchTemplate(o)
        BY <3>6, Ec2Untemplates
      <3>7. CASE RunInstance(o)
        BY <3>7, Ec2Launches
      <3>8. CASE Ec2CallFails(o)
        BY <3>8, Ec2Failing
      <3>9. QED
        BY <2>1, <3>1, <3>2, <3>3, <3>4, <3>5, <3>6, <3>7, <3>8
    <2>3. \A p \in Ec2Tasks \ {o} : EndsEmptied(p)
      BY <2>2 DEF Ec2OK, EndsEmptied, Idle
    <2>4. QED
      BY <2>2, <2>3 DEF Ec2OK
  <1>3. QED
    BY <1>1, <1>2

LEMMA Ec2Always == Ec2Spec => []Ec2Inv
  <1>1. Ec2Init => Ec2Inv
    BY Ec2Start
  <1>2. ASSUME Ec2Inv, UNCHANGED ec2Vars PROVE Ec2Inv'
    <2>1. /\ vpc' = vpc /\ iam' = iam /\ template' = template /\ work' = work /\ machine' = machine
          /\ crossed' = crossed /\ ec2Calm' = ec2Calm /\ oneVpc' = oneVpc /\ ec2Left' = ec2Left
      BY <1>2 DEF ec2Vars
    <2>2. machine' \in [Ec2Ids -> Ec2Machines] /\ ec2Left' \in [op : Nat, fault : Nat] /\ NoneNew
      BY <1>2, <2>1, Ec2Types DEF NoneNew, Live
    <2>3. QED
      BY <1>2, <2>1, <2>2, Ec2Stays
  <1>3. Ec2Inv /\ [Ec2Next]_ec2Vars => Ec2Inv'
    BY <1>2, Ec2Step
  <1>4. QED
    BY <1>1, <1>3, PTL DEF Ec2Spec

\* For any bots, VPCs, instances, overlapping operations and failing calls: as long as no
\* operation overlaps a destroy and the region never had a second VPC, an instance that
\* is not on its way out is in a VPC with all its parts and the shared profile exists,
\* whatever installs and destroys gave up before.
THEOREM SharedOutlivesEc2Bots == Ec2Spec => []InstanceKeepsShared
  <1>1. Ec2Inv => InstanceKeepsShared
    BY DEF Ec2Inv
  <1>2. QED
    BY <1>1, Ec2Always, PTL

\* A destroy of which no call failed leaves its bot no instance and no template, whatever
\* the operations of other bots do meanwhile and whatever failed before, unless two
\* launches of the bot, or a destroy and what it undoes, ever overlapped.
THEOREM Ec2DestroyIsClean == Ec2Spec => DestroyEndsInstances
  <1> DEFINE A == \A o \in Ec2Tasks :
                    work[o].op = "destroy" /\ work'[o] = Idle /\ ec2Left' = ec2Left
                    /\ Ec2Bot(o) \notin crossed
                      => (\A i \in Ec2Ids : ~(Live(i)' /\ machine'[i].of = Ec2Bot(o)))
                         /\ template'[Ec2Bot(o)] = NoVpc
  <1>1. Ec2Inv /\ [Ec2Next]_ec2Vars => [A]_ec2Vars
    BY Ec2Step DEF EndsEmptied
  <1>2. QED
    BY <1>1, Ec2Always, PTL DEF Ec2Spec, DestroyEndsInstances

-----------------------------------------------------------------------------
(* Gce *)

GceNames ==
  {"vpc", "subnet", "http", "ssh", "secret", "tmpl", "hc", "mig", "put", "size1", "size0", "recreate",
   "read", "newTmpl", "setTmpl", "-oldTmpl", "recover", "-mig", "-hc", "-tmpl", "-http", "-ssh",
   "-secret", "orphan?", "-firewalls", "-subnet", "-vpc"}
GceOpNames == {"install", "configure", "start", "stop", "restart", "resize", "destroy"}

LEMMA GceOrder ==
  /\ DOMAIN GceCalls = GceOpNames
  /\ \A op \in GceOpNames : GceCalls[op] \in Seq(GceNames) /\ GceCalls[op] # <<>>
  /\ Len(GceCalls["install"]) = 8
  /\ GceCalls["install"][1] = "vpc" /\ GceCalls["install"][2] = "subnet"
  /\ GceCalls["install"][3] = "http" /\ GceCalls["install"][4] = "ssh"
  /\ GceCalls["install"][5] = "secret" /\ GceCalls["install"][6] = "tmpl"
  /\ GceCalls["install"][7] = "hc" /\ GceCalls["install"][8] = "mig"
  /\ Len(GceCalls["configure"]) = 1 /\ GceCalls["configure"][1] = "put"
  /\ Len(GceCalls["start"]) = 1 /\ GceCalls["start"][1] = "size1"
  /\ Len(GceCalls["stop"]) = 1 /\ GceCalls["stop"][1] = "size0"
  /\ Len(GceCalls["restart"]) = 1 /\ GceCalls["restart"][1] = "recreate"
  /\ Len(GceCalls["resize"]) = 6
  /\ GceCalls["resize"][1] = "size0" /\ GceCalls["resize"][2] = "read"
  /\ GceCalls["resize"][3] = "newTmpl" /\ GceCalls["resize"][4] = "setTmpl"
  /\ GceCalls["resize"][5] = "-oldTmpl" /\ GceCalls["resize"][6] = "size1"
  /\ Len(GceCalls["destroy"]) = 10
  /\ GceCalls["destroy"][1] = "-mig" /\ GceCalls["destroy"][2] = "-hc"
  /\ GceCalls["destroy"][3] = "-tmpl" /\ GceCalls["destroy"][4] = "-http"
  /\ GceCalls["destroy"][5] = "-ssh" /\ GceCalls["destroy"][6] = "-secret"
  /\ GceCalls["destroy"][7] = "orphan?" /\ GceCalls["destroy"][8] = "-firewalls"
  /\ GceCalls["destroy"][9] = "-subnet" /\ GceCalls["destroy"][10] = "-vpc"
  <1>1. DOMAIN GceCalls = GceOpNames
    BY DEF GceCalls, GceOpNames
  <1>2. /\ GceCalls["install"] \in Seq(GceNames) /\ Len(GceCalls["install"]) = 8
        /\ GceCalls["install"][1] = "vpc" /\ GceCalls["install"][2] = "subnet"
        /\ GceCalls["install"][3] = "http" /\ GceCalls["install"][4] = "ssh"
        /\ GceCalls["install"][5] = "secret" /\ GceCalls["install"][6] = "tmpl"
        /\ GceCalls["install"][7] = "hc" /\ GceCalls["install"][8] = "mig"
    <2> DEFINE s == <<"vpc", "subnet", "http", "ssh", "secret", "tmpl", "hc", "mig">>
    <2>1. GceCalls["install"] = s
      BY DEF GceCalls
    <2>2. s \in Seq(GceNames) /\ Len(s) = 8
      BY DEF GceNames
    <2>3. /\ s[1] = "vpc" /\ s[2] = "subnet" /\ s[3] = "http" /\ s[4] = "ssh"
          /\ s[5] = "secret" /\ s[6] = "tmpl" /\ s[7] = "hc" /\ s[8] = "mig"
      OBVIOUS
    <2>4. QED
      BY <2>1, <2>2, <2>3, Zenon
  <1>3. /\ GceCalls["configure"] \in Seq(GceNames) /\ GceCalls["start"] \in Seq(GceNames)
        /\ GceCalls["stop"] \in Seq(GceNames) /\ GceCalls["restart"] \in Seq(GceNames)
        /\ Len(GceCalls["configure"]) = 1 /\ GceCalls["configure"][1] = "put"
        /\ Len(GceCalls["start"]) = 1 /\ GceCalls["start"][1] = "size1"
        /\ Len(GceCalls["stop"]) = 1 /\ GceCalls["stop"][1] = "size0"
        /\ Len(GceCalls["restart"]) = 1 /\ GceCalls["restart"][1] = "recreate"
    <2>1. /\ GceCalls["configure"] = <<"put">> /\ GceCalls["start"] = <<"size1">>
          /\ GceCalls["stop"] = <<"size0">> /\ GceCalls["restart"] = <<"recreate">>
      BY DEF GceCalls
    <2>2. \A n \in GceNames : <<n>> \in Seq(GceNames) /\ Len(<<n>>) = 1 /\ <<n>>[1] = n
      OBVIOUS
    <2>3. "put" \in GceNames /\ "size1" \in GceNames /\ "size0" \in GceNames /\ "recreate" \in GceNames
      BY DEF GceNames
    <2>4. QED
      BY <2>1, <2>2, <2>3
  <1>4. /\ GceCalls["resize"] \in Seq(GceNames) /\ Len(GceCalls["resize"]) = 6
        /\ GceCalls["resize"][1] = "size0" /\ GceCalls["resize"][2] = "read"
        /\ GceCalls["resize"][3] = "newTmpl" /\ GceCalls["resize"][4] = "setTmpl"
        /\ GceCalls["resize"][5] = "-oldTmpl" /\ GceCalls["resize"][6] = "size1"
    <2>1. GceCalls["resize"] = Resize
      BY DEF GceCalls
    <2>2. Resize \in Seq(GceNames) /\ Len(Resize) = 6
      BY DEF Resize, GceNames
    <2>3. /\ Resize[1] = "size0" /\ Resize[2] = "read" /\ Resize[3] = "newTmpl" /\ Resize[4] = "setTmpl"
          /\ Resize[5] = "-oldTmpl" /\ Resize[6] = "size1"
      BY DEF Resize
    <2>4. QED
      BY <2>1, <2>2, <2>3, Zenon
  <1>5. /\ GceCalls["destroy"] \in Seq(GceNames) /\ Len(GceCalls["destroy"]) = 10
        /\ GceCalls["destroy"][1] = "-mig" /\ GceCalls["destroy"][2] = "-hc"
        /\ GceCalls["destroy"][3] = "-tmpl" /\ GceCalls["destroy"][4] = "-http"
        /\ GceCalls["destroy"][5] = "-ssh" /\ GceCalls["destroy"][6] = "-secret"
        /\ GceCalls["destroy"][7] = "orphan?" /\ GceCalls["destroy"][8] = "-firewalls"
        /\ GceCalls["destroy"][9] = "-subnet" /\ GceCalls["destroy"][10] = "-vpc"
    <2>1. GceCalls["destroy"] = TearDown
      BY DEF GceCalls
    <2>2. TearDown \in Seq(GceNames) /\ Len(TearDown) = 10
      BY DEF TearDown, GceNames
    <2>3. /\ TearDown[1] = "-mig" /\ TearDown[2] = "-hc" /\ TearDown[3] = "-tmpl" /\ TearDown[4] = "-http"
          /\ TearDown[5] = "-ssh" /\ TearDown[6] = "-secret" /\ TearDown[7] = "orphan?"
          /\ TearDown[8] = "-firewalls" /\ TearDown[9] = "-subnet" /\ TearDown[10] = "-vpc"
      BY DEF TearDown
    <2>4. QED
      BY <2>1, <2>2, <2>3, Zenon
  <1>6. \A op \in GceOpNames : GceCalls[op] \in Seq(GceNames) /\ GceCalls[op] # <<>>
    <2>1. TAKE op \in GceOpNames
    <2>2. GceCalls[op] \in Seq(GceNames) /\ Len(GceCalls[op]) # 0
      <3>1. CASE op = "install"
        BY <1>2, <3>1
      <3>2. CASE op = "resize"
        BY <1>4, <3>2
      <3>3. CASE op = "destroy"
        BY <1>5, <3>3
      <3>4. CASE op \in {"configure", "start", "stop", "restart"}
        BY <1>3, <3>4
      <3>5. QED
        BY <3>1, <3>2, <3>3, <3>4 DEF GceOpNames
    <2>3. QED
      BY <2>2
  <1>7. QED
    BY <1>1, <1>2, <1>3, <1>4, <1>5, <1>6

GLeft(o) == Len(gceDo[o].calls)
GceWork ==
  [op : {"none"} \cup GceOpNames, bot : GceBots \cup {Project}, calls : Seq(GceNames), old : Nat, new : Nat]
GceStands(o) ==
  \/ gceDo[o] = GIdle
  \/ /\ gceDo[o].bot \in GceBots
     /\ \/ gceDo[o].op \in GceOpNames /\ IsRest(GceNames, gceDo[o].calls, GceCalls[gceDo[o].op])
        \/ gceDo[o].op = "resize" /\ gceDo[o].calls = <<"recover">>

GceShape ==
  /\ templates \in [GceBots -> SUBSET Nat] /\ migTmpl \in [GceBots -> Nat] /\ migSize \in [GceBots -> {0, 1}]
  /\ gceDo \in [GceTasks -> GceWork] /\ gceLeft \in [op : 0..GceOps, fault : Nat]
  /\ \A o \in GceTasks : GceStands(o)

OneZone == \A b, c \in GceBots : zone[b] = zone[c]
HasNet(b) == Net("vpc") \in gce /\ Net("subnet") \in gce /\ <<"http", b>> \in gce /\ <<"ssh", b>> \in gce

\* What an install has made stays until its group needs it.
NetMade(o) ==
  gceCalm /\ gceDo[o].op = "install" =>
    /\ GLeft(o) < 8 => Net("vpc") \in gce
    /\ GLeft(o) < 7 => Net("subnet") \in gce
    /\ GLeft(o) < 6 => <<"http", GceBot(o)>> \in gce
    /\ GLeft(o) < 5 => <<"ssh", GceBot(o)>> \in gce

\* A destroy that does not overlap is alone: the group it deleted stays away, and it
\* removes the network when no group is left.
TearsAlone(o) ==
  gceCalm /\ gceDo[o].op = "destroy" =>
    /\ \A p \in GceTasks \ {o} : gceDo[p] = GIdle
    /\ GLeft(o) < 10 => ~HasMig(GceBot(o))
    /\ OneZone /\ GLeft(o) < 4 => \A c \in GceBots : ~HasMig(c)

\* A resize that nothing tore has its group, and nothing under way that could tear it.
Resizing(o) ==
  gceDo[o].op = "resize" /\ o \notin torn =>
    /\ HasMig(GceBot(o))
    /\ \A p \in GceTasks \ {o} : GceBot(p) = GceBot(o) => gceDo[p].op \notin Tearing

HasTmpl(b) == HasMig(b) => migTmpl[b] \in templates[b]

GceInv ==
  /\ GceShape /\ GroupKeepsNetwork
  /\ \A o \in GceTasks : NetMade(o) /\ TearsAlone(o) /\ Resizing(o)
  /\ \A b \in GceBots : HasTmpl(b)

LEMMA GceOwner == ASSUME GceShape, NEW o \in GceTasks, gceDo[o] # GIdle PROVE GceBot(o) \in GceBots
  BY DEF GceShape, GceStands, GceBot

\* Who makes a call, and how far its operation is.
LEMMA GceCaller ==
  ASSUME GceShape, NEW o \in GceTasks, NEW call, AtCall(o, call)
  PROVE  /\ gceDo[o] # GIdle /\ gceDo[o].op \in GceOpNames /\ GLeft(o) \in Nat \ {0}
         /\ \/ gceDo[o].op = "install" /\ \/ GLeft(o) = 8 /\ call = "vpc"
                                          \/ GLeft(o) = 7 /\ call = "subnet"
                                          \/ GLeft(o) = 6 /\ call = "http"
                                          \/ GLeft(o) = 5 /\ call = "ssh"
                                          \/ GLeft(o) = 4 /\ call = "secret"
                                          \/ GLeft(o) = 3 /\ call = "tmpl"
                                          \/ GLeft(o) = 2 /\ call = "hc"
                                          \/ GLeft(o) = 1 /\ call = "mig"
            \/ gceDo[o].op = "configure" /\ call = "put"
            \/ gceDo[o].op = "start" /\ call = "size1"
            \/ gceDo[o].op = "stop" /\ call = "size0"
            \/ gceDo[o].op = "restart" /\ call = "recreate"
            \/ gceDo[o].op = "resize" /\ \/ GLeft(o) = 6 /\ call = "size0"
                                         \/ GLeft(o) = 5 /\ call = "read"
                                         \/ GLeft(o) = 4 /\ call = "newTmpl"
                                         \/ GLeft(o) = 3 /\ call = "setTmpl"
                                         \/ GLeft(o) = 2 /\ call = "-oldTmpl"
                                         \/ GLeft(o) = 1 /\ call = "size1"
                                         \/ GLeft(o) = 1 /\ call = "recover"
                                              /\ gceDo[o].calls = <<"recover">>
            \/ gceDo[o].op = "destroy" /\ \/ GLeft(o) = 10 /\ call = "-mig"
                                          \/ GLeft(o) = 9 /\ call = "-hc"
                                          \/ GLeft(o) = 8 /\ call = "-tmpl"
                                          \/ GLeft(o) = 7 /\ call = "-http"
                                          \/ GLeft(o) = 6 /\ call = "-ssh"
                                          \/ GLeft(o) = 5 /\ call = "-secret"
                                          \/ GLeft(o) = 4 /\ call = "orphan?"
                                          \/ GLeft(o) = 3 /\ call = "-firewalls"
                                          \/ GLeft(o) = 2 /\ call = "-subnet"
                                          \/ GLeft(o) = 1 /\ call = "-vpc"
  <1>1. gceDo[o].calls # <<>> /\ call = Head(gceDo[o].calls) /\ gceDo[o] # GIdle
    BY DEF AtCall, GIdle
  <1>2. \/ gceDo[o].op \in GceOpNames /\ IsRest(GceNames, gceDo[o].calls, GceCalls[gceDo[o].op])
        \/ gceDo[o].op = "resize" /\ gceDo[o].calls = <<"recover">>
    BY <1>1 DEF GceShape, GceStands
  <1>3. CASE gceDo[o].op = "resize" /\ gceDo[o].calls = <<"recover">>
    <2>1. GLeft(o) = 1 /\ call = "recover"
      BY <1>1, <1>3 DEF GLeft
    <2>2. gceDo[o].op \in GceOpNames
      BY <1>3 DEF GceOpNames
    <2>3. QED
      BY <1>1, <1>3, <2>1, <2>2
  <1>4. CASE gceDo[o].op \in GceOpNames /\ IsRest(GceNames, gceDo[o].calls, GceCalls[gceDo[o].op])
    <2>1. PICK C \in Seq(GceNames) : C = GceCalls[gceDo[o].op]
      BY <1>4, GceOrder
    <2>2. PICK s : s = gceDo[o].calls
      OBVIOUS
    <2>3. IsRest(GceNames, s, C)
      BY <1>4, <2>1, <2>2
    <2>4. /\ Len(s) \in Nat \ {0} /\ Len(C) \in Nat /\ Len(s) <= Len(C)
          /\ Head(s) = C[Len(C) - Len(s) + 1]
      BY <2>3, RestGoesOn
    <2>5. /\ GLeft(o) \in Nat \ {0} /\ GLeft(o) <= Len(C) /\ call = C[Len(C) - GLeft(o) + 1]
      <3>1. GLeft(o) = Len(s) /\ call = Head(s)
        BY <1>1, <2>2 DEF GLeft
      <3>2. QED
        BY <2>4, <3>1
    <2>6. CASE gceDo[o].op = "install"
      <3>1. /\ Len(C) = 8 /\ C[1] = "vpc" /\ C[2] = "subnet" /\ C[3] = "http" /\ C[4] = "ssh"
            /\ C[5] = "secret" /\ C[6] = "tmpl" /\ C[7] = "hc" /\ C[8] = "mig"
        BY <2>1, <2>6, GceOrder
      <3>2. QED
        BY <1>1, <1>4, <2>5, <2>6, <3>1
    <2>7. CASE gceDo[o].op = "resize"
      <3>1. /\ Len(C) = 6 /\ C[1] = "size0" /\ C[2] = "read" /\ C[3] = "newTmpl" /\ C[4] = "setTmpl"
            /\ C[5] = "-oldTmpl" /\ C[6] = "size1"
        BY <2>1, <2>7, GceOrder
      <3>2. QED
        BY <1>1, <1>4, <2>5, <2>7, <3>1
    <2>8. CASE gceDo[o].op = "destroy"
      <3>1. /\ Len(C) = 10 /\ C[1] = "-mig" /\ C[2] = "-hc" /\ C[3] = "-tmpl" /\ C[4] = "-http"
            /\ C[5] = "-ssh" /\ C[6] = "-secret" /\ C[7] = "orphan?" /\ C[8] = "-firewalls"
            /\ C[9] = "-subnet" /\ C[10] = "-vpc"
        BY <2>1, <2>8, GceOrder
      <3>2. QED
        BY <1>1, <1>4, <2>5, <2>8, <3>1, SMTT(30)
    <2>9. CASE gceDo[o].op = "configure"
      <3>1. Len(C) = 1 /\ C[1] = "put"
        BY <2>1, <2>9, GceOrder
      <3>2. call = "put"
        BY <2>5, <3>1
      <3>3. QED
        BY <1>1, <1>4, <2>5, <2>9, <3>2
    <2>10. CASE gceDo[o].op = "start"
      <3>1. Len(C) = 1 /\ C[1] = "size1"
        BY <2>1, <2>10, GceOrder
      <3>2. call = "size1"
        BY <2>5, <3>1
      <3>3. QED
        BY <1>1, <1>4, <2>5, <2>10, <3>2
    <2>11. CASE gceDo[o].op = "stop"
      <3>1. Len(C) = 1 /\ C[1] = "size0"
        BY <2>1, <2>11, GceOrder
      <3>2. call = "size0"
        BY <2>5, <3>1
      <3>3. QED
        BY <1>1, <1>4, <2>5, <2>11, <3>2
    <2>12. CASE gceDo[o].op = "restart"
      <3>1. Len(C) = 1 /\ C[1] = "recreate"
        BY <2>1, <2>12, GceOrder
      <3>2. call = "recreate"
        BY <2>5, <3>1
      <3>3. QED
        BY <1>1, <1>4, <2>5, <2>12, <3>2
    <2>13. QED
      BY <1>4, <2>6, <2>7, <2>8, <2>9, <2>10, <2>11, <2>12 DEF GceOpNames
  <1>5. QED
    BY <1>2, <1>3, <1>4

\* The operation goes on.
SameOrder(o) == gceDo'[o] # GIdle /\ gceDo'[o].op = gceDo[o].op /\ GceBot(o)' = GceBot(o)

LEMMA GcePasses ==
  ASSUME GceShape, NEW o \in GceTasks, NEW call, AtCall(o, call), PassOver(o, 1)
  PROVE  /\ gceDo' \in [GceTasks -> GceWork] /\ GceStands(o)'
         /\ \A p \in GceTasks \ {o} : gceDo'[p] = gceDo[p]
         /\ GLeft(o) = 1 => gceDo'[o] = GIdle
         /\ GLeft(o) # 1 => SameOrder(o) /\ GLeft(o)' = GLeft(o) - 1
  <1> DEFINE s == gceDo[o].calls
             t == SubSeq(s, 2, Len(s))
  <1>1. /\ gceDo \in [GceTasks -> GceWork] /\ gceDo[o] \in GceWork /\ s \in Seq(GceNames)
        /\ gceDo[o].op \in GceOpNames /\ GLeft(o) \in Nat \ {0}
    BY GceCaller DEF GceShape, GceWork
  <1>2. GIdle \in GceWork
    BY EmptySeq DEF GIdle, GceWork
  <1>3. CASE GLeft(o) = 1
    <2>1. gceDo' = [gceDo EXCEPT ![o] = GIdle]
      BY <1>3 DEF PassOver, GLeft
    <2>2. QED
      BY <1>1, <1>2, <1>3, <2>1 DEF GceStands
  <1>4. CASE GLeft(o) # 1
    <2>1. gceDo' = [gceDo EXCEPT ![o] = [gceDo[o] EXCEPT !.calls = t]]
      <3>1. Len(gceDo[o].calls) # 1
        BY <1>4 DEF GLeft
      <3>2. gceDo' = [gceDo EXCEPT ![o] = [gceDo[o] EXCEPT !.calls = SubSeq(s, 1 + 1, Len(s))]]
        BY <3>1 DEF PassOver
      <3>3. 1 + 1 = 2
        OBVIOUS
      <3>4. QED
        BY <3>2, <3>3
    <2>2. IsRest(GceNames, s, GceCalls[gceDo[o].op])
      <3>1. gceDo[o].calls # <<"recover">> /\ gceDo[o] # GIdle
        <4>1. Len(<<"recover">>) = 1
          OBVIOUS
        <4>2. gceDo[o] # GIdle
          BY GceCaller
        <4>3. QED
          BY <1>4, <4>1, <4>2, Zenon DEF GLeft
      <3>2. QED
        BY <3>1 DEF GceShape, GceStands
    <2>3. PICK C \in Seq(GceNames) : C = GceCalls[gceDo[o].op]
      BY <1>1, GceOrder
    <2>4. PICK r : r = s
      OBVIOUS
    <2>5. IsRest(GceNames, r, C) /\ 1 \in 1..Len(r) - 1
      <3>1. IsRest(GceNames, r, C)
        BY <2>2, <2>3, <2>4
      <3>2. Len(r) \in Nat /\ GLeft(o) = Len(r)
        BY <1>1, <2>4 DEF GLeft
      <3>3. QED
        BY <1>1, <1>4, <3>1, <3>2
    <2>6. /\ Len(SubSeq(r, 1 + 1, Len(r))) = Len(r) - 1
          /\ IsRest(GceNames, SubSeq(r, 1 + 1, Len(r)), C)
      BY <2>5, RestGoesOn
    <2>7. Len(t) = Len(s) - 1 /\ IsRest(GceNames, t, C)
      <3>1. 1 + 1 = 2
        OBVIOUS
      <3>2. QED
        BY <2>4, <2>6, <3>1
    <2> HIDE DEF t
    <2>8. t \in Seq(GceNames) /\ t # <<>>
      BY <2>7 DEF IsRest
    <2>9. /\ gceDo'[o].op = gceDo[o].op /\ gceDo'[o].calls = t /\ gceDo'[o].bot = gceDo[o].bot
          /\ gceDo' \in [GceTasks -> GceWork]
          /\ \A p \in GceTasks \ {o} : gceDo'[p] = gceDo[p]
      BY <1>1, <2>1, <2>8 DEF GceWork
    <2>10. GceCalls' = GceCalls
      BY DEF GceCalls, TearDown, Resize
    <2>11. GceStands(o)'
      <3>1. gceDo[o].bot \in GceBots
        BY GceCaller, GceOwner DEF GceBot
      <3>2. QED
        BY <1>1, <2>3, <2>7, <2>9, <2>10, <3>1 DEF GceStands
    <2>12. gceDo'[o] # GIdle
      BY <2>8, <2>9 DEF GIdle
    <2>13. QED
      BY <1>4, <2>7, <2>9, <2>11, <2>12 DEF GLeft, SameOrder, GceBot
  <1>5. QED
    BY <1>3, <1>4

\* The operation of o went one call further, or met an error.
GceMoves(o) ==
  /\ gceDo' \in [GceTasks -> GceWork] /\ GceStands(o)'
  /\ \A p \in GceTasks \ {o} : gceDo'[p] = gceDo[p]
Goes(o) ==
  /\ GLeft(o) = 1 => gceDo'[o] = GIdle
  /\ GLeft(o) # 1 => SameOrder(o) /\ GLeft(o)' = GLeft(o) - 1
Breaks(o) ==
  \/ gceDo[o].op # "resize" /\ gceDo'[o] = GIdle
  \/ gceDo[o].op = "destroy" /\ GLeft(o) = 5 /\ SameOrder(o) /\ GLeft(o)' = 4
  \/ gceDo[o].op = "resize" /\ gceDo[o].calls # <<"recover">> /\ SameOrder(o) /\ GLeft(o)' = 1
  \/ gceDo[o].op = "resize" /\ gceDo[o].calls = <<"recover">> /\ gceDo'[o] = GIdle

LEMMA GceFails ==
  ASSUME GceShape, NEW o \in GceTasks, gceDo[o] # GIdle, Fails(o)
  PROVE  GceMoves(o) /\ Breaks(o)
  <1>1. gceDo \in [GceTasks -> GceWork] /\ gceDo[o] \in GceWork /\ GceStands(o)
    BY DEF GceShape
  <1>2. GIdle \in GceWork
    BY EmptySeq DEF GIdle, GceWork
  <1>3. gceDo[o].calls # <<>>
    <2>1. <<"recover">> # <<>>
      OBVIOUS
    <2>2. QED
      BY <1>1, <2>1, Zenon DEF GceStands, IsRest
  <1>4. CASE AtCall(o, "-secret")
    <2>1. PassOver(o, 1)
      BY <1>4 DEF Fails
    <2>2. gceDo[o].op = "destroy" /\ GLeft(o) = 5
      BY <1>4, GceCaller
    <2>3. GceMoves(o) /\ SameOrder(o) /\ GLeft(o)' = GLeft(o) - 1
      BY <1>4, <2>1, <2>2, GcePasses DEF GceMoves
    <2>4. GLeft(o)' = 4
      BY <2>2, <2>3
    <2>5. QED
      BY <2>2, <2>3, <2>4 DEF Breaks
  <1>5. CASE ~AtCall(o, "-secret") /\ gceDo[o].op = "resize" /\ ~AtCall(o, "recover")
    <2>1. gceDo' = [gceDo EXCEPT ![o].calls = <<"recover">>]
      BY <1>5 DEF Fails
    <2>2. <<"recover">> \in Seq(GceNames) /\ Len(<<"recover">>) = 1 /\ Head(<<"recover">>) = "recover"
      BY DEF GceNames
    <2>3. /\ gceDo' \in [GceTasks -> GceWork] /\ gceDo'[o].op = "resize" /\ gceDo'[o].calls = <<"recover">>
          /\ gceDo'[o].bot = gceDo[o].bot
          /\ \A p \in GceTasks \ {o} : gceDo'[p] = gceDo[p]
      BY <1>1, <1>5, <2>1, <2>2 DEF GceWork
    <2>4. GLeft(o)' = 1
      BY <2>2, <2>3 DEF GLeft
    <2>5. gceDo[o].calls # <<"recover">>
      BY <1>3, <1>5, <2>2 DEF AtCall
    <2>6. QED
      <3>1. gceDo[o].bot \in GceBots /\ gceDo'[o] # GIdle
        BY <1>1, <2>3 DEF GceStands, GIdle
      <3>2. QED
        BY <1>5, <2>3, <2>4, <2>5, <3>1 DEF GceMoves, Breaks, GceStands, SameOrder, GceBot
  <1>6. CASE ~AtCall(o, "-secret") /\ ~(gceDo[o].op = "resize" /\ ~AtCall(o, "recover"))
    <2>1. gceDo' = [gceDo EXCEPT ![o] = GIdle]
      BY <1>6 DEF Fails, Ends
    <2>2. GceMoves(o) /\ gceDo'[o] = GIdle
      BY <1>1, <1>2, <2>1 DEF GceMoves, GceStands
    <2>3. gceDo[o].op = "resize" => gceDo[o].calls = <<"recover">>
      <3>1. SUFFICES ASSUME AtCall(o, "recover") PROVE gceDo[o].calls = <<"recover">>
        BY <1>6
      <3>2. QED
        BY <3>1, GceCaller
    <2>4. QED
      BY <2>2, <2>3 DEF Breaks
  <1>7. QED
    BY <1>4, <1>5, <1>6

LEMMA GceWaits ==
  ASSUME GceShape, NEW o \in GceTasks, NEW call, AtCall(o, call), Waits(o)
  PROVE  /\ GceMoves(o) /\ gceLeft' \in [op : 0..GceOps, fault : Nat]
         /\ (Goes(o) /\ gceLeft' = gceLeft) \/ (Breaks(o) /\ gceLeft' # gceLeft)
  <1>1. gceLeft \in [op : 0..GceOps, fault : Nat] /\ gceDo[o] # GIdle
    BY GceCaller DEF GceShape
  <1>2. CASE PassOver(o, 1) /\ UNCHANGED gceLeft
    BY <1>1, <1>2, GcePasses DEF GceMoves, Goes, SameOrder
  <1>3. CASE /\ gceLeft.fault > 0 /\ gceLeft' = [gceLeft EXCEPT !.fault = @ - 1]
             /\ Fails(o)
    <2>1. gceLeft' \in [op : 0..GceOps, fault : Nat] /\ gceLeft' # gceLeft
      BY <1>1, <1>3
    <2>2. QED
      BY <1>1, <1>3, <2>1, GceFails
  <1>4. QED
    BY <1>2, <1>3 DEF Waits

\* What the action property asks of a step.
EndsBack(o) ==
  gceDo[o].op = "resize" /\ gceDo'[o] = GIdle /\ o \notin torn
    /\ (gceLeft' = gceLeft \/ gceDo[o].calls # <<"recover">>)
  => migSize'[GceBot(o)] = 1 /\ migTmpl'[GceBot(o)] \in templates'[GceBot(o)]
GceOK(o) == GceInv' /\ EndsBack(o) /\ \A p \in GceTasks \ {o} : gceDo'[p] = gceDo[p]

\* What a step has to show: it takes nothing of what others use, unless it is of a
\* destroy that found no group.
LEMMA GceKept ==
  ASSUME GceInv, NEW o \in GceTasks, NEW b \in GceBots, b = GceBot(o), gceDo[o] # GIdle, GceMoves(o),
         zone' = zone, gceCalm' = gceCalm, torn' = torn,
         templates' \in [GceBots -> SUBSET Nat], migTmpl' \in [GceBots -> Nat],
         migSize' \in [GceBots -> {0, 1}], gceLeft' \in [op : 0..GceOps, fault : Nat],
         \A c \in GceBots \ {b} : /\ templates'[c] = templates[c] /\ migTmpl'[c] = migTmpl[c]
                                  /\ HasMig(c)' <=> HasMig(c),
         gceDo'[o] = GIdle \/ SameOrder(o),
         gceDo[o].op = "destroy" \/ gce \subseteq gce',
         \/ \A r \in gce : r \notin BotKinds \X {b} => r \in gce'
         \/ gceDo[o].op = "destroy" /\ GLeft(o) < 4,
         HasMig(b)' => HasMig(b) \/ gceDo[o].op = "install",
         NetMade(o)', HasTmpl(b)',
         gceCalm /\ OneZone /\ HasMig(b)' => HasNet(b)',
         gceCalm /\ gceDo'[o].op = "destroy" =>
           /\ ~HasMig(b)'
           /\ OneZone /\ GLeft(o)' < 4 => \A c \in GceBots : ~HasMig(c),
         EndsBack(o)
  PROVE  GceOK(o)
  <1>1. GceShape'
    <2>1. GceCalls' = GceCalls
      BY DEF GceCalls, TearDown, Resize
    <2>2. ASSUME NEW p \in GceTasks \ {o} PROVE GceStands(p)'
      BY <2>1 DEF GceInv, GceShape, GceStands, GceMoves
    <2>3. QED
      BY <2>2 DEF GceShape, GceMoves
  <1>2. \A p \in GceTasks \ {o} : gceDo'[p] = gceDo[p] /\ GLeft(p)' = GLeft(p) /\ GceBot(p)' = GceBot(p)
    BY DEF GceMoves, GLeft, GceBot
  <1>3. (OneZone' <=> OneZone) /\ (gceDo'[o] = GIdle \/ (gceDo'[o].op = gceDo[o].op /\ GceBot(o)' = b))
    BY DEF OneZone, SameOrder
  <1>4. gceCalm /\ gceDo[o].op = "destroy" => \A p \in GceTasks \ {o} : gceDo[p] = GIdle
    BY DEF GceInv, TearsAlone
  <1>5. ASSUME NEW p \in GceTasks \ {o} PROVE NetMade(p)'
    <2>1. NetMade(p) /\ (gceCalm /\ gceDo[p].op = "install" => gceDo[o].op # "destroy")
      BY <1>4 DEF GceInv, GIdle
    <2>2. QED
      BY <1>2, <2>1 DEF NetMade, Net
  <1>6. ASSUME NEW p \in GceTasks, gceDo'[p].op = "resize", p \notin torn
        PROVE  HasMig(GceBot(p))'
    <2>1. gceDo'[p].op = gceDo[p].op /\ GceBot(p)' = GceBot(p)
      BY <1>2, <1>3, <1>6 DEF GIdle
    <2>2. PICK c : c = GceBot(p)
      OBVIOUS
    <2>3. HasMig(c) /\ \A q \in GceTasks \ {p} : GceBot(q) = c => gceDo[q].op \notin Tearing
      BY <1>6, <2>1, <2>2 DEF GceInv, Resizing
    <2>4. c \in GceBots
      <3>1. gceDo[p] # GIdle
        BY <1>6, <2>1 DEF GIdle
      <3>2. QED
        BY <2>2, <3>1, GceOwner DEF GceInv
    <2>5. <<"mig", c>> \in gce'
      <3>1. CASE c # b
        BY <2>3, <2>4, <3>1 DEF HasMig
      <3>2. CASE c = b
        <4>1. gceDo[o].op # "destroy"
          <5>1. CASE p = o
            BY <1>6, <2>1, <5>1
          <5>2. CASE p # o
            BY <2>3, <3>2, <5>2 DEF Tearing
          <5>3. QED
            BY <5>1, <5>2
        <4>2. QED
          BY <2>3, <4>1 DEF HasMig
      <3>3. QED
        BY <3>1, <3>2
    <2>6. GceBot(p)' = c
      BY <2>1, <2>2
    <2>7. QED
      BY <2>5, <2>6 DEF HasMig
  <1>7. ASSUME NEW p \in GceTasks PROVE Resizing(p)'
    <2>1. SUFFICES ASSUME gceDo'[p].op = "resize", p \notin torn, NEW q \in GceTasks \ {p},
                          GceBot(q)' = GceBot(p)'
                   PROVE  gceDo'[q].op \notin Tearing
      BY <1>6 DEF Resizing, Tearing
    <2>2. gceDo'[p].op = gceDo[p].op /\ GceBot(p)' = GceBot(p)
      BY <1>2, <1>3, <2>1 DEF GIdle
    <2>3. GceBot(q) = GceBot(p) => gceDo[q].op \notin Tearing
      BY <2>1, <2>2 DEF GceInv, Resizing
    <2>4. gceDo'[q].op = "none" \/ (gceDo'[q].op = gceDo[q].op /\ GceBot(q)' = GceBot(q))
      BY <1>2, <1>3 DEF GIdle
    <2>5. QED
      BY <2>1, <2>2, <2>3, <2>4 DEF Tearing
  <1>8. ASSUME NEW p \in GceTasks \ {o} PROVE TearsAlone(p)'
    <2>1. SUFFICES ASSUME gceCalm, gceDo[p].op = "destroy" PROVE FALSE
      BY <1>2 DEF TearsAlone
    <2>2. QED
      BY <2>1 DEF GceInv, TearsAlone
  <1>9. TearsAlone(o)'
    <2>1. SUFFICES ASSUME gceCalm, gceDo'[o].op = "destroy"
                   PROVE  /\ \A p \in GceTasks \ {o} : gceDo'[p] = GIdle
                          /\ GLeft(o)' < 10 => ~HasMig(GceBot(o))'
                          /\ OneZone /\ GLeft(o)' < 4 => \A c \in GceBots : ~HasMig(c)'
      BY <1>3 DEF TearsAlone
    <2>2. gceDo[o].op = "destroy" /\ GceBot(o)' = b
      BY <1>3, <2>1 DEF GIdle
    <2>3. <<"mig", b>> \notin gce' /\ ~HasMig(GceBot(o))'
      BY <2>1, <2>2 DEF HasMig
    <2>4. OneZone /\ GLeft(o)' < 4 => \A c \in GceBots : ~HasMig(c)'
      BY <2>1, <2>2
    <2>5. QED
      BY <1>2, <1>4, <2>1, <2>2, <2>3, <2>4
  <1>10. GroupKeepsNetwork'
    <2>1. SUFFICES ASSUME gceCalm, OneZone, NEW c \in GceBots, HasMig(c)'
                   PROVE  HasNet(c)'
      BY <1>3 DEF GroupKeepsNetwork, OneZone, HasNet
    <2>2. CASE c # b
      <3>1. HasMig(c) /\ HasNet(c)
        BY <2>1, <2>2 DEF GceInv, GroupKeepsNetwork, OneZone, HasNet
      <3>2. ~(gceDo[o].op = "destroy" /\ GLeft(o) < 4)
        BY <2>1, <3>1 DEF GceInv, TearsAlone
      <3>3. \A r \in gce : r \notin BotKinds \X {b} => r \in gce'
        BY <3>2
      <3>4. /\ Net("vpc") \notin BotKinds \X {b} /\ Net("subnet") \notin BotKinds \X {b}
            /\ <<"http", c>> \notin BotKinds \X {b} /\ <<"ssh", c>> \notin BotKinds \X {b}
        BY <2>2 DEF Net, BotKinds
      <3>5. QED
        BY <3>1, <3>3, <3>4 DEF HasNet, Net
    <2>3. QED
      BY <2>1, <2>2
  <1>11. \A c \in GceBots : HasTmpl(c)'
    BY DEF GceInv, HasTmpl
  <1>12. \A p \in GceTasks : NetMade(p)' /\ TearsAlone(p)' /\ Resizing(p)'
    BY <1>5, <1>7, <1>8, <1>9
  <1>13. QED
    BY <1>1, <1>2, <1>10, <1>11, <1>12 DEF GceInv, GceOK

\* A call that had its effect, whether or not its wait ended in time.
LEMMA GceDoes ==
  ASSUME GceInv, NEW o \in GceTasks, NEW b \in GceBots, b = GceBot(o), NEW call, AtCall(o, call), Waits(o),
         zone' = zone, gceCalm' = gceCalm, torn' = torn,
         templates' \in [GceBots -> SUBSET Nat], migTmpl' \in [GceBots -> Nat],
         migSize' \in [GceBots -> {0, 1}],
         \A c \in GceBots \ {b} : /\ templates'[c] = templates[c] /\ migTmpl'[c] = migTmpl[c]
                                  /\ HasMig(c)' <=> HasMig(c),
         gceDo[o].op = "destroy" \/ gce \subseteq gce',
         \/ \A r \in gce : r \notin BotKinds \X {b} => r \in gce'
         \/ gceDo[o].op = "destroy" /\ GLeft(o) < 4,
         HasMig(b)' => HasMig(b) \/ gceDo[o].op = "install",
         HasTmpl(b)',
         Goes(o) => NetMade(o)',
         gceCalm /\ OneZone /\ HasMig(b)' => HasNet(b)',
         gceCalm /\ gceDo[o].op = "destroy" => ~HasMig(b)',
         gceDo[o].op = "destroy" => GLeft(o) # 4,
         gceDo[o].op = "resize" /\ GLeft(o) = 1 => migSize'[b] = 1
  PROVE  GceOK(o)
  <1>1. GceShape
    BY DEF GceInv
  <1>2. /\ GceMoves(o) /\ gceLeft' \in [op : 0..GceOps, fault : Nat]
        /\ (Goes(o) /\ gceLeft' = gceLeft) \/ (Breaks(o) /\ gceLeft' # gceLeft)
    BY <1>1, GceWaits
  <1>3. gceDo[o] # GIdle /\ GLeft(o) \in Nat \ {0}
    BY <1>1, GceCaller
  <1>4. gceDo'[o] = GIdle \/ SameOrder(o)
    BY <1>2 DEF Goes, Breaks
  <1>5. NetMade(o)'
    <2>1. SUFFICES ASSUME Breaks(o) PROVE NetMade(o)'
      BY <1>2
    <2>2. QED
      BY <2>1 DEF Breaks, SameOrder, NetMade, GIdle
  <1>6. gceCalm /\ gceDo'[o].op = "destroy" =>
          /\ ~HasMig(b)'
          /\ OneZone /\ GLeft(o)' < 4 => \A c \in GceBots : ~HasMig(c)
    <2>1. gceDo'[o].op = "destroy" =>
            gceDo[o].op = "destroy" /\ (GLeft(o)' < 4 => GLeft(o) < 4)
      BY <1>2, <1>3 DEF Goes, Breaks, SameOrder, GIdle
    <2>2. QED
      BY <2>1 DEF GceInv, TearsAlone
  <1>7. EndsBack(o)
    <2>1. SUFFICES ASSUME gceDo[o].op = "resize", gceDo'[o] = GIdle, o \notin torn,
                          gceLeft' = gceLeft \/ gceDo[o].calls # <<"recover">>
                   PROVE  migSize'[b] = 1 /\ migTmpl'[b] \in templates'[b]
      BY DEF EndsBack
    <2>2. GLeft(o) = 1
      BY <1>2, <2>1 DEF Goes, Breaks, SameOrder
    <2>3. HasMig(b) /\ gce \subseteq gce'
      BY <2>1 DEF GceInv, Resizing
    <2>4. QED
      BY <2>1, <2>2, <2>3 DEF HasTmpl, HasMig
  <1>8. QED
    BY <1>2, <1>3, <1>4, <1>5, <1>6, <1>7, GceKept

\* A call that had no effect.
LEMMA GceFailing ==
  ASSUME GceInv, NEW o \in GceTasks, gceDo[o] # GIdle, Fails(o), zone' = zone, gceCalm' = gceCalm,
         torn' = torn, gce' = gce, templates' = templates, migTmpl' = migTmpl, migSize' = migSize,
         gceLeft' \in [op : 0..GceOps, fault : Nat],
         gceDo[o].calls = <<"recover">> => gceLeft' # gceLeft \/ o \in torn
  PROVE  GceOK(o)
  <1>1. GceMoves(o) /\ Breaks(o)
    BY GceFails DEF GceInv
  <1>2. gceDo'[o] = GIdle \/ SameOrder(o)
    BY <1>1 DEF Breaks
  <1>3. NetMade(o)' /\ EndsBack(o) /\ ~(gceDo'[o].op = "destroy" /\ GLeft(o)' < 4)
    BY <1>1 DEF Breaks, SameOrder, NetMade, EndsBack, GIdle
  <1>4. PICK b \in GceBots : b = GceBot(o)
    BY GceOwner DEF GceInv
  <1>5. \A c \in GceBots : HasMig(c)' <=> HasMig(c)
    BY DEF HasMig
  <1>6. gceCalm /\ gceDo'[o].op = "destroy" => ~HasMig(b)'
    <2>1. gceDo'[o].op = "destroy" => gceDo[o].op = "destroy" /\ GLeft(o) < 10
      BY <1>1 DEF Breaks, SameOrder, GIdle
    <2>2. gceCalm /\ gceDo[o].op = "destroy" /\ GLeft(o) < 10 => ~HasMig(b)
      BY <1>4 DEF GceInv, TearsAlone
    <2>3. QED
      BY <1>5, <2>1, <2>2
  <1>7. /\ templates' \in [GceBots -> SUBSET Nat] /\ migTmpl' \in [GceBots -> Nat]
        /\ migSize' \in [GceBots -> {0, 1}]
    BY DEF GceInv, GceShape
  <1>8. HasTmpl(b)'
    BY DEF GceInv, HasTmpl, HasMig
  <1>9. gceCalm /\ OneZone /\ HasMig(b)' => HasNet(b)'
    BY DEF GceInv, GroupKeepsNetwork, OneZone, HasNet, HasMig, Net
  <1>10. gce \subseteq gce'
    OBVIOUS
  <1>11. QED
    BY <1>1, <1>2, <1>3, <1>4, <1>5, <1>6, <1>7, <1>8, <1>9, <1>10, GceKept

LEMMA GceRefused ==
  ASSUME GceInv, NEW o \in GceTasks, NEW call, AtCall(o, call), call # "recover" \/ o \in torn, Fails(o),
         zone' = zone, gceCalm' = gceCalm, torn' = torn, gce' = gce, templates' = templates,
         migTmpl' = migTmpl, migSize' = migSize, gceLeft' = gceLeft
  PROVE  GceOK(o)
  <1>1. GceShape /\ gceLeft' \in [op : 0..GceOps, fault : Nat]
    BY DEF GceInv, GceShape
  <1>2. gceDo[o] # GIdle
    BY <1>1, GceCaller
  <1>3. gceDo[o].calls = <<"recover">> => o \in torn
    <2>1. Head(<<"recover">>) = "recover"
      OBVIOUS
    <2>2. QED
      BY <2>1 DEF AtCall
  <1>4. QED
    BY <1>1, <1>2, <1>3, GceFailing

\* A step of an install adds a part that the next calls need.
LEMMA GceAdds ==
  ASSUME GceInv, NEW o \in GceTasks, NEW call, AtCall(o, call), Waits(o), zone' = zone, gceCalm' = gceCalm,
         torn' = torn, templates' = templates, migTmpl' = migTmpl, migSize' = migSize, NEW r,
         gce' = gce \cup {r},
         \/ call \in {"vpc", "subnet"} /\ r = Net(call)
         \/ call \in {"http", "ssh", "hc"} /\ r = <<call, GceBot(o)>>
  PROVE  GceOK(o)
  <1>1. /\ GceShape /\ templates' \in [GceBots -> SUBSET Nat] /\ migTmpl' \in [GceBots -> Nat]
        /\ migSize' \in [GceBots -> {0, 1}]
    BY DEF GceInv, GceShape
  <1>2. /\ gceDo[o].op = "install" /\ GLeft(o) \in 2..8 /\ GceBot(o) \in GceBots
        /\ call = "vpc" => GLeft(o) = 8
        /\ call = "subnet" => GLeft(o) = 7
        /\ call = "http" => GLeft(o) = 6
        /\ call = "ssh" => GLeft(o) = 5
        /\ call = "hc" => GLeft(o) = 2
    BY <1>1, GceCaller, GceOwner
  <1>3. PICK b \in GceBots : b = GceBot(o)
    BY <1>2
  <1>4. \A c \in GceBots : HasMig(c)' <=> HasMig(c)
    BY DEF HasMig, Net
  <1>5. HasTmpl(b)'
    BY <1>4 DEF GceInv, HasTmpl
  <1>6. ASSUME Goes(o) PROVE NetMade(o)'
    <2>1. gceDo'[o].op = "install" /\ GLeft(o)' = GLeft(o) - 1 /\ GceBot(o)' = b
      BY <1>2, <1>3, <1>6 DEF Goes, SameOrder
    <2>2. SUFFICES ASSUME gceCalm PROVE NetMade(o)'
      BY DEF NetMade
    <2>3. /\ GLeft(o) < 8 => Net("vpc") \in gce
          /\ GLeft(o) < 7 => Net("subnet") \in gce
          /\ GLeft(o) < 6 => <<"http", b>> \in gce
          /\ GLeft(o) < 5 => <<"ssh", b>> \in gce
      BY <1>2, <1>3, <2>2 DEF GceInv, NetMade
    <2>4. /\ GLeft(o)' < 8 => Net("vpc") \in gce'
          /\ GLeft(o)' < 7 => Net("subnet") \in gce'
          /\ GLeft(o)' < 6 => <<"http", b>> \in gce'
          /\ GLeft(o)' < 5 => <<"ssh", b>> \in gce'
      BY <1>2, <1>3, <2>1, <2>3
    <2>5. QED
      BY <2>1, <2>4 DEF NetMade, Net
  <1>7. gceCalm /\ OneZone /\ HasMig(b)' => HasNet(b)'
    BY <1>4 DEF GceInv, GroupKeepsNetwork, OneZone, HasNet, Net
  <1>8. gce \subseteq gce'
    OBVIOUS
  <1>9. gceDo[o].op \notin {"destroy", "resize"}
    BY <1>2
  <1>10. QED
    BY <1>1, <1>2, <1>3, <1>4, <1>5, <1>6, <1>7, <1>8, <1>9, GceDoes

LEMMA GceEnsures ==
  ASSUME GceInv, NEW o \in GceTasks,
         \/ EnsureVpcNetwork(o) \/ EnsureSubnet(o) \/ (\E k \in {"http", "ssh"} : EnsureFirewall(o, k))
         \/ CreateHealthCheck(o)
  PROVE  GceOK(o)
  <1>1. ASSUME NEW call, NEW r, NEW ok \in BOOLEAN, Made(o, call, r, ok),
               \/ call \in {"vpc", "subnet"} /\ r = Net(call)
               \/ call \in {"http", "ssh", "hc"} /\ r = <<call, GceBot(o)>>
        PROVE  GceOK(o)
    <2>1. /\ AtCall(o, call) /\ zone' = zone /\ gceCalm' = gceCalm /\ torn' = torn
          /\ templates' = templates /\ migTmpl' = migTmpl /\ migSize' = migSize
          /\ \/ ok /\ Waits(o) /\ gce' = gce \cup {r}
             \/ ~ok /\ Fails(o) /\ gceLeft' = gceLeft /\ gce' = gce
      BY <1>1 DEF Made, Calls, gceGroup
    <2>2. CASE ok /\ Waits(o) /\ gce' = gce \cup {r}
      BY <1>1, <2>1, <2>2, GceAdds
    <2>3. CASE ~ok /\ Fails(o) /\ gceLeft' = gceLeft /\ gce' = gce
      <3>1. call # "recover"
        BY <1>1
      <3>2. QED
        BY <2>1, <2>3, <3>1, GceRefused
    <2>4. QED
      BY <2>1, <2>2, <2>3
  <1>2. CASE EnsureVpcNetwork(o)
    BY <1>1, <1>2 DEF EnsureVpcNetwork
  <1>3. CASE EnsureSubnet(o)
    <2>1. PICK ok \in BOOLEAN : ok <=> Net("vpc") \in gce
      OBVIOUS
    <2>2. Made(o, "subnet", Net("subnet"), ok)
      BY <1>3, <2>1, Zenon DEF EnsureSubnet, Made, Calls
    <2>3. QED
      BY <1>1, <2>2
  <1>4. CASE \E k \in {"http", "ssh"} : EnsureFirewall(o, k)
    <2>1. PICK k \in {"http", "ssh"} : EnsureFirewall(o, k)
      BY <1>4
    <2>2. PICK ok \in BOOLEAN : ok = (<<k, GceBot(o)>> \in gce \/ Net("vpc") \in gce)
      OBVIOUS
    <2>3. Made(o, k, <<k, GceBot(o)>>, ok)
      BY <2>1, <2>2, Zenon DEF EnsureFirewall
    <2>4. QED
      BY <1>1, <2>3
  <1>5. CASE CreateHealthCheck(o)
    <2>1. PICK ok \in BOOLEAN : ok = (<<"hc", GceBot(o)>> \notin gce)
      OBVIOUS
    <2>2. Made(o, "hc", <<"hc", GceBot(o)>>, ok)
      BY <1>5, <2>1, Zenon DEF CreateHealthCheck
    <2>3. QED
      BY <1>1, <2>2
  <1>6. QED
    BY <1>2, <1>3, <1>4, <1>5

\* The templates of the bot change, or the one that its group uses.
LEMMA GceTemplated ==
  ASSUME GceInv, NEW o \in GceTasks, NEW b \in GceBots, b = GceBot(o),
         NEW call \in {"tmpl", "newTmpl", "setTmpl", "-oldTmpl", "-tmpl"}, AtCall(o, call), Waits(o),
         zone' = zone, gceCalm' = gceCalm, torn' = torn, gce' = gce, migSize' = migSize,
         templates' \in [GceBots -> SUBSET Nat], migTmpl' \in [GceBots -> Nat],
         \A c \in GceBots \ {b} : templates'[c] = templates[c] /\ migTmpl'[c] = migTmpl[c],
         HasTmpl(b)'
  PROVE  GceOK(o)
  <1>1. GceShape /\ migSize' \in [GceBots -> {0, 1}]
    BY DEF GceInv, GceShape
  <1>2. /\ gceDo[o].op = "install" => GLeft(o) = 3
        /\ gceDo[o].op = "resize" => GLeft(o) # 1
        /\ gceDo[o].op = "destroy" => GLeft(o) = 8
        /\ gceDo[o].op \in {"install", "resize", "destroy"} /\ GLeft(o) \in Nat
    BY <1>1, GceCaller
  <1>3. \A c \in GceBots : HasMig(c)' <=> HasMig(c)
    BY DEF HasMig
  <1>4. ASSUME Goes(o) PROVE NetMade(o)'
    <2>1. SUFFICES ASSUME gceCalm, gceDo'[o].op = "install" PROVE NetMade(o)'
      BY DEF NetMade
    <2>2. gceDo[o].op = "install" /\ GLeft(o)' = 2 /\ GceBot(o)' = b /\ GLeft(o) = 3
      BY <1>2, <1>4, <2>1 DEF Goes, SameOrder, GIdle
    <2>3. HasNet(b)
      BY <2>1, <2>2 DEF GceInv, NetMade, HasNet
    <2>4. QED
      BY <2>2, <2>3 DEF NetMade, HasNet, Net
  <1>5. gceCalm /\ OneZone /\ HasMig(b)' => HasNet(b)'
    BY <1>3 DEF GceInv, GroupKeepsNetwork, OneZone, HasNet, Net
  <1>6. gceCalm /\ gceDo[o].op = "destroy" => ~HasMig(b)'
    BY <1>2, <1>3 DEF GceInv, TearsAlone
  <1>7. gce \subseteq gce'
    OBVIOUS
  <1>8. (gceDo[o].op = "destroy" => GLeft(o) # 4) /\ ~(gceDo[o].op = "resize" /\ GLeft(o) = 1)
    BY <1>2
  <1>9. QED
    BY <1>1, <1>3, <1>4, <1>5, <1>6, <1>7, <1>8, GceDoes

\* A template is made, given to the group, or deleted if the group does not use it.
LEMMA GceTemplates ==
  ASSUME GceInv, NEW o \in GceTasks, NEW n,
         \/ CreateInstanceTemplate(o) \/ SetMigInstanceTemplate(o)
         \/ \E call \in {"-oldTmpl", "-tmpl"} : DeleteInstanceTemplate(o, call, n)
  PROVE  GceOK(o)
  <1>1. /\ GceShape /\ templates \in [GceBots -> SUBSET Nat] /\ migTmpl \in [GceBots -> Nat]
        /\ gceDo \in [GceTasks -> GceWork]
    BY DEF GceInv, GceShape
  <1>2. \A c \in GceBots : HasTmpl(c)
    BY DEF GceInv
  <1>3. ASSUME NEW call, AtCall(o, call) PROVE GceBot(o) \in GceBots
    BY <1>1, <1>3, GceCaller, GceOwner
  <1>4. CASE CreateInstanceTemplate(o)
    <2> DEFINE new == gceDo[o].new
               ok == new \notin templates[GceBot(o)] /\ Net("subnet") \in gce
    <2>1. PICK call \in {"tmpl", "newTmpl"} : Calls(o, call, ok)
      BY <1>4 DEF CreateInstanceTemplate
    <2>2. /\ AtCall(o, call) /\ zone' = zone /\ gceCalm' = gceCalm /\ torn' = torn
          /\ (ok /\ Waits(o)) \/ (~ok /\ Fails(o) /\ gceLeft' = gceLeft)
      BY <2>1 DEF Calls
    <2>3. /\ gce' = gce /\ migTmpl' = migTmpl /\ migSize' = migSize
          /\ templates' = IF ok THEN [templates EXCEPT ![GceBot(o)] = @ \cup {new}] ELSE templates
      BY <1>4 DEF CreateInstanceTemplate
    <2>4. CASE ~ok
      <3>1. Fails(o) /\ gceLeft' = gceLeft /\ templates' = templates /\ call # "recover"
        BY <2>2, <2>3, <2>4
      <3>2. QED
        BY <2>2, <2>3, <3>1, GceRefused
    <2>5. CASE ok
      <3>1. PICK b \in GceBots : b = GceBot(o)
        BY <1>3, <2>2
      <3>2. Waits(o) /\ templates' = [templates EXCEPT ![b] = @ \cup {new}] /\ new \in Nat
        BY <1>1, <2>2, <2>3, <2>5, <3>1 DEF GceWork
      <3> HIDE DEF new
      <3>3. /\ templates' \in [GceBots -> SUBSET Nat] /\ templates'[b] = templates[b] \cup {new}
            /\ \A c \in GceBots \ {b} : templates'[c] = templates[c]
        BY <1>1, <3>2
      <3>4. HasTmpl(b)'
        BY <1>2, <2>3, <3>3 DEF HasTmpl, HasMig
      <3>5. migTmpl' \in [GceBots -> Nat] /\ \A c \in GceBots \ {b} : migTmpl'[c] = migTmpl[c]
        BY <1>1, <2>3
      <3>6. QED
        BY <2>2, <2>3, <3>1, <3>2, <3>3, <3>4, <3>5, GceTemplated
    <2>6. QED
      BY <2>4, <2>5
  <1>5. CASE SetMigInstanceTemplate(o)
    <2> DEFINE new == gceDo[o].new
               ok == HasMig(GceBot(o)) /\ new \in templates[GceBot(o)]
    <2>1. /\ AtCall(o, "setTmpl") /\ zone' = zone /\ gceCalm' = gceCalm /\ torn' = torn
          /\ gce' = gce /\ templates' = templates /\ migSize' = migSize
          /\ \/ ok /\ Waits(o) /\ migTmpl' = [migTmpl EXCEPT ![GceBot(o)] = new]
             \/ ~ok /\ Fails(o) /\ gceLeft' = gceLeft /\ migTmpl' = migTmpl
      BY <1>5 DEF SetMigInstanceTemplate, Calls
    <2>2. CASE ~ok /\ Fails(o) /\ gceLeft' = gceLeft /\ migTmpl' = migTmpl
      BY <2>1, <2>2, GceRefused
    <2>3. CASE ok /\ Waits(o) /\ migTmpl' = [migTmpl EXCEPT ![GceBot(o)] = new]
      <3>1. PICK b \in GceBots : b = GceBot(o)
        BY <1>3, <2>1
      <3>2. /\ migTmpl' \in [GceBots -> Nat] /\ migTmpl'[b] = new /\ new \in templates[b]
            /\ \A c \in GceBots \ {b} : migTmpl'[c] = migTmpl[c]
        BY <1>1, <2>3, <3>1
      <3>3. HasTmpl(b)'
        BY <2>1, <3>2 DEF HasTmpl, HasMig
      <3>4. templates' \in [GceBots -> SUBSET Nat] /\ \A c \in GceBots \ {b} : templates'[c] = templates[c]
        BY <1>1, <2>1
      <3>5. QED
        BY <2>1, <2>3, <3>1, <3>2, <3>3, <3>4, GceTemplated
    <2>4. QED
      BY <2>1, <2>2, <2>3
  <1>6. CASE \E call \in {"-oldTmpl", "-tmpl"} : DeleteInstanceTemplate(o, call, n)
    <2> DEFINE ok == ~(HasMig(GceBot(o)) /\ migTmpl[GceBot(o)] = n)
    <2>1. PICK call \in {"-oldTmpl", "-tmpl"} : DeleteInstanceTemplate(o, call, n)
      BY <1>6
    <2>2. /\ AtCall(o, call) /\ zone' = zone /\ gceCalm' = gceCalm /\ torn' = torn
          /\ gce' = gce /\ migTmpl' = migTmpl /\ migSize' = migSize
          /\ \/ ok /\ Waits(o) /\ templates' = [templates EXCEPT ![GceBot(o)] = @ \ {n}]
             \/ ~ok /\ Fails(o) /\ gceLeft' = gceLeft /\ templates' = templates
      BY <2>1 DEF DeleteInstanceTemplate, Calls
    <2>3. CASE ~ok /\ Fails(o) /\ gceLeft' = gceLeft /\ templates' = templates
      BY <2>2, <2>3, GceRefused
    <2>4. CASE ok /\ Waits(o) /\ templates' = [templates EXCEPT ![GceBot(o)] = @ \ {n}]
      <3>1. PICK b \in GceBots : b = GceBot(o)
        BY <1>3, <2>2
      <3>2. /\ templates' \in [GceBots -> SUBSET Nat] /\ templates'[b] = templates[b] \ {n}
            /\ \A c \in GceBots \ {b} : templates'[c] = templates[c]
        BY <1>1, <2>4, <3>1
      <3>3. HasTmpl(b)'
        BY <1>2, <2>2, <2>4, <3>1, <3>2 DEF HasTmpl, HasMig
      <3>4. migTmpl' \in [GceBots -> Nat] /\ \A c \in GceBots \ {b} : migTmpl'[c] = migTmpl[c]
        BY <1>1, <2>2
      <3>5. QED
        BY <2>2, <2>4, <3>1, <3>2, <3>3, <3>4, GceTemplated
    <2>5. QED
      BY <2>2, <2>3, <2>4
  <1>7. QED
    BY <1>4, <1>5, <1>6

\* The group is created where an install has made its network.
LEMMA GceCreates == ASSUME GceInv, NEW o \in GceTasks, CreateMig(o) PROVE GceOK(o)
  <1>1. PICK b : b = GceBot(o)
    OBVIOUS
  <1> DEFINE ok == ~HasMig(b) /\ 0 \in templates[b] /\ <<"hc", b>> \in gce
  <1>2. /\ GceShape /\ templates \in [GceBots -> SUBSET Nat] /\ migTmpl \in [GceBots -> Nat]
        /\ migSize \in [GceBots -> {0, 1}]
    BY DEF GceInv, GceShape
  <1>3. /\ AtCall(o, "mig") /\ zone' = zone /\ gceCalm' = gceCalm /\ torn' = torn /\ templates' = templates
        /\ (ok /\ Waits(o)) \/ (~ok /\ Fails(o) /\ gceLeft' = gceLeft)
    BY <1>1 DEF CreateMig, Calls
  <1>4. gceDo[o].op = "install" /\ GLeft(o) = 1 /\ b \in GceBots
    BY <1>1, <1>2, <1>3, GceCaller, GceOwner
  <1>5. CASE ~ok
    <2>1. gce' = gce /\ migTmpl' = migTmpl /\ migSize' = migSize
      BY <1>1, <1>5 DEF CreateMig
    <2>2. QED
      BY <1>3, <1>5, <2>1, GceRefused
  <1>6. CASE ok
    <2>1. /\ gce' = gce \cup {<<"mig", b>>} /\ migTmpl' = [migTmpl EXCEPT ![b] = 0]
          /\ migSize' = [migSize EXCEPT ![b] = 1]
      BY <1>1, <1>6 DEF CreateMig
    <2>2. /\ migTmpl' \in [GceBots -> Nat] /\ migTmpl'[b] = 0 /\ migSize' \in [GceBots -> {0, 1}]
          /\ \A c \in GceBots \ {b} : migTmpl'[c] = migTmpl[c]
      BY <1>2, <1>4, <2>1
    <2>3. \A c \in GceBots \ {b} : HasMig(c)' <=> HasMig(c)
      BY <2>1 DEF HasMig
    <2>4. HasTmpl(b)'
      BY <1>3, <1>6, <2>2 DEF HasTmpl
    <2>5. gceCalm => HasNet(b)'
      <3>1. NetMade(o) /\ gce \subseteq gce'
        BY <2>1 DEF GceInv
      <3>2. QED
        BY <1>1, <1>4, <3>1 DEF NetMade, HasNet, Net
    <2>6. ASSUME Goes(o) PROVE NetMade(o)'
      BY <1>4, <2>6 DEF Goes, NetMade, GIdle
    <2>7. gce \subseteq gce'
      BY <2>1
    <2>8. templates' \in [GceBots -> SUBSET Nat] /\ \A c \in GceBots \ {b} : templates'[c] = templates[c]
      BY <1>2, <1>3
    <2>9. gceDo[o].op \notin {"destroy", "resize"}
      BY <1>4
    <2>10. QED
      BY <1>1, <1>3, <1>4, <1>6, <2>2, <2>3, <2>4, <2>5, <2>6, <2>7, <2>8, <2>9, GceDoes
  <1>7. QED
    BY <1>5, <1>6

\* The calls that change the size of the group or a secret, or nothing.
LEMMA GceScales ==
  ASSUME GceInv, NEW o \in GceTasks,
         NEW call \in {"size1", "size0", "recover", "recreate", "secret", "put", "-secret"},
         AtCall(o, call), Waits(o), zone' = zone, gceCalm' = gceCalm, torn' = torn, gce' = gce,
         templates' = templates, migTmpl' = migTmpl, migSize' \in [GceBots -> {0, 1}],
         call \in {"size1", "recover"} => migSize'[GceBot(o)] = 1
  PROVE  GceOK(o)
  <1>1. GceShape /\ templates' \in [GceBots -> SUBSET Nat] /\ migTmpl' \in [GceBots -> Nat]
    BY DEF GceInv, GceShape
  <1>2. PICK b \in GceBots : b = GceBot(o)
    BY <1>1, GceCaller, GceOwner
  <1>3. /\ gceDo[o].op = "install" => GLeft(o) = 4
        /\ gceDo[o].op = "resize" /\ GLeft(o) = 1 => call \in {"size1", "recover"}
        /\ gceDo[o].op = "destroy" => GLeft(o) = 5
        /\ GLeft(o) \in Nat \ {0}
    BY <1>1, GceCaller
  <1>4. \A c \in GceBots : HasMig(c)' <=> HasMig(c)
    BY DEF HasMig
  <1>5. HasTmpl(b)'
    BY <1>4 DEF GceInv, HasTmpl
  <1>6. ASSUME Goes(o) PROVE NetMade(o)'
    <2>1. SUFFICES ASSUME gceCalm, gceDo'[o].op = "install" PROVE NetMade(o)'
      BY DEF NetMade
    <2>2. gceDo[o].op = "install" /\ GLeft(o)' = 3 /\ GceBot(o)' = b /\ GLeft(o) = 4
      BY <1>2, <1>3, <1>6, <2>1 DEF Goes, SameOrder, GIdle
    <2>3. HasNet(b)
      BY <1>2, <2>1, <2>2 DEF GceInv, NetMade, HasNet
    <2>4. QED
      BY <2>2, <2>3 DEF NetMade, HasNet, Net
  <1>7. gceCalm /\ OneZone /\ HasMig(b)' => HasNet(b)'
    BY <1>4 DEF GceInv, GroupKeepsNetwork, OneZone, HasNet, Net
  <1>8. gceCalm /\ gceDo[o].op = "destroy" => ~HasMig(b)'
    BY <1>2, <1>3, <1>4 DEF GceInv, TearsAlone
  <1>9. gce \subseteq gce'
    OBVIOUS
  <1>10. /\ gceDo[o].op = "destroy" => GLeft(o) # 4
         /\ gceDo[o].op = "resize" /\ GLeft(o) = 1 => migSize'[b] = 1
    BY <1>2, <1>3
  <1>11. QED
    BY <1>1, <1>2, <1>4, <1>5, <1>6, <1>7, <1>8, <1>9, <1>10, GceDoes

LEMMA GceSizes ==
  ASSUME GceInv, NEW o \in GceTasks,
         \/ ScaleMig(o, "size1", 1) \/ ScaleMig(o, "size0", 0) \/ ScaleMig(o, "recover", 1)
         \/ RecreateMigInstances(o)
         \/ StoreSecret(o, "secret", "empty") \/ StoreSecret(o, "put", "config")
         \/ StoreSecret(o, "-secret", "absent")
  PROVE  GceOK(o)
  <1>1. GceShape /\ migSize \in [GceBots -> {0, 1}]
    BY DEF GceInv, GceShape
  <1>2. ASSUME NEW call \in {"size1", "size0", "recover"}, NEW n \in {0, 1}, ScaleMig(o, call, n),
               call \in {"size1", "recover"} => n = 1
        PROVE  GceOK(o)
    <2>1. /\ AtCall(o, call) /\ zone' = zone /\ gceCalm' = gceCalm /\ torn' = torn /\ gce' = gce
          /\ templates' = templates /\ migTmpl' = migTmpl
          /\ \/ HasMig(GceBot(o)) /\ Waits(o) /\ migSize' = [migSize EXCEPT ![GceBot(o)] = n]
             \/ ~HasMig(GceBot(o)) /\ Fails(o) /\ gceLeft' = gceLeft /\ migSize' = migSize
      BY <1>2 DEF ScaleMig, Calls
    <2>2. CASE HasMig(GceBot(o)) /\ Waits(o) /\ migSize' = [migSize EXCEPT ![GceBot(o)] = n]
      <3>1. GceBot(o) \in GceBots
        BY <1>1, <2>1, GceCaller, GceOwner
      <3>2. /\ migSize' \in [GceBots -> {0, 1}]
            /\ call \in {"size1", "recover"} => migSize'[GceBot(o)] = 1
        BY <1>1, <1>2, <2>2, <3>1
      <3>3. QED
        BY <2>1, <2>2, <3>2, GceScales
    <2>3. CASE ~HasMig(GceBot(o)) /\ Fails(o) /\ gceLeft' = gceLeft /\ migSize' = migSize
      <3>1. call # "recover" \/ o \in torn
        <4>1. SUFFICES ASSUME call = "recover" PROVE gceDo[o].op = "resize"
          BY <2>3 DEF GceInv, Resizing
        <4>2. QED
          BY <1>1, <2>1, <4>1, GceCaller
      <3>2. QED
        BY <2>1, <2>3, <3>1, GceRefused
    <2>4. QED
      BY <2>1, <2>2, <2>3
  <1>3. CASE RecreateMigInstances(o)
    <2>1. /\ AtCall(o, "recreate") /\ zone' = zone /\ gceCalm' = gceCalm /\ torn' = torn /\ gce' = gce
          /\ templates' = templates /\ migTmpl' = migTmpl /\ migSize' = migSize
          /\ Waits(o) \/ (Fails(o) /\ gceLeft' = gceLeft)
      BY <1>3 DEF RecreateMigInstances, Calls, gceGroup
    <2>2. CASE Waits(o)
      BY <1>1, <2>1, <2>2, GceScales
    <2>3. CASE Fails(o) /\ gceLeft' = gceLeft
      BY <2>1, <2>3, GceRefused
    <2>4. QED
      BY <2>1, <2>2, <2>3
  <1>4. ASSUME NEW call \in {"secret", "put", "-secret"}, NEW value, StoreSecret(o, call, value)
        PROVE  GceOK(o)
    <2>1. /\ AtCall(o, call) /\ zone' = zone /\ gceCalm' = gceCalm /\ torn' = torn /\ gce' = gce
          /\ templates' = templates /\ migTmpl' = migTmpl /\ migSize' = migSize /\ Waits(o)
      BY <1>4 DEF StoreSecret, Calls
    <2>2. QED
      BY <1>1, <2>1, GceScales
  <1>5. QED
    BY <1>2, <1>3, <1>4

\* The read of a resize remembers the template of the group.
LEMMA GceReads == ASSUME GceInv, NEW o \in GceTasks, GetMigInstanceTemplate(o) PROVE GceOK(o)
  <1>1. /\ AtCall(o, "read") /\ zone' = zone /\ gceCalm' = gceCalm /\ torn' = torn /\ gce' = gce
        /\ templates' = templates /\ migTmpl' = migTmpl /\ migSize' = migSize /\ gceLeft' = gceLeft
        /\ IF HasMig(GceBot(o))
           THEN gceDo' = [gceDo EXCEPT ![o].calls = Tail(@), ![o].old = migTmpl[GceBot(o)]]
           ELSE Fails(o)
    BY DEF GetMigInstanceTemplate, gceGroup
  <1>2. CASE ~HasMig(GceBot(o))
    BY <1>1, <1>2, GceRefused
  <1>3. SUFFICES ASSUME HasMig(GceBot(o)) PROVE GceOK(o)
    BY <1>2
  <1>4. /\ AtCall(o, "read") /\ zone' = zone /\ gceCalm' = gceCalm /\ torn' = torn /\ gce' = gce
        /\ templates' = templates /\ migTmpl' = migTmpl /\ migSize' = migSize /\ gceLeft' = gceLeft
        /\ gceDo' = [gceDo EXCEPT ![o].calls = Tail(@), ![o].old = migTmpl[GceBot(o)]]
    BY <1>1, <1>3
  <1>5. /\ GceShape /\ gceDo \in [GceTasks -> GceWork] /\ templates' \in [GceBots -> SUBSET Nat]
        /\ migTmpl \in [GceBots -> Nat] /\ migTmpl' \in [GceBots -> Nat]
        /\ migSize' \in [GceBots -> {0, 1}] /\ gceLeft' \in [op : 0..GceOps, fault : Nat]
    BY <1>4 DEF GceInv, GceShape
  <1>6. gceDo[o] # GIdle /\ gceDo[o].op = "resize" /\ GLeft(o) = 5
    <2>1. AtCall(o, "read") /\ GceShape
      BY <1>4, <1>5
    <2>2. QED
      BY <2>1, GceCaller
  <1>7. PICK s \in Seq(GceNames) : s = gceDo[o].calls
    BY <1>5 DEF GceWork
  <1>8. PICK C \in Seq(GceNames) : C = GceCalls["resize"]
    BY GceOrder DEF GceOpNames
  <1>9. Len(s) = 5 /\ IsRest(GceNames, s, C)
    <2>1. Len(s) = 5
      BY <1>6, <1>7 DEF GLeft
    <2>2. s # <<"recover">>
      BY <2>1
    <2>3. QED
      BY <1>5, <1>6, <1>7, <1>8, <2>1, <2>2 DEF GceShape, GceStands
  <1>10. PICK t \in Seq(GceNames) : t = Tail(s) /\ Len(t) = 4 /\ IsRest(GceNames, t, C)
    <2>1. /\ Tail(s) \in Seq(GceNames) /\ Len(Tail(s)) = 4 /\ Tail(s) # <<>>
          /\ \A i \in 1..4 : Tail(s)[i] = s[i + 1]
      <3>1. s # <<>>
        BY <1>9
      <3>2. /\ Tail(s) \in Seq(GceNames) /\ Len(Tail(s)) = Len(s) - 1
            /\ \A i \in 1..Len(Tail(s)) : Tail(s)[i] = s[i + 1]
        BY <3>1, HeadTailProperties
      <3>3. PICK t \in Seq(GceNames) : t = Tail(s)
        BY <3>2
      <3>4. Len(t) = 4 /\ t # <<>> /\ \A i \in 1..4 : t[i] = s[i + 1]
        <4>1. Len(t) = Len(s) - 1 /\ \A i \in 1..Len(t) : t[i] = s[i + 1]
          BY <3>2, <3>3, Zenon
        <4>2. Len(t) = 4
          BY <1>9, <4>1
        <4>3. t # <<>>
          <5>1. Len(<<>>) = 0 /\ 0 # 4
            OBVIOUS
          <5>2. QED
            BY <4>2, <5>1, Zenon
        <4>4. QED
          BY <4>1, <4>2, <4>3, Zenon
      <3>5. QED
        BY <3>3, <3>4, Zenon
    <2>2. \A i \in 1..4 : s[i + 1] = C[Len(C) - 4 + i]
      <3>1. TAKE i \in 1..4
      <3>2. Len(C) \in Nat /\ i + 1 \in 1..5
        OBVIOUS
      <3>3. s[i + 1] = C[Len(C) - 5 + (i + 1)]
        BY <1>9, <3>2 DEF IsRest
      <3>4. Len(C) - 5 + (i + 1) = Len(C) - 4 + i
        BY <3>2
      <3>5. QED
        BY <3>3, <3>4
    <2>3. 4 <= Len(C)
      BY <1>9 DEF IsRest
    <2>4. IsRest(GceNames, Tail(s), C)
      BY <2>1, <2>2, <2>3 DEF IsRest
    <2>5. QED
      BY <2>1, <2>4
  <1>11. PICK b \in GceBots : b = GceBot(o)
    BY <1>5, <1>6, GceOwner
  <1>12. /\ gceDo' \in [GceTasks -> GceWork]
        /\ gceDo'[o].op = "resize" /\ gceDo'[o].calls = t /\ gceDo'[o].bot = b
        /\ \A p \in GceTasks \ {o} : gceDo'[p] = gceDo[p]
    <2>1. gceDo' = [gceDo EXCEPT ![o] = [gceDo[o] EXCEPT !.calls = t, !.old = migTmpl[b]]]
      BY <1>4, <1>5, <1>7, <1>10, <1>11
    <2>2. gceDo[o].bot = b /\ gceDo[o] \in GceWork /\ migTmpl[b] \in Nat
      BY <1>5, <1>11 DEF GceBot
    <2>3. PICK r : r = [gceDo[o] EXCEPT !.calls = t, !.old = migTmpl[b]]
      OBVIOUS
    <2>4. r \in GceWork /\ r.op = "resize" /\ r.calls = t /\ r.bot = b
      BY <1>6, <2>2, <2>3 DEF GceWork
    <2>5. gceDo' = [gceDo EXCEPT ![o] = r]
      BY <2>1, <2>3
    <2>6. QED
      BY <1>5, <2>4, <2>5
  <1>13. GLeft(o)' = 4 /\ gceDo'[o] # GIdle
    BY <1>10, <1>12 DEF GLeft, GIdle
  <1>14. GceMoves(o)
    <2>1. GceCalls' = GceCalls
      BY DEF GceCalls, TearDown, Resize
    <2>2. GceStands(o)'
      BY <1>11, <1>8, <1>10, <1>12, <2>1 DEF GceStands, GceOpNames
    <2>3. QED
      BY <1>12, <2>2 DEF GceMoves
  <1>15. \A c \in GceBots : HasMig(c)' <=> HasMig(c)
    BY <1>4 DEF HasMig
  <1>16. NetMade(o)' /\ EndsBack(o) /\ SameOrder(o)
    BY <1>6, <1>12, <1>13, <1>11 DEF NetMade, EndsBack, SameOrder, GceBot
  <1>17. HasTmpl(b)'
    BY <1>4, <1>15 DEF GceInv, HasTmpl
  <1>18. gceCalm /\ OneZone /\ HasMig(b)' => HasNet(b)'
    BY <1>4, <1>15 DEF GceInv, GroupKeepsNetwork, OneZone, HasNet, Net
  <1>19. gce \subseteq gce' /\ gceDo'[o].op # "destroy"
    BY <1>4, <1>12
  <1>20. QED
    BY <1>4, <1>5, <1>6, <1>11, <1>14, <1>15, <1>16, <1>17, <1>18, <1>19, GceKept

\* A step of a destroy takes away what is the bot's own, or what no group uses.
LEMMA GceTakes ==
  ASSUME GceInv, NEW o \in GceTasks, NEW b \in GceBots, b = GceBot(o),
         NEW call \in {"-mig", "-hc", "-http", "-ssh", "-firewalls", "-subnet", "-vpc"},
         AtCall(o, call), Waits(o), zone' = zone, gceCalm' = gceCalm, torn' = torn,
         templates' = templates, migTmpl' = migTmpl, migSize' \in [GceBots -> {0, 1}],
         \/ call \in {"-mig", "-hc", "-http", "-ssh"}
            /\ \E k \in {"mig", "hc", "http", "ssh"} : gce' = gce \ {<<k, b>>}
         \/ call \in {"-firewalls", "-subnet", "-vpc"}
            /\ \E rs : /\ gce' = gce \ rs
                       /\ \A c \in GceBots : <<"mig", c>> \notin rs,
         call = "-mig" => <<"mig", b>> \notin gce'
  PROVE  GceOK(o)
  <1>1. GceShape /\ templates' \in [GceBots -> SUBSET Nat] /\ migTmpl' \in [GceBots -> Nat]
    BY DEF GceInv, GceShape
  <1>2. /\ gceDo[o].op = "destroy" /\ GLeft(o) \in Nat \ {0} /\ (GLeft(o) < 10 \/ call = "-mig")
        /\ GLeft(o) < 4 <=> call \in {"-firewalls", "-subnet", "-vpc"}
        /\ GLeft(o) # 4
    BY <1>1, GceCaller
  <1>3. /\ HasMig(b)' => HasMig(b)
        /\ \A c \in GceBots \ {b} : HasMig(c)' <=> HasMig(c)
    <2>1. /\ <<"mig", b>> \in gce' => <<"mig", b>> \in gce
          /\ \A c \in GceBots \ {b} : <<"mig", c>> \in gce' <=> <<"mig", c>> \in gce
      OBVIOUS
    <2>2. QED
      BY <2>1 DEF HasMig
  <1>4. gceCalm => ~HasMig(b)'
    <2>1. call # "-mig" /\ gceCalm => ~HasMig(b)
      BY <1>2 DEF GceInv, TearsAlone
    <2>2. call = "-mig" => ~HasMig(b)'
      BY DEF HasMig
    <2>3. QED
      BY <1>3, <2>1, <2>2
  <1>5. HasTmpl(b)'
    BY <1>3 DEF GceInv, HasTmpl
  <1>6. (\A r \in gce : r \notin BotKinds \X {b} => r \in gce') \/ (gceDo[o].op = "destroy" /\ GLeft(o) < 4)
    <2>1. CASE GLeft(o) < 4
      BY <1>2, <2>1
    <2>2. CASE ~(GLeft(o) < 4)
      <3>1. \E k \in {"mig", "hc", "http", "ssh"} : gce' = gce \ {<<k, b>>}
        BY <1>2, <2>2
      <3>2. \A k \in {"mig", "hc", "http", "ssh"} : <<k, b>> \in BotKinds \X {b}
        BY DEF BotKinds
      <3>3. QED
        BY <3>1, <3>2
    <2>3. QED
      BY <2>1, <2>2
  <1>7. ASSUME Goes(o) PROVE NetMade(o)'
    <2>1. gceDo'[o].op # "install"
      BY <1>2, <1>7 DEF Goes, SameOrder, GIdle
    <2>2. QED
      BY <2>1 DEF NetMade
  <1>8. gceDo[o].op # "resize"
    BY <1>2
  <1>9. QED
    BY <1>1, <1>2, <1>3, <1>4, <1>5, <1>6, <1>7, <1>8, GceDoes

LEMMA GceRemoves ==
  ASSUME GceInv, NEW o \in GceTasks,
         \/ DeleteMig(o) \/ DeleteHealthCheck(o)
         \/ (\E k \in {"http", "ssh"} : DeleteFirewall(o, k))
         \/ DeleteAllFirewalls(o) \/ DeleteSubnet(o) \/ DeleteNetwork(o)
  PROVE  GceOK(o)
  <1>1. GceShape /\ migSize \in [GceBots -> {0, 1}]
    BY DEF GceInv, GceShape
  <1>2. PICK b : b = GceBot(o)
    OBVIOUS
  <1>3. ASSUME NEW call \in {"-hc", "-http", "-ssh", "-firewalls", "-subnet", "-vpc"}, NEW rs, NEW ok \in BOOLEAN,
               Removed(o, call, rs, ok),
               \/ call \in {"-hc", "-http", "-ssh"} /\ \E k \in {"hc", "http", "ssh"} : rs = {<<k, b>>}
               \/ call \in {"-firewalls", "-subnet", "-vpc"} /\ \A c \in GceBots : <<"mig", c>> \notin rs
        PROVE  GceOK(o)
    <2>1. /\ AtCall(o, call) /\ zone' = zone /\ gceCalm' = gceCalm /\ torn' = torn
          /\ templates' = templates /\ migTmpl' = migTmpl /\ migSize' = migSize
          /\ \/ ok /\ Waits(o) /\ gce' = gce \ rs
             \/ ~ok /\ Fails(o) /\ gceLeft' = gceLeft /\ gce' = gce
      BY <1>3 DEF Removed, Calls, gceGroup
    <2>2. b \in GceBots
      BY <1>1, <1>2, <2>1, GceCaller, GceOwner
    <2>3. CASE ok /\ Waits(o) /\ gce' = gce \ rs
      <3>1. \/ call \in {"-mig", "-hc", "-http", "-ssh"}
               /\ \E k \in {"mig", "hc", "http", "ssh"} : gce' = gce \ {<<k, b>>}
            \/ call \in {"-firewalls", "-subnet", "-vpc"}
               /\ \E ss : /\ gce' = gce \ ss
                          /\ \A c \in GceBots : <<"mig", c>> \notin ss
        BY <1>3, <2>3
      <3>2. call # "-mig"
        OBVIOUS
      <3>3. QED
        BY <1>1, <1>2, <2>1, <2>2, <2>3, <3>1, <3>2, GceTakes
    <2>4. CASE ~ok /\ Fails(o) /\ gceLeft' = gceLeft /\ gce' = gce
      BY <2>1, <2>4, GceRefused
    <2>5. QED
      BY <2>1, <2>3, <2>4
  <1>4. CASE DeleteMig(o)
    <2>1. /\ AtCall(o, "-mig") /\ zone' = zone /\ gceCalm' = gceCalm /\ torn' = torn /\ Waits(o)
          /\ templates' = templates /\ migTmpl' = migTmpl
          /\ gce' = gce \ {<<"mig", b>>} /\ migSize' = [migSize EXCEPT ![b] = 0]
      BY <1>2, <1>4 DEF DeleteMig, Calls
    <2>2. b \in GceBots
      BY <1>1, <1>2, <2>1, GceCaller, GceOwner
    <2>3. migSize' \in [GceBots -> {0, 1}] /\ <<"mig", b>> \notin gce'
      BY <1>1, <2>1, <2>2
    <2>4. \E k \in {"mig", "hc", "http", "ssh"} : gce' = gce \ {<<k, b>>}
      BY <2>1
    <2>5. QED
      BY <1>2, <2>1, <2>2, <2>3, <2>4, GceTakes
  <1>5. CASE DeleteHealthCheck(o)
    <2>1. PICK ok \in BOOLEAN : ok = (~HasMig(b))
      OBVIOUS
    <2>2. Removed(o, "-hc", {<<"hc", b>>}, ok)
      BY <1>2, <1>5, <2>1, Zenon DEF DeleteHealthCheck
    <2>3. QED
      BY <1>3, <2>2
  <1>6. CASE \E k \in {"http", "ssh"} : DeleteFirewall(o, k)
    <2>1. PICK k \in {"http", "ssh"} : DeleteFirewall(o, k)
      BY <1>6
    <2>2. PICK call \in {"-http", "-ssh"} : Removed(o, call, {<<k, b>>}, TRUE)
      BY <1>2, <2>1 DEF DeleteFirewall
    <2>3. QED
      BY <1>3, <2>2
  <1>7. CASE DeleteAllFirewalls(o)
    <2>1. Removed(o, "-firewalls", Firewalls, TRUE)
      BY <1>7 DEF DeleteAllFirewalls
    <2>2. \A c \in GceBots : <<"mig", c>> \notin Firewalls
      BY DEF Firewalls
    <2>3. QED
      BY <1>3, <2>1, <2>2
  <1>8. CASE DeleteSubnet(o)
    <2>1. PICK ok \in BOOLEAN : ok = (\A c \in GceBots : ~(HasMig(c) /\ migSize[c] = 1))
      OBVIOUS
    <2>2. Removed(o, "-subnet", {Net("subnet")}, ok)
      BY <1>8, <2>1, Zenon DEF DeleteSubnet
    <2>3. \A c \in GceBots : <<"mig", c>> \notin {Net("subnet")}
      BY DEF Net
    <2>4. QED
      BY <1>3, <2>2, <2>3
  <1>9. CASE DeleteNetwork(o)
    <2>1. PICK ok \in BOOLEAN : ok = (Net("subnet") \notin gce /\ Firewalls = {})
      OBVIOUS
    <2>2. Removed(o, "-vpc", {Net("vpc")}, ok)
      BY <1>9, <2>1, Zenon DEF DeleteNetwork
    <2>3. \A c \in GceBots : <<"mig", c>> \notin {Net("vpc")}
      BY DEF Net
    <2>4. QED
      BY <1>3, <2>2, <2>3
  <1>10. QED
    BY <1>4, <1>5, <1>6, <1>7, <1>8, <1>9

\* A destroy that finds no group in its zone goes on to what is shared.
LEMMA GceLists == ASSUME GceInv, NEW o \in GceTasks, DeleteIfNoMigs(o) PROVE GceOK(o)
  <1>1. PICK b : b = GceBot(o)
    OBVIOUS
  <1>2. /\ AtCall(o, "orphan?") /\ zone' = zone /\ gceCalm' = gceCalm /\ torn' = torn /\ gce' = gce
        /\ templates' = templates /\ migTmpl' = migTmpl /\ migSize' = migSize /\ gceLeft' = gceLeft
        /\ \/ Ends(o)
           \/ PassOver(o, 1) /\ \A c \in GceBots : ~(HasMig(c) /\ zone[c] = zone[b])
    BY <1>1 DEF DeleteIfNoMigs, gceGroup
  <1>3. /\ GceShape /\ gceDo \in [GceTasks -> GceWork]
        /\ templates' \in [GceBots -> SUBSET Nat] /\ migTmpl' \in [GceBots -> Nat]
        /\ migSize' \in [GceBots -> {0, 1}] /\ gceLeft' \in [op : 0..GceOps, fault : Nat]
    BY <1>2 DEF GceInv, GceShape
  <1>4. gceDo[o] # GIdle /\ gceDo[o].op = "destroy" /\ GLeft(o) = 4 /\ b \in GceBots
    BY <1>1, <1>2, <1>3, GceCaller, GceOwner
  <1>5. /\ GceMoves(o)
        /\ \/ gceDo'[o] = GIdle
           \/ SameOrder(o) /\ \A c \in GceBots : ~(HasMig(c) /\ zone[c] = zone[b])
    <2>1. CASE Ends(o)
      <3>1. GIdle \in GceWork
        BY EmptySeq DEF GIdle, GceWork
      <3>2. QED
        BY <1>3, <2>1, <3>1 DEF Ends, GceMoves, GceStands
    <2>2. CASE PassOver(o, 1) /\ \A c \in GceBots : ~(HasMig(c) /\ zone[c] = zone[b])
      BY <1>2, <1>3, <1>4, <2>2, GcePasses DEF GceMoves
    <2>3. QED
      BY <1>2, <2>1, <2>2
  <1>6. (gceCalm => ~HasMig(b)') /\ \A c \in GceBots : HasMig(c)' <=> HasMig(c)
    BY <1>1, <1>2, <1>4 DEF GceInv, TearsAlone, HasMig
  <1>7. NetMade(o)' /\ EndsBack(o)
    <2>1. gceDo'[o].op # "install"
      BY <1>4, <1>5 DEF SameOrder, GIdle
    <2>2. QED
      BY <1>4, <2>1 DEF NetMade, EndsBack
  <1>8. HasTmpl(b)'
    BY <1>2, <1>4, <1>6 DEF GceInv, HasTmpl
  <1>9. OneZone /\ gceDo'[o].op = "destroy" => \A c \in GceBots : ~HasMig(c)
    BY <1>4, <1>5 DEF OneZone, GIdle
  <1>10. gce \subseteq gce' /\ (gceDo'[o] = GIdle \/ SameOrder(o))
    BY <1>2, <1>5
  <1>11. QED
    BY <1>1, <1>2, <1>3, <1>4, <1>5, <1>6, <1>7, <1>8, <1>9, <1>10, GceKept

LEMMA GceFaulty == ASSUME GceInv, NEW o \in GceTasks, GceCallFails(o) PROVE GceOK(o)
  <1>1. /\ gceDo[o] # GIdle /\ Fails(o) /\ zone' = zone /\ gceCalm' = gceCalm /\ torn' = torn
        /\ gce' = gce /\ templates' = templates /\ migTmpl' = migTmpl /\ migSize' = migSize
        /\ gceLeft.fault > 0 /\ gceLeft' = [gceLeft EXCEPT !.fault = @ - 1]
    BY DEF GceCallFails, gceGroup
  <1>2. gceLeft' \in [op : 0..GceOps, fault : Nat] /\ gceLeft' # gceLeft
    BY <1>1 DEF GceInv, GceShape
  <1>3. QED
    BY <1>1, <1>2, GceFailing

\* An operation is asked for; a destroy that overlaps another one ends the calm, and
\* what could tear a resize of the bot tears it.
LEMMA GceAsks ==
  ASSUME GceInv, NEW o \in GceTasks, NEW b \in GceBots, NEW op \in DOMAIN GceCalls, Order(o, b, op)
  PROVE  GceOK(o)
  <1> DEFINE new == IF op = "resize" THEN 1 + GceOps - gceLeft.op ELSE 0
  <1>1. /\ gceDo[o] = GIdle /\ (op = "resize" => HasMig(b))
        /\ zone' = zone /\ gce' = gce /\ templates' = templates /\ migTmpl' = migTmpl /\ migSize' = migSize
        /\ gceDo' = [gceDo EXCEPT ![o] = [op |-> op, bot |-> b, calls |-> GceCalls[op], old |-> 0,
                                          new |-> new]]
        /\ gceLeft.op > 0 /\ gceLeft' = [gceLeft EXCEPT !.op = @ - 1]
        /\ gceCalm' = (gceCalm /\ \A p \in GceTasks :
                         gceDo[p].op # "destroy" /\ (op = "destroy" => gceDo[p] = GIdle))
    BY DEF Order, gceGroup
  <1>2. /\ GceShape /\ gceLeft' \in [op : 0..GceOps, fault : Nat] /\ gceDo \in [GceTasks -> GceWork]
        /\ new \in Nat
    <2>1. GceShape /\ gceLeft \in [op : 0..GceOps, fault : Nat] /\ GceOps \in Nat
      BY GceAssumption DEF GceInv, GceShape
    <2>2. QED
      BY <1>1, <2>1 DEF GceShape
  <1> HIDE DEF new
  <1>3. op \in GceOpNames /\ GceCalls[op] \in Seq(GceNames) /\ GceCalls[op] # <<>>
    BY GceOrder
  <1>4. PICK calls \in Seq(GceNames) : calls = GceCalls[op]
    BY <1>3
  <1>5. /\ gceDo' \in [GceTasks -> GceWork]
        /\ gceDo'[o].op = op /\ gceDo'[o].calls = calls /\ gceDo'[o].bot = b
        /\ \A p \in GceTasks \ {o} : gceDo'[p] = gceDo[p]
    BY <1>1, <1>2, <1>3, <1>4 DEF GceWork
  <1>6. GceCalls' = GceCalls
    BY DEF GceCalls, TearDown, Resize
  <1>7. GceShape'
    <2>1. IsRest(GceNames, calls, calls)
      BY <1>3, <1>4, RestAtFirst
    <2>2. GceStands(o)'
      BY <1>3, <1>4, <1>5, <1>6, <2>1 DEF GceStands
    <2>3. ASSUME NEW p \in GceTasks \ {o} PROVE GceStands(p)'
      BY <1>2, <1>5, <1>6 DEF GceShape, GceStands
    <2>4. /\ templates' \in [GceBots -> SUBSET Nat] /\ migTmpl' \in [GceBots -> Nat]
          /\ migSize' \in [GceBots -> {0, 1}]
      BY <1>1, <1>2 DEF GceShape
    <2>5. QED
      BY <1>2, <1>5, <2>2, <2>3, <2>4 DEF GceShape
  <1>8. /\ op = "destroy" => GLeft(o)' = 10
        /\ op = "install" => GLeft(o)' = 8
    <2>1. GLeft(o)' = Len(calls)
      BY <1>5 DEF GLeft
    <2>2. QED
      BY <1>4, <2>1, GceOrder, ZenonT(30)
  <1>9. gceCalm' => gceCalm /\ \A p \in GceTasks : gceDo[p].op # "destroy" /\ (op = "destroy" => gceDo[p] = GIdle)
    BY <1>1
  <1>10. \A c \in GceBots : HasMig(c)' <=> HasMig(c)
    BY <1>1 DEF HasMig
  <1>11. \A p \in GceTasks \ {o} : GLeft(p)' = GLeft(p) /\ GceBot(p)' = GceBot(p)
    BY <1>5 DEF GLeft, GceBot
  <1>12. NetMade(o)'
    BY <1>5, <1>8 DEF NetMade
  <1>13. ASSUME NEW p \in GceTasks \ {o} PROVE NetMade(p)'
    <2>1. NetMade(p) /\ gceDo'[p] = gceDo[p] /\ GLeft(p)' = GLeft(p) /\ GceBot(p)' = GceBot(p)
      BY <1>5, <1>11 DEF GceInv
    <2>2. QED
      BY <1>1, <1>9, <2>1 DEF NetMade, Net
  <1>14. ASSUME NEW p \in GceTasks PROVE TearsAlone(p)'
    <2>1. SUFFICES ASSUME gceCalm', gceDo'[p].op = "destroy"
                   PROVE  (\A q \in GceTasks \ {p} : gceDo'[q] = GIdle) /\ ~(GLeft(p)' < 10) /\ ~(GLeft(p)' < 4)
      BY Zenon DEF TearsAlone
    <2>2. p = o /\ op = "destroy"
      BY <1>5, <1>9, <2>1
    <2>3. QED
      BY <1>5, <1>8, <1>9, <2>1, <2>2
  <1>15. /\ op = "resize" /\ o \notin torn' => \A p \in GceTasks : ~(gceDo[p].op \in Tearing /\ GceBot(p) = b)
         /\ op \in Tearing => \A p \in GceTasks : gceDo[p].op = "resize" /\ GceBot(p) = b => p \in torn'
         /\ \A p \in GceTasks \ {o} : p \in torn => p \in torn'
    <2>1. DOMAIN gceDo = GceTasks
      BY <1>2
    <2>2. torn' = (torn \ {o}) \cup (IF op \in Tearing THEN Underway(gceDo, b, {"resize"}) ELSE {})
                              \cup (IF op = "resize" /\ Underway(gceDo, b, Tearing) # {} THEN {o} ELSE {})
      BY DEF Order
    <2>3. \A ops : \A p \in GceTasks : p \in Underway(gceDo, b, ops) <=> GceBot(p) = b /\ gceDo[p].op \in ops
      BY <2>1 DEF Underway, GceBot
    <2>4. \A p \in GceTasks : gceDo[p].op = "resize" => gceDo[p].op \in {"resize"}
      OBVIOUS
    <2>5. QED
      BY <2>2, <2>3, <2>4
  <1>16. ASSUME NEW p \in GceTasks, gceDo'[p].op = "resize", p \notin torn'
         PROVE  /\ HasMig(GceBot(p))'
                /\ \A q \in GceTasks \ {p} : GceBot(q)' = GceBot(p)' => gceDo'[q].op \notin Tearing
    <2>1. CASE p = o
      <3>1. op = "resize" /\ GceBot(p)' = b
        BY <1>5, <1>16, <2>1 DEF GceBot
      <3>2. HasMig(GceBot(p))'
        <4>1. <<"mig", b>> \in gce'
          BY <1>1, <3>1 DEF HasMig
        <4>2. QED
          BY <3>1, <4>1 DEF HasMig
      <3>3. QED
        BY <1>5, <1>11, <1>15, <1>16, <2>1, <3>1, <3>2
    <2>2. CASE p # o
      <3>1. gceDo[p].op = "resize" /\ p \notin torn /\ GceBot(p)' = GceBot(p)
        BY <1>5, <1>11, <1>15, <1>16, <2>2
      <3>2. PICK c : c = GceBot(p)
        OBVIOUS
      <3>3. HasMig(c) /\ \A q \in GceTasks \ {p} : GceBot(q) = c => gceDo[q].op \notin Tearing
        BY <3>1, <3>2 DEF GceInv, Resizing
      <3>4. HasMig(GceBot(p))'
        <4>1. <<"mig", c>> \in gce' /\ GceBot(p)' = c
          BY <1>1, <3>1, <3>2, <3>3 DEF HasMig
        <4>2. QED
          BY <4>1 DEF HasMig
      <3>5. op \in Tearing => b # c
        BY <1>15, <1>16, <3>1, <3>2
      <3>6. gceDo'[o].op = op /\ GceBot(o)' = b
        BY <1>5 DEF GceBot
      <3>7. QED
        BY <1>5, <1>11, <3>1, <3>2, <3>3, <3>4, <3>5, <3>6
    <2>3. QED
      BY <2>1, <2>2
  <1>17. \A p \in GceTasks : Resizing(p)'
    BY <1>16 DEF Resizing, Tearing
  <1>18. \A c \in GceBots : HasTmpl(c)'
    BY <1>1, <1>10 DEF GceInv, HasTmpl
  <1>19. GroupKeepsNetwork'
    BY <1>1, <1>9, <1>10 DEF GceInv, GroupKeepsNetwork, Net
  <1>20. EndsBack(o)
    BY <1>1 DEF EndsBack, GIdle
  <1>21. QED
    BY <1>5, <1>7, <1>12, <1>13, <1>14, <1>17, <1>18, <1>19, <1>20 DEF GceInv, GceOK

LEMMA GceStays == ASSUME GceInv, UNCHANGED gceVars PROVE GceInv'
  <1>1. /\ zone' = zone /\ gce' = gce /\ templates' = templates /\ migTmpl' = migTmpl /\ migSize' = migSize
        /\ gceDo' = gceDo /\ gceCalm' = gceCalm /\ torn' = torn /\ gceLeft' = gceLeft
    BY DEF gceVars
  <1>2. GceCalls' = GceCalls
    BY DEF GceCalls, TearDown, Resize
  <1>3. GceShape'
    BY <1>1, <1>2 DEF GceInv, GceShape, GceStands
  <1>4. /\ \A c \in GceBots : HasMig(c)' <=> HasMig(c)
        /\ \A o \in GceTasks : GLeft(o)' = GLeft(o) /\ GceBot(o)' = GceBot(o)
    BY <1>1 DEF HasMig, GLeft, GceBot
  <1>5. ASSUME NEW o \in GceTasks PROVE NetMade(o)' /\ TearsAlone(o)' /\ Resizing(o)'
    <2>1. NetMade(o)'
      BY <1>1, <1>4 DEF GceInv, NetMade, Net
    <2>2. TearsAlone(o)'
      BY <1>1, <1>4 DEF GceInv, TearsAlone, OneZone, HasMig, GceBot
    <2>3. Resizing(o)'
      BY <1>1, <1>4 DEF GceInv, Resizing, HasMig, GceBot, Tearing
    <2>4. QED
      BY <2>1, <2>2, <2>3
  <1>6. \A b \in GceBots : HasTmpl(b)'
    BY <1>1, <1>4 DEF GceInv, HasTmpl
  <1>7. GroupKeepsNetwork'
    BY <1>1, <1>4 DEF GceInv, GroupKeepsNetwork, Net
  <1>8. QED
    BY <1>3, <1>5, <1>6, <1>7 DEF GceInv

LEMMA GceStart == ASSUME GceInit PROVE GceInv
  <1>1. GceShape
    BY GceAssumption, EmptySeq DEF GceInit, GceShape, GceStands, GceWork, GIdle
  <1>2. /\ GroupKeepsNetwork /\ \A b \in GceBots : ~HasMig(b)
        /\ \A o \in GceTasks : gceDo[o].op = "none"
    BY DEF GceInit, GroupKeepsNetwork, HasMig, GIdle
  <1>3. /\ \A o \in GceTasks : NetMade(o) /\ TearsAlone(o) /\ Resizing(o)
        /\ \A b \in GceBots : HasTmpl(b)
    BY <1>2 DEF NetMade, TearsAlone, Resizing, HasTmpl
  <1>4. QED
    BY <1>1, <1>2, <1>3 DEF GceInv

LEMMA GceStep == ASSUME GceInv, GceNext PROVE GceInv' /\ \A o \in GceTasks : EndsBack(o)
  <1>1. PICK o \in GceTasks :
          \/ \E b \in GceBots, op \in DOMAIN GceCalls : Order(o, b, op)
          \/ EnsureVpcNetwork(o) \/ EnsureSubnet(o)
          \/ \E k \in {"http", "ssh"} : EnsureFirewall(o, k) \/ DeleteFirewall(o, k)
          \/ CreateInstanceTemplate(o) \/ CreateHealthCheck(o) \/ CreateMig(o)
          \/ ScaleMig(o, "size1", 1) \/ ScaleMig(o, "size0", 0) \/ ScaleMig(o, "recover", 1)
          \/ RecreateMigInstances(o) \/ GetMigInstanceTemplate(o) \/ SetMigInstanceTemplate(o)
          \/ DeleteInstanceTemplate(o, "-oldTmpl", gceDo[o].old) \/ DeleteInstanceTemplate(o, "-tmpl", 0)
          \/ DeleteMig(o) \/ DeleteHealthCheck(o)
          \/ StoreSecret(o, "secret", "empty") \/ StoreSecret(o, "put", "config")
          \/ StoreSecret(o, "-secret", "absent")
          \/ DeleteIfNoMigs(o) \/ DeleteAllFirewalls(o) \/ DeleteSubnet(o) \/ DeleteNetwork(o)
          \/ GceCallFails(o)
    BY DEF GceNext
  <1>2. GceOK(o)
    <2>1. CASE \E b \in GceBots, op \in DOMAIN GceCalls : Order(o, b, op)
      BY <2>1, GceAsks
    <2>2. CASE \/ EnsureVpcNetwork(o) \/ EnsureSubnet(o) \/ (\E k \in {"http", "ssh"} : EnsureFirewall(o, k))
               \/ CreateHealthCheck(o)
      BY <2>2, GceEnsures
    <2>3. CASE \/ CreateInstanceTemplate(o) \/ SetMigInstanceTemplate(o)
               \/ DeleteInstanceTemplate(o, "-oldTmpl", gceDo[o].old) \/ DeleteInstanceTemplate(o, "-tmpl", 0)
      BY <2>3, GceTemplates
    <2>4. CASE CreateMig(o)
      BY <2>4, GceCreates
    <2>5. CASE \/ ScaleMig(o, "size1", 1) \/ ScaleMig(o, "size0", 0) \/ ScaleMig(o, "recover", 1)
               \/ RecreateMigInstances(o)
               \/ StoreSecret(o, "secret", "empty") \/ StoreSecret(o, "put", "config")
               \/ StoreSecret(o, "-secret", "absent")
      BY <2>5, GceSizes
    <2>6. CASE GetMigInstanceTemplate(o)
      BY <2>6, GceReads
    <2>7. CASE \/ DeleteMig(o) \/ DeleteHealthCheck(o)
               \/ (\E k \in {"http", "ssh"} : DeleteFirewall(o, k))
               \/ DeleteAllFirewalls(o) \/ DeleteSubnet(o) \/ DeleteNetwork(o)
      BY <2>7, GceRemoves
    <2>8. CASE DeleteIfNoMigs(o)
      BY <2>8, GceLists
    <2>9. CASE GceCallFails(o)
      BY <2>9, GceFaulty
    <2>10. QED
      BY <1>1, <2>1, <2>2, <2>3, <2>4, <2>5, <2>6, <2>7, <2>8, <2>9
  <1>3. \A p \in GceTasks \ {o} : EndsBack(p)
    BY <1>2 DEF GceOK, EndsBack, GIdle
  <1>4. QED
    BY <1>2, <1>3 DEF GceOK

LEMMA GceAlways == GceSpec => []GceInv
  <1>1. GceInit => GceInv
    BY GceStart
  <1>2. GceInv /\ [GceNext]_gceVars => GceInv'
    BY GceStep, GceStays
  <1>3. QED
    BY <1>1, <1>2, PTL DEF GceSpec

\* For any bots of one zone, any operations and calls that fail or time out: as long as
\* no operation overlaps a destroy, a group has the network, the subnet and its two
\* firewall rules.
THEOREM NetworkOutlivesGceBots == GceSpec => []GroupKeepsNetwork
  <1>1. GceInv => GroupKeepsNetwork
    BY DEF GceInv
  <1>2. QED
    BY <1>1, GceAlways, PTL

\* A resize that ends, unless its attempt to recover is what failed, leaves the group
\* with one instance to run and a template that exists, whatever the other bots do and
\* in whatever zones they are, if no stop, destroy or resize of its own bot overlapped.
THEOREM GceResizeIsSafe == GceSpec => ResizeComesBack
  <1> DEFINE A == \A o \in GceTasks :
                    gceDo[o].op = "resize" /\ gceDo'[o] = GIdle /\ o \notin torn
                      /\ (gceLeft' = gceLeft \/ gceDo[o].calls # <<"recover">>)
                    => migSize'[GceBot(o)] = 1 /\ migTmpl'[GceBot(o)] \in templates'[GceBot(o)]
  <1>1. GceInv /\ [GceNext]_gceVars => [A]_gceVars
    BY GceStep DEF EndsBack
  <1>2. QED
    BY <1>1, GceAlways, PTL DEF GceSpec, ResizeComesBack

-----------------------------------------------------------------------------
(* A bot on the host of the API *)

Bare == main = [state |-> "running", way |-> "published"] /\ proxy = NoProxy /\ ~network
Proxied(mws) ==
  /\ main = [state |-> "running", way |-> "inside"] /\ network
  /\ proxy = [state |-> "running", mws |-> mws]
Standing(mws) == IF mws = {} THEN Bare ELSE Proxied(mws)
Nothing == main = NoBox /\ proxy = NoProxy /\ ~network

\* What answers is a whole deployment with these middlewares.
Honest(mws) == Reachable => Standing(mws)

\* A service has nothing to do with containers, and is up when its row says so.
LocalBot ==
  hostKind = "local" =>
    /\ Nothing
    /\ hostRun.at \notin {"proxy-", "main-", "net-", "again", "net+", "main+", "proxy+"}
    /\ \A k \in HostCalls : /\ hostCall[k].at \notin {"proxy-", "main-", "net-", "restartProxy"}
                            /\ hostCall[k].op = "upgrade" => hostCall[k].at = "restart"
    /\ hostRun.at \in {"note", "refetch", "save"} => unit = "active"
    /\ hostRow # NoRow /\ hostRow.status = "RUNNING" => unit = "active"

\* Without overlaps there is one reconcile or one call, and a row for it.
OneAtWork ==
  hostClean =>
    /\ RunIsAt("rest") \/ NoCall
    /\ \A j, k \in HostCalls : j = k \/ CallIsAt(j, "rest") \/ CallIsAt(k, "rest")
    /\ hostRow = NoRow => RunIsAt("rest") /\ NoCall

\* Between two pieces of work, when no bot was upgraded that was not RUNNING, the
\* containers are what the row says; a row that does not ask for a new deployment may
\* have a part of one, which does not answer.
RowIsTrue ==
  hostClean /\ ~upgradedDown /\ hostKind = "docker" /\ hostRun.at \in {"rest", "load", "mark"} /\ NoCall =>
    IF hostRow = NoRow THEN Nothing
    ELSE /\ hostRow.status = "STOPPED" => Nothing
         /\ hostRow.status = "RUNNING" => Standing(hostRow.mws)
         /\ ~IsNewInstance(hostRow) => Honest(hostRow.mws)

RunIsUnder == hostRun.at \notin {"rest", "load", "mark"}

\* A reconcile works with the middlewares of the row.
RunReadsRow ==
  hostClean /\ ~RunIsAt("rest") /\ ~RunIsAt("load") =>
    /\ hostRun.mws = hostRow.mws
    /\ RunIsAt("mark") => hostRun.new = IsNewInstance(hostRow)
    /\ RunIsUnder => /\ hostRow.status \in {"RECONCILING", "ERROR", "RUNNING"}
                     /\ hostRow.status = "RUNNING" => hostRun.at \in {"refetch", "save"}
    /\ RunIsAt("update") => ~hostRun.new

\* What a reconcile has taken down and put up.
RunIsTrue ==
  hostClean /\ ~upgradedDown /\ hostKind = "docker" /\ RunIsUnder =>
    /\ hostRun.at \in {"check", "update", "proxy-", "main-"} /\ ~hostRun.new => Honest(hostRun.mws)
    /\ hostRun.at \in {"main-", "net-"} => proxy = NoProxy
    /\ RunIsAt("net-") => main = NoBox
    /\ hostRun.at \in {"install", "configure", "start", "net+"} => Nothing
    /\ RunIsAt("net+") => hostRun.mws # {}
    /\ RunIsAt("main+") => main = NoBox /\ proxy = NoProxy /\ (hostRun.mws = {} => ~network)
    /\ RunIsAt("proxy+") => /\ hostRun.mws # {} /\ network /\ proxy = NoProxy
                            /\ main = [state |-> "running", way |-> "inside"]
    /\ hostRun.at \in {"connect", "note", "refetch", "save"} => Standing(hostRun.mws)
    /\ hostRun.at \in {"pfail", "fail"} => Honest(hostRun.mws)
    /\ ~RunIsAt("again")

\* What a call has taken down, or leaves standing.
CallIsTrue ==
  hostClean /\ ~upgradedDown /\ hostKind = "docker" => \A k \in HostCalls :
    /\ hostCall[k].at \in {"main-", "net-"} => proxy = NoProxy
    /\ CallIsAt(k, "net-") => main = NoBox
    /\ CallIsAt(k, "mark") => Nothing
    /\ CallIsAt(k, "end") /\ hostCall[k].op # "upgrade" => Nothing
    /\ hostCall[k].op = "upgrade" => hostRow.status = "RUNNING" /\ Standing(hostRow.mws)
    /\ hostCall[k].at \in {"restart", "restartProxy"} => hostCall[k].op = "upgrade"

\* Which calls a step may be of.
CallNames == \A k \in HostCalls :
  /\ CallIsAt(k, "rest") => hostCall[k].op = "none"
  /\ CallIsAt(k, "save") => hostCall[k].op = "assign"
  /\ hostCall[k].op = "upgrade" => hostCall[k].at \in {"restart", "restartProxy", "end"}

HostInv == /\ HostTypeOK /\ LocalBot /\ OneAtWork /\ RowIsTrue /\ RunReadsRow
           /\ RunIsTrue /\ CallIsTrue /\ CallNames

Boxes ==
  /\ main \in [state : {"absent", "created", "running"}, way : {"none", "published", "inside"}]
  /\ proxy \in [state : {"absent", "created", "running"}, mws : SUBSET HostMws]

\* A removal, which may fail and then counts as an overlap.
LEMMA RemoveTypes ==
  ASSUME HostTypeOK, NEW step \in RemoveSteps,
         \/ Remove(step) /\ UNCHANGED hostClean
         \/ hostClean' = FALSE /\ UNCHANGED containers
  PROVE  Boxes' /\ network' \in BOOLEAN /\ hostClean' \in BOOLEAN
  <1>1. CASE hostClean' = FALSE /\ UNCHANGED containers
    BY <1>1 DEF HostTypeOK, Boxes, containers
  <1>2. CASE step = "proxy-" /\ Remove(step) /\ UNCHANGED hostClean
    BY <1>2 DEF HostTypeOK, Boxes, Remove, RemoveProxy, NoProxy
  <1>3. CASE step = "main-" /\ Remove(step) /\ UNCHANGED hostClean
    BY <1>3 DEF HostTypeOK, Boxes, Remove, RemoveMain, NoBox
  <1>4. CASE step = "net-" /\ Remove(step) /\ UNCHANGED hostClean
    <2>1. network' \in BOOLEAN
      BY <1>4 DEF HostTypeOK, Remove, RemoveNetwork
    <2>2. QED
      BY <1>4, <2>1 DEF HostTypeOK, Boxes, Remove, RemoveNetwork
  <1>5. QED
    BY <1>1, <1>2, <1>3, <1>4 DEF RemoveSteps

LEMMA HostTypeStep == ASSUME HostTypeOK, [HostNext]_hostVars PROVE HostTypeOK'
  <1> USE HostAssumption DEF HostTypeOK
  <1>1. CASE Reconcile
    BY <1>1 DEF Reconcile, RunIsAt, RunTo, Budgeted, containers
  <1>2. CASE LoadInstance
    <2>1. CASE hostRow = NoRow
      BY <1>2, <2>1 DEF LoadInstance, RunTo, containers
    <2>2. CASE hostRow # NoRow
      <3>1. hostRow.mws \in SUBSET HostMws /\ IsNewInstance(hostRow) \in BOOLEAN
        BY <2>2 DEF HostRows, IsNewInstance
      <3>2. hostRun' = [at |-> "mark", new |-> IsNewInstance(hostRow), mws |-> hostRow.mws]
        BY <1>2, <2>2 DEF LoadInstance
      <3>3. QED
        BY <1>2, <3>1, <3>2 DEF LoadInstance, containers
    <2>3. QED
      BY <2>1, <2>2
  <1>3. CASE MarkReconciling
    BY <1>3 DEF MarkReconciling, RunIsAt, RunTo, containers, Writes, Marked, HostRows
  <1>4. CASE Check
    <2>1. hostClean' \in BOOLEAN
      BY <1>4 DEF Check
    <2>2. hostRun' \in [at : {"install", "proxy-", "update", "fail"}, new : BOOLEAN, mws : SUBSET HostMws]
      BY <1>4 DEF Check, RunTo, FirstOf
    <2>3. QED
      BY <1>4, <2>1, <2>2 DEF Check, containers, Fault
  <1>5. CASE Update
    BY <1>5 DEF Update, RunIsAt, RunTo, containers, FirstOf, Fault
  <1>6. CASE DestroyFirst
    <2>1. Boxes' /\ network' \in BOOLEAN /\ hostClean' \in BOOLEAN
      BY <1>6, RemoveTypes DEF DestroyFirst, containers
    <2>2. hostRun' \in [at : {"main-", "net-", "install"}, new : BOOLEAN, mws : SUBSET HostMws]
      BY <1>6 DEF DestroyFirst, RunTo, AfterRemove, RemoveSteps
    <2>3. QED
      BY <1>6, <2>1, <2>2 DEF DestroyFirst, Fault, Boxes
  <1>7. CASE InstallBot
    BY <1>7 DEF InstallBot, RunIsAt, RunTo, containers, Fault
  <1>8. CASE ConfigureBot
    BY <1>8 DEF ConfigureBot, RunIsAt, RunTo, containers, Fault
  <1>9. CASE StartLocal
    BY <1>9 DEF StartLocal, RunIsAt, RunTo, containers, Fault
  <1>10. CASE StartDocker
    BY <1>10 DEF StartDocker, Fault, RunIsAt, RunTo, MainCanStart, Create
  <1>11. CASE StartProxyAgain
    BY <1>11 DEF StartProxyAgain, RunIsAt, RunTo
  <1>12. CASE CreateNetwork
    <2>1. network' \in BOOLEAN
      BY <1>12 DEF CreateNetwork
    <2>2. QED
      BY <1>12, <2>1 DEF CreateNetwork, RunTo, Fault
  <1>13. CASE RunMain
    BY <1>13 DEF RunMain, RunIsAt, RunTo, Fault
  <1>14. CASE RunProxy
    BY <1>14 DEF RunProxy, RunIsAt, RunTo, Fault
  <1>15. CASE ConnectGateway
    BY <1>15 DEF ConnectGateway, RunIsAt, RunTo, containers, Fault
  <1>16. CASE NoteProvisioned
    <2>1. hostRow' \in HostRows \cup {NoRow}
      BY <1>16 DEF NoteProvisioned, Writes, Recorded, HostRows
    <2>2. QED
      BY <1>16, <2>1 DEF NoteProvisioned, RunTo, containers
  <1>17. CASE ProvisionFails
    BY <1>17 DEF ProvisionFails, RunIsAt, RunTo, containers, Writes, Marked, HostRows
  <1>18. CASE Refetch
    BY <1>18 DEF Refetch, RunIsAt, RunTo, containers
  <1>19. CASE Save
    <2>1. hostRow' \in HostRows \cup {NoRow}
      BY <1>19 DEF Save, Writes, Recorded, HostRows
    <2>2. CASE hostRun' = RunRest
      BY <1>19, <2>1, <2>2 DEF Save, RunRest, containers
    <2>3. CASE hostRun' = [hostRun EXCEPT !.at = "fail"]
      BY <1>19, <2>1, <2>3 DEF Save, containers
    <2>4. QED
      BY <1>19, <2>2, <2>3 DEF Save, RunTo
  <1>20. CASE ReconcileFails
    <2>1. hostRow' \in HostRows \cup {NoRow}
      BY <1>20 DEF ReconcileFails, Writes, Recorded, HostRows
    <2>2. QED
      BY <1>20, <2>1 DEF ReconcileFails, RunRest, containers
  <1>21. CASE HostCrash
    BY <1>21 DEF HostCrash, RunRest, CallRest, Fault, containers
  <1>22. ASSUME NEW k \in HostCalls, StopBot(k) \/ DeleteBot(k) \/ UpdateOpenClawVersion(k) PROVE HostTypeOK'
    <2>1. PICK op \in {"stop", "delete", "upgrade"}, first \in {"proxy-", "mark", "restart"} : AskHost(k, op, first)
      BY <1>22 DEF StopBot, DeleteBot, UpdateOpenClawVersion, FirstOf
    <2>2. hostClean' \in BOOLEAN /\ upgradedDown' \in BOOLEAN
      BY <2>1 DEF AskHost
    <2>3. hostCall' = [hostCall EXCEPT ![k] = [op |-> op, at |-> first, mws |-> {}]]
      BY <2>1 DEF AskHost
    <2>4. QED
      BY <2>1, <2>2, <2>3 DEF AskHost, Budgeted, containers
  <1>23. ASSUME NEW k \in HostCalls, ChangeMiddlewares(k) PROVE HostTypeOK'
    BY <1>23 DEF ChangeMiddlewares, Budgeted, containers, HostRows
  <1>24. ASSUME NEW k \in HostCalls, TakeDown(k) PROVE HostTypeOK'
    <2>1. Boxes' /\ network' \in BOOLEAN /\ hostClean' \in BOOLEAN
      BY <1>24, RemoveTypes DEF TakeDown, containers
    <2>2. hostCall' = [hostCall EXCEPT ![k].at = AfterRemove(hostCall[k].at, "mark")]
      BY <1>24 DEF TakeDown, CallTo
    <2>3. AfterRemove(hostCall[k].at, "mark") \in {"main-", "net-", "mark"}
      BY <1>24 DEF TakeDown, AfterRemove, RemoveSteps
    <2>4. QED
      BY <1>24, <2>1, <2>2, <2>3 DEF TakeDown, Fault, Boxes
  <1>25. ASSUME NEW k \in HostCalls, MarkDeleting(k) PROVE HostTypeOK'
    BY <1>25, SMTT(30) DEF MarkDeleting, CallTo, CallEnds, CallRest, containers, Writes, Marked, HostRows
  <1>26. ASSUME NEW k \in HostCalls, RestartMain(k) PROVE HostTypeOK'
    BY <1>26 DEF RestartMain, CallTo, CallEnds, CallRest, Fault
  <1>27. ASSUME NEW k \in HostCalls, RestartProxy(k) PROVE HostTypeOK'
    BY <1>27 DEF RestartProxy, CallTo
  <1>28. ASSUME NEW k \in HostCalls, Finish(k) PROVE HostTypeOK'
    <2>1. hostRow' \in HostRows \cup {NoRow}
      BY <1>28, ZenonT(30) DEF Finish, Writes, Marked, Recorded, HostRows
    <2>2. QED
      BY <1>28, <2>1 DEF Finish, CallEnds, CallRest, containers
  <1>29. ASSUME NEW k \in HostCalls, SaveMiddlewareConfig(k) PROVE HostTypeOK'
    <2>1. hostRow' \in HostRows \cup {NoRow}
      <3>1. PICK mws \in SUBSET HostMws : mws = hostCall[k].mws
        OBVIOUS
      <3>2. CASE hostRow # NoRow /\ hostRow' = [hostRow EXCEPT !.mws = mws, !.status = "CREATING"]
        BY <3>2 DEF HostRows
      <3>3. QED
        BY <1>29, <3>1, <3>2 DEF SaveMiddlewareConfig, Writes, SavedRow
    <2>2. hostRun' = hostRun \/ hostRun' = [hostRun EXCEPT !.at = "load"]
      BY <1>29 DEF SaveMiddlewareConfig, RunTo
    <2>3. hostCall' = [hostCall EXCEPT ![k] = CallRest]
      BY <1>29 DEF SaveMiddlewareConfig, CallEnds
    <2>4. QED
      BY <1>29, <2>1, <2>2, <2>3 DEF SaveMiddlewareConfig, CallRest, containers
  <1>30. CASE UNCHANGED hostVars
    BY <1>30 DEF hostVars
  <1>31. QED
    BY <1>1, <1>2, <1>3, <1>4, <1>5, <1>6, <1>7, <1>8, <1>9, <1>10, <1>11, <1>12, <1>13, <1>14, <1>15,
       <1>16, <1>17, <1>18, <1>19, <1>20, <1>21, <1>22, <1>23, <1>24, <1>25, <1>26, <1>27, <1>28, <1>29,
       <1>30 DEF HostNext
\* What an update does to a row.
Keeps(status) ==
  /\ hostRow # NoRow /\ hostRow' # NoRow
  /\ hostRow'.status = status /\ hostRow'.mws = hostRow.mws /\ hostRow'.known = hostRow.known
Notes(status) ==
  /\ hostRow # NoRow /\ hostRow' # NoRow
  /\ hostRow'.status = status /\ hostRow'.mws = hostRow.mws /\ hostRow'.known = TRUE

RowStatuses == {"CREATING", "RECONCILING", "RUNNING", "STOPPED", "ERROR", "DELETING"}

LEMMA MarkedRow ==
  ASSUME HostTypeOK, NEW s \in RowStatuses, Writes(Marked(s))
  PROVE  Keeps(s)
  <1>1. hostRow \in HostRows /\ hostRow' = [hostRow EXCEPT !.status = s]
    BY DEF HostTypeOK, Writes, Marked
  <1>2. hostRow' \in HostRows
    BY <1>1 DEF HostRows, RowStatuses
  <1>3. QED
    BY <1>1, <1>2, HostAssumption DEF Keeps, HostRows, Writes

LEMMA RecordedRow ==
  ASSUME HostTypeOK, NEW s \in RowStatuses, Writes(Recorded(s))
  PROVE  Notes(s)
  <1>1. hostRow \in HostRows /\ hostRow' = [hostRow EXCEPT !.status = s, !.known = TRUE]
    BY DEF HostTypeOK, Writes, Recorded
  <1>2. hostRow' \in HostRows
    BY <1>1 DEF HostRows, RowStatuses
  <1>3. QED
    BY <1>1, <1>2, HostAssumption DEF Notes, HostRows, Writes

LEMMA SavedRowIsNew ==
  ASSUME HostTypeOK, NEW k \in HostCalls, Writes(SavedRow(k))
  PROVE  hostRow # NoRow /\ hostRow' # NoRow /\ hostRow'.status = "CREATING"
  <1>1. PICK mws \in SUBSET HostMws : mws = hostCall[k].mws
    BY DEF HostTypeOK
  <1>2. hostRow \in HostRows /\ hostRow' = [hostRow EXCEPT !.mws = mws, !.status = "CREATING"]
    BY <1>1 DEF HostTypeOK, Writes, SavedRow
  <1>3. hostRow' \in HostRows
    BY <1>2 DEF HostRows
  <1>4. QED
    BY <1>2, <1>3, HostAssumption DEF HostRows, Writes

\* A network that nobody is on is removed.
LEMMA NetworkGoes ==
  ASSUME main = NoBox, proxy = NoProxy, RemoveNetwork
  PROVE  ~network' /\ UNCHANGED <<main, proxy>>
  <1>1. ~(proxy.state = "running" \/ (main.state = "running" /\ main.way = "inside"))
    BY DEF NoBox, NoProxy
  <1>2. ~network'
    BY <1>1, Zenon DEF RemoveNetwork
  <1>3. QED
    BY <1>2 DEF RemoveNetwork


LEMMA CallNamesStep == ASSUME HostTypeOK, CallNames, [HostNext]_hostVars PROVE CallNames'
  <1>1. CASE Reconcile
    BY <1>1 DEF Reconcile, RunTo, CallNames, CallIsAt
  <1>2. CASE LoadInstance
    BY <1>2 DEF LoadInstance, RunTo, CallNames, CallIsAt
  <1>3. CASE MarkReconciling
    <2>1. \/ Keeps("RECONCILING") /\ RunTo("check")
          \/ hostRow = NoRow /\ UNCHANGED hostRow /\ RunTo("fail")
      BY <1>3, MarkedRow DEF MarkReconciling, RowStatuses
    <2>2. QED
      BY <1>3, <2>1 DEF MarkReconciling, RunTo, CallNames, CallIsAt, Keeps
  <1>4. CASE Check
    BY <1>4 DEF Check, RunTo, FirstOf, CallNames, CallIsAt
  <1>5. CASE Update
    BY <1>5 DEF Update, RunTo, FirstOf, CallNames, CallIsAt
  <1>6. CASE DestroyFirst
    BY <1>6 DEF DestroyFirst, RunTo, RemoveSteps, AfterRemove, CallNames, CallIsAt
  <1>7. CASE InstallBot
    BY <1>7 DEF InstallBot, RunTo, CallNames, CallIsAt
  <1>8. CASE ConfigureBot
    BY <1>8 DEF ConfigureBot, RunTo, CallNames, CallIsAt
  <1>9. CASE StartLocal
    BY <1>9 DEF StartLocal, RunTo, CallNames, CallIsAt
  <1>10. CASE StartDocker
    BY <1>10 DEF StartDocker, Fault, RunTo, Create, MainCanStart, CallNames, CallIsAt
  <1>11. CASE StartProxyAgain
    BY <1>11 DEF StartProxyAgain, RunTo, ProxyCanStart, CallNames, CallIsAt
  <1>12. CASE CreateNetwork
    BY <1>12 DEF CreateNetwork, RunTo, CallNames, CallIsAt
  <1>13. CASE RunMain
    BY <1>13 DEF RunMain, RunTo, PortTaken, CallNames, CallIsAt
  <1>14. CASE RunProxy
    BY <1>14 DEF RunProxy, RunTo, PortTaken, CallNames, CallIsAt
  <1>15. CASE ConnectGateway
    BY <1>15 DEF ConnectGateway, RunTo, CallNames, CallIsAt
  <1>16. CASE NoteProvisioned
    <2>1. \/ Notes("RUNNING") /\ RunTo("refetch")
          \/ hostRow = NoRow /\ UNCHANGED hostRow /\ RunTo("pfail")
      BY <1>16, RecordedRow DEF NoteProvisioned, RowStatuses
    <2>2. QED
      BY <1>16, <2>1 DEF NoteProvisioned, RunTo, CallNames, CallIsAt, Notes
  <1>17. CASE ProvisionFails
    <2>1. Keeps("ERROR") \/ (hostRow = NoRow /\ UNCHANGED hostRow)
      BY <1>17, MarkedRow DEF ProvisionFails, RowStatuses
    <2>2. QED
      BY <1>17, <2>1 DEF ProvisionFails, RunTo, CallNames, CallIsAt, Keeps
  <1>18. CASE Refetch
    BY <1>18 DEF Refetch, RunTo, CallNames, CallIsAt
  <1>19. CASE Save
    <2>1. \/ Notes("RUNNING") /\ hostRun' = RunRest
          \/ hostRow = NoRow /\ UNCHANGED hostRow /\ RunTo("fail")
      BY <1>19, RecordedRow DEF Save, RowStatuses
    <2>2. QED
      BY <1>19, <2>1 DEF Save, RunTo, CallNames, CallIsAt, Notes
  <1>20. CASE ReconcileFails
    <2>1. Notes("ERROR") \/ (hostRow = NoRow /\ UNCHANGED hostRow)
      BY <1>20, RecordedRow DEF ReconcileFails, RowStatuses
    <2>2. QED
      BY <1>20, <2>1 DEF ReconcileFails, RunTo, CallNames, CallIsAt, Notes
  <1>21. CASE HostCrash
    BY <1>21 DEF HostCrash, RunRest, CallRest, CallIsAt, CallNames
  <1>22. ASSUME NEW k \in HostCalls, StopBot(k) \/ DeleteBot(k) \/ UpdateOpenClawVersion(k) PROVE CallNames'
    BY <1>22 DEF CallIsAt, FirstOf, AskHost, StopBot, DeleteBot, UpdateOpenClawVersion, CallNames, HostTypeOK
  <1>23. ASSUME NEW k \in HostCalls, ChangeMiddlewares(k) PROVE CallNames'
    BY <1>23 DEF ChangeMiddlewares, CallIsAt, CallNames, HostTypeOK
  <1>24. ASSUME NEW k \in HostCalls, TakeDown(k) PROVE CallNames'
    BY <1>24 DEF TakeDown, CallTo, RemoveSteps, AfterRemove, CallNames, CallIsAt, HostTypeOK
  <1>25. ASSUME NEW k \in HostCalls, MarkDeleting(k) PROVE CallNames'
    <2>1. \/ Keeps("DELETING") /\ CallTo(k, "end")
          \/ hostRow = NoRow /\ UNCHANGED hostRow /\ CallEnds(k)
      BY <1>25, MarkedRow DEF MarkDeleting, RowStatuses
    <2>2. QED
      BY <1>25, <2>1 DEF MarkDeleting, CallIsAt, CallTo, CallEnds, CallRest, CallNames, HostTypeOK, Keeps
  <1>26. ASSUME NEW k \in HostCalls, RestartMain(k) PROVE CallNames'
    BY <1>26 DEF RestartMain, CallIsAt, CallTo, CallEnds, CallRest, MainCanStart, CallNames, HostTypeOK
  <1>27. ASSUME NEW k \in HostCalls, RestartProxy(k) PROVE CallNames'
    BY <1>27 DEF RestartProxy, CallIsAt, CallTo, ProxyCanStart, CallNames, HostTypeOK
  <1>28. ASSUME NEW k \in HostCalls, Finish(k) PROVE CallNames'
    <2>1. \/ hostRow = NoRow /\ UNCHANGED hostRow
          \/ hostCall[k].op = "stop" /\ Keeps("STOPPED")
          \/ hostCall[k].op = "delete" /\ hostRow' = NoRow
          \/ hostCall[k].op = "upgrade" /\ Notes("RUNNING")
      BY <1>28, MarkedRow, RecordedRow DEF Finish, RowStatuses
    <2>2. QED
      BY <1>28, <2>1 DEF Finish, CallIsAt, CallEnds, CallRest, CallNames, Keeps, Notes
  <1>29. ASSUME NEW k \in HostCalls, SaveMiddlewareConfig(k) PROVE CallNames'
    <2>1. \/ /\ hostRow # NoRow /\ hostRow' # NoRow /\ hostRow'.status = "CREATING"
             /\ hostRun' = IF hostRun.at = "rest" THEN [hostRun EXCEPT !.at = "load"] ELSE hostRun
          \/ hostRow = NoRow /\ UNCHANGED <<hostRow, hostRun>>
      BY <1>29, SavedRowIsNew DEF SaveMiddlewareConfig, RunIsAt, RunTo
    <2>2. QED
      BY <1>29, <2>1 DEF SaveMiddlewareConfig, CallIsAt, CallEnds, CallRest, RunTo, CallNames
  <1>30. CASE UNCHANGED hostVars
    BY <1>30 DEF hostVars, CallNames, CallIsAt
  <1>31. QED
    BY <1>1, <1>2, <1>3, <1>4, <1>5, <1>6, <1>7, <1>8, <1>9, <1>10, <1>11, <1>12, <1>13, <1>14, <1>15, <1>16,
       <1>17, <1>18, <1>19, <1>20, <1>21, <1>22, <1>23, <1>24, <1>25, <1>26, <1>27, <1>28, <1>29, <1>30
       DEF HostNext

LEMMA OneAtWorkStep == ASSUME HostTypeOK, OneAtWork, [HostNext]_hostVars PROVE OneAtWork'
  <1> USE HostAssumption
  <1>1. CASE Reconcile
    BY <1>1 DEF Reconcile, RunTo, NoCall, OneAtWork, CallIsAt
  <1>2. CASE LoadInstance
    BY <1>2 DEF LoadInstance, RunIsAt, RunTo, OneAtWork, NoCall, CallIsAt
  <1>3. CASE MarkReconciling
    <2>1. \/ Keeps("RECONCILING") /\ RunTo("check")
          \/ hostRow = NoRow /\ UNCHANGED hostRow /\ RunTo("fail")
      BY <1>3, MarkedRow DEF MarkReconciling, RowStatuses
    <2>2. QED
      BY <1>3, <2>1 DEF MarkReconciling, RunIsAt, RunTo, OneAtWork, NoCall, CallIsAt, Keeps
  <1>4. CASE Check
    BY <1>4 DEF Check, RunIsAt, RunTo, FirstOf, OneAtWork, NoCall, CallIsAt
  <1>5. CASE Update
    BY <1>5 DEF Update, RunIsAt, RunTo, FirstOf, OneAtWork, NoCall, CallIsAt
  <1>6. CASE DestroyFirst
    BY <1>6 DEF DestroyFirst, RunIsAt, RunTo, RemoveSteps, AfterRemove, OneAtWork, NoCall, CallIsAt
  <1>7. CASE InstallBot
    BY <1>7 DEF InstallBot, RunIsAt, RunTo, OneAtWork, NoCall, CallIsAt
  <1>8. CASE ConfigureBot
    BY <1>8 DEF ConfigureBot, RunIsAt, RunTo, OneAtWork, NoCall, CallIsAt
  <1>9. CASE StartLocal
    BY <1>9 DEF StartLocal, RunIsAt, RunTo, OneAtWork, NoCall, CallIsAt
  <1>10. CASE StartDocker
    BY <1>10 DEF StartDocker, Fault, RunIsAt, RunTo, Create, MainCanStart, OneAtWork, NoCall, CallIsAt
  <1>11. CASE StartProxyAgain
    BY <1>11 DEF StartProxyAgain, RunIsAt, RunTo, ProxyCanStart, OneAtWork, NoCall, CallIsAt
  <1>12. CASE CreateNetwork
    BY <1>12 DEF CreateNetwork, RunIsAt, RunTo, OneAtWork, NoCall, CallIsAt
  <1>13. CASE RunMain
    BY <1>13 DEF RunMain, RunIsAt, RunTo, PortTaken, OneAtWork, NoCall, CallIsAt
  <1>14. CASE RunProxy
    BY <1>14 DEF RunProxy, RunIsAt, RunTo, PortTaken, OneAtWork, NoCall, CallIsAt
  <1>15. CASE ConnectGateway
    BY <1>15 DEF ConnectGateway, RunIsAt, RunTo, OneAtWork, NoCall, CallIsAt
  <1>16. CASE NoteProvisioned
    <2>1. \/ Notes("RUNNING") /\ RunTo("refetch")
          \/ hostRow = NoRow /\ UNCHANGED hostRow /\ RunTo("pfail")
      BY <1>16, RecordedRow DEF NoteProvisioned, RowStatuses
    <2>2. QED
      BY <1>16, <2>1 DEF NoteProvisioned, RunIsAt, RunTo, OneAtWork, NoCall, CallIsAt, Notes
  <1>17. CASE ProvisionFails
    <2>1. Keeps("ERROR") \/ (hostRow = NoRow /\ UNCHANGED hostRow)
      BY <1>17, MarkedRow DEF ProvisionFails, RowStatuses
    <2>2. QED
      BY <1>17, <2>1 DEF ProvisionFails, RunIsAt, RunTo, OneAtWork, NoCall, CallIsAt, Keeps
  <1>18. CASE Refetch
    BY <1>18 DEF Refetch, RunIsAt, RunTo, OneAtWork, NoCall, CallIsAt
  <1>19. CASE Save
    <2>1. \/ Notes("RUNNING") /\ hostRun' = RunRest
          \/ hostRow = NoRow /\ UNCHANGED hostRow /\ RunTo("fail")
      BY <1>19, RecordedRow DEF Save, RowStatuses
    <2>2. QED
      BY <1>19, <2>1 DEF Save, RunIsAt, RunTo, OneAtWork, NoCall, CallIsAt, Notes
  <1>20. CASE ReconcileFails
    <2>1. Notes("ERROR") \/ (hostRow = NoRow /\ UNCHANGED hostRow)
      BY <1>20, RecordedRow DEF ReconcileFails, RowStatuses
    <2>2. QED
      BY <1>20, <2>1 DEF ReconcileFails, RunIsAt, RunTo, OneAtWork, NoCall, CallIsAt, Notes
  <1>21. CASE HostCrash
    BY <1>21 DEF HostCrash, RunIsAt, RunRest, CallRest, NoCall, CallIsAt, OneAtWork
  <1>22. ASSUME NEW k \in HostCalls, StopBot(k) \/ DeleteBot(k) \/ UpdateOpenClawVersion(k) PROVE OneAtWork'
    <2>1. PICK op \in {"stop", "delete", "upgrade"}, first \in {"proxy-", "mark", "restart"} : AskHost(k, op, first)
      BY <1>22 DEF StopBot, DeleteBot, UpdateOpenClawVersion, FirstOf
    <2>2. hostClean' => RunIsAt("rest") /\ NoCall
      BY <2>1 DEF AskHost
    <2>3. hostRow' # NoRow /\ hostRun' = hostRun
      BY <2>1 DEF AskHost
    <2>4. \A j \in HostCalls \ {k} : hostCall'[j] = hostCall[j]
      BY <2>1 DEF AskHost, HostTypeOK
    <2>5. QED
      BY <2>2, <2>3, <2>4 DEF OneAtWork, RunIsAt, NoCall, CallIsAt
  <1>23. ASSUME NEW k \in HostCalls, ChangeMiddlewares(k) PROVE OneAtWork'
    <2>1. hostClean' => RunIsAt("rest") /\ NoCall
      BY <1>23 DEF ChangeMiddlewares
    <2>2. hostRow' # NoRow /\ hostRun' = hostRun
      BY <1>23 DEF ChangeMiddlewares
    <2>3. \A j \in HostCalls \ {k} : hostCall'[j] = hostCall[j]
      BY <1>23 DEF ChangeMiddlewares, HostTypeOK
    <2>4. QED
      BY <2>1, <2>2, <2>3 DEF OneAtWork, RunIsAt, NoCall, CallIsAt
  <1>24. ASSUME NEW k \in HostCalls, TakeDown(k) PROVE OneAtWork'
    BY <1>24, ZenonT(30) DEF TakeDown, CallTo, RemoveSteps, AfterRemove, Remove, RemoveProxy, RemoveMain,
       RemoveNetwork,
       containers, OneAtWork, NoCall, CallIsAt, RunIsAt, HostTypeOK
  <1>25. ASSUME NEW k \in HostCalls, MarkDeleting(k) PROVE OneAtWork'
    <2>1. \/ Keeps("DELETING") /\ CallTo(k, "end")
          \/ hostRow = NoRow /\ UNCHANGED hostRow /\ CallEnds(k)
      BY <1>25, MarkedRow DEF MarkDeleting, RowStatuses
    <2>2. QED
      BY <1>25, <2>1 DEF MarkDeleting, CallIsAt, CallTo, CallEnds, OneAtWork, NoCall, RunIsAt, HostTypeOK, Keeps
  <1>26. ASSUME NEW k \in HostCalls, RestartMain(k) PROVE OneAtWork'
    BY <1>26 DEF RestartMain, CallIsAt, CallTo, CallEnds, MainCanStart, OneAtWork, NoCall, RunIsAt, HostTypeOK
  <1>27. ASSUME NEW k \in HostCalls, RestartProxy(k) PROVE OneAtWork'
    BY <1>27 DEF RestartProxy, CallIsAt, CallTo, ProxyCanStart, OneAtWork, NoCall, RunIsAt, HostTypeOK
  <1>28. ASSUME NEW k \in HostCalls, Finish(k) PROVE OneAtWork'
    <2>1. \/ hostRow = NoRow /\ UNCHANGED hostRow
          \/ hostCall[k].op = "stop" /\ Keeps("STOPPED")
          \/ hostCall[k].op = "delete" /\ hostRow' = NoRow
          \/ hostCall[k].op = "upgrade" /\ Notes("RUNNING")
      BY <1>28, MarkedRow, RecordedRow DEF Finish, RowStatuses
    <2>2. QED
      BY <1>28, <2>1 DEF Finish, CallIsAt, CallEnds, CallRest, OneAtWork, NoCall, RunIsAt, HostTypeOK, Keeps,
         Notes
  <1>29. ASSUME NEW k \in HostCalls, SaveMiddlewareConfig(k) PROVE OneAtWork'
    <2>1. \/ /\ hostRow # NoRow /\ hostRow' # NoRow /\ hostRow'.status = "CREATING"
             /\ hostRun' = IF hostRun.at = "rest" THEN [hostRun EXCEPT !.at = "load"] ELSE hostRun
          \/ hostRow = NoRow /\ UNCHANGED <<hostRow, hostRun>>
      BY <1>29, SavedRowIsNew DEF SaveMiddlewareConfig, RunIsAt, RunTo
    <2>2. QED
      BY <1>29, <2>1 DEF SaveMiddlewareConfig, CallIsAt, CallEnds, CallRest, RunTo, OneAtWork, NoCall,
         HostTypeOK
  <1>30. CASE UNCHANGED hostVars
    BY <1>30 DEF hostVars, OneAtWork, NoCall, CallIsAt, RunIsAt, HostTypeOK
  <1>31. QED
    BY <1>1, <1>2, <1>3, <1>4, <1>5, <1>6, <1>7, <1>8, <1>9, <1>10, <1>11, <1>12, <1>13, <1>14, <1>15, <1>16,
       <1>17, <1>18, <1>19, <1>20, <1>21, <1>22, <1>23, <1>24, <1>25, <1>26, <1>27, <1>28, <1>29, <1>30
       DEF HostNext

LEMMA LocalBotStep == ASSUME HostTypeOK, LocalBot, CallNames, [HostNext]_hostVars PROVE LocalBot'
  <1>1. CASE Reconcile
    BY <1>1 DEF Reconcile, RunTo, containers, LocalBot, Nothing
  <1>2. CASE LoadInstance
    BY <1>2 DEF LoadInstance, RunTo, containers, LocalBot, Nothing, HostTypeOK
  <1>3. CASE MarkReconciling
    <2>1. \/ Keeps("RECONCILING") /\ RunTo("check")
          \/ hostRow = NoRow /\ UNCHANGED hostRow /\ RunTo("fail")
      BY <1>3, MarkedRow DEF MarkReconciling, RowStatuses
    <2>2. QED
      BY <1>3, <2>1 DEF MarkReconciling, RunTo, containers, LocalBot, Nothing, HostTypeOK, Keeps
  <1>4. CASE Check
    BY <1>4 DEF Check, RunTo, FirstOf, containers, LocalBot, Nothing, HostTypeOK
  <1>5. CASE Update
    BY <1>5 DEF Update, RunTo, FirstOf, containers, LocalBot, Nothing, Reachable, HostTypeOK
  <1>6. CASE DestroyFirst
    BY <1>6 DEF DestroyFirst, RunTo, RemoveSteps, AfterRemove, containers, LocalBot, Nothing, Reachable,
       HostTypeOK
  <1>7. CASE InstallBot
    BY <1>7 DEF InstallBot, RunTo, containers, LocalBot, Nothing, Reachable, HostTypeOK
  <1>8. CASE ConfigureBot
    BY <1>8 DEF ConfigureBot, RunTo, containers, LocalBot, Nothing, HostTypeOK
  <1>9. CASE StartLocal
    BY <1>9 DEF StartLocal, RunTo, containers, LocalBot, Nothing, HostTypeOK
  <1>10. CASE StartDocker
    BY <1>10 DEF StartDocker, Fault, RunTo, Create, MainCanStart, LocalBot, Nothing
  <1>11. CASE StartProxyAgain
    BY <1>11 DEF StartProxyAgain, RunTo, ProxyCanStart, LocalBot, Nothing, HostTypeOK
  <1>12. CASE CreateNetwork
    BY <1>12 DEF CreateNetwork, RunIsAt, RunTo, LocalBot
  <1>13. CASE RunMain
    BY <1>13 DEF RunMain, RunIsAt, RunTo, PortTaken, LocalBot
  <1>14. CASE RunProxy
    BY <1>14 DEF RunProxy, RunIsAt, RunTo, PortTaken, LocalBot
  <1>15. CASE ConnectGateway
    BY <1>15 DEF ConnectGateway, RunIsAt, RunTo, Reachable, containers, LocalBot, Nothing, HostTypeOK
  <1>16. CASE NoteProvisioned
    <2>1. \/ Notes("RUNNING") /\ RunTo("refetch")
          \/ hostRow = NoRow /\ UNCHANGED hostRow /\ RunTo("pfail")
      BY <1>16, RecordedRow DEF NoteProvisioned, RowStatuses
    <2>2. QED
      BY <1>16, <2>1 DEF NoteProvisioned, RunIsAt, RunTo, containers, LocalBot, Nothing, HostTypeOK
  <1>17. CASE ProvisionFails
    <2>1. Keeps("ERROR") \/ (hostRow = NoRow /\ UNCHANGED hostRow)
      BY <1>17, MarkedRow DEF ProvisionFails, RowStatuses
    <2>2. QED
      BY <1>17, <2>1 DEF ProvisionFails, RunTo, containers, LocalBot, Nothing, Keeps
  <1>18. CASE Refetch
    BY <1>18 DEF Refetch, RunIsAt, RunTo, containers, LocalBot, Nothing
  <1>19. CASE Save
    <2>1. \/ Notes("RUNNING") /\ hostRun' = RunRest
          \/ hostRow = NoRow /\ UNCHANGED hostRow /\ RunTo("fail")
      BY <1>19, RecordedRow DEF Save, RowStatuses
    <2>2. QED
      BY <1>19, <2>1 DEF Save, RunIsAt, RunTo, RunRest, containers, LocalBot, Nothing, HostTypeOK, Notes
  <1>20. CASE ReconcileFails
    <2>1. Notes("ERROR") \/ (hostRow = NoRow /\ UNCHANGED hostRow)
      BY <1>20, RecordedRow DEF ReconcileFails, RowStatuses
    <2>2. QED
      BY <1>20, <2>1 DEF ReconcileFails, RunTo, RunRest, containers, LocalBot, Nothing, Notes
  <1>21. CASE HostCrash
    BY <1>21 DEF HostCrash, RunRest, CallRest, containers, LocalBot, Nothing
  <1>22. ASSUME NEW k \in HostCalls, StopBot(k) \/ DeleteBot(k) \/ UpdateOpenClawVersion(k) PROVE LocalBot'
    BY <1>22 DEF FirstOf, AskHost, StopBot, DeleteBot, UpdateOpenClawVersion, containers, LocalBot, Nothing,
       HostTypeOK
  <1>23. ASSUME NEW k \in HostCalls, ChangeMiddlewares(k) PROVE LocalBot'
    BY <1>23 DEF ChangeMiddlewares, containers, LocalBot, Nothing, HostTypeOK
  <1>24. ASSUME NEW k \in HostCalls, TakeDown(k) PROVE LocalBot'
    BY <1>24 DEF TakeDown, CallTo, RemoveSteps, AfterRemove, containers, LocalBot, Nothing, HostTypeOK
  <1>25. ASSUME NEW k \in HostCalls, MarkDeleting(k) PROVE LocalBot'
    <2>1. \/ Keeps("DELETING") /\ CallTo(k, "end")
          \/ hostRow = NoRow /\ UNCHANGED hostRow /\ CallEnds(k)
      BY <1>25, MarkedRow DEF MarkDeleting, RowStatuses
    <2>2. QED
      BY <1>25, <2>1 DEF MarkDeleting, CallIsAt, CallTo, CallEnds, CallRest, containers, LocalBot, Nothing,
         HostTypeOK, Keeps
  <1>26. ASSUME NEW k \in HostCalls, RestartMain(k) PROVE LocalBot'
    BY <1>26 DEF RestartMain, CallIsAt, CallTo, CallEnds, CallRest, MainCanStart, LocalBot, Nothing, HostTypeOK
  <1>27. ASSUME NEW k \in HostCalls, RestartProxy(k) PROVE LocalBot'
    BY <1>27 DEF RestartProxy, CallIsAt, CallTo, ProxyCanStart, LocalBot, Nothing, HostTypeOK
  <1>28. ASSUME NEW k \in HostCalls, Finish(k) PROVE LocalBot'
    <2>1. \/ hostRow = NoRow /\ UNCHANGED hostRow
          \/ hostCall[k].op = "stop" /\ Keeps("STOPPED")
          \/ hostCall[k].op = "delete" /\ hostRow' = NoRow
          \/ hostCall[k].op = "upgrade" /\ Notes("RUNNING")
      BY <1>28, MarkedRow, RecordedRow DEF Finish, RowStatuses
    <2>2. QED
      BY <1>28, <2>1 DEF Finish, CallIsAt, CallEnds, CallRest, containers, LocalBot, Nothing, Keeps, Notes
  <1>29. ASSUME NEW k \in HostCalls, SaveMiddlewareConfig(k) PROVE LocalBot'
    <2>1. \/ /\ hostRow # NoRow /\ hostRow' # NoRow /\ hostRow'.status = "CREATING"
             /\ hostRun' = IF hostRun.at = "rest" THEN [hostRun EXCEPT !.at = "load"] ELSE hostRun
          \/ hostRow = NoRow /\ UNCHANGED <<hostRow, hostRun>>
      BY <1>29, SavedRowIsNew DEF SaveMiddlewareConfig, RunIsAt, RunTo
    <2>2. QED
      BY <1>29, <2>1 DEF SaveMiddlewareConfig, CallEnds, CallRest, RunTo, containers, LocalBot, Nothing,
         HostTypeOK
  <1>30. CASE UNCHANGED hostVars
    BY <1>30 DEF hostVars, LocalBot, Nothing, HostTypeOK
  <1>31. QED
    BY <1>1, <1>2, <1>3, <1>4, <1>5, <1>6, <1>7, <1>8, <1>9, <1>10, <1>11, <1>12, <1>13, <1>14, <1>15, <1>16,
       <1>17, <1>18, <1>19, <1>20, <1>21, <1>22, <1>23, <1>24, <1>25, <1>26, <1>27, <1>28, <1>29, <1>30
       DEF HostNext

LEMMA RowIsTrueStep == ASSUME HostInv, [HostNext]_hostVars PROVE RowIsTrue'
  <1>1. CASE Reconcile
    BY <1>1 DEF Reconcile, RunIsAt, RunTo, containers, Nothing, Standing, Bare, Proxied, Honest, Reachable,
       HostInv, RowIsTrue
  <1>2. CASE LoadInstance
    BY <1>2 DEF LoadInstance, RunIsAt, RunTo, containers, Nothing, Standing, Bare, Proxied, Honest, Reachable,
       HostInv, OneAtWork, RowIsTrue
  <1>3. CASE MarkReconciling
    <2>1. \/ Keeps("RECONCILING") /\ RunTo("check")
          \/ hostRow = NoRow /\ UNCHANGED hostRow /\ RunTo("fail")
      BY <1>3, MarkedRow DEF MarkReconciling, RowStatuses, HostInv
    <2>2. QED
      BY <1>3, <2>1 DEF MarkReconciling, RunTo, HostInv, HostTypeOK, RowIsTrue, Keeps
  <1>4. CASE Check
    BY <1>4, ZenonT(30) DEF Check, RunIsAt, RunTo, FirstOf, containers, Nothing, Standing, Bare, Proxied,
       Honest,
       Reachable, IsNewInstance, NoBox, NoProxy, NoCall, CallIsAt, RunIsUnder, HostInv, HostTypeOK, OneAtWork,
       RowIsTrue, RunReadsRow, RunIsTrue, CallIsTrue
  <1>5. CASE Update
    BY <1>5 DEF Update, RunIsAt, RunTo, FirstOf, containers, Nothing, Standing, Bare, Proxied, Honest,
       Reachable, IsNewInstance, NoBox, NoProxy, NoCall, CallIsAt, RunIsUnder, HostInv, HostTypeOK, OneAtWork,
       RowIsTrue, RunReadsRow, RunIsTrue, CallIsTrue
  <1>6. CASE DestroyFirst
    BY <1>6 DEF DestroyFirst, RunIsAt, RunTo, RemoveSteps, AfterRemove, containers, Nothing, Standing, Bare,
       Proxied, Honest, Reachable, IsNewInstance, NoBox, NoProxy, NoCall, CallIsAt, RunIsUnder, HostInv,
       HostTypeOK, OneAtWork, RowIsTrue, RunReadsRow, RunIsTrue, CallIsTrue
  <1>7. CASE InstallBot
    BY <1>7 DEF InstallBot, RunTo, HostInv, HostTypeOK, RowIsTrue
  <1>8. CASE ConfigureBot
    BY <1>8 DEF ConfigureBot, RunTo, HostInv, HostTypeOK, RowIsTrue
  <1>9. CASE StartLocal
    BY <1>9 DEF StartLocal, RunTo, HostInv, HostTypeOK, RowIsTrue
  <1>10. CASE StartDocker
    BY <1>10 DEF StartDocker, Fault, RunTo, Create, MainCanStart, HostInv, HostTypeOK, RowIsTrue
  <1>11. CASE StartProxyAgain
    BY <1>11 DEF StartProxyAgain, RunTo, ProxyCanStart, HostInv, HostTypeOK, RowIsTrue
  <1>12. CASE CreateNetwork
    BY <1>12 DEF CreateNetwork, RunTo, HostInv, HostTypeOK, RowIsTrue
  <1>13. CASE RunMain
    BY <1>13 DEF RunMain, RunTo, PortTaken, HostInv, HostTypeOK, RowIsTrue
  <1>14. CASE RunProxy
    BY <1>14 DEF RunProxy, RunTo, PortTaken, HostInv, HostTypeOK, RowIsTrue
  <1>15. CASE ConnectGateway
    BY <1>15 DEF ConnectGateway, RunTo, HostInv, HostTypeOK, RowIsTrue
  <1>16. CASE NoteProvisioned
    <2>1. \/ Notes("RUNNING") /\ RunTo("refetch")
          \/ hostRow = NoRow /\ UNCHANGED hostRow /\ RunTo("pfail")
      BY <1>16, RecordedRow DEF NoteProvisioned, RowStatuses, HostInv
    <2>2. QED
      BY <1>16, <2>1 DEF NoteProvisioned, RunTo, HostInv, HostTypeOK, RowIsTrue, Notes
  <1>17. CASE ProvisionFails
    <2>1. Keeps("ERROR") \/ (hostRow = NoRow /\ UNCHANGED hostRow)
      BY <1>17, MarkedRow DEF ProvisionFails, RowStatuses, HostInv
    <2>2. QED
      BY <1>17, <2>1 DEF ProvisionFails, RunTo, HostInv, RowIsTrue, Keeps
  <1>18. CASE Refetch
    BY <1>18 DEF Refetch, RunTo, HostInv, RowIsTrue
  <1>19. CASE Save
    <2>1. \/ Notes("RUNNING") /\ hostRun' = RunRest
          \/ hostRow = NoRow /\ UNCHANGED hostRow /\ RunTo("fail")
      BY <1>19, RecordedRow DEF Save, RowStatuses, HostInv
    <2>2. QED
      BY <1>19, <2>1 DEF Save, RunIsAt, RunTo, containers, Standing, Bare, Proxied, Honest, Reachable,
         RunIsUnder, HostInv, OneAtWork, RowIsTrue, RunReadsRow, RunIsTrue, Notes
  <1>20. CASE ReconcileFails
    <2>1. Notes("ERROR") \/ (hostRow = NoRow /\ UNCHANGED hostRow)
      BY <1>20, RecordedRow DEF ReconcileFails, RowStatuses, HostInv
    <2>2. QED
      BY <1>20, <2>1 DEF ReconcileFails, RunIsAt, RunTo, containers, Standing, Bare, Proxied, Honest,
         Reachable, RunIsUnder, HostInv, OneAtWork, RowIsTrue, RunReadsRow, RunIsTrue, Notes
  <1>21. CASE HostCrash
    <2>1. /\ hostClean' => hostClean /\ NoCall
          /\ upgradedDown' = upgradedDown
          /\ hostClean' => ~(hostRun.new /\ hostRun.at \in {"mark", "check", "proxy-", "main-"})
      BY <1>21 DEF HostCrash
    <2>2. UNCHANGED <<hostKind, hostRow, main, proxy, network, unit>> /\ hostRun'.at = "rest"
      BY <1>21 DEF HostCrash, containers, RunRest
    <2>3. hostRow # NoRow \/ RunIsAt("rest") \/ ~hostClean
      BY DEF HostInv, OneAtWork
    <2>4. hostClean /\ ~upgradedDown /\ hostKind = "docker" /\ NoCall =>
            IF hostRow = NoRow THEN Nothing
            ELSE /\ hostRow.status = "STOPPED" => Nothing
                 /\ hostRow.status = "RUNNING" => Standing(hostRow.mws)
                 /\ \/ Honest(hostRow.mws) \/ IsNewInstance(hostRow)
                    \/ hostRun.new /\ hostRun.at \in {"mark", "check", "proxy-", "main-"}
      <3>1. CASE ~RunIsUnder
        BY <3>1 DEF RunIsUnder, HostInv, RowIsTrue
      <3>2. CASE RunIsUnder
        BY <2>3, <3>2 DEF Nothing, Standing, Bare, Proxied, Honest, Reachable, NoBox, NoProxy, RunIsAt,
           RunIsUnder, HostInv, HostTypeOK, RunReadsRow, RunIsTrue
      <3>3. QED
        BY <3>1, <3>2
    <2>5. QED
      BY <2>1, <2>2, <2>4 DEF RowIsTrue, Nothing, Standing, Bare, Proxied, Honest, Reachable
  <1>22. ASSUME NEW k \in HostCalls, StopBot(k) \/ DeleteBot(k) \/ UpdateOpenClawVersion(k) PROVE RowIsTrue'
    <2>1. PICK op \in {"stop", "delete", "upgrade"}, first \in {"proxy-", "mark", "restart"} : AskHost(k, op, first)
      BY <1>22 DEF StopBot, DeleteBot, UpdateOpenClawVersion, FirstOf
    <2>2. hostCall'[k].at # "rest" /\ k \in HostCalls
      BY <2>1 DEF AskHost, HostInv, HostTypeOK
    <2>3. QED
      BY <2>2 DEF RowIsTrue, NoCall, CallIsAt
  <1>23. ASSUME NEW k \in HostCalls, ChangeMiddlewares(k) PROVE RowIsTrue'
    BY <1>23 DEF ChangeMiddlewares, NoCall, CallIsAt, HostInv, HostTypeOK, RowIsTrue
  <1>24. ASSUME NEW k \in HostCalls, TakeDown(k) PROVE RowIsTrue'
    BY <1>24 DEF TakeDown, CallTo, RemoveSteps, AfterRemove, NoCall, CallIsAt, HostInv, HostTypeOK, RowIsTrue
  <1>25. ASSUME NEW k \in HostCalls, MarkDeleting(k) PROVE RowIsTrue'
    <2>1. \/ Keeps("DELETING") /\ CallTo(k, "end")
          \/ hostRow = NoRow /\ UNCHANGED hostRow /\ CallEnds(k)
      BY <1>25, MarkedRow DEF MarkDeleting, RowStatuses, HostInv
    <2>2. QED
      BY <1>25, <2>1 DEF MarkDeleting, CallIsAt, CallTo, CallEnds, NoCall, HostInv, HostTypeOK, OneAtWork,
         RowIsTrue
  <1>26. ASSUME NEW k \in HostCalls, RestartMain(k) PROVE RowIsTrue'
    BY <1>26 DEF RestartMain, CallIsAt, CallTo, CallEnds, MainCanStart, Standing, Bare, Proxied, Honest,
       Reachable, NoCall, HostInv, HostTypeOK, OneAtWork, RowIsTrue, CallIsTrue
  <1>27. ASSUME NEW k \in HostCalls, RestartProxy(k) PROVE RowIsTrue'
    BY <1>27 DEF RestartProxy, CallIsAt, CallTo, ProxyCanStart, Standing, Bare, Proxied, Honest, Reachable,
       NoCall, HostInv, HostTypeOK, OneAtWork, RowIsTrue, CallIsTrue
  <1>28. ASSUME NEW k \in HostCalls, Finish(k) PROVE RowIsTrue'
    <2>1. \/ hostRow = NoRow /\ UNCHANGED hostRow
          \/ hostCall[k].op = "stop" /\ Keeps("STOPPED")
          \/ hostCall[k].op = "delete" /\ hostRow' = NoRow
          \/ hostCall[k].op = "upgrade" /\ Notes("RUNNING")
      BY <1>28, MarkedRow, RecordedRow DEF Finish, RowStatuses, HostInv
    <2>2. QED
      BY <1>28, <2>1 DEF Finish, CallEnds, containers, Nothing, Standing, Bare, Proxied, Honest, Reachable,
         NoBox, NoProxy, HostInv, OneAtWork, RowIsTrue, CallIsTrue, Keeps, Notes
  <1>29. ASSUME NEW k \in HostCalls, SaveMiddlewareConfig(k) PROVE RowIsTrue'
    <2>1. \/ /\ hostRow # NoRow /\ hostRow' # NoRow /\ hostRow'.status = "CREATING"
             /\ hostRun' = IF hostRun.at = "rest" THEN [hostRun EXCEPT !.at = "load"] ELSE hostRun
          \/ hostRow = NoRow /\ UNCHANGED <<hostRow, hostRun>>
      BY <1>29, SavedRowIsNew DEF SaveMiddlewareConfig, RunIsAt, RunTo, HostInv
    <2>2. QED
      BY <1>29, <2>1 DEF SaveMiddlewareConfig, CallIsAt, CallEnds, RunIsAt, IsNewInstance, NoCall, HostInv,
         OneAtWork, RowIsTrue
  <1>30. CASE UNCHANGED hostVars
    BY <1>30 DEF hostVars, Nothing, Standing, Bare, Proxied, Honest, Reachable, IsNewInstance, NoCall,
       CallIsAt, RunIsAt, HostInv, OneAtWork, RowIsTrue
  <1>31. QED
    BY <1>1, <1>2, <1>3, <1>4, <1>5, <1>6, <1>7, <1>8, <1>9, <1>10, <1>11, <1>12, <1>13, <1>14, <1>15, <1>16,
       <1>17, <1>18, <1>19, <1>20, <1>21, <1>22, <1>23, <1>24, <1>25, <1>26, <1>27, <1>28, <1>29, <1>30
       DEF HostNext

LEMMA RunReadsRowStep == ASSUME HostTypeOK, OneAtWork, RunReadsRow, [HostNext]_hostVars PROVE RunReadsRow'
  <1>1. CASE Reconcile
    BY <1>1 DEF Reconcile, RunIsAt, RunTo, RunReadsRow
  <1>2. CASE LoadInstance
    BY <1>2 DEF LoadInstance, RunIsAt, RunTo, RunIsUnder, OneAtWork, RunReadsRow
  <1>3. CASE MarkReconciling
    <2>1. \/ Keeps("RECONCILING") /\ RunTo("check")
          \/ hostRow = NoRow /\ UNCHANGED hostRow /\ RunTo("fail")
      BY <1>3, MarkedRow DEF MarkReconciling, RowStatuses
    <2>2. QED
      BY <1>3, <2>1 DEF MarkReconciling, RunIsAt, RunTo, HostTypeOK, OneAtWork, RunReadsRow, Keeps
  <1>4. CASE Check
    BY <1>4 DEF Check, RunIsAt, RunTo, FirstOf, RunIsUnder, HostTypeOK, OneAtWork, RunReadsRow
  <1>5. CASE Update
    BY <1>5 DEF Update, RunIsAt, RunTo, FirstOf, RunIsUnder, HostTypeOK, OneAtWork, RunReadsRow
  <1>6. CASE DestroyFirst
    BY <1>6 DEF DestroyFirst, RunIsAt, RunTo, RemoveSteps, AfterRemove, RunIsUnder, HostTypeOK, RunReadsRow
  <1>7. CASE InstallBot
    BY <1>7 DEF InstallBot, RunIsAt, RunTo, RunIsUnder, HostTypeOK, RunReadsRow
  <1>8. CASE ConfigureBot
    BY <1>8 DEF ConfigureBot, RunIsAt, RunTo, RunIsUnder, HostTypeOK, RunReadsRow
  <1>9. CASE StartLocal
    BY <1>9 DEF StartLocal, RunIsAt, RunTo, RunIsUnder, HostTypeOK, RunReadsRow
  <1>10. CASE StartDocker
    BY <1>10 DEF StartDocker, Fault, RunIsAt, RunTo, Create, MainCanStart, RunIsUnder, HostTypeOK, RunReadsRow
  <1>11. CASE StartProxyAgain
    BY <1>11 DEF StartProxyAgain, RunIsAt, RunTo, ProxyCanStart, RunIsUnder, HostTypeOK, RunReadsRow
  <1>12. CASE CreateNetwork
    BY <1>12 DEF CreateNetwork, RunIsAt, RunTo, RunIsUnder, HostTypeOK, RunReadsRow
  <1>13. CASE RunMain
    BY <1>13 DEF RunMain, RunIsAt, RunTo, PortTaken, RunIsUnder, HostTypeOK, RunReadsRow
  <1>14. CASE RunProxy
    BY <1>14 DEF RunProxy, RunIsAt, RunTo, PortTaken, RunIsUnder, HostTypeOK, RunReadsRow
  <1>15. CASE ConnectGateway
    BY <1>15 DEF ConnectGateway, RunIsAt, RunTo, RunIsUnder, HostTypeOK, RunReadsRow
  <1>16. CASE NoteProvisioned
    <2>1. \/ Notes("RUNNING") /\ RunTo("refetch")
          \/ hostRow = NoRow /\ UNCHANGED hostRow /\ RunTo("pfail")
      BY <1>16, RecordedRow DEF NoteProvisioned, RowStatuses
    <2>2. QED
      BY <1>16, <2>1 DEF NoteProvisioned, RunIsAt, RunTo, RunIsUnder, HostTypeOK, RunReadsRow, Notes
  <1>17. CASE ProvisionFails
    <2>1. Keeps("ERROR") \/ (hostRow = NoRow /\ UNCHANGED hostRow)
      BY <1>17, MarkedRow DEF ProvisionFails, RowStatuses
    <2>2. QED
      BY <1>17, <2>1 DEF ProvisionFails, RunIsAt, RunTo, RunIsUnder, RunReadsRow, Keeps
  <1>18. CASE Refetch
    BY <1>18 DEF Refetch, RunIsAt, RunTo, RunIsUnder, OneAtWork, RunReadsRow
  <1>19. CASE Save
    <2>1. \/ Notes("RUNNING") /\ hostRun' = RunRest
          \/ hostRow = NoRow /\ UNCHANGED hostRow /\ RunTo("fail")
      BY <1>19, RecordedRow DEF Save, RowStatuses
    <2>2. QED
      BY <1>19, <2>1 DEF Save, RunIsAt, RunTo, RunRest, OneAtWork, RunReadsRow
  <1>20. CASE ReconcileFails
    <2>1. Notes("ERROR") \/ (hostRow = NoRow /\ UNCHANGED hostRow)
      BY <1>20, RecordedRow DEF ReconcileFails, RowStatuses
    <2>2. QED
      BY <1>20, <2>1 DEF ReconcileFails, RunIsAt, RunTo, RunRest, RunReadsRow
  <1>21. CASE HostCrash
    BY <1>21 DEF HostCrash, RunIsAt, RunRest, CallRest, RunReadsRow
  <1>22. ASSUME NEW k \in HostCalls, StopBot(k) \/ DeleteBot(k) \/ UpdateOpenClawVersion(k) PROVE RunReadsRow'
    BY <1>22 DEF RunIsAt, FirstOf, AskHost, StopBot, DeleteBot, UpdateOpenClawVersion, RunReadsRow
  <1>23. ASSUME NEW k \in HostCalls, ChangeMiddlewares(k) PROVE RunReadsRow'
    BY <1>23 DEF ChangeMiddlewares, RunIsAt, RunReadsRow
  <1>24. ASSUME NEW k \in HostCalls, TakeDown(k) PROVE RunReadsRow'
    BY <1>24 DEF TakeDown, CallTo, RemoveSteps, AfterRemove, RunIsAt, RunIsUnder, RunReadsRow
  <1>25. ASSUME NEW k \in HostCalls, MarkDeleting(k) PROVE RunReadsRow'
    <2>1. \/ Keeps("DELETING") /\ CallTo(k, "end")
          \/ hostRow = NoRow /\ UNCHANGED hostRow /\ CallEnds(k)
      BY <1>25, MarkedRow DEF MarkDeleting, RowStatuses
    <2>2. QED
      BY <1>25, <2>1 DEF MarkDeleting, CallIsAt, CallTo, CallEnds, NoCall, RunIsAt, OneAtWork, RunReadsRow,
         Keeps
  <1>26. ASSUME NEW k \in HostCalls, RestartMain(k) PROVE RunReadsRow'
    BY <1>26 DEF RestartMain, CallIsAt, CallTo, CallEnds, MainCanStart, NoCall, RunIsAt, OneAtWork, RunReadsRow
  <1>27. ASSUME NEW k \in HostCalls, RestartProxy(k) PROVE RunReadsRow'
    BY <1>27 DEF RestartProxy, CallIsAt, CallTo, ProxyCanStart, NoCall, RunIsAt, OneAtWork, RunReadsRow
  <1>28. ASSUME NEW k \in HostCalls, Finish(k) PROVE RunReadsRow'
    <2>1. \/ hostRow = NoRow /\ UNCHANGED hostRow
          \/ hostCall[k].op = "stop" /\ Keeps("STOPPED")
          \/ hostCall[k].op = "delete" /\ hostRow' = NoRow
          \/ hostCall[k].op = "upgrade" /\ Notes("RUNNING")
      BY <1>28, MarkedRow, RecordedRow DEF Finish, RowStatuses
    <2>2. QED
      BY <1>28, <2>1 DEF Finish, CallIsAt, CallEnds, NoCall, RunIsAt, OneAtWork, RunReadsRow
  <1>29. ASSUME NEW k \in HostCalls, SaveMiddlewareConfig(k) PROVE RunReadsRow'
    <2>1. \/ /\ hostRow # NoRow /\ hostRow' # NoRow /\ hostRow'.status = "CREATING"
             /\ hostRun' = IF hostRun.at = "rest" THEN [hostRun EXCEPT !.at = "load"] ELSE hostRun
          \/ hostRow = NoRow /\ UNCHANGED <<hostRow, hostRun>>
      BY <1>29, SavedRowIsNew DEF SaveMiddlewareConfig, RunIsAt, RunTo
    <2>2. QED
      BY <1>29, <2>1 DEF SaveMiddlewareConfig, CallIsAt, CallEnds, RunIsAt, RunTo, NoCall, HostTypeOK,
         OneAtWork, RunReadsRow
  <1>30. CASE UNCHANGED hostVars
    BY <1>30 DEF hostVars, NoCall, CallIsAt, RunIsAt, RunIsUnder, HostTypeOK, OneAtWork, RunReadsRow
  <1>31. QED
    BY <1>1, <1>2, <1>3, <1>4, <1>5, <1>6, <1>7, <1>8, <1>9, <1>10, <1>11, <1>12, <1>13, <1>14, <1>15, <1>16,
       <1>17, <1>18, <1>19, <1>20, <1>21, <1>22, <1>23, <1>24, <1>25, <1>26, <1>27, <1>28, <1>29, <1>30
       DEF HostNext

LEMMA RunIsTrueStep == ASSUME HostInv, [HostNext]_hostVars PROVE RunIsTrue'
  <1>1. CASE Reconcile
    BY <1>1 DEF Reconcile, RunIsAt, RunTo, HostInv, RunIsTrue
  <1>2. CASE LoadInstance
    BY <1>2 DEF LoadInstance, RunIsAt, RunTo, HostInv, OneAtWork, RunIsTrue
  <1>3. CASE MarkReconciling
    <2>1. \/ Keeps("RECONCILING") /\ RunTo("check")
          \/ hostRow = NoRow /\ UNCHANGED hostRow /\ RunTo("fail")
      BY <1>3, MarkedRow DEF MarkReconciling, RowStatuses, HostInv
    <2>2. QED
      BY <1>3, <2>1 DEF MarkReconciling, RunIsAt, RunTo, containers, Standing, Bare, Proxied, Honest,
         Reachable, HostInv, HostTypeOK, OneAtWork, RowIsTrue, RunReadsRow, RunIsTrue, Keeps
  <1>4. CASE Check
    <2>1. CASE hostRun'.at = "fail"
      <3>1. hostClean' => hostClean /\ ~hostRun.new
        BY <1>4, <2>1 DEF Check, RunTo, HostInv, HostTypeOK, FirstOf
      <3>2. hostRun'.mws = hostRun.mws /\ UNCHANGED <<hostKind, main, proxy, network, unit, upgradedDown>>
        BY <1>4 DEF Check, RunTo, HostInv, HostTypeOK, containers
      <3>3. hostClean /\ ~upgradedDown /\ hostKind = "docker" /\ ~hostRun.new => Honest(hostRun.mws)
        BY <1>4 DEF Check, RunIsAt, RunIsUnder, HostInv, RunIsTrue
      <3>4. QED
        BY <2>1, <3>1, <3>2, <3>3 DEF RunIsTrue, Honest, Reachable, Standing, Bare, Proxied, RunIsAt
    <2>2. CASE hostRun'.at # "fail"
      <3>1. /\ hostRun' = [hostRun EXCEPT !.at = IF hostRun.new THEN FirstOf("install") ELSE "update"]
            /\ UNCHANGED hostClean
        BY <1>4, <2>2 DEF Check, RunTo, HostInv, HostTypeOK
      <3>2. QED
        BY <1>4, <3>1 DEF Check, FirstOf, containers, Standing, Bare, Proxied, Honest, Reachable, RunIsAt,
           RunIsUnder, HostInv, HostTypeOK, RunIsTrue
    <2>3. QED
      BY <2>1, <2>2
  <1>5. CASE Update
    BY <1>5 DEF Update, RunIsAt, RunTo, FirstOf, containers, Standing, Bare, Proxied, Honest, Reachable,
       RunIsUnder, HostInv, HostTypeOK, RunReadsRow, RunIsTrue
  <1>6. CASE DestroyFirst
    <2>1. CASE hostClean' /\ ~upgradedDown'
      <3>1. Remove(hostRun.at) /\ hostClean /\ ~upgradedDown
        BY <1>6, <2>1 DEF DestroyFirst
      <3>2. /\ hostRun' = [hostRun EXCEPT !.at = AfterRemove(hostRun.at, "install")]
            /\ UNCHANGED <<hostKind, upgradedDown>>
        BY <1>6 DEF DestroyFirst, RunTo
      <3>3. CASE hostRun.at = "proxy-"
        BY <3>1, <3>2, <3>3 DEF AfterRemove, Remove, RemoveProxy, Standing, Bare, Proxied, Honest, Reachable,
           NoBox, NoProxy, RunIsAt, RunIsUnder, HostInv, RunIsTrue
      <3>4. CASE hostRun.at = "main-"
        BY <3>1, <3>2, <3>4 DEF AfterRemove, Remove, RemoveMain, Standing, Bare, Proxied, Honest, Reachable,
           NoBox, NoProxy, RunIsAt, RunIsUnder, HostInv, RunIsTrue
      <3>5. CASE hostRun.at = "net-"
        <4>1. hostKind = "docker" => main = NoBox /\ proxy = NoProxy
          BY <3>1, <3>5 DEF HostInv, RunIsTrue, RunIsUnder, RunIsAt
        <4>2. hostKind = "docker" => ~network' /\ UNCHANGED <<main, proxy>>
          <5>1. RemoveNetwork
            BY <3>1, <3>5 DEF Remove
          <5>2. QED
            BY <4>1, <5>1, NetworkGoes
        <4>3. hostRun'.at = "install"
          BY <3>2, <3>5 DEF AfterRemove, HostInv, HostTypeOK
        <4>4. QED
          BY <3>2, <4>1, <4>2, <4>3 DEF RunIsTrue, Nothing, RunIsAt
      <3>6. QED
        BY <1>6, <3>3, <3>4, <3>5 DEF DestroyFirst, RemoveSteps
    <2>2. QED
      BY <2>1 DEF RunIsTrue
  <1>7. CASE InstallBot
    BY <1>7 DEF InstallBot, RunIsAt, RunTo, containers, Nothing, Standing, Bare, Proxied, Honest, Reachable,
       NoBox, NoProxy, RunIsUnder, HostInv, HostTypeOK, RunIsTrue
  <1>8. CASE ConfigureBot
    BY <1>8 DEF ConfigureBot, RunIsAt, RunTo, containers, Nothing, Standing, Bare, Proxied, Honest, Reachable,
       NoBox, NoProxy, RunIsUnder, HostInv, HostTypeOK, RunIsTrue
  <1>9. CASE StartLocal
    BY <1>9 DEF StartLocal, RunIsAt, RunTo, containers, Nothing, Standing, Bare, Proxied, Honest, Reachable,
       NoBox, NoProxy, RunIsUnder, HostInv, HostTypeOK, RunIsTrue
  <1>10. CASE StartDocker
    BY <1>10 DEF StartDocker, Fault, RunIsAt, RunTo, Create, MainCanStart, Nothing, Standing, Bare, Proxied, Honest,
       Reachable, NoBox, NoProxy, RunIsUnder, HostInv, HostTypeOK, RunIsTrue
  <1>11. CASE StartProxyAgain
    BY <1>11 DEF StartProxyAgain, RunIsAt, RunTo, ProxyCanStart, Nothing, Standing, Bare, Proxied, NoBox,
       NoProxy, RunIsUnder, HostInv, HostTypeOK, RunIsTrue
  <1>12. CASE CreateNetwork
    BY <1>12 DEF CreateNetwork, RunIsAt, RunTo, Nothing, Standing, Bare, Proxied, NoBox, NoProxy, RunIsUnder,
       HostInv, HostTypeOK, RunIsTrue
  <1>13. CASE RunMain
    BY <1>13 DEF RunMain, RunIsAt, RunTo, PortTaken, Nothing, Standing, Bare, Proxied, Honest, Reachable,
       NoBox, NoProxy, RunIsUnder, HostInv, HostTypeOK, RunIsTrue
  <1>14. CASE RunProxy
    BY <1>14 DEF RunProxy, RunIsAt, RunTo, PortTaken, Nothing, Standing, Bare, Proxied, Honest, Reachable,
       NoBox, NoProxy, RunIsUnder, HostInv, HostTypeOK, RunIsTrue
  <1>15. CASE ConnectGateway
    BY <1>15 DEF ConnectGateway, RunIsAt, RunTo, Reachable, containers, Standing, Bare, Proxied, Honest, NoBox,
       NoProxy, RunIsUnder, HostInv, HostTypeOK, RunIsTrue
  <1>16. CASE NoteProvisioned
    <2>1. \/ Notes("RUNNING") /\ RunTo("refetch")
          \/ hostRow = NoRow /\ UNCHANGED hostRow /\ RunTo("pfail")
      BY <1>16, RecordedRow DEF NoteProvisioned, RowStatuses, HostInv
    <2>2. QED
      BY <1>16, <2>1 DEF NoteProvisioned, RunIsAt, RunTo, containers, Standing, Bare, Proxied, Honest,
         Reachable, RunIsUnder, HostInv, HostTypeOK, RunIsTrue, Notes
  <1>17. CASE ProvisionFails
    <2>1. Keeps("ERROR") \/ (hostRow = NoRow /\ UNCHANGED hostRow)
      BY <1>17, MarkedRow DEF ProvisionFails, RowStatuses, HostInv
    <2>2. QED
      BY <1>17, <2>1 DEF ProvisionFails, RunIsAt, RunTo, containers, Standing, Bare, Proxied, Honest,
         Reachable, RunIsUnder, HostInv, RunIsTrue, Keeps
  <1>18. CASE Refetch
    BY <1>18 DEF Refetch, RunIsAt, RunTo, containers, Standing, Bare, Proxied, Honest, Reachable, RunIsUnder,
       HostInv, RunIsTrue
  <1>19. CASE Save
    <2>1. \/ Notes("RUNNING") /\ hostRun' = RunRest
          \/ hostRow = NoRow /\ UNCHANGED hostRow /\ RunTo("fail")
      BY <1>19, RecordedRow DEF Save, RowStatuses, HostInv
    <2>2. QED
      BY <1>19, <2>1 DEF Save, RunIsAt, RunTo, RunRest, HostInv, OneAtWork, RunIsTrue, Notes
  <1>20. CASE ReconcileFails
    <2>1. Notes("ERROR") \/ (hostRow = NoRow /\ UNCHANGED hostRow)
      BY <1>20, RecordedRow DEF ReconcileFails, RowStatuses, HostInv
    <2>2. QED
      BY <1>20, <2>1 DEF ReconcileFails, RunIsAt, RunTo, RunRest, HostInv, RunIsTrue, Notes
  <1>21. CASE HostCrash
    BY <1>21 DEF HostCrash, RunIsAt, RunRest, CallRest, HostInv, RunIsTrue
  <1>22. ASSUME NEW k \in HostCalls, StopBot(k) \/ DeleteBot(k) \/ UpdateOpenClawVersion(k) PROVE RunIsTrue'
    BY <1>22 DEF RunIsAt, FirstOf, AskHost, StopBot, DeleteBot, UpdateOpenClawVersion, HostInv, RunIsTrue
  <1>23. ASSUME NEW k \in HostCalls, ChangeMiddlewares(k) PROVE RunIsTrue'
    BY <1>23 DEF ChangeMiddlewares, RunIsAt, HostInv, RunIsTrue
  <1>24. ASSUME NEW k \in HostCalls, TakeDown(k) PROVE RunIsTrue'
    BY <1>24 DEF TakeDown, CallTo, RemoveSteps, AfterRemove, NoCall, CallIsAt, RunIsAt, HostInv, OneAtWork,
       RunIsTrue
  <1>25. ASSUME NEW k \in HostCalls, MarkDeleting(k) PROVE RunIsTrue'
    <2>1. \/ Keeps("DELETING") /\ CallTo(k, "end")
          \/ hostRow = NoRow /\ UNCHANGED hostRow /\ CallEnds(k)
      BY <1>25, MarkedRow DEF MarkDeleting, RowStatuses, HostInv
    <2>2. QED
      BY <1>25, <2>1 DEF MarkDeleting, CallIsAt, CallTo, CallEnds, NoCall, RunIsAt, HostInv, OneAtWork,
         RunIsTrue
  <1>26. ASSUME NEW k \in HostCalls, RestartMain(k) PROVE RunIsTrue'
    BY <1>26 DEF RestartMain, CallIsAt, CallTo, CallEnds, NoCall, RunIsAt, HostInv, OneAtWork, RunIsTrue
  <1>27. ASSUME NEW k \in HostCalls, RestartProxy(k) PROVE RunIsTrue'
    BY <1>27 DEF RestartProxy, CallIsAt, CallTo, ProxyCanStart, NoCall, RunIsAt, HostInv, OneAtWork, RunIsTrue
  <1>28. ASSUME NEW k \in HostCalls, Finish(k) PROVE RunIsTrue'
    <2>1. \/ hostRow = NoRow /\ UNCHANGED hostRow
          \/ hostCall[k].op = "stop" /\ Keeps("STOPPED")
          \/ hostCall[k].op = "delete" /\ hostRow' = NoRow
          \/ hostCall[k].op = "upgrade" /\ Notes("RUNNING")
      BY <1>28, MarkedRow, RecordedRow DEF Finish, RowStatuses, HostInv
    <2>2. QED
      BY <1>28, <2>1 DEF Finish, CallIsAt, CallEnds, NoCall, RunIsAt, HostInv, OneAtWork, RunIsTrue, Keeps
  <1>29. ASSUME NEW k \in HostCalls, SaveMiddlewareConfig(k) PROVE RunIsTrue'
    <2>1. \/ /\ hostRow # NoRow /\ hostRow' # NoRow /\ hostRow'.status = "CREATING"
             /\ hostRun' = IF hostRun.at = "rest" THEN [hostRun EXCEPT !.at = "load"] ELSE hostRun
          \/ hostRow = NoRow /\ UNCHANGED <<hostRow, hostRun>>
      BY <1>29, SavedRowIsNew DEF SaveMiddlewareConfig, RunIsAt, RunTo, HostInv
    <2>2. QED
      BY <1>29, <2>1 DEF SaveMiddlewareConfig, CallIsAt, CallEnds, RunIsAt, NoCall, HostInv, HostTypeOK,
         OneAtWork, RunIsTrue
  <1>30. CASE UNCHANGED hostVars
    BY <1>30 DEF hostVars, Nothing, Standing, Bare, Proxied, Honest, Reachable, NoCall, CallIsAt, RunIsAt,
       RunIsUnder, HostInv, HostTypeOK, OneAtWork, RunIsTrue
  <1>31. QED
    BY <1>1, <1>2, <1>3, <1>4, <1>5, <1>6, <1>7, <1>8, <1>9, <1>10, <1>11, <1>12, <1>13, <1>14, <1>15, <1>16,
       <1>17, <1>18, <1>19, <1>20, <1>21, <1>22, <1>23, <1>24, <1>25, <1>26, <1>27, <1>28, <1>29, <1>30
       DEF HostNext

LEMMA CallIsTrueStep == ASSUME HostInv, [HostNext]_hostVars PROVE CallIsTrue'
  <1>1. CASE Reconcile
    BY <1>1 DEF Reconcile, RunTo, NoCall, CallIsAt, HostInv, CallIsTrue, CallNames
  <1>2. CASE LoadInstance
    BY <1>2 DEF LoadInstance, RunIsAt, RunTo, NoCall, CallIsAt, HostInv, OneAtWork, CallIsTrue, CallNames
  <1>3. CASE MarkReconciling
    <2>1. \/ Keeps("RECONCILING") /\ RunTo("check")
          \/ hostRow = NoRow /\ UNCHANGED hostRow /\ RunTo("fail")
      BY <1>3, MarkedRow DEF MarkReconciling, RowStatuses, HostInv
    <2>2. QED
      BY <1>3, <2>1 DEF MarkReconciling, RunIsAt, RunTo, NoCall, CallIsAt, HostInv, OneAtWork, CallIsTrue,
         CallNames, Keeps
  <1>4. CASE Check
    BY <1>4 DEF Check, RunIsAt, RunTo, FirstOf, NoCall, CallIsAt, HostInv, OneAtWork, CallIsTrue, CallNames
  <1>5. CASE Update
    BY <1>5 DEF Update, RunIsAt, RunTo, FirstOf, NoCall, CallIsAt, HostInv, OneAtWork, CallIsTrue, CallNames
  <1>6. CASE DestroyFirst
    BY <1>6 DEF DestroyFirst, RunIsAt, RunTo, RemoveSteps, AfterRemove, NoCall, CallIsAt, HostInv, OneAtWork,
       CallIsTrue, CallNames
  <1>7. CASE InstallBot
    BY <1>7 DEF InstallBot, RunIsAt, RunTo, NoCall, CallIsAt, HostInv, OneAtWork, CallIsTrue, CallNames
  <1>8. CASE ConfigureBot
    BY <1>8 DEF ConfigureBot, RunIsAt, RunTo, NoCall, CallIsAt, HostInv, OneAtWork, CallIsTrue, CallNames
  <1>9. CASE StartLocal
    BY <1>9 DEF StartLocal, RunIsAt, RunTo, NoCall, CallIsAt, HostInv, OneAtWork, CallIsTrue, CallNames
  <1>10. CASE StartDocker
    BY <1>10 DEF StartDocker, Fault, RunIsAt, RunTo, Create, MainCanStart, NoCall, CallIsAt, HostInv, OneAtWork,
       CallIsTrue, CallNames
  <1>11. CASE StartProxyAgain
    BY <1>11 DEF StartProxyAgain, RunIsAt, RunTo, ProxyCanStart, NoCall, CallIsAt, HostInv, OneAtWork,
       CallIsTrue, CallNames
  <1>12. CASE CreateNetwork
    BY <1>12 DEF CreateNetwork, RunIsAt, RunTo, NoCall, CallIsAt, HostInv, OneAtWork, CallIsTrue, CallNames
  <1>13. CASE RunMain
    BY <1>13 DEF RunMain, RunIsAt, RunTo, PortTaken, NoCall, CallIsAt, HostInv, OneAtWork, CallIsTrue, CallNames
  <1>14. CASE RunProxy
    BY <1>14 DEF RunProxy, RunIsAt, RunTo, PortTaken, NoCall, CallIsAt, HostInv, OneAtWork, CallIsTrue,
       CallNames
  <1>15. CASE ConnectGateway
    BY <1>15 DEF ConnectGateway, RunIsAt, RunTo, NoCall, CallIsAt, HostInv, OneAtWork, CallIsTrue, CallNames
  <1>16. CASE NoteProvisioned
    <2>1. \/ Notes("RUNNING") /\ RunTo("refetch")
          \/ hostRow = NoRow /\ UNCHANGED hostRow /\ RunTo("pfail")
      BY <1>16, RecordedRow DEF NoteProvisioned, RowStatuses, HostInv
    <2>2. QED
      BY <1>16, <2>1 DEF NoteProvisioned, RunIsAt, RunTo, NoCall, CallIsAt, HostInv, OneAtWork, CallIsTrue,
         CallNames, Notes
  <1>17. CASE ProvisionFails
    <2>1. Keeps("ERROR") \/ (hostRow = NoRow /\ UNCHANGED hostRow)
      BY <1>17, MarkedRow DEF ProvisionFails, RowStatuses, HostInv
    <2>2. QED
      BY <1>17, <2>1 DEF ProvisionFails, RunIsAt, RunTo, NoCall, CallIsAt, HostInv, OneAtWork, CallIsTrue,
         CallNames, Keeps
  <1>18. CASE Refetch
    BY <1>18 DEF Refetch, RunIsAt, RunTo, NoCall, CallIsAt, HostInv, OneAtWork, CallIsTrue, CallNames
  <1>19. CASE Save
    <2>1. \/ Notes("RUNNING") /\ hostRun' = RunRest
          \/ hostRow = NoRow /\ UNCHANGED hostRow /\ RunTo("fail")
      BY <1>19, RecordedRow DEF Save, RowStatuses, HostInv
    <2>2. QED
      BY <1>19, <2>1 DEF Save, RunIsAt, RunTo, NoCall, CallIsAt, HostInv, OneAtWork, CallIsTrue, CallNames,
         Notes
  <1>20. CASE ReconcileFails
    <2>1. Notes("ERROR") \/ (hostRow = NoRow /\ UNCHANGED hostRow)
      BY <1>20, RecordedRow DEF ReconcileFails, RowStatuses, HostInv
    <2>2. QED
      BY <1>20, <2>1 DEF ReconcileFails, RunIsAt, RunTo, NoCall, CallIsAt, HostInv, OneAtWork, CallIsTrue,
         CallNames, Notes
  <1>21. CASE HostCrash
    BY <1>21 DEF HostCrash, RunIsAt, RunRest, CallRest, NoCall, CallIsAt, HostInv, OneAtWork, CallIsTrue,
       CallNames
  <1>22. ASSUME NEW k \in HostCalls, StopBot(k) \/ DeleteBot(k) \/ UpdateOpenClawVersion(k) PROVE CallIsTrue'
    <2>1. PICK op \in {"stop", "delete", "upgrade"}, first \in {"proxy-", "mark", "restart"} : AskHost(k, op, first)
      BY <1>22 DEF StopBot, DeleteBot, UpdateOpenClawVersion, FirstOf
    <2>2. hostClean' /\ ~upgradedDown' =>
                        /\ hostClean /\ ~upgradedDown /\ NoCall
                        /\ op = "upgrade" => hostRow # NoRow /\ hostRow.status = "RUNNING"
                        /\ RunIsAt("rest")
      BY <2>1 DEF AskHost
    <2>3. op = "upgrade" <=> first = "restart"
      BY <1>22, <2>1 DEF AskHost, StopBot, DeleteBot, UpdateOpenClawVersion, FirstOf, HostInv, HostTypeOK
    <2>4. /\ hostCall' = [hostCall EXCEPT ![k] = [op |-> op, at |-> first, mws |-> {}]]
          /\ UNCHANGED <<hostKind, hostRow, main, proxy, network>>
      BY <2>1 DEF AskHost, containers
    <2>5. hostKind = "docker" => first # "mark"
      BY <1>22, <2>1 DEF AskHost, StopBot, DeleteBot, UpdateOpenClawVersion, FirstOf, HostInv, HostTypeOK
    <2>6. hostClean' /\ ~upgradedDown' /\ hostKind = "docker" /\ op = "upgrade" => Standing(hostRow.mws)
      BY <2>2 DEF HostInv, RowIsTrue, RunIsAt
    <2>7. QED
      BY <2>2, <2>3, <2>4, <2>5, <2>6 DEF CallIsTrue, CallIsAt, Standing, Bare, Proxied, Nothing, HostInv,
         HostTypeOK
  <1>23. ASSUME NEW k \in HostCalls, ChangeMiddlewares(k) PROVE CallIsTrue'
    BY <1>23 DEF ChangeMiddlewares, CallIsAt, containers, Nothing, Standing, Bare, Proxied, HostInv,
       HostTypeOK, CallIsTrue
  <1>24. ASSUME NEW k \in HostCalls, TakeDown(k) PROVE CallIsTrue'
    <2>1. CASE hostClean' /\ ~upgradedDown'
      <3>1. Remove(hostCall[k].at) /\ hostClean /\ ~upgradedDown
        BY <1>24, <2>1 DEF TakeDown
      <3>2. /\ hostCall' = [hostCall EXCEPT ![k].at = AfterRemove(hostCall[k].at, "mark")]
            /\ UNCHANGED <<hostKind, hostRow, upgradedDown>>
        BY <1>24 DEF TakeDown, CallTo
      <3>3. \A j \in HostCalls \ {k} : hostCall'[j] = hostCall[j] /\ CallIsAt(j, "rest") /\ hostCall[j].op = "none"
        BY <1>24, <3>1, <3>2 DEF TakeDown, RemoveSteps, HostInv, OneAtWork, CallIsAt, CallNames
      <3>4. hostCall'[k].at = AfterRemove(hostCall[k].at, "mark") /\ hostCall'[k].op = hostCall[k].op
        BY <3>2 DEF HostInv, HostTypeOK
      <3>5. hostKind = "docker" => hostCall[k].op # "upgrade"
        BY <1>24 DEF TakeDown, RemoveSteps, HostInv, CallNames
      <3>6. CASE hostCall[k].at = "proxy-"
        BY <3>1, <3>2, <3>3, <3>4, <3>5, <3>6 DEF AfterRemove, Remove, RemoveProxy, CallIsTrue, CallIsAt
      <3>7. CASE hostCall[k].at = "main-"
        BY <3>1, <3>2, <3>3, <3>4, <3>5, <3>7 DEF AfterRemove, Remove, RemoveMain, CallIsTrue, CallIsAt, HostInv
      <3>8. CASE hostCall[k].at = "net-"
        <4>1. hostKind = "docker" => main = NoBox /\ proxy = NoProxy
          BY <3>1, <3>8 DEF HostInv, CallIsTrue, CallIsAt
        <4>2. hostKind = "docker" => ~network' /\ UNCHANGED <<main, proxy>>
          <5>1. RemoveNetwork
            BY <3>1, <3>8 DEF Remove
          <5>2. QED
            BY <4>1, <5>1, NetworkGoes
        <4>3. hostCall'[k].at = "mark"
          BY <3>4, <3>8 DEF AfterRemove
        <4>4. QED
          BY <3>2, <3>3, <3>4, <3>5, <4>1, <4>2, <4>3 DEF CallIsTrue, Nothing, CallIsAt
      <3>9. QED
        BY <1>24, <3>6, <3>7, <3>8 DEF TakeDown, RemoveSteps
    <2>2. QED
      BY <2>1 DEF CallIsTrue
  <1>25. ASSUME NEW k \in HostCalls, MarkDeleting(k) PROVE CallIsTrue'
    <2>1. \/ Keeps("DELETING") /\ CallTo(k, "end")
          \/ hostRow = NoRow /\ UNCHANGED hostRow /\ CallEnds(k)
      BY <1>25, MarkedRow DEF MarkDeleting, RowStatuses, HostInv
    <2>2. /\ CallIsAt(k, "mark")
          /\ UNCHANGED <<hostKind, hostClean, upgradedDown, main, proxy, network>>
      BY <1>25 DEF MarkDeleting, containers
    <2>3. hostClean /\ ~upgradedDown /\ hostKind = "docker" =>
            Nothing /\ \A j \in HostCalls : hostCall[j].op # "upgrade"
      BY <2>2 DEF HostInv, CallIsTrue, Nothing, Standing, Bare, Proxied, NoBox
    <2>4. /\ hostCall'[k].at \in {"end", "rest"}
          /\ hostCall'[k].op \in {hostCall[k].op, "none"}
          /\ \A j \in HostCalls \ {k} : hostCall'[j] = hostCall[j]
      BY <2>1 DEF CallTo, CallEnds, CallRest, HostInv, HostTypeOK
    <2>5. QED
      BY <2>2, <2>3, <2>4 DEF CallIsTrue, CallIsAt, Nothing, HostInv
  <1>26. ASSUME NEW k \in HostCalls, RestartMain(k) PROVE CallIsTrue'
    BY <1>26 DEF RestartMain, CallIsAt, CallTo, CallEnds, CallRest, MainCanStart, Nothing, Standing, Bare,
       Proxied, NoBox, NoProxy, HostInv, HostTypeOK, CallIsTrue
  <1>27. ASSUME NEW k \in HostCalls, RestartProxy(k) PROVE CallIsTrue'
    <2>1. hostClean /\ ~upgradedDown /\ hostKind = "docker" => hostCall[k].op = "upgrade" /\ Standing(hostRow.mws)
      BY <1>27 DEF RestartProxy, CallIsAt, HostInv, CallIsTrue
    <2>2. hostClean /\ ~upgradedDown /\ hostKind = "docker" => proxy' = proxy
      BY <1>27, <2>1 DEF RestartProxy, ProxyCanStart, Standing, Bare, Proxied
    <2>3. /\ hostCall' = [hostCall EXCEPT ![k].at = "end"]
          /\ UNCHANGED <<hostKind, hostRow, main, network, hostClean, upgradedDown>>
      BY <1>27 DEF RestartProxy, CallTo
    <2>4. QED
      BY <2>1, <2>2, <2>3 DEF CallIsTrue, CallIsAt, Standing, Bare, Proxied, Nothing, HostInv
  <1>28. ASSUME NEW k \in HostCalls, Finish(k) PROVE CallIsTrue'
    <2>1. \/ hostRow = NoRow /\ UNCHANGED hostRow
          \/ hostCall[k].op = "stop" /\ Keeps("STOPPED")
          \/ hostCall[k].op = "delete" /\ hostRow' = NoRow
          \/ hostCall[k].op = "upgrade" /\ Notes("RUNNING")
      BY <1>28, MarkedRow, RecordedRow DEF Finish, RowStatuses, HostInv
    <2>2. QED
      BY <1>28, <2>1 DEF Finish, CallIsAt, CallEnds, CallRest, HostInv, HostTypeOK, OneAtWork, CallIsTrue,
         CallNames, Keeps
  <1>29. ASSUME NEW k \in HostCalls, SaveMiddlewareConfig(k) PROVE CallIsTrue'
    <2>1. \/ /\ hostRow # NoRow /\ hostRow' # NoRow /\ hostRow'.status = "CREATING"
             /\ hostRun' = IF hostRun.at = "rest" THEN [hostRun EXCEPT !.at = "load"] ELSE hostRun
          \/ hostRow = NoRow /\ UNCHANGED <<hostRow, hostRun>>
      BY <1>29, SavedRowIsNew DEF SaveMiddlewareConfig, RunIsAt, RunTo, HostInv
    <2>2. QED
      BY <1>29, <2>1 DEF SaveMiddlewareConfig, CallIsAt, CallEnds, CallRest, RunIsAt, HostInv, OneAtWork,
         CallIsTrue, CallNames
  <1>30. CASE UNCHANGED hostVars
    BY <1>30 DEF hostVars, Nothing, Standing, Bare, Proxied, CallIsAt, RunIsAt, HostInv, OneAtWork, CallIsTrue,
       CallNames
  <1>31. QED
    BY <1>1, <1>2, <1>3, <1>4, <1>5, <1>6, <1>7, <1>8, <1>9, <1>10, <1>11, <1>12, <1>13, <1>14, <1>15, <1>16,
       <1>17, <1>18, <1>19, <1>20, <1>21, <1>22, <1>23, <1>24, <1>25, <1>26, <1>27, <1>28, <1>29, <1>30
       DEF HostNext

LEMMA HostInvInit == HostInit => HostInv
  <1> SUFFICES ASSUME HostInit PROVE HostInv
    OBVIOUS
  <1>1. PICK mws \in SUBSET HostMws : hostRow = [status |-> "CREATING", mws |-> mws, known |-> FALSE]
    BY DEF HostInit
  <1>2. hostRow \in HostRows /\ hostRow # NoRow /\ hostRow.status = "CREATING"
    <2>1. hostRow \in HostRows /\ hostRow.status = "CREATING"
      BY <1>1 DEF HostRows
    <2>2. QED
      BY <2>1, HostAssumption
  <1>3. HostTypeOK
    BY <1>2, HostAssumption DEF HostInit, HostTypeOK, NoBox, NoProxy, RunRest, CallRest
  <1>4. Nothing /\ RunIsAt("rest") /\ NoCall /\ \A k \in HostCalls : hostCall[k] = CallRest
    BY DEF HostInit, Nothing, RunIsAt, RunRest, NoCall, CallIsAt, CallRest
  <1>5. LocalBot /\ OneAtWork /\ RowIsTrue /\ RunReadsRow /\ RunIsTrue /\ CallIsTrue /\ CallNames
    BY <1>2, <1>4 DEF LocalBot, OneAtWork, RowIsTrue, RunReadsRow, RunIsTrue, RunIsUnder, CallIsTrue,
       CallNames, CallIsAt, CallRest, RunIsAt, NoCall, IsNewInstance
  <1>6. QED
    BY <1>3, <1>5 DEF HostInv

LEMMA HostStep == HostInv /\ [HostNext]_hostVars => HostInv'
  <1> SUFFICES ASSUME HostInv, [HostNext]_hostVars PROVE HostInv'
    OBVIOUS
  <1>1. HostTypeOK /\ LocalBot /\ OneAtWork /\ CallNames /\ RunReadsRow
    BY DEF HostInv
  <1>2. HostTypeOK' /\ LocalBot' /\ OneAtWork' /\ CallNames' /\ RunReadsRow'
    BY <1>1, HostTypeStep, LocalBotStep, OneAtWorkStep, CallNamesStep, RunReadsRowStep
  <1>3. RowIsTrue' /\ RunIsTrue' /\ CallIsTrue'
    BY RowIsTrueStep, RunIsTrueStep, CallIsTrueStep
  <1>4. QED
    BY <1>2, <1>3 DEF HostInv

LEMMA HostAlways == HostSpec => []HostInv
  <1>1. QED
    BY HostInvInit, HostStep, PTL DEF HostSpec

\* What the host runs is what the row says, for any number of lifecycle calls, any
\* middlewares and any number of failing steps and deaths of the process, as long as
\* calls do not overlap, every removal works, no call ends (a check that refuses the
\* row, the death of the process) while what it was to replace or remove still stands,
\* and no bot is given another version while it is not RUNNING.
THEOREM HostRunsTheRow == HostSpec => []HostMatchesRow
  <1>1. HostInv => HostMatchesRow
    <2> SUFFICES ASSUME HostInv, hostClean, ~upgradedDown, RunIsAt("rest"), NoCall PROVE HostMatchesRow
      BY DEF HostMatchesRow
    <2>1. CASE hostRow = NoRow
      <3>1. hostKind = "local" => Nothing
        BY DEF HostInv, LocalBot
      <3>2. hostKind = "docker" => Nothing
        BY <2>1 DEF HostInv, RowIsTrue, RunIsAt
      <3>3. hostKind \in {"docker", "local"}
        BY DEF HostInv, HostTypeOK
      <3>4. QED
        BY <2>1, <3>1, <3>2, <3>3 DEF HostMatchesRow, Nothing
    <2>2. CASE hostRow # NoRow
      <3>1. hostKind = "docker" => /\ hostRow.status = "STOPPED" => Nothing
                                   /\ hostRow.status = "RUNNING" => Standing(hostRow.mws)
        BY <2>2 DEF HostInv, RowIsTrue, RunIsAt
      <3>2. hostKind = "local" /\ hostRow.status = "RUNNING" => unit = "active"
        BY <2>2 DEF HostInv, LocalBot
      <3>3. QED
        BY <2>2, <3>1, <3>2 DEF HostMatchesRow, Nothing, Standing, Bare, Proxied
    <2>3. QED
      BY <2>1, <2>2
  <1>2. QED
    BY <1>1, HostAlways, PTL

-----------------------------------------------------------------------------
(* The targets and the personas together *)

\* What one target promises it promises among the others: the behaviours that the
\* runs check are behaviours of each part.
THEOREM CloudKeepsItsSpecs == CloudSpec => AzureSpec /\ Ec2Spec /\ GceSpec /\ HostSpec /\ PersonaSpec
  <1>1. CloudInit => AzureInit /\ Ec2Init /\ GceInit /\ HostInit /\ PersonaInit
    BY DEF CloudInit
  <1>2. [CloudNext]_cloudVars =>
          /\ [AzureNext]_azVars /\ [Ec2Next]_ec2Vars /\ [GceNext]_gceVars
          /\ [HostNext]_hostVars /\ [PersonaNext]_personaVars
    BY DEF CloudNext, cloudVars
  <1>3. QED
    BY <1>1, <1>2, PTL DEF CloudSpec, AzureSpec, Ec2Spec, GceSpec, HostSpec, PersonaSpec

\* In the composition that the runs check: what bots share outlives each of them on
\* Azure, AWS and GCE, the containers and units of a host match what its row says, an
\* injection is whole or gone, and what installs, destroys and resizes promise they keep,
\* each under the conditions that its property states.
THEOREM CloudIsSafe ==
  CloudSpec =>
    /\ [](VmsKeepShared /\ InstanceKeepsShared /\ GroupKeepsNetwork /\ HostMatchesRow /\ InjectionsAreWhole)
    /\ DestroyLeavesNothing /\ InstallFindsItsNeeds /\ DestroyEndsInstances /\ ResizeComesBack
  BY CloudKeepsItsSpecs, SharedOutlivesAzureBots, SharedOutlivesEc2Bots, NetworkOutlivesGceBots,
     HostRunsTheRow, InjectionsWholeOrGone, AzureDestroyIsClean, InstallEndsWithVm, Ec2DestroyIsClean,
     GceResizeIsSafe, PTL
=============================================================================
