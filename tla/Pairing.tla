------------------------------- MODULE Pairing -------------------------------
(***************************************************************************)
(* Device pairings of one channel of one instance: the DevicePairing rows  *)
(* that PairingService changes, and the allowFrom list in the gateway's    *)
(* configuration that it keeps in step with them.  Rows are changed        *)
(* first; the list is then read, changed and written back under the hash   *)
(* of what was read, and a failure of that is swallowed.                   *)
(***************************************************************************)
EXTENDS Naturals, FiniteSets

CONSTANTS
  Senders,
  PairCalls,   \* calls of the service that can overlap
  MaxPending,  \* MAX_PENDING_PER_CHANNEL
  PairBudget   \* how often each kind of step may be taken

PairKinds == {"call", "fail", "expire", "other"}

ASSUME PairAssumption == MaxPending \in Nat \ {0} /\ PairBudget \in [PairKinds -> Nat]

VARIABLES
  state,     \* DevicePairing.state, "none" without a row
  config,    \* the gateway's configuration: the list, and all the rest of it
  pair,      \* the calls in flight
  pairCalm,  \* history: no calls overlapped, no step failed
  pairLeft

pairVars == <<state, config, pair, pairCalm, pairLeft>>

States == {"none", "PENDING", "APPROVED", "REJECTED", "REVOKED", "EXPIRED"}
Configs == [allow : SUBSET Senders, rest : {0, 1}]

PairIdle == [op |-> "none", pc |-> "idle", of |-> {}, read |-> [allow |-> {}, rest |-> 0]]

PairStates ==
  [op : {"none", "approve", "revoke", "reject", "batch", "create", "code", "pull"},
   pc : {"idle", "rows", "get", "patch", "upsert"}, of : SUBSET Senders, read : Configs]

PairTypeOK ==
  /\ state \in [Senders -> States]
  /\ config \in Configs
  /\ pair \in [PairCalls -> PairStates]
  /\ pairCalm \in BOOLEAN
  /\ pairLeft \in [PairKinds -> Nat]

PairSpend(k) == pairLeft[k] > 0 /\ pairLeft' = [pairLeft EXCEPT ![k] = @ - 1]

In(s) == {x \in Senders : state[x] = s}
Put(S, s) == state' = [x \in Senders |-> IF x \in S THEN s ELSE state[x]]
AllPairsIdle == \A c \in PairCalls : pair[c] = PairIdle

Becomes(c, pc) == pair' = [pair EXCEPT ![c].pc = pc]
Leaves(c) == pair' = [pair EXCEPT ![c] = PairIdle]

-----------------------------------------------------------------------------
(* A call begins with what it reads of the rows; it may throw there. *)

Begin(c, op, S, pc) ==
  /\ PairSpend("call")
  /\ pair[c] = PairIdle
  /\ pair' = [pair EXCEPT ![c] = [PairIdle EXCEPT !.op = op, !.of = S, !.pc = pc]]
  /\ pairCalm' = (pairCalm /\ AllPairsIdle)
  /\ UNCHANGED <<state, config>>

\* approvePairing looks at nothing.
ApprovePairing(c, s) == Begin(c, "approve", {s}, "rows")
\* rejectPairing wants a row, in whatever state.
RejectPairing(c, s) == state[s] # "none" /\ Begin(c, "reject", {s}, "rows")
RevokePairing(c, s) == state[s] = "APPROVED" /\ Begin(c, "revoke", {s}, "rows")
ApproveByCode(c, s) == state[s] = "PENDING" /\ Begin(c, "code", {s}, "rows")
BatchApproveAll(c) == Begin(c, "batch", In("PENDING"), "rows")
\* Only rows that are pending count, that of the sender too.
CreatePendingPairing(c, s) ==
  Cardinality(In("PENDING")) < MaxPending /\ Begin(c, "create", {s}, "rows")
SyncPairingsFromGateway(c) == Begin(c, "pull", {}, "get")

\* Faulty variant: the senders are looked up after they have been approved.
WriteRowsThenRead(c) ==
  LET S == pair[c].of
      op == pair[c].op IN
  /\ pair[c].pc = "rows"
  /\ CASE op \in {"approve", "code"} -> Put(S, "APPROVED")
       [] op = "batch" -> Put(In("PENDING"), "APPROVED")
       [] op = "revoke" -> Put(S, "REVOKED")
       [] op = "reject" -> Put(S, "REJECTED")
       [] op = "create" -> Put(S, "PENDING")
  /\ IF op \in {"reject", "create", "batch"} THEN Leaves(c) ELSE Becomes(c, "get")
  /\ UNCHANGED <<config, pairCalm, pairLeft>>

\* Then it writes the rows, whatever they have become: only the batch asks again
\* which are pending, and still goes on with the senders it read before.
WriteRows(c) ==
  LET S == pair[c].of
      op == pair[c].op IN
  /\ pair[c].pc = "rows"
  /\ CASE op \in {"approve", "code"} -> Put(S, "APPROVED")
       [] op = "batch" -> Put(In("PENDING"), "APPROVED")
       [] op = "revoke" -> Put(S, "REVOKED")
       [] op = "reject" -> Put(S, "REJECTED")
       [] op = "create" -> Put(S, "PENDING")
  /\ IF op \in {"reject", "create"} \/ S = {} THEN Leaves(c) ELSE Becomes(c, "get")
  /\ UNCHANGED <<config, pairCalm, pairLeft>>

-----------------------------------------------------------------------------
(* syncApprovalToGateway, syncRevocationToGateway, syncPairingsFromGateway *)

ConfigGet(c) ==
  /\ pair[c].pc = "get"
  /\ IF pair[c].op # "pull"
     THEN pair' = [pair EXCEPT ![c].pc = "patch", ![c].read = config]
     ELSE IF config.allow = {} THEN Leaves(c)
     ELSE pair' = [pair EXCEPT ![c].pc = "upsert", ![c].of = config.allow]
  /\ UNCHANGED <<state, config, pairCalm, pairLeft>>

NewList(c) == IF pair[c].op = "revoke" THEN pair[c].read.allow \ pair[c].of
              ELSE pair[c].read.allow \cup pair[c].of

\* Faulty variant: without baseHash the gateway takes any patch.
PatchBlindly(c) ==
  /\ pair[c].pc = "patch"
  /\ config' = [config EXCEPT !.allow = NewList(c)]
  /\ Leaves(c)
  /\ UNCHANGED <<state, pairCalm, pairLeft>>

\* The gateway refuses a patch whose baseHash is not that of its configuration,
\* and nobody tries again.
ConfigPatch(c) ==
  /\ pair[c].pc = "patch"
  /\ config' = IF pair[c].read = config THEN [config EXCEPT !.allow = NewList(c)] ELSE config
  /\ Leaves(c)
  /\ UNCHANGED <<state, pairCalm, pairLeft>>

\* One awaited upsert per sender on the list.
UpsertListed(c, s) ==
  /\ pair[c].pc = "upsert" /\ s \in pair[c].of
  /\ Put({s}, "APPROVED")
  /\ IF pair[c].of = {s} THEN Leaves(c) ELSE pair' = [pair EXCEPT ![c].of = @ \ {s}]
  /\ UNCHANGED <<config, pairCalm, pairLeft>>

\* The database or the gateway fails: the call ends where it is.
PairThrows(c) ==
  /\ PairSpend("fail")
  /\ pair[c] # PairIdle
  /\ Leaves(c)
  /\ pairCalm' = FALSE
  /\ UNCHANGED <<state, config>>

-----------------------------------------------------------------------------
(* The others *)

\* expireStale, for the rows whose time is over.
ExpireStale(S) ==
  /\ PairSpend("expire")
  /\ S # {} /\ S \subseteq In("PENDING")
  /\ Put(S, "EXPIRED")
  /\ UNCHANGED <<config, pair, pairCalm>>

\* Another writer changes another part of the configuration.
OtherPatch ==
  /\ PairSpend("other")
  /\ config' = [config EXCEPT !.rest = 1 - @]
  /\ pairCalm' = (pairCalm /\ AllPairsIdle)
  /\ UNCHANGED <<state, pair>>

-----------------------------------------------------------------------------
PairInit ==
  /\ state = [s \in Senders |-> "none"]
  /\ config = [allow |-> {}, rest |-> 0]
  /\ pair = [c \in PairCalls |-> PairIdle]
  /\ pairCalm = TRUE
  /\ pairLeft = PairBudget

PairNext ==
  \/ \E c \in PairCalls, s \in Senders :
       \/ ApprovePairing(c, s) \/ RejectPairing(c, s) \/ RevokePairing(c, s)
       \/ ApproveByCode(c, s) \/ CreatePendingPairing(c, s) \/ UpsertListed(c, s)
  \/ \E c \in PairCalls :
       \/ BatchApproveAll(c) \/ SyncPairingsFromGateway(c)
       \/ WriteRows(c) \/ ConfigGet(c) \/ ConfigPatch(c) \/ PairThrows(c)
  \/ \E S \in SUBSET Senders : ExpireStale(S)
  \/ OtherPatch

PairSpec == PairInit /\ [][PairNext]_pairVars

-----------------------------------------------------------------------------
(* Properties *)

\* Rows and list agree when the service is at rest, as long as its calls did not
\* overlap and nothing failed: who is approved is allowed, who was revoked is not.
\* (A rejected sender may still be allowed: rejectPairing does not sync.)
RowsMatchGateway ==
  pairCalm /\ AllPairsIdle =>
    In("APPROVED") \subseteq config.allow /\ In("REVOKED") \cap config.allow = {}

\* Two calls that read and write the list at once never undo each other, and
\* nobody's other settings are lost: a patch takes effect as if it were atomic.
NoLostListUpdate ==
  [][\A c \in PairCalls :
       pair[c].pc = "patch" /\ pair'[c] = PairIdle /\ config' # config
         => /\ config'.rest = config.rest
            /\ config'.allow = IF pair[c].op = "revoke" THEN config.allow \ pair[c].of
                               ELSE config.allow \cup pair[c].of]_pairVars
=============================================================================
