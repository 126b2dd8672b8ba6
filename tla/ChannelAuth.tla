----------------------------- MODULE ChannelAuth -----------------------------
(***************************************************************************)
(* Signing a channel in.  ChannelAuthService keeps one session per         *)
(* channel; for WhatsApp a second session, with the QR code, lives in      *)
(* WhatsAppAuthService, and each has timers of its own.  The channel's row *)
(* learns of success or failure by a database write that is awaited after  *)
(* the sessions have changed.  Between two database calls a handler runs   *)
(* without interruption.  A timer that is set may fire at any later        *)
(* moment.                                                                 *)
(***************************************************************************)
EXTENDS Naturals

CONSTANTS
  AuthIds,        \* sessions of ChannelAuthService, each created once
  NoSession,
  MaxQrRefreshes,
  AuthOps         \* how many calls the user makes

ASSUME AuthAssumption ==
  NoSession \notin AuthIds /\ MaxQrRefreshes \in Nat \ {0} /\ AuthOps \in Nat

VARIABLES
  authKind,  \* "whatsapp", or "token" for telegram, discord and slack
  session,   \* ChannelAuthService.sessions.get(channelId)
  fresh,     \* ids not used yet
  expiries,  \* pending expiration timers, by the session they were set for
  overdue,   \* sessions whose expiresAt has passed
  qr,        \* WhatsAppAuthService.sessions.get(channelId)
  qrTimers,  \* its pending timers
  row,       \* CommunicationChannel.status
  writes,    \* status writes under way
  checking,  \* validateToken calls awaiting the platform's answer
  authOps

authVars == <<authKind, session, fresh, expiries, overdue, qr, qrTimers, row, writes, checking, authOps>>

AuthStates == {"none", "pending", "pairing", "paired", "expired", "error"}
NoAuth == [id |-> NoSession, state |-> "none"]
NoQr == [state |-> "none", count |-> 0]

AuthTypeOK ==
  /\ authKind \in {"whatsapp", "token"}
  /\ session \in [id : AuthIds \cup {NoSession}, state : AuthStates]
  /\ fresh \subseteq AuthIds /\ expiries \subseteq AuthIds /\ overdue \subseteq AuthIds
  /\ qr \in [state : AuthStates, count : 0..MaxQrRefreshes]
  /\ qrTimers \in SUBSET {"refresh", "session"}
  /\ row \in {"PENDING", "ACTIVE", "ERROR"}
  /\ writes \in SUBSET {"ACTIVE", "ERROR"}
  /\ checking \in 0..2
  /\ authOps \in Nat

AuthCall == authOps > 0 /\ authOps' = authOps - 1
SessionIs(s) == session' = [session EXCEPT !.state = s]

-----------------------------------------------------------------------------
(* ChannelAuthService *)

\* startAuth: the old session is dropped, its timer stays.  A channel that has
\* all its secrets is paired at once, without a word to its row.
StartAuth(id, s) ==
  /\ AuthCall
  /\ id \in fresh
  /\ s \in IF authKind = "whatsapp" THEN {"pairing"} ELSE {"pending", "paired"}
  /\ session' = [id |-> id, state |-> s]
  /\ fresh' = fresh \ {id}
  /\ expiries' = expiries \cup {id}
  /\ IF authKind = "whatsapp"
     THEN qr' = [state |-> "pairing", count |-> 0] /\ qrTimers' = {"refresh", "session"}
     ELSE UNCHANGED <<qr, qrTimers>>
  /\ UNCHANGED <<authKind, overdue, row, writes, checking>>

\* The timer looks whether the session is still the one it was set for.
Expire(id) ==
  /\ id \in expiries
  /\ expiries' = expiries \ {id}
  /\ overdue' = overdue \cup {id}
  /\ IF session.id = id /\ session.state # "paired" THEN SessionIs("expired")
     ELSE UNCHANGED session
  /\ UNCHANGED <<authKind, fresh, qr, qrTimers, row, writes, checking, authOps>>

\* validateToken asks the platform; several may be waiting for their answers.
ValidateToken ==
  /\ AuthCall
  /\ authKind = "token" /\ checking < 2
  /\ checking' = checking + 1
  /\ UNCHANGED <<authKind, session, fresh, expiries, overdue, qr, qrTimers, row, writes>>

\* Without a session one is created, which no timer expires.
Kept(s) ==
  IF session.id # NoSession THEN SessionIs(s) /\ UNCHANGED fresh
  ELSE \E id \in fresh : session' = [id |-> id, state |-> s] /\ fresh' = fresh \ {id}

Validated(s) ==
  /\ checking > 0
  /\ checking' = checking - 1
  /\ Kept(s)
  /\ writes' = IF s = "paired" THEN writes \cup {"ACTIVE"} ELSE writes
  /\ UNCHANGED <<authKind, expiries, overdue, qr, qrTimers, row, authOps>>

\* getAuthStatus is a poll, and it writes.
GetAuthStatus ==
  LET late == session.state \notin {"paired", "error"} /\ session.id \in overdue
      seen == IF late THEN "expired" ELSE session.state
  IN
  /\ session # NoAuth
  /\ SessionIs(IF authKind = "whatsapp" /\ seen = "pairing" /\ qr.state = "paired"
               THEN "paired" ELSE seen)
  /\ UNCHANGED <<authKind, fresh, expiries, overdue, qr, qrTimers, row, writes, checking, authOps>>

\* Faulty variant: the QR session is not told.
CompleteHere ==
  /\ AuthCall
  /\ session # NoAuth
  /\ SessionIs("paired")
  /\ writes' = writes \cup {"ACTIVE"}
  /\ UNCHANGED <<authKind, fresh, expiries, overdue, qr, qrTimers, row, checking>>

\* completeAuth and failAuth change both sessions, and then the row.
Finish(s, status) ==
  /\ session # NoAuth
  /\ SessionIs(s)
  /\ IF authKind = "whatsapp" /\ qr # NoQr
     THEN qr' = [qr EXCEPT !.state = s] /\ qrTimers' = {}
     ELSE UNCHANGED <<qr, qrTimers>>
  /\ writes' = writes \cup {status}
  /\ UNCHANGED <<authKind, fresh, expiries, overdue, row, checking>>

CompleteAuth == AuthCall /\ Finish("paired", "ACTIVE")
FailAuth == AuthCall /\ Finish("error", "ERROR")

StatusWritten(status) ==
  /\ status \in writes
  /\ writes' = writes \ {status}
  /\ row' = status
  /\ UNCHANGED <<authKind, session, fresh, expiries, overdue, qr, qrTimers, checking, authOps>>

-----------------------------------------------------------------------------
(* WhatsAppAuthService *)

\* What refreshQr makes of the session: the last refresh ends it.
Refreshed ==
  CASE qr.state = "paired" -> qr
    [] qr.state # "paired" /\ qr.count >= MaxQrRefreshes -> [qr EXCEPT !.state = "expired"]
    [] OTHER -> [qr EXCEPT !.count = @ + 1]

\* refreshQr by the user: the answer goes into the other session.
RefreshQr ==
  /\ AuthCall
  /\ authKind = "whatsapp"
  /\ IF qr = NoQr THEN Kept("expired") /\ UNCHANGED <<qr, qrTimers>>
     ELSE /\ qr' = Refreshed
          /\ qrTimers' = IF qr.state # "paired" /\ qr.count >= MaxQrRefreshes THEN {} ELSE qrTimers
          /\ Kept(qr'.state)
  /\ UNCHANGED <<authKind, expiries, overdue, row, writes, checking>>

\* The refresh timer sets itself again while the session is pairing.
AutoRefresh ==
  /\ "refresh" \in qrTimers
  /\ IF qr.state # "pairing" THEN qrTimers' = qrTimers \ {"refresh"} /\ UNCHANGED qr
     ELSE /\ qr' = Refreshed
          /\ qrTimers' = IF qr'.state = "pairing" THEN qrTimers ELSE {}
  /\ UNCHANGED <<authKind, session, fresh, expiries, overdue, row, writes, checking, authOps>>

SessionTimeout ==
  /\ "session" \in qrTimers
  /\ IF qr.state # "paired" THEN qr' = [qr EXCEPT !.state = "expired"] /\ qrTimers' = {}
     ELSE qrTimers' = qrTimers \ {"session"} /\ UNCHANGED qr
  /\ UNCHANGED <<authKind, session, fresh, expiries, overdue, row, writes, checking, authOps>>

-----------------------------------------------------------------------------
AuthInit ==
  /\ authKind \in {"whatsapp", "token"}
  /\ session = NoAuth
  /\ fresh = AuthIds /\ expiries = {} /\ overdue = {}
  /\ qr = NoQr /\ qrTimers = {}
  /\ row = "PENDING" /\ writes = {}
  /\ checking = 0
  /\ authOps = AuthOps

AuthNext ==
  \/ \E id \in AuthIds : Expire(id) \/ \E s \in AuthStates : StartAuth(id, s)
  \/ ValidateToken \/ \E s \in {"paired", "error"} : Validated(s)
  \/ GetAuthStatus \/ CompleteAuth \/ FailAuth
  \/ \E status \in {"ACTIVE", "ERROR"} : StatusWritten(status)
  \/ RefreshQr \/ AutoRefresh \/ SessionTimeout

AuthSpec == AuthInit /\ [][AuthNext]_authVars

-----------------------------------------------------------------------------
(* Properties *)

\* The two sessions of a WhatsApp channel never disagree about success, through
\* any order of refreshes, timeouts, restarts, polls and completions: who is told
\* "paired" is not left with a QR session that goes on or has given up.
PairedInBoth ==
  authKind = "whatsapp" /\ session.state = "paired" => qr.state \in {"paired", "none"}
=============================================================================
