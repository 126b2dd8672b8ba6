---------------------------- MODULE Provisioning ----------------------------
(***************************************************************************)
(* The progress of one instance's deployment: the record that              *)
(* ProvisioningEventsService keeps in memory, the timers that end and      *)
(* delete it, the log lines it buffers, the Socket.IO gateway, and a page  *)
(* of the web interface that follows both (useProvisioningEvents).         *)
(*                                                                         *)
(* A run is one call of provision or updateResources; the second is not    *)
(* guarded, so runs may overlap.  Time is left out: a timer that is set    *)
(* may fire at any later moment.  A socket delivers in order.              *)
(***************************************************************************)
EXTENDS Naturals, Sequences

CONSTANTS
  ProvRuns,       \* runs, each started once
  NoRun,
  LogLines,       \* how many lines the targets print
  LogCap,         \* MAX_LOG_LINES
  MaxReconnects,  \* MAX_RECONNECT_ATTEMPTS of the page
  MaxPollFails,   \* MAX_POLL_FAILURES of the page
  ProvDrops       \* how often the network may fail the page

ASSUME ProvAssumption ==
  /\ NoRun \notin ProvRuns
  /\ LogCap \in Nat \ {0} /\ MaxPollFails \in Nat \ {0}
  /\ LogLines \in Nat /\ MaxReconnects \in Nat /\ ProvDrops \in Nat

VARIABLES
  record,    \* progress.get(instanceId)
  timers,    \* pending timeout and deletion timers
  current,   \* timeouts.get(instanceId): the run whose timer it is
  runs,      \* runs in flight
  unused,    \* runs not started yet
  rowError,  \* BotInstance.status is ERROR
  buffer,    \* logs.get(instanceId)
  printed,   \* lines printed so far, numbered from 1
  page,      \* the browser tab
  drops      \* what remains of ProvDrops

provVars == <<record, timers, current, runs, unused, rowError, buffer, printed, page, drops>>

Ended == {"completed", "error", "timeout"}
NoRecord == [status |-> "none", run |-> NoRun]
Lines == 1..LogLines

PageGone ==
  [open |-> FALSE, socket |-> "off", joined |-> FALSE, polls |-> FALSE, answer |-> "none",
   fails |-> 0, retry |-> FALSE, attempts |-> 0, hangUp |-> FALSE,
   got |-> [l \in Lines |-> 0]]

ProvTypeOK ==
  /\ record \in [status : {"none", "in_progress"} \cup Ended, run : ProvRuns \cup {NoRun}]
  /\ timers \in SUBSET [kind : {"timeout", "deleteEnded", "deleteTimedOut"}, run : ProvRuns]
  /\ current \in ProvRuns \cup {NoRun}
  /\ runs \in SUBSET ProvRuns /\ unused \in SUBSET ProvRuns
  /\ rowError \in BOOLEAN
  /\ buffer \in Seq(Lines) /\ Len(buffer) <= LogCap
  /\ printed \in 0..LogLines
  /\ page \in [open : BOOLEAN, socket : {"off", "opening", "on"}, joined : BOOLEAN,
               polls : BOOLEAN, answer : {"none", "unknown", "in_progress"} \cup Ended,
               fails : 0..MaxPollFails, retry : BOOLEAN, attempts : 0..MaxReconnects,
               hangUp : BOOLEAN, got : [Lines -> 0..2]]
  /\ drops \in 0..ProvDrops

-----------------------------------------------------------------------------
(* Emissions reach the page while its socket is in the room; what it shows is   *)
(* left out. *)

\* onProgress: a final state hangs the socket up a second later.
Emit(status) ==
  page' = IF page.joined /\ status \in Ended THEN [page EXCEPT !.hangUp = TRUE] ELSE page

Timer(kind, r) == [kind |-> kind, run |-> r]

-----------------------------------------------------------------------------
(* ProvisioningEventsService *)

\* startProvisioning and startResourceUpdate: a new record takes the place of
\* the old one; the old one's timer is forgotten, not cleared.
Start(r) ==
  /\ r \in unused
  /\ unused' = unused \ {r}
  /\ runs' = runs \cup {r}
  /\ record' = [status |-> "in_progress", run |-> r]
  /\ timers' = timers \cup {Timer("timeout", r)}
  /\ current' = r
  /\ rowError' = FALSE
  /\ Emit("in_progress")
  /\ UNCHANGED <<buffer, printed, drops>>

\* updateStep changes whatever record is there.
UpdateStep(r) ==
  /\ r \in runs
  /\ record # NoRecord
  /\ Emit(record.status)
  /\ UNCHANGED <<record, timers, current, runs, unused, rowError, buffer, printed, drops>>

\* completeProvisioning and failProvisioning, with the end of the run.
End(r, status) ==
  /\ r \in runs
  /\ runs' = runs \ {r}
  /\ rowError' = (status = "error")
  /\ IF record = NoRecord THEN UNCHANGED <<record, timers, current, page>>
     ELSE /\ record' = [record EXCEPT !.status = status]
          /\ timers' = (timers \ {Timer("timeout", current)}) \cup {Timer("deleteEnded", r)}
          /\ current' = NoRun
          /\ Emit(status)
  /\ UNCHANGED <<unused, buffer, printed, drops>>

\* Faulty variant: a record that timed out is kept.
TimeoutKeeps(r) ==
  /\ Timer("timeout", r) \in timers
  /\ timers' = timers \ {Timer("timeout", r)}
  /\ IF record.status # "in_progress" THEN UNCHANGED <<record, page>>
     ELSE record' = [record EXCEPT !.status = "timeout"] /\ Emit("timeout")
  /\ UNCHANGED <<current, runs, unused, rowError, buffer, printed, drops>>

\* timeoutProvisioning: it ends the record that is there, whosever it is.
Timeout(r) ==
  /\ Timer("timeout", r) \in timers
  /\ IF record.status # "in_progress"
     THEN timers' = timers \ {Timer("timeout", r)} /\ UNCHANGED <<record, page>>
     ELSE /\ timers' = (timers \ {Timer("timeout", r)}) \cup {Timer("deleteTimedOut", r)}
          /\ record' = [record EXCEPT !.status = "timeout"]
          /\ Emit("timeout")
  /\ UNCHANGED <<current, runs, unused, rowError, buffer, printed, drops>>

\* The deletion deletes the record and the lines that are there.
Delete(r) ==
  /\ \E kind \in {"deleteEnded", "deleteTimedOut"} :
       /\ Timer(kind, r) \in timers
       /\ timers' = timers \ {Timer(kind, r)}
  /\ record' = NoRecord
  /\ buffer' = <<>>
  /\ UNCHANGED <<current, runs, unused, rowError, printed, page, drops>>

EmitLog(r) ==
  /\ r \in runs
  /\ printed < LogLines
  /\ printed' = printed + 1
  /\ LET longer == Append(buffer, printed')
     IN  buffer' = IF Len(longer) > LogCap THEN Tail(longer) ELSE longer
  /\ page' = IF page.joined THEN [page EXCEPT !.got[printed'] = @ + 1] ELSE page
  /\ UNCHANGED <<record, timers, current, runs, unused, rowError, drops>>

-----------------------------------------------------------------------------
(* ProvisioningEventsGateway.  handleSubscribe runs without an await. *)

\* Faulty variant: the buffered lines are not sent.
SubscribeBare ==
  /\ page.socket = "on" /\ ~page.joined
  /\ page' = [page EXCEPT !.joined = TRUE]
  /\ UNCHANGED <<record, timers, current, runs, unused, rowError, buffer, printed, drops>>

\* The buffered lines are sent, then the socket joins the room.
Subscribe ==
  /\ page.socket = "on" /\ ~page.joined
  /\ page' = [page EXCEPT !.joined = TRUE,
                          !.got = [l \in Lines |-> IF \E i \in DOMAIN buffer : buffer[i] = l
                                                   THEN @[l] + 1 ELSE @[l]]]
  /\ UNCHANGED <<record, timers, current, runs, unused, rowError, buffer, printed, drops>>

-----------------------------------------------------------------------------
(* useProvisioningEvents: polling, and a socket that takes over *)

OnlyPage == UNCHANGED <<record, timers, current, runs, unused, rowError, buffer, printed>>

\* The effect starts both at once.
OpenPage ==
  /\ ~page.open
  /\ page' = [PageGone EXCEPT !.open = TRUE, !.polls = TRUE, !.socket = "opening"]
  /\ OnlyPage /\ UNCHANGED drops

ClosePage == page.open /\ page' = PageGone /\ OnlyPage /\ UNCHANGED drops

\* getProvisioningStatus at the server: the record, or what the row says.
Poll ==
  /\ page.polls /\ page.answer = "none"
  /\ page' = [page EXCEPT !.answer =
       IF record # NoRecord THEN record.status ELSE IF rowError THEN "error" ELSE "unknown"]
  /\ OnlyPage /\ UNCHANGED drops

\* The answer arrives, even after the socket has stopped the polling.
PollAnswered ==
  /\ page.answer # "none"
  /\ page' = [page EXCEPT !.answer = "none", !.fails = 0,
                          !.polls = @ /\ page.answer \notin Ended]
  /\ OnlyPage /\ UNCHANGED drops

Drop == drops > 0 /\ drops' = drops - 1

\* The last of MaxPollFails failures in a row gives up with an error.
PollFails ==
  /\ page.polls /\ page.answer = "none"
  /\ Drop
  /\ page' = IF page.fails + 1 < MaxPollFails THEN [page EXCEPT !.fails = @ + 1]
             ELSE [page EXCEPT !.fails = MaxPollFails, !.polls = FALSE]
  /\ OnlyPage

Connect ==
  /\ page.socket = "opening"
  /\ page' = [page EXCEPT !.socket = "on", !.attempts = 0, !.polls = FALSE]
  /\ OnlyPage /\ UNCHANGED drops

ConnectError ==
  /\ page.socket = "opening"
  /\ Drop
  /\ page' = [page EXCEPT !.socket = "off", !.polls = TRUE]
  /\ OnlyPage

\* on("disconnect"): poll again, and try to reconnect after a delay.  "got" counts
\* the lines of one connection.
Lose(p) ==
  [p EXCEPT !.socket = "off", !.joined = FALSE, !.hangUp = FALSE, !.polls = TRUE,
            !.got = [l \in Lines |-> 0], !.retry = p.attempts < MaxReconnects,
            !.attempts = IF p.attempts < MaxReconnects THEN @ + 1 ELSE @]

Disconnect == page.socket = "on" /\ Drop /\ page' = Lose(page) /\ OnlyPage
HangUp == page.socket = "on" /\ page.hangUp /\ page' = Lose(page) /\ OnlyPage /\ UNCHANGED drops

Reconnect ==
  /\ page.retry
  /\ page' = [page EXCEPT !.retry = FALSE, !.socket = "opening"]
  /\ OnlyPage /\ UNCHANGED drops

-----------------------------------------------------------------------------
ProvInit ==
  /\ record = NoRecord /\ timers = {} /\ current = NoRun
  /\ runs = {} /\ unused = ProvRuns
  /\ rowError = FALSE
  /\ buffer = <<>> /\ printed = 0
  /\ page = PageGone
  /\ drops = ProvDrops

ProvNext ==
  \/ \E r \in ProvRuns :
       \/ Start(r) \/ UpdateStep(r) \/ \E s \in {"completed", "error"} : End(r, s)
       \/ Timeout(r) \/ Delete(r) \/ EmitLog(r)
  \/ OpenPage \/ ClosePage \/ Subscribe
  \/ Poll \/ PollAnswered \/ PollFails
  \/ Connect \/ ConnectError \/ Disconnect \/ HangUp \/ Reconnect

\* Timers fire; a run may hang.
ProvFairness == \A r \in ProvRuns : WF_provVars(Timeout(r)) /\ WF_provVars(Delete(r))

ProvSpec == ProvInit /\ [][ProvNext]_provVars /\ ProvFairness

-----------------------------------------------------------------------------
(* Properties *)

\* Whatever timers and runs did to each other's record, the last one goes in the
\* end, even under a run that hangs: the map does not keep a dead record.
ProgressForgotten == <>[](record = NoRecord)

\* While its socket is in the room a page has received each buffered line, and
\* none twice over this connection, although lines are printed, trimmed and
\* deleted around the subscription.
JoinedSeesEachLineOnce ==
  page.joined => /\ \A i \in DOMAIN buffer : page.got[buffer[i]] = 1
                 /\ \A l \in Lines : page.got[l] <= 1
=============================================================================
