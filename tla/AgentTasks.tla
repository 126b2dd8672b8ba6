----------------------------- MODULE AgentTasks -----------------------------
(***************************************************************************)
(* Agent-to-agent tasks: A2aMessageService.sendMessage answers when the    *)
(* agent has, A2aStreamingService streams what happens and can be told to  *)
(* cancel.  Each task has a trace, from which tasks/get answers later.     *)
(* Tasks share nothing, so a task is followed without the others.          *)
(***************************************************************************)
EXTENDS Naturals, Sequences

CONSTANTS
  Tasks,      \* taskId = traceId
  MaxChunks,  \* chunks an agent may send
  TaskFaults  \* how many writes of a trace may fail

ASSUME TaskAssumption == MaxChunks \in Nat /\ TaskFaults \in Nat

VARIABLES
  task,        \* the call: streamed or not, and how far it is
  trace,       \* Trace.status
  activeRuns,  \* tasks with a listener on the gateway and an entry in the map
  told,        \* what the subject has delivered to its subscriber
  finished,    \* tasks whose subject is complete
  canceling,   \* cancelTask calls that still have to write the trace
  unwritten,   \* history: tasks of which a write of the trace failed
  taskFaults

taskVars == <<task, trace, activeRuns, told, finished, canceling, unwritten, taskFaults>>

Finals == {"completed", "failed", "canceled"}
TaskPcs == {"none", "validate", "client", "agent", "complete", "empty", "fail", "refuse", "over"}

TaskTypeOK ==
  /\ task \in [Tasks -> [streams : BOOLEAN, pc : TaskPcs, chunks : 0..MaxChunks]]
  /\ trace \in [Tasks -> {"none", "PENDING", "SUCCESS", "ERROR"}]
  /\ {activeRuns, finished, canceling, unwritten} \subseteq SUBSET Tasks
  /\ told \in [Tasks -> Seq(Finals \cup {"working", "chunk", "last"})]
  /\ taskFaults \in 0..TaskFaults

HasEnded(t) == task[t].pc \in {"none", "over"}
TaskAt(t, pc) == task' = [task EXCEPT ![t].pc = pc]

\* Subject.next and Subject.complete: a complete subject delivers nothing more,
\* and a call that does not stream has none.
Tells(t, events) ==
  told' = IF t \in finished \/ ~task[t].streams THEN told ELSE [told EXCEPT ![t] = @ \o events]
Completes(t) == finished' = finished \cup {t}

-----------------------------------------------------------------------------
(* sendMessage and startStream, step by step *)

SendMessage(t, streams) ==
  /\ task[t].pc = "none"
  /\ task' = [task EXCEPT ![t].streams = streams, ![t].pc = "validate"]
  /\ UNCHANGED <<trace, activeRuns, told, finished, canceling, unwritten, taskFaults>>

\* No bot, no text, no trace: the call throws, and a stream ends as failed.
NotValid(t) ==
  /\ task[t].pc = "validate"
  /\ TaskAt(t, "over")
  /\ Tells(t, <<"failed">>) /\ Completes(t)
  /\ UNCHANGED <<trace, activeRuns, canceling, unwritten, taskFaults>>

TraceCreated(t) ==
  /\ task[t].pc = "validate"
  /\ TaskAt(t, "client")
  /\ trace' = [trace EXCEPT ![t] = "PENDING"]
  /\ Tells(t, <<"working">>)
  /\ UNCHANGED <<activeRuns, finished, canceling, unwritten, taskFaults>>

GotClient(t) ==
  /\ task[t].pc = "client"
  /\ TaskAt(t, "agent")
  /\ activeRuns' = IF task[t].streams THEN activeRuns \cup {t} ELSE activeRuns
  /\ UNCHANGED <<trace, told, finished, canceling, unwritten, taskFaults>>

\* Without a client the trace is written before the stream hears of it.
NoGateway(t) ==
  /\ task[t].pc = "client"
  /\ TaskAt(t, "refuse")
  /\ UNCHANGED <<trace, activeRuns, told, finished, canceling, unwritten, taskFaults>>

RefusalWritten(t) ==
  /\ task[t].pc = "refuse"
  /\ TaskAt(t, "over")
  /\ trace' = [trace EXCEPT ![t] = "ERROR"]
  /\ Tells(t, <<"failed">>) /\ Completes(t)
  /\ UNCHANGED <<activeRuns, canceling, unwritten, taskFaults>>

AgentOutput(t) ==
  /\ task[t].pc = "agent" /\ t \in activeRuns /\ task[t].chunks < MaxChunks
  /\ task' = [task EXCEPT ![t].chunks = @ + 1]
  /\ Tells(t, <<"chunk">>)
  /\ UNCHANGED <<trace, activeRuns, finished, canceling, unwritten, taskFaults>>

\* The answer, one that is no output, an error or the timeout: a stream is told,
\* then the trace written.
AgentAnswers(t) ==
  /\ task[t].pc = "agent"
  /\ activeRuns' = activeRuns \ {t}
  /\ \/ TaskAt(t, "complete") /\ Tells(t, <<"last", "completed">>)
     \/ \E pc \in {"empty", "fail"} : TaskAt(t, pc) /\ Tells(t, <<"failed">>)
  /\ UNCHANGED <<trace, finished, canceling, unwritten, taskFaults>>

\* Faulty variant: an error is told and not written.
TraceWrittenIfGood(t) ==
  /\ task[t].pc \in {"complete", "empty", "fail"}
  /\ trace' = IF task[t].pc = "complete" THEN [trace EXCEPT ![t] = "SUCCESS"] ELSE trace
  /\ TaskAt(t, "over")
  /\ Completes(t)
  /\ UNCHANGED <<activeRuns, told, canceling, unwritten, taskFaults>>

\* traces.complete and traces.fail ask nothing of the status they replace.
TraceWritten(t) ==
  /\ task[t].pc \in {"complete", "empty", "fail"}
  /\ trace' = [trace EXCEPT ![t] = IF task[t].pc = "complete" THEN "SUCCESS" ELSE "ERROR"]
  /\ TaskAt(t, "over")
  /\ Completes(t)
  /\ UNCHANGED <<activeRuns, told, canceling, unwritten, taskFaults>>

\* The write fails: after an answer that is caught as an error, told again and
\* written as such; after an error it reaches streamMessage, which tells it again.
TraceNotWritten(t) ==
  /\ taskFaults > 0 /\ taskFaults' = taskFaults - 1
  /\ task[t].pc \in {"complete", "empty", "fail", "refuse"}
  /\ unwritten' = unwritten \cup {t}
  /\ Tells(t, <<"failed">>)
  /\ IF task[t].pc \in {"complete", "empty"} THEN TaskAt(t, "fail") /\ UNCHANGED finished
     ELSE TaskAt(t, "over") /\ Completes(t)
  /\ UNCHANGED <<trace, activeRuns, canceling>>

-----------------------------------------------------------------------------
(* cancelTask: all but the trace in one go, and the agent is not told. *)

\* Faulty variant: the subject stays open.
CancelOpen(t) ==
  /\ t \in activeRuns
  /\ activeRuns' = activeRuns \ {t}
  /\ Tells(t, <<"canceled">>)
  /\ canceling' = canceling \cup {t}
  /\ UNCHANGED <<task, trace, finished, unwritten, taskFaults>>

CancelTask(t) ==
  /\ t \in activeRuns
  /\ activeRuns' = activeRuns \ {t}
  /\ Tells(t, <<"canceled">>) /\ Completes(t)
  /\ canceling' = canceling \cup {t}
  /\ UNCHANGED <<task, trace, unwritten, taskFaults>>

CancelWritten(t) ==
  /\ t \in canceling
  /\ canceling' = canceling \ {t}
  /\ trace' = [trace EXCEPT ![t] = "ERROR"]
  /\ UNCHANGED <<task, activeRuns, told, finished, unwritten, taskFaults>>

\* The write fails, and with it the answer to who canceled.
CancelNotWritten(t) ==
  /\ taskFaults > 0 /\ taskFaults' = taskFaults - 1
  /\ t \in canceling
  /\ canceling' = canceling \ {t}
  /\ unwritten' = unwritten \cup {t}
  /\ UNCHANGED <<task, trace, activeRuns, told, finished>>

-----------------------------------------------------------------------------
TaskInit ==
  /\ task = [t \in Tasks |-> [streams |-> FALSE, pc |-> "none", chunks |-> 0]]
  /\ trace = [t \in Tasks |-> "none"]
  /\ activeRuns = {} /\ finished = {} /\ canceling = {} /\ unwritten = {}
  /\ told = [t \in Tasks |-> <<>>]
  /\ taskFaults = TaskFaults

Works(t) ==
  \/ NotValid(t) \/ TraceCreated(t) \/ GotClient(t) \/ NoGateway(t) \/ RefusalWritten(t)
  \/ AgentAnswers(t) \/ TraceWritten(t) \/ TraceNotWritten(t)
  \/ CancelWritten(t) \/ CancelNotWritten(t)

TaskNext ==
  \E t \in Tasks :
    \/ \E streams \in BOOLEAN : SendMessage(t, streams)
    \/ Works(t)
    \/ AgentOutput(t) \/ CancelTask(t)

\* Connecting and the agent call both time out.
TaskFairness == \A t \in Tasks : WF_taskVars(Works(t))

TaskSpec == TaskInit /\ [][TaskNext]_taskVars /\ TaskFairness

-----------------------------------------------------------------------------
(* Properties *)

\* A stream hears one final state, and nothing after it, whenever its cancellation
\* falls between the chunks and the answer - unless a write of its trace fails.
OneFinalAnswer ==
  \A t \in Tasks : \A i \in DOMAIN told[t] :
    told[t][i] \in Finals /\ t \notin unwritten => i = Len(told[t])

\* Once all is written, tasks/get tells of a task what its stream was told, if it
\* was not canceled (a canceled task may be found completed).
TraceAgrees ==
  \A t \in Tasks :
    /\ HasEnded(t) /\ t \notin unwritten
    /\ task[t].streams /\ trace[t] # "none" /\ told[t][Len(told[t])] # "canceled"
    => trace[t] = IF told[t][Len(told[t])] = "completed" THEN "SUCCESS" ELSE "ERROR"

\* No task stays "working": each one that gets a trace is resolved in the end, also
\* one that is canceled while it waits, unless the write itself fails.
TasksAreResolved ==
  \A t \in Tasks : trace[t] = "PENDING" ~> trace[t] # "PENDING" \/ t \in unwritten
=============================================================================
