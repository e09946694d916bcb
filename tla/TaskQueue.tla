----------------------------- MODULE TaskQueue ------------------------------
(***************************************************************************)
(* The task queue (peko-core/src/task_queue.rs): the tasks of the web UI   *)
(* and of the life loop pass through one bounded channel to one executor.  *)
(* A counter of pending tasks and a flag, under a mutex of their own, tell *)
(* the life loop whether the agent is idle; neither is updated together    *)
(* with the channel.  A running task sends its events to its submitter     *)
(* over a second bounded channel, and waits when that one is full.         *)
(***************************************************************************)
EXTENDS Naturals, Sequences, FiniteSets

CONSTANTS
  MaxTasks,    \* bound: tasks ever submitted
  QueueSize,   \* capacity of the channel (32 in main.rs)
  StreamCap,   \* capacity of a task's event channel (64 in submit_and_wait)
  MaxEvents,   \* bound: events of one run
  MaxGone      \* bound: web clients that leave while their submit waits

ASSUME QueueAssumption ==
  /\ MaxTasks \in Nat /\ QueueSize \in Nat \ {0} /\ MaxGone \in Nat
  /\ StreamCap \in Nat \ {0} /\ MaxEvents \in Nat

Tasks == 1..MaxTasks

\* TaskSource: "web" is the web UI; the internal ones are fired by the life
\* loop or approved by the user.  The variants for Telegram, the scheduler and
\* the API are never built: those run their tasks without the queue.
Sources  == {"web", "life", "approved"}
Internal == {"life", "approved"}

VARIABLES
  submitted,  \* how many tasks there are
  source,     \* [Tasks]: who submitted it
  stage,      \* [Tasks]: how far it is
  chan,       \* the mpsc channel
  pending,    \* status.pending
  processing, \* status.processing
  exec,       \* the executor: "recv", "taken", "running", "answered"
  cur,        \* the task it holds (0: none)
  reflecting, \* tasks handed to the reflector
  listening,  \* tasks whose event receiver still exists
  unsent,     \* events the running task has yet to send
  buffered,   \* events in its channel
  gone        \* bound: counts departed clients

queueVars == <<submitted, source, stage, chan, pending, processing, exec, cur,
               reflecting, listening, unsent, buffered, gone>>

\* What the stream of a task does not touch, and the other way round.
streamVars == <<listening, unsent, buffered>>

Stages == {"none", "counted", "sent", "answered", "dropped"}

QueueTypeOK ==
  /\ submitted \in 0..MaxTasks
  /\ source \in [Tasks -> Sources \cup {"none"}]
  /\ stage \in [Tasks -> Stages]
  /\ chan \in Seq(Tasks) /\ Len(chan) <= QueueSize
  /\ pending \in Nat /\ processing \in BOOLEAN
  /\ exec \in {"recv", "taken", "running", "answered"}
  /\ cur \in Tasks \cup {0}
  /\ reflecting \subseteq Tasks /\ listening \subseteq Tasks
  /\ unsent \in 0..MaxEvents /\ buffered \in 0..StreamCap
  /\ gone \in Nat

QueueInit ==
  /\ submitted = 0
  /\ source = [t \in Tasks |-> "none"]
  /\ stage = [t \in Tasks |-> "none"]
  /\ chan = <<>> /\ pending = 0 /\ processing = FALSE
  /\ exec = "recv" /\ cur = 0
  /\ reflecting = {} /\ gone = 0
  /\ listening = {} /\ unsent = 0 /\ buffered = 0

-----------------------------------------------------------------------------
(* The callers' side                                                       *)

\* Mutant of Submit: the task is not counted.
SubmitUncounted(src) ==
  /\ submitted < MaxTasks
  /\ submitted' = submitted + 1
  /\ source' = [source EXCEPT ![submitted + 1] = src]
  /\ stage' = [stage EXCEPT ![submitted + 1] = "counted"]
  /\ listening' = listening \cup {submitted + 1}
  /\ UNCHANGED <<chan, pending, processing, exec, cur, reflecting, unsent,
                 buffered, gone>>

\* submit, first half: a new task is counted.
Submit(src) ==
  /\ submitted < MaxTasks
  /\ submitted' = submitted + 1
  /\ source' = [source EXCEPT ![submitted + 1] = src]
  /\ stage' = [stage EXCEPT ![submitted + 1] = "counted"]
  /\ listening' = listening \cup {submitted + 1}
  /\ pending' = pending + 1
  /\ UNCHANGED <<chan, processing, exec, cur, reflecting, unsent, buffered,
                 gone>>

\* Mutant of Send: the channel is not bounded.
SendOver(t) ==
  /\ stage[t] = "counted"
  /\ chan' = Append(chan, t)
  /\ stage' = [stage EXCEPT ![t] = "sent"]
  /\ UNCHANGED <<submitted, source, pending, processing, exec, cur, reflecting,
                 streamVars, gone>>

\* submit, second half: the send, which waits while the channel is full.
Send(t) ==
  /\ stage[t] = "counted"
  /\ Len(chan) < QueueSize
  /\ chan' = Append(chan, t)
  /\ stage' = [stage EXCEPT ![t] = "sent"]
  /\ UNCHANGED <<submitted, source, pending, processing, exec, cur, reflecting,
                 streamVars, gone>>

\* A web client that closes its connection while the send waits takes the
\* handler, and with it the request, away; the count stays.
Disconnect(t) ==
  /\ gone < MaxGone
  /\ stage[t] = "counted" /\ source[t] \in {"web", "approved"}
  /\ Len(chan) = QueueSize
  /\ stage' = [stage EXCEPT ![t] = "dropped"]
  /\ listening' = listening \ {t}
  /\ gone' = gone + 1
  /\ UNCHANGED <<submitted, source, chan, pending, processing, exec, cur,
                 reflecting, unsent, buffered>>

IsIdle == pending = 0 /\ ~processing

-----------------------------------------------------------------------------
(* executor_loop                                                           *)

\* Mutant of Receive: the task is read and left in the channel.
ReceivePeek ==
  /\ exec = "recv" /\ chan # <<>>
  /\ cur' = Head(chan)
  /\ exec' = "taken"
  /\ UNCHANGED <<submitted, source, stage, chan, pending, processing,
                 reflecting, streamVars, gone>>

Receive ==
  /\ exec = "recv" /\ chan # <<>>
  /\ cur' = Head(chan)
  /\ chan' = Tail(chan)
  /\ exec' = "taken"
  /\ UNCHANGED <<submitted, source, stage, pending, processing, reflecting,
                 streamVars, gone>>

\* Mutant of Begin: the flag is raised only once the runtime is built.
BeginQuietly ==
  /\ exec = "taken"
  /\ pending' = IF pending = 0 THEN 0 ELSE pending - 1
  /\ unsent' \in 0..MaxEvents
  /\ buffered' = 0
  /\ exec' = "running"
  /\ UNCHANGED <<submitted, source, stage, chan, processing, cur, reflecting,
                 listening, gone>>

\* The counter is lowered (saturating) and the flag raised under one lock;
\* then execute_task builds a runtime (with every tool of the registry,
\* whoever submitted the task).
Begin ==
  /\ exec = "taken"
  /\ pending' = IF pending = 0 THEN 0 ELSE pending - 1
  /\ processing' = TRUE
  /\ unsent' \in 0..MaxEvents
  /\ buffered' = 0
  /\ exec' = "running"
  /\ UNCHANGED <<submitted, source, stage, chan, cur, reflecting, listening,
                 gone>>

\* Mutant of Emit: the send waits for room even when nobody will make any.
EmitToNobody ==
  /\ exec = "running" /\ unsent > 0
  /\ buffered < StreamCap
  /\ unsent' = unsent - 1
  /\ buffered' = buffered + 1
  /\ UNCHANGED <<submitted, source, stage, chan, pending, processing, exec,
                 cur, reflecting, listening, gone>>

\* run_turn sends an event: it waits for room while the receiver exists and
\* fails at once, unnoticed, when it does not.
Emit ==
  /\ exec = "running" /\ unsent > 0
  /\ cur \in listening => buffered < StreamCap
  /\ unsent' = unsent - 1
  /\ buffered' = IF cur \in listening THEN buffered + 1 ELSE buffered
  /\ UNCHANGED <<submitted, source, stage, chan, pending, processing, exec,
                 cur, reflecting, listening, gone>>

\* The run returns, well or not; a task of a user that went well is handed to
\* the reflector, and the result is sent to whoever still waits.
Answer ==
  /\ exec = "running" /\ unsent = 0
  /\ \E ok \in BOOLEAN :
       reflecting' = IF ok /\ source[cur] \notin Internal
                     THEN reflecting \cup {cur} ELSE reflecting
  /\ stage' = [stage EXCEPT ![cur] = "answered"]
  /\ exec' = "answered"
  /\ UNCHANGED <<submitted, source, chan, pending, processing, cur, streamVars,
                 gone>>

Rest ==
  /\ exec = "answered"
  /\ processing' = FALSE
  /\ cur' = 0
  /\ exec' = "recv"
  /\ UNCHANGED <<submitted, source, stage, chan, pending, reflecting,
                 streamVars, gone>>

Executor == Receive \/ Begin \/ Emit \/ Answer \/ Rest

-----------------------------------------------------------------------------
(* The submitter's end of the event channel                                *)

\* The web client takes an event from the body of its response.
Read ==
  /\ cur \in listening /\ source[cur] = "web"
  /\ buffered > 0
  /\ buffered' = buffered - 1
  /\ UNCHANGED <<submitted, source, stage, chan, pending, processing, exec,
                 cur, reflecting, listening, unsent, gone>>

\* The receiver is dropped: the client hung up, or a caller that never reads
\* it is through.
Leave(t) ==
  /\ t \in listening /\ stage[t] \in {"sent", "answered"}
  /\ listening' = listening \ {t}
  /\ UNCHANGED <<submitted, source, stage, chan, pending, processing, exec,
                 cur, reflecting, unsent, buffered, gone>>

-----------------------------------------------------------------------------
QueueNext ==
  \/ Submit("web")
  \/ \E t \in Tasks : Send(t) \/ Disconnect(t) \/ Leave(t)
  \/ Executor \/ Read

QueueSpec == QueueInit /\ [][QueueNext]_queueVars

\* The runtime runs the executor, every run of a task ends, the channel's
\* permits are handed out in the order they were asked for, and a client
\* reads what it is sent or hangs up.
QueueFair ==
  /\ WF_queueVars(Executor)
  /\ \A t \in Tasks : SF_queueVars(Send(t))
  /\ WF_queueVars(Read \/ \E t \in Tasks : Leave(t))

QueueFairSpec == QueueSpec /\ QueueFair

-----------------------------------------------------------------------------
Waiting == {t \in Tasks : stage[t] = "counted"}

\* is_idle never says yes while a task is on its way to the executor or in
\* its hands, although counter, flag and channel move one at a time.
IdleMeansEmpty ==
  IsIdle => /\ Waiting = {} /\ chan = <<>>
            /\ exec = "recv"

\* The counter is the number of tasks not yet begun, and of those whose client
\* took them away: no order of steps counts a task twice or forgets one.
PendingExact ==
  pending = Cardinality({t \in Tasks : stage[t] \in {"counted", "dropped"}})
              + Len(chan) + (IF exec = "taken" THEN 1 ELSE 0)

\* Counter and flag, read by is_idle one after the other, tell what waits and
\* what runs.
CountersTell == IdleMeansEmpty /\ PendingExact

\* Nothing waiting, queued or running: is_idle says yes ("True when there's no
\* pending or running task", task_queue.rs:177).
EmptyMeansIdle ==
  Waiting = {} /\ chan = <<>> /\ exec = "recv" => IsIdle

\* Tasks reach the executor in the order of the channel, each of them once:
\* the task in hand and the channel hold the sent tasks without repetition.
EachOnce ==
  LET held == IF exec \in {"taken", "running"} THEN <<cur>> \o chan ELSE chan
  IN  /\ \A i, j \in 1..Len(held) : i # j => held[i] # held[j]
      /\ {held[i] : i \in 1..Len(held)} = {t \in Tasks : stage[t] = "sent"}

\* A task that was counted is answered, unless its client left.
Answered ==
  \A t \in Tasks :
    stage[t] = "counted" ~> stage[t] \in {"answered", "dropped"}
=============================================================================
