------------------------------ MODULE AgentLoop -----------------------------
(***************************************************************************)
(* The reason-act loop (peko-core/src/runtime.rs): run_turn, which serves  *)
(* the task queue and continues a stored session, and run_task, which      *)
(* serves Telegram, the scheduler, background jobs and delegation and      *)
(* starts a session of its own; with the context compressor, the iteration *)
(* budget and the session store they call.                                 *)
(*                                                                         *)
(* A message is its role, the tool calls it makes and what it refers to;   *)
(* its text and size are abstracted, so whether the conversation is over   *)
(* its share of the context window is left open.  The prompt, the injected *)
(* memories and the events for the UI change none of this state.           *)
(***************************************************************************)
EXTENDS Naturals, Sequences

CONSTANTS
  Entries,        \* the loops to look at: "run_turn", "run_task"
  Brains,         \* with a local and a cloud brain (TRUE), or without
  MaxIterations,  \* [agent].max_iterations
  MaxCalls,       \* bound: tool calls in one reply
  MaxTurns,       \* bound: turns of a session (of run_turn)
  MaxFaults       \* bound: crashes, broken streams, refused writes

ASSUME LoopAssumption ==
  /\ Entries \subseteq {"run_turn", "run_task"} /\ Brains \subseteq BOOLEAN
  /\ MaxIterations \in Nat \ {0} /\ MaxCalls \in Nat /\ MaxTurns \in Nat
  /\ MaxFaults \in Nat

MaxEscalations == 1

\* A tool of the registry, or the escalate tool, which a local brain is offered.
\* A call whose JSON does not parse is a tool like any other here: run_task
\* answers it itself, run_turn executes it with an empty object.
Kinds == {"tool", "escalate"}
Call  == [id : Nat, kind : Kinds]

\* ref: the turn of a user message, the call of a tool result.
Message == [role : {"user", "context", "summary", "assistant", "result"},
            calls : Seq(Call), ref : Nat]
User(n)      == [role |-> "user", calls |-> <<>>, ref |-> n]
Context(n)   == [role |-> "context", calls |-> <<>>, ref |-> n]
Summary      == [role |-> "summary", calls |-> <<>>, ref |-> 0]
Assistant(s) == [role |-> "assistant", calls |-> s, ref |-> 0]
Result(c)    == [role |-> "result", calls |-> <<>>, ref |-> c.id]

VARIABLES
  entry,        \* the loop that serves the session
  dual,         \* is there a DualBrain?
  pc,           \* "idle", "loop", "ask", "tools", "closing"
  conv,         \* conversation
  session,      \* the messages of the session in SQLite
  status,       \* the session's status
  turn,         \* how many user messages the session has
  brain,        \* active_brain
  left,         \* budget.remaining
  iters,        \* total_iterations
  escalations,  \* escalation_count
  todo,         \* the calls of the reply still to be handled
  ids,          \* how many calls were made in the session
  faults        \* bound: counts faults

mode     == <<entry, dual>>
progress == <<left, iters, escalations>>
vars == <<mode, pc, conv, session, status, turn, brain, progress, todo, ids,
          faults>>

TypeOK ==
  /\ entry \in Entries /\ dual \in Brains
  /\ pc \in {"idle", "loop", "ask", "tools", "closing"}
  /\ conv \in Seq(Message) /\ session \in Seq(Message)
  /\ status \in {"none", "running", "completed"}
  /\ turn \in Nat
  /\ brain \in {"default", "local", "cloud"}
  /\ left \in 0..MaxIterations /\ iters \in Nat /\ escalations \in Nat
  /\ todo \in Seq(Call) /\ Len(todo) <= MaxCalls
  /\ ids \in Nat /\ faults \in Nat

Init ==
  /\ entry \in Entries /\ dual \in Brains
  /\ pc = "idle" /\ conv = <<>> /\ session = <<>> /\ status = "none"
  /\ turn = 0 /\ brain = "default"
  /\ left = MaxIterations /\ iters = 0 /\ escalations = 0
  /\ todo = <<>> /\ ids = 0 /\ faults = 0

-----------------------------------------------------------------------------
\* classify: both brains are possible, if there are two.
Classify == brain' \in IF dual THEN {"local", "cloud"} ELSE {"default"}

\* What both loops do first: a brain is chosen and the budget is reset.
Opens ==
  /\ Classify
  /\ left' = MaxIterations /\ iters' = 0 /\ escalations' = 0
  /\ pc' = "loop"
  /\ UNCHANGED <<mode, todo, faults>>

\* run_turn has the session loaded and adds the user's message to it.
TurnBegins ==
  /\ pc = "idle" /\ entry = "run_turn" /\ turn < MaxTurns
  /\ status' = IF status = "none" THEN "running" ELSE status
  /\ turn' = turn + 1
  /\ conv' = Append(session, User(turn')) /\ session' = conv'
  /\ UNCHANGED ids
  /\ Opens

\* run_task opens a session of its own.
TaskBegins ==
  /\ pc = "idle" /\ entry = "run_task"
  /\ status' = "running" /\ turn' = 1
  /\ conv' = <<User(1)>> /\ session' = conv'
  /\ ids' = 0
  /\ Opens

Begin == TurnBegins \/ TaskBegins

\* check_and_compress: more than four messages, and too many tokens: the first
\* message, a summary and the last four stay.  The summary quotes calls and
\* results, no user message.
Compressed(c) == <<Head(c), Summary>> \o SubSeq(c, Len(c) - 3, Len(c))

\* Mutant of Ask: the summary takes the place of the first message too.
AskHeadless ==
  /\ pc = "loop" /\ left > 0
  /\ \/ UNCHANGED conv
     \/ Len(conv) > 4 /\ conv' = Tail(Compressed(conv))
  /\ pc' = "ask"
  /\ UNCHANGED <<mode, session, status, turn, brain, progress, todo, ids,
                 faults>>

\* Mutant of Ask: the budget is not looked at.
AskUnbudgeted ==
  /\ pc = "loop"
  /\ \/ UNCHANGED conv
     \/ Len(conv) > 4 /\ conv' = Compressed(conv)
  /\ pc' = "ask"
  /\ UNCHANGED <<mode, session, status, turn, brain, progress, todo, ids,
                 faults>>

\* The head of a loop: compress if need be, then call the active provider.
Asks(loop) ==
  /\ pc = "loop" /\ entry = loop /\ left > 0
  /\ \/ UNCHANGED conv
     \/ Len(conv) > 4 /\ conv' = Compressed(conv)
  /\ pc' = "ask"
  /\ UNCHANGED <<mode, session, status, turn, brain, progress, todo, ids,
                 faults>>
TurnAsks == Asks("run_turn")
TaskAsks == Asks("run_task")

Ask == TurnAsks \/ TaskAsks

Stop ==
  /\ pc = "loop" /\ left = 0
  /\ pc' = "closing"
  /\ UNCHANGED <<mode, conv, session, status, turn, brain, progress, todo, ids,
                 faults>>

\* What a reply may call, with ids fresh in the session.  Escalate is told
\* apart where the runtime does so.
Offered == IF entry = "run_task" /\ dual THEN Kinds ELSE {"tool"}
Replies ==
  {[i \in DOMAIN s |-> [id |-> ids + i, kind |-> s[i]]] :
     s \in UNION {[1..n -> Offered] : n \in 0..MaxCalls}}

\* The reply goes to the conversation and to the session.  Without calls it is
\* the answer; it is also taken for one when it has text and stops the turn,
\* and then its calls are not executed.
Take(calls) ==
  /\ conv' = Append(conv, Assistant(calls))
  /\ session' = Append(session, Assistant(calls))
  /\ ids' = ids + Len(calls)
  /\ \/ /\ pc' = "closing" /\ iters' = iters + 1
        /\ UNCHANGED todo
     \/ calls # <<>> /\ pc' = "tools" /\ todo' = calls /\ UNCHANGED iters

Reply ==
  /\ pc = "ask"
  /\ \E calls \in Replies : Take(calls)
  /\ UNCHANGED <<mode, status, turn, brain, left, escalations, faults>>

\* The run returns its error: the session keeps the status it has, the
\* conversation is dropped.
Abort ==
  /\ pc' = "idle" /\ conv' = <<>> /\ todo' = <<>>
  /\ UNCHANGED <<mode, session, status, turn, brain, progress, ids>>

\* No provider answers, or run_task's stream breaks off.  run_task returns the
\* error; run_turn sends it to the UI and leaves the loop.
ProviderFails ==
  /\ pc = "ask"
  /\ IF entry = "run_task"
     THEN Abort
     ELSE /\ pc' = "closing"
          /\ UNCHANGED <<mode, conv, session, status, turn, brain, progress,
                         todo, ids>>
  /\ UNCHANGED faults

\* run_turn's stream breaks off: it goes on with what it has got, a call cut in
\* the middle of its JSON included.
StreamBreaks ==
  /\ pc = "ask" /\ entry = "run_turn"
  /\ faults < MaxFaults /\ faults' = faults + 1
  /\ \E calls \in Replies : Take(calls)
  /\ UNCHANGED <<mode, status, turn, brain, left, escalations>>

\* SQLite refuses a write: both loops return the error.
StoreFails ==
  /\ pc \in {"ask", "tools", "closing"}
  /\ faults < MaxFaults /\ faults' = faults + 1
  /\ Abort

-----------------------------------------------------------------------------
(* The tool loop                                                           *)

\* run_turn knows no escalate tool: it is an unknown one there.
Intercepted(c) == c.kind = "escalate"

\* Mutant of RunTool: a failed tool ends the loop over the calls.
RunToolStopping ==
  /\ pc = "tools" /\ todo # <<>> /\ ~Intercepted(Head(todo))
  /\ conv' = Append(conv, Result(Head(todo)))
  /\ session' = Append(session, Result(Head(todo)))
  /\ todo' \in {Tail(todo), <<>>}
  /\ UNCHANGED <<mode, pc, status, turn, brain, progress, ids, faults>>

\* Mutant of RunTool: the result is not written to the session.
RunToolUnsaved ==
  /\ pc = "tools" /\ todo # <<>> /\ ~Intercepted(Head(todo))
  /\ conv' = Append(conv, Result(Head(todo)))
  /\ todo' = Tail(todo)
  /\ UNCHANGED <<mode, pc, session, status, turn, brain, progress, ids, faults>>

\* The result of a call, good or bad, enters the conversation and the session.
Answering(c) ==
  /\ conv' = Append(conv, Result(c))
  /\ session' = Append(session, Result(c))

\* One call: executed, well or not (an unknown name, escalate among them, is an
\* error), and answered.
RunTool ==
  /\ pc = "tools" /\ todo # <<>> /\ ~Intercepted(Head(todo))
  /\ Answering(Head(todo))
  /\ todo' = Tail(todo)
  /\ UNCHANGED <<mode, pc, status, turn, brain, progress, ids, faults>>

\* run_task, escalate, for the first time: the conversation starts again on the
\* cloud brain with a context that repeats the user's task, the budget is
\* reset, and the rest of the calls is dropped.
Escalate ==
  /\ pc = "tools" /\ todo # <<>> /\ Intercepted(Head(todo))
  /\ escalations < MaxEscalations
  /\ conv' = <<Context(turn)>>
  /\ brain' = "cloud"
  /\ left' = MaxIterations /\ iters' = 0
  /\ escalations' = escalations + 1
  /\ todo' = <<>> /\ pc' = "loop"
  /\ UNCHANGED <<mode, session, status, turn, ids, faults>>

\* Mutant of RefuseEscalation: the refused call is looked at again.
RefuseAgain ==
  /\ pc = "tools" /\ todo # <<>> /\ Intercepted(Head(todo))
  /\ escalations >= MaxEscalations
  /\ UNCHANGED vars

\* ... and over the cap: the call is passed over, without a result.
RefuseEscalation ==
  /\ pc = "tools" /\ todo # <<>> /\ Intercepted(Head(todo))
  /\ escalations >= MaxEscalations
  /\ todo' = Tail(todo)
  /\ UNCHANGED <<mode, pc, conv, session, status, turn, brain, progress, ids,
                 faults>>

\* All calls handled: the iteration is counted and charged.
Count ==
  /\ pc = "tools" /\ todo = <<>>
  /\ iters' = iters + 1
  /\ left' = left - 1
  /\ pc' = "loop"
  /\ UNCHANGED <<mode, conv, session, status, turn, brain, escalations, todo,
                 ids, faults>>

\* The session's status is written and the response returned.
Close ==
  /\ pc = "closing"
  /\ status' = "completed"
  /\ pc' = "idle" /\ conv' = <<>>
  /\ UNCHANGED <<mode, session, turn, brain, progress, todo, ids, faults>>

\* The process dies: the session in SQLite stays as far as it got.
Crash ==
  /\ pc # "idle"
  /\ faults < MaxFaults /\ faults' = faults + 1
  /\ Abort

-----------------------------------------------------------------------------
\* The steps of a run: models answer or fail, tools return.
Step ==
  \/ Ask \/ Stop \/ Reply \/ ProviderFails \/ StreamBreaks \/ StoreFails
  \/ RunTool \/ Escalate \/ RefuseEscalation \/ Count \/ Close

Next == Begin \/ Step \/ Crash

Spec == Init /\ [][Next]_vars

-----------------------------------------------------------------------------
(* Properties                                                              *)

\* The session is the whole record: the conversation ends with the latest
\* messages of the session, none left out; before them there are only the
\* session's first message, a summary and the context of an escalation, through
\* compression, escalation and refused writes.
SessionIsRecord ==
  \E n \in 0..Len(session) :
    /\ n <= Len(conv)
    /\ \A i \in 1..n : conv[Len(conv) - n + i] = session[Len(session) - n + i]
    /\ \A i \in 1..(Len(conv) - n) :
         \/ conv[i].role \in {"summary", "context"}
         \/ i = 1 /\ n < Len(session) /\ conv[1] = session[1]

\* The first n calls of message i of c are answered by the messages after it,
\* without a gap: the first k calls by the first results[k] messages.
Tallied(results, c, i, calls, n) ==
  /\ results[0] = 0
  /\ \A k \in 1..n :
       IF Intercepted(calls[k]) THEN results[k] = results[k - 1]
       ELSE /\ results[k] = results[k - 1] + 1
            /\ i + results[k] <= Len(c) /\ c[i + results[k]] = Result(calls[k])
Answered(c, i, calls, n) == \E results \in [0..n -> 0..n] : Tallied(results, c, i, calls, n)

\* Message i is a model's, of the turn that is under way.
OfThisTurn(c, i) ==
  c[i].role = "assistant" /\ \A j \in i..Len(c) : c[j].role # "user"

\* Whenever a model is asked, the calls it made since the user spoke are all
\* answered, one result each in their order, unless they asked for an
\* escalation that run_task refused.
CallsAnswered ==
  pc = "ask" =>
    \A i \in DOMAIN conv :
      OfThisTurn(conv, i) => Answered(conv, i, conv[i].calls, Len(conv[i].calls))

\* Every run ends: the loop cannot go on for ever whatever the model calls.
RunEnds == pc # "idle" ~> pc = "idle"

\* The model always has the request it is working on: "Message 2: User input
\* ... Always preserved" (docs/implementation/Context-Compression.md:41).
RequestKept ==
  pc = "ask" =>
    \E i \in DOMAIN conv :
      conv[i].role \in {"user", "context"} /\ conv[i].ref = turn

\* run_task keeps it, through compression, escalation and both of them.
TaskKept == entry = "run_task" => RequestKept
=============================================================================
