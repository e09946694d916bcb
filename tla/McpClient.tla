----------------------------- MODULE McpClient ------------------------------
(***************************************************************************)
(* The MCP client (mcp.rs): one connection to a tool server, shared by the *)
(* tools the server offers, and the adapter that is registered for each.   *)
(*                                                                         *)
(* A request has a number, but nobody compares the number of an answer:    *)
(* over stdio the next line is taken for it. Calls take turns by the lock  *)
(* of the client. The server, external, answers what it read in any order, *)
(* late or never, writes lines of its own, and may die.                    *)
(***************************************************************************)
EXTENDS Naturals, Sequences, FiniteSets

CONSTANTS
  Transports,      \* a subset of {"stdio", "http"}
  Offered,         \* the tools of the server
  MaxFailures,     \* MAX_MCP_FAILURES (3)
  MaxAsks,         \* bound: calls of its tools
  MaxNuisances     \* bound: lines nobody asked for, a death, calls that time out

ASSUME McpAssumption ==
  /\ Transports \subseteq {"stdio", "http"} /\ IsFiniteSet(Offered)
  /\ {MaxFailures, MaxAsks, MaxNuisances} \subseteq Nat

Asks == 1..MaxAsks

VARIABLES
  transport,
  phase,       \* "initialize", "discover", "serving", "failed"
  tools,       \* what discover_tools found
  requestId,   \* request_id: how many requests there were
  unanswered,        \* requests the server read and did not answer
  pipe,        \* lines the server wrote: the request they answer (0: none), and how
  alive,
  locked,      \* the lock of the client is held
  ask,         \* [Asks]: a call of a tool
  failures,    \* [Offered]: consecutive_failures of its adapter
  failed,      \* history: [Offered]: calls that failed
  astray,      \* history: requests given up before their answer was read (0:
               \* a line nobody asked for)
  nuisances    \* bound: counts the nuisances

mcpVars == <<transport, phase, tools, requestId, unanswered, pipe, alive, locked, ask,
             failures, failed, astray, nuisances>>

\* request 0: none yet; got is the request the answer belongs to.
NoAsk == [stage |-> "new", tool |-> "none", request |-> 0, got |-> 0]

McpTypeOK ==
  /\ transport \in Transports
  /\ phase \in {"initialize", "discover", "serving", "failed"}
  /\ tools \subseteq Offered /\ requestId \in Nat
  /\ unanswered \subseteq 1..requestId /\ astray \subseteq 0..requestId
  /\ \A i \in DOMAIN pipe : /\ pipe[i].to \in 0..requestId
                            /\ pipe[i].how \in {"result", "error"}
  /\ alive \in BOOLEAN /\ locked \in BOOLEAN /\ nuisances \in 0..MaxNuisances
  /\ \A a \in Asks :
       /\ ask[a].stage \in {"new", "admitted", "asking", "good", "bad",
                            "success", "error", "suspended"}
       /\ ask[a].tool \in Offered \cup {"none"}
       /\ {ask[a].request, ask[a].got} \subseteq 0..requestId
  /\ failures \in [Offered -> Nat] /\ failed \in [Offered -> SUBSET Asks]

\* initialize was written as the process came up.
McpInit ==
  /\ transport \in Transports /\ phase = "initialize" /\ tools = {}
  /\ requestId = 1 /\ unanswered = {1} /\ pipe = <<>> /\ alive = TRUE /\ locked = FALSE
  /\ ask = [a \in Asks |-> NoAsk]
  /\ failures = [t \in Offered |-> 0] /\ failed = [t \in Offered |-> {}]
  /\ astray = {} /\ nuisances = 0

Nuisance == nuisances < MaxNuisances /\ nuisances' = nuisances + 1

-----------------------------------------------------------------------------
\* The server, external.
serverVars == <<unanswered, pipe, alive, nuisances>>
clientVars == <<transport, phase, tools, requestId, locked, ask, failures, failed, astray>>

Answer(r, how) ==
  /\ alive /\ r \in unanswered /\ unanswered' = unanswered \ {r}
  /\ pipe' = Append(pipe, [to |-> r, how |-> how])
  /\ UNCHANGED <<clientVars, alive, nuisances>>

\* A notification, or a line of its log: over HTTP it has no place.
Chatter(how) ==
  /\ alive /\ transport = "stdio" /\ Nuisance
  /\ pipe' = Append(pipe, [to |-> 0, how |-> how]) /\ astray' = astray \cup {0}
  /\ UNCHANGED <<transport, phase, tools, requestId, locked, ask, failures, failed,
                 unanswered, alive>>

Die ==
  /\ alive /\ Nuisance /\ alive' = FALSE /\ unanswered' = {}
  /\ UNCHANGED <<clientVars, pipe>>

-----------------------------------------------------------------------------
\* The line read_line returns, whatever it answers; an HTTP response is that
\* of its own request.
Readable(r) ==
  {i \in DOMAIN pipe : IF transport = "stdio" THEN i = 1 ELSE pipe[i].to = r}

Without(i) == SubSeq(pipe, 1, i - 1) \o SubSeq(pipe, i + 1, Len(pipe))

\* send_request: a line that is no JSON fails it, as one with an error does;
\* any other is a result, null if it has none. The end of the pipe is no JSON.
EndOfPipe == ~alive /\ pipe = <<>>

\* The two requests of connect_stdio and connect_http.
Connected(how, to) ==
  \/ /\ how # "result" /\ phase' = "failed"
     /\ UNCHANGED <<tools, requestId, unanswered>>
  \/ /\ how = "result" /\ phase = "initialize" /\ phase' = "discover"
     /\ requestId' = requestId + 1
     /\ unanswered' = IF alive THEN unanswered \cup {requestId + 1} ELSE unanswered
     /\ UNCHANGED tools
  \/ /\ how = "result" /\ phase = "discover" /\ phase' = "serving"
     /\ tools' = IF to = requestId THEN Offered ELSE {}
     /\ UNCHANGED <<requestId, unanswered>>

Connect ==
  /\ phase \in {"initialize", "discover"}
  /\ \/ \E i \in Readable(requestId) :
          Connected(pipe[i].how, pipe[i].to) /\ pipe' = Without(i)
     \/ EndOfPipe /\ Connected("error", 0) /\ UNCHANGED pipe
  /\ UNCHANGED <<transport, alive, locked, ask, failures, failed, astray, nuisances>>

\* Five seconds for each, over stdio only: the child is killed.
ConnectTimeOut ==
  /\ phase \in {"initialize", "discover"} /\ transport = "stdio"
  /\ phase' = "failed" /\ alive' = FALSE /\ unanswered' = {}
  /\ UNCHANGED <<transport, tools, requestId, pipe, locked, ask, failures, failed,
                 astray, nuisances>>

-----------------------------------------------------------------------------
\* execute of an adapter: the suspension is looked at before the wait for the
\* lock, by nobody after it.
Admit(a, t) ==
  /\ phase = "serving" /\ t \in tools
  /\ ask[a].stage = "new" /\ \A b \in 1..(a - 1) : ask[b].stage # "new"
  /\ ask' = [ask EXCEPT ![a].tool = t,
               ![a].stage = IF failures[t] >= MaxFailures THEN "suspended"
                            ELSE "admitted"]
  /\ UNCHANGED <<serverVars, transport, phase, tools, requestId, locked, failures,
                 failed, astray>>

\* A slip of Ask: the request is written before the lock is taken, so that an
\* answer may find the other reader.
AskUnlocked(a) ==
  /\ ask[a].stage = "admitted"
  /\ requestId' = requestId + 1
  /\ ask' = [ask EXCEPT ![a].request = requestId',
               ![a].stage = IF alive THEN "asking" ELSE "bad"]
  /\ locked' = alive
  /\ unanswered' = IF alive THEN unanswered \cup {requestId'} ELSE unanswered
  /\ UNCHANGED <<transport, phase, tools, pipe, alive, failures, failed, astray, nuisances>>

\* call_tool with the lock, granted in the order of the waiters: the request
\* is written; a dead server fails it.
Ask(a) ==
  /\ ask[a].stage = "admitted" /\ ~locked
  /\ \A b \in 1..(a - 1) : ask[b].stage # "admitted"
  /\ requestId' = requestId + 1
  /\ ask' = [ask EXCEPT ![a].request = requestId',
               ![a].stage = IF alive THEN "asking" ELSE "bad"]
  /\ locked' = alive
  /\ unanswered' = IF alive THEN unanswered \cup {requestId'} ELSE unanswered
  /\ UNCHANGED <<transport, phase, tools, pipe, alive, failures, failed, astray, nuisances>>

TakeLine(a) ==
  /\ ask[a].stage = "asking"
  /\ \/ \E i \in Readable(ask[a].request) :
          /\ ask' = [ask EXCEPT ![a].got = pipe[i].to,
                       ![a].stage = IF pipe[i].how = "result" THEN "good" ELSE "bad"]
          /\ pipe' = Without(i)
     \/ /\ EndOfPipe /\ ask' = [ask EXCEPT ![a].stage = "bad"]
        /\ UNCHANGED pipe
  /\ locked' = FALSE
  /\ UNCHANGED <<transport, phase, tools, requestId, unanswered, alive, failures, failed,
                 astray, nuisances>>

\* 30 seconds: the answer is left to whoever reads next, all of it, or what
\* follows the part read_line had already taken.
AskTimeOut(a) ==
  /\ ask[a].stage = "asking" /\ Readable(ask[a].request) = {} /\ Nuisance
  /\ ask' = [ask EXCEPT ![a].stage = "bad"] /\ locked' = FALSE
  /\ astray' = astray \cup {ask[a].request}
  /\ \/ UNCHANGED <<unanswered, pipe>>
     \/ /\ transport = "http" /\ unanswered' = unanswered \ {ask[a].request} /\ UNCHANGED pipe
     \/ /\ transport = "stdio" /\ pipe = <<>>
        /\ \E r \in unanswered : /\ unanswered' = unanswered \ {r}
                           /\ pipe' = <<[to |-> r, how |-> "error"]>>
  /\ UNCHANGED <<transport, phase, tools, requestId, alive, failures, failed>>

\* The counter is set after the lock is released.
Settle(a) ==
  /\ ask[a].stage \in {"good", "bad"}
  /\ LET t == ask[a].tool
         good == ask[a].stage = "good"
     IN /\ ask' = [ask EXCEPT ![a].stage = IF good THEN "success" ELSE "error"]
        /\ failures' = [failures EXCEPT ![t] = IF good THEN 0 ELSE @ + 1]
        /\ failed' = IF good THEN failed ELSE [failed EXCEPT ![t] = @ \cup {a}]
  /\ UNCHANGED <<serverVars, transport, phase, tools, requestId, locked, astray>>

McpNext ==
  \/ \E r \in unanswered, how \in {"result", "error"} : Answer(r, how)
  \/ \E how \in {"result", "error"} : Chatter(how)
  \/ Die \/ Connect \/ ConnectTimeOut
  \/ \E a \in Asks, t \in Offered : Admit(a, t)
  \/ \E a \in Asks : Ask(a) \/ TakeLine(a) \/ AskTimeOut(a) \/ Settle(a)

McpSpec == McpInit /\ [][McpNext]_mcpVars

-----------------------------------------------------------------------------
\* Calls that overlap get their own answers as long as the server keeps to
\* the protocol and in time; over HTTP always. A line that answers another
\* request is taken only after a request of before was given up, or after a
\* line nobody asked for.
OwnAnswers ==
  \A a \in Asks : ask[a].stage \in {"good", "success"} =>
    \/ ask[a].got = ask[a].request
    \/ transport = "stdio" /\ \E r \in astray : r < ask[a].request

\* No answer is given to two calls, and a tool is suspended only by three
\* failures of its own, whatever happens to the others of its server.
Suspensions ==
  /\ \A a, b \in Asks : ask[a].got = ask[b].got /\ ask[a].got # 0 => a = b
  /\ \A a \in Asks : ask[a].stage = "suspended" =>
       Cardinality(failed[ask[a].tool]) >= MaxFailures

AnswersMatched == OwnAnswers /\ Suspensions
=============================================================================
