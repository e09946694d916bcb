----------------------------- MODULE McpProofs ------------------------------
(***************************************************************************)
(* The answers of a tool server, for any number of its tools, of calls and *)
(* of nuisances, and any number of failures that suspend a tool.           *)
(*                                                                         *)
(* The invariant says whose lines may still come: the last request's, if   *)
(* somebody waits for it, and those behind one that went astray before.    *)
(***************************************************************************)
EXTENDS McpClient, FiniteSetTheorems, SequenceTheorems, TLAPS

ServerLine == [to : Nat, how : {"result", "error"}]
Stages == {"new", "admitted", "asking", "good", "bad", "success", "error", "suspended"}
Asked == [stage : Stages, tool : Offered \cup {"none"}, request : Nat, got : Nat]

McpTypes ==
  /\ transport \in {"stdio", "http"} /\ phase \in {"initialize", "discover", "serving", "failed"}
  /\ tools \subseteq Offered /\ requestId \in Nat
  /\ (\A r \in unanswered : r \in Nat /\ r > 0) /\ (\A r \in astray : r \in Nat)
  /\ pipe \in Seq(ServerLine)
  /\ alive \in BOOLEAN /\ locked \in BOOLEAN
  /\ ask \in [Asks -> Asked]
  /\ failures \in [Offered -> Nat] /\ failed \in [Offered -> SUBSET Asks]

\* Only a request that was made is answered, and nothing is left of a server
\* that died but what it wrote.
RequestsNumbered ==
  /\ requestId > 0 /\ \A r \in unanswered : r <= requestId
  /\ \A i \in 1..Len(pipe) : pipe[i].to <= requestId
  /\ \A a \in Asks : ask[a].request <= requestId /\ ask[a].got <= requestId
  /\ ~alive => unanswered = {}

\* One call at a time waits for an answer, that of the last request.
InTurn ==
  /\ phase # "serving" => \A a \in Asks : ask[a].stage = "new"
  /\ \A a \in Asks : /\ ask[a].stage = "asking" => locked /\ ask[a].request = requestId
                     /\ ask[a].stage # "new" => ask[a].tool \in Offered
  /\ \A a, b \in Asks : ask[a].stage = "asking" /\ ask[b].stage = "asking" => a = b

\* No request has two answers.
Once ==
  /\ \A i, j \in 1..Len(pipe) : pipe[i].to = pipe[j].to => pipe[i].to = 0 \/ i = j
  /\ \A i \in 1..Len(pipe) : pipe[i].to \notin unanswered
  /\ \A a \in Asks : ask[a].got # 0 =>
       ask[a].got \notin unanswered /\ \A i \in 1..Len(pipe) : pipe[i].to # ask[a].got
  /\ \A a, b \in Asks : ask[a].got = ask[b].got /\ ask[a].got # 0 => a = b

Awaited == phase \in {"initialize", "discover"} \/ \E a \in Asks : ask[a].stage = "asking"
Late(r) == \E s \in astray : s <= r
Expected(r) == (r = requestId /\ Awaited) \/ Late(r)

Owed ==
  phase # "failed" /\ transport = "stdio" =>
    /\ \A r \in unanswered : Expected(r)
    /\ \A i \in 1..Len(pipe) : Expected(pipe[i].to)

\* A tool has no more consecutive failures than failures.
Counted ==
  \A t \in Offered : /\ \A a \in failed[t] : ask[a].stage = "error"
                     /\ failures[t] <= Cardinality(failed[t])

SuspendedRightly ==
  \A a \in Asks : ask[a].stage = "suspended" => Cardinality(failed[ask[a].tool]) >= MaxFailures

\* The rest of the types: what was given up had been asked.
McpBounded ==
  /\ transport \in Transports /\ nuisances \in 0..MaxNuisances
  /\ \A r \in astray : r <= requestId

McpInv ==
  /\ McpTypes /\ RequestsNumbered /\ InTurn /\ Once /\ Owed
  /\ OwnAnswers /\ Counted /\ SuspendedRightly /\ McpBounded

-----------------------------------------------------------------------------
\* The call a is now at stage s, with tool t, request r and answer g; no other moved.
AskIs(a, s, t, r, g) ==
  /\ ask' \in [Asks -> Asked] /\ \A b \in Asks : b # a => ask'[b] = ask[b]
  /\ ask'[a].stage = s /\ ask'[a].tool = t /\ ask'[a].request = r /\ ask'[a].got = g

\* What is left of the pipe when its i-th line is taken out: the lines before
\* it, where they were, and those behind it, one place further.
Rest(i) ==
  /\ pipe' \in Seq(ServerLine) /\ Len(pipe') = Len(pipe) - 1
  /\ \A j \in 1..(Len(pipe) - 1) : j < i => pipe'[j] = pipe[j]
  /\ \A j \in 1..(Len(pipe) - 1) : j >= i => pipe'[j] = pipe[j + 1]

LEMMA PipeLines ==
  ASSUME McpTypes
  PROVE  Len(pipe) \in Nat /\ \A i \in 1..Len(pipe) : pipe[i] \in ServerLine
BY LenProperties, ElementOfSeq DEF McpTypes

LEMMA WithoutOne ==
  ASSUME McpTypes, NEW i \in 1..Len(pipe), pipe' = Without(i) PROVE Rest(i)
<1>1. pipe \in Seq(ServerLine) /\ Len(pipe) \in Nat
  BY PipeLines DEF McpTypes
<1> DEFINE before == SubSeq(pipe, 1, i - 1)
           after  == SubSeq(pipe, i + 1, Len(pipe))
<1>2. /\ before \in Seq(ServerLine) /\ Len(before) = i - 1
      /\ \A j \in 1..(i - 1) : before[j] = pipe[j]
  <2>1. 1 \in 1..Len(pipe) + 1 /\ i - 1 \in 0..Len(pipe) /\ i - 1 - 1 + 1 = i - 1
    BY <1>1
  <2>2. QED
    BY <1>1, <2>1, SubSeqProperties
<1>3. /\ after \in Seq(ServerLine) /\ Len(after) = Len(pipe) - i
      /\ \A j \in 1..(Len(pipe) - i) : after[j] = pipe[i + j]
  <2>1. i + 1 \in 1..Len(pipe) + 1 /\ Len(pipe) \in i..Len(pipe)
    BY <1>1
  <2>2. QED
    BY <1>1, <2>1, SubSeqProperties
<1>4. pipe' = before \o after
  BY DEF Without
<1> HIDE DEF before, after
<1>5. /\ pipe' \in Seq(ServerLine) /\ Len(pipe') = Len(before) + Len(after)
      /\ \A j \in 1..(Len(before) + Len(after)) :
           pipe'[j] = IF j <= Len(before) THEN before[j] ELSE after[j - Len(before)]
  <2>1. before \in Seq(ServerLine) /\ after \in Seq(ServerLine)
    BY <1>2, <1>3
  <2>2. /\ before \o after \in Seq(ServerLine)
        /\ Len(before \o after) = Len(before) + Len(after)
        /\ \A j \in 1..(Len(before) + Len(after)) :
             (before \o after)[j] = IF j <= Len(before) THEN before[j] ELSE after[j - Len(before)]
    BY <2>1, ConcatProperties, Zenon
  <2>3. QED
    BY <1>4, <2>2, Zenon
<1>6. Len(pipe') = Len(pipe) - 1 /\ Len(before) + Len(after) = Len(pipe) - 1
  BY <1>1, <1>2, <1>3, <1>5
<1>7. ASSUME NEW j \in 1..(Len(pipe) - 1), j < i PROVE pipe'[j] = pipe[j]
  <2>1. j <= Len(before) /\ j \in 1..(i - 1)
    BY <1>1, <1>2, <1>7
  <2>2. QED
    BY <1>2, <1>5, <1>6, <2>1
<1>8. ASSUME NEW j \in 1..(Len(pipe) - 1), j >= i PROVE pipe'[j] = pipe[j + 1]
  <2>1. ~(j <= Len(before)) /\ j - Len(before) \in 1..(Len(pipe) - i)
        /\ i + (j - Len(before)) = j + 1
    BY <1>1, <1>2, <1>8
  <2>2. pipe'[j] = after[j - Len(before)]
    BY <1>5, <1>6, <2>1
  <2>3. QED
    BY <1>3, <2>1, <2>2
<1>9. QED
  BY <1>5, <1>6, <1>7, <1>8 DEF Rest

\* Where the line was that is now the j-th.
Was(i, j) == IF j < i THEN j ELSE j + 1

\* So every line that is left was there, and none of them twice.
LEMMA RestLines ==
  ASSUME McpTypes, NEW i \in 1..Len(pipe), Rest(i)
  PROVE  /\ pipe' \in Seq(ServerLine)
         /\ \A j \in 1..Len(pipe') : Was(i, j) \in 1..Len(pipe) /\ pipe'[j] = pipe[Was(i, j)]
         /\ \A j1, j2 \in 1..Len(pipe') : j1 # j2 => Was(i, j1) # Was(i, j2)
         /\ \A j \in 1..Len(pipe') : \E k \in 1..Len(pipe) : k # i /\ pipe'[j] = pipe[k]
<1>1. Len(pipe) \in Nat
  BY PipeLines
<1>2. \A j \in 1..Len(pipe') : Was(i, j) \in 1..Len(pipe) /\ Was(i, j) # i
  BY <1>1 DEF Rest, Was
<1>3. \A j \in 1..Len(pipe') : pipe'[j] = pipe[Was(i, j)]
  BY <1>1 DEF Rest, Was
<1>4. \A j1, j2 \in 1..Len(pipe') : j1 # j2 => Was(i, j1) # Was(i, j2)
  BY <1>1 DEF Rest, Was
<1>5. QED
  BY <1>2, <1>3, <1>4 DEF Rest

LEMMA RestOnce ==
  ASSUME McpTypes, Once, NEW i \in 1..Len(pipe), Rest(i)
  PROVE  /\ \A j1, j2 \in 1..Len(pipe') : pipe'[j1].to = pipe'[j2].to => pipe'[j1].to = 0 \/ j1 = j2
         /\ \A j \in 1..Len(pipe') : /\ pipe'[j].to \notin unanswered
                                     /\ pipe'[j].to # pipe[i].to \/ pipe[i].to = 0
         /\ \A g : (\A k \in 1..Len(pipe) : pipe[k].to # g) =>
                   \A j \in 1..Len(pipe') : pipe'[j].to # g
<1>1. ASSUME NEW j1 \in 1..Len(pipe'), NEW j2 \in 1..Len(pipe'), j1 # j2,
             pipe'[j1].to = pipe'[j2].to
      PROVE  pipe'[j1].to = 0
  <2>1. /\ Was(i, j1) \in 1..Len(pipe) /\ pipe'[j1] = pipe[Was(i, j1)]
        /\ Was(i, j2) \in 1..Len(pipe) /\ pipe'[j2] = pipe[Was(i, j2)]
        /\ Was(i, j1) # Was(i, j2)
    BY <1>1, RestLines
  <2>2. QED
    BY <1>1, <2>1 DEF Once
<1>2. ASSUME NEW j \in 1..Len(pipe')
      PROVE  /\ pipe'[j].to \notin unanswered
             /\ pipe'[j].to # pipe[i].to \/ pipe[i].to = 0
             /\ \A g : (\A k \in 1..Len(pipe) : pipe[k].to # g) => pipe'[j].to # g
  <2>1. PICK k \in 1..Len(pipe) : k # i /\ pipe'[j] = pipe[k]
    BY RestLines
  <2>2. QED
    BY <2>1 DEF Once
<1>3. QED
  BY <1>1, <1>2

LEMMA AskFields ==
  ASSUME McpTypes
  PROVE  \A b \in Asks : /\ ask[b].stage \in Stages /\ ask[b].tool \in Offered \cup {"none"}
                         /\ ask[b].request \in Nat /\ ask[b].got \in Nat
BY DEF McpTypes, Asked

LEMMA Appended ==
  ASSUME McpTypes, NEW l \in ServerLine, pipe' = Append(pipe, l)
  PROVE  /\ pipe' \in Seq(ServerLine) /\ Len(pipe) \in Nat /\ Len(pipe') = Len(pipe) + 1
         /\ \A i \in 1..Len(pipe) : pipe'[i] = pipe[i]
         /\ pipe'[Len(pipe) + 1] = l
         /\ \A i \in 1..Len(pipe') : i \in 1..Len(pipe) \/ i = Len(pipe) + 1
<1>1. pipe \in Seq(ServerLine) /\ Len(pipe) \in Nat
  BY LenProperties DEF McpTypes
<1>2. QED
  BY <1>1, AppendProperties

\* What is taken out is a line of the pipe.
LEMMA ReadableIsLine ==
  ASSUME McpTypes, NEW r, NEW i \in Readable(r)
  PROVE  /\ i \in 1..Len(pipe) /\ pipe[i] \in ServerLine
         /\ transport = "http" => pipe[i].to = r
BY LenProperties, ElementOfSeq DEF McpTypes, Readable

-----------------------------------------------------------------------------
(***************************************************************************)
(* What each step of a call does to it.                                    *)
(***************************************************************************)
LEMMA AdmitAsk ==
  ASSUME McpTypes, NEW a \in Asks, NEW t \in Offered, Admit(a, t)
  PROVE  /\ AskIs(a, IF failures[t] >= MaxFailures THEN "suspended" ELSE "admitted", t,
                  ask[a].request, ask[a].got)
         /\ phase = "serving" /\ ask[a].stage = "new"
         /\ UNCHANGED <<serverVars, transport, phase, tools, requestId, locked, failures,
                        failed, astray>>
<1> DEFINE s == IF failures[t] >= MaxFailures THEN "suspended" ELSE "admitted"
<1>1. s \in Stages /\ ask[a] \in Asked /\ ask \in [Asks -> Asked]
  BY DEF Stages, McpTypes
<1>2. ask' = [ask EXCEPT ![a].tool = t, ![a].stage = s]
  BY DEF Admit
<1> HIDE DEF s
<1>3. AskIs(a, s, t, ask[a].request, ask[a].got)
  BY <1>1, <1>2 DEF AskIs, Asked
<1>4. QED
  BY <1>3 DEF s, Admit

LEMMA AskAsk ==
  ASSUME McpTypes, NEW a \in Asks, Ask(a)
  PROVE  /\ \/ /\ alive /\ AskIs(a, "asking", ask[a].tool, requestId + 1, ask[a].got)
               /\ unanswered' = unanswered \cup {requestId + 1}
            \/ /\ ~alive /\ AskIs(a, "bad", ask[a].tool, requestId + 1, ask[a].got)
               /\ unanswered' = unanswered
         /\ ask[a].stage = "admitted" /\ ~locked /\ locked' = alive
         /\ requestId' = requestId + 1
         /\ UNCHANGED <<transport, phase, tools, pipe, alive, failures, failed, astray,
                        nuisances>>
<1> DEFINE s == IF alive THEN "asking" ELSE "bad"
<1>1. s \in Stages /\ ask[a] \in Asked /\ ask \in [Asks -> Asked] /\ requestId + 1 \in Nat
  BY DEF Stages, McpTypes
<1>2. ask' = [ask EXCEPT ![a].request = requestId + 1, ![a].stage = s]
  BY DEF Ask
<1> HIDE DEF s
<1>3. AskIs(a, s, ask[a].tool, requestId + 1, ask[a].got)
  BY <1>1, <1>2 DEF AskIs, Asked
<1>4. QED
  BY <1>3 DEF s, Ask

LEMMA TakeAsk ==
  ASSUME McpTypes, NEW a \in Asks, TakeLine(a)
  PROVE  /\ \/ \E i \in 1..Len(pipe) :
                 /\ i \in Readable(ask[a].request) /\ Rest(i)
                 /\ \E s \in {"good", "bad"} :
                      AskIs(a, s, ask[a].tool, ask[a].request, pipe[i].to)
            \/ /\ EndOfPipe /\ UNCHANGED pipe
               /\ AskIs(a, "bad", ask[a].tool, ask[a].request, ask[a].got)
         /\ ask[a].stage = "asking" /\ locked' = FALSE
         /\ UNCHANGED <<transport, phase, tools, requestId, unanswered, alive, failures,
                        failed, astray, nuisances>>
<1>1. ask[a] \in Asked /\ ask \in [Asks -> Asked]
  BY DEF McpTypes
<1>2. ASSUME NEW i \in Readable(ask[a].request), pipe' = Without(i),
             ask' = [ask EXCEPT ![a].got = pipe[i].to,
                       ![a].stage = IF pipe[i].how = "result" THEN "good" ELSE "bad"]
      PROVE  /\ i \in 1..Len(pipe) /\ Rest(i)
             /\ \E s \in {"good", "bad"} : AskIs(a, s, ask[a].tool, ask[a].request, pipe[i].to)
  <2>1. i \in 1..Len(pipe) /\ pipe[i].to \in Nat
    BY ReadableIsLine DEF ServerLine
  <2>2. Rest(i)
    BY <1>2, <2>1, WithoutOne
  <2> DEFINE s == IF pipe[i].how = "result" THEN "good" ELSE "bad"
             g == pipe[i].to
  <2>3. ask' = [ask EXCEPT ![a].got = g, ![a].stage = s] /\ g \in Nat
        /\ s \in {"good", "bad"} /\ s \in Stages
    BY <1>2, <2>1 DEF Stages
  <2> HIDE DEF s, g
  <2>4. AskIs(a, s, ask[a].tool, ask[a].request, g)
    BY <1>1, <2>3 DEF AskIs, Asked
  <2>5. QED
    BY <2>1, <2>2, <2>3, <2>4 DEF g
<1>3. ASSUME ask' = [ask EXCEPT ![a].stage = "bad"]
      PROVE  AskIs(a, "bad", ask[a].tool, ask[a].request, ask[a].got)
  BY <1>1, <1>3 DEF AskIs, Asked, Stages
<1>4. \/ \E i \in 1..Len(pipe) :
           /\ i \in Readable(ask[a].request) /\ Rest(i)
           /\ \E s \in {"good", "bad"} : AskIs(a, s, ask[a].tool, ask[a].request, pipe[i].to)
      \/ /\ EndOfPipe /\ UNCHANGED pipe
         /\ AskIs(a, "bad", ask[a].tool, ask[a].request, ask[a].got)
  BY <1>2, <1>3 DEF TakeLine
<1>5. QED
  BY <1>4 DEF TakeLine

\* What is left when a call gives up: all of it, all but its own request, or
\* the rest of a torn line in an empty pipe.
LEMMA TimeOutAsk ==
  ASSUME McpTypes, NEW a \in Asks, AskTimeOut(a)
  PROVE  /\ AskIs(a, "bad", ask[a].tool, ask[a].request, ask[a].got)
         /\ ask[a].stage = "asking" /\ locked' = FALSE /\ astray' = astray \cup {ask[a].request}
         /\ \/ unanswered' \subseteq unanswered /\ UNCHANGED pipe
            \/ \E r \in unanswered : /\ unanswered' = unanswered \ {r} /\ Len(pipe') = 1
                                     /\ pipe' \in Seq(ServerLine) /\ pipe'[1].to = r
         /\ UNCHANGED <<transport, phase, tools, requestId, alive, failures, failed>>
<1>1. ask[a] \in Asked /\ ask \in [Asks -> Asked]
  BY DEF McpTypes
<1>2. ask' = [ask EXCEPT ![a].stage = "bad"]
  BY DEF AskTimeOut
<1>3. AskIs(a, "bad", ask[a].tool, ask[a].request, ask[a].got)
  BY <1>1, <1>2 DEF AskIs, Asked, Stages
<1>4. ASSUME NEW r \in unanswered, pipe' = <<[to |-> r, how |-> "error"]>>
      PROVE  Len(pipe') = 1 /\ pipe' \in Seq(ServerLine) /\ pipe'[1].to = r
  <2>1. [to |-> r, how |-> "error"] \in ServerLine
    BY DEF McpTypes, ServerLine
  <2>2. QED
    BY <1>4, <2>1
<1>5. \/ unanswered' \subseteq unanswered /\ UNCHANGED pipe
      \/ \E r \in unanswered : /\ unanswered' = unanswered \ {r} /\ Len(pipe') = 1
                               /\ pipe' \in Seq(ServerLine) /\ pipe'[1].to = r
  BY <1>4 DEF AskTimeOut
<1>6. QED
  BY <1>3, <1>5 DEF AskTimeOut, Nuisance

LEMMA SettleAsk ==
  ASSUME McpTypes, NEW a \in Asks, Settle(a)
  PROVE  /\ \/ /\ ask[a].stage = "good" /\ failed' = failed
               /\ AskIs(a, "success", ask[a].tool, ask[a].request, ask[a].got)
               /\ failures' = [failures EXCEPT ![ask[a].tool] = 0]
            \/ /\ ask[a].stage = "bad"
               /\ AskIs(a, "error", ask[a].tool, ask[a].request, ask[a].got)
               /\ failures' = [failures EXCEPT ![ask[a].tool] = @ + 1]
               /\ failed' = [failed EXCEPT ![ask[a].tool] = @ \cup {a}]
         /\ UNCHANGED <<serverVars, transport, phase, tools, requestId, locked, astray>>
<1> DEFINE s == IF ask[a].stage = "good" THEN "success" ELSE "error"
<1>1. s \in Stages /\ ask[a] \in Asked /\ ask \in [Asks -> Asked]
  BY DEF Stages, McpTypes
<1>2. ask' = [ask EXCEPT ![a].stage = s]
  BY DEF Settle
<1> HIDE DEF s
<1>3. AskIs(a, s, ask[a].tool, ask[a].request, ask[a].got)
  BY <1>1, <1>2 DEF AskIs, Asked
<1>4. CASE ask[a].stage = "good"
  BY <1>3, <1>4 DEF s, Settle
<1>5. CASE ask[a].stage = "bad"
  BY <1>3, <1>5 DEF s, Settle
<1>6. QED
  BY <1>4, <1>5 DEF Settle

\* The two requests of the connection: the line that is taken, or the end.
LEMMA ConnectLine ==
  ASSUME McpTypes, Connect
  PROVE  /\ phase \in {"initialize", "discover"} /\ tools' \subseteq Offered
         /\ \/ phase' = "failed" /\ UNCHANGED <<requestId, unanswered>>
            \/ phase' = "serving" /\ UNCHANGED <<requestId, unanswered>>
            \/ phase' = "discover" /\ requestId' = requestId + 1 /\ alive
               /\ unanswered' = unanswered \cup {requestId + 1}
            \/ phase' = "discover" /\ requestId' = requestId + 1 /\ ~alive
               /\ unanswered' = unanswered
         /\ \/ \E i \in 1..Len(pipe) : i \in Readable(requestId) /\ Rest(i)
            \/ EndOfPipe /\ phase' = "failed" /\ UNCHANGED pipe
         /\ UNCHANGED <<transport, alive, locked, ask, failures, failed, astray, nuisances>>
<1>1. ASSUME NEW i \in Readable(requestId), pipe' = Without(i)
      PROVE  i \in 1..Len(pipe) /\ Rest(i)
  BY <1>1, ReadableIsLine, WithoutOne
<1>2. ASSUME NEW how, NEW to, Connected(how, to)
      PROVE  /\ tools' \subseteq Offered
             /\ \/ phase' = "failed" /\ UNCHANGED <<requestId, unanswered>>
                \/ phase' = "serving" /\ UNCHANGED <<requestId, unanswered>>
                \/ phase' = "discover" /\ requestId' = requestId + 1 /\ alive
                   /\ unanswered' = unanswered \cup {requestId + 1}
                \/ phase' = "discover" /\ requestId' = requestId + 1 /\ ~alive
                   /\ unanswered' = unanswered
  BY <1>2 DEF Connected, McpTypes
<1>3. Connected("error", 0) => phase' = "failed"
  BY DEF Connected
<1>4. PICK how, to : Connected(how, to)
  BY DEF Connect
<1>5. \/ \E i \in 1..Len(pipe) : i \in Readable(requestId) /\ Rest(i)
      \/ EndOfPipe /\ phase' = "failed" /\ UNCHANGED pipe
  BY <1>1, <1>3 DEF Connect
<1>6. QED
  BY <1>2, <1>4, <1>5 DEF Connect

-----------------------------------------------------------------------------

LEMMA FailedFinite ==
  ASSUME McpTypes
  PROVE  \A t \in Offered : IsFiniteSet(failed[t]) /\ Cardinality(failed[t]) \in Nat
<1>1. IsFiniteSet(Asks)
  BY McpAssumption, FS_Interval DEF Asks
<1>2. \A t \in Offered : failed[t] \subseteq Asks
  BY DEF McpTypes
<1>3. QED
  BY <1>1, <1>2, FS_Subset, FS_CardinalityType

\* Once the next line of stdio is taken, nothing is left but what is late.
LEMMA LeftIsLate ==
  ASSUME McpTypes, RequestsNumbered, Once, Owed, phase # "failed", transport = "stdio",
         NEW i \in 1..Len(pipe)
  PROVE  /\ \A r \in unanswered : Late(r)
         /\ \A k \in 1..Len(pipe) : k # i => Late(pipe[k].to)
<1>1. requestId \in Nat /\ requestId > 0 /\ \A s \in astray : s \in Nat
  BY DEF McpTypes, RequestsNumbered
<1>2. \A k \in 1..Len(pipe) : /\ pipe[k].to \in Nat /\ pipe[k].to <= requestId
                              /\ pipe[k].to = requestId \/ Late(pipe[k].to)
  BY PipeLines DEF ServerLine, RequestsNumbered, Owed, Expected
<1>3. \A r \in unanswered : r = requestId \/ Late(r)
  BY DEF Owed, Expected
<1>4. CASE Late(requestId)
  BY <1>2, <1>3, <1>4
<1>5. CASE ~Late(requestId)
  <2>1. pipe[i].to = requestId
    <3>1. ASSUME Late(pipe[i].to) PROVE Late(requestId)
      <4>1. PICK s \in astray : s <= pipe[i].to
        BY <3>1 DEF Late
      <4>2. s \in Nat
        BY <1>1, <4>1
      <4>3. pipe[i].to \in Nat /\ pipe[i].to <= requestId
        BY <1>2
      <4>4. s <= requestId
        BY <1>1, <4>1, <4>2, <4>3
      <4>5. QED
        BY <4>4 DEF Late
    <3>2. QED
      BY <1>2, <1>5, <3>1
  <2>2. \A k \in 1..Len(pipe) : k # i => pipe[k].to # requestId
    BY <1>1, <2>1 DEF Once
  <2>3. requestId \notin unanswered
    BY <2>1 DEF Once
  <2>4. QED
    BY <1>2, <1>3, <2>2, <2>3
<1>6. QED
  BY <1>4, <1>5

\* Every step keeps the types.
LEMMA McpTypesStep ==
  ASSUME McpTypes, InTurn, [McpNext]_mcpVars PROVE McpTypes'
<1> USE DEF McpTypes
<1>1. ASSUME NEW r \in unanswered, NEW how \in {"result", "error"}, Answer(r, how) PROVE McpTypes'
  BY <1>1, Appended DEF Answer, clientVars, ServerLine
<1>2. ASSUME NEW how \in {"result", "error"}, Chatter(how) PROVE McpTypes'
  BY <1>2, Appended DEF Chatter, Nuisance, ServerLine
<1>3. CASE Die
  BY <1>3 DEF Die, Nuisance, clientVars
<1>4. CASE Connect
  BY <1>4, ConnectLine DEF Rest
<1>5. CASE ConnectTimeOut
  BY <1>5 DEF ConnectTimeOut
<1>6. ASSUME NEW a \in Asks, NEW t \in Offered, Admit(a, t) PROVE McpTypes'
  BY <1>6, AdmitAsk DEF AskIs, serverVars
<1>7. ASSUME NEW a \in Asks, Ask(a) PROVE McpTypes'
  BY <1>7, AskAsk DEF AskIs
<1>8. ASSUME NEW a \in Asks, TakeLine(a) PROVE McpTypes'
  BY <1>8, TakeAsk DEF AskIs, Rest
<1>9. ASSUME NEW a \in Asks, AskTimeOut(a) PROVE McpTypes'
  <2>1. ask' \in [Asks -> Asked] /\ pipe' \in Seq(ServerLine)
    BY <1>9, TimeOutAsk DEF AskIs
  <2>2. (\A r \in unanswered' : r \in Nat /\ r > 0) /\ (\A r \in astray' : r \in Nat)
    BY <1>9, TimeOutAsk, AskFields
  <2>3. QED
    BY <1>9, <2>1, <2>2, TimeOutAsk
<1>10. ASSUME NEW a \in Asks, Settle(a) PROVE McpTypes'
  <2>1. ask' \in [Asks -> Asked]
    BY <1>10, SettleAsk DEF AskIs
  <2>2. ask[a].tool \in Offered
    BY <1>10 DEF Settle, InTurn
  <2>3. failures' \in [Offered -> Nat]
    <3>1. failures[ask[a].tool] + 1 \in Nat
      BY <2>2
    <3>2. QED
      BY <1>10, <3>1, SettleAsk, SMTT(30)
  <2>4. failed' \in [Offered -> SUBSET Asks]
    BY <1>10, <2>2, SettleAsk
  <2>5. QED
    BY <1>10, <2>1, <2>3, <2>4, SettleAsk DEF serverVars
<1>11. CASE UNCHANGED mcpVars
  BY <1>11 DEF mcpVars
<1>12. QED
  BY <1>1, <1>2, <1>3, <1>4, <1>5, <1>6, <1>7, <1>8, <1>9, <1>10, <1>11 DEF McpNext

\* Every number in use is that of a request made.
LEMMA NumberedStep ==
  ASSUME McpTypes, RequestsNumbered, InTurn, [McpNext]_mcpVars PROVE RequestsNumbered'
<1> USE DEF RequestsNumbered
<1>1. ASSUME NEW r \in unanswered, NEW how \in {"result", "error"}, Answer(r, how) PROVE RequestsNumbered'
  BY <1>1, Appended, PipeLines DEF Answer, clientVars, ServerLine, McpTypes
<1>2. ASSUME NEW how \in {"result", "error"}, Chatter(how) PROVE RequestsNumbered'
  BY <1>2, Appended, PipeLines DEF Chatter, Nuisance, ServerLine, McpTypes
<1>3. CASE Die
  BY <1>3 DEF Die, Nuisance, clientVars
<1>4. CASE Connect
  <2>1. requestId' \in Nat /\ requestId' >= requestId /\ requestId \in Nat
    BY <1>4, ConnectLine DEF McpTypes
  <2>2. (\A r \in unanswered : r \in Nat) /\ \A b \in Asks : ask'[b] = ask[b]
    BY <1>4, ConnectLine DEF McpTypes
  <2>3. requestId' > 0 /\ (\A r \in unanswered' : r <= requestId') /\ (~alive' => unanswered' = {})
    BY <1>4, <2>1, <2>2, ConnectLine
  <2>4. \A i \in 1..Len(pipe') : pipe'[i].to <= requestId'
    <3>1. \A i \in 1..Len(pipe') : \E k \in 1..Len(pipe) : pipe'[i] = pipe[k]
      BY <1>4, ConnectLine, RestLines
    <3>2. \A k \in 1..Len(pipe) : pipe[k].to \in Nat /\ pipe[k].to <= requestId
      BY PipeLines DEF ServerLine
    <3>3. QED
      BY <2>1, <3>1, <3>2
  <2>5. \A b \in Asks : ask'[b].request <= requestId' /\ ask'[b].got <= requestId'
    BY <2>1, <2>2, AskFields
  <2>6. QED
    BY <2>3, <2>4, <2>5
<1>5. CASE ConnectTimeOut
  BY <1>5 DEF ConnectTimeOut
<1>6. ASSUME NEW a \in Asks, NEW t \in Offered, Admit(a, t) PROVE RequestsNumbered'
  <2>1. \A b \in Asks : ask'[b].request = ask[b].request /\ ask'[b].got = ask[b].got
    BY <1>6, AdmitAsk DEF AskIs
  <2>2. QED
    BY <1>6, <2>1, AdmitAsk DEF serverVars
<1>7. ASSUME NEW a \in Asks, Ask(a) PROVE RequestsNumbered'
  <2>1. requestId' = requestId + 1 /\ requestId \in Nat
    BY <1>7, AskAsk DEF McpTypes
  <2>2. \A b \in Asks : /\ ask'[b].request \in {ask[b].request, requestId'}
                        /\ ask'[b].got = ask[b].got
    BY <1>7, AskAsk DEF AskIs
  <2>3. \A b \in Asks : ask'[b].request <= requestId' /\ ask'[b].got <= requestId'
    BY <2>1, <2>2, AskFields
  <2>4. requestId' > 0 /\ (\A r \in unanswered' : r <= requestId') /\ (~alive' => unanswered' = {})
    BY <1>7, <2>1, AskAsk, SMTT(30) DEF McpTypes
  <2>5. \A i \in 1..Len(pipe') : pipe'[i].to <= requestId'
    BY <1>7, <2>1, AskAsk, PipeLines DEF ServerLine
  <2>6. QED
    BY <2>3, <2>4, <2>5
<1>8. ASSUME NEW a \in Asks, TakeLine(a) PROVE RequestsNumbered'
  <2>1. \A i \in 1..Len(pipe') : \E k \in 1..Len(pipe) : pipe'[i] = pipe[k]
    <3>1. CASE UNCHANGED pipe
      BY <3>1
    <3>2. CASE \E i \in 1..Len(pipe) : Rest(i)
      BY <3>2, RestLines
    <3>3. QED
      BY <1>8, <3>1, <3>2, TakeAsk
  <2>2. \A b \in Asks : ask'[b].request = ask[b].request
    BY <1>8, TakeAsk DEF AskIs
  <2>3. \A b \in Asks : ask'[b].got = ask[b].got \/ \E i \in 1..Len(pipe) : ask'[b].got = pipe[i].to
    BY <1>8, TakeAsk DEF AskIs
  <2>4. QED
    BY <1>8, <2>1, <2>2, <2>3, TakeAsk
<1>9. ASSUME NEW a \in Asks, AskTimeOut(a) PROVE RequestsNumbered'
  <2>1. \A b \in Asks : ask'[b].request = ask[b].request /\ ask'[b].got = ask[b].got
    BY <1>9, TimeOutAsk DEF AskIs
  <2>2. \A i \in 1..Len(pipe') : pipe'[i].to <= requestId'
    <3>1. CASE UNCHANGED pipe
      BY <1>9, <3>1, TimeOutAsk
    <3>2. CASE \E r \in unanswered : Len(pipe') = 1 /\ pipe'[1].to = r
      <4>1. \A i \in 1..Len(pipe') : i = 1
        BY <3>2
      <4>2. requestId' = requestId
        BY <1>9, TimeOutAsk
      <4>3. QED
        BY <3>2, <4>1, <4>2
    <3>3. QED
      BY <1>9, <3>1, <3>2, TimeOutAsk
  <2>3. QED
    BY <1>9, <2>1, <2>2, TimeOutAsk
<1>10. ASSUME NEW a \in Asks, Settle(a) PROVE RequestsNumbered'
  <2>1. \A b \in Asks : ask'[b].request = ask[b].request /\ ask'[b].got = ask[b].got
    BY <1>10, SettleAsk DEF AskIs
  <2>2. QED
    BY <1>10, <2>1, SettleAsk DEF serverVars
<1>11. CASE UNCHANGED mcpVars
  BY <1>11 DEF mcpVars
<1>12. QED
  BY <1>1, <1>2, <1>3, <1>4, <1>5, <1>6, <1>7, <1>8, <1>9, <1>10, <1>11 DEF McpNext

\* A call that waited and has its outcome leaves none waiting.
LEMMA WaitingEnds ==
  ASSUME InTurn, NEW a \in Asks, ask[a].stage = "asking", NEW s \in {"good", "bad"}, NEW g,
         AskIs(a, s, ask[a].tool, ask[a].request, g), UNCHANGED phase
  PROVE  InTurn'
<1>1. \A b \in Asks : b # a => ask'[b] = ask[b]
  BY DEF AskIs
<1>2. ask'[a].stage \in {"good", "bad"} /\ ask'[a].tool = ask[a].tool
  BY DEF AskIs
<1>3. \A b \in Asks : ask'[b].stage # "asking"
  BY <1>1, <1>2 DEF InTurn
<1>4. \A b \in Asks : ask'[b].stage # "new" => ask'[b].tool \in Offered
  BY <1>1, <1>2 DEF InTurn
<1>5. phase' = "serving"
  BY DEF InTurn
<1>6. QED
  BY ONLY <1>3, <1>4, <1>5 DEF InTurn

\* The lock lets one call wait at a time.
LEMMA InTurnStep ==
  ASSUME McpTypes, RequestsNumbered, InTurn, [McpNext]_mcpVars PROVE InTurn'
<1> USE DEF InTurn
<1>1. ASSUME NEW r \in unanswered, NEW how \in {"result", "error"}, Answer(r, how) PROVE InTurn'
  BY <1>1 DEF Answer, clientVars
<1>2. ASSUME NEW how \in {"result", "error"}, Chatter(how) PROVE InTurn'
  BY <1>2 DEF Chatter
<1>3. CASE Die
  BY <1>3 DEF Die, Nuisance, clientVars
<1>4. CASE Connect
  BY <1>4, ConnectLine
<1>5. CASE ConnectTimeOut
  BY <1>5 DEF ConnectTimeOut
<1>6. ASSUME NEW a \in Asks, NEW t \in Offered, Admit(a, t) PROVE InTurn'
  BY <1>6, AdmitAsk DEF AskIs, serverVars
<1>7. ASSUME NEW a \in Asks, Ask(a) PROVE InTurn'
  BY <1>7, AskAsk DEF AskIs
<1>8. ASSUME NEW a \in Asks, TakeLine(a) PROVE InTurn'
  BY <1>8, TakeAsk, WaitingEnds
<1>9. ASSUME NEW a \in Asks, AskTimeOut(a) PROVE InTurn'
  BY <1>9, TimeOutAsk, WaitingEnds
<1>10. ASSUME NEW a \in Asks, Settle(a) PROVE InTurn'
  BY <1>10, SettleAsk DEF AskIs, serverVars
<1>11. CASE UNCHANGED mcpVars
  BY <1>11 DEF mcpVars
<1>12. QED
  BY <1>1, <1>2, <1>3, <1>4, <1>5, <1>6, <1>7, <1>8, <1>9, <1>10, <1>11 DEF McpNext

\* No step gives a request a second answer.
LEMMA OnceStep ==
  ASSUME McpTypes, RequestsNumbered, InTurn, Once, [McpNext]_mcpVars PROVE Once'
<1> USE DEF Once
<1>1. ASSUME NEW r \in unanswered, NEW how \in {"result", "error"}, Answer(r, how) PROVE Once'
  <2>1. r \in Nat /\ r # 0 /\ [to |-> r, how |-> how] \in ServerLine
    BY DEF McpTypes, ServerLine
  <2>2. /\ Len(pipe) \in Nat /\ Len(pipe') = Len(pipe) + 1 /\ pipe'[Len(pipe) + 1].to = r
        /\ \A i \in 1..Len(pipe) : pipe'[i] = pipe[i]
        /\ \A i \in 1..Len(pipe') : i \in 1..Len(pipe) \/ i = Len(pipe) + 1
    BY <1>1, <2>1, Appended DEF Answer
  <2>3. unanswered' = unanswered \ {r} /\ ask' = ask
    BY <1>1 DEF Answer, clientVars
  <2>4. QED
    BY <2>1, <2>2, <2>3
<1>2. ASSUME NEW how \in {"result", "error"}, Chatter(how) PROVE Once'
  <2>1. [to |-> 0, how |-> how] \in ServerLine /\ 0 \notin unanswered
    BY DEF McpTypes, ServerLine
  <2>2. /\ Len(pipe) \in Nat /\ Len(pipe') = Len(pipe) + 1 /\ pipe'[Len(pipe) + 1].to = 0
        /\ \A i \in 1..Len(pipe) : pipe'[i] = pipe[i]
        /\ \A i \in 1..Len(pipe') : i \in 1..Len(pipe) \/ i = Len(pipe) + 1
    BY <1>2, <2>1, Appended DEF Chatter
  <2>3. unanswered' = unanswered /\ ask' = ask
    BY <1>2 DEF Chatter
  <2>4. QED
    BY <2>1, <2>2, <2>3
<1>3. CASE Die
  BY <1>3 DEF Die, Nuisance, clientVars
<1>4. CASE Connect
  <2>1. /\ \A r \in unanswered' : r \in unanswered \/ r = requestId + 1
        /\ ask' = ask /\ requestId \in Nat
    BY <1>4, ConnectLine DEF McpTypes
  <2>2. requestId + 1 > requestId /\ requestId + 1 # 0
    BY <2>1
  <2>3. /\ \A k \in 1..Len(pipe) : pipe[k].to # requestId + 1 /\ pipe[k].to \notin unanswered'
        /\ \A b \in Asks : ask[b].got # requestId + 1
    BY <2>1, <2>2, PipeLines, AskFields DEF RequestsNumbered, ServerLine
  <2>4. CASE UNCHANGED pipe
    BY <2>1, <2>3, <2>4
  <2>5. ASSUME NEW i \in 1..Len(pipe), Rest(i) PROVE Once'
    <3>1. \A j \in 1..Len(pipe') : /\ pipe'[j].to # requestId + 1
                                   /\ \A b \in Asks : ask[b].got # 0 => pipe'[j].to # ask[b].got
      BY <2>3, <2>5, RestOnce
    <3>2. QED
      BY <2>1, <2>3, <2>5, <3>1, RestOnce
  <2>6. QED
    BY <1>4, <2>4, <2>5, ConnectLine
<1>5. CASE ConnectTimeOut
  BY <1>5 DEF ConnectTimeOut
<1>6. ASSUME NEW a \in Asks, NEW t \in Offered, Admit(a, t) PROVE Once'
  <2>1. \A b \in Asks : ask'[b].got = ask[b].got
    BY <1>6, AdmitAsk DEF AskIs
  <2>2. QED
    BY <1>6, <2>1, AdmitAsk DEF serverVars
<1>7. ASSUME NEW a \in Asks, Ask(a) PROVE Once'
  <2>1. /\ \A r \in unanswered' : r \in unanswered \/ r = requestId + 1
        /\ pipe' = pipe /\ requestId \in Nat
    BY <1>7, AskAsk DEF McpTypes
  <2>2. \A b \in Asks : ask'[b].got = ask[b].got
    BY <1>7, AskAsk DEF AskIs
  <2>3. requestId + 1 > requestId /\ requestId + 1 # 0
    BY <2>1
  <2>4. /\ \A k \in 1..Len(pipe) : pipe[k].to # requestId + 1
        /\ \A b \in Asks : ask[b].got # requestId + 1
    BY <2>1, <2>3, PipeLines, AskFields DEF RequestsNumbered, ServerLine
  <2>5. QED
    BY <2>1, <2>2, <2>4
<1>8. ASSUME NEW a \in Asks, TakeLine(a) PROVE Once'
  <2>1. unanswered' = unanswered
    BY <1>8, TakeAsk
  <2>2. CASE /\ UNCHANGED pipe
             /\ AskIs(a, "bad", ask[a].tool, ask[a].request, ask[a].got)
    BY <2>1, <2>2 DEF AskIs
  <2>3. ASSUME NEW i \in 1..Len(pipe), Rest(i), NEW s \in {"good", "bad"},
               AskIs(a, s, ask[a].tool, ask[a].request, pipe[i].to)
        PROVE  Once'
    <3>1. \A b \in Asks : ask'[b].got = IF b = a THEN pipe[i].to ELSE ask[b].got
      BY <2>3 DEF AskIs
    <3>2. \A j \in 1..Len(pipe') : pipe'[j].to # pipe[i].to \/ pipe[i].to = 0
      BY <2>3, RestOnce
    <3>3. \A b1, b2 \in Asks : ask'[b1].got = ask'[b2].got /\ ask'[b1].got # 0 => b1 = b2
      BY <3>1
    <3>4. \A b \in Asks : ask'[b].got # 0 =>
            ask'[b].got \notin unanswered' /\ \A j \in 1..Len(pipe') : pipe'[j].to # ask'[b].got
      BY <2>1, <2>3, <3>1, <3>2, RestOnce, ZenonT(30)
    <3>5. QED
      BY <2>1, <2>3, <3>3, <3>4, RestOnce
  <2>4. \/ /\ UNCHANGED pipe /\ AskIs(a, "bad", ask[a].tool, ask[a].request, ask[a].got)
        \/ \E i \in 1..Len(pipe), s \in {"good", "bad"} :
             Rest(i) /\ AskIs(a, s, ask[a].tool, ask[a].request, pipe[i].to)
    BY <1>8, TakeAsk
  <2>5. QED
    BY <2>2, <2>3, <2>4
<1>9. ASSUME NEW a \in Asks, AskTimeOut(a) PROVE Once'
  <2>1. \A b \in Asks : ask'[b].got = ask[b].got
    BY <1>9, TimeOutAsk DEF AskIs
  <2>2. CASE unanswered' \subseteq unanswered /\ UNCHANGED pipe
    BY <2>1, <2>2
  <2>3. ASSUME NEW r \in unanswered, unanswered' = unanswered \ {r}, Len(pipe') = 1, pipe'[1].to = r
        PROVE  Once'
    <3>1. \A i \in 1..Len(pipe') : i = 1
      BY <2>3
    <3>2. QED
      BY <2>1, <2>3, <3>1
  <2>4. QED
    BY <1>9, <2>2, <2>3, TimeOutAsk
<1>10. ASSUME NEW a \in Asks, Settle(a) PROVE Once'
  <2>1. \A b \in Asks : ask'[b].got = ask[b].got
    BY <1>10, SettleAsk DEF AskIs
  <2>2. QED
    BY <1>10, <2>1, SettleAsk DEF serverVars
<1>11. CASE UNCHANGED mcpVars
  BY <1>11 DEF mcpVars
<1>12. QED
  BY <1>1, <1>2, <1>3, <1>4, <1>5, <1>6, <1>7, <1>8, <1>9, <1>10, <1>11 DEF McpNext

\* What is still to come is the answer somebody waits for, or late.
LEMMA OwedStep ==
  ASSUME McpTypes, RequestsNumbered, InTurn, Once, Owed, [McpNext]_mcpVars PROVE Owed'
<1> USE DEF Owed
<1>1. ASSUME NEW r \in unanswered, NEW how \in {"result", "error"}, Answer(r, how) PROVE Owed'
  <2>1. [to |-> r, how |-> how] \in ServerLine
    BY DEF McpTypes, ServerLine
  <2>2. /\ pipe'[Len(pipe) + 1].to = r /\ \A i \in 1..Len(pipe) : pipe'[i] = pipe[i]
        /\ \A i \in 1..Len(pipe') : i \in 1..Len(pipe) \/ i = Len(pipe) + 1
    BY <1>1, <2>1, Appended DEF Answer
  <2>3. /\ unanswered' = unanswered \ {r} /\ UNCHANGED <<phase, transport>>
        /\ \A q : Expected(q)' <=> Expected(q)
    BY <1>1 DEF Answer, clientVars, Expected, Awaited, Late
  <2>4. QED
    BY <2>2, <2>3
<1>2. ASSUME NEW how \in {"result", "error"}, Chatter(how) PROVE Owed'
  <2>1. [to |-> 0, how |-> how] \in ServerLine
    BY DEF ServerLine
  <2>2. /\ pipe'[Len(pipe) + 1].to = 0 /\ \A i \in 1..Len(pipe) : pipe'[i] = pipe[i]
        /\ \A i \in 1..Len(pipe') : i \in 1..Len(pipe) \/ i = Len(pipe) + 1
    BY <1>2, <2>1, Appended DEF Chatter
  <2>3. /\ unanswered' = unanswered /\ UNCHANGED <<phase, transport>> /\ 0 \in astray'
        /\ \A q : Expected(q) => Expected(q)'
    BY <1>2 DEF Chatter, Expected, Awaited, Late
  <2>4. Expected(0)'
    BY <2>3 DEF Expected, Late
  <2>5. QED
    BY <2>2, <2>3, <2>4
<1>3. CASE Die
  BY <1>3 DEF Die, clientVars, Expected, Awaited, Late
<1>4. CASE Connect
  <2>1. SUFFICES ASSUME phase' # "failed", transport' = "stdio"
        PROVE  (/\ \A r \in unanswered : Expected(r)
                /\ \A i \in 1..Len(pipe) : Expected(pipe[i].to))'
    OBVIOUS
  <2>2. phase # "failed" /\ transport = "stdio" /\ astray' = astray
    BY <1>4, <2>1, ConnectLine
  <2>3. PICK i \in 1..Len(pipe) : Rest(i)
    BY <1>4, <2>1, ConnectLine
  <2>4. \A k \in 1..Len(pipe) : k # i => Late(pipe[k].to)
    BY <2>2, LeftIsLate
  <2>5. \A r \in unanswered : Late(r)
    BY <2>2, <2>3, LeftIsLate
  <2>6. \A q : Late(q) => Expected(q)'
    BY <2>2 DEF Expected, Late
  <2>7. ASSUME NEW r \in unanswered' PROVE Expected(r)'
    <3>1. r \in unanswered \/ (r = requestId' /\ phase' = "discover")
      BY <1>4, ConnectLine
    <3>2. QED
      BY <2>5, <2>6, <3>1 DEF Expected, Awaited
  <2>8. ASSUME NEW j \in 1..Len(pipe') PROVE Expected(pipe[j].to)'
    <3>1. PICK k \in 1..Len(pipe) : k # i /\ pipe'[j] = pipe[k]
      BY <2>3, RestLines
    <3>2. QED
      BY <2>4, <2>6, <3>1
  <2>9. QED
    BY <2>7, <2>8
<1>5. CASE ConnectTimeOut
  BY <1>5 DEF ConnectTimeOut
<1>6. ASSUME NEW a \in Asks, NEW t \in Offered, Admit(a, t) PROVE Owed'
  <2>1. \A b \in Asks : ask'[b].stage = "asking" <=> ask[b].stage = "asking"
    BY <1>6, AdmitAsk DEF AskIs
  <2>2. \A q : Expected(q) => Expected(q)'
    BY <1>6, <2>1, AdmitAsk DEF Expected, Awaited, Late, serverVars
  <2>3. QED
    BY <1>6, <2>2, AdmitAsk DEF serverVars
<1>7. ASSUME NEW a \in Asks, Ask(a) PROVE Owed'
  <2>1. /\ ask[a].stage = "admitted" /\ ~locked
        /\ UNCHANGED <<phase, transport, astray, pipe>>
    BY <1>7, AskAsk
  <2>2. phase = "serving" /\ \A b \in Asks : ask[b].stage # "asking"
    BY <2>1 DEF InTurn
  <2>3. \A q : Expected(q) => Expected(q)'
    BY <2>1, <2>2 DEF Expected, Awaited, Late
  <2>4. \A r \in unanswered' : r \in unanswered \/ (r = requestId' /\ ask'[a].stage = "asking")
    BY <1>7, AskAsk DEF AskIs
  <2>5. ask'[a].stage = "asking" => Expected(requestId)'
    BY DEF Expected, Awaited
  <2>6. QED
    BY <2>1, <2>2, <2>3, <2>4, <2>5
<1>8. ASSUME NEW a \in Asks, TakeLine(a) PROVE Owed'
  <2>1. SUFFICES ASSUME transport' = "stdio"
        PROVE  (/\ \A r \in unanswered : Expected(r)
                /\ \A i \in 1..Len(pipe) : Expected(pipe[i].to))'
    OBVIOUS
  <2>2. /\ ask[a].stage = "asking" /\ UNCHANGED <<transport, astray, unanswered>>
        /\ \/ EndOfPipe /\ UNCHANGED pipe
           \/ \E i \in 1..Len(pipe) : Rest(i)
    BY <1>8, TakeAsk
  <2>3. phase = "serving" /\ transport = "stdio"
    BY <2>1, <2>2 DEF InTurn
  <2>4. \A q : Late(q) => Expected(q)'
    BY <2>2 DEF Expected, Late
  <2>5. CASE EndOfPipe /\ UNCHANGED pipe
    <3>1. unanswered' = {} /\ Len(pipe') = 0
      BY <2>2, <2>5 DEF RequestsNumbered, EndOfPipe
    <3>2. QED
      BY <3>1
  <2>6. ASSUME NEW i \in 1..Len(pipe), Rest(i)
        PROVE  (/\ \A r \in unanswered : Expected(r)
                /\ \A j \in 1..Len(pipe) : Expected(pipe[j].to))'
    <3>1. /\ \A r \in unanswered : Late(r)
          /\ \A k \in 1..Len(pipe) : k # i => Late(pipe[k].to)
      BY <2>3, LeftIsLate
    <3>2. ASSUME NEW j \in 1..Len(pipe') PROVE Expected(pipe[j].to)'
      <4>1. PICK k \in 1..Len(pipe) : k # i /\ pipe'[j] = pipe[k]
        BY <2>6, RestLines
      <4>2. QED
        BY <2>4, <3>1, <4>1
    <3>3. QED
      BY <2>2, <2>4, <3>1, <3>2
  <2>7. QED
    BY <2>2, <2>5, <2>6
<1>9. ASSUME NEW a \in Asks, AskTimeOut(a) PROVE Owed'
  <2>1. ask[a].stage = "asking" /\ UNCHANGED <<transport, phase, requestId>>
        /\ astray' = astray \cup {ask[a].request}
    BY <1>9, TimeOutAsk
  <2>2. phase = "serving" /\ ask[a].request = requestId /\ requestId \in Nat
    BY <2>1 DEF InTurn, McpTypes
  <2>3. \A q : Expected(q) => Expected(q)'
    <3>1. requestId <= requestId /\ requestId \in astray'
      BY <2>1, <2>2
    <3>2. QED
      BY <2>1, <3>1 DEF Expected, Late
  <2>4. CASE unanswered' \subseteq unanswered /\ UNCHANGED pipe
    BY <2>1, <2>2, <2>3, <2>4
  <2>5. ASSUME NEW r \in unanswered, unanswered' = unanswered \ {r}, Len(pipe') = 1, pipe'[1].to = r
        PROVE  Owed'
    <3>1. \A i \in 1..Len(pipe') : i = 1
      BY <2>5
    <3>2. QED
      BY <2>1, <2>2, <2>3, <2>5, <3>1
  <2>6. QED
    BY <1>9, <2>4, <2>5, TimeOutAsk
<1>10. ASSUME NEW a \in Asks, Settle(a) PROVE Owed'
  <2>1. \A b \in Asks : ask'[b].stage = "asking" <=> ask[b].stage = "asking"
    BY <1>10, SettleAsk DEF AskIs
  <2>2. \A q : Expected(q) => Expected(q)'
    BY <1>10, <2>1, SettleAsk DEF Expected, Awaited, Late, serverVars
  <2>3. QED
    BY <1>10, <2>2, SettleAsk DEF serverVars
<1>11. CASE UNCHANGED mcpVars
  BY <1>11 DEF mcpVars, Expected, Awaited, Late
<1>12. QED
  BY <1>1, <1>2, <1>3, <1>4, <1>5, <1>6, <1>7, <1>8, <1>9, <1>10, <1>11 DEF McpNext

\* Whoever takes another answer takes a late one.
LEMMA OwnStep ==
  ASSUME McpTypes, RequestsNumbered, InTurn, Once, Owed, OwnAnswers, [McpNext]_mcpVars PROVE OwnAnswers'
<1> USE DEF OwnAnswers
<1>1. ASSUME NEW r \in unanswered, NEW how \in {"result", "error"}, Answer(r, how) PROVE OwnAnswers'
  BY <1>1 DEF Answer, clientVars
<1>2. ASSUME NEW how \in {"result", "error"}, Chatter(how) PROVE OwnAnswers'
  BY <1>2 DEF Chatter
<1>3. CASE Die
  BY <1>3 DEF Die, clientVars
<1>4. CASE Connect
  BY <1>4, ConnectLine
<1>5. CASE ConnectTimeOut
  BY <1>5 DEF ConnectTimeOut
<1>6. ASSUME NEW a \in Asks, NEW t \in Offered, Admit(a, t) PROVE OwnAnswers'
  <2>1. \A b \in Asks : /\ ask'[b].stage \in {"good", "success"} => ask[b].stage \in {"good", "success"}
                        /\ ask'[b].stage \in {"good", "success"} =>
                             ask'[b].got = ask[b].got /\ ask'[b].request = ask[b].request
    BY <1>6, AdmitAsk DEF AskIs
  <2>2. UNCHANGED transport /\ astray \subseteq astray'
    BY <1>6, AdmitAsk DEF serverVars
  <2>3. ASSUME NEW b \in Asks, ask'[b].stage \in {"good", "success"}
        PROVE  \/ ask'[b].got = ask'[b].request
               \/ transport' = "stdio" /\ \E r \in astray' : r < ask'[b].request
    <3>1. \/ ask[b].got = ask[b].request
          \/ transport = "stdio" /\ \E r \in astray : r < ask[b].request
      BY <2>1, <2>3
    <3>2. QED
      BY <2>1, <2>2, <2>3, <3>1
  <2>4. QED
    BY <2>3
<1>7. ASSUME NEW a \in Asks, Ask(a) PROVE OwnAnswers'
  <2>1. \A b \in Asks : /\ ask'[b].stage \in {"good", "success"} => ask[b].stage \in {"good", "success"}
                        /\ ask'[b].stage \in {"good", "success"} =>
                             ask'[b].got = ask[b].got /\ ask'[b].request = ask[b].request
    BY <1>7, AskAsk DEF AskIs
  <2>2. UNCHANGED transport /\ astray \subseteq astray'
    BY <1>7, AskAsk
  <2>3. ASSUME NEW b \in Asks, ask'[b].stage \in {"good", "success"}
        PROVE  \/ ask'[b].got = ask'[b].request
               \/ transport' = "stdio" /\ \E r \in astray' : r < ask'[b].request
    <3>1. \/ ask[b].got = ask[b].request
          \/ transport = "stdio" /\ \E r \in astray : r < ask[b].request
      BY <2>1, <2>3
    <3>2. QED
      BY <2>1, <2>2, <2>3, <3>1
  <2>4. QED
    BY <2>3
<1>8. ASSUME NEW a \in Asks, TakeLine(a) PROVE OwnAnswers'
  <2>1. /\ ask[a].stage = "asking" /\ UNCHANGED <<transport, astray, requestId>>
        /\ ask[a].request = requestId /\ phase = "serving" /\ requestId \in Nat
    BY <1>8, TakeAsk DEF InTurn, McpTypes
  <2>2. CASE AskIs(a, "bad", ask[a].tool, ask[a].request, ask[a].got)
    BY <2>1, <2>2 DEF AskIs
  <2>3. ASSUME NEW i \in 1..Len(pipe), i \in Readable(ask[a].request), NEW s \in {"good", "bad"},
               AskIs(a, s, ask[a].tool, ask[a].request, pipe[i].to)
        PROVE  OwnAnswers'
    <3>1. transport = "http" => pipe[i].to = ask[a].request
      BY <2>3, ReadableIsLine
    <3>2. ASSUME transport = "stdio", pipe[i].to # ask[a].request
          PROVE  \E q \in astray : q < ask[a].request
      <4>1. PICK q \in astray : q <= pipe[i].to
        BY <2>1, <3>2 DEF Owed, Expected, Late
      <4>2. /\ pipe[i].to \in Nat /\ pipe[i].to <= requestId /\ q \in Nat
            /\ pipe[i].to # requestId
        BY <2>1, <3>2, <4>1, PipeLines DEF ServerLine, RequestsNumbered, McpTypes
      <4>3. q < requestId
        BY <2>1, <4>1, <4>2
      <4>4. QED
        BY <2>1, <4>3
    <3>3. \/ ask'[a].got = ask'[a].request
          \/ transport' = "stdio" /\ \E q \in astray' : q < ask'[a].request
      <4>1. ask'[a].got = pipe[i].to /\ ask'[a].request = ask[a].request
        BY <2>3 DEF AskIs
      <4>2. transport \in {"stdio", "http"}
        BY DEF McpTypes
      <4>3. QED
        BY <2>1, <3>1, <3>2, <4>1, <4>2
    <3>4. ASSUME NEW b \in Asks, b # a, ask'[b].stage \in {"good", "success"}
          PROVE  \/ ask'[b].got = ask'[b].request
                 \/ transport' = "stdio" /\ \E q \in astray' : q < ask'[b].request
      <4>1. ask'[b] = ask[b]
        BY <2>3, <3>4 DEF AskIs
      <4>2. QED
        BY <2>1, <3>4, <4>1
    <3>5. QED
      BY <3>3, <3>4
  <2>4. \/ AskIs(a, "bad", ask[a].tool, ask[a].request, ask[a].got)
        \/ \E i \in 1..Len(pipe), s \in {"good", "bad"} :
             /\ i \in Readable(ask[a].request)
             /\ AskIs(a, s, ask[a].tool, ask[a].request, pipe[i].to)
    BY <1>8, TakeAsk
  <2>5. QED
    BY <2>2, <2>3, <2>4
<1>9. ASSUME NEW a \in Asks, AskTimeOut(a) PROVE OwnAnswers'
  <2>1. \A b \in Asks : /\ ask'[b].stage \in {"good", "success"} => ask[b].stage \in {"good", "success"}
                        /\ ask'[b].stage \in {"good", "success"} =>
                             ask'[b].got = ask[b].got /\ ask'[b].request = ask[b].request
    BY <1>9, TimeOutAsk DEF AskIs
  <2>2. UNCHANGED transport /\ astray \subseteq astray'
    BY <1>9, TimeOutAsk
  <2>3. ASSUME NEW b \in Asks, ask'[b].stage \in {"good", "success"}
        PROVE  \/ ask'[b].got = ask'[b].request
               \/ transport' = "stdio" /\ \E r \in astray' : r < ask'[b].request
    <3>1. \/ ask[b].got = ask[b].request
          \/ transport = "stdio" /\ \E r \in astray : r < ask[b].request
      BY <2>1, <2>3
    <3>2. QED
      BY <2>1, <2>2, <2>3, <3>1
  <2>4. QED
    BY <2>3
<1>10. ASSUME NEW a \in Asks, Settle(a) PROVE OwnAnswers'
  <2>1. \A b \in Asks : /\ ask'[b].stage \in {"good", "success"} => ask[b].stage \in {"good", "success"}
                        /\ ask'[b].stage \in {"good", "success"} =>
                             ask'[b].got = ask[b].got /\ ask'[b].request = ask[b].request
    BY <1>10, SettleAsk DEF AskIs
  <2>2. UNCHANGED transport /\ astray \subseteq astray'
    BY <1>10, SettleAsk DEF serverVars
  <2>3. ASSUME NEW b \in Asks, ask'[b].stage \in {"good", "success"}
        PROVE  \/ ask'[b].got = ask'[b].request
               \/ transport' = "stdio" /\ \E r \in astray' : r < ask'[b].request
    <3>1. \/ ask[b].got = ask[b].request
          \/ transport = "stdio" /\ \E r \in astray : r < ask[b].request
      BY <2>1, <2>3
    <3>2. QED
      BY <2>1, <2>2, <2>3, <3>1
  <2>4. QED
    BY <2>3
<1>11. CASE UNCHANGED mcpVars
  BY <1>11 DEF mcpVars
<1>12. QED
  BY <1>1, <1>2, <1>3, <1>4, <1>5, <1>6, <1>7, <1>8, <1>9, <1>10, <1>11 DEF McpNext

\* Every consecutive failure is one of the failures.
LEMMA CountedStep ==
  ASSUME McpTypes, InTurn, Counted, [McpNext]_mcpVars PROVE Counted'
<1> USE DEF Counted
<1>1. ASSUME NEW r \in unanswered, NEW how \in {"result", "error"}, Answer(r, how) PROVE Counted'
  BY <1>1 DEF Answer, clientVars
<1>2. ASSUME NEW how \in {"result", "error"}, Chatter(how) PROVE Counted'
  BY <1>2 DEF Chatter
<1>3. CASE Die
  BY <1>3 DEF Die, clientVars
<1>4. CASE Connect
  BY <1>4, ConnectLine
<1>5. CASE ConnectTimeOut
  BY <1>5 DEF ConnectTimeOut
<1>6. ASSUME NEW a \in Asks, NEW t \in Offered, Admit(a, t) PROVE Counted'
  <2>1. \A b \in Asks : ask[b].stage = "error" => ask'[b].stage = "error"
    BY <1>6, AdmitAsk DEF AskIs
  <2>2. UNCHANGED <<failures, failed>>
    BY <1>6, AdmitAsk
  <2>3. failed \in [Offered -> SUBSET Asks]
    BY DEF McpTypes
  <2>4. QED
    BY <2>1, <2>2, <2>3
<1>7. ASSUME NEW a \in Asks, Ask(a) PROVE Counted'
  <2>1. \A b \in Asks : ask[b].stage = "error" => ask'[b].stage = "error"
    BY <1>7, AskAsk DEF AskIs
  <2>2. UNCHANGED <<failures, failed>>
    BY <1>7, AskAsk
  <2>3. failed \in [Offered -> SUBSET Asks]
    BY DEF McpTypes
  <2>4. QED
    BY <2>1, <2>2, <2>3
<1>8. ASSUME NEW a \in Asks, TakeLine(a) PROVE Counted'
  <2>1. \A b \in Asks : ask[b].stage = "error" => ask'[b].stage = "error"
    BY <1>8, TakeAsk DEF AskIs
  <2>2. UNCHANGED <<failures, failed>>
    BY <1>8, TakeAsk
  <2>3. failed \in [Offered -> SUBSET Asks]
    BY DEF McpTypes
  <2>4. QED
    BY <2>1, <2>2, <2>3
<1>9. ASSUME NEW a \in Asks, AskTimeOut(a) PROVE Counted'
  <2>1. \A b \in Asks : ask[b].stage = "error" => ask'[b].stage = "error"
    BY <1>9, TimeOutAsk DEF AskIs
  <2>2. UNCHANGED <<failures, failed>>
    BY <1>9, TimeOutAsk
  <2>3. failed \in [Offered -> SUBSET Asks]
    BY DEF McpTypes
  <2>4. QED
    BY <2>1, <2>2, <2>3
<1>10. ASSUME NEW a \in Asks, Settle(a) PROVE Counted'
  <2>1. /\ ask[a].stage \in {"good", "bad"} /\ ask[a].tool \in Offered
        /\ failed \in [Offered -> SUBSET Asks] /\ failures \in [Offered -> Nat]
    BY <1>10 DEF Settle, InTurn, McpTypes
  <2>2. \A b \in Asks : ask[b].stage = "error" => ask'[b].stage = "error"
    BY <1>10, <2>1, SettleAsk DEF AskIs
  <2>3. CASE /\ failed' = failed /\ failures' = [failures EXCEPT ![ask[a].tool] = 0]
    <3>1. \A t \in Offered : Cardinality(failed[t]) \in Nat
      BY FailedFinite
    <3>2. QED
      BY <2>1, <2>2, <2>3, <3>1
  <2>4. CASE /\ AskIs(a, "error", ask[a].tool, ask[a].request, ask[a].got)
             /\ failures' = [failures EXCEPT ![ask[a].tool] = @ + 1]
             /\ failed' = [failed EXCEPT ![ask[a].tool] = @ \cup {a}]
    <3>1. a \notin failed[ask[a].tool] /\ ask'[a].stage = "error"
      BY <2>1, <2>4 DEF AskIs
    <3>2. Cardinality(failed[ask[a].tool] \cup {a}) = Cardinality(failed[ask[a].tool]) + 1
      BY <2>1, <3>1, FailedFinite, FS_AddElement
    <3>3. /\ failures[ask[a].tool] \in Nat /\ Cardinality(failed[ask[a].tool]) \in Nat
          /\ failures[ask[a].tool] <= Cardinality(failed[ask[a].tool])
      BY <2>1, FailedFinite
    <3>4. failures'[ask[a].tool] <= Cardinality(failed'[ask[a].tool])
      <4>1. /\ failures'[ask[a].tool] = failures[ask[a].tool] + 1
            /\ failed'[ask[a].tool] = failed[ask[a].tool] \cup {a}
        BY <2>1, <2>4
      <4>2. QED
        BY <3>2, <3>3, <4>1
    <3>5. \A t \in Offered : t # ask[a].tool => failures'[t] = failures[t] /\ failed'[t] = failed[t]
      BY <2>1, <2>4
    <3>6. \A t \in Offered : \A b \in failed'[t] : ask'[b].stage = "error"
      BY <2>1, <2>2, <2>4, <3>1
    <3>7. QED
      BY <3>4, <3>5, <3>6
  <2>5. QED
    BY <1>10, <2>3, <2>4, SettleAsk
<1>11. CASE UNCHANGED mcpVars
  BY <1>11 DEF mcpVars
<1>12. QED
  BY <1>1, <1>2, <1>3, <1>4, <1>5, <1>6, <1>7, <1>8, <1>9, <1>10, <1>11 DEF McpNext

\* A tool is turned away only by its own failures.
LEMMA SuspendedStep ==
  ASSUME McpTypes, InTurn, Counted, SuspendedRightly, [McpNext]_mcpVars PROVE SuspendedRightly'
<1> USE DEF SuspendedRightly
<1>1. ASSUME NEW r \in unanswered, NEW how \in {"result", "error"}, Answer(r, how)
      PROVE  SuspendedRightly'
  BY <1>1 DEF Answer, clientVars
<1>2. ASSUME NEW how \in {"result", "error"}, Chatter(how) PROVE SuspendedRightly'
  BY <1>2 DEF Chatter
<1>3. CASE Die
  BY <1>3 DEF Die, clientVars
<1>4. CASE Connect
  BY <1>4, ConnectLine
<1>5. CASE ConnectTimeOut
  BY <1>5 DEF ConnectTimeOut
<1>6. ASSUME NEW a \in Asks, NEW t \in Offered, Admit(a, t) PROVE SuspendedRightly'
  <2>1. failed' = failed /\ \A b \in Asks : b # a => ask'[b] = ask[b]
    BY <1>6, AdmitAsk DEF AskIs
  <2>2. ask'[a].tool = t /\ (ask'[a].stage = "suspended" => failures[t] >= MaxFailures)
    BY <1>6, AdmitAsk DEF AskIs
  <2>3. /\ failures[t] \in Nat /\ Cardinality(failed[t]) \in Nat
        /\ failures[t] <= Cardinality(failed[t]) /\ MaxFailures \in Nat
    BY FailedFinite, McpAssumption DEF McpTypes, Counted
  <2>4. ask'[a].stage = "suspended" => Cardinality(failed'[ask'[a].tool]) >= MaxFailures
    BY <2>1, <2>2, <2>3
  <2>5. QED
    BY <2>1, <2>4
<1>7. ASSUME NEW a \in Asks, Ask(a) PROVE SuspendedRightly'
  <2>1. \A b \in Asks : ask'[b].stage = "suspended" =>
          ask[b].stage = "suspended" /\ ask'[b].tool = ask[b].tool
    BY <1>7, AskAsk DEF AskIs
  <2>2. failed' = failed
    BY <1>7, AskAsk
  <2>3. QED
    BY <2>1, <2>2
<1>8. ASSUME NEW a \in Asks, TakeLine(a) PROVE SuspendedRightly'
  <2>1. \A b \in Asks : ask'[b].stage = "suspended" =>
          ask[b].stage = "suspended" /\ ask'[b].tool = ask[b].tool
    BY <1>8, TakeAsk DEF AskIs
  <2>2. failed' = failed
    BY <1>8, TakeAsk
  <2>3. QED
    BY <2>1, <2>2
<1>9. ASSUME NEW a \in Asks, AskTimeOut(a) PROVE SuspendedRightly'
  <2>1. \A b \in Asks : ask'[b].stage = "suspended" =>
          ask[b].stage = "suspended" /\ ask'[b].tool = ask[b].tool
    BY <1>9, TimeOutAsk DEF AskIs
  <2>2. failed' = failed
    BY <1>9, TimeOutAsk
  <2>3. QED
    BY <2>1, <2>2
<1>10. ASSUME NEW a \in Asks, Settle(a) PROVE SuspendedRightly'
  <2>1. /\ ask[a].stage \in {"good", "bad"} /\ ask[a].tool \in Offered
        /\ failed \in [Offered -> SUBSET Asks]
    BY <1>10 DEF Settle, InTurn, McpTypes
  <2>2. \A b \in Asks : ask'[b].stage = "suspended" =>
          ask[b].stage = "suspended" /\ ask'[b].tool = ask[b].tool
    BY <1>10, SettleAsk DEF AskIs
  <2>3. \A t \in Offered : failed'[t] = failed[t] \/ failed'[t] = failed[t] \cup {a}
    BY <1>10, <2>1, SettleAsk
  <2>4. ASSUME NEW t \in Offered
        PROVE  /\ Cardinality(failed[t]) \in Nat /\ Cardinality(failed'[t]) \in Nat
               /\ Cardinality(failed'[t]) >= Cardinality(failed[t])
    <3>1. IsFiniteSet(failed[t]) /\ Cardinality(failed[t]) \in Nat
      BY FailedFinite
    <3>2. Cardinality(failed[t] \cup {a}) \in {Cardinality(failed[t]), Cardinality(failed[t]) + 1}
      BY <3>1, FS_AddElement
    <3>3. Cardinality(failed'[t]) \in {Cardinality(failed[t]), Cardinality(failed[t]) + 1}
      BY <2>3, <3>2
    <3>4. QED
      BY <3>1, <3>3
  <2>5. QED
    <3>1. ASSUME NEW b \in Asks, ask'[b].stage = "suspended"
          PROVE  Cardinality(failed'[ask'[b].tool]) >= MaxFailures
      <4>1. ask[b].tool \in Offered /\ ask'[b].tool = ask[b].tool
            /\ Cardinality(failed[ask[b].tool]) >= MaxFailures
        BY <2>2, <3>1 DEF InTurn
      <4>2. QED
        BY <2>4, <4>1, McpAssumption
    <3>2. QED
      BY <3>1
<1>11. CASE UNCHANGED mcpVars
  BY <1>11 DEF mcpVars
<1>12. QED
  BY <1>1, <1>2, <1>3, <1>4, <1>5, <1>6, <1>7, <1>8, <1>9, <1>10, <1>11 DEF McpNext

\* The mode stays, a nuisance has its bound, and what is given up was asked.
LEMMA McpBoundedStep ==
  ASSUME McpTypes, RequestsNumbered, McpBounded, [McpNext]_mcpVars PROVE McpBounded'
<1>0. /\ MaxNuisances \in Nat /\ nuisances \in Nat /\ requestId \in Nat /\ requestId > 0
      /\ \A r \in astray : r \in Nat /\ r <= requestId
      /\ transport \in Transports
  BY McpAssumption DEF McpTypes, RequestsNumbered, McpBounded
<1>1. ASSUME UNCHANGED <<transport, nuisances, astray>>, requestId' \in {requestId, requestId + 1}
      PROVE  McpBounded'
  BY <1>0, <1>1 DEF McpBounded
<1>2. ASSUME NEW r \in unanswered, NEW how \in {"result", "error"}, Answer(r, how) PROVE McpBounded'
  BY <1>1, <1>2 DEF Answer, clientVars
<1>3. ASSUME NEW how \in {"result", "error"}, Chatter(how) PROVE McpBounded'
  BY <1>0, <1>3 DEF Chatter, Nuisance, McpBounded
<1>4. CASE Die
  BY <1>0, <1>4 DEF Die, Nuisance, clientVars, McpBounded
<1>5. CASE Connect
  <2>1. requestId' \in {requestId, requestId + 1}
    BY <1>5 DEF Connect, Connected
  <2> QED
    BY <1>1, <1>5, <2>1 DEF Connect
<1>6. CASE ConnectTimeOut
  BY <1>1, <1>6 DEF ConnectTimeOut
<1>7. ASSUME NEW a \in Asks, NEW t \in Offered, Admit(a, t) PROVE McpBounded'
  BY <1>1, <1>7 DEF Admit, serverVars
<1>8. ASSUME NEW a \in Asks, Ask(a) PROVE McpBounded'
  BY <1>1, <1>8 DEF Ask
<1>9. ASSUME NEW a \in Asks, TakeLine(a) PROVE McpBounded'
  BY <1>1, <1>9 DEF TakeLine
<1>10. ASSUME NEW a \in Asks, AskTimeOut(a) PROVE McpBounded'
  <2>1. ask[a].request \in Nat /\ ask[a].request <= requestId
    BY AskFields DEF RequestsNumbered
  <2> QED
    BY <1>0, <1>10, <2>1 DEF AskTimeOut, Nuisance, McpBounded
<1>11. ASSUME NEW a \in Asks, Settle(a) PROVE McpBounded'
  BY <1>1, <1>11 DEF Settle, serverVars
<1>12. CASE UNCHANGED mcpVars
  BY <1>1, <1>12 DEF mcpVars
<1> QED
  BY <1>2, <1>3, <1>4, <1>5, <1>6, <1>7, <1>8, <1>9, <1>10, <1>11, <1>12 DEF McpNext

-----------------------------------------------------------------------------
LEMMA McpInvInit == ASSUME McpInit PROVE McpInv
<1>1. transport \in {"stdio", "http"}
  BY McpAssumption DEF McpInit
<1>2. \A a \in Asks : ask[a] = NoAsk
  BY DEF McpInit
<1>3. NoAsk \in Asked
  BY DEF NoAsk, Asked, Stages
<1>4. McpTypes
  <2>1. ask \in [Asks -> Asked] /\ pipe \in Seq(ServerLine)
    BY <1>3 DEF McpInit
  <2>2. /\ failures \in [Offered -> Nat] /\ failed \in [Offered -> SUBSET Asks]
        /\ alive \in BOOLEAN /\ locked \in BOOLEAN
    BY DEF McpInit
  <2>3. QED
    BY <1>1, <2>1, <2>2 DEF McpInit, McpTypes
<1>5. RequestsNumbered
  BY <1>2 DEF McpInit, RequestsNumbered, NoAsk
<1>6. InTurn
  BY <1>2 DEF McpInit, InTurn, NoAsk
<1>7. Once
  BY <1>2 DEF McpInit, Once, NoAsk
<1>8. Owed
  BY DEF McpInit, Owed, Expected, Awaited
<1>9. OwnAnswers /\ SuspendedRightly
  BY <1>2 DEF OwnAnswers, SuspendedRightly, NoAsk
<1>10. Counted
  BY FS_EmptySet DEF McpInit, Counted
<1>11. McpBounded
  BY McpAssumption DEF McpInit, McpBounded
<1>12. QED
  BY <1>4, <1>5, <1>6, <1>7, <1>8, <1>9, <1>10, <1>11 DEF McpInv

LEMMA McpInvStep == McpInv /\ [McpNext]_mcpVars => McpInv'
BY McpTypesStep, NumberedStep, InTurnStep, OnceStep, OwedStep, OwnStep, CountedStep,
   SuspendedStep, McpBoundedStep DEF McpInv

\* What the client, its calls and the pipe hold keeps its type: no number in use is
\* one of a request that was not made.
THEOREM McpTypeCorrect == McpSpec => []McpTypeOK
<1>1. McpInv => McpTypeOK
  <2> SUFFICES ASSUME McpInv PROVE McpTypeOK
    OBVIOUS
  <2>1. McpTypes /\ RequestsNumbered /\ McpBounded /\ requestId \in Nat
    BY DEF McpInv, McpTypes
  <2>2. \A i \in DOMAIN pipe : pipe[i].to \in 0..requestId /\ pipe[i].how \in {"result", "error"}
    <3>1. DOMAIN pipe = 1..Len(pipe) /\ \A i \in 1..Len(pipe) : pipe[i] \in ServerLine
      BY <2>1, PipeLines, LenProperties DEF McpTypes
    <3> QED
      BY <2>1, <3>1 DEF RequestsNumbered, ServerLine
  <2>3. \A a \in Asks : /\ ask[a].stage \in Stages /\ ask[a].tool \in Offered \cup {"none"}
                        /\ {ask[a].request, ask[a].got} \subseteq 0..requestId
    BY <2>1 DEF McpTypes, Asked, RequestsNumbered
  <2> QED
    BY <2>1, <2>2, <2>3 DEF McpTypes, RequestsNumbered, McpBounded, McpTypeOK, Stages
<1> QED
  BY <1>1, McpInvInit, McpInvStep, PTL DEF McpSpec

\* Calls of the tools of one server that overlap get their own answers, unless
\* a request of before was given up or the server wrote a line unasked, and a
\* tool is suspended only by failures of its own (mcp.rs): for any number of
\* tools, of calls and of nuisances, and any limit of failures.
THEOREM AnswersAreMatched == McpSpec => []AnswersMatched
<1>1. McpInv => AnswersMatched
  BY DEF McpInv, AnswersMatched, Suspensions, Once, SuspendedRightly
<1> QED
  BY <1>1, McpInvInit, McpInvStep, PTL DEF McpSpec
=============================================================================
