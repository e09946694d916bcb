----------------------------- MODULE LoopProofs -----------------------------
(***************************************************************************)
(* The loop of the agent and the daemon of its model, for any number of    *)
(* calls, turns, faults, processes and requests.                           *)
(*                                                                         *)
(* The loop: a conversation begins with what was asked for and ends with   *)
(* what was last written to the session, and each call made in the turn is *)
(* answered up to the one under way.                                       *)
(* The daemon: who holds the lock is the one that generates, and the cache *)
(* is its own; processes that are alive together have met.                 *)
(***************************************************************************)
EXTENDS MCLoop, SequenceTheorems, TLAPS

\* A conversation begins with the user, or with the context of an escalation;
\* that of a task with the request itself.
Opening ==
  /\ session # <<>> => session[1].role = "user"
  /\ pc = "idle" => conv = <<>>
  /\ pc # "idle" =>
       /\ conv # <<>> /\ session # <<>> /\ conv[1].role \in {"user", "context"}
       /\ entry = "run_task" => conv[1].ref = turn

\* A reply that is asked for, and its calls, are within the budget.
Budgeted == pc \in {"ask", "tools"} => left > 0

\* The last n messages of the conversation are those of the session.
Latest(n) ==
  /\ n \in Nat /\ n <= Len(conv) /\ n <= Len(session)
  /\ \A i \in 1..n : conv[Len(conv) - n + i] = session[Len(session) - n + i]

\* A conversation is the session, what followed an escalation, or one of the
\* two compressed.
Recorded ==
  pc # "idle" =>
    \/ conv = session
    \/ conv[1].role = "context" /\ Latest(Len(conv) - 1)
    \/ /\ Len(conv) >= 6 /\ conv[2].role = "summary" /\ Latest(Len(conv) - 2)
       /\ \/ conv[1].role = "context"
          \/ conv[1] = session[1] /\ Len(session) > Len(conv) - 2

\* Every message of a model in this turn has its calls answered, but for p.
AllAnswered(c, p) ==
  \A i \in DOMAIN c : i # p /\ OfThisTurn(c, i) => Answered(c, i, c[i].calls, Len(c[i].calls))

\* As Answered, and by m messages.
AnsweredBy(c, i, calls, n, m) ==
  \E results \in [0..n -> 0..n] : Tallied(results, c, i, calls, n) /\ results[n] = m

\* While calls are handled, what is to do is the rest of one message's calls,
\* and the conversation ends with the results of the others.
UnderWay(p) ==
  LET calls == conv[p].calls
      n == Len(calls) - Len(todo)
  IN /\ conv[p].role = "assistant" /\ n \in Nat
     /\ \A k \in 1..Len(todo) : todo[k] = calls[n + k]
     /\ \E m \in 0..n : AnsweredBy(conv, p, calls, n, m) /\ p + m = Len(conv)
     /\ AllAnswered(conv, p)

Owed ==
  /\ pc \in {"loop", "ask"} => AllAnswered(conv, 0)
  /\ pc = "tools" => \E p \in DOMAIN conv : UnderWay(p)

LoopInv == TypeOK /\ Budgeted /\ Opening /\ Recorded /\ Owed

-----------------------------------------------------------------------------

\* Who holds the session generates, and the other way round.
HolderGenerates ==
  /\ \A d \in Processes : holder[d] # Nobody => at[holder[d]] = d /\ stage[holder[d]] = "generating"
  /\ \A r \in Requests : stage[r] = "generating" => holder[at[r]] = r

OwnCache ==
  \A r \in Requests : stage[r] = "generating" =>
    \A q \in Requests : cache[at[r]][q] = IF q = r THEN prompt[r] + said[r] ELSE 0

\* What was said and heard of a request, by where it is.
SaidHeard ==
  \A r \in Requests :
    /\ stage[r] \in {"queued", "waiting", "generating"} => at[r] \in Processes
    /\ stage[r] \in {"new", "queued", "waiting"} => said[r] = 0 /\ heard[r] = 0
    /\ stage[r] = "generating" => heard[r] = IF streamed[r] THEN said[r] ELSE 0
    /\ stage[r] # "done" => outcome[r] = "open"

\* Processes that are alive together have met.
Met == \A d, e \in Alive : d # e => d \in overlap /\ e \in overlap

DaemonInv ==
  DaemonTypeOK /\ HolderGenerates /\ OwnCache /\ SaidHeard /\ HeardAll /\ Met /\ Reachable

-----------------------------------------------------------------------------
(* The loop of the agent.                                                  *)

\* A reply is a sequence of calls, as long as the bound allows.
LEMMA RepliesTyped ==
  ASSUME TypeOK, NEW calls \in Replies
  PROVE  calls \in Seq(Call) /\ Len(calls) \in 0..MaxCalls
<1>1. PICK s \in UNION {[1..n -> Offered] : n \in 0..MaxCalls} :
        calls = [i \in DOMAIN s |-> [id |-> ids + i, kind |-> s[i]]]
  BY DEF Replies
<1>2. PICK n \in 0..MaxCalls : s \in [1..n -> Offered]
  OBVIOUS
<1>3. n \in Nat /\ DOMAIN s = 1..n
  BY <1>2, LoopAssumption
<1>4. calls \in [1..n -> Call]
  <2> SUFFICES ASSUME NEW i \in 1..n PROVE [id |-> ids + i, kind |-> s[i]] \in Call
    BY <1>1, <1>3
  <2>1. s[i] \in Kinds
    BY <1>2 DEF Offered, Kinds
  <2>2. ids + i \in Nat
    BY <1>3 DEF TypeOK
  <2> QED
    BY <2>1, <2>2 DEF Call
<1>5. calls \in Seq(Call)
  BY <1>3, <1>4, IsASeq
<1>6. Len(calls) = n
  BY <1>3, <1>4, <1>5, LenProperties
<1> QED
  BY <1>5, <1>6, <1>2

\* A pair before four messages.
LEMMA TwoBeforeFour ==
  ASSUME NEW a \in Seq(Message), NEW b \in Seq(Message), Len(a) = 2, Len(b) = 4
  PROVE  /\ a \o b \in Seq(Message) /\ Len(a \o b) = 6
         /\ (a \o b)[1] = a[1] /\ (a \o b)[2] = a[2]
         /\ \A k \in 3..6 : (a \o b)[k] = b[k - 2]
<1>1. /\ a \o b \in Seq(Message) /\ Len(a \o b) = Len(a) + Len(b)
      /\ \A i \in 1..(Len(a) + Len(b)) : (a \o b)[i] = IF i <= Len(a) THEN a[i] ELSE b[i - Len(a)]
  BY ConcatProperties
<1>2. \A i \in 1..6 : (a \o b)[i] = IF i <= 2 THEN a[i] ELSE b[i - 2]
  BY <1>1, SMTT(30)
<1> QED
  BY <1>1, <1>2

\* What compression leaves: six messages, the last four in their places.
LEMMA CompressedIs ==
  ASSUME NEW c \in Seq(Message), Len(c) > 4
  PROVE  /\ Compressed(c) \in Seq(Message) /\ Len(Compressed(c)) = 6
         /\ Compressed(c)[1] = c[1] /\ Compressed(c)[2] = Summary
         /\ \A k \in 3..6 : Compressed(c)[k] = c[Len(c) - 6 + k]
<1> DEFINE first == <<Head(c), Summary>>
           last == SubSeq(c, Len(c) - 3, Len(c))
<1>1. c[1] \in Message /\ Head(c) = c[1] /\ Len(c) \in Nat
  BY ElementOfSeq, HeadTailProperties, LenProperties
<1>2. Summary \in Message
  BY DEF Summary, Message
<1>3. first \in Seq(Message) /\ Len(first) = 2 /\ first[1] = c[1] /\ first[2] = Summary
  BY <1>1, <1>2
<1>4. last \in Seq(Message) /\ Len(last) = 4 /\ \A i \in 1..4 : last[i] = c[Len(c) - 4 + i]
  BY <1>1, SubSeqProperties
<1>5. Compressed(c) = first \o last
  BY DEF Compressed
<1> HIDE DEF first, last
<1>6. /\ first \o last \in Seq(Message) /\ Len(first \o last) = 6
      /\ (first \o last)[1] = first[1] /\ (first \o last)[2] = first[2]
      /\ \A k \in 3..6 : (first \o last)[k] = last[k - 2]
  BY <1>3, <1>4, TwoBeforeFour
<1>7. \A k \in 3..6 : (first \o last)[k] = c[Len(c) - 6 + k]
  <2> SUFFICES ASSUME NEW k \in 3..6 PROVE (first \o last)[k] = c[Len(c) - 6 + k]
    OBVIOUS
  <2>1. (first \o last)[k] = last[k - 2]
    BY <1>6
  <2>2. last[k - 2] = c[Len(c) - 4 + (k - 2)]
    BY <1>4
  <2>3. Len(c) - 4 + (k - 2) = Len(c) - 6 + k
    BY <1>1
  <2> QED
    BY <2>1, <2>2, <2>3
<1> QED
  BY <1>3, <1>5, <1>6, <1>7

\* A message that is appended comes last.
LEMMA Appended ==
  ASSUME NEW c \in Seq(Message), NEW m \in Message
  PROVE  /\ Append(c, m) \in Seq(Message) /\ Len(Append(c, m)) = Len(c) + 1
         /\ Append(c, m)[Len(c) + 1] = m /\ \A i \in 1..Len(c) : Append(c, m)[i] = c[i]
  BY AppendProperties

\* The messages that are made are messages.
LEMMA MessagesTyped ==
  /\ \A n \in Nat : User(n) \in Message /\ Context(n) \in Message
  /\ \A s \in Seq(Call) : Assistant(s) \in Message
  /\ \A c \in Call : Result(c) \in Message
  /\ Summary \in Message
<1>1. <<>> \in Seq(Call)
  OBVIOUS
<1> QED
  BY <1>1 DEF User, Context, Assistant, Result, Summary, Message, Call

\* The calls that are still to do, one fewer.
LEMMA TodoShrinks ==
  ASSUME TypeOK, todo # <<>>
  PROVE  /\ Head(todo) \in Call /\ Head(todo) = todo[1]
         /\ Tail(todo) \in Seq(Call) /\ Len(Tail(todo)) = Len(todo) - 1
         /\ \A k \in 1..(Len(todo) - 1) : Tail(todo)[k] = todo[k + 1]
<1>1. todo \in Seq(Call)
  BY DEF TypeOK
<1> QED
  BY <1>1, HeadTailProperties, ElementOfSeq, LenProperties

\* Both loops begin with the messages they know and the user's after them.
LEMMA BegunWith ==
  ASSUME TypeOK, Begin
  PROVE  /\ conv' = Append(IF entry = "run_turn" THEN session ELSE <<>>, User(turn'))
         /\ session' = conv' /\ pc' = "loop"
<1>1. CASE TurnBegins
  BY <1>1 DEF TurnBegins, Opens
<1>2. CASE TaskBegins
  <2>1. turn' = 1 /\ conv' = <<User(1)>> /\ entry = "run_task"
    BY <1>2 DEF TaskBegins
  <2>2. conv' = <<User(turn')>>
    BY <2>1
  <2>3. PICK m : m = User(turn')
    OBVIOUS
  <2>4. <<m>> = Append(<<>>, m)
    OBVIOUS
  <2> QED
    BY <1>2, <2>1, <2>2, <2>3, <2>4 DEF TaskBegins, Opens
<1> QED
  BY <1>1, <1>2 DEF Begin

\* What the variables hold stays of its type.
LEMMA TypeStep ==
  ASSUME TypeOK, Budgeted, [Next]_vars PROVE (TypeOK /\ Budgeted)'
<1> USE LoopAssumption DEF TypeOK, Budgeted
<1>1. CASE Begin
  <2> DEFINE known == IF entry = "run_turn" THEN session ELSE <<>>
  <2>1. known \in Seq(Message)
    OBVIOUS
  <2>2. turn' \in Nat
    BY <1>1 DEF Begin, TurnBegins, TaskBegins, Opens
  <2>3. User(turn') \in Message
    BY <2>2, MessagesTyped
  <2>4. conv' = Append(known, User(turn')) /\ session' = conv'
    BY <1>1, BegunWith
  <2>5. conv' \in Seq(Message)
    BY <2>1, <2>3, <2>4, Appended
  <2> QED
    BY <2>2, <2>4, <2>5, <1>1 DEF Begin, TurnBegins, TaskBegins, Opens, Classify, mode
<1>2. CASE Ask
  <2>1. conv' \in Seq(Message)
    BY <1>2, CompressedIs DEF Ask, TurnAsks, TaskAsks, Asks
  <2> QED
    BY <2>1, <1>2 DEF Ask, TurnAsks, TaskAsks, Asks, mode, progress
<1>3. CASE Stop
  BY <1>3 DEF Stop, mode, progress
<1>4. CASE Reply
  <2>1. PICK calls \in Replies : Take(calls)
    BY <1>4 DEF Reply
  <2>2. calls \in Seq(Call) /\ Len(calls) \in 0..MaxCalls
    BY RepliesTyped
  <2>3. Assistant(calls) \in Message
    BY <2>2, MessagesTyped
  <2>4. conv' \in Seq(Message) /\ session' \in Seq(Message)
    BY <2>1, <2>3, Appended DEF Take
  <2>5. todo' \in Seq(Call) /\ Len(todo') <= MaxCalls
    BY <2>1, <2>2 DEF Take
  <2>6. ids' \in Nat /\ iters' \in Nat /\ pc' \in {"tools", "closing"}
    BY <2>1, <2>2, <2>3 DEF Take
  <2> QED
    BY <2>4, <2>5, <2>6, <1>4 DEF Reply, mode, progress
<1>5. CASE ProviderFails
  <2>1. <<>> \in Seq(Message) /\ <<>> \in Seq(Call) /\ Len(<<>>) = 0
    OBVIOUS
  <2>2. CASE entry = "run_task"
    BY <2>1, <2>2, <1>5 DEF ProviderFails, Abort, mode, progress
  <2>3. CASE entry # "run_task"
    BY <2>3, <1>5 DEF ProviderFails, mode, progress
  <2> QED
    BY <2>2, <2>3
<1>6. CASE StreamBreaks
  <2>1. PICK calls \in Replies : Take(calls)
    BY <1>6 DEF StreamBreaks
  <2>2. calls \in Seq(Call) /\ Len(calls) \in 0..MaxCalls
    BY RepliesTyped
  <2>3. Assistant(calls) \in Message
    BY <2>2, MessagesTyped
  <2>4. conv' \in Seq(Message) /\ session' \in Seq(Message)
    BY <2>1, <2>3, Appended DEF Take
  <2>5. todo' \in Seq(Call) /\ Len(todo') <= MaxCalls
    BY <2>1, <2>2 DEF Take
  <2>6. ids' \in Nat /\ iters' \in Nat /\ pc' \in {"tools", "closing"}
    BY <2>1, <2>2, <2>3 DEF Take
  <2> QED
    BY <2>4, <2>5, <2>6, <1>6 DEF StreamBreaks, mode, progress
<1>7. CASE StoreFails
  <2>1. <<>> \in Seq(Message) /\ <<>> \in Seq(Call) /\ Len(<<>>) = 0
    OBVIOUS
  <2> QED
    BY <2>1, <1>7 DEF StoreFails, Abort, mode, progress
<1>8. CASE RunTool
  <2>1. Result(Head(todo)) \in Message /\ Tail(todo) \in Seq(Call) /\ Len(Tail(todo)) = Len(todo) - 1
    BY <1>8, TodoShrinks, MessagesTyped DEF RunTool, Answering, TypeOK
  <2>2. conv' \in Seq(Message) /\ session' \in Seq(Message)
    BY <1>8, <2>1, Appended DEF RunTool, Answering
  <2> QED
    BY <2>1, <2>2, <1>8 DEF RunTool, Answering, mode, progress
<1>9. CASE Escalate
  <2>1. Context(turn) \in Message
    BY MessagesTyped
  <2>2. <<Context(turn)>> \in Seq(Message) /\ <<>> \in Seq(Call) /\ Len(<<>>) = 0
    BY <2>1
  <2> QED
    BY <2>2, <1>9 DEF Escalate, MaxEscalations, mode, progress
<1>10. CASE RefuseEscalation
  <2>1. Tail(todo) \in Seq(Call) /\ Len(Tail(todo)) = Len(todo) - 1
    BY <1>10, TodoShrinks DEF RefuseEscalation, TypeOK
  <2> QED
    BY <2>1, <1>10 DEF RefuseEscalation, mode, progress
<1>11. CASE Count
  <2> QED
    BY <1>11 DEF Count, mode, progress
<1>12. CASE Close
  <2>1. <<>> \in Seq(Message) /\ <<>> \in Seq(Call) /\ Len(<<>>) = 0
    OBVIOUS
  <2> QED
    BY <2>1, <1>12 DEF Close, Abort, mode, progress
<1>13. CASE Crash
  <2>1. <<>> \in Seq(Message) /\ <<>> \in Seq(Call) /\ Len(<<>>) = 0
    OBVIOUS
  <2> QED
    BY <2>1, <1>13 DEF Crash, Abort, mode, progress
<1>14. CASE UNCHANGED vars
  BY <1>14 DEF vars, mode, progress
<1>15. QED
  BY <1>1, <1>2, <1>3, <1>4, <1>5, <1>6, <1>7,
     <1>8, <1>9, <1>10, <1>11, <1>12, <1>13, <1>14 DEF Next, Step

\* What a conversation begins with stays when a message is appended.
LEMMA AppendKeepsFirst ==
  ASSUME NEW c \in Seq(Message), NEW m \in Message
  PROVE  /\ Append(c, m) # <<>>
         /\ c # <<>> => Append(c, m)[1] = c[1]
         /\ c = <<>> => Append(c, m)[1] = m
<1>1. Len(c) \in Nat /\ (c = <<>> <=> Len(c) = 0)
  BY EmptySeq, LenProperties
<1>2. Append(c, m) # <<>>
  BY <1>1, Appended
<1> QED
  BY <1>1, <1>2, Appended

\* Every conversation goes on as it began.
LEMMA OpeningStep ==
  ASSUME LoopInv, [Next]_vars PROVE Opening'
<1> USE DEF LoopInv, TypeOK, Opening
<1>1. CASE Begin
  <2> DEFINE known == IF entry = "run_turn" THEN session ELSE <<>>
  <2>1. known \in Seq(Message) /\ turn' \in Nat
    BY <1>1 DEF Begin, TurnBegins, TaskBegins, Opens
  <2>2. User(turn') \in Message
    BY <2>1, MessagesTyped
  <2>3. conv' = Append(known, User(turn')) /\ session' = conv' /\ pc' = "loop"
    BY <1>1, BegunWith DEF LoopInv
  <2>4. conv' # <<>> /\ conv'[1] = IF known = <<>> THEN User(turn') ELSE session[1]
    BY <2>1, <2>2, <2>3, AppendKeepsFirst
  <2>5. conv'[1].role = "user" /\ (entry = "run_task" => conv'[1].ref = turn')
    BY <2>4, <1>1 DEF User
  <2> QED
    BY <2>3, <2>4, <2>5, <1>1 DEF Begin, TurnBegins, TaskBegins, Opens, mode
<1>2. CASE Ask
  <2>1. conv' # <<>> /\ conv'[1] = conv[1]
    BY <1>2, CompressedIs, SMTT(30) DEF Ask, TurnAsks, TaskAsks, Asks
  <2> QED
    BY <2>1, <1>2 DEF Ask, TurnAsks, TaskAsks, Asks, mode
<1>3. CASE Stop
  BY <1>3 DEF Stop, mode
<1>4. CASE Reply
  <2>1. PICK calls \in Replies : Take(calls)
    BY <1>4 DEF Reply
  <2>2. Assistant(calls) \in Message
    BY RepliesTyped, MessagesTyped DEF LoopInv
  <2>3. /\ conv' # <<>> /\ conv'[1] = conv[1] /\ session' # <<>> /\ session'[1] = session[1]
        /\ pc' # "idle"
    BY <2>1, <2>2, AppendKeepsFirst, <1>4 DEF Take, Reply
  <2> QED
    BY <2>3, <1>4 DEF Reply, mode
<1>5. CASE ProviderFails
  <2>1. CASE entry = "run_task"
    BY <2>1, <1>5 DEF ProviderFails, Abort, mode
  <2>2. CASE entry # "run_task"
    BY <2>2, <1>5 DEF ProviderFails, mode
  <2> QED
    BY <2>1, <2>2
<1>6. CASE StreamBreaks
  <2>1. PICK calls \in Replies : Take(calls)
    BY <1>6 DEF StreamBreaks
  <2>2. Assistant(calls) \in Message
    BY RepliesTyped, MessagesTyped DEF LoopInv
  <2>3. /\ conv' # <<>> /\ conv'[1] = conv[1] /\ session' # <<>> /\ session'[1] = session[1]
        /\ pc' # "idle"
    BY <2>1, <2>2, AppendKeepsFirst, <1>6 DEF Take, StreamBreaks
  <2> QED
    BY <2>3, <1>6 DEF StreamBreaks, mode
<1>7. CASE StoreFails
  BY <1>7 DEF StoreFails, Abort, mode
<1>8. CASE RunTool
  <2>1. Result(Head(todo)) \in Message
    BY <1>8, TodoShrinks, MessagesTyped DEF RunTool, Answering
  <2>2. conv' # <<>> /\ conv'[1] = conv[1] /\ session' # <<>> /\ session'[1] = session[1]
    BY <1>8, <2>1, AppendKeepsFirst DEF RunTool, Answering
  <2> QED
    BY <2>2, <1>8 DEF RunTool, Answering, mode
<1>9. CASE Escalate
  <2>1. conv' # <<>> /\ conv'[1].role = "context" /\ conv'[1].ref = turn
    BY <1>9 DEF Escalate, Context
  <2> QED
    BY <2>1, <1>9 DEF Escalate, mode
<1>10. CASE RefuseEscalation
  BY <1>10 DEF RefuseEscalation, mode
<1>11. CASE Count
  BY <1>11 DEF Count, mode
<1>12. CASE Close
  BY <1>12 DEF Close, Abort, mode
<1>13. CASE Crash
  BY <1>13 DEF Crash, Abort, mode
<1>14. CASE UNCHANGED vars
  BY <1>14 DEF vars, mode
<1>15. QED
  BY <1>1, <1>2, <1>3, <1>4, <1>5, <1>6, <1>7,
     <1>8, <1>9, <1>10, <1>11, <1>12, <1>13, <1>14 DEF Next, Step

\* A message that is written goes to the conversation and to the session.
LEMMA WrittenIsRecorded ==
  ASSUME TypeOK, Opening, Recorded, pc # "idle", NEW m \in Message,
         conv' = Append(conv, m), session' = Append(session, m)
  PROVE  Recorded'
<1>0. PICK c \in Nat, s \in Nat : c = Len(conv) /\ s = Len(session)
  BY LenProperties DEF TypeOK
<1>1. conv \in Seq(Message) /\ session \in Seq(Message) /\ c \in Nat /\ s \in Nat /\ c > 0 /\ s > 0
  BY <1>0, EmptySeq DEF TypeOK, Opening
<1>2. /\ Len(conv') = c + 1 /\ conv'[c + 1] = m /\ \A i \in 1..c : conv'[i] = conv[i]
      /\ Len(session') = s + 1 /\ session'[s + 1] = m /\ \A i \in 1..s : session'[i] = session[i]
  BY <1>0, <1>1, Appended
<1>3. conv'[1] = conv[1] /\ session'[1] = session[1]
  BY <1>1, <1>2
<1>4. ASSUME NEW n \in Nat, n < c, Latest(n) PROVE Latest(n + 1)'
  <2>1. n <= s /\ \A i \in 1..n : conv[c - n + i] = session[s - n + i]
    BY <1>0, <1>4 DEF Latest
  <2>2. Len(conv)' = c + 1 /\ Len(session)' = s + 1
    BY <1>2
  <2>3. ASSUME NEW i \in 1..(n + 1)
        PROVE  conv'[c + 1 - (n + 1) + i] = session'[s + 1 - (n + 1) + i]
    <3>1. c + 1 - (n + 1) + i = c - n + i /\ s + 1 - (n + 1) + i = s - n + i
      BY <1>1, <2>3
    <3>2. CASE i = n + 1
      BY <1>1, <1>2, <3>1, <3>2
    <3>3. CASE i \in 1..n
      <4>1. c - n + i \in 1..c /\ s - n + i \in 1..s
        BY <1>1, <1>4, <2>1, <3>3
      <4> QED
        BY <4>1, <2>1, <3>1, <3>3, <1>2
    <3>4. i = n + 1 \/ i \in 1..n
      BY <1>4, <2>3
    <3> QED
      BY <3>2, <3>3, <3>4
  <2>4. n + 1 \in Nat /\ n + 1 <= c + 1 /\ n + 1 <= s + 1
    BY <1>0, <1>4, <2>1
  <2> QED
    BY ONLY <2>2, <2>3, <2>4 DEF Latest
<1>5. CASE conv = session
  BY <1>5 DEF Recorded
<1>6. CASE conv[1].role = "context" /\ Latest(Len(conv) - 1)
  <2>1. Latest(c)'
    <3>1. c - 1 \in Nat /\ c - 1 < c /\ c - 1 + 1 = c
      BY <1>1
    <3> QED
      BY <1>0, <3>1, <1>4, <1>6
  <2>2. Len(conv)' - 1 = c
    BY <1>1, <1>2
  <2> QED
    BY <2>1, <2>2, <1>3, <1>6 DEF Recorded
<1>7. CASE /\ Len(conv) >= 6 /\ conv[2].role = "summary" /\ Latest(Len(conv) - 2)
           /\ \/ conv[1].role = "context"
              \/ conv[1] = session[1] /\ Len(session) > Len(conv) - 2
  <2>1. c - 2 \in Nat /\ c - 2 < c /\ c - 2 + 1 = c - 1 /\ c >= 6
    BY <1>0, <1>1, <1>7
  <2>2. Latest(c - 1)'
    BY <1>0, <2>1, <1>4, <1>7
  <2>3. Len(conv)' - 2 = c - 1 /\ Len(conv)' >= 6 /\ conv'[2] = conv[2]
    BY <2>1, <1>1, <1>2
  <2>4. conv[1].role # "context" => Len(session)' > Len(conv)' - 2
    BY <1>0, <1>1, <1>2, <1>7
  <2> QED
    BY <2>2, <2>3, <2>4, <1>3, <1>7 DEF Recorded
<1> QED
  BY <1>5, <1>6, <1>7 DEF Recorded

\* Compression keeps the first message and the last four.
LEMMA CompressedIsRecorded ==
  ASSUME TypeOK, Opening, Recorded, pc # "idle", Len(conv) > 4,
         conv' = Compressed(conv), session' = session
  PROVE  Recorded'
<1>0. PICK c \in Nat, s \in Nat : c = Len(conv) /\ s = Len(session)
  BY LenProperties DEF TypeOK
<1>1. conv \in Seq(Message) /\ session \in Seq(Message) /\ c \in Nat /\ s \in Nat /\ c > 4 /\ s > 0
  BY <1>0, EmptySeq DEF TypeOK, Opening
<1>2. /\ Len(conv') = 6 /\ conv'[1] = conv[1] /\ conv'[2].role = "summary"
      /\ \A k \in 3..6 : conv'[k] = conv[c - 6 + k]
  BY <1>0, <1>1, CompressedIs, SMTT(30) DEF Summary
<1>3. ASSUME NEW n \in Nat, n >= 4, n <= c, Latest(n) PROVE Latest(4)' /\ s >= 4
  <2>1. n <= s /\ \A i \in 1..n : conv[c - n + i] = session[s - n + i]
    BY <1>0, <1>3 DEF Latest
  <2>2. Len(conv)' = 6 /\ Len(session)' = s
    BY <1>0, <1>2
  <2>3. ASSUME NEW i \in 1..4 PROVE conv'[6 - 4 + i] = session'[s - 4 + i]
    <3>1. conv'[2 + i] = conv[c - 6 + (2 + i)]
      BY <1>2, <2>3, SMTT(30)
    <3>2. n - 4 + i \in 1..n
      BY <1>3, <2>3
    <3>3. conv[c - n + (n - 4 + i)] = session[s - n + (n - 4 + i)]
      BY <3>2, <2>1
    <3>4. /\ c - n + (n - 4 + i) = c - 6 + (2 + i) /\ s - n + (n - 4 + i) = s - 4 + i
          /\ 6 - 4 + i = 2 + i
      BY <1>1, <1>3, <2>3
    <3> QED
      BY <3>1, <3>3, <3>4
  <2> QED
    BY <1>1, <1>3, <2>1, <2>2, <2>3 DEF Latest
<1>4. CASE conv = session
  <2>1. Latest(c) /\ s = c
    BY <1>0, <1>1, <1>4 DEF Latest
  <2>2. Latest(4)'
    BY <2>1, <1>1, <1>3
  <2>3. 6 - 2 = 4 /\ Len(session)' > 4 /\ conv'[1] = session'[1]
    BY <1>0, <1>1, <1>2, <1>4, <2>1
  <2> QED
    BY <2>2, <2>3, <1>2 DEF Recorded
<1>5. CASE conv[1].role = "context" /\ Latest(Len(conv) - 1)
  <2>1. c - 1 \in Nat /\ c - 1 >= 4 /\ c - 1 <= c
    BY <1>1
  <2>2. Latest(4)'
    BY <1>0, <2>1, <1>3, <1>5
  <2> QED
    BY <2>2, <1>2, <1>5, 6 - 2 = 4 DEF Recorded
<1>6. CASE /\ Len(conv) >= 6 /\ conv[2].role = "summary" /\ Latest(Len(conv) - 2)
           /\ \/ conv[1].role = "context"
              \/ conv[1] = session[1] /\ Len(session) > Len(conv) - 2
  <2>1. c - 2 \in Nat /\ c - 2 >= 4 /\ c - 2 <= c
    BY <1>0, <1>1, <1>6
  <2>2. Latest(4)'
    BY <1>0, <2>1, <1>3, <1>6
  <2>3. conv[1].role # "context" => conv'[1] = session'[1] /\ Len(session)' > 4
    BY <1>0, <2>1, <1>1, <1>2, <1>6
  <2> QED
    BY <2>2, <2>3, <1>2, <1>6, 6 - 2 = 4 DEF Recorded
<1> QED
  BY <1>4, <1>5, <1>6 DEF Recorded

\* What the conversation holds stays on record.
LEMMA RecordedStep ==
  ASSUME LoopInv, [Next]_vars PROVE Recorded'
<1> USE DEF LoopInv
<1>1. CASE Begin
  <2>1. conv' = session'
    BY <1>1 DEF Begin, TurnBegins, TaskBegins, Opens
  <2> QED
    BY <2>1 DEF Recorded
<1>2. CASE Ask
  <2>1. CASE UNCHANGED conv
    BY <2>1, <1>2 DEF Ask, TurnAsks, TaskAsks, Asks, Recorded, Latest
  <2>2. CASE Len(conv) > 4 /\ conv' = Compressed(conv)
    BY <2>2, <1>2, CompressedIsRecorded DEF Ask, TurnAsks, TaskAsks, Asks
  <2> QED
    BY <2>1, <2>2, <1>2 DEF Ask, TurnAsks, TaskAsks, Asks
<1>3. CASE Stop
  BY <1>3 DEF Stop, Recorded, Latest
<1>4. CASE Reply
  <2>1. PICK calls \in Replies : Take(calls)
    BY <1>4 DEF Reply
  <2>2. Assistant(calls) \in Message
    BY RepliesTyped, MessagesTyped
  <2>3. conv' = Append(conv, Assistant(calls)) /\ session' = Append(session, Assistant(calls))
    BY <2>1 DEF Take
  <2> QED
    BY <2>2, <2>3, WrittenIsRecorded, <1>4 DEF Reply
<1>5. CASE ProviderFails
  <2>1. CASE entry = "run_task"
    BY <2>1, <1>5 DEF ProviderFails, Abort, Recorded
  <2>2. CASE entry # "run_task"
    BY <2>2, <1>5 DEF ProviderFails, Recorded, Latest
  <2> QED
    BY <2>1, <2>2
<1>6. CASE StreamBreaks
  <2>1. PICK calls \in Replies : Take(calls)
    BY <1>6 DEF StreamBreaks
  <2>2. Assistant(calls) \in Message
    BY RepliesTyped, MessagesTyped
  <2>3. conv' = Append(conv, Assistant(calls)) /\ session' = Append(session, Assistant(calls))
    BY <2>1 DEF Take
  <2> QED
    BY <2>2, <2>3, WrittenIsRecorded, <1>6 DEF StreamBreaks
<1>7. CASE StoreFails
  BY <1>7 DEF StoreFails, Abort, Recorded
<1>8. CASE RunTool
  <2>1. Result(Head(todo)) \in Message
    BY <1>8, TodoShrinks, MessagesTyped DEF RunTool, Answering, TypeOK
  <2> QED
    BY <1>8, <2>1, WrittenIsRecorded DEF RunTool, Answering
<1>9. CASE Escalate
  <2>1. conv'[1].role = "context" /\ Len(conv)' = 1 /\ session' = session
    BY <1>9 DEF Escalate, Context
  <2>2. Latest(0)'
    BY <2>1, LenProperties DEF Latest, TypeOK
  <2> QED
    BY <2>1, <2>2 DEF Recorded
<1>10. CASE RefuseEscalation
  BY <1>10 DEF RefuseEscalation, Recorded, Latest
<1>11. CASE Count
  BY <1>11 DEF Count, Recorded, Latest
<1>12. CASE Close
  BY <1>12 DEF Close, Abort, Recorded
<1>13. CASE Crash
  BY <1>13 DEF Crash, Abort, Recorded
<1>14. CASE UNCHANGED vars
  BY <1>14 DEF vars, Recorded, Latest
<1>15. QED
  BY <1>1, <1>2, <1>3, <1>4, <1>5, <1>6, <1>7,
     <1>8, <1>9, <1>10, <1>11, <1>12, <1>13, <1>14 DEF Next, Step

\* Answers that are moved as a block, or followed by more, are answers still.
LEMMA TalliedMoves ==
  ASSUME NEW c, NEW d, NEW i \in Nat, NEW j \in Nat, NEW calls, NEW n \in Nat,
         \A k \in 1..n : i + k <= Len(c) => j + k <= Len(d) /\ d[j + k] = c[i + k],
         NEW results \in [0..n -> 0..n], Tallied(results, c, i, calls, n)
  PROVE  Tallied(results, d, j, calls, n)
<1> SUFFICES ASSUME NEW k \in 1..n
             PROVE  IF Intercepted(calls[k]) THEN results[k] = results[k - 1]
                    ELSE /\ results[k] = results[k - 1] + 1
                         /\ j + results[k] <= Len(d) /\ d[j + results[k]] = Result(calls[k])
  BY DEF Tallied
<1>1. IF Intercepted(calls[k]) THEN results[k] = results[k - 1]
      ELSE /\ results[k] = results[k - 1] + 1
           /\ i + results[k] <= Len(c) /\ c[i + results[k]] = Result(calls[k])
  BY DEF Tallied
<1>2. CASE Intercepted(calls[k])
  BY <1>1, <1>2
<1>3. CASE ~Intercepted(calls[k])
  <2>1. k - 1 \in 0..n /\ k \in 0..n
    OBVIOUS
  <2>2. results[k] \in 1..n
    BY <1>1, <1>3, <2>1
  <2> QED
    BY <1>1, <1>3, <2>2
<1> QED
  BY <1>2, <1>3

LEMMA AnsweredMoves ==
  ASSUME NEW c, NEW d, NEW i \in Nat, NEW j \in Nat, NEW calls, NEW n \in Nat,
         \A k \in 1..n : i + k <= Len(c) => j + k <= Len(d) /\ d[j + k] = c[i + k]
  PROVE  /\ Answered(c, i, calls, n) => Answered(d, j, calls, n)
         /\ \A m : AnsweredBy(c, i, calls, n, m) => AnsweredBy(d, j, calls, n, m)
  BY TalliedMoves DEF Answered, AnsweredBy

\* One more call is handled: it is answered by the message that comes next, or
\* it asked for an escalation.
LEMMA TallyGrows ==
  ASSUME NEW c, NEW i \in Nat, NEW calls, NEW n \in Nat,
         NEW l \in 0..n, AnsweredBy(c, i, calls, n, l), NEW m \in 0..(n + 1),
         IF Intercepted(calls[n + 1]) THEN m = l
         ELSE m = l + 1 /\ i + m <= Len(c) /\ c[i + m] = Result(calls[n + 1])
  PROVE  AnsweredBy(c, i, calls, n + 1, m)
<1>0. PICK results \in [0..n -> 0..n] : Tallied(results, c, i, calls, n) /\ results[n] = l
  BY DEF AnsweredBy
<1> DEFINE longer == [k \in 0..(n + 1) |-> IF k = n + 1 THEN m ELSE results[k]]
<1>1. \A k \in 0..n : k \in 0..(n + 1) /\ k # n + 1 /\ longer[k] = results[k]
  OBVIOUS
<1>2. longer[n + 1] = m
  OBVIOUS
<1>3. longer \in [0..(n + 1) -> 0..(n + 1)]
  <2> SUFFICES ASSUME NEW k \in 0..(n + 1), k # n + 1 PROVE results[k] \in 0..(n + 1)
    OBVIOUS
  <2>1. k \in 0..n
    OBVIOUS
  <2>2. results[k] \in 0..n
    BY <2>1, <1>0
  <2> QED
    BY <2>2
<1>4. longer[0] = 0
  BY <1>0, <1>1, 0 \in 0..n DEF Tallied
<1>5. ASSUME NEW k \in 1..(n + 1)
      PROVE  IF Intercepted(calls[k]) THEN longer[k] = longer[k - 1]
             ELSE /\ longer[k] = longer[k - 1] + 1
                  /\ i + longer[k] <= Len(c) /\ c[i + longer[k]] = Result(calls[k])
  <2>1. CASE k = n + 1
    <3>1. k - 1 = n /\ longer[n] = results[n]
      BY <1>1, <2>1, n \in 0..n
    <3> QED
      BY <2>1, <3>1, <1>0, <1>2
  <2>2. CASE k # n + 1
    <3>1. k \in 1..n /\ longer[k] = results[k] /\ longer[k - 1] = results[k - 1]
      BY <1>1, <2>2
    <3> HIDE DEF longer
    <3> QED
      BY <3>1, <1>0 DEF Tallied
  <2> QED
    BY <2>1, <2>2
<1> HIDE DEF longer
<1> QED
  BY <1>2, <1>3, <1>4, <1>5 DEF Tallied, AnsweredBy

\* No call has been handled yet.
LEMMA TallyStarts ==
  ASSUME NEW c, NEW i, NEW calls
  PROVE  AnsweredBy(c, i, calls, 0, 0)
<1> DEFINE results == [k \in 0..0 |-> 0]
<1>1. results \in [0..0 -> 0..0] /\ results[0] = 0
  OBVIOUS
<1> HIDE DEF results
<1> QED
  BY <1>1 DEF Tallied, AnsweredBy

\* A message that is appended leaves the answers that are there; a user's
\* begins a turn in which nothing is owed.
LEMMA AllAnsweredGrows ==
  ASSUME NEW c \in Seq(Message), NEW m \in Message, NEW p \in Nat, AllAnswered(c, p),
         NEW q \in Nat, q = p \/ p = 0, m.role = "assistant" => q = Len(c) + 1
  PROVE  AllAnswered(Append(c, m), q)
<1> DEFINE d == Append(c, m)
<1>1. /\ d \in Seq(Message) /\ Len(c) \in Nat /\ Len(d) = Len(c) + 1 /\ d[Len(c) + 1] = m
      /\ \A i \in 1..Len(c) : d[i] = c[i]
  BY Appended, LenProperties
<1>2. DOMAIN d = 1..Len(d) /\ DOMAIN c = 1..Len(c)
  BY <1>1, LenProperties
<1> HIDE DEF d
<1> SUFFICES ASSUME NEW i \in DOMAIN d, i # q, OfThisTurn(d, i)
             PROVE  Answered(d, i, d[i].calls, Len(d[i].calls))
  BY DEF AllAnswered, d
<1>3. i # Len(c) + 1
  BY <1>1 DEF OfThisTurn
<1>4. i \in 1..Len(c) /\ d[i] = c[i] /\ i # p
  BY <1>1, <1>2, <1>3
<1>5. OfThisTurn(c, i)
  BY <1>1, <1>4 DEF OfThisTurn
<1>6. Answered(c, i, c[i].calls, Len(c[i].calls))
  BY <1>2, <1>4, <1>5 DEF AllAnswered
<1>7. Len(c[i].calls) \in Nat
  <2>1. c[i] \in Message
    BY <1>4, ElementOfSeq
  <2> QED
    BY <2>1, LenProperties DEF Message
<1>8. \A k \in 1..Len(c[i].calls) : i + k <= Len(c) => i + k <= Len(d) /\ d[i + k] = c[i + k]
  BY <1>1, <1>4, <1>7
<1>9. ASSUME NEW calls, NEW n \in Nat, calls = c[i].calls, n = Len(calls)
      PROVE  Answered(d, i, calls, n)
  <2>1. Answered(c, i, calls, n) /\ i \in Nat
    BY <1>4, <1>6, <1>9
  <2>2. \A k \in 1..n : i + k <= Len(c) => i + k <= Len(d) /\ d[i + k] = c[i + k]
    BY <1>8, <1>9
  <2> QED
    BY ONLY <2>1, <2>2, n \in Nat, AnsweredMoves
<1> QED
  BY <1>4, <1>7, <1>9

LEMMA NothingOwedToUser ==
  ASSUME NEW c \in Seq(Message), NEW m \in Message, m.role # "assistant",
         m.role = "user" \/ c = <<>>
  PROVE  AllAnswered(Append(c, m), 0)
<1>1. /\ Len(c) \in Nat /\ Append(c, m) \in Seq(Message) /\ Len(Append(c, m)) = Len(c) + 1
      /\ Append(c, m)[Len(c) + 1] = m /\ (c = <<>> => Len(c) = 0)
  BY Appended, LenProperties
<1>2. DOMAIN Append(c, m) = 1..(Len(c) + 1)
  BY <1>1, LenProperties
<1> SUFFICES ASSUME NEW i \in DOMAIN Append(c, m), OfThisTurn(Append(c, m), i) PROVE FALSE
  BY DEF AllAnswered
<1> QED
  BY <1>1, <1>2 DEF OfThisTurn

LEMMA CompressedAnswered ==
  ASSUME NEW c \in Seq(Message), Len(c) > 4, AllAnswered(c, 0), c[1].role # "assistant"
  PROVE  AllAnswered(Compressed(c), 0)
<1> DEFINE d == Compressed(c)
<1>1. /\ d \in Seq(Message) /\ Len(c) \in Nat /\ Len(d) = 6 /\ d[1] = c[1] /\ d[2] = Summary
      /\ \A k \in 3..6 : d[k] = c[Len(c) - 6 + k]
  BY CompressedIs, LenProperties
<1>2. DOMAIN d = 1..6 /\ DOMAIN c = 1..Len(c)
  BY <1>1, LenProperties
<1> HIDE DEF d
<1> SUFFICES ASSUME NEW i \in DOMAIN d, OfThisTurn(d, i)
             PROVE  Answered(d, i, d[i].calls, Len(d[i].calls))
  BY DEF AllAnswered, d
<1>3. i \in 3..6
  BY <1>1, <1>2 DEF OfThisTurn, Summary
<1>4. PICK j \in 1..Len(c) : j = Len(c) - 6 + i
  BY <1>1, <1>3
<1>5. d[i] = c[j] /\ c[j] \in Message
  BY <1>1, <1>3, <1>4, ElementOfSeq
<1>6. OfThisTurn(c, j)
  <2>1. ASSUME NEW k \in j..Len(c) PROVE k - Len(c) + 6 \in i..6 /\ d[k - Len(c) + 6] = c[k]
    <3>0. Len(c) \in Nat /\ j \in Nat /\ i \in 3..6 /\ j = Len(c) - 6 + i /\ k \in Nat /\ k >= j /\ k <= Len(c)
      BY <1>1, <1>3, <1>4
    <3>1. k - Len(c) + 6 \in i..6 /\ k - Len(c) + 6 \in 3..6
      BY ONLY <3>0, SMTT(30)
    <3>2. Len(c) - 6 + (k - Len(c) + 6) = k
      BY <1>1, <1>4
    <3>3. d[k - Len(c) + 6] = c[Len(c) - 6 + (k - Len(c) + 6)]
      BY <3>1, <1>1
    <3> QED
      BY <3>1, <3>2, <3>3
  <2> QED
    BY <1>1, <1>5, <2>1 DEF OfThisTurn
<1>7. Answered(c, j, c[j].calls, Len(c[j].calls))
  BY <1>2, <1>4, <1>6 DEF AllAnswered
<1>8. Len(c[j].calls) \in Nat
  BY <1>5, LenProperties DEF Message
<1>9. ASSUME NEW calls, NEW n \in Nat, calls = c[j].calls, n = Len(calls)
      PROVE  Answered(d, i, calls, n)
  <2>1. Answered(c, j, calls, n) /\ i \in Nat /\ j \in Nat
    BY <1>3, <1>4, <1>7, <1>9
  <2>2. ASSUME NEW k \in 1..n, j + k <= Len(c) PROVE i + k <= Len(d) /\ d[i + k] = c[j + k]
    <3>0. Len(c) \in Nat /\ j \in Nat /\ i \in 3..6 /\ j = Len(c) - 6 + i /\ k \in Nat /\ j + k <= Len(c)
      BY <1>1, <1>3, <1>4, <1>9, <2>2
    <3>1. i + k \in 3..6 /\ i + k <= 6 /\ Len(c) - 6 + (i + k) = j + k
      BY ONLY <3>0, SMTT(30)
    <3>2. d[i + k] = c[Len(c) - 6 + (i + k)]
      BY <3>1, <1>1
    <3> QED
      BY <1>1, <3>1, <3>2
  <2> QED
    BY ONLY <2>1, <2>2, n \in Nat, AnsweredMoves
<1> QED
  BY <1>5, <1>8, <1>9

\* A call is handled: it is answered, or it asked for an escalation again.
LEMMA CallHandled ==
  ASSUME LoopInv, pc = "tools", todo # <<>>, todo' = Tail(todo),
         \/ /\ ~Intercepted(Head(todo))
            /\ conv' = Append(conv, Result(Head(todo)))
         \/ Intercepted(Head(todo)) /\ conv' = conv
  PROVE  \E p \in DOMAIN conv' : UnderWay(p)'
<1>1. PICK p \in DOMAIN conv : UnderWay(p)
  BY DEF LoopInv, Owed
<1>2. PICK calls, n : calls = conv[p].calls /\ n = Len(calls) - Len(todo)
  OBVIOUS
<1>3. /\ conv[p].role = "assistant" /\ n \in Nat
      /\ \A k \in 1..Len(todo) : todo[k] = calls[n + k]
      /\ AllAnswered(conv, p)
  BY <1>1, <1>2 DEF UnderWay
<1>4. PICK l \in 0..n : AnsweredBy(conv, p, calls, n, l) /\ p + l = Len(conv)
  BY <1>1, <1>2 DEF UnderWay
<1>5. PICK c \in Nat, left_ \in Nat : c = Len(conv) /\ left_ = Len(todo)
  BY LenProperties DEF LoopInv, TypeOK
<1>6. conv \in Seq(Message) /\ DOMAIN conv = 1..c /\ p \in 1..c /\ calls \in Seq(Call) /\ Len(calls) \in Nat
  <2>1. conv \in Seq(Message) /\ DOMAIN conv = 1..c
    BY <1>5, LenProperties DEF LoopInv, TypeOK
  <2>2. conv[p] \in Message
    BY <2>1, <1>5, ElementOfSeq
  <2> QED
    BY <2>1, <2>2, <1>2, LenProperties DEF Message
<1>7. /\ Head(todo) \in Call /\ Head(todo) = todo[1] /\ Len(Tail(todo)) = left_ - 1
      /\ Tail(todo) \in Seq(Call) /\ \A k \in 1..(left_ - 1) : Tail(todo)[k] = todo[k + 1]
  BY <1>5, TodoShrinks DEF LoopInv
<1>8. left_ > 0
  BY <1>5, EmptySeq DEF LoopInv, TypeOK
<1>9. todo[1] = calls[n + 1]
  BY <1>3, <1>5, <1>8
<1>10. Len(calls) - Len(todo') = n + 1
  BY <1>2, <1>5, <1>6, <1>7, <1>8, <1>3
<1>11. ASSUME NEW k \in 1..Len(todo') PROVE todo'[k] = calls[n + 1 + k]
  <2>1. k \in 1..(left_ - 1) /\ k + 1 \in 1..left_ /\ n + 1 + k = n + (k + 1)
    BY <1>3, <1>5, <1>7, <1>11
  <2> QED
    BY <2>1, <1>3, <1>5, <1>7
<1>12. n + 1 \in Nat /\ l \in 0..n /\ l \in 0..(n + 1) /\ p \in Nat
  BY <1>3, <1>6
<1>15. conv[p].role = "assistant" /\ conv[p].calls = calls
  BY <1>2, <1>3
<1>13. CASE Intercepted(Head(todo)) /\ conv' = conv
  <2>1. AnsweredBy(conv, p, calls, n + 1, l)
    <3>1. Intercepted(calls[n + 1])
      BY <1>7, <1>9, <1>13
    <3> QED
      BY <3>1, <1>3, <1>4, <1>12, TallyGrows
  <2>2. conv'[p].role = "assistant" /\ conv'[p].calls = calls /\ AllAnswered(conv', p)
    BY <1>2, <1>3, <1>13
  <2>3. AnsweredBy(conv', p, calls, n + 1, l) /\ p + l = Len(conv')
    BY <2>1, <1>4, <1>13
  <2>4. UnderWay(p)'
    BY ONLY <2>2, <2>3, <1>10, <1>11, <1>12 DEF UnderWay
  <2> QED
    BY <2>4, <1>13
<1>14. CASE ~Intercepted(Head(todo)) /\ conv' = Append(conv, Result(Head(todo)))
  <2>1. Result(Head(todo)) \in Message /\ Result(Head(todo)).role = "result"
    BY <1>7, MessagesTyped DEF Result
  <2>2. /\ conv' \in Seq(Message) /\ Len(conv') = c + 1 /\ conv'[c + 1] = Result(Head(todo))
        /\ \A i \in 1..c : conv'[i] = conv[i]
    BY <2>1, <1>5, <1>6, <1>14, Appended
  <2>3. ASSUME NEW k \in 1..n, p + k <= Len(conv)
        PROVE  p + k <= Len(conv') /\ conv'[p + k] = conv[p + k]
    <3>1. p + k \in 1..c /\ p + k <= c + 1
      <4>1. n \in Nat /\ c \in Nat /\ p \in 1..c /\ p + k <= c
        BY <2>3, <1>3, <1>5, <1>6
      <4> QED
        BY ONLY <4>1, k \in 1..n
    <3> QED
      BY <3>1, <2>2
  <2>4. AnsweredBy(conv', p, calls, n, l)
    BY <2>3, <1>3, <1>4, <1>12, AnsweredMoves
  <2>5. l + 1 \in 0..(n + 1) /\ p + (l + 1) = c + 1
    <3>1. p \in Nat /\ l \in 0..n /\ n \in Nat /\ c \in Nat /\ p + l = c
      BY <1>3, <1>4, <1>5, <1>12
    <3> QED
      BY ONLY <3>1
  <2>6. AnsweredBy(conv', p, calls, n + 1, l + 1)
    <3>1. /\ ~Intercepted(calls[n + 1]) /\ p + (l + 1) <= Len(conv')
          /\ conv'[p + (l + 1)] = Result(calls[n + 1])
      BY <2>2, <2>5, <1>7, <1>9, <1>14
    <3> QED
      BY <3>1, <2>4, <2>5, <1>3, <1>12, TallyGrows
  <2>7. AllAnswered(conv', p)
    <3>1. Result(Head(todo)).role # "assistant"
      BY <2>1
    <3> QED
      BY <3>1, <2>1, <1>3, <1>6, <1>12, <1>14, AllAnsweredGrows
  <2>8. conv'[p] = conv[p] /\ p \in DOMAIN conv'
    BY <2>2, <1>6, LenProperties
  <2>9. conv'[p].role = "assistant" /\ conv'[p].calls = calls
    BY ONLY <2>8, <1>15
  <2>10. p + (l + 1) = Len(conv')
    BY <2>2, <2>5
  <2>11. UnderWay(p)'
    BY ONLY <2>5, <2>6, <2>7, <2>9, <2>10, <1>10, <1>11, <1>12 DEF UnderWay
  <2> QED
    BY <2>8, <2>11
<1> QED
  BY <1>13, <1>14

\* A reply is taken: its calls are to do, or it is the answer.
LEMMA ReplyTaken ==
  ASSUME LoopInv, pc = "ask", NEW calls \in Replies, Take(calls)
  PROVE  Owed'
<1>1. calls \in Seq(Call) /\ Assistant(calls) \in Message
  BY RepliesTyped, MessagesTyped DEF LoopInv
<1>2. CASE pc' = "closing"
  BY <1>2 DEF Owed
<1>3. CASE pc' = "tools" /\ todo' = calls
  <2>1. PICK p \in Nat : p = Len(conv) + 1
    BY LenProperties DEF LoopInv, TypeOK
  <2>2. conv' = Append(conv, Assistant(calls)) /\ conv \in Seq(Message)
    BY DEF Take, LoopInv, TypeOK
  <2>3. /\ conv' \in Seq(Message) /\ Len(conv') = p /\ conv'[p] = Assistant(calls)
        /\ p \in DOMAIN conv'
    <3>1. Len(conv) \in Nat /\ p >= 1
      BY <2>1, <2>2, LenProperties
    <3> QED
      BY <3>1, <2>1, <2>2, <1>1, Appended, LenProperties
  <2>4. AllAnswered(conv', p)
    <3>1. AllAnswered(conv, 0)
      BY DEF LoopInv, Owed
    <3> QED
      BY <3>1, <2>1, <2>2, <1>1, AllAnsweredGrows
  <2>5. Len(calls) \in Nat /\ Len(calls) - Len(calls) = 0 /\ \A k \in 1..Len(calls) : calls[k] = calls[0 + k]
    BY <1>1, LenProperties
  <2>6. AnsweredBy(conv', p, calls, 0, 0) /\ 0 \in 0..0
    BY TallyStarts
  <2>7. p + 0 = p
    BY <2>1
  <2>8. conv'[p].role = "assistant" /\ conv'[p].calls = calls
    BY <2>3 DEF Assistant
  <2>9. UnderWay(p)'
    BY <2>3, <2>4, <2>5, <2>6, <2>7, <2>8, <1>3 DEF UnderWay
  <2> QED
    BY <2>3, <2>9, <1>3 DEF Owed
<1> QED
  BY <1>2, <1>3 DEF Take

\* What is owed is what the calls under way will answer.
LEMMA OwedStep ==
  ASSUME LoopInv, [Next]_vars PROVE Owed'
<1>1. CASE Begin
  <2> DEFINE known == IF entry = "run_turn" THEN session ELSE <<>>
  <2>1. known \in Seq(Message) /\ turn' \in Nat
    BY <1>1 DEF Begin, TurnBegins, TaskBegins, Opens, LoopInv, TypeOK
  <2>2. User(turn') \in Message /\ User(turn').role = "user"
    BY <2>1, MessagesTyped DEF User
  <2>3. conv' = Append(known, User(turn')) /\ pc' = "loop"
    BY <1>1, BegunWith DEF LoopInv
  <2>4. AllAnswered(conv', 0)
    BY <2>1, <2>2, <2>3, NothingOwedToUser
  <2> QED
    BY <2>3, <2>4 DEF Owed
<1>2. CASE Ask
  <2>1. AllAnswered(conv, 0) /\ conv \in Seq(Message) /\ conv[1].role # "assistant"
    BY <1>2 DEF Ask, TurnAsks, TaskAsks, Asks, LoopInv, Owed, Opening, TypeOK
  <2>2. AllAnswered(conv', 0)
    BY <2>1, <1>2, CompressedAnswered DEF Ask, TurnAsks, TaskAsks, Asks
  <2> QED
    BY <2>2, <1>2 DEF Ask, TurnAsks, TaskAsks, Asks, Owed
<1>3. CASE Stop
  BY <1>3 DEF Stop, Owed
<1>4. CASE Reply
  <2>1. PICK calls \in Replies : Take(calls)
    BY <1>4 DEF Reply
  <2> QED
    BY <2>1, <1>4, ReplyTaken DEF Reply
<1>5. CASE ProviderFails
  <2>1. pc' \in {"idle", "closing"}
    BY <1>5 DEF ProviderFails, Abort
  <2> QED
    BY <2>1 DEF Owed
<1>6. CASE StreamBreaks
  <2>1. PICK calls \in Replies : Take(calls)
    BY <1>6 DEF StreamBreaks
  <2> QED
    BY <2>1, <1>6, ReplyTaken DEF StreamBreaks
<1>7. CASE StoreFails
  BY <1>7 DEF StoreFails, Abort, Owed
<1>8. CASE RunTool
  <2>1. \E p \in DOMAIN conv' : UnderWay(p)'
    BY <1>8, CallHandled DEF RunTool, Answering
  <2> QED
    BY <2>1, <1>8 DEF RunTool, Answering, Owed
<1>9. CASE Escalate
  <2>1. turn \in Nat /\ <<>> \in Seq(Message)
    BY DEF LoopInv, TypeOK
  <2>2. Context(turn) \in Message /\ Context(turn).role = "context"
    BY <2>1, MessagesTyped DEF Context
  <2>3. conv' = Append(<<>>, Context(turn)) /\ pc' = "loop"
    BY <1>9 DEF Escalate
  <2>4. AllAnswered(conv', 0)
    BY <2>1, <2>2, <2>3, NothingOwedToUser
  <2> QED
    BY <2>3, <2>4 DEF Owed
<1>10. CASE RefuseEscalation
  <2>1. \E p \in DOMAIN conv' : UnderWay(p)'
    BY <1>10, CallHandled DEF RefuseEscalation
  <2> QED
    BY <2>1, <1>10 DEF RefuseEscalation, Owed
<1>11. CASE Count
  <2>1. PICK p \in DOMAIN conv : UnderWay(p)
    BY <1>11 DEF Count, LoopInv, Owed
  <2>2. PICK calls, n : calls = conv[p].calls /\ n = Len(calls)
    OBVIOUS
  <2>3. n \in Nat
    <3>1. conv[p] \in Message
      BY ElementOfSeq, LenProperties DEF LoopInv, TypeOK
    <3> QED
      BY <3>1, <2>2, LenProperties DEF Message
  <2>4. Len(todo) = 0 /\ n - 0 = n
    BY <1>11, <2>3, EmptySeq DEF Count
  <2>5. Answered(conv, p, calls, n)
    <3>1. \E m : AnsweredBy(conv, p, calls, n - 0, m)
      BY <2>1, <2>2, <2>4 DEF UnderWay
    <3> QED
      BY <3>1, <2>4 DEF Answered, AnsweredBy
  <2>6. AllAnswered(conv, p)
    BY <2>1 DEF UnderWay
  <2>7. AllAnswered(conv, 0)
    BY <2>2, <2>5, <2>6 DEF AllAnswered
  <2> QED
    BY <2>7, <1>11 DEF Count, Owed
<1>12. CASE Close
  BY <1>12 DEF Close, Abort, Owed
<1>13. CASE Crash
  BY <1>13 DEF Crash, Abort, Owed
<1>14. CASE UNCHANGED vars
  <2>1. conv' = conv /\ pc' = pc /\ todo' = todo
    BY <1>14 DEF vars
  <2> QED
    BY <2>1 DEF LoopInv, Owed, UnderWay
<1>15. QED
  BY <1>1, <1>2, <1>3, <1>4, <1>5, <1>6, <1>7,
     <1>8, <1>9, <1>10, <1>11, <1>12, <1>13, <1>14 DEF Next, Step

\* It holds when the runtime starts, and after each of its steps.
LEMMA LoopInvInit == ASSUME Init PROVE LoopInv
<1>1. <<>> \in Seq(Message) /\ <<>> \in Seq(Call) /\ Len(<<>>) = 0
  OBVIOUS
<1>2. TypeOK /\ Budgeted
  BY <1>1, LoopAssumption DEF Init, TypeOK, Budgeted
<1> QED
  BY <1>2 DEF Init, LoopInv, Opening, Recorded, Owed

LEMMA LoopInvNext == ASSUME LoopInv, [Next]_vars PROVE LoopInv'
<1>1. (TypeOK /\ Budgeted)'
  BY TypeStep DEF LoopInv
<1> QED
  BY <1>1, OpeningStep, RecordedStep, OwedStep DEF LoopInv

LEMMA LoopInvariant == Spec => []LoopInv
<1>1. Init => LoopInv
  BY LoopInvInit
<1>2. LoopInv /\ [Next]_vars => LoopInv'
  BY LoopInvNext
<1> QED
  BY <1>1, <1>2, PTL DEF Spec

\* What follows from it.
LEMMA RecordFollows == ASSUME LoopInv PROVE SessionIsRecord
<1>1. PICK c \in Nat, s \in Nat : c = Len(conv) /\ s = Len(session)
  BY LenProperties DEF LoopInv, TypeOK
<1>2. ASSUME NEW n \in Nat, n <= c, n <= s,
             \A i \in 1..n : conv[c - n + i] = session[s - n + i],
             \A i \in 1..(c - n) : \/ conv[i].role \in {"summary", "context"}
                                   \/ i = 1 /\ n < s /\ conv[1] = session[1]
      PROVE  SessionIsRecord
  <2>1. n \in 0..Len(session) /\ n <= Len(conv)
    BY <1>1, <1>2
  <2> QED
    BY <1>1, <1>2, <2>1 DEF SessionIsRecord
<1>3. ASSUME NEW n \in Nat, Latest(n)
      PROVE  n <= c /\ n <= s /\ \A i \in 1..n : conv[c - n + i] = session[s - n + i]
  BY <1>1, <1>3 DEF Latest
<1>4. CASE pc = "idle"
  <2>1. c = 0 /\ 0 <= s
    BY <1>1, <1>4, EmptySeq DEF LoopInv, Opening
  <2> QED
    BY <2>1, <1>2
<1>5. CASE conv = session
  <2>1. c = s
    BY <1>1, <1>5
  <2>2. \A i \in 1..c : conv[c - c + i] = session[s - c + i]
    BY <2>1, <1>5
  <2>3. \A i \in 1..(c - c) : FALSE
    BY <1>1
  <2> QED
    BY <2>1, <2>2, <2>3, <1>2
<1>6. CASE conv[1].role = "context" /\ Latest(c - 1) /\ pc # "idle"
  <2>1. c - 1 \in Nat /\ c - (c - 1) = 1
    BY <1>1, <1>6 DEF Latest
  <2>2. \A i \in 1..(c - (c - 1)) : conv[i].role = "context"
    BY <2>1, <1>6
  <2> QED
    BY <2>1, <2>2, <1>2, <1>3, <1>6
<1>7. CASE /\ c >= 6 /\ conv[2].role = "summary" /\ Latest(c - 2)
           /\ conv[1].role = "context" \/ (conv[1] = session[1] /\ s > c - 2)
  <2>1. c - 2 \in Nat /\ c - (c - 2) = 2
    BY <1>1, <1>7
  <2>2. ASSUME NEW i \in 1..(c - (c - 2))
        PROVE  \/ conv[i].role \in {"summary", "context"}
               \/ i = 1 /\ c - 2 < s /\ conv[1] = session[1]
    <3>1. i = 1 \/ i = 2
      BY <2>1
    <3>2. c - 2 < s <=> s > c - 2
      BY <1>1, <2>1
    <3> QED
      BY <3>1, <3>2, <1>7
  <2> QED
    BY <2>1, <2>2, <1>2, <1>3, <1>7
<1> QED
  BY <1>1, <1>4, <1>5, <1>6, <1>7 DEF LoopInv, Recorded

LEMMA AnswersFollow == ASSUME LoopInv PROVE CallsAnswered
<1>1. pc = "ask" => AllAnswered(conv, 0)
  BY DEF LoopInv, Owed
<1>2. \A i \in DOMAIN conv : i # 0
  BY LenProperties DEF LoopInv, TypeOK
<1> QED
  BY <1>1, <1>2 DEF AllAnswered, CallsAnswered

LEMMA TaskFollows == ASSUME LoopInv PROVE TaskKept
<1> SUFFICES ASSUME entry = "run_task", pc = "ask" PROVE RequestKept
  BY DEF TaskKept, RequestKept
<1>1. conv \in Seq(Message) /\ conv # <<>>
  BY DEF LoopInv, TypeOK, Opening
<1>2. 1 \in DOMAIN conv
  BY <1>1, EmptySeq, LenProperties
<1> QED
  BY <1>2 DEF LoopInv, Opening, RequestKept

\* Every variable of the loop keeps its type: the budget is not overdrawn and a
\* reply's calls are not more than the bound, whatever faults there are.
THEOREM LoopTypeCorrect == Spec => []TypeOK
<1>1. LoopInv => TypeOK
  BY DEF LoopInv
<1> QED
  BY <1>1, LoopInvariant, PTL

\* run_turn and run_task: the conversation is always the latest of the session's
\* messages, behind the first one, a summary and the context of an escalation;
\* no compression, escalation, refused write or crash loses another one.
THEOREM SessionStaysRecord == Spec => []SessionIsRecord
<1>1. LoopInv => SessionIsRecord
  BY RecordFollows
<1> QED
  BY <1>1, LoopInvariant, PTL

\* A provider is never called with a tool call of this turn that has no result,
\* unless it asked for an escalation that was refused, also when compression has
\* cut the conversation.
THEOREM CallsStayAnswered == Spec => []CallsAnswered
<1>1. LoopInv => CallsAnswered
  BY AnswersFollow
<1> QED
  BY <1>1, LoopInvariant, PTL

\* run_task never asks a model without the request it works on.
THEOREM TaskStaysKept == Spec => []TaskKept
<1>1. LoopInv => TaskKept
  BY TaskFollows
<1> QED
  BY <1>1, LoopInvariant, PTL

-----------------------------------------------------------------------------
(* The daemon of the model.                                                *)

\* The steps of the daemon: it is killed or it dies of a text it cannot write.
LEMMA DaemonSteps ==
  ASSUME SaidHeard, [DaemonNext]_daemonVars
  PROVE  \/ \E d \in Processes :
              Launch(d) \/ BindUnixSocket(d) \/ Listen(d) \/ StopServing(d) \/ Exit(d) \/ Die(d)
         \/ \E r \in Requests, size \in PromptSizes, s \in BOOLEAN : Submit(r, size, s)
         \/ \E r \in Requests : HangUp(r) \/ Handle(r) \/ Start(r) \/ EndOfText(r)
         \/ \E r \in Requests, silent \in BOOLEAN : Token(r, silent)
         \/ UNCHANGED daemonVars
<1>1. ASSUME NEW r \in Requests, CutText(r) PROVE \E d \in Processes : Die(d)
  BY <1>1 DEF CutText, SaidHeard
<1> QED
  BY <1>1 DEF DaemonNext, Process, Thread, Kill

\* The sizes are numbers.
LEMMA DaemonNumbers ==
  ASSUME DaemonTypeOK
  PROVE  /\ ContextSize \in Nat /\ MaxTokens \in Nat /\ MaxUpsets \in Nat
         /\ Nobody \notin Processes /\ Nobody \notin Requests
         /\ \A r \in Requests : prompt[r] \in Nat /\ said[r] \in 0..MaxTokens /\ said[r] \in Nat
         /\ \A d \in Processes, r \in Requests : cache[d][r] \in 0..ContextSize
<1>1. ContextSize \in Nat /\ MaxTokens \in Nat /\ MaxUpsets \in Nat
  BY DaemonAssumption
<1>2. ASSUME NEW r \in Requests PROVE prompt[r] \in Nat
  <2>1. prompt[r] \in PromptSizes \cup {0}
    BY DEF DaemonTypeOK
  <2>2. PromptSizes \subseteq Nat \ {0}
    BY DaemonAssumption
  <2>3. \A x \in PromptSizes \cup {0} : x \in Nat
    BY ONLY <2>2
  <2> QED
    BY <2>1, <2>3
<1>3. ASSUME NEW r \in Requests PROVE said[r] \in 0..MaxTokens /\ said[r] \in Nat
  BY <1>1 DEF DaemonTypeOK
<1>4. ASSUME NEW d \in Processes, NEW r \in Requests PROVE cache[d][r] \in 0..ContextSize
  BY DEF DaemonTypeOK
<1>5. Nobody \notin Processes /\ Nobody \notin Requests
  BY DaemonAssumption DEF Nobody
<1> QED
  BY <1>1, <1>2, <1>3, <1>4, <1>5

\* What the variables of the daemon hold stays of its type.
LEMMA DaemonTypeStep ==
  ASSUME DaemonTypeOK, SaidHeard, [DaemonNext]_daemonVars PROVE DaemonTypeOK'
<1> USE DaemonAssumption DEF DaemonTypeOK
<1>1. ASSUME NEW d \in Processes, Launch(d) PROVE DaemonTypeOK'
  BY <1>1 DEF Launch, Alive, Become, Nobody, requestVars
<1>2. ASSUME NEW d \in Processes, BindUnixSocket(d) PROVE DaemonTypeOK'
  BY <1>2 DEF BindUnixSocket, Become, Upset, Nobody, socketVars, requestVars
<1>3. ASSUME NEW d \in Processes, Listen(d) PROVE DaemonTypeOK'
  BY <1>3 DEF Listen, Become, Upset, Nobody, socketVars, requestVars
<1>4. ASSUME NEW d \in Processes, StopServing(d) PROVE DaemonTypeOK'
  BY <1>4 DEF StopServing, Become, Upset, Nobody, socketVars, requestVars
<1>5. ASSUME NEW d \in Processes, Exit(d) PROVE DaemonTypeOK'
  BY <1>5 DEF Exit, Become, Upset, Nobody, socketVars, requestVars
<1>6. ASSUME NEW d \in Processes, Die(d) PROVE DaemonTypeOK'
  BY <1>6 DEF Die, Upset, Become, Nobody, socketVars, requestVars
<1>7. ASSUME NEW r \in Requests, NEW size \in PromptSizes, NEW s \in BOOLEAN, Submit(r, size, s) PROVE DaemonTypeOK'
  BY <1>7 DEF Submit, Become, Upset, Nobody, socketVars, requestVars
<1>8. ASSUME NEW r \in Requests, HangUp(r) PROVE DaemonTypeOK'
  BY <1>8 DEF HangUp, Become, Upset, Nobody, socketVars, requestVars
<1>9. ASSUME NEW r \in Requests, Handle(r) PROVE DaemonTypeOK'
  BY <1>9 DEF Handle, Become, Upset, Nobody, socketVars, requestVars
<1>10. ASSUME NEW r \in Requests, Start(r) PROVE DaemonTypeOK'
  <2>1. at[r] \in Processes
    BY <1>10 DEF Start, SaidHeard
  <2>2. [q \in Requests |-> 0] \in [Requests -> 0..ContextSize]
    OBVIOUS
  <2>3. ASSUME prompt[r] < ContextSize PROVE prompt[r] \in 0..ContextSize
    <3>1. prompt[r] \in Nat /\ ContextSize \in Nat
      BY DaemonNumbers
    <3> QED
      BY ONLY <3>1, <2>3
  <2> QED
    BY <2>1, <2>2, <2>3, <1>10 DEF Start, Finish, Upset, Nobody, socketVars
<1>11. ASSUME NEW r \in Requests, EndOfText(r) PROVE DaemonTypeOK'
  <2>1. at[r] \in Processes
    BY <1>11 DEF EndOfText, SaidHeard
  <2> QED
    BY <2>1, <1>11 DEF EndOfText, Finish, Nobody, socketVars
<1>12. ASSUME NEW r \in Requests, NEW silent \in BOOLEAN, Token(r, silent) PROVE DaemonTypeOK'
  <2>1. at[r] \in Processes
    BY <1>12 DEF Token, SaidHeard
  <2>2. said[r] + 1 \in 0..MaxTokens
    BY <1>12 DEF Token
  <2>3. ASSUME cache[at[r]][r] # ContextSize PROVE cache[at[r]][r] + 1 \in 0..ContextSize
    <3>1. cache[at[r]][r] \in 0..ContextSize /\ ContextSize \in Nat
      BY <2>1, DaemonNumbers
    <3> QED
      BY ONLY <3>1, <2>3
  <2> QED
    BY <2>1, <2>2, <2>3, <1>12 DEF Token, Finish, Nobody, socketVars
<1>13. CASE UNCHANGED daemonVars
  BY <1>13 DEF daemonVars, socketVars, requestVars
<1>14. QED
  BY DaemonSteps, <1>1, <1>2, <1>3, <1>4, <1>5, <1>6,
     <1>7, <1>8, <1>9, <1>10, <1>11, <1>12, <1>13

\* What the death of a process does to a request: of its own, it is the end.
LEMMA DieDoes ==
  ASSUME DaemonTypeOK, NEW d \in Processes, Die(d), NEW r \in Requests
  PROVE  /\ at'[r] = at[r] /\ prompt'[r] = prompt[r] /\ streamed'[r] = streamed[r]
         /\ said'[r] = said[r] /\ heard'[r] = heard[r] /\ gone' = gone /\ cache' = cache
         /\ \/ at[r] = d /\ stage[r] # "done" /\ stage'[r] = "done" /\ outcome'[r] = "broken"
            \/ (at[r] # d \/ stage[r] = "done") /\ stage'[r] = stage[r] /\ outcome'[r] = outcome[r]
         /\ \A e \in Processes : holder'[e] = IF e = d THEN Nobody ELSE holder[e]
  BY DEF Die, Of, DaemonTypeOK

\* What the end of a request does to the others: nothing.
LEMMA FinishDoes ==
  ASSUME DaemonTypeOK, NEW q \in Requests, NEW how, Finish(q, how), at[q] \in Processes,
         NEW r \in Requests
  PROVE  /\ stage'[r] = IF r = q THEN "done" ELSE stage[r]
         /\ outcome'[r] = IF r = q THEN how ELSE outcome[r]
         /\ \A e \in Processes : holder'[e] = IF e = at[q] THEN Nobody ELSE holder[e]
  BY DEF Finish, DaemonTypeOK

\* Who holds the session generates, after every step.
LEMMA HolderStep ==
  ASSUME DaemonInv, [DaemonNext]_daemonVars PROVE HolderGenerates'
<1> USE DEF DaemonInv
<1>1. ASSUME NEW d \in Processes, Launch(d) PROVE HolderGenerates'
  BY <1>1 DEF Launch, HolderGenerates, requestVars
<1>2. ASSUME NEW d \in Processes, BindUnixSocket(d) PROVE HolderGenerates'
  BY <1>2 DEF BindUnixSocket, HolderGenerates, requestVars
<1>3. ASSUME NEW d \in Processes, Listen(d) PROVE HolderGenerates'
  BY <1>3 DEF Listen, HolderGenerates, requestVars
<1>4. ASSUME NEW d \in Processes, StopServing(d) PROVE HolderGenerates'
  BY <1>4 DEF StopServing, HolderGenerates, requestVars
<1>5. ASSUME NEW d \in Processes, Exit(d) PROVE HolderGenerates'
  BY <1>5 DEF Exit, HolderGenerates, requestVars
<1>6. ASSUME NEW d \in Processes, Die(d) PROVE HolderGenerates'
  <2>1. ASSUME NEW e \in Processes, holder'[e] # Nobody
        PROVE  at'[holder'[e]] = e /\ stage'[holder'[e]] = "generating"
    <3>1. holder'[e] = holder[e] /\ e # d
      BY <2>1, <1>6 DEF Die, DaemonTypeOK
    <3>2. PICK r \in Requests : r = holder[e]
      BY <2>1, <3>1 DEF DaemonTypeOK
    <3>3. at[r] = e /\ stage[r] = "generating"
      BY <2>1, <3>1, <3>2 DEF HolderGenerates
    <3>4. at'[r] = at[r] /\ stage'[r] = stage[r]
      BY <3>1, <3>3, <1>6, DieDoes
    <3> QED
      BY <3>1, <3>2, <3>3, <3>4
  <2>2. ASSUME NEW r \in Requests, stage'[r] = "generating" PROVE holder'[at'[r]] = r
    <3>1. at'[r] = at[r] /\ at[r] # d /\ stage[r] = "generating"
      BY <2>2, <1>6, DieDoes
    <3>2. at[r] \in Processes /\ holder[at[r]] = r
      BY <3>1 DEF SaidHeard, HolderGenerates
    <3> QED
      BY <3>1, <3>2, <1>6 DEF Die, DaemonTypeOK
  <2> QED
    BY <2>1, <2>2 DEF HolderGenerates
<1>7. ASSUME NEW r \in Requests, NEW size \in PromptSizes, NEW s \in BOOLEAN, Submit(r, size, s) PROVE HolderGenerates'
  BY <1>7, DaemonNumbers DEF Submit, HolderGenerates, DaemonTypeOK, socketVars
<1>8. ASSUME NEW r \in Requests, HangUp(r) PROVE HolderGenerates'
  BY <1>8 DEF HangUp, HolderGenerates, socketVars
<1>9. ASSUME NEW r \in Requests, Handle(r) PROVE HolderGenerates'
  BY <1>9, DaemonNumbers DEF Handle, HolderGenerates, DaemonTypeOK, socketVars
<1>10. ASSUME NEW r \in Requests, Start(r) PROVE HolderGenerates'
  <2>1. at[r] \in Processes /\ stage[r] = "waiting" /\ holder[at[r]] = Nobody /\ at' = at
    BY <1>10 DEF Start, SaidHeard
  <2>2. CASE /\ stage' = [stage EXCEPT ![r] = "generating"]
             /\ holder' = [holder EXCEPT ![at[r]] = r]
    BY <2>1, <2>2, DaemonNumbers DEF HolderGenerates, DaemonTypeOK
  <2>3. CASE Finish(r, "error")
    BY <2>1, <2>3, DaemonNumbers DEF Finish, HolderGenerates, DaemonTypeOK
  <2> QED
    BY <2>2, <2>3, <1>10 DEF Start
<1>11. ASSUME NEW r \in Requests, EndOfText(r) PROVE HolderGenerates'
  <2>1. at[r] \in Processes /\ stage[r] = "generating" /\ holder[at[r]] = r /\ at' = at
    BY <1>11 DEF EndOfText, SaidHeard, HolderGenerates
  <2> QED
    BY <2>1, <1>11, DaemonNumbers DEF EndOfText, Finish, HolderGenerates, DaemonTypeOK
<1>12. ASSUME NEW r \in Requests, NEW silent \in BOOLEAN, Token(r, silent) PROVE HolderGenerates'
  <2>1. at[r] \in Processes /\ stage[r] = "generating" /\ holder[at[r]] = r /\ at' = at
    BY <1>12 DEF Token, SaidHeard, HolderGenerates
  <2>2. CASE \E how : Finish(r, how)
    BY <2>1, <2>2, DaemonNumbers DEF Finish, HolderGenerates, DaemonTypeOK
  <2>3. CASE UNCHANGED <<stage, holder>>
    BY <2>1, <2>3 DEF HolderGenerates
  <2> QED
    BY <2>2, <2>3, <1>12 DEF Token
<1>13. CASE UNCHANGED daemonVars
  BY <1>13 DEF daemonVars, socketVars, requestVars, HolderGenerates
<1>14. QED
  BY DaemonSteps, <1>1, <1>2, <1>3, <1>4, <1>5, <1>6,
     <1>7, <1>8, <1>9, <1>10, <1>11, <1>12, <1>13

\* The cache of a session is that of the request that has it, after every step.
LEMMA OwnCacheStep ==
  ASSUME DaemonInv, [DaemonNext]_daemonVars PROVE OwnCache'
<1> USE DEF DaemonInv
<1>1. ASSUME NEW d \in Processes, Launch(d) PROVE OwnCache'
  BY <1>1 DEF Launch, OwnCache, requestVars
<1>2. ASSUME NEW d \in Processes, BindUnixSocket(d) PROVE OwnCache'
  BY <1>2 DEF BindUnixSocket, OwnCache, requestVars
<1>3. ASSUME NEW d \in Processes, Listen(d) PROVE OwnCache'
  BY <1>3 DEF Listen, OwnCache, requestVars
<1>4. ASSUME NEW d \in Processes, StopServing(d) PROVE OwnCache'
  BY <1>4 DEF StopServing, OwnCache, requestVars
<1>5. ASSUME NEW d \in Processes, Exit(d) PROVE OwnCache'
  BY <1>5 DEF Exit, OwnCache, requestVars
<1>6. ASSUME NEW d \in Processes, Die(d) PROVE OwnCache'
  <2> SUFFICES ASSUME NEW r \in Requests, stage'[r] = "generating", NEW q \in Requests
                PROVE  cache'[at'[r]][q] = IF q = r THEN prompt'[r] + said'[r] ELSE 0
    BY DEF OwnCache
  <2>1. stage[r] = "generating"
    BY <1>6, DieDoes
  <2> QED
    BY <2>1, <1>6, DieDoes DEF OwnCache
<1>7. ASSUME NEW r \in Requests, NEW size \in PromptSizes, NEW s \in BOOLEAN, Submit(r, size, s) PROVE OwnCache'
  <2> SUFFICES ASSUME NEW p \in Requests, stage'[p] = "generating", NEW q \in Requests
                PROVE  cache'[at'[p]][q] = IF q = p THEN prompt'[p] + said'[p] ELSE 0
    BY DEF OwnCache
  <2>1. p # r /\ stage[p] = "generating"
    BY <1>7 DEF Submit, DaemonTypeOK
  <2>2. at'[p] = at[p] /\ prompt'[p] = prompt[p] /\ said' = said /\ cache' = cache
    BY <2>1, <1>7 DEF Submit, DaemonTypeOK
  <2> QED
    BY <2>1, <2>2 DEF OwnCache
<1>8. ASSUME NEW r \in Requests, HangUp(r) PROVE OwnCache'
  BY <1>8 DEF HangUp, OwnCache, socketVars
<1>9. ASSUME NEW r \in Requests, Handle(r) PROVE OwnCache'
  BY <1>9 DEF Handle, OwnCache, DaemonTypeOK, socketVars
<1>10. ASSUME NEW r \in Requests, Start(r) PROVE OwnCache'
  <2>1. at[r] \in Processes /\ holder[at[r]] = Nobody /\ stage[r] = "waiting" /\ said[r] = 0
    BY <1>10 DEF Start, SaidHeard
  <2>2. at' = at /\ prompt' = prompt /\ said' = said
    BY <1>10 DEF Start
  <2> SUFFICES ASSUME NEW p \in Requests, stage'[p] = "generating", NEW q \in Requests
                PROVE  cache'[at[p]][q] = IF q = p THEN prompt[p] + said[p] ELSE 0
    BY <2>2 DEF OwnCache
  <2>3. CASE p = r
    <3>1. cache' = [cache EXCEPT ![at[r]] = [[x \in Requests |-> 0] EXCEPT ![r] = prompt[r]]]
      BY <2>1, <2>3, <1>10 DEF Start, Finish, DaemonTypeOK
    <3>2. prompt[r] + 0 = prompt[r]
      BY DaemonNumbers
    <3> QED
      BY <3>1, <3>2, <2>1, <2>3 DEF DaemonTypeOK
  <2>4. CASE p # r
    <3>1. stage[p] = "generating"
      BY <2>4, <1>10 DEF Start, Finish, DaemonTypeOK
    <3>2. at[p] # at[r] /\ at[p] \in Processes
      BY <3>1, <2>1, DaemonNumbers DEF HolderGenerates, SaidHeard
    <3>3. cache'[at[p]] = cache[at[p]]
      BY <3>2, <2>1, <1>10 DEF Start, DaemonTypeOK
    <3> QED
      BY <3>1, <3>3, <2>4 DEF OwnCache
  <2> QED
    BY <2>3, <2>4
<1>11. ASSUME NEW r \in Requests, EndOfText(r) PROVE OwnCache'
  <2> SUFFICES ASSUME NEW p \in Requests, stage'[p] = "generating" PROVE stage[p] = "generating"
    BY <1>11 DEF EndOfText, OwnCache, socketVars
  <2> QED
    BY <1>11 DEF EndOfText, Finish, DaemonTypeOK
<1>12. ASSUME NEW r \in Requests, NEW silent \in BOOLEAN, Token(r, silent) PROVE OwnCache'
  <2>1. at[r] \in Processes /\ holder[at[r]] = r /\ stage[r] = "generating"
    BY <1>12 DEF Token, SaidHeard, HolderGenerates
  <2>2. at' = at /\ prompt' = prompt
    BY <1>12 DEF Token
  <2> SUFFICES ASSUME NEW p \in Requests, stage'[p] = "generating", NEW q \in Requests
                PROVE  cache'[at[p]][q] = IF q = p THEN prompt[p] + said'[p] ELSE 0
    BY <2>2 DEF OwnCache
  <2>3. stage[p] = "generating" /\ at[p] \in Processes
    BY <1>12, <2>1 DEF Token, Finish, DaemonTypeOK, SaidHeard
  <2>4. CASE UNCHANGED <<said, cache>>
    BY <2>3, <2>4 DEF OwnCache
  <2>5. CASE /\ said' = [said EXCEPT ![r] = @ + 1]
             /\ cache' = [cache EXCEPT ![at[r]][r] = @ + 1]
    <3>1. CASE p = r
      <4>1. cache[at[r]][q] = IF q = r THEN prompt[r] + said[r] ELSE 0
        BY <2>1 DEF OwnCache
      <4>2. said'[r] = said[r] + 1 /\ cache'[at[r]][q] = IF q = r THEN cache[at[r]][r] + 1 ELSE cache[at[r]][q]
        BY <2>1, <2>5 DEF DaemonTypeOK
      <4>3. prompt[r] + said[r] + 1 = prompt[r] + (said[r] + 1)
        BY DaemonNumbers
      <4> QED
        BY <4>1, <4>2, <4>3, <3>1
    <3>2. CASE p # r
      <4>1. at[p] # at[r]
        BY <3>2, <2>1, <2>3 DEF HolderGenerates
      <4>2. cache'[at[p]] = cache[at[p]] /\ said'[p] = said[p]
        BY <4>1, <3>2, <2>1, <2>3, <2>5 DEF DaemonTypeOK
      <4> QED
        BY <4>2, <2>3 DEF OwnCache
    <3> QED
      BY <3>1, <3>2
  <2> QED
    BY <2>4, <2>5, <1>12 DEF Token
<1>13. CASE UNCHANGED daemonVars
  BY <1>13 DEF daemonVars, socketVars, requestVars, OwnCache
<1>14. QED
  BY DaemonSteps, <1>1, <1>2, <1>3, <1>4, <1>5, <1>6,
     <1>7, <1>8, <1>9, <1>10, <1>11, <1>12, <1>13

\* What was said and heard of a request goes with where it is.
LEMMA SaidHeardStep ==
  ASSUME DaemonInv, [DaemonNext]_daemonVars PROVE SaidHeard'
<1> USE DEF DaemonInv
<1>1. ASSUME NEW d \in Processes, Launch(d) PROVE SaidHeard'
  BY <1>1 DEF Launch, SaidHeard, requestVars
<1>2. ASSUME NEW d \in Processes, BindUnixSocket(d) PROVE SaidHeard'
  BY <1>2 DEF BindUnixSocket, SaidHeard, requestVars
<1>3. ASSUME NEW d \in Processes, Listen(d) PROVE SaidHeard'
  BY <1>3 DEF Listen, SaidHeard, requestVars
<1>4. ASSUME NEW d \in Processes, StopServing(d) PROVE SaidHeard'
  BY <1>4 DEF StopServing, SaidHeard, requestVars
<1>5. ASSUME NEW d \in Processes, Exit(d) PROVE SaidHeard'
  BY <1>5 DEF Exit, SaidHeard, requestVars
<1>6. ASSUME NEW d \in Processes, Die(d) PROVE SaidHeard'
  <2> SUFFICES ASSUME NEW r \in Requests
      PROVE  /\ stage'[r] \in {"queued", "waiting", "generating"} => at'[r] \in Processes
             /\ stage'[r] \in {"new", "queued", "waiting"} => said'[r] = 0 /\ heard'[r] = 0
             /\ stage'[r] = "generating" => heard'[r] = IF streamed'[r] THEN said'[r] ELSE 0
             /\ stage'[r] # "done" => outcome'[r] = "open"
    BY DEF SaidHeard
  <2> QED
    BY <1>6, DieDoes DEF SaidHeard
<1>7. ASSUME NEW r \in Requests, NEW size \in PromptSizes, NEW s \in BOOLEAN, Submit(r, size, s) PROVE SaidHeard'
  <2>1. owner # Nobody => owner \in Processes
    BY DEF DaemonTypeOK
  <2> QED
    BY <2>1, <1>7 DEF Submit, SaidHeard, DaemonTypeOK, socketVars
<1>8. ASSUME NEW r \in Requests, HangUp(r) PROVE SaidHeard'
  BY <1>8 DEF HangUp, SaidHeard, socketVars
<1>9. ASSUME NEW r \in Requests, Handle(r) PROVE SaidHeard'
  BY <1>9 DEF Handle, SaidHeard, DaemonTypeOK, socketVars
<1>10. ASSUME NEW r \in Requests, Start(r) PROVE SaidHeard'
  <2>1. /\ stage[r] = "waiting" /\ said[r] = 0 /\ heard[r] = 0 /\ at[r] \in Processes
        /\ UNCHANGED <<at, said, heard, streamed>>
    BY <1>10 DEF Start, SaidHeard
  <2>2. /\ stage' \in {[stage EXCEPT ![r] = "generating"], [stage EXCEPT ![r] = "done"]}
        /\ \A p \in Requests : p # r => outcome'[p] = outcome[p]
        /\ stage' = [stage EXCEPT ![r] = "generating"] => outcome' = outcome
    BY <2>1, <1>10 DEF Start, Finish, DaemonTypeOK
  <2> QED
    BY <2>1, <2>2 DEF SaidHeard, DaemonTypeOK
<1>11. ASSUME NEW r \in Requests, EndOfText(r) PROVE SaidHeard'
  BY <1>11 DEF EndOfText, Finish, SaidHeard, DaemonTypeOK
<1>12. ASSUME NEW r \in Requests, NEW silent \in BOOLEAN, Token(r, silent) PROVE SaidHeard'
  <2>1. stage[r] = "generating" /\ UNCHANGED <<at, streamed>>
    BY <1>12 DEF Token
  <2>2. CASE \E how : Finish(r, how) /\ said' = said /\ \A p \in Requests : p # r => heard'[p] = heard[p]
    BY <2>1, <2>2 DEF Finish, SaidHeard, DaemonTypeOK
  <2>3. CASE /\ heard' = IF streamed[r] THEN [heard EXCEPT ![r] = said[r] + 1] ELSE heard
             /\ said' = [said EXCEPT ![r] = @ + 1]
             /\ UNCHANGED <<stage, outcome>>
    BY <2>1, <2>3 DEF SaidHeard, DaemonTypeOK
  <2>4. \/ \E how : Finish(r, how) /\ said' = said /\ heard' = heard
        \/ /\ heard' = IF streamed[r] THEN [heard EXCEPT ![r] = said[r] + 1] ELSE heard
           /\ \/ Finish(r, "error") /\ said' = said
              \/ said' = [said EXCEPT ![r] = @ + 1] /\ UNCHANGED <<stage, outcome>>
    BY <1>12 DEF Token
  <2>5. heard' = [heard EXCEPT ![r] = said[r] + 1] => \A p \in Requests : p # r => heard'[p] = heard[p]
    BY DEF DaemonTypeOK
  <2> QED
    BY <2>2, <2>3, <2>4, <2>5
<1>13. CASE UNCHANGED daemonVars
  BY <1>13 DEF daemonVars, socketVars, requestVars, SaidHeard
<1>14. QED
  BY DaemonSteps, <1>1, <1>2, <1>3, <1>4, <1>5, <1>6,
     <1>7, <1>8, <1>9, <1>10, <1>11, <1>12, <1>13

\* A client that stays hears all that is said, after every step.
LEMMA HeardAllStep ==
  ASSUME DaemonInv, [DaemonNext]_daemonVars PROVE HeardAll'
<1> USE DEF DaemonInv
<1>1. ASSUME NEW d \in Processes, Launch(d) PROVE HeardAll'
  BY <1>1 DEF Launch, HeardAll, requestVars
<1>2. ASSUME NEW d \in Processes, BindUnixSocket(d) PROVE HeardAll'
  BY <1>2 DEF BindUnixSocket, HeardAll, requestVars
<1>3. ASSUME NEW d \in Processes, Listen(d) PROVE HeardAll'
  BY <1>3 DEF Listen, HeardAll, requestVars
<1>4. ASSUME NEW d \in Processes, StopServing(d) PROVE HeardAll'
  BY <1>4 DEF StopServing, HeardAll, requestVars
<1>5. ASSUME NEW d \in Processes, Exit(d) PROVE HeardAll'
  BY <1>5 DEF Exit, HeardAll, requestVars
<1>6. ASSUME NEW d \in Processes, Die(d) PROVE HeardAll'
  <2> SUFFICES ASSUME NEW r \in Requests, r \notin gone'
      PROVE  /\ outcome'[r] = "stop" => heard'[r] = said'[r]
             /\ outcome'[r] = "error" => heard'[r] \in {0, said'[r] + 1}
    BY DEF HeardAll
  <2> QED
    BY <1>6, DieDoes DEF HeardAll
<1>7. ASSUME NEW r \in Requests, NEW size \in PromptSizes, NEW s \in BOOLEAN, Submit(r, size, s) PROVE HeardAll'
  <2> SUFFICES ASSUME NEW p \in Requests, p \notin gone
      PROVE  /\ outcome'[p] = "stop" => heard[p] = said[p]
             /\ outcome'[p] = "error" => heard[p] \in {0, said[p] + 1}
    BY <1>7 DEF Submit, HeardAll
  <2>1. outcome'[p] \in {outcome[p], "refused"}
    BY <1>7 DEF Submit, DaemonTypeOK
  <2> QED
    BY <2>1 DEF HeardAll
<1>8. ASSUME NEW r \in Requests, HangUp(r) PROVE HeardAll'
  BY <1>8 DEF HangUp, HeardAll
<1>9. ASSUME NEW r \in Requests, Handle(r) PROVE HeardAll'
  <2> SUFFICES ASSUME NEW p \in Requests, p \notin gone
      PROVE  /\ outcome'[p] = "stop" => heard[p] = said[p]
             /\ outcome'[p] = "error" => heard[p] \in {0, said[p] + 1}
    BY <1>9 DEF Handle, HeardAll
  <2>1. outcome'[p] \in {outcome[p], "refused"}
    BY <1>9 DEF Handle, DaemonTypeOK
  <2> QED
    BY <2>1 DEF HeardAll
<1>10. ASSUME NEW r \in Requests, Start(r) PROVE HeardAll'
  <2>1. stage[r] = "waiting" /\ said[r] = 0 /\ heard[r] = 0 /\ UNCHANGED <<said, heard, gone>>
    BY <1>10 DEF Start, SaidHeard
  <2>2. /\ \A p \in Requests : p # r => outcome'[p] = outcome[p]
        /\ outcome'[r] \in {"open", "error"}
    BY <2>1, <1>10 DEF Start, Finish, SaidHeard, DaemonTypeOK
  <2> QED
    BY <2>1, <2>2 DEF HeardAll
<1>11. ASSUME NEW r \in Requests, EndOfText(r) PROVE HeardAll'
  <2>1. /\ UNCHANGED <<said, gone>> /\ heard'[r] = said[r] /\ outcome'[r] = "stop"
        /\ \A p \in Requests : p # r => outcome'[p] = outcome[p] /\ heard'[p] = heard[p]
    BY <1>11 DEF EndOfText, Finish, DaemonTypeOK
  <2> QED
    BY <2>1 DEF HeardAll
<1>12. ASSUME NEW r \in Requests, NEW silent \in BOOLEAN, Token(r, silent) PROVE HeardAll'
  <2>1. stage[r] = "generating" /\ UNCHANGED <<gone, streamed>> /\ outcome[r] = "open"
    BY <1>12 DEF Token, SaidHeard
  <2>2. heard[r] = IF streamed[r] THEN said[r] ELSE 0
    BY <2>1 DEF SaidHeard
  <2>3. \A p \in Requests : p # r =>
          outcome'[p] = outcome[p] /\ heard'[p] = heard[p] /\ said'[p] = said[p]
    BY <1>12 DEF Token, Finish, DaemonTypeOK
  <2>4. \/ r \in gone
        \/ outcome'[r] = "error" /\ said'[r] = said[r] /\ heard'[r] \in {0, said[r] + 1}
        \/ outcome'[r] = "open"
    BY <2>1, <2>2, <1>12 DEF Token, Finish, DaemonTypeOK
  <2> QED
    BY <2>1, <2>3, <2>4 DEF HeardAll
<1>13. CASE UNCHANGED daemonVars
  BY <1>13 DEF daemonVars, requestVars, HeardAll
<1>14. QED
  BY DaemonSteps, <1>1, <1>2, <1>3, <1>4, <1>5, <1>6,
     <1>7, <1>8, <1>9, <1>10, <1>11, <1>12, <1>13

\* Processes that are alive together have met, after every step.
LEMMA MetStep ==
  ASSUME DaemonInv, [DaemonNext]_daemonVars PROVE Met'
<1> USE DEF DaemonInv
<1>1. ASSUME NEW d \in Processes, Launch(d) PROVE Met'
  <2> SUFFICES ASSUME NEW e \in Alive', NEW f \in Alive', e # f PROVE e \in overlap' /\ f \in overlap'
    BY DEF Met
  <2>1. \A g \in Alive' : g = d \/ g \in Alive
    BY <1>1 DEF Launch, Become, Alive, DaemonTypeOK
  <2>2. Alive # {}
    BY <2>1
  <2>3. overlap' = overlap \cup Alive \cup {d}
    BY <2>2, <1>1 DEF Launch
  <2> QED
    BY <2>1, <2>3
<1>2. ASSUME NEW d \in Processes, BindUnixSocket(d) PROVE Met'
  BY <1>2 DEF BindUnixSocket, Become, Alive, Met, DaemonTypeOK
<1>3. ASSUME NEW d \in Processes, Listen(d) PROVE Met'
  BY <1>3 DEF Listen, Become, Alive, Met, DaemonTypeOK
<1>4. ASSUME NEW d \in Processes, StopServing(d) PROVE Met'
  BY <1>4 DEF StopServing, Become, Alive, Met, DaemonTypeOK
<1>5. ASSUME NEW d \in Processes, Exit(d) PROVE Met'
  BY <1>5 DEF Exit, Become, Alive, Met, DaemonTypeOK
<1>6. ASSUME NEW d \in Processes, Die(d) PROVE Met'
  BY <1>6 DEF Die, Become, Alive, Met, DaemonTypeOK
<1>7. ASSUME NEW r \in Requests, NEW size \in PromptSizes, NEW s \in BOOLEAN, Submit(r, size, s) PROVE Met'
  BY <1>7 DEF Submit, Met, Alive, socketVars
<1>8. ASSUME NEW r \in Requests, HangUp(r) PROVE Met'
  BY <1>8 DEF HangUp, Met, Alive, socketVars
<1>9. ASSUME NEW r \in Requests, Handle(r) PROVE Met'
  BY <1>9 DEF Handle, Met, Alive, socketVars
<1>10. ASSUME NEW r \in Requests, Start(r) PROVE Met'
  BY <1>10 DEF Start, Met, Alive, socketVars
<1>11. ASSUME NEW r \in Requests, EndOfText(r) PROVE Met'
  BY <1>11 DEF EndOfText, Met, Alive, socketVars
<1>12. ASSUME NEW r \in Requests, NEW silent \in BOOLEAN, Token(r, silent) PROVE Met'
  BY <1>12 DEF Token, Met, Alive, socketVars
<1>13. CASE UNCHANGED daemonVars
  BY <1>13 DEF daemonVars, socketVars, Met, Alive
<1>14. QED
  BY DaemonSteps, <1>1, <1>2, <1>3, <1>4, <1>5, <1>6,
     <1>7, <1>8, <1>9, <1>10, <1>11, <1>12, <1>13

\* A process that listens is found under its name, after every step.
LEMMA ReachableStep ==
  ASSUME DaemonInv, [DaemonNext]_daemonVars PROVE Reachable'
<1> USE DEF DaemonInv
<1>1. ASSUME NEW d \in Processes, Launch(d) PROVE Reachable'
  <2>1. \A e \in Processes : daemon'[e] = "listening" => daemon[e] = "listening"
    BY <1>1 DEF Launch, Become, DaemonTypeOK
  <2>2. overlap \subseteq overlap'
    BY <1>1 DEF Launch
  <2> QED
    BY <2>1, <2>2, <1>1 DEF Launch, Reachable
<1>2. ASSUME NEW d \in Processes, BindUnixSocket(d) PROVE Reachable'
  <2>1. \A e \in Processes : daemon'[e] = "listening" => e # d /\ daemon[e] = "listening"
    BY <1>2 DEF BindUnixSocket, Become, DaemonTypeOK
  <2>2. \A e \in Processes : e # d /\ daemon[e] = "listening" => e \in overlap
    BY <1>2 DEF BindUnixSocket, Alive, Met
  <2> QED
    BY <2>1, <2>2, <1>2 DEF BindUnixSocket, Reachable
<1>3. ASSUME NEW d \in Processes, Listen(d) PROVE Reachable'
  <2>1. \A e \in Processes : daemon'[e] = "listening" => daemon[e] = "listening" \/ (e = d /\ owner' = d)
    BY <1>3 DEF Listen, Become, DaemonTypeOK
  <2>2. \A e \in Processes : daemon[e] = "listening" => e \in overlap /\ e # d
    BY <1>3 DEF Listen, Alive, Met
  <2>3. \A e \in Processes : daemon[e] = "listening" => owner' = owner \/ ~abstract
    BY <1>3, DaemonNumbers DEF Listen, Reachable
  <2> QED
    BY <2>1, <2>2, <2>3, <1>3 DEF Listen, Reachable
<1>4. ASSUME NEW d \in Processes, StopServing(d) PROVE Reachable'
  <2>1. \A e \in Processes : daemon'[e] = "listening" => daemon[e] = "listening" /\ e # d
    BY <1>4 DEF StopServing, Become, DaemonTypeOK
  <2>2. abstract => owner = d
    BY <1>4 DEF StopServing, Reachable
  <2> QED
    BY <2>1, <2>2, <1>4 DEF StopServing, Reachable
<1>5. ASSUME NEW d \in Processes, Exit(d) PROVE Reachable'
  <2>1. \A e \in Processes : daemon'[e] = "listening" => e # d /\ daemon[e] = "listening"
    BY <1>5 DEF Exit, Become, DaemonTypeOK
  <2>2. \A e \in Processes : e # d /\ daemon[e] = "listening" => e \in overlap
    BY <1>5 DEF Exit, Alive, Met
  <2> QED
    BY <2>1, <2>2, <1>5 DEF Exit, Reachable
<1>6. ASSUME NEW d \in Processes, Die(d) PROVE Reachable'
  <2>1. \A e \in Processes : daemon'[e] = "listening" => daemon[e] = "listening" /\ e # d
    BY <1>6 DEF Die, Become, DaemonTypeOK
  <2> QED
    BY <2>1, <1>6 DEF Die, Reachable
<1>7. ASSUME NEW r \in Requests, NEW size \in PromptSizes, NEW s \in BOOLEAN, Submit(r, size, s) PROVE Reachable'
  BY <1>7 DEF Submit, Reachable, socketVars
<1>8. ASSUME NEW r \in Requests, HangUp(r) PROVE Reachable'
  BY <1>8 DEF HangUp, Reachable, socketVars
<1>9. ASSUME NEW r \in Requests, Handle(r) PROVE Reachable'
  BY <1>9 DEF Handle, Reachable, socketVars
<1>10. ASSUME NEW r \in Requests, Start(r) PROVE Reachable'
  BY <1>10 DEF Start, Reachable, socketVars
<1>11. ASSUME NEW r \in Requests, EndOfText(r) PROVE Reachable'
  BY <1>11 DEF EndOfText, Reachable, socketVars
<1>12. ASSUME NEW r \in Requests, NEW silent \in BOOLEAN, Token(r, silent) PROVE Reachable'
  BY <1>12 DEF Token, Reachable, socketVars
<1>13. CASE UNCHANGED daemonVars
  BY <1>13 DEF daemonVars, socketVars, Reachable
<1>14. QED
  BY DaemonSteps, <1>1, <1>2, <1>3, <1>4, <1>5, <1>6,
     <1>7, <1>8, <1>9, <1>10, <1>11, <1>12, <1>13

\* It holds when no daemon runs yet, and after each step of one.
LEMMA DaemonInvInit == ASSUME DaemonInit PROVE DaemonInv
<1>1. DaemonTypeOK
  <2>1. ContextSize \in Nat /\ MaxTokens \in Nat /\ MaxUpsets \in Nat
    BY DaemonAssumption
  <2> QED
    BY <2>1 DEF DaemonInit, DaemonTypeOK
<1>2. HolderGenerates /\ OwnCache /\ SaidHeard /\ HeardAll
  BY DEF DaemonInit, HolderGenerates, OwnCache, SaidHeard, HeardAll
<1>3. Met /\ Reachable
  BY DEF DaemonInit, Met, Alive, Reachable
<1> QED
  BY <1>1, <1>2, <1>3 DEF DaemonInv

LEMMA DaemonInvNext == ASSUME DaemonInv, [DaemonNext]_daemonVars PROVE DaemonInv'
<1>1. DaemonTypeOK /\ SaidHeard
  BY DEF DaemonInv
<1> QED
  BY <1>1, DaemonTypeStep, HolderStep, OwnCacheStep, SaidHeardStep, HeardAllStep, MetStep,
     ReachableStep DEF DaemonInv

LEMMA DaemonInvariant == DaemonSpec => []DaemonInv
<1>1. DaemonInit => DaemonInv
  BY DaemonInvInit
<1>2. DaemonInv /\ [DaemonNext]_daemonVars => DaemonInv'
  BY DaemonInvNext
<1> QED
  BY <1>1, <1>2, PTL DEF DaemonSpec

\* Who has the session has it for itself.
LEMMA OwnContextFollows == ASSUME DaemonInv PROVE OwnContext
<1> SUFFICES ASSUME NEW d \in Processes, NEW r, r = holder[d], r # Nobody
             PROVE  /\ at[r] = d /\ stage[r] = "generating"
                    /\ \A q \in Requests : cache[d][q] = IF q = r THEN prompt[r] + said[r] ELSE 0
                    /\ cache[d][r] <= ContextSize
  BY DEF OwnContext
<1>1. r \in Requests /\ at[r] = d /\ stage[r] = "generating"
  BY DEF DaemonInv, DaemonTypeOK, HolderGenerates
<1>2. \A q \in Requests : cache[d][q] = IF q = r THEN prompt[r] + said[r] ELSE 0
  BY <1>1 DEF DaemonInv, OwnCache
<1>3. cache[d][r] \in 0..ContextSize /\ ContextSize \in Nat
  BY <1>1, DaemonNumbers DEF DaemonInv
<1> QED
  BY <1>1, <1>2, <1>3

\* Every variable of the daemon keeps its type: no cache outgrows the context
\* and no text the tokens it may have.
THEOREM DaemonTypeCorrect == DaemonSpec => []DaemonTypeOK
<1>1. DaemonInv => DaemonTypeOK
  BY DEF DaemonInv
<1> QED
  BY <1>1, DaemonInvariant, PTL

\* Session and Server of the daemon: a request is generated from its own prompt
\* and text alone; a client that stays hears all that is said; and a process
\* that listens is found, unless it met another one of its name. However many
\* processes, requests and threads there are, and whatever dies.
THEOREM DaemonStaysSafe == DaemonSpec => [](OwnContext /\ HeardAll /\ Reachable)
<1>1. DaemonInv => OwnContext /\ HeardAll /\ Reachable
  BY OwnContextFollows DEF DaemonInv
<1> QED
  BY <1>1, DaemonInvariant, PTL

-----------------------------------------------------------------------------
(* Both, as they are checked together.                                     *)

\* The loop and the daemon share no state, so each keeps its invariant.
THEOREM LoopAndDaemonTypeCorrect == MCSpec => []MCTypeOK
<1>1. MCInit => LoopInv /\ DaemonInv
  BY LoopInvInit, DaemonInvInit DEF MCInit
<1>2. ASSUME LoopInv, DaemonInv, [MCNext]_<<side, vars, daemonVars>> PROVE LoopInv' /\ DaemonInv'
  <2>1. [Next]_vars /\ [DaemonNext]_daemonVars
    BY <1>2 DEF MCNext
  <2> QED
    BY <2>1, <1>2, LoopInvNext, DaemonInvNext
<1>3. LoopInv /\ DaemonInv => MCTypeOK
  BY DEF LoopInv, DaemonInv, MCTypeOK
<1> QED
  BY <1>1, <1>2, <1>3, PTL DEF MCSpec

\* What the loop and the daemon promise holds where they are checked together.
THEOREM LoopAndDaemonStaySafe ==
  MCSpec => []( /\ SessionIsRecord /\ CallsAnswered /\ TaskKept
                /\ OwnContext /\ HeardAll /\ Reachable )
<1>1. MCInit => Init /\ DaemonInit
  BY DEF MCInit
<1>2. [MCNext]_<<side, vars, daemonVars>> => [Next]_vars /\ [DaemonNext]_daemonVars
  BY DEF MCNext
<1>3. MCSpec => Spec /\ DaemonSpec
  BY <1>1, <1>2, PTL DEF MCSpec, Spec, DaemonSpec
<1> QED
  BY <1>3, SessionStaysRecord, CallsStayAnswered, TaskStaysKept, DaemonStaysSafe, PTL
=============================================================================
