--------------------------- MODULE AutonomyProofs ---------------------------
(***************************************************************************)
(* Invariants of TaskQueue for any number of tasks, any capacity of the    *)
(* channel and of the event channel, and any number of departed clients;   *)
(* and of Autonomy, which extends it, for any windows, any number of       *)
(* proposals and, but for the last theorem, of approve requests.           *)
(***************************************************************************)
EXTENDS Autonomy, FiniteSetTheorems, SequenceTheorems, TLAPS

-----------------------------------------------------------------------------
(* The queue. The steps are those of QueueNext with a submitter of any     *)
(* kind, so that the invariants also hold where the life loop uses it.     *)

QueueStep ==
  \/ \E src \in Sources : Submit(src)
  \/ \E t \in Tasks : Send(t) \/ Disconnect(t) \/ Leave(t)
  \/ Executor \/ Read

\* A task not submitted yet is nowhere.
Unborn == \A t \in Tasks : t > submitted => stage[t] = "none"

\* The flag is raised from Begin to Rest, and a task is in hand from Receive.
Flag    == processing <=> exec \in {"running", "answered"}
Holding == exec # "recv" => cur \in Tasks

InHand(t) == exec \in {"taken", "running"} /\ cur = t
InChan(t) == \E i \in 1..Len(chan) : chan[i] = t

\* A sent task is in the channel or in hand, and nowhere twice.
Located  == \A t \in Tasks : stage[t] = "sent" <=> InHand(t) \/ InChan(t)
NoRepeat == \A i, j \in 1..Len(chan) : chan[i] = chan[j] => i = j
NotBoth  == \A t \in Tasks : ~(InHand(t) /\ InChan(t))

QueueInv ==
  /\ QueueTypeOK
  /\ Unborn /\ Flag /\ Holding
  /\ Located /\ NoRepeat /\ NotBoth
  /\ PendingExact

\* Type correctness is preserved by every step.
LEMMA QueueTypeStep == QueueTypeOK /\ Holding /\ [QueueStep]_queueVars => QueueTypeOK'
<1> SUFFICES ASSUME QueueTypeOK, Holding, [QueueStep]_queueVars PROVE QueueTypeOK'
  OBVIOUS
<1> USE QueueAssumption DEF QueueTypeOK, Holding, Tasks, Stages, Sources
<1>1. ASSUME NEW src \in Sources, Submit(src) PROVE QueueTypeOK'
  BY <1>1 DEF Submit
<1>2. ASSUME NEW t \in Tasks, Send(t) PROVE QueueTypeOK'
  BY <1>2 DEF Send, streamVars
<1>3. ASSUME NEW t \in Tasks, Disconnect(t) PROVE QueueTypeOK'
  BY <1>3 DEF Disconnect
<1>4. ASSUME NEW t \in Tasks, Leave(t) PROVE QueueTypeOK'
  BY <1>4 DEF Leave
<1>5. CASE Receive
  BY <1>5 DEF Receive, streamVars
<1>6. CASE Begin
  BY <1>6 DEF Begin
<1>7. CASE Emit
  BY <1>7 DEF Emit
<1>8. CASE Answer
  BY <1>8 DEF Answer, streamVars
<1>9. CASE Rest
  BY <1>9 DEF Rest, streamVars
<1>10. CASE Read
  BY <1>10 DEF Read
<1>11. CASE UNCHANGED queueVars
  BY <1>11 DEF queueVars
<1> QED
  BY <1>1, <1>2, <1>3, <1>4, <1>5, <1>6, <1>7, <1>8, <1>9, <1>10, <1>11
     DEF QueueStep, Executor

\* Where the tasks are: each step moves one task from one place to the next.
Places == Unborn /\ Flag /\ Holding /\ Located /\ NoRepeat /\ NotBoth

LEMMA PlacesStep == QueueTypeOK /\ Places /\ [QueueStep]_queueVars => Places'
<1> SUFFICES ASSUME QueueTypeOK, Places, [QueueStep]_queueVars PROVE Places'
  OBVIOUS
<1> USE QueueAssumption
    DEF QueueTypeOK, Places, Unborn, Flag, Holding, Located, NoRepeat, NotBoth,
        InHand, InChan, Tasks, Stages
<1>1. ASSUME NEW src \in Sources, Submit(src) PROVE Places'
  BY <1>1 DEF Submit
<1>2. ASSUME NEW t \in Tasks, Send(t) PROVE Places'
  <2>1. /\ Len(chan') = Len(chan) + 1
        /\ chan'[Len(chan) + 1] = t
        /\ \A i \in 1..Len(chan) : chan'[i] = chan[i]
    BY <1>2 DEF Send
  <2>2. stage[t] # "sent"
    BY <1>2 DEF Send
  <2>3. ~InHand(t) /\ ~InChan(t)
    BY <2>2
  <2> QED
    BY <1>2, <2>1, <2>2, <2>3, SMTT(30) DEF Send, streamVars
<1>3. ASSUME NEW t \in Tasks, Disconnect(t) PROVE Places'
  BY <1>3 DEF Disconnect
<1>4. ASSUME NEW t \in Tasks, Leave(t) PROVE Places'
  BY <1>4 DEF Leave
<1>5. CASE Receive
  <2>1. /\ Len(chan) > 0 /\ Len(chan') = Len(chan) - 1
        /\ cur' = chan[1]
        /\ \A i \in 1..Len(chan') : chan'[i] = chan[i + 1]
    <3>1. chan \in Seq(Tasks) /\ chan # <<>>
      BY <1>5 DEF Receive
    <3>2. Len(chan) \in Nat \ {0} /\ Head(chan) = chan[1]
      BY <3>1
    <3>3. /\ Len(Tail(chan)) = Len(chan) - 1
          /\ \A i \in 1..Len(Tail(chan)) : Tail(chan)[i] = chan[i + 1]
      BY <3>1, <3>2
    <3> QED
      BY <1>5, <3>2, <3>3 DEF Receive
  <2>2. \A i \in 1..Len(chan) : i = 1 \/ \E k \in 1..Len(chan') : chan'[k] = chan[i]
    <3>1. \A i \in 2..Len(chan) : i - 1 \in 1..Len(chan') /\ chan'[i - 1] = chan[i]
      BY <2>1
    <3> QED BY <3>1, <2>1
  <2>3. cur' \in Tasks
    BY <2>1
  <2>4. Located'
    <3> SUFFICES ASSUME NEW t \in Tasks
                 PROVE  stage'[t] = "sent" <=> InHand(t)' \/ InChan(t)'
      OBVIOUS
    <3>1. InHand(t)' <=> t = chan[1]
      BY <1>5, <2>1 DEF Receive
    <3>2. ASSUME InChan(t)' PROVE InChan(t)
      <4>1. PICK k \in 1..Len(chan') : chan'[k] = t
        BY <3>2
      <4>2. k + 1 \in 1..Len(chan) /\ chan[k + 1] = t
        BY <4>1, <2>1
      <4> QED BY <4>2
    <3>3. InChan(t) => t = chan[1] \/ InChan(t)'
      BY <2>2
    <3>4. t = chan[1] => InChan(t)
      BY <2>1
    <3>5. stage[t] = "sent" <=> InChan(t)
      BY <1>5 DEF Receive
    <3> HIDE DEF InHand, InChan
    <3> QED
      BY <1>5, <3>1, <3>2, <3>3, <3>4, <3>5 DEF Receive
  <2>5. NoRepeat' /\ NotBoth'
    BY <1>5, <2>1 DEF Receive
  <2> QED
    BY <1>5, <2>3, <2>4, <2>5 DEF Receive
<1>6. CASE Begin
  BY <1>6 DEF Begin
<1>7. CASE Emit
  BY <1>7 DEF Emit
<1>8. CASE Answer
  BY <1>8 DEF Answer
<1>9. CASE Rest
  BY <1>9 DEF Rest
<1>10. CASE Read
  BY <1>10 DEF Read
<1>11. CASE UNCHANGED queueVars
  BY <1>11 DEF queueVars
<1> QED
  BY <1>1, <1>2, <1>3, <1>4, <1>5, <1>6, <1>7, <1>8, <1>9, <1>10, <1>11
     DEF QueueStep, Executor

\* The counter moves with the tasks: counted up when one is submitted, down when
\* the executor begins it, unchanged when it is sent, received or taken away.
Counted == {t \in Tasks : stage[t] \in {"counted", "dropped"}}

LEMMA CountedFinite ==
  ASSUME NEW S \in SUBSET Tasks
  PROVE  IsFiniteSet(S) /\ Cardinality(S) \in Nat
<1>1. IsFiniteSet(Tasks)
  BY FS_Interval, QueueAssumption DEF Tasks
<1> QED
  BY <1>1, FS_Subset, FS_CardinalityType

LEMMA PendingStep ==
  QueueTypeOK /\ Places /\ PendingExact /\ [QueueStep]_queueVars => PendingExact'
<1> SUFFICES ASSUME QueueTypeOK, Places, PendingExact, [QueueStep]_queueVars
             PROVE  PendingExact'
  OBVIOUS
<1> DEFINE taken == IF exec = "taken" THEN 1 ELSE 0
<1>a. pending = Cardinality(Counted) + Len(chan) + taken
  BY DEF PendingExact, Counted
<1>b. SUFFICES pending' = Cardinality(Counted') + Len(chan') + taken'
  BY DEF PendingExact, Counted
<1>c. /\ Counted \subseteq Tasks /\ IsFiniteSet(Counted)
      /\ Cardinality(Counted) \in Nat /\ Len(chan) \in Nat
  BY CountedFinite DEF Counted, QueueTypeOK
<1>1. ASSUME NEW src \in Sources, Submit(src)
      PROVE  pending' = Cardinality(Counted') + Len(chan') + taken'
  <2>1. submitted + 1 \in Tasks /\ stage[submitted + 1] = "none"
    BY <1>1, QueueAssumption DEF Submit, QueueTypeOK, Tasks, Places, Unborn
  <2>2. submitted + 1 \notin Counted
    BY <2>1 DEF Counted
  <2>3. Counted' = Counted \cup {submitted + 1}
    BY <1>1, <2>1 DEF Submit, Counted, QueueTypeOK
  <2>4. Cardinality(Counted') = Cardinality(Counted) + 1
    BY <2>2, <2>3, <1>c, FS_AddElement
  <2> QED
    BY <1>1, <1>a, <1>c, <2>4 DEF Submit
<1>2. ASSUME NEW t \in Tasks, Send(t)
      PROVE  pending' = Cardinality(Counted') + Len(chan') + taken'
  <2>1. t \in Counted
    BY <1>2 DEF Send, Counted
  <2>2. Counted' = Counted \ {t}
    BY <1>2 DEF Send, Counted, QueueTypeOK
  <2>3. Cardinality(Counted') = Cardinality(Counted) - 1
    BY <2>1, <2>2, <1>c, FS_RemoveElement
  <2>4. Len(chan') = Len(chan) + 1
    BY <1>2 DEF Send, QueueTypeOK
  <2> QED
    BY <1>2, <1>a, <1>c, <2>3, <2>4 DEF Send
<1>3. ASSUME NEW t \in Tasks, Disconnect(t)
      PROVE  pending' = Cardinality(Counted') + Len(chan') + taken'
  <2>1. Counted' = Counted
    BY <1>3 DEF Disconnect, Counted, QueueTypeOK
  <2> QED
    BY <1>3, <1>a, <2>1 DEF Disconnect
<1>4. ASSUME NEW t \in Tasks, Leave(t)
      PROVE  pending' = Cardinality(Counted') + Len(chan') + taken'
  BY <1>4, <1>a DEF Leave, Counted
<1>5. CASE Receive
  <2>1. chan \in Seq(Tasks) /\ chan # <<>>
    BY <1>5 DEF Receive, QueueTypeOK
  <2>2. Len(Tail(chan)) = Len(chan) - 1
    BY <2>1
  <2>3. Counted' = Counted
    BY <1>5 DEF Receive, Counted
  <2> QED
    BY <1>5, <1>a, <1>c, <2>2, <2>3 DEF Receive
<1>6. CASE Begin
  <2>1. Counted' = Counted
    BY <1>6 DEF Begin, Counted
  <2> QED
    BY <1>6, <1>a, <1>c, <2>1 DEF Begin
<1>7. CASE Emit
  BY <1>7, <1>a DEF Emit, Counted
<1>8. CASE Answer
  <2>1. cur \in Tasks /\ stage[cur] = "sent"
    BY <1>8 DEF Answer, Places, Holding, Located, InHand
  <2>2. Counted' = Counted
    BY <1>8, <2>1 DEF Answer, Counted, QueueTypeOK
  <2> QED
    BY <1>8, <1>a, <2>2 DEF Answer
<1>9. CASE Rest
  BY <1>9, <1>a DEF Rest, Counted
<1>10. CASE Read
  BY <1>10, <1>a DEF Read, Counted
<1>11. CASE UNCHANGED queueVars
  BY <1>11, <1>a DEF queueVars, Counted
<1> QED
  BY <1>1, <1>2, <1>3, <1>4, <1>5, <1>6, <1>7, <1>8, <1>9, <1>10, <1>11
     DEF QueueStep, Executor

LEMMA QueueInvInit == QueueInit => QueueInv
<1> SUFFICES ASSUME QueueInit PROVE QueueInv
  OBVIOUS
<1>0. <<>> \in Seq(Tasks) /\ Len(<<>>) = 0
  BY EmptySeq
<1>a. chan \in Seq(Tasks) /\ Len(chan) = 0
  BY <1>0, Zenon DEF QueueInit
<1>b. /\ submitted \in 0..MaxTasks /\ unsent \in 0..MaxEvents
      /\ buffered \in 0..StreamCap /\ 0 <= QueueSize /\ pending \in Nat
      /\ gone \in Nat /\ cur \in Tasks \cup {0}
  <2>1. /\ submitted = 0 /\ unsent = 0 /\ buffered = 0 /\ pending = 0
        /\ gone = 0 /\ cur = 0
    BY DEF QueueInit
  <2> QED
    BY <2>1, QueueAssumption
<1>c. /\ source \in [Tasks -> Sources \cup {"none"}]
      /\ stage \in [Tasks -> Stages]
      /\ exec \in {"recv", "taken", "running", "answered"}
      /\ reflecting \subseteq Tasks /\ listening \subseteq Tasks
      /\ processing \in BOOLEAN
  BY DEF QueueInit, Stages, Sources
<1>1. QueueTypeOK
  BY <1>a, <1>b, <1>c DEF QueueTypeOK
<1>2. Places
  BY DEF QueueInit, Places, Unborn, Flag, Holding, Located, NoRepeat, NotBoth,
         InHand, InChan
<1>3. Counted = {}
  BY DEF QueueInit, Counted
<1>4. PendingExact
  <2>1. pending = 0 /\ exec # "taken"
    BY DEF QueueInit
  <2>2. Cardinality(Counted) = 0
    BY <1>3, FS_EmptySet
  <2> QED
    BY <1>a, <2>1, <2>2 DEF PendingExact, Counted
<1> QED
  BY <1>1, <1>2, <1>4 DEF QueueInv, Places

\* The invariant of the queue, whoever submits.
LEMMA QueueInvStep == QueueInv /\ [QueueStep]_queueVars => QueueInv'
BY QueueTypeStep, PlacesStep, PendingStep DEF QueueInv, Places

\* What the life loop's gate relies on: an idle queue holds no task.
LEMMA IdleFromInv == QueueInv => IdleMeansEmpty
<1> SUFFICES ASSUME QueueInv, IsIdle
             PROVE  Waiting = {} /\ chan = <<>> /\ exec = "recv"
  BY DEF IdleMeansEmpty
<1>1. Cardinality(Counted) \in Nat /\ IsFiniteSet(Counted) /\ Len(chan) \in Nat
  BY CountedFinite DEF Counted, QueueInv, QueueTypeOK
<1>2. pending = 0 /\ ~processing
  BY DEF IsIdle
<1>3. Cardinality(Counted) = 0 /\ Len(chan) = 0 /\ exec # "taken"
  BY <1>1, <1>2 DEF QueueInv, PendingExact, Counted
<1>4. Counted = {}
  BY <1>1, <1>3, FS_EmptySet
<1>5. Waiting = {}
  BY <1>4 DEF Waiting, Counted
<1>6. chan = <<>>
  BY <1>3 DEF QueueInv, QueueTypeOK
<1>7. exec = "recv"
  BY <1>2, <1>3 DEF QueueInv, QueueTypeOK, Flag
<1> QED
  BY <1>5, <1>6, <1>7

\* The sequence of the sent tasks has each of them once.
LEMMA OnceFromInv == QueueInv => EachOnce
<1> SUFFICES ASSUME QueueInv PROVE EachOnce
  OBVIOUS
<1> USE DEF QueueInv, Located, NoRepeat, NotBoth, InHand, InChan
<1>1. chan \in Seq(Tasks) /\ Len(chan) \in Nat
  BY DEF QueueTypeOK
<1>2. CASE exec \in {"taken", "running"}
  <2> DEFINE held == <<cur>> \o chan
  <2>1. cur \in Tasks
    BY <1>2 DEF Holding
  <2>2. /\ Len(held) = Len(chan) + 1 /\ held[1] = cur
        /\ \A i \in 2..Len(held) : i - 1 \in 1..Len(chan) /\ held[i] = chan[i - 1]
        /\ \A i \in 1..Len(chan) : i + 1 \in 1..Len(held) /\ held[i + 1] = chan[i]
    BY <1>1, <2>1
  <2> HIDE DEF held
  <2>3. \A i, j \in 1..Len(held) : i # j => held[i] # held[j]
    BY <1>1, <1>2, <2>1, <2>2
  <2>4. \A i \in 1..Len(held) : held[i] \in Tasks /\ stage[held[i]] = "sent"
    <3> SUFFICES ASSUME NEW i \in 1..Len(held)
                 PROVE  held[i] \in Tasks /\ stage[held[i]] = "sent"
      OBVIOUS
    <3>1. CASE i = 1
      BY <1>2, <2>1, <2>2, <3>1
    <3>2. CASE i # 1
      BY <1>1, <2>2, <3>2, ElementOfSeq
    <3> QED BY <3>1, <3>2
  <2>5. \A t \in Tasks : stage[t] = "sent" => \E i \in 1..Len(held) : held[i] = t
    BY <1>1, <1>2, <2>1, <2>2
  <2>6. {held[i] : i \in 1..Len(held)} = {t \in Tasks : stage[t] = "sent"}
    BY <2>4, <2>5
  <2> QED
    BY <1>2, <2>3, <2>6 DEF EachOnce, held
<1>3. CASE exec \notin {"taken", "running"}
  BY <1>1, <1>3 DEF EachOnce
<1> QED
  BY <1>2, <1>3

-----------------------------------------------------------------------------
\* The inductive invariant holds of the queue.
THEOREM QueueInductive == QueueSpec => []QueueInv
<1>1. QueueInv /\ [QueueNext]_queueVars => QueueInv'
  BY QueueInvStep DEF QueueNext, QueueStep, Sources
<1> QED
  BY <1>1, QueueInvInit, PTL DEF QueueSpec

\* The queue's variables keep their types: the channel is never longer than its
\* capacity, and neither is a task's event channel.
THEOREM QueueTypeCorrect == QueueSpec => []QueueTypeOK
<1>1. QueueInv => QueueTypeOK
  BY DEF QueueInv
<1> QED
  BY <1>1, QueueInductive, PTL

\* is_idle never says yes while a task is waiting, queued or in hand, and the
\* pending counter is exact in every order of the steps.
THEOREM IdleSound == QueueSpec => []CountersTell
<1>1. QueueInv => CountersTell
  BY IdleFromInv DEF QueueInv, CountersTell
<1> QED
  BY <1>1, QueueInductive, PTL

\* No task is lost between the callers and the executor or executed twice.
THEOREM HandedOnce == QueueSpec => []EachOnce
BY OnceFromInv, QueueInductive, PTL

-----------------------------------------------------------------------------
(* The life loop and the proposals.                                        *)

LifeTypeOK ==
  /\ proposeOnly \in Modes /\ paused \in BOOLEAN
  /\ life \in {"sleep", "gate", "decide", "charge", "act", "sending", "sent"}
  /\ inHour \in Nat /\ inDay \in Nat
  /\ made \in 0..MaxProposals
  /\ verdict \in [Proposals -> Verdicts \cup {"none"}]
  /\ old \subseteq Proposals
  /\ handler \in [Approvers -> [at : {"free", "read", "set", "sending", "sent"},
                                p  : 0..MaxProposals]]
  /\ runs \in [Proposals -> Nat]
  /\ ticket \in [Approvers \cup {"life"} -> 0..MaxTasks]

\* Whoever is sending holds the number of a task, whoever approves the one of
\* a proposal.
Ticketed ==
  /\ life \in {"sending", "sent"} => ticket["life"] \in Tasks
  /\ \A a \in Approvers :
       /\ handler[a].at \in {"sending", "sent"} => ticket[a] \in Tasks
       /\ handler[a].at # "free" => handler[a].p \in Proposals

\* A submission takes the next number.
LEMMA SubmitNumber ==
  ASSUME NEW src, Submit(src), QueueTypeOK
  PROVE  submitted + 1 \in Tasks
BY QueueAssumption DEF Submit, QueueTypeOK, Tasks

\* Every step of the life loop and of the handlers is a step of the queue, or
\* leaves the queue alone.
LEMMA QueueSteps == LifeTypeOK /\ Ticketed /\ [Next]_vars => [QueueStep]_queueVars
<1> SUFFICES ASSUME LifeTypeOK, Ticketed, [Next]_vars, ~UNCHANGED queueVars
             PROVE  QueueStep
  OBVIOUS
<1> USE DEF Sources
<1>1. CASE Queue
  BY <1>1 DEF Queue, QueueStep
<1>2. CASE LifeLoop
  BY <1>2 DEF LifeLoop, Tick, Gate, Decide, Charge, Propose, ActAlone, LifeSend,
              LifeDrop, QueueStep, Ticketed
<1>3. CASE Age \/ \E p \in Proposals : GetOld(p)
  BY <1>3 DEF Age, GetOld
<1>4. ASSUME NEW a \in Approvers, Approve(a) PROVE QueueStep
  BY <1>4 DEF Approve, ApproveRead, ApproveSet, ApproveSubmit, ApproveSend,
              ApproveDone, ApproveGone, QueueStep, Ticketed
<1>5. CASE (\E p \in Proposals : Reject(p)) \/ PauseOrResume
  BY <1>5 DEF Reject, PauseOrResume
<1>6. CASE UNCHANGED vars
  BY <1>6 DEF vars
<1> QED
  BY <1>1, <1>2, <1>3, <1>4, <1>5, <1>6 DEF Next

\* The other variables keep their types, and the tickets their meaning.
LEMMA LifeTypeStep ==
  QueueTypeOK /\ LifeTypeOK /\ Ticketed /\ [Next]_vars => LifeTypeOK' /\ Ticketed'
<1> SUFFICES ASSUME QueueTypeOK, LifeTypeOK, Ticketed, [Next]_vars
             PROVE  LifeTypeOK' /\ Ticketed'
  OBVIOUS
<1> USE AutonomyAssumption
    DEF LifeTypeOK, Ticketed, Proposals, Verdicts, NoRequest, settings, windows,
        proposals, requests
<1>1. CASE Queue
  BY <1>1 DEF Queue, lifeVars
<1>2. CASE Tick
  BY <1>2 DEF Tick
<1>17. CASE Gate
  BY <1>17 DEF Gate
<1>18. CASE Decide
  BY <1>18 DEF Decide
<1>19. CASE Charge
  BY <1>19, SMTT(30) DEF Charge
<1>3. CASE Propose
  <2>1. made' \in 0..MaxProposals /\ made + 1 \in Proposals
    BY <1>3 DEF Propose
  <2>2. verdict' \in [Proposals -> Verdicts \cup {"none"}]
    BY <1>3 DEF Propose
  <2> QED
    BY <1>3, <2>1, <2>2 DEF Propose
<1>4. CASE ActAlone
  <2>1. submitted + 1 \in Tasks
    BY <1>4, SubmitNumber DEF ActAlone
  <2> QED
    BY <1>4, <2>1, QueueAssumption DEF ActAlone, Tasks
<1>5. CASE LifeSend \/ LifeDrop
  BY <1>5 DEF LifeSend, LifeDrop
<1>6. CASE Age
  BY <1>6, SMTT(30) DEF Age, AgeHour, AgeDay
<1>7. ASSUME NEW p \in Proposals, GetOld(p) PROVE LifeTypeOK' /\ Ticketed'
  BY <1>7 DEF GetOld
<1>8. ASSUME NEW a \in Approvers, NEW p \in Proposals, ApproveRead(a, p)
      PROVE  LifeTypeOK' /\ Ticketed'
  BY <1>8 DEF ApproveRead
<1>9. ASSUME NEW a \in Approvers, ApproveSet(a) PROVE LifeTypeOK' /\ Ticketed'
  BY <1>9 DEF ApproveSet
<1>10. ASSUME NEW a \in Approvers, ApproveSubmit(a) PROVE LifeTypeOK' /\ Ticketed'
  <2>1. submitted + 1 \in Tasks
    BY <1>10, SubmitNumber DEF ApproveSubmit
  <2>2. ticket' \in [Approvers \cup {"life"} -> 0..MaxTasks]
    BY <1>10, <2>1, QueueAssumption, SMTT(30) DEF ApproveSubmit, Tasks
  <2>3. runs' \in [Proposals -> Nat]
    BY <1>10 DEF ApproveSubmit
  <2>4. handler' \in [Approvers -> [at : {"free", "read", "set", "sending", "sent"},
                                     p  : 0..MaxProposals]]
    BY <1>10 DEF ApproveSubmit
  <2>5. Ticketed'
    BY <1>10, <2>1 DEF ApproveSubmit
  <2> QED
    BY <1>10, <2>2, <2>3, <2>4, <2>5 DEF ApproveSubmit
<1>11. ASSUME NEW a \in Approvers, ApproveSend(a) PROVE LifeTypeOK' /\ Ticketed'
  BY <1>11 DEF ApproveSend
<1>12. ASSUME NEW a \in Approvers, ApproveDone(a) PROVE LifeTypeOK' /\ Ticketed'
  BY <1>12 DEF ApproveDone
<1>13. ASSUME NEW a \in Approvers, ApproveGone(a) PROVE LifeTypeOK' /\ Ticketed'
  BY <1>13 DEF ApproveGone
<1>14. ASSUME NEW p \in Proposals, Reject(p) PROVE LifeTypeOK' /\ Ticketed'
  BY <1>14 DEF Reject
<1>15. CASE PauseOrResume
  BY <1>15 DEF PauseOrResume
<1>16. CASE UNCHANGED vars
  BY <1>16 DEF vars, lifeVars
<1> QED
  BY <1>1, <1>2, <1>17, <1>18, <1>19, <1>3, <1>4, <1>5, <1>6, <1>7, <1>8, <1>9, <1>10, <1>11, <1>12,
     <1>13, <1>14, <1>15, <1>16 DEF Next, LifeLoop, Approve

Base == QueueInv /\ LifeTypeOK /\ Ticketed

LEMMA BaseInit == Init => Base
<1> SUFFICES ASSUME Init PROVE Base
  OBVIOUS
<1>1. QueueInv
  BY QueueInvInit DEF Init
<1>2. /\ made \in 0..MaxProposals /\ 0 \in 0..MaxTasks /\ 0 \in 0..MaxProposals
      /\ inHour \in Nat /\ inDay \in Nat
  BY AutonomyAssumption, QueueAssumption DEF Init
<1>3. /\ ticket \in [Approvers \cup {"life"} -> 0..MaxTasks]
      /\ handler \in [Approvers -> [at : {"free", "read", "set", "sending", "sent"},
                                    p  : 0..MaxProposals]]
      /\ runs \in [Proposals -> Nat]
      /\ verdict \in [Proposals -> Verdicts \cup {"none"}]
  BY <1>2 DEF Init, NoRequest
<1>4. LifeTypeOK
  BY <1>2, <1>3 DEF Init, LifeTypeOK
<1>5. Ticketed
  BY DEF Init, Ticketed, NoRequest
<1> QED
  BY <1>1, <1>4, <1>5 DEF Base

LEMMA BaseStep == Base /\ [Next]_vars => Base'
BY QueueSteps, QueueInvStep, LifeTypeStep DEF Base, QueueInv

-----------------------------------------------------------------------------
(* The windows                                                             *)

\* A charge is only under way within the rate window; only Charge adds to it.
WindowsInv == WithinWindows /\ (life = "charge" => RateBudget)

LEMMA WindowsStep == LifeTypeOK /\ WindowsInv /\ [Next]_vars => WindowsInv'
<1> SUFFICES ASSUME LifeTypeOK, WindowsInv, [Next]_vars PROVE WindowsInv'
  OBVIOUS
<1> USE AutonomyAssumption
    DEF LifeTypeOK, WindowsInv, WithinWindows, RateBudget, settings, windows
<1>1. CASE Queue
  BY <1>1 DEF Queue, lifeVars
<1>2. CASE LifeLoop
  <2>1. CASE Charge
    BY <2>1 DEF Charge
  <2>2. CASE Decide
    BY <2>2 DEF Decide
  <2>3. CASE Tick \/ Gate \/ Propose \/ ActAlone \/ LifeSend \/ LifeDrop
    BY <2>3 DEF Tick, Gate, Propose, ActAlone, LifeSend, LifeDrop
  <2> QED
    BY <1>2, <2>1, <2>2, <2>3 DEF LifeLoop
<1>3. CASE Age
  BY <1>3 DEF Age, AgeHour, AgeDay
<1>4. ASSUME NEW p \in Proposals, GetOld(p) \/ Reject(p) PROVE WindowsInv'
  BY <1>4 DEF GetOld, Reject
<1>5. ASSUME NEW a \in Approvers, Approve(a) PROVE WindowsInv'
  BY <1>5 DEF Approve, ApproveRead, ApproveSet, ApproveSubmit, ApproveSend,
              ApproveDone, ApproveGone
<1>6. CASE PauseOrResume
  BY <1>6 DEF PauseOrResume
<1>7. CASE UNCHANGED vars
  BY <1>7 DEF vars, lifeVars
<1> QED
  BY <1>1, <1>2, <1>3, <1>4, <1>5, <1>6, <1>7 DEF Next

-----------------------------------------------------------------------------
(* The life loop's own tasks                                               *)

Alive(t) == source[t] = "life" /\ stage[t] \in {"counted", "sent"}

\* Past the gate no task of the loop is alive, and there is never a second.
AloneInv ==
  /\ \A s, t \in Tasks : Alive(s) /\ Alive(t) => s = t
  /\ life \in {"decide", "charge", "act"} => \A t \in Tasks : ~Alive(t)

\* Only the loop's own submission brings a task of it to life.
LEMMA NoneBorn ==
  ASSUME QueueInv,
         \/ Submit("web") \/ Submit("approved")
         \/ \E t \in Tasks : Send(t) \/ Disconnect(t) \/ Leave(t)
         \/ Executor \/ Read
         \/ UNCHANGED queueVars
  PROVE  \A t \in Tasks : Alive(t)' => Alive(t)
<1> SUFFICES ASSUME NEW s \in Tasks, Alive(s)' PROVE Alive(s)
  OBVIOUS
<1> USE DEF QueueInv, QueueTypeOK, Alive
<1>1. ASSUME NEW src \in {"web", "approved"}, Submit(src) PROVE Alive(s)
  <2>1. submitted + 1 \in Tasks
    BY <1>1, SubmitNumber
  <2> QED
    BY <1>1, <2>1 DEF Submit
<1>2. ASSUME NEW t \in Tasks, Send(t) \/ Disconnect(t) \/ Leave(t) PROVE Alive(s)
  BY <1>2 DEF Send, Disconnect, Leave
<1>3. CASE Executor
  BY <1>3 DEF Executor, Receive, Begin, Emit, Answer, Rest
<1>4. CASE Read \/ UNCHANGED queueVars
  BY <1>4 DEF Read, queueVars
<1> QED
  BY <1>1, <1>2, <1>3, <1>4

\* The gate opens only when none is alive.
LEMMA GateClears ==
  ASSUME QueueInv, IsIdle
  PROVE  \A t \in Tasks : ~Alive(t)
<1>1. Waiting = {} /\ chan = <<>> /\ exec = "recv"
  BY IdleFromInv DEF IdleMeansEmpty
<1>2. \A t \in Tasks : ~InHand(t) /\ ~InChan(t)
  BY <1>1 DEF InHand, InChan
<1> QED
  BY <1>1, <1>2 DEF Waiting, Alive, QueueInv, Located

LEMMA AloneStep == Base /\ AloneInv /\ [Next]_vars => AloneInv'
<1> SUFFICES ASSUME Base, AloneInv, [Next]_vars PROVE AloneInv'
  OBVIOUS
<1> USE DEF Base
<1>1. ASSUME \A t \in Tasks : Alive(t)' => Alive(t),
             life' = life \/ life' \notin {"decide", "charge", "act"}
      PROVE  AloneInv'
  BY <1>1 DEF AloneInv
<1>2. CASE Queue
  BY <1>1, <1>2, NoneBorn DEF Queue, lifeVars
<1>3. CASE LifeLoop
  <2>1. CASE Gate
    BY <2>1, GateClears DEF Gate, AloneInv, Alive, queueVars
  <2>2. CASE Decide \/ Charge
    BY <2>2 DEF Decide, Charge, AloneInv, Alive, queueVars
  <2>3. CASE ActAlone
    <3>1. submitted + 1 \in Tasks
      BY <2>3, SubmitNumber DEF ActAlone, QueueInv
    <3>2. \A t \in Tasks : Alive(t)' => t = submitted + 1
      BY <2>3, <3>1 DEF ActAlone, Submit, AloneInv, Alive, QueueInv, QueueTypeOK
    <3> QED
      BY <2>3, <3>2 DEF ActAlone, AloneInv
  <2>4. CASE Tick \/ Propose \/ LifeSend \/ LifeDrop
    <3>1. life' \notin {"decide", "charge", "act"}
      BY <2>4 DEF Tick, Propose, LifeSend, LifeDrop
    <3>2. \/ UNCHANGED queueVars
          \/ \E t \in Tasks : Send(t) \/ Leave(t)
      BY <2>4 DEF Tick, Propose, LifeSend, LifeDrop, Ticketed
    <3> QED
      BY <1>1, <3>1, <3>2, NoneBorn
  <2> QED
    BY <1>3, <2>1, <2>2, <2>3, <2>4 DEF LifeLoop
<1>4. CASE Age \/ (\E p \in Proposals : GetOld(p) \/ Reject(p)) \/ PauseOrResume
  <2>1. life' = life /\ UNCHANGED queueVars
    BY <1>4 DEF Age, GetOld, Reject, PauseOrResume
  <2> QED
    BY <1>1, <2>1, NoneBorn
<1>5. ASSUME NEW a \in Approvers, Approve(a) PROVE AloneInv'
  <2>1. life' = life
    BY <1>5 DEF Approve, ApproveRead, ApproveSet, ApproveSubmit, ApproveSend,
                ApproveDone, ApproveGone
  <2>2. \/ UNCHANGED queueVars \/ Submit("approved")
        \/ \E t \in Tasks : Send(t) \/ Disconnect(t) \/ Leave(t)
    BY <1>5 DEF Approve, ApproveRead, ApproveSet, ApproveSubmit, ApproveSend,
                ApproveDone, ApproveGone, Ticketed
  <2> QED
    BY <1>1, <2>1, <2>2, NoneBorn
<1>6. CASE UNCHANGED vars
  BY <1>1, <1>6, NoneBorn DEF vars, lifeVars
<1> QED
  BY <1>2, <1>3, <1>4, <1>5, <1>6 DEF Next

LEMMA AloneBound == Base /\ AloneInv => OneAutonomousTask
<1> SUFFICES ASSUME Base, AloneInv PROVE OneAutonomousTask
  OBVIOUS
<1> DEFINE L == {t \in Tasks : Alive(t)}
<1>1. OneAutonomousTask <=> Cardinality(L) <= 1
  BY DEF OneAutonomousTask, Alive
<1>2. CASE L = {}
  BY <1>1, <1>2, FS_EmptySet
<1>3. CASE L # {}
  <2>1. PICK t \in L : TRUE
    BY <1>3
  <2>2. L = {t}
    BY <2>1 DEF AloneInv
  <2> HIDE DEF L
  <2> QED
    BY <1>1, <2>2, FS_Singleton
<1> QED
  BY <1>2, <1>3

-----------------------------------------------------------------------------
(* Proposals, where one approve request is handled at a time               *)

OneApprover == \A a, b \in Approvers : a = b

\* What is pending was never submitted; a handler past its check holds a
\* proposal that was not submitted either, and that is no longer pending once
\* the status is set.
OnceInv ==
  /\ \A p \in Proposals : verdict[p] \in {"none", "pending"} => runs[p] = 0
  /\ \A a \in Approvers :
       /\ handler[a].at \in {"read", "set"} => runs[handler[a].p] = 0
       /\ handler[a].at = "set" => verdict[handler[a].p] \notin {"none", "pending"}
       /\ handler[a].at # "free" => verdict[handler[a].p] # "none"
  /\ \A p \in Proposals : p > made <=> verdict[p] = "none"
  /\ ProposalRunsOnce

LEMMA OnceStep ==
  ASSUME OneApprover, LifeTypeOK, Ticketed, OnceInv, [Next]_vars
  PROVE  OnceInv'
<1> USE AutonomyAssumption
    DEF OneApprover, LifeTypeOK, Ticketed, OnceInv, ProposalRunsOnce, Proposals,
        Verdicts, NoRequest, proposals, requests
<1>1. CASE Queue
  BY <1>1 DEF Queue, lifeVars
<1>2. CASE LifeLoop
  <2>1. CASE Tick
    BY <2>1 DEF Tick
  <2>2. CASE Propose
    BY <2>2 DEF Propose
  <2>3. CASE Gate \/ Decide \/ Charge \/ ActAlone \/ LifeSend \/ LifeDrop
    BY <2>3 DEF Gate, Decide, Charge, ActAlone, LifeSend, LifeDrop
  <2> QED
    BY <1>2, <2>1, <2>2, <2>3 DEF LifeLoop
<1>3. CASE Age \/ PauseOrResume
  BY <1>3, SMTT(30) DEF Age, PauseOrResume
<1>4. ASSUME NEW p \in Proposals, GetOld(p) PROVE OnceInv'
  BY <1>4 DEF GetOld
<1>5. ASSUME NEW p \in Proposals, Reject(p) PROVE OnceInv'
  BY <1>5 DEF Reject
<1>6. ASSUME NEW a \in Approvers, Approve(a) PROVE OnceInv'
  <2>1. ASSUME NEW p \in Proposals, ApproveRead(a, p) PROVE OnceInv'
    BY <2>1 DEF ApproveRead
  <2>2. CASE ApproveSet(a)
    BY <2>2 DEF ApproveSet
  <2>3. CASE ApproveSubmit(a)
    BY <2>3 DEF ApproveSubmit
  <2>4. CASE ApproveSend(a)
    BY <2>4 DEF ApproveSend
  <2>5. CASE ApproveDone(a)
    BY <2>5 DEF ApproveDone
  <2>6. CASE ApproveGone(a)
    BY <2>6 DEF ApproveGone
  <2> QED
    BY <1>6, <2>1, <2>2, <2>3, <2>4, <2>5, <2>6 DEF Approve
<1>7. CASE UNCHANGED vars
  BY <1>7 DEF vars, lifeVars
<1> QED
  BY <1>1, <1>2, <1>3, <1>4, <1>5, <1>6, <1>7 DEF Next

-----------------------------------------------------------------------------
LEMMA BaseHolds == Spec => []Base
BY BaseInit, BaseStep, PTL DEF Spec

\* Queue, windows, proposals and requests keep their types, and the loop, the
\* handlers and the web together use the queue as it is meant to be used.
THEOREM AutonomyTypeCorrect == Spec => []TypeOK
<1>1. Base => TypeOK
  BY DEF Base, LifeTypeOK, TypeOK, QueueInv
<1> QED
  BY <1>1, BaseHolds, PTL

\* The hour's cap, the day's cap and the token cap hold at every moment.
THEOREM WindowsRespected == Spec => []WithinWindows
<1>1. Init => WindowsInv
  BY AutonomyAssumption DEF Init, WindowsInv, WithinWindows
<1>2. Base /\ WindowsInv /\ [Next]_vars => WindowsInv'
  BY WindowsStep DEF Base
<1>3. WindowsInv => WithinWindows
  BY DEF WindowsInv
<1> QED
  BY <1>1, <1>2, <1>3, BaseHolds, PTL DEF Spec

\* The life loop never has two tasks of its own on the way, whatever users do
\* between its gate and its submission.
THEOREM OneAtATime == Spec => []OneAutonomousTask
<1>1. Init => AloneInv
  BY DEF Init, QueueInit, AloneInv, Alive
<1> QED
  BY <1>1, AloneStep, AloneBound, BaseHolds, PTL DEF Spec

\* A proposal is submitted at most once, as long as no two approve requests are
\* handled at the same time.
THEOREM SubmittedOnce ==
  ASSUME OneApprover
  PROVE  Spec => []ProposalRunsOnce
<1>1. Init => OnceInv
  BY AutonomyAssumption DEF Init, OnceInv, ProposalRunsOnce, NoRequest, Proposals
<1>2. Base /\ OnceInv /\ [Next]_vars => OnceInv'
  BY OnceStep DEF Base
<1>3. OnceInv => ProposalRunsOnce
  BY DEF OnceInv
<1> QED
  BY <1>1, <1>2, <1>3, BaseHolds, PTL DEF Spec
=============================================================================
