------------------------------ MODULE Messages ------------------------------
(***************************************************************************)
(* Texts and calls that leave the phone: the sms tool (sms_framework.rs),  *)
(* the two receivers of the SMS shim it asks (SmsCommandReceiver.kt and    *)
(* SmsResultReceiver.kt), and the call tool (call_framework.rs).           *)
(*                                                                         *)
(* A text is one call of a tool, by the agent or by a background worker:   *)
(* several may run at once. The shim handles one broadcast at a time, on   *)
(* its main thread. The clock counts fractions of the quota's windows, so  *)
(* the milliseconds between the quota and the broadcast pass within one    *)
(* tick. The radio and the framework are modelled by what they report.     *)
(***************************************************************************)
EXTENDS Integers, FiniteSets

CONSTANTS
  MaxTexts,      \* bound: calls of the tools
  PerHour,       \* max_per_hour of [tools.sms_config]; MAX_DIALS_PER_HOUR
  PerDay,        \* max_per_day; MAX_DIALS_PER_DAY
  Hour, Day,     \* the two windows, in ticks
  MaxClock,      \* bound: ticks
  MaxMisses      \* bound: restarts, refused writes, lost broadcasts

ASSUME MessagesAssumption ==
  /\ {MaxTexts, PerHour, PerDay, Hour, Day, MaxClock, MaxMisses} \subseteq Nat
  /\ Hour <= Day

Texts == 1..MaxTexts
Pools == {"sms", "dial"}
\* What a call is given: a number that is none or a message that is empty or
\* too long ("bad"), a message of blanks, one to send, a number to dial.
TextKinds == {"bad", "blank", "plain", "dial"}

VARIABLES
  begun,      \* how many calls there were; they are numbered as they begin
  kind,       \* [Texts]: what the call was given
  told,      \* [Texts]: how far it got; from "sent" on, what the model is told
  quota,      \* [Pools]: history of the tool, its attempts <<text, time>>
  msgClock,
  life,       \* how often the agent was restarted
  broadcast,         \* [Texts]: history: <<life, time>> of its broadcast (<<>>: none)
  audit,      \* sms_sent.log and calls.log: <<text, event>>
  pending,    \* broadcasts the shim has yet to receive
  file,       \* [Texts]: the status in its result file
  radio,      \* [Texts]: what became of the message
  thread,     \* content://sms/sent: the messages the user finds there
  stale,      \* history: texts one of whose results was not written
  misses      \* bound: counts the misses

msgVars == <<begun, kind, told, quota, msgClock, life, broadcast, audit, pending, file,
             radio, thread, stale, misses>>
agentVars == <<begun, kind, quota, broadcast>>
shimSide  == <<pending, file, radio, thread, stale>>

MsgTypeOK ==
  /\ begun \in 0..MaxTexts /\ kind \in [Texts -> TextKinds]
  /\ told \in [Texts -> {"new", "counted", "polling", "sent", "failed", "unknown",
                          "refused", "undispatched", "dialled", "killed"}]
  /\ quota \in [Pools -> SUBSET (Texts \X (0..MaxClock))]
  /\ msgClock \in 0..MaxClock /\ life \in Nat
  /\ audit \subseteq Texts \X {"attempt", "timeout", "sent", "delivered", "error"}
  /\ pending \subseteq Texts /\ thread \subseteq Texts /\ stale \subseteq Texts
  /\ file \in [Texts -> {"none", "queued", "sent", "delivered", "error"}]
  /\ radio \in [Texts -> {"none", "accepted", "sent", "error", "delivered", "undelivered"}]
  /\ misses \in 0..MaxMisses

MsgInit ==
  /\ begun = 0 /\ msgClock = 0 /\ life = 0 /\ misses = 0
  /\ kind = [t \in Texts |-> "plain"] /\ told = [t \in Texts |-> "new"]
  /\ quota = [p \in Pools |-> {}] /\ broadcast = [t \in Texts |-> <<>>]
  /\ audit = {} /\ pending = {} /\ thread = {} /\ stale = {}
  /\ file = [t \in Texts |-> "none"] /\ radio = [t \in Texts |-> "none"]

Miss == misses < MaxMisses /\ misses' = misses + 1
Pool(k) == IF k = "dial" THEN "dial" ELSE "sms"

-----------------------------------------------------------------------------
\* A slip of Usage: what is older than an hour is dropped.
UsageOfHour(attempts) == {e \in attempts : e[2] >= msgClock - Hour}

\* usage, count: what is older than a day is dropped, the rest is the day.
Usage(attempts) == {e \in attempts : e[2] >= msgClock - Day}
InHour(attempts) == Cardinality({e \in attempts : e[2] >= msgClock - Hour})

Room(attempts) == InHour(attempts) < PerHour /\ Cardinality(attempts) < PerDay

\* The checks of execute and the quota, under the lock of the history: an
\* attempt counts before it is made.
Begin(k) ==
  LET t == begun + 1
      recent == Usage(quota[Pool(k)])
  IN /\ t \in Texts
     /\ begun' = t /\ kind' = [kind EXCEPT ![t] = k]
     /\ \/ /\ k = "bad"
           /\ told' = [told EXCEPT ![t] = "refused"] /\ UNCHANGED quota
        \/ /\ k # "bad" /\ ~Room(recent)
           /\ told' = [told EXCEPT ![t] = "refused"]
           /\ quota' = [quota EXCEPT ![Pool(k)] = recent]
        \/ /\ k # "bad" /\ Room(recent)
           /\ told' = [told EXCEPT ![t] = "counted"]
           /\ quota' = [quota EXCEPT ![Pool(k)] = recent \cup {<<t, msgClock>>}]
     /\ UNCHANGED <<msgClock, life, broadcast, audit, shimSide, misses>>

\* From the quota to the broadcast: the shim may be missing (nothing is
\* logged then), the shell may fail; "am" does not say who received it.
Dispatch(t) ==
  /\ told[t] = "counted"
  /\ \/ /\ told' = [told EXCEPT ![t] = "undispatched"] /\ Miss
        /\ audit' \in {audit, audit \cup {<<t, "attempt">>}}
        /\ kind[t] = "dial" => audit' # audit
        /\ UNCHANGED <<broadcast, pending>>
     \/ /\ told' = [told EXCEPT ![t] = IF kind[t] = "dial" THEN "dialled" ELSE "polling"]
        /\ audit' = audit \cup {<<t, "attempt">>}
        /\ broadcast' = [broadcast EXCEPT ![t] = <<life, msgClock>>]
        /\ pending' = IF kind[t] = "dial" THEN pending ELSE pending \cup {t}
        /\ UNCHANGED misses
  /\ UNCHANGED <<begun, kind, quota, msgClock, life, file, radio, thread, stale>>

\* One round of the poll: a final status ends it.
Look(t) ==
  /\ told[t] = "polling" /\ file[t] \in {"sent", "delivered", "error"}
  /\ told' = [told EXCEPT ![t] = IF file[t] = "error" THEN "failed" ELSE "sent"]
  /\ audit' = audit \cup {<<t, file[t]>>}
  /\ UNCHANGED <<agentVars, msgClock, life, shimSide, misses>>

\* send_timeout_secs pass: the message may be on its way all the same.
TimeOut(t) ==
  /\ told[t] = "polling"
  /\ told' = [told EXCEPT ![t] = "unknown"]
  /\ audit' = audit \cup {<<t, "timeout">>}
  /\ UNCHANGED <<agentVars, msgClock, life, shimSide, misses>>

\* The agent ends and starts again: the history is in memory only.
Restart ==
  /\ Miss /\ life' = life + 1
  /\ told' = [t \in Texts |-> IF told[t] \in {"counted", "polling"} THEN "killed" ELSE told[t]]
  /\ quota' = [p \in Pools |-> {}]
  /\ UNCHANGED <<begun, kind, msgClock, broadcast, audit, shimSide>>

MsgTick ==
  /\ msgClock < MaxClock /\ \A t \in Texts : told[t] # "counted"
  /\ msgClock' = msgClock + 1
  /\ UNCHANGED <<agentVars, told, life, audit, shimSide, misses>>

-----------------------------------------------------------------------------
\* writeResult: the whole file at once, or not at all.
WriteResult(t, status) ==
  \/ file' = [file EXCEPT ![t] = status] /\ UNCHANGED <<stale, misses>>
  \/ Miss /\ stale' = stale \cup {t} /\ UNCHANGED file

\* onReceive of the command receiver, on the main thread: the framework takes
\* the message or not; only then is the file written and the thread.
Accept(t) ==
  /\ radio' = [radio EXCEPT ![t] = "accepted"]
  /\ WriteResult(t, "queued")
  /\ thread' \in {thread, thread \cup {t}}

OnCommand(t) ==
  /\ t \in pending /\ pending' = pending \ {t}
  /\ \/ /\ kind[t] = "blank"
        /\ UNCHANGED <<file, radio, thread, stale, misses>>
     \/ kind[t] # "blank" /\ Accept(t)
     \/ /\ kind[t] # "blank" /\ WriteResult(t, "error")
        /\ UNCHANGED <<radio, thread>>
  /\ UNCHANGED <<agentVars, told, msgClock, life, audit>>

\* The system drops a broadcast: the shim is stopped or has no permission.
Lost(t) ==
  /\ t \in pending /\ pending' = pending \ {t} /\ Miss
  /\ UNCHANGED <<agentVars, told, msgClock, life, audit, file, radio, thread, stale>>

\* onReceive of the result receiver, once for each of its two intents.
OnResult(t, kindOf, ok) ==
  /\ \/ kindOf = "sent" /\ radio[t] = "accepted"
        /\ radio' = [radio EXCEPT ![t] = IF ok THEN "sent" ELSE "error"]
     \/ kindOf = "delivered" /\ radio[t] = "sent"
        /\ radio' = [radio EXCEPT ![t] = IF ok THEN "delivered" ELSE "undelivered"]
  /\ WriteResult(t, IF ok THEN kindOf ELSE "error")
  /\ UNCHANGED <<agentVars, told, msgClock, life, audit, pending, thread>>

MsgNext ==
  \/ \E k \in TextKinds : Begin(k)
  \/ \E t \in Texts : Dispatch(t) \/ Look(t) \/ TimeOut(t) \/ OnCommand(t) \/ Lost(t)
  \/ \E t \in Texts, k \in {"sent", "delivered"}, ok \in BOOLEAN : OnResult(t, k, ok)
  \/ Restart \/ MsgTick

MsgSpec == MsgInit /\ [][MsgNext]_msgVars

-----------------------------------------------------------------------------
Sent == {t \in Texts : broadcast[t] # <<>>}

\* What one life of the agent lets out in any hour and any day stays within
\* the limits, whoever calls and however the calls overlap.
WithinQuota ==
  \A t \in Sent :
    LET before(w) == {u \in Sent : /\ broadcast[u][1] = broadcast[t][1] /\ Pool(kind[u]) = Pool(kind[t])
                                   /\ broadcast[u][2] \in (broadcast[t][2] - w)..broadcast[t][2]}
    IN Cardinality(before(Hour)) <= PerHour /\ Cardinality(before(Day)) <= PerDay

\* What the model is told is what the radio did. An error may hide a message
\* that was sent: its delivery failed before the next look at the file.
ToldTrue ==
  \A t \in Texts :
    /\ told[t] = "sent" => radio[t] \in {"sent", "delivered", "undelivered"}
    /\ told[t] = "failed" => radio[t] \in {"none", "error", "undelivered"}

\* No message reaches the radio without its line in the log, even if the agent
\* dies right then; a result that was written is never taken back.
CostsAudited ==
  \A t \in Texts :
    /\ radio[t] # "none" => <<t, "attempt">> \in audit /\ kind[t] = "plain"
    /\ radio[t] \notin {"none", "accepted"} /\ t \notin stale => file[t] # "queued"
    /\ Cardinality({e \in audit : e[1] = t}) <= 2

\* The texts and calls that leave the phone are accounted for: their number,
\* what is told of them, and their lines in the logs.
MessagesAccounted == WithinQuota /\ ToldTrue /\ CostsAudited
=============================================================================
