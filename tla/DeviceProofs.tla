---------------------------- MODULE DeviceProofs ----------------------------
(***************************************************************************)
(* What the agent shares with its device, for any number of calls, runs,   *)
(* lives of the app, faults and mishaps: the file bridge implements the    *)
(* contract of a request; one display serves any number of runs; the page  *)
(* and the overlay follow their users; the gardener keeps what was used;   *)
(* and the types of all of these.                                          *)
(***************************************************************************)
EXTENDS MCDevice, FiniteSetTheorems, SequenceTheorems, TLAPS

-----------------------------------------------------------------------------
(* The file bridge. The invariant says what the files stand for: an answer *)
(* of ok for work that was done, a file of input for an asker, an id in    *)
(* the queue for work not begun in this life, and an asset that is not     *)
(* whole for work begun twice (or for speech, which may be called done     *)
(* before it is).                                                          *)

RpcTypes ==
  /\ kind \in [Calls -> Kinds]
  /\ phase \in [Calls -> {"idle", "sent", "asked", "read", "told", "failed", "dead"}]
  /\ saw \in [Calls -> {"none", "ok", "err"}]
  /\ inJson \subseteq Calls /\ inStart \subseteq Calls
  /\ outJson \in [Calls -> {"none", "partial", "ok", "err"}]
  /\ outAsset \in [Calls -> {"none", "partial", "whole"}]
  /\ kept \in [Calls -> {"no", "partial", "whole"}]
  /\ up \in BOOLEAN /\ life \in Nat \ {0}
  /\ notices \subseteq Calls /\ processed \subseteq Calls /\ jobs \in Seq(Calls)
  /\ handling \in Calls \cup {NoCall}
  /\ serving \in {"take", "run", "json", "done", "clean"}
  /\ reply \in {"ok", "err"}
  /\ begun \in [Calls -> SUBSET Nat] /\ finished \subseteq Calls

\* The thread has a call exactly when it serves, and only in an app that lives.
Thread ==
  /\ handling = NoCall <=> serving = "take"
  /\ ~up => serving = "take" /\ jobs = <<>> /\ processed = {}

\* No input without an asker.
AskedFor == \A c \in inJson : phase[c] \in {"sent", "asked", "read", "dead"}

\* A queued call is queued once and not begun in this life; the map of ids
\* knows it, and all that were.
Queued ==
  /\ \A i \in 1..Len(jobs) : jobs[i] \in processed /\ life \notin begun[jobs[i]]
  /\ \A i, j \in 1..Len(jobs) : jobs[i] = jobs[j] => i = j
  /\ \A c \in Calls : life \in begun[c] => c \in processed \/ ~up
  /\ \A c \in Calls : begun[c] \subseteq 1..life
  /\ serving = "run" => life \in begun[handling]

Twice(c) == \E a, b \in begun[c] : a # b

\* What says ok, or was told so, was done.
OkMeansDone ==
  /\ reply = "ok" /\ serving \in {"json", "done", "clean"} => handling \in finished
  /\ \A c \in Calls : outJson[c] = "ok" \/ saw[c] = "ok" \/ phase[c] = "told" => c \in finished
  /\ \A c \in finished : begun[c] # {}

\* An asset that was whole is written again only by a second life.
AssetWhole ==
  /\ serving = "run" /\ handling \in finished => Twice(handling)
  /\ \A c \in finished :
       kind[c] \in {"record", "capture"} => outAsset[c] = "whole" \/ Twice(c)

RpcInv == RpcTypes /\ Thread /\ AskedFor /\ Queued /\ OkMeansDone /\ AssetWhole

CallSteps(c) ==
  Send(c) \/ Sentinel(c) \/ ReadAnswer(c) \/ GiveUpCall(c) \/ Return(c) \/ Keep(c) \/ OnStart(c)

-----------------------------------------------------------------------------
LEMMA NoCallIsNone == NoCall \notin Calls
BY RpcAssumption DEF NoCall

LEMMA HeadAndTail ==
  ASSUME RpcTypes, jobs # <<>>
  PROVE  /\ Len(jobs) \in Nat \ {0} /\ Head(jobs) \in Calls /\ Head(jobs) = jobs[1]
         /\ Tail(jobs) \in Seq(Calls) /\ Len(Tail(jobs)) = Len(jobs) - 1
         /\ \A i \in 1..Len(Tail(jobs)) : Tail(jobs)[i] = jobs[i + 1]
BY EmptySeq, HeadTailProperties DEF RpcTypes

LEMMA KindsOfEnds ==
  ASSUME RpcTypes, NEW c \in Calls, NEW end \in Outcomes(c)
  PROVE  /\ end.reply \in {"ok", "err"} /\ end.asset \in {"none", "partial", "whole"}
         /\ end.reply = "err" => end.asset = outAsset[c]
         /\ end.reply = "ok" /\ kind[c] \in {"record", "capture"} => end.asset = "whole"
BY DEF RpcTypes, Kinds, Outcomes, RecordEnds, CaptureEnds, TtsEnds, PlayEnds, QueryEnds, Errors, Written

\* AudioThrows with an error written in the answer's stead, or the app's end.
AudioAnswers ==
  /\ UNCHANGED <<phase, saw, kept, outAsset, reply, begun, finished>>
  /\ up /\ handling \in Calls /\ serving' = "clean"
  /\ outJson' = [outJson EXCEPT ![handling] = "err"] /\ serving \in {"json", "done"}
  /\ UNCHANGED <<inJson, inStart, handling, kind, up, life, notices, processed, jobs>>

AudioAppEnds ==
  /\ UNCHANGED <<phase, saw, kept, outAsset, reply, begun, finished>>
  /\ up' = FALSE /\ serving' = "take" /\ handling' = NoCall
  /\ notices' = {} /\ processed' = {} /\ jobs' = <<>>
  /\ inJson' = inJson \ {handling} /\ inStart' = inStart \ {handling}
  /\ UNCHANGED <<outJson, kind, life>> /\ up

LEMMA AudioWays == ASSUME RpcTypes, AudioThrows PROVE AudioAnswers \/ AudioAppEnds
BY DEF RpcTypes, AudioThrows, AudioAnswers, AudioAppEnds, callerVars, fileVarsIn, appVars

\* Every step keeps the types.
LEMMA RpcTypesStep == ASSUME RpcTypes, Thread, [RpcNext]_rpcVars PROVE RpcTypes'
<1> USE NoCallIsNone DEF RpcTypes, Thread, callerVars, fileVarsIn, fileVarsOut, threadVars, appVars
<1>1. ASSUME NEW c \in Calls, CallSteps(c) PROVE RpcTypes'
  <2>1. CASE Send(c)
    BY <2>1 DEF Send
  <2>2. CASE Sentinel(c)
    BY <2>2 DEF Sentinel
  <2>3. CASE ReadAnswer(c)
    BY <2>3 DEF ReadAnswer
  <2>4. CASE GiveUpCall(c)
    BY <2>4 DEF GiveUpCall, CleanUpFiles
  <2>5. CASE Return(c)
    BY <2>5 DEF Return, CleanUpFiles
  <2>6. CASE Keep(c)
    BY <2>6 DEF Keep
  <2>7. CASE OnStart(c)
    <3>1. jobs \in Seq(Calls) /\ Append(jobs, c) \in Seq(Calls)
      BY AppendProperties
    <3>2. QED
      BY <2>7, <3>1 DEF OnStart
  <2>8. QED
    BY <1>1, <2>1, <2>2, <2>3, <2>4, <2>5, <2>6, <2>7 DEF CallSteps
<1>2. CASE TakeCall
  <2>1. Head(jobs) \in Calls /\ Tail(jobs) \in Seq(Calls)
    BY <1>2, HeadAndTail DEF TakeCall
  <2>2. begun' \in [Calls -> SUBSET Nat]
    BY <1>2, <2>1 DEF TakeCall
  <2>3. QED
    BY <1>2, <2>1, <2>2 DEF TakeCall
<1>3. CASE WriteAsset
  BY <1>3 DEF WriteAsset
<1>4. CASE HandlerEnds
  BY <1>4, KindsOfEnds DEF HandlerEnds
<1>5. CASE OpenJson
  BY <1>5 DEF OpenJson
<1>6. CASE FillJson
  BY <1>6 DEF FillJson
<1>7. CASE WriteDone
  BY <1>7 DEF WriteDone
<1>8. CASE CleanInput
  BY <1>8 DEF CleanInput
<1>9. CASE WriteThrows
  BY <1>9 DEF WriteThrows, Fault
<1>10. CASE AudioThrows
  <2>1. CASE AudioAnswers
    BY <2>1 DEF AudioAnswers
  <2>2. CASE AudioAppEnds
    BY <2>2, EmptySeq DEF AudioAppEnds
  <2>3. QED
    BY <1>10, <2>1, <2>2, AudioWays
<1>11. CASE AppDies
  BY <1>11, EmptySeq DEF AppDies
<1>12. CASE AppStarts
  BY <1>12 DEF AppStarts
<1>13. CASE AgentDies
  BY <1>13 DEF AgentDies, Fault
<1>14. CASE UNCHANGED rpcVars
  BY <1>14 DEF rpcVars
<1>15. QED
  BY <1>1, <1>2, <1>3, <1>4, <1>5, <1>6, <1>7, <1>8, <1>9, <1>10, <1>11, <1>12, <1>13, <1>14
  DEF RpcNext, Dispatch, Caller, CallSteps

LEMMA ThreadStep == ASSUME RpcTypes, Thread, [RpcNext]_rpcVars PROVE Thread'
<1> USE NoCallIsNone DEF RpcTypes, Thread, callerVars, fileVarsIn, fileVarsOut, threadVars, appVars
<1>1. ASSUME NEW c \in Calls, CallSteps(c) PROVE Thread'
  <2>1. CASE Send(c)
    BY <2>1 DEF Send
  <2>2. CASE Sentinel(c)
    BY <2>2 DEF Sentinel
  <2>3. CASE ReadAnswer(c)
    BY <2>3 DEF ReadAnswer
  <2>4. CASE GiveUpCall(c)
    BY <2>4 DEF GiveUpCall, CleanUpFiles
  <2>5. CASE Return(c)
    BY <2>5 DEF Return, CleanUpFiles
  <2>6. CASE Keep(c)
    BY <2>6 DEF Keep
  <2>7. CASE OnStart(c)
    BY <2>7 DEF OnStart
  <2>8. QED
    BY <1>1, <2>1, <2>2, <2>3, <2>4, <2>5, <2>6, <2>7 DEF CallSteps
<1>2. CASE TakeCall
  BY <1>2, HeadAndTail DEF TakeCall
<1>3. CASE WriteAsset
  BY <1>3 DEF WriteAsset
<1>4. CASE HandlerEnds
  BY <1>4 DEF HandlerEnds
<1>5. CASE OpenJson
  BY <1>5 DEF OpenJson
<1>6. CASE FillJson
  BY <1>6 DEF FillJson
<1>7. CASE WriteDone
  BY <1>7 DEF WriteDone
<1>8. CASE CleanInput
  BY <1>8 DEF CleanInput
<1>9. CASE WriteThrows
  BY <1>9 DEF WriteThrows, Fault
<1>10. CASE AudioThrows
  <2>1. CASE AudioAnswers
    BY <2>1 DEF AudioAnswers
  <2>2. CASE AudioAppEnds
    BY <2>2 DEF AudioAppEnds
  <2>3. QED
    BY <1>10, <2>1, <2>2, AudioWays
<1>11. CASE AppDies
  BY <1>11 DEF AppDies
<1>12. CASE AppStarts
  BY <1>12 DEF AppStarts
<1>13. CASE AgentDies
  BY <1>13 DEF AgentDies, Fault
<1>14. CASE UNCHANGED rpcVars
  BY <1>14 DEF rpcVars
<1>15. QED
  BY <1>1, <1>2, <1>3, <1>4, <1>5, <1>6, <1>7, <1>8, <1>9, <1>10, <1>11, <1>12, <1>13, <1>14
  DEF RpcNext, Dispatch, Caller, CallSteps

LEMMA AskedForStep == ASSUME RpcTypes, Thread, AskedFor, [RpcNext]_rpcVars PROVE AskedFor'
<1> USE DEF RpcTypes, AskedFor, callerVars, fileVarsIn, fileVarsOut, threadVars, appVars
<1>1. ASSUME NEW c \in Calls, CallSteps(c) PROVE AskedFor'
  <2>1. CASE Send(c)
    BY <2>1 DEF Send
  <2>2. CASE Sentinel(c)
    BY <2>2 DEF Sentinel
  <2>3. CASE ReadAnswer(c)
    BY <2>3 DEF ReadAnswer
  <2>4. CASE GiveUpCall(c)
    BY <2>4 DEF GiveUpCall, CleanUpFiles
  <2>5. CASE Return(c)
    BY <2>5 DEF Return, CleanUpFiles
  <2>6. CASE Keep(c)
    BY <2>6 DEF Keep
  <2>7. CASE OnStart(c)
    BY <2>7 DEF OnStart
  <2>8. QED
    BY <1>1, <2>1, <2>2, <2>3, <2>4, <2>5, <2>6, <2>7 DEF CallSteps
<1>2. CASE TakeCall
  BY <1>2 DEF TakeCall
<1>3. CASE WriteAsset
  BY <1>3 DEF WriteAsset
<1>4. CASE HandlerEnds
  BY <1>4 DEF HandlerEnds
<1>5. CASE OpenJson
  BY <1>5 DEF OpenJson
<1>6. CASE FillJson
  BY <1>6 DEF FillJson
<1>7. CASE WriteDone
  BY <1>7 DEF WriteDone
<1>8. CASE CleanInput
  BY <1>8 DEF CleanInput
<1>9. CASE WriteThrows
  BY <1>9 DEF WriteThrows, Fault
<1>10. CASE AudioThrows
  <2>1. CASE AudioAnswers
    BY <2>1 DEF AudioAnswers
  <2>2. CASE AudioAppEnds
    BY <2>2 DEF AudioAppEnds
  <2>3. QED
    BY <1>10, <2>1, <2>2, AudioWays
<1>11. CASE AppDies
  BY <1>11 DEF AppDies
<1>12. CASE AppStarts
  BY <1>12 DEF AppStarts
<1>13. CASE AgentDies
  BY <1>13 DEF AgentDies, Fault
<1>14. CASE UNCHANGED rpcVars
  BY <1>14 DEF rpcVars
<1>15. QED
  BY <1>1, <1>2, <1>3, <1>4, <1>5, <1>6, <1>7, <1>8, <1>9, <1>10, <1>11, <1>12, <1>13, <1>14
  DEF RpcNext, Dispatch, Caller, CallSteps

LEMMA QueuedStep ==
  ASSUME RpcTypes, Thread, Queued, [RpcNext]_rpcVars PROVE Queued'
<1> USE NoCallIsNone DEF RpcTypes, Thread, Queued,
           callerVars, fileVarsIn, fileVarsOut, threadVars, appVars
<1>1. ASSUME NEW c \in Calls, CallSteps(c) PROVE Queued'
  <2>1. CASE Send(c)
    BY <2>1 DEF Send
  <2>2. CASE Sentinel(c)
    BY <2>2 DEF Sentinel
  <2>3. CASE ReadAnswer(c)
    BY <2>3 DEF ReadAnswer
  <2>4. CASE GiveUpCall(c)
    BY <2>4 DEF GiveUpCall, CleanUpFiles
  <2>5. CASE Return(c)
    BY <2>5 DEF Return, CleanUpFiles
  <2>6. CASE Keep(c)
    BY <2>6 DEF Keep
  <2>7. CASE OnStart(c)
    <3>1. CASE c \in processed
      BY <3>1, <2>7 DEF OnStart
    <3>2. CASE c \notin processed
      <4>1. /\ Len(jobs) \in Nat /\ Len(jobs') = Len(jobs) + 1 /\ jobs'[Len(jobs) + 1] = c
            /\ \A i \in 1..Len(jobs) : jobs'[i] = jobs[i]
        <5>1. jobs \in Seq(Calls) /\ jobs' = Append(jobs, c)
          BY <3>2, <2>7 DEF OnStart
        <5>2. QED
          BY <5>1, AppendProperties, LenProperties
      <4>2. life \notin begun[c] /\ \A i \in 1..Len(jobs) : jobs[i] # c
        BY <3>2, <2>7 DEF OnStart
      <4>3. processed' = processed \cup {c} /\ UNCHANGED <<life, begun, serving, handling, up>>
        BY <3>2, <2>7 DEF OnStart
      <4>4. \A i \in 1..Len(jobs') : i \in 1..Len(jobs) \/ i = Len(jobs) + 1
        BY <4>1
      <4>5. QED
        BY <4>1, <4>2, <4>3, <4>4
    <3>3. QED
      BY <3>1, <3>2
  <2>8. QED
    BY <1>1, <2>1, <2>2, <2>3, <2>4, <2>5, <2>6, <2>7 DEF CallSteps
<1>2. CASE TakeCall
  <2>1. /\ Len(jobs) \in Nat \ {0} /\ Head(jobs) = jobs[1] /\ Head(jobs) \in Calls
        /\ Len(jobs') = Len(jobs) - 1 /\ \A i \in 1..Len(jobs') : jobs'[i] = jobs[i + 1]
        /\ Head(jobs) \in processed
    BY <1>2, HeadAndTail DEF TakeCall
  <2>2. \A i \in 1..Len(jobs') : i + 1 \in 1..Len(jobs) /\ jobs'[i] # Head(jobs)
    BY <2>1
  <2>3. UNCHANGED <<processed, life, up>> /\ handling' = Head(jobs) /\ up
    BY <1>2 DEF TakeCall
  <2>4. /\ \A c \in Calls \ {Head(jobs)} : begun'[c] = begun[c]
        /\ begun'[Head(jobs)] \subseteq begun[Head(jobs)] \cup {life}
        /\ serving' = "run" => life \in begun'[Head(jobs)]
    <3>1. CASE Head(jobs) \in inJson
      <4>1. begun' = [begun EXCEPT ![Head(jobs)] = @ \cup {life}]
        BY <3>1, <1>2 DEF TakeCall
      <4>2. QED
        BY <4>1, <2>1
    <3>2. CASE Head(jobs) \notin inJson
      <4>1. begun' = begun /\ serving' = "json"
        BY <3>2, <1>2 DEF TakeCall
      <4>2. QED
        BY <4>1, <2>1
    <3>3. QED
      BY <3>1, <3>2
  <2>5. \A i \in 1..Len(jobs') : jobs'[i] \in Calls
    BY <2>1, <2>2, ElementOfSeq
  <2>6. \A i \in 1..Len(jobs') : jobs'[i] \in processed' /\ life' \notin begun'[jobs'[i]]
    <3> SUFFICES ASSUME NEW i \in 1..Len(jobs')
                 PROVE  jobs'[i] \in processed' /\ life' \notin begun'[jobs'[i]]
      OBVIOUS
    <3>1. jobs'[i] = jobs[i + 1] /\ i + 1 \in 1..Len(jobs)
      BY <2>1, <2>2
    <3>2. jobs[i + 1] \in processed /\ life \notin begun[jobs[i + 1]]
      BY <3>1
    <3>3. begun'[jobs'[i]] = begun[jobs[i + 1]]
      BY <3>1, <2>2, <2>4, <2>5
    <3>4. QED
      BY <3>1, <3>2, <3>3, <2>3
  <2>7. \A i, j \in 1..Len(jobs') : jobs'[i] = jobs'[j] => i = j
    <3> SUFFICES ASSUME NEW i \in 1..Len(jobs'), NEW j \in 1..Len(jobs'), jobs'[i] = jobs'[j]
                 PROVE  i = j
      OBVIOUS
    <3>1. i + 1 = j + 1
      BY <2>1, <2>2
    <3>2. QED
      BY <3>1
  <2>8. \A c \in Calls : /\ life' \in begun'[c] => c \in processed' \/ ~up'
                        /\ begun'[c] \subseteq 1..life'
    <3> SUFFICES ASSUME NEW c \in Calls
                 PROVE  /\ life' \in begun'[c] => c \in processed' \/ ~up'
                        /\ begun'[c] \subseteq 1..life'
      OBVIOUS
    <3>1. CASE c = Head(jobs)
      BY <3>1, <2>1, <2>3, <2>4
    <3>2. CASE c # Head(jobs)
      BY <3>2, <2>3, <2>4
    <3>3. QED
      BY <3>1, <3>2
  <2>9. QED
    BY <2>3, <2>4, <2>6, <2>7, <2>8
<1>3. CASE WriteAsset
  BY <1>3 DEF WriteAsset
<1>4. CASE HandlerEnds
  BY <1>4 DEF HandlerEnds
<1>5. CASE OpenJson
  BY <1>5 DEF OpenJson
<1>6. CASE FillJson
  BY <1>6 DEF FillJson
<1>7. CASE WriteDone
  BY <1>7 DEF WriteDone
<1>8. CASE CleanInput
  BY <1>8 DEF CleanInput
<1>9. CASE WriteThrows
  BY <1>9 DEF WriteThrows, Fault
<1>10. CASE AudioThrows
  <2>1. CASE AudioAnswers
    BY <2>1 DEF AudioAnswers
  <2>2. CASE AudioAppEnds
    BY <2>2 DEF AudioAppEnds
  <2>3. QED
    BY <1>10, <2>1, <2>2, AudioWays
<1>11. CASE AppDies
  BY <1>11 DEF AppDies
<1>12. CASE AppStarts
  BY <1>12 DEF AppStarts
<1>13. CASE AgentDies
  BY <1>13 DEF AgentDies, Fault
<1>14. CASE UNCHANGED rpcVars
  BY <1>14 DEF rpcVars
<1>15. QED
  BY <1>1, <1>2, <1>3, <1>4, <1>5, <1>6, <1>7, <1>8, <1>9, <1>10, <1>11, <1>12, <1>13, <1>14
  DEF RpcNext, Dispatch, Caller, CallSteps

LEMMA OkStep ==
  ASSUME RpcTypes, Thread, Queued, OkMeansDone, [RpcNext]_rpcVars PROVE OkMeansDone'
<1> USE NoCallIsNone DEF RpcTypes, Thread, OkMeansDone,
           callerVars, fileVarsIn, fileVarsOut, threadVars, appVars
<1>1. ASSUME NEW c \in Calls, CallSteps(c) PROVE OkMeansDone'
  <2>1. CASE Send(c)
    BY <2>1 DEF Send
  <2>2. CASE Sentinel(c)
    BY <2>2 DEF Sentinel
  <2>3. CASE ReadAnswer(c)
    BY <2>3 DEF ReadAnswer
  <2>4. CASE GiveUpCall(c)
    BY <2>4 DEF GiveUpCall, CleanUpFiles
  <2>5. CASE Return(c)
    BY <2>5 DEF Return, CleanUpFiles
  <2>6. CASE Keep(c)
    BY <2>6 DEF Keep
  <2>7. CASE OnStart(c)
    BY <2>7 DEF OnStart
  <2>8. QED
    BY <1>1, <2>1, <2>2, <2>3, <2>4, <2>5, <2>6, <2>7 DEF CallSteps
<1>2. CASE TakeCall
  <2>1. Head(jobs) \in Calls
    BY <1>2, HeadAndTail DEF TakeCall
  <2>2. CASE Head(jobs) \in inJson
    BY <2>1, <2>2, <1>2 DEF TakeCall
  <2>3. CASE Head(jobs) \notin inJson
    BY <2>1, <2>3, <1>2 DEF TakeCall
  <2>4. QED
    BY <2>2, <2>3
<1>3. CASE WriteAsset
  BY <1>3 DEF WriteAsset
<1>4. CASE HandlerEnds
  BY <1>4, KindsOfEnds DEF HandlerEnds, Queued
<1>5. CASE OpenJson
  BY <1>5 DEF OpenJson
<1>6. CASE FillJson
  BY <1>6 DEF FillJson
<1>7. CASE WriteDone
  BY <1>7 DEF WriteDone
<1>8. CASE CleanInput
  BY <1>8 DEF CleanInput
<1>9. CASE WriteThrows
  BY <1>9 DEF WriteThrows, Fault
<1>10. CASE AudioThrows
  <2>1. CASE AudioAnswers
    BY <2>1 DEF AudioAnswers
  <2>2. CASE AudioAppEnds
    BY <2>2 DEF AudioAppEnds
  <2>3. QED
    BY <1>10, <2>1, <2>2, AudioWays
<1>11. CASE AppDies
  BY <1>11 DEF AppDies
<1>12. CASE AppStarts
  BY <1>12 DEF AppStarts
<1>13. CASE AgentDies
  BY <1>13 DEF AgentDies, Fault
<1>14. CASE UNCHANGED rpcVars
  BY <1>14 DEF rpcVars
<1>15. QED
  BY <1>1, <1>2, <1>3, <1>4, <1>5, <1>6, <1>7, <1>8, <1>9, <1>10, <1>11, <1>12, <1>13, <1>14
  DEF RpcNext, Dispatch, Caller, CallSteps

LEMMA AssetStep ==
  ASSUME RpcTypes, Thread, Queued, OkMeansDone, AssetWhole, [RpcNext]_rpcVars PROVE AssetWhole'
<1> USE NoCallIsNone DEF RpcTypes, Thread, AssetWhole, Twice, Produces,
           callerVars, fileVarsIn, fileVarsOut, threadVars, appVars
<1>1. ASSUME NEW c \in Calls, CallSteps(c) PROVE AssetWhole'
  <2>1. CASE Send(c)
    BY <2>1 DEF Send
  <2>2. CASE Sentinel(c)
    BY <2>2 DEF Sentinel
  <2>3. CASE ReadAnswer(c)
    BY <2>3 DEF ReadAnswer
  <2>4. CASE GiveUpCall(c)
    BY <2>4 DEF GiveUpCall, CleanUpFiles
  <2>5. CASE Return(c)
    BY <2>5 DEF Return, CleanUpFiles
  <2>6. CASE Keep(c)
    BY <2>6 DEF Keep
  <2>7. CASE OnStart(c)
    BY <2>7 DEF OnStart
  <2>8. QED
    BY <1>1, <2>1, <2>2, <2>3, <2>4, <2>5, <2>6, <2>7 DEF CallSteps
<1>2. CASE TakeCall
  <2>1. Head(jobs) \in Calls /\ jobs[1] = Head(jobs) /\ 1 \in 1..Len(jobs)
    BY <1>2, HeadAndTail DEF TakeCall
  <2>2. life \notin begun[Head(jobs)]
    BY <2>1 DEF Queued
  <2>3. Head(jobs) \in finished => begun[Head(jobs)] # {}
    BY DEF OkMeansDone
  <2>4. CASE Head(jobs) \in inJson
    <3>1. begun' = [begun EXCEPT ![Head(jobs)] = @ \cup {life}]
      BY <2>4, <1>2 DEF TakeCall
    <3>2. \A c \in Calls : begun[c] \subseteq begun'[c]
      BY <3>1
    <3>3. Head(jobs) \in finished => \E a, b \in begun'[Head(jobs)] : a # b
      BY <3>1, <2>1, <2>2, <2>3
    <3>4. QED
      BY <3>2, <3>3, <1>2 DEF TakeCall
  <2>5. CASE Head(jobs) \notin inJson
    BY <2>5, <1>2 DEF TakeCall
  <2>6. QED
    BY <2>4, <2>5
<1>3. CASE WriteAsset
  BY <1>3 DEF WriteAsset
<1>4. CASE HandlerEnds
  BY <1>4, KindsOfEnds DEF HandlerEnds
<1>5. CASE OpenJson
  BY <1>5 DEF OpenJson
<1>6. CASE FillJson
  BY <1>6 DEF FillJson
<1>7. CASE WriteDone
  BY <1>7 DEF WriteDone
<1>8. CASE CleanInput
  BY <1>8 DEF CleanInput
<1>9. CASE WriteThrows
  BY <1>9 DEF WriteThrows, Fault
<1>10. CASE AudioThrows
  <2>1. CASE AudioAnswers
    BY <2>1 DEF AudioAnswers
  <2>2. CASE AudioAppEnds
    BY <2>2 DEF AudioAppEnds
  <2>3. QED
    BY <1>10, <2>1, <2>2, AudioWays
<1>11. CASE AppDies
  BY <1>11 DEF AppDies
<1>12. CASE AppStarts
  BY <1>12 DEF AppStarts
<1>13. CASE AgentDies
  BY <1>13 DEF AgentDies, Fault
<1>14. CASE UNCHANGED rpcVars
  BY <1>14 DEF rpcVars
<1>15. QED
  BY <1>1, <1>2, <1>3, <1>4, <1>5, <1>6, <1>7, <1>8, <1>9, <1>10, <1>11, <1>12, <1>13, <1>14
  DEF RpcNext, Dispatch, Caller, CallSteps

-----------------------------------------------------------------------------
\* Work begun in two lives was begun more than once.
LEMMA TwiceCounts ==
  ASSUME RpcTypes, Queued, NEW c \in Calls, Twice(c) PROVE Cardinality(begun[c]) > 1
<1>1. PICK a, b \in begun[c] : a # b
  BY DEF Twice
<1>2. IsFiniteSet(begun[c]) /\ Cardinality(begun[c]) \in Nat
  <2>1. begun[c] \in SUBSET (1..life) /\ IsFiniteSet(1..life)
    BY FS_Interval DEF RpcTypes, Queued
  <2>2. QED
    BY <2>1, FS_Subset, FS_CardinalityType
<1>3. IsFiniteSet({a}) /\ Cardinality({a}) = 1
  BY FS_Singleton
<1>4. Cardinality({a} \cup {b}) = 2
  BY <1>1, <1>3, FS_AddElement
<1>5. Cardinality({a} \cup {b}) <= Cardinality(begun[c])
  <2>1. {a} \cup {b} \in SUBSET begun[c]
    BY <1>1
  <2>2. QED
    BY <2>1, <1>2, FS_Subset
<1>6. QED
  BY <1>2, <1>4, <1>5

\* A copy that is not whole, in the terms of the contract.
LEMMA KeepsPart ==
  ASSUME NEW c \in Calls, RpcTypes, phase[c] = "told", kept[c] = "no",
         kept' = [kept EXCEPT ![c] = "partial"], kind[c] = "tts" \/ Contract!Repeated(c),
         UNCHANGED <<kind, phase, serving, handling, up, life, begun, finished>>
  PROVE  Contract!Keep(c)
<1> DEFINE Told == [b \in Calls |-> IF phase[b] = "sent" THEN "asked"
                                   ELSE IF phase[b] = "read" THEN "asked" ELSE phase[b]]
           Speech == {b \in Calls : kind[b] = "tts"}
<1>1. Told[c] = "told" /\ UNCHANGED Told
  OBVIOUS
<1>2. \/ kept' = [kept EXCEPT ![c] = "whole"]
      \/ kept' = [kept EXCEPT ![c] = "partial"] /\ (c \in Speech \/ Contract!Repeated(c))
  OBVIOUS
<1>3. UNCHANGED <<Speech, IF up THEN life ELSE life + 1>>
  OBVIOUS
<1>4. UNCHANGED (IF serving = "run" THEN {handling} ELSE {})
  OBVIOUS
<1>5. QED
  BY <1>1, <1>2, <1>3, <1>4 DEF Contract!Keep

RpcStep == [RpcNext]_rpcVars
ContractStep == [Contract!ContractNext]_(Contract!contractVars)

\* Every step of the files is one of the contract, or none.
LEMMA StepIsContracts == ASSUME RpcInv, RpcStep PROVE ContractStep
<1> USE NoCallIsNone DEF RpcInv, RpcTypes, callerVars, fileVarsIn, fileVarsOut, threadVars, appVars,
      ContractStep, Contract!contractVars, Contract!ContractNext
<1>1. ASSUME NEW c \in Calls, Send(c) PROVE ContractStep
  <2>1. Contract!Ask(c)
    BY <1>1 DEF Send, Contract!Ask
  <2>2. QED
    BY <2>1
<1>2. ASSUME NEW c \in Calls, Sentinel(c) PROVE ContractStep
  BY <1>2 DEF Sentinel
<1>3. ASSUME NEW c \in Calls, ReadAnswer(c) PROVE ContractStep
  BY <1>3 DEF ReadAnswer
<1>4. ASSUME NEW c \in Calls, GiveUpCall(c) PROVE ContractStep
  <2>1. Contract!Failed(c)
    BY <1>4 DEF GiveUpCall, CleanUpFiles, Contract!Failed
  <2>2. QED
    BY <2>1
<1>5. ASSUME NEW c \in Calls, Return(c) PROVE ContractStep
  <2>1. CASE phase'[c] = "told"
    <3>1. saw[c] = "ok"
      BY <1>5, <2>1 DEF Return
    <3>2. Contract!Told(c)
      BY <1>5, <2>1, <3>1 DEF Return, CleanUpFiles, OkMeansDone, Contract!Told
    <3>3. QED
      BY <3>2
  <2>2. CASE phase'[c] = "failed"
    <3>1. Contract!Failed(c)
      BY <1>5, <2>2 DEF Return, CleanUpFiles, Contract!Failed
    <3>2. QED
      BY <3>1
  <2>3. QED
    BY <1>5, <2>1, <2>2 DEF Return
<1>6. ASSUME NEW c \in Calls, Keep(c) PROVE ContractStep
  <2>1. phase[c] = "told" /\ kept[c] = "no" /\ c \in finished
    BY <1>6 DEF Keep, OkMeansDone
  <2>2. outAsset[c] \in {"partial", "whole"} /\ kept' = [kept EXCEPT ![c] = outAsset[c]]
    BY <1>6 DEF Keep
  <2>3. outAsset[c] = "partial" => kind[c] = "tts" \/ Cardinality(begun[c]) > 1
    BY <1>6, <2>1, TwiceCounts DEF Keep, AssetWhole, Produces
  <2>4. UNCHANGED <<kind, phase, serving, handling, up, life, begun, finished>>
    BY <1>6 DEF Keep
  <2>5. CASE outAsset[c] = "whole"
    <3>1. Contract!Keep(c)
      BY <2>1, <2>2, <2>4, <2>5 DEF Contract!Keep
    <3>2. QED
      BY <3>1
  <2>6. CASE outAsset[c] = "partial"
    <3>1. kind[c] = "tts" \/ Contract!Repeated(c)
      BY <2>3, <2>6 DEF Contract!Repeated, Contract!Cardinality, Cardinality
    <3>2. kept' = [kept EXCEPT ![c] = "partial"]
      BY <2>2, <2>6
    <3>3. Contract!Keep(c)
      BY <2>1, <2>4, <3>1, <3>2, KeepsPart
    <3>4. QED
      BY <3>3
  <2>7. QED
    BY <2>2, <2>5, <2>6
<1>7. ASSUME NEW c \in Calls, OnStart(c) PROVE ContractStep
  BY <1>7 DEF OnStart
<1>8. CASE TakeCall
  <2>1. Head(jobs) \in Calls /\ jobs[1] = Head(jobs) /\ 1 \in 1..Len(jobs) /\ up
    BY <1>8, HeadAndTail DEF TakeCall
  <2>2. serving = "take" /\ life \notin begun[Head(jobs)]
    BY <1>8, <2>1 DEF TakeCall, Thread, Queued
  <2>3. CASE Head(jobs) \in inJson
    <3>1. Contract!Work(Head(jobs))
      BY <1>8, <2>1, <2>2, <2>3 DEF TakeCall, AskedFor, Contract!Work
    <3>2. QED
      BY <3>1, <2>1
  <2>4. CASE Head(jobs) \notin inJson
    BY <1>8, <2>2, <2>4 DEF TakeCall
  <2>5. QED
    BY <2>3, <2>4
<1>9. CASE WriteAsset
  BY <1>9 DEF WriteAsset
<1>10. CASE HandlerEnds
  <2>1. Contract!WorkEnds(handling)
    BY <1>10 DEF HandlerEnds, Contract!WorkEnds
  <2>2. QED
    BY <2>1, <1>10 DEF HandlerEnds
<1>11. CASE OpenJson
  BY <1>11 DEF OpenJson
<1>12. CASE FillJson
  BY <1>12 DEF FillJson
<1>13. CASE WriteDone
  BY <1>13 DEF WriteDone
<1>14. CASE CleanInput
  BY <1>14 DEF CleanInput
<1>15. CASE WriteThrows
  BY <1>15 DEF WriteThrows
<1>16. CASE AudioThrows
  <2>1. CASE AudioAnswers
    BY <2>1 DEF AudioAnswers
  <2>2. CASE AudioAppEnds
    <3>1. Contract!BridgeRestarts
      BY <2>2 DEF AudioAppEnds, Contract!BridgeRestarts
    <3>2. QED
      BY <3>1
  <2>3. QED
    BY <1>16, <2>1, <2>2, AudioWays
<1>17. CASE AppDies
  <2>1. Contract!BridgeRestarts
    BY <1>17 DEF AppDies, Contract!BridgeRestarts
  <2>2. QED
    BY <2>1
<1>18. CASE AppStarts
  BY <1>18 DEF AppStarts
<1>19. CASE AgentDies
  <2>1. Contract!AskersDie
    BY <1>19 DEF AgentDies, Contract!AskersDie
  <2>2. QED
    BY <2>1
<1>20. CASE UNCHANGED rpcVars
  BY <1>20 DEF rpcVars
<1>21. QED
  BY <1>1, <1>2, <1>3, <1>4, <1>5, <1>6, <1>7, <1>8, <1>9, <1>10, <1>11, <1>12, <1>13, <1>14, <1>15,
     <1>16, <1>17, <1>18, <1>19, <1>20 DEF RpcStep, RpcNext, Dispatch, Caller

ContractKept ==
  Contract!ContractInit /\ [][Contract!ContractNext]_(Contract!contractVars)

LEMMA RpcInvInit == RpcInit => RpcInv
BY RpcAssumption, NoCallIsNone, EmptySeq
DEF RpcInit, RpcInv, RpcTypes, Thread, AskedFor, Queued, OkMeansDone, AssetWhole

LEMMA RpcInvStep == RpcInv /\ [RpcNext]_rpcVars => RpcInv'
BY RpcTypesStep, ThreadStep, AskedForStep, QueuedStep, OkStep, AssetStep DEF RpcInv

\* The files of bridge_client.rs and of the dispatchers keep the contract of a
\* request, but for its end: work is begun only for somebody who asks, once in
\* a life of the app, ok is said only of work that was done, and what is kept
\* of an answer is whole unless the work was done twice or is hasty.
THEOREM BridgeKeepsContract == RpcSpec => ContractKept
<1>1. RpcInit => Contract!ContractInit
  BY DEF RpcInit, Contract!ContractInit
<1>2. RpcInv /\ [RpcNext]_rpcVars => [Contract!ContractNext]_(Contract!contractVars)
  BY StepIsContracts DEF RpcStep, ContractStep
<1>3. QED
  BY <1>1, <1>2, RpcInvInit, RpcInvStep, PTL DEF RpcSpec, ContractKept

\* The bounds of the model, and the calls the answers are of.
RpcBounds ==
  /\ kind \in Plans /\ outDone \subseteq Calls
  /\ life <= MaxLives /\ (~up => life < MaxLives)
  /\ faults \in 0..MaxFaults

LEMMA RpcBoundsInit == RpcInit => RpcBounds
<1>1. MaxLives >= 1 /\ 0 \in 0..MaxFaults
  BY RpcAssumption
<1> QED
  BY <1>1 DEF RpcInit, RpcBounds

LEMMA FaultCounted == RpcBounds /\ Fault => faults' \in 0..MaxFaults
<1>1. MaxFaults \in Nat
  BY RpcAssumption
<1> QED
  BY <1>1 DEF RpcBounds, Fault

LEMMA RpcBoundsStep == ASSUME RpcTypes, RpcBounds, [RpcNext]_rpcVars PROVE RpcBounds'
<1> USE FaultCounted DEF RpcTypes, RpcBounds, callerVars, fileVarsIn, fileVarsOut, threadVars, appVars
<1>1. ASSUME NEW c \in Calls, CallSteps(c) PROVE RpcBounds'
  BY <1>1 DEF CallSteps, Send, Sentinel, ReadAnswer, GiveUpCall, CleanUpFiles, Return, Keep, OnStart
<1>2. CASE TakeCall \/ WriteAsset \/ HandlerEnds \/ OpenJson \/ FillJson \/ CleanInput
  BY <1>2 DEF TakeCall, WriteAsset, HandlerEnds, OpenJson, FillJson, CleanInput
<1>3. CASE WriteDone
  BY <1>3 DEF WriteDone
<1>4. CASE WriteThrows
  BY <1>4 DEF WriteThrows
<1>5. CASE AudioThrows
  BY <1>5 DEF AudioThrows
<1>6. CASE AppDies
  BY <1>6 DEF AppDies
<1>7. CASE AppStarts
  <2>1. life + 1 <= MaxLives
    BY <1>7, RpcAssumption DEF AppStarts
  <2> QED
    BY <1>7, <2>1 DEF AppStarts
<1>8. CASE AgentDies
  BY <1>8 DEF AgentDies
<1>9. CASE UNCHANGED rpcVars
  BY <1>9 DEF rpcVars
<1> QED
  BY <1>1, <1>2, <1>3, <1>4, <1>5, <1>6, <1>7, <1>8, <1>9 DEF RpcNext, Dispatch, Caller, CallSteps

\* The queue has each call once, so it is no longer than there are calls.
LEMMA QueueFits == ASSUME RpcTypes, Queued PROVE Len(jobs) <= Cardinality(Calls)
<1>1. jobs \in Seq(Calls) /\ Len(jobs) \in Nat /\ jobs \in [1..Len(jobs) -> Calls]
  BY LenProperties DEF RpcTypes
<1>2. \A i, j \in 1..Len(jobs) : jobs[i] = jobs[j] => i = j
  BY DEF Queued
<1>3. IsFiniteSet(Calls) /\ Cardinality(Calls) \in Nat
  BY RpcAssumption, FS_CardinalityType
<1>4. IsFiniteSet(1..Len(jobs)) /\ Cardinality(1..Len(jobs)) = Len(jobs)
  BY <1>1, FS_Interval
<1>5. ~(Cardinality(Calls) < Cardinality(1..Len(jobs)))
  BY <1>1, <1>2, <1>3, <1>4, FS_PigeonHole
<1> QED
  BY <1>1, <1>3, <1>4, <1>5

LEMMA RpcInvTypes == RpcInv /\ RpcBounds => RpcTypeOK
<1> SUFFICES ASSUME RpcInv, RpcBounds PROVE RpcTypeOK
  OBVIOUS
<1>1. life \in 1..MaxLives /\ 1..life \subseteq 1..MaxLives
  BY RpcAssumption DEF RpcInv, RpcTypes, RpcBounds
<1>2. begun \in [Calls -> SUBSET (1..MaxLives)]
  BY <1>1 DEF RpcInv, RpcTypes, Queued
<1> QED
  BY <1>1, <1>2, QueueFits DEF RpcInv, RpcTypes, RpcBounds, RpcTypeOK

-----------------------------------------------------------------------------
(* The display. A run that nothing came between is known, at each step, to *)
(* have the phone in one state; the finger, unless it is stuck, belongs to *)
(* a gesture under way; and whoever goes past the probe knows the size.    *)

ScreenTypes ==
  /\ secure \in BOOLEAN /\ pin \in BOOLEAN /\ awake \in BOOLEAN /\ probed \in BOOLEAN
  /\ scaled \in BOOLEAN /\ unprobed \in BOOLEAN /\ stuck \in BOOLEAN
  /\ keyguard \in {"up", "pad", "gone"} /\ pad \in Nat
  /\ finger \in Hands \cup {NoHand} /\ prober \in Hands \cup {NoHand}
  /\ tool \in [Hands -> {"touch", "unlock"}] /\ step \in [Hands -> Steps]
  /\ typed \subseteq Hands /\ met \subseteq Hands

\* What a swipe makes of a keyguard that is up.
Opened == IF secure THEN "pad" ELSE "gone"

\* The phone of a run that nothing came between.
Clean(h) ==
  /\ h \in typed => ~secure
  /\ step[h] \in {"wake", "swipe", "lift"} => keyguard \in {"up", Opened} /\ pad = 0
  /\ step[h] \in {"swipe", "lift", "digits", "enter"} => awake
  /\ step[h] = "lift" => finger = h
  /\ step[h] = "digits" => keyguard = Opened /\ pad = 0
  /\ step[h] = "enter" => keyguard = Opened /\ (secure => pad = 1)

Asleep    == ~awake => keyguard = "up" /\ pad = 0
AllClean  == \A h \in Hands \ met : Clean(h)
FingerHad == finger # NoHand /\ ~stuck => step[finger] \in {"lift", "touched"}
ProbedOnce ==
  /\ prober # NoHand => probed /\ step[prober] = "probing"
  /\ \A h \in Hands : step[h] = "probing" => prober = h
  /\ probed /\ prober = NoHand => scaled \/ unprobed
  /\ \A h \in Hands : step[h] \in {"gesture", "touched"} => scaled \/ unprobed

ScreenInv == ScreenTypes /\ Asleep /\ AllClean /\ FingerHad /\ ProbedOnce

HandSteps(h) ==
  \/ Call(h) \/ Look(h) \/ Wake(h) \/ SwipeDown(h) \/ SwipeUp(h) \/ Digits(h) \/ Enter(h)
  \/ Probe(h) \/ ProbeEnds(h) \/ TouchDown(h) \/ TouchUp(h) \/ Again(h) \/ Submit(h) \/ Focus(h)

-----------------------------------------------------------------------------
LEMMA NoHandIsNone == NoHand \notin Hands
BY ScreenAssumption DEF NoHand

\* Every step keeps the types.
LEMMA TypesStep == ASSUME ScreenTypes, [ScreenNext]_screenVars PROVE ScreenTypes'
<1> USE DEF ScreenTypes, Steps, GoTo, Woken, Meets, TypePin, PressEnter, Trouble,
          phone, touchTool, bounds
<1>1. ASSUME NEW h \in Hands, HandSteps(h) PROVE ScreenTypes'
  <2>1. CASE Call(h) BY <2>1 DEF Call
  <2>2. CASE Look(h) BY <2>2 DEF Look
  <2>3. CASE Wake(h)
    <3>1. step' \in [Hands -> Steps]
      BY <2>3 DEF Wake
    <3>2. met' \subseteq Hands /\ awake' \in BOOLEAN
      BY <2>3 DEF Wake
    <3>3. UNCHANGED <<secure, pin, probed, scaled, unprobed, stuck, keyguard, pad, finger, prober, tool, typed>>
      BY <2>3 DEF Wake
    <3> QED
      BY ONLY ScreenTypes, <3>1, <3>2, <3>3 DEF ScreenTypes
  <2>4. CASE SwipeDown(h) BY <2>4 DEF SwipeDown
  <2>5. CASE SwipeUp(h) BY <2>5, ZenonT(30) DEF SwipeUp
  <2>6. CASE Digits(h) BY <2>6 DEF Digits
  <2>7. CASE Enter(h) BY <2>7 DEF Enter
  <2>8. CASE Probe(h) BY <2>8, ZenonT(30) DEF Probe
  <2>9. CASE ProbeEnds(h) BY <2>9, ZenonT(30) DEF ProbeEnds
  <2>10. CASE TouchDown(h) BY <2>10 DEF TouchDown
  <2>11. CASE TouchUp(h) BY <2>11 DEF TouchUp
  <2>12. CASE Again(h) BY <2>12 DEF Again
  <2>13. CASE Submit(h) BY <2>13 DEF Submit
  <2>14. CASE Focus(h) BY <2>14 DEF Focus
  <2>15. QED BY <1>1, <2>1, <2>2, <2>3, <2>4, <2>5, <2>6, <2>7, <2>8, <2>9, <2>10, <2>11, <2>12,
                <2>13, <2>14 DEF HandSteps
<1>2. CASE UserOpens BY <1>2 DEF UserOpens, Disturbed
<1>3. CASE FallsAsleep BY <1>3 DEF FallsAsleep, Disturbed
<1>4. CASE SetLockPin BY <1>4 DEF SetLockPin, Disturbed
<1>5. CASE UNCHANGED screenVars BY <1>5 DEF screenVars
<1>6. QED BY <1>1, <1>2, <1>3, <1>4, <1>5 DEF ScreenNext, HandSteps

\* A phone asleep is locked, and nothing stands on its pad.
LEMMA AsleepStep ==
  ASSUME ScreenTypes, Asleep, [ScreenNext]_screenVars PROVE Asleep'
<1> USE DEF ScreenTypes, Asleep, GoTo, Woken, Meets, TypePin, PressEnter, Trouble,
          phone, touchTool, bounds
<1>1. ASSUME NEW g \in Hands, HandSteps(g) PROVE Asleep'
  <2>1. CASE Call(g) BY <2>1 DEF Call
  <2>2. CASE Look(g) BY <2>2 DEF Look
  <2>3. CASE Wake(g) BY <2>3 DEF Wake
  <2>4. CASE SwipeDown(g) BY <2>4 DEF SwipeDown
  <2>5. CASE SwipeUp(g) BY <2>5 DEF SwipeUp
  <2>6. CASE Digits(g) BY <2>6 DEF Digits
  <2>7. CASE Enter(g) BY <2>7 DEF Enter
  <2>8. CASE Probe(g) BY <2>8 DEF Probe
  <2>9. CASE ProbeEnds(g) BY <2>9 DEF ProbeEnds
  <2>10. CASE TouchDown(g) BY <2>10 DEF TouchDown
  <2>11. CASE TouchUp(g) BY <2>11 DEF TouchUp
  <2>12. CASE Again(g) BY <2>12 DEF Again
  <2>13. CASE Submit(g) BY <2>13 DEF Submit
  <2>14. CASE Focus(g) BY <2>14 DEF Focus
  <2>15. QED BY <1>1, <2>1, <2>2, <2>3, <2>4, <2>5, <2>6, <2>7, <2>8, <2>9, <2>10, <2>11, <2>12,
                <2>13, <2>14 DEF HandSteps
<1>2. CASE UserOpens BY <1>2 DEF UserOpens, Disturbed
<1>3. CASE FallsAsleep BY <1>3 DEF FallsAsleep, Disturbed
<1>4. CASE SetLockPin BY <1>4 DEF SetLockPin, Disturbed
<1>5. CASE UNCHANGED screenVars BY <1>5 DEF screenVars
<1>6. QED BY <1>1, <1>2, <1>3, <1>4, <1>5 DEF ScreenNext, HandSteps

\* The finger belongs to a gesture under way, or is stuck.
LEMMA FingerStep ==
  ASSUME ScreenTypes, FingerHad, [ScreenNext]_screenVars PROVE FingerHad'
<1> USE NoHandIsNone DEF ScreenTypes, FingerHad, Steps, GoTo, Woken, Meets, TypePin,
          PressEnter, Trouble, phone, touchTool, bounds
<1>1. ASSUME NEW g \in Hands, HandSteps(g) PROVE FingerHad'
  <2>1. CASE Call(g) BY <2>1 DEF Call
  <2>2. CASE Look(g) BY <2>2 DEF Look
  <2>3. CASE Wake(g) BY <2>3 DEF Wake
  <2>4. CASE SwipeDown(g) BY <2>4 DEF SwipeDown
  <2>5. CASE SwipeUp(g) BY <2>5 DEF SwipeUp
  <2>6. CASE Digits(g) BY <2>6 DEF Digits
  <2>7. CASE Enter(g) BY <2>7 DEF Enter
  <2>8. CASE Probe(g) BY <2>8 DEF Probe
  <2>9. CASE ProbeEnds(g) BY <2>9 DEF ProbeEnds
  <2>10. CASE TouchDown(g) BY <2>10 DEF TouchDown
  <2>11. CASE TouchUp(g) BY <2>11 DEF TouchUp
  <2>12. CASE Again(g) BY <2>12 DEF Again
  <2>13. CASE Submit(g) BY <2>13 DEF Submit
  <2>14. CASE Focus(g) BY <2>14 DEF Focus
  <2>15. QED BY <1>1, <2>1, <2>2, <2>3, <2>4, <2>5, <2>6, <2>7, <2>8, <2>9, <2>10, <2>11, <2>12,
                <2>13, <2>14 DEF HandSteps
<1>2. CASE UserOpens BY <1>2 DEF UserOpens, Disturbed
<1>3. CASE FallsAsleep BY <1>3 DEF FallsAsleep, Disturbed
<1>4. CASE SetLockPin BY <1>4 DEF SetLockPin, Disturbed
<1>5. CASE UNCHANGED screenVars BY <1>5 DEF screenVars
<1>6. QED BY <1>1, <1>2, <1>3, <1>4, <1>5 DEF ScreenNext, HandSteps

\* The size is asked once, and nobody passes who does not know it.
LEMMA ProbeStep ==
  ASSUME ScreenTypes, ProbedOnce, [ScreenNext]_screenVars PROVE ProbedOnce'
<1> USE NoHandIsNone DEF ScreenTypes, ProbedOnce, Steps, GoTo, Woken, Meets, TypePin,
          PressEnter, Trouble, phone, touchTool, bounds
<1>1. ASSUME NEW g \in Hands, HandSteps(g) PROVE ProbedOnce'
  <2>1. CASE Call(g) BY <2>1 DEF Call
  <2>2. CASE Look(g) BY <2>2 DEF Look
  <2>3. CASE Wake(g) BY <2>3 DEF Wake
  <2>4. CASE SwipeDown(g) BY <2>4 DEF SwipeDown
  <2>5. CASE SwipeUp(g) BY <2>5 DEF SwipeUp
  <2>6. CASE Digits(g) BY <2>6 DEF Digits
  <2>7. CASE Enter(g) BY <2>7 DEF Enter
  <2>8. CASE Probe(g) BY <2>8 DEF Probe
  <2>9. CASE ProbeEnds(g) BY <2>9 DEF ProbeEnds
  <2>10. CASE TouchDown(g) BY <2>10 DEF TouchDown
  <2>11. CASE TouchUp(g) BY <2>11 DEF TouchUp
  <2>12. CASE Again(g) BY <2>12 DEF Again
  <2>13. CASE Submit(g) BY <2>13 DEF Submit
  <2>14. CASE Focus(g) BY <2>14 DEF Focus
  <2>15. QED BY <1>1, <2>1, <2>2, <2>3, <2>4, <2>5, <2>6, <2>7, <2>8, <2>9, <2>10, <2>11, <2>12,
                <2>13, <2>14 DEF HandSteps
<1>2. CASE UserOpens BY <1>2 DEF UserOpens, Disturbed
<1>3. CASE FallsAsleep BY <1>3 DEF FallsAsleep, Disturbed
<1>4. CASE SetLockPin BY <1>4 DEF SetLockPin, Disturbed
<1>5. CASE UNCHANGED screenVars BY <1>5 DEF screenVars
<1>6. QED BY <1>1, <1>2, <1>3, <1>4, <1>5 DEF ScreenNext, HandSteps

\* A run that nothing comes between finds the phone as it left it.
LEMMA CleanStep ==
  ASSUME ScreenTypes, Asleep, AllClean, [ScreenNext]_screenVars PROVE AllClean'
<1> SUFFICES ASSUME NEW h \in Hands, h \notin met' PROVE Clean(h)'
  BY DEF AllClean
<1> USE NoHandIsNone DEF ScreenTypes, Asleep, AllClean, Clean, Opened, Steps, Waking,
          GoTo, Woken, Meets, TypePin, PressEnter, Trouble, phone, touchTool, bounds
<1>1. ASSUME NEW g \in Hands, HandSteps(g) PROVE Clean(h)'
  <2>1. CASE Call(g) BY <2>1 DEF Call
  <2>2. CASE Look(g) BY <2>2 DEF Look
  <2>3. CASE Wake(g) BY <2>3 DEF Wake
  <2>4. CASE SwipeDown(g) BY <2>4 DEF SwipeDown
  <2>5. CASE SwipeUp(g) BY <2>5 DEF SwipeUp
  <2>6. CASE Digits(g) BY <2>6 DEF Digits
  <2>7. CASE Enter(g) BY <2>7 DEF Enter
  <2>8. CASE Probe(g) BY <2>8 DEF Probe
  <2>9. CASE ProbeEnds(g) BY <2>9 DEF ProbeEnds
  <2>10. CASE TouchDown(g) BY <2>10 DEF TouchDown
  <2>11. CASE TouchUp(g) BY <2>11 DEF TouchUp
  <2>12. CASE Again(g) BY <2>12 DEF Again
  <2>13. CASE Submit(g) BY <2>13 DEF Submit
  <2>14. CASE Focus(g) BY <2>14 DEF Focus
  <2>15. QED BY <1>1, <2>1, <2>2, <2>3, <2>4, <2>5, <2>6, <2>7, <2>8, <2>9, <2>10, <2>11, <2>12,
                <2>13, <2>14 DEF HandSteps
<1>2. CASE UserOpens BY <1>2 DEF UserOpens, Disturbed
<1>3. CASE FallsAsleep BY <1>3 DEF FallsAsleep, Disturbed
<1>4. CASE SetLockPin BY <1>4 DEF SetLockPin, Disturbed
<1>5. CASE UNCHANGED screenVars BY <1>5 DEF screenVars
<1>6. QED BY <1>1, <1>2, <1>3, <1>4, <1>5 DEF ScreenNext, HandSteps

-----------------------------------------------------------------------------
LEMMA ScreenInvInit == ScreenInit => ScreenInv
<1> SUFFICES ASSUME ScreenInit PROVE ScreenInv
  OBVIOUS
<1>1. ScreenTypes
  BY DEF ScreenInit, ScreenTypes, Steps
<1>2. Asleep
  BY DEF ScreenInit, Asleep
<1>3. AllClean
  BY DEF ScreenInit, AllClean, Clean
<1>4. FingerHad /\ ProbedOnce
  BY DEF ScreenInit, FingerHad, ProbedOnce
<1>5. QED
  BY <1>1, <1>2, <1>3, <1>4 DEF ScreenInv

LEMMA ScreenInvStep == ScreenInv /\ [ScreenNext]_screenVars => ScreenInv'
BY TypesStep, AsleepStep, CleanStep, FingerStep, ProbeStep DEF ScreenInv

\* However many runs wake the phone and touch it: one that nothing came between
\* opens the phone and types its PIN into no app, and no gesture is made before
\* the size is known or leaves the finger on the glass (screen_state.rs,
\* touch.rs, input.rs).
THEOREM SharesDisplay == ScreenSpec => []DisplayShared
<1>1. ScreenInv => DisplayShared
  <2> SUFFICES ASSUME ScreenInv PROVE DisplayShared
    OBVIOUS
  <2>1. WakesCleanly
    BY DEF ScreenInv, ScreenTypes, AllClean, Clean, Opened, WakesCleanly
  <2>2. GesturesSound
    BY DEF ScreenInv, ScreenTypes, FingerHad, ProbedOnce, GesturesSound
  <2>3. QED
    BY <2>1, <2>2 DEF DisplayShared
<1>2. QED
  BY <1>1, ScreenInvInit, ScreenInvStep, PTL DEF ScreenSpec

-----------------------------------------------------------------------------
\* What the devices and the counts are, besides.
ScreenBounds ==
  device \in Hands \cup {NoHand} /\ uses \in 0..MaxUses /\ troublesome \in 0..MaxTouches

LEMMA TroubleCounted == ScreenBounds /\ Trouble => troublesome' \in 0..MaxTouches
<1>1. MaxTouches \in Nat
  BY ScreenAssumption
<1> QED
  BY <1>1 DEF ScreenBounds, Trouble

LEMMA ScreenBoundsStep == ASSUME ScreenBounds, [ScreenNext]_screenVars PROVE ScreenBounds'
<1> USE TroubleCounted DEF ScreenBounds, phone, touchTool, bounds
<1>1. ASSUME NEW h \in Hands, Call(h) PROVE ScreenBounds'
  <2>1. MaxUses \in Nat
    BY ScreenAssumption
  <2> QED
    BY <1>1, <2>1 DEF Call
<1>2. ASSUME NEW h \in Hands, HandSteps(h), ~Call(h) PROVE ScreenBounds'
  BY <1>2 DEF HandSteps, Look, Wake, SwipeDown, SwipeUp, Digits, Enter, Probe, ProbeEnds,
              TouchDown, TouchUp, Again, Submit, Focus
<1>3. CASE UserOpens \/ FallsAsleep \/ SetLockPin
  BY <1>3 DEF UserOpens, FallsAsleep, SetLockPin
<1>4. CASE UNCHANGED screenVars
  BY <1>4 DEF screenVars
<1> QED
  BY <1>1, <1>2, <1>3, <1>4 DEF ScreenNext, HandSteps

\* The runs that may type the PIN twice more, and those that may once more.
TwiceSteps == {"look", "wake", "swipe", "lift", "digits"}
OnceSteps  == {"enter", "again"}
MayTwice == {h \in Hands : step[h] \in TwiceSteps}
MayOnce  == {h \in Hands : step[h] \in OnceSteps}
PinsAt(s) == IF s \in TwiceSteps THEN 2 ELSE IF s \in OnceSteps THEN 1 ELSE 0
PinsLeft == 2 * Cardinality(MayTwice) + Cardinality(MayOnce)

\* A tool types the PIN twice at most.
PadFits ==
  /\ IsFiniteSet(MayTwice) /\ IsFiniteSet(MayOnce)
  /\ pad + PinsLeft <= 2 * uses

\* A step takes its run's chances to type away and gives it those of its end.
LEMMA PinsMove ==
  ASSUME ScreenTypes, PadFits, NEW h \in Hands, NEW to \in Steps, GoTo(h, to)
  PROVE  /\ IsFiniteSet(MayTwice)' /\ IsFiniteSet(MayOnce)'
         /\ PinsLeft \in Nat /\ PinsLeft' \in Nat
         /\ PinsLeft' + PinsAt(step[h]) = PinsLeft + PinsAt(to)
<1>1. step' = [step EXCEPT ![h] = to] /\ step \in [Hands -> Steps] /\ IsFiniteSet(MayTwice) /\ IsFiniteSet(MayOnce)
  BY DEF ScreenTypes, PadFits, GoTo
<1>2. /\ to \in TwiceSteps => MayTwice' = MayTwice \cup {h}
      /\ to \notin TwiceSteps => MayTwice' = MayTwice \ {h}
      /\ to \in OnceSteps => MayOnce' = MayOnce \cup {h}
      /\ to \notin OnceSteps => MayOnce' = MayOnce \ {h}
  BY <1>1 DEF MayTwice, MayOnce
<1>3. PICK a, b, c, d : /\ a = Cardinality(MayTwice) /\ b = Cardinality(MayOnce)
                        /\ c = Cardinality(MayTwice') /\ d = Cardinality(MayOnce')
  OBVIOUS
<1>4. IsFiniteSet(MayTwice') /\ IsFiniteSet(MayOnce')
  BY <1>1, <1>2, FS_AddElement, FS_RemoveElement
<1>5. a \in Nat /\ b \in Nat /\ c \in Nat /\ d \in Nat
  BY <1>1, <1>3, <1>4, FS_CardinalityType
<1>6. /\ h \in MayTwice <=> step[h] \in TwiceSteps
      /\ h \in MayOnce <=> step[h] \in OnceSteps
      /\ ~(step[h] \in TwiceSteps /\ step[h] \in OnceSteps)
      /\ ~(to \in TwiceSteps /\ to \in OnceSteps)
  BY DEF MayTwice, MayOnce, TwiceSteps, OnceSteps
<1>7. c = a + (IF to \in TwiceSteps THEN 1 ELSE 0) - (IF step[h] \in TwiceSteps THEN 1 ELSE 0)
  <2>1. /\ Cardinality(MayTwice \cup {h}) = IF h \in MayTwice THEN a ELSE a + 1
        /\ Cardinality(MayTwice \ {h}) = IF h \in MayTwice THEN a - 1 ELSE a
    BY <1>1, <1>3, FS_AddElement, FS_RemoveElement
  <2>2. c = IF to \in TwiceSteps THEN Cardinality(MayTwice \cup {h}) ELSE Cardinality(MayTwice \ {h})
    BY <1>2, <1>3
  <2> QED
    BY ONLY <2>1, <2>2, <1>5, <1>6
<1>8. d = b + (IF to \in OnceSteps THEN 1 ELSE 0) - (IF step[h] \in OnceSteps THEN 1 ELSE 0)
  BY <1>1, <1>2, <1>3, <1>5, <1>6, FS_AddElement, FS_RemoveElement
<1>9. PinsLeft = 2 * a + b /\ PinsLeft' = 2 * c + d
  BY <1>3 DEF PinsLeft
<1>10. 2 * c + d + PinsAt(step[h]) = 2 * a + b + PinsAt(to)
  BY <1>5, <1>6, <1>7, <1>8 DEF PinsAt
<1> QED
  BY <1>4, <1>5, <1>9, <1>10

\* What a step may add to the pad.
PinsPaid(h, to) ==
  /\ GoTo(h, to) /\ pad' \in Nat /\ uses' \in Nat
  /\ pad' + PinsAt(to) + 2 * uses <= pad + PinsAt(step[h]) + 2 * uses'

LEMMA PaidFits ==
  ASSUME ScreenTypes, ScreenBounds, PadFits, NEW h \in Hands, NEW to \in Steps, PinsPaid(h, to)
  PROVE  PadFits'
<1>1. PICK p, q, u, v, l, m : p = pad /\ q = pad' /\ u = uses /\ v = uses' /\ l = PinsLeft /\ m = PinsLeft'
  OBVIOUS
<1>2. PinsAt(to) \in Nat /\ PinsAt(step[h]) \in Nat
  BY DEF PinsAt
<1>3. /\ p \in Nat /\ q \in Nat /\ u \in Nat /\ v \in Nat /\ l \in Nat /\ m \in Nat
      /\ m + PinsAt(step[h]) = l + PinsAt(to)
      /\ q + PinsAt(to) + 2 * u <= p + PinsAt(step[h]) + 2 * v
      /\ p + l <= 2 * u
  BY <1>1, PinsMove DEF PinsPaid, ScreenTypes, ScreenBounds, PadFits
<1>4. q + m <= 2 * v
  BY ONLY <1>2, <1>3
<1> QED
  BY <1>1, <1>4, PinsMove DEF PinsPaid, PadFits

LEMMA PadFitsStep == ASSUME ScreenTypes, ScreenBounds, PadFits, [ScreenNext]_screenVars PROVE PadFits'
<1>0. pad \in Nat /\ uses \in Nat /\ step \in [Hands -> Steps] /\ \A h \in Hands : tool[h] \in {"touch", "unlock"}
  BY DEF ScreenTypes, ScreenBounds
<1>1. ASSUME NEW h \in Hands, HandSteps(h) PROVE \E to \in Steps : PinsPaid(h, to)
  <2> USE <1>0 DEF PinsPaid, PinsAt, TwiceSteps, OnceSteps, Steps, Woken, GoTo, phone, touchTool, bounds
  <2>1. CASE Call(h)
    BY <2>1 DEF Call
  <2>2. CASE Look(h)
    BY <2>2 DEF Look
  <2>3. CASE Wake(h)
    BY <2>3 DEF Wake
  <2>4. CASE SwipeDown(h)
    BY <2>4 DEF SwipeDown
  <2>5. CASE SwipeUp(h)
    BY <2>5 DEF SwipeUp
  <2>6. CASE Digits(h)
    BY <2>6 DEF Digits, TypePin
  <2>7. CASE Enter(h)
    <3>1. pad' \in Nat /\ pad' <= pad
      BY <2>7 DEF Enter, PressEnter
    <3>2. GoTo(h, "probe") \/ GoTo(h, "again")
      BY <2>7 DEF Enter
    <3>3. step[h] = "enter" /\ uses' = uses
      BY <2>7 DEF Enter
    <3>4. PinsAt(step[h]) = 1 /\ PinsAt("probe") = 0 /\ PinsAt("again") = 1
      BY <3>3
    <3>5. /\ pad' \in Nat /\ uses' \in Nat
          /\ pad' + 0 + 2 * uses <= pad + 1 + 2 * uses' /\ pad' + 1 + 2 * uses <= pad + 1 + 2 * uses'
      <4>1. PICK a, p, u : a = pad /\ p = pad' /\ u = uses
        OBVIOUS
      <4>2. a \in Nat /\ p \in Nat /\ p <= a /\ u \in Nat
        BY ONLY <1>0, <3>1, <4>1
      <4>3. p + 0 + 2 * u <= a + 1 + 2 * u /\ p + 1 + 2 * u <= a + 1 + 2 * u
        BY ONLY <4>2
      <4> QED
        BY ONLY <1>0, <3>1, <3>3, <4>1, <4>3
    <3>6. PinsPaid(h, "probe") \/ PinsPaid(h, "again")
      BY ONLY <3>2, <3>4, <3>5 DEF PinsPaid
    <3> QED
      BY <3>6 DEF Steps
  <2>8. CASE Probe(h)
    BY <2>8 DEF Probe
  <2>9. CASE ProbeEnds(h)
    BY <2>9 DEF ProbeEnds
  <2>10. CASE TouchDown(h)
    BY <2>10 DEF TouchDown
  <2>11. CASE TouchUp(h)
    BY <2>11 DEF TouchUp
  <2>12. CASE Again(h)
    BY <2>12 DEF Again, TypePin
  <2>13. CASE Submit(h)
    BY <2>13 DEF Submit, PressEnter
  <2>14. CASE Focus(h)
    BY <2>14 DEF Focus
  <2> QED
    BY <1>1, <2>1, <2>2, <2>3, <2>4, <2>5, <2>6, <2>7, <2>8, <2>9, <2>10, <2>11, <2>12, <2>13, <2>14
    DEF HandSteps
<1>2. CASE (UserOpens \/ FallsAsleep \/ SetLockPin \/ UNCHANGED screenVars)
  <2>1. UNCHANGED <<step, uses>> /\ (pad' = 0 \/ pad' = pad)
    BY <1>2 DEF UserOpens, FallsAsleep, SetLockPin, screenVars, phone, bounds
  <2>2. UNCHANGED <<MayTwice, MayOnce, PinsLeft>>
    BY <2>1 DEF MayTwice, MayOnce, PinsLeft
  <2>3. PinsLeft \in Nat
    BY FS_CardinalityType DEF PadFits, PinsLeft
  <2> QED
    BY <1>0, <2>1, <2>2, <2>3 DEF PadFits
<1> QED
  BY <1>1, <1>2, PaidFits DEF ScreenNext, HandSteps

LEMMA ScreenBoundsInit == ScreenInit => ScreenBounds /\ PadFits
<1> SUFFICES ASSUME ScreenInit PROVE ScreenBounds /\ PadFits
  OBVIOUS
<1>1. 0 \in 0..MaxUses /\ 0 \in 0..MaxTouches
  BY ScreenAssumption
<1>2. MayTwice = {} /\ MayOnce = {}
  BY DEF ScreenInit, MayTwice, MayOnce, TwiceSteps, OnceSteps
<1>3. PinsLeft = 0 /\ IsFiniteSet(MayTwice) /\ IsFiniteSet(MayOnce)
  BY <1>2, FS_EmptySet DEF PinsLeft
<1> QED
  BY <1>1, <1>3 DEF ScreenInit, ScreenBounds, PadFits

LEMMA ScreenInvTypes == ScreenTypes /\ ScreenBounds /\ PadFits => ScreenTypeOK
<1> SUFFICES ASSUME ScreenTypes, ScreenBounds, PadFits PROVE ScreenTypeOK
  OBVIOUS
<1>1. PinsLeft \in Nat
  BY FS_CardinalityType DEF PadFits, PinsLeft
<1>2. pad \in 0..MaxUses * 2
  BY <1>1, ScreenAssumption DEF ScreenTypes, ScreenBounds, PadFits
<1> QED
  BY <1>2 DEF ScreenTypes, ScreenBounds, ScreenTypeOK

-----------------------------------------------------------------------------
(* The chats. The runs, their sessions and what the store has of them are  *)
(* in order; a page whose user waited shows what belongs to its session,   *)
(* and the overlay continues the one session its runs have.                *)

Started(r) == r # NoRun => runs[r] # "none"

\* Runs are started in their order, and sessions are of runs that were.
InOrder ==
  /\ \A r, q \in Runs : q < r /\ runs[r] # "none" => runs[q] # "none"
  /\ \A r \in store \cup loads \cup shown \cup {active, sessionId, deleting} : Started(r)
  /\ \A r \in Runs :
       /\ Started(session[r]) /\ session[r] <= r
       /\ runs[r] = "none" => session[r] = NoRun
       /\ runs[r] = "running" => session[r] # NoRun

\* What is known of a run by where it is.
RunPlaces ==
  /\ \A r \in listens : sender[r] = "overlay" /\ runs[r] \in {"queued", "running"}
  /\ reading # NoRun => sender[reading] = "page" /\ runs[reading] \in {"queued", "running"}
  /\ \A r \in told : runs[r] = "ended" /\ session[r] # NoRun
  /\ \A s \in Runs : \A r \in rows[s] : session[r] = s /\ runs[r] \in {"running", "ended"}

\* The page sends one prompt at a time.
PageLast ==
  reading # NoRun => \A p \in Runs : p > reading /\ runs[p] # "none" => sender[p] = "overlay"

\* A page whose user waited: it reads or it loads, and shows what is of its
\* session.
PageWaits ==
  ~crossed =>
    /\ loads \subseteq {active}
    /\ reading # NoRun =>
         /\ loads = {}
         /\ session[reading] = active \/ (active = NoRun /\ session[reading] = reading)
    /\ \A r \in shown : r \in told \/ sender[r] = "overlay" => active # NoRun /\ session[r] = active
    /\ active # NoRun /\ loads = {} =>
         \A r \in rows[active] \cap told : sender[r] = "page" => r \in shown

\* An overlay that waited listens to one run, and all are of its session.
OverlayWaits ==
  /\ ~early =>
       /\ \A r, q \in listens : r = q
       /\ \A r \in told : sender[r] = "overlay" => session[r] = sessionId
       /\ sessionId # NoRun => \A r \in listens : session[r] = sessionId
  /\ pose = "Thinking" =>
       listens # {} \/ \E r \in Runs : sender[r] = "overlay" /\ runs[r] # "none" /\ r \notin told

ChatsInv == ChatsTypeOK /\ InOrder /\ RunPlaces /\ PageLast /\ PageWaits /\ OverlayWaits

\* The counts of mishaps and visits stay within their bounds.
LEMMA ChatsCounts ==
  ASSUME ChatsTypeOK
  PROVE  /\ Mishap => mishaps' \in 0..MaxMishapsOfChats
         /\ Visit => visits' \in 0..MaxVisits /\ cur' \in {"none", "here", "older"}
         /\ NoRun \notin Runs /\ \A r \in Runs : r \in Nat /\ r > NoRun
<1>1. Mishap => mishaps' \in 0..MaxMishapsOfChats
  <2>1. mishaps \in 0..MaxMishapsOfChats /\ MaxMishapsOfChats \in Nat
    BY ChatsAssumption DEF ChatsTypeOK
  <2> QED
    BY ONLY <2>1 DEF Mishap
<1>2. Visit => visits' \in 0..MaxVisits
  <2>1. visits \in 0..MaxVisits /\ MaxVisits \in Nat
    BY ChatsAssumption DEF ChatsTypeOK
  <2> QED
    BY ONLY <2>1 DEF Visit
<1>3. Visit => cur' \in {"none", "here", "older"}
  BY DEF Visit, ChatsTypeOK
<1>4. Runs \subseteq Nat \ {0}
  BY ChatsAssumption
<1> QED
  BY <1>1, <1>2, <1>3, <1>4 DEF NoRun

\* What the variables of the chats hold stays of its type.
LEMMA ChatsTypeStep ==
  ASSUME ChatsTypeOK, [ChatsNext]_chatVars PROVE ChatsTypeOK'
<1> USE DEF ChatsTypeOK
<1>1. CASE NewChat
  BY <1>1, ChatsCounts DEF NewChat, Waiting, Closed, PageText, PageElement, serverVars, pageVars, overlayVars
<1>2. CASE DeleteRow
  BY <1>2, ChatsCounts DEF DeleteRow, Waiting, Closed, PageText, PageElement, serverVars, pageVars, overlayVars
<1>3. ASSUME NEW s \in Runs, LoadSession(s) PROVE ChatsTypeOK'
  BY <1>3, ChatsCounts DEF LoadSession, Waiting, Closed, PageText, PageElement, serverVars, pageVars, overlayVars
<1>4. ASSUME NEW s \in Runs, Loaded(s) PROVE ChatsTypeOK'
  BY <1>4, ChatsCounts DEF Loaded, Waiting, Closed, PageText, PageElement, serverVars, pageVars, overlayVars
<1>5. ASSUME NEW s \in Runs, DeleteMessages(s) PROVE ChatsTypeOK'
  BY <1>5, ChatsCounts DEF DeleteMessages, Waiting, Closed, PageText, PageElement, serverVars, pageVars, overlayVars
<1>6. ASSUME NEW r \in Runs, PageSend(r) PROVE ChatsTypeOK'
  BY <1>6, ChatsCounts DEF PageSend, Waiting, Closed, PageText, PageElement, serverVars, pageVars, overlayVars
<1>7. ASSUME NEW r \in Runs, OverlaySend(r) PROVE ChatsTypeOK'
  BY <1>7, ChatsCounts DEF OverlaySend, Waiting, Closed, PageText, PageElement, serverVars, pageVars, overlayVars
<1>8. ASSUME NEW r \in Runs, Execute(r) PROVE ChatsTypeOK'
  BY <1>8, ChatsCounts DEF Execute, Waiting, Closed, PageText, PageElement, serverVars, pageVars, overlayVars
<1>9. ASSUME NEW r \in Runs, Text(r) PROVE ChatsTypeOK'
  BY <1>9, ChatsCounts DEF Text, Waiting, Closed, PageText, PageElement, serverVars, pageVars, overlayVars
<1>10. ASSUME NEW r \in Runs, ToolEvent(r) PROVE ChatsTypeOK'
  BY <1>10, ChatsCounts DEF ToolEvent, Waiting, Closed, PageText, PageElement, serverVars, pageVars, overlayVars
<1>11. ASSUME NEW r \in Runs, RunDone(r) PROVE ChatsTypeOK'
  BY <1>11, ChatsCounts DEF RunDone, Waiting, Closed, PageText, PageElement, serverVars, pageVars, overlayVars
<1>12. ASSUME NEW r \in Runs, RunFails(r) PROVE ChatsTypeOK'
  BY <1>12, ChatsCounts DEF RunFails, Waiting, Closed, PageText, PageElement, serverVars, pageVars, overlayVars
<1>13. ASSUME NEW r \in Runs, Broken(r) PROVE ChatsTypeOK'
  BY <1>13, ChatsCounts DEF Broken, Waiting, Closed, PageText, PageElement, serverVars, pageVars, overlayVars
<1>14. CASE UNCHANGED chatVars
  BY <1>14 DEF chatVars, serverVars, pageVars, overlayVars
<1>15. QED
  BY <1>1, <1>2, <1>3, <1>4, <1>5, <1>6, <1>7,
     <1>8, <1>9, <1>10, <1>11, <1>12, <1>13, <1>14 DEF ChatsNext

\* A run that was started stays so; its session is set when it is sent or begun.
LEMMA RunsGo ==
  ASSUME ChatsTypeOK, NEW r \in Runs, NEW to \in {"queued", "running", "ended"},
         runs' = [runs EXCEPT ![r] = to]
  PROVE  /\ runs'[r] = to /\ \A q \in Runs : q # r => runs'[q] = runs[q]
         /\ \A q \in Runs \cup {NoRun} : Started(q) => Started(q)'
  BY DEF ChatsTypeOK, Started

\* The order of the runs and of their sessions stays.
LEMMA InOrderStep ==
  ASSUME ChatsInv, [ChatsNext]_chatVars PROVE InOrder'
<1> USE DEF ChatsInv, ChatsTypeOK, InOrder
<1>1. CASE NewChat
  <2>1. UNCHANGED <<runs, session>> /\ store' \subseteq store
    BY <1>1 DEF NewChat, serverVars
  <2>2. \A q \in loads' \cup shown' \cup {active', sessionId', deleting'} : Started(q)
    BY <1>1 DEF NewChat, Visit, pageVars, overlayVars, serverVars, Started, NoRun
  <2> QED
    BY <2>1, <2>2 DEF Started
<1>2. CASE DeleteRow
  <2>1. UNCHANGED <<runs, session>> /\ store' \subseteq store
    BY <1>2 DEF DeleteRow, serverVars
  <2>2. \A q \in loads' \cup shown' \cup {active', sessionId', deleting'} : Started(q)
    BY <1>2 DEF DeleteRow, Visit, pageVars, overlayVars, serverVars, Started, NoRun
  <2> QED
    BY <2>1, <2>2 DEF Started
<1>3. ASSUME NEW s \in Runs, LoadSession(s) PROVE InOrder'
  <2>1. UNCHANGED <<runs, session>> /\ store' \subseteq store
    BY <1>3 DEF LoadSession, serverVars
  <2>2. \A q \in loads' \cup shown' \cup {active', sessionId', deleting'} : Started(q)
    BY <1>3 DEF LoadSession, Visit, pageVars, overlayVars, serverVars, Started, NoRun
  <2> QED
    BY <2>1, <2>2 DEF Started
<1>4. ASSUME NEW s \in Runs, Loaded(s) PROVE InOrder'
  <2>1. UNCHANGED <<runs, session, store, active, sessionId, deleting>> /\ loads' \subseteq loads
    BY <1>4 DEF Loaded, serverVars, overlayVars
  <2>2. \A q \in shown' : Started(q)
    BY <1>4 DEF Loaded, RunPlaces, Started
  <2> QED
    BY <2>1, <2>2 DEF Started
<1>5. ASSUME NEW s \in Runs, DeleteMessages(s) PROVE InOrder'
  <2>1. UNCHANGED <<runs, session>> /\ store' \subseteq store
    BY <1>5 DEF DeleteMessages, serverVars
  <2>2. \A q \in loads' \cup shown' \cup {active', sessionId', deleting'} : Started(q)
    BY <1>5 DEF DeleteMessages, Visit, pageVars, overlayVars, serverVars, Started, NoRun
  <2> QED
    BY <2>1, <2>2 DEF Started
<1>6. ASSUME NEW r \in Runs, PageSend(r) PROVE InOrder'
  <2>1. PICK to \in {"queued", "ended"} : runs' = [runs EXCEPT ![r] = to]
    BY <1>6 DEF PageSend
  <2>2. runs[r] = "none" /\ (\A q \in Runs : q < r => runs[q] # "none")
    BY <1>6 DEF PageSend, Fresh
  <2>3. PICK a \in Runs \cup {NoRun} : session' = [session EXCEPT ![r] = a] /\ Started(a)
    BY <1>6 DEF PageSend
  <2>4. a # NoRun => a < r
    <3> SUFFICES ASSUME a # NoRun PROVE a < r
      OBVIOUS
    <3>1. a \in Runs /\ runs[a] # "none" /\ a \in Nat /\ r \in Nat
      BY <2>3, ChatsCounts DEF Started
    <3>2. ~(r < a)
      BY <3>1, <2>2
    <3>3. a # r
      BY <3>1, <2>2
    <3> QED
      BY ONLY <3>1, <3>2, <3>3
  <2>5. a <= r
    <3>1. a \in Nat /\ r \in Nat /\ NoRun <= r
      BY <2>3, ChatsCounts DEF NoRun
    <3> QED
      BY <3>1, <2>4
  <2>6. /\ runs'[r] = to /\ \A q \in Runs : q # r => runs'[q] = runs[q] /\ session'[q] = session[q]
        /\ session'[r] = a
        /\ \A q \in Runs \cup {NoRun} : Started(q) => Started(q)'
    <3>1. session'[r] = a /\ \A q \in Runs : q # r => session'[q] = session[q]
      BY <2>3
    <3> QED
      BY <2>1, <3>1, RunsGo
  <2>7. store' = store /\ loads' = loads /\ active' = active /\ sessionId' = sessionId /\ deleting' = deleting
        /\ shown' \subseteq shown \cup {r} /\ Started(r)'
    BY <2>1, <2>6, <1>6 DEF PageSend, pageVars, overlayVars, Started
  <2>8. \A p, q \in Runs : q < p /\ runs'[p] # "none" => runs'[q] # "none"
    BY <2>1, <2>2, <2>6
  <2>9. \A p \in Runs : /\ Started(session[p])' /\ session'[p] <= p
                        /\ runs'[p] = "none" => session'[p] = NoRun
                        /\ runs'[p] = "running" => session'[p] # NoRun
    BY <2>1, <2>3, <2>5, <2>6
  <2>10. \A q \in store' \cup loads' \cup shown' \cup {active', sessionId', deleting'} : Started(q)'
    BY <2>6, <2>7
  <2> QED
    BY <2>8, <2>9, <2>10
<1>7. ASSUME NEW r \in Runs, OverlaySend(r) PROVE InOrder'
  <2>1. PICK to \in {"queued", "ended"} : runs' = [runs EXCEPT ![r] = to]
    BY <1>7 DEF OverlaySend
  <2>2. runs[r] = "none" /\ (\A q \in Runs : q < r => runs[q] # "none")
    BY <1>7 DEF OverlaySend, Fresh
  <2>3. PICK a \in Runs \cup {NoRun} : session' = [session EXCEPT ![r] = a] /\ Started(a)
    BY <1>7 DEF OverlaySend
  <2>4. a # NoRun => a < r
    <3> SUFFICES ASSUME a # NoRun PROVE a < r
      OBVIOUS
    <3>1. a \in Runs /\ runs[a] # "none" /\ a \in Nat /\ r \in Nat
      BY <2>3, ChatsCounts DEF Started
    <3>2. ~(r < a)
      BY <3>1, <2>2
    <3>3. a # r
      BY <3>1, <2>2
    <3> QED
      BY ONLY <3>1, <3>2, <3>3
  <2>5. a <= r
    <3>1. a \in Nat /\ r \in Nat /\ NoRun <= r
      BY <2>3, ChatsCounts DEF NoRun
    <3> QED
      BY <3>1, <2>4
  <2>6. /\ runs'[r] = to /\ \A q \in Runs : q # r => runs'[q] = runs[q] /\ session'[q] = session[q]
        /\ session'[r] = a
        /\ \A q \in Runs \cup {NoRun} : Started(q) => Started(q)'
    <3>1. session'[r] = a /\ \A q \in Runs : q # r => session'[q] = session[q]
      BY <2>3
    <3> QED
      BY <2>1, <3>1, RunsGo
  <2>7. store' = store /\ loads' = loads /\ active' = active /\ sessionId' = sessionId /\ deleting' = deleting
        /\ shown' \subseteq shown \cup {r} /\ Started(r)'
    BY <2>1, <2>6, <1>7 DEF OverlaySend, pageVars, overlayVars, Started
  <2>8. \A p, q \in Runs : q < p /\ runs'[p] # "none" => runs'[q] # "none"
    BY <2>1, <2>2, <2>6
  <2>9. \A p \in Runs : /\ Started(session[p])' /\ session'[p] <= p
                        /\ runs'[p] = "none" => session'[p] = NoRun
                        /\ runs'[p] = "running" => session'[p] # NoRun
    BY <2>1, <2>3, <2>5, <2>6
  <2>10. \A q \in store' \cup loads' \cup shown' \cup {active', sessionId', deleting'} : Started(q)'
    BY <2>6, <2>7
  <2> QED
    BY <2>8, <2>9, <2>10
<1>8. ASSUME NEW r \in Runs, Execute(r) PROVE InOrder'
  <2>1. PICK s \in Runs : s = IF session[r] = NoRun THEN r ELSE session[r]
    OBVIOUS
  <2>2. PICK to \in {"running", "ended"} : runs' = [runs EXCEPT ![r] = to]
    BY <1>8 DEF Execute, Closed
  <2>3. /\ runs'[r] = to /\ \A q \in Runs : q # r => runs'[q] = runs[q] /\ session'[q] = session[q]
        /\ session'[r] = s
        /\ \A q \in Runs \cup {NoRun} : Started(q) => Started(q)'
    <3>1. session'[r] = s /\ \A q \in Runs : q # r => session'[q] = session[q]
      BY <2>1, <1>8 DEF Execute
    <3>2. /\ runs'[r] = to /\ \A q \in Runs : q # r => runs'[q] = runs[q]
          /\ \A q \in Runs \cup {NoRun} : Started(q) => Started(q)'
      BY <2>2, RunsGo
    <3> QED
      BY ONLY <3>1, <3>2
  <2>4. store' \subseteq store \cup {s} /\ UNCHANGED <<loads, shown, active, sessionId, deleting>>
    BY <2>1, <1>8 DEF Execute
  <2>5. Started(s) /\ s <= r /\ s # NoRun /\ runs[r] # "none"
    BY <2>1, <1>8, ChatsCounts DEF Execute, Started
  <2> QED
    BY <2>2, <2>3, <2>4, <2>5
<1>9. ASSUME NEW r \in Runs, Text(r) PROVE InOrder'
  <2>1. UNCHANGED <<runs, session, store, loads, active, sessionId, deleting>>
    BY <1>9 DEF Text, serverVars, overlayVars
  <2>2. shown' \subseteq shown \cup {r} /\ Started(r)
    BY <1>9 DEF Text, PageText, Started
  <2> QED
    BY <2>1, <2>2 DEF Started
<1>10. ASSUME NEW r \in Runs, ToolEvent(r) PROVE InOrder'
  <2>1. runs' = [runs EXCEPT ![r] = "ended"] \/ runs' = runs
    BY <1>10 DEF ToolEvent, Closed
  <2>2. \A q \in Runs \cup {NoRun} : Started(q) => Started(q)'
    BY <2>1, RunsGo DEF Started
  <2>3. \A q \in Runs : runs'[q] \in {runs[q], "ended"} /\ (runs'[q] = "none" <=> runs[q] = "none")
    BY <2>1, <1>10, RunsGo DEF ToolEvent
  <2>4. UNCHANGED <<session, store, loads, deleting>> /\ shown' \subseteq shown \cup {r} /\ Started(r)
    BY <1>10 DEF ToolEvent, PageElement, Started
  <2>5. active' \in {active, session[r]} /\ sessionId' \in {sessionId, session[r]}
    BY <1>10 DEF ToolEvent
  <2> QED
    BY <2>2, <2>3, <2>4, <2>5
<1>11. ASSUME NEW r \in Runs, RunDone(r) PROVE InOrder'
  <2>1. runs' = [runs EXCEPT ![r] = "ended"] \/ runs' = runs
    BY <1>11 DEF RunDone, Closed
  <2>2. \A q \in Runs \cup {NoRun} : Started(q) => Started(q)'
    BY <2>1, RunsGo DEF Started
  <2>3. \A q \in Runs : runs'[q] \in {runs[q], "ended"} /\ (runs'[q] = "none" <=> runs[q] = "none")
    BY <2>1, <1>11, RunsGo DEF RunDone
  <2>4. UNCHANGED <<session, store, loads, deleting>> /\ shown' \subseteq shown \cup {r} /\ Started(r)
    BY <1>11 DEF RunDone, PageElement, Started
  <2>5. active' \in {active, session[r]} /\ sessionId' \in {sessionId, session[r]}
    BY <1>11 DEF RunDone
  <2> QED
    BY <2>2, <2>3, <2>4, <2>5
<1>12. ASSUME NEW r \in Runs, RunFails(r) PROVE InOrder'
  <2>1. runs' = [runs EXCEPT ![r] = "ended"] \/ runs' = runs
    BY <1>12 DEF RunFails, Closed
  <2>2. \A q \in Runs \cup {NoRun} : Started(q) => Started(q)'
    BY <2>1, RunsGo DEF Started
  <2>3. \A q \in Runs : runs'[q] \in {runs[q], "ended"} /\ (runs'[q] = "none" <=> runs[q] = "none")
    BY <2>1, <1>12, RunsGo DEF RunFails
  <2>4. UNCHANGED <<session, store, loads, deleting>> /\ shown' \subseteq shown \cup {r} /\ Started(r)
    BY <1>12 DEF RunFails, PageElement, Started
  <2>5. active' \in {active, session[r]} /\ sessionId' \in {sessionId, session[r]}
    BY <1>12 DEF RunFails
  <2> QED
    BY <2>2, <2>3, <2>4, <2>5
<1>13. ASSUME NEW r \in Runs, Broken(r) PROVE InOrder'
  <2>1. UNCHANGED <<runs, session, store, loads, active, sessionId, deleting>>
    BY <1>13 DEF Broken, serverVars, overlayVars
  <2>2. shown' \subseteq shown \cup {r} /\ Started(r)
    BY <1>13, ChatsCounts DEF Broken, Heard, Started, RunPlaces
  <2> QED
    BY <2>1, <2>2 DEF Started
<1>14. CASE UNCHANGED chatVars
  BY <1>14 DEF chatVars, Started, serverVars, pageVars, overlayVars
<1>15. QED
  BY <1>1, <1>2, <1>3, <1>4, <1>5, <1>6, <1>7,
     <1>8, <1>9, <1>10, <1>11, <1>12, <1>13, <1>14 DEF ChatsNext


\* What is known of a run by where it is stays true.
LEMMA RunPlacesStep ==
  ASSUME ChatsInv, [ChatsNext]_chatVars PROVE RunPlaces'
<1> USE DEF ChatsInv, ChatsTypeOK, InOrder, RunPlaces
<1>1. CASE NewChat
  BY <1>1 DEF NewChat, Visit, serverVars, pageVars, overlayVars
<1>2. CASE DeleteRow
  BY <1>2 DEF DeleteRow, Visit, serverVars, pageVars, overlayVars
<1>3. ASSUME NEW s \in Runs, LoadSession(s) PROVE RunPlaces'
  BY <1>3 DEF LoadSession, Visit, serverVars, pageVars, overlayVars
<1>4. ASSUME NEW s \in Runs, Loaded(s) PROVE RunPlaces'
  BY <1>4 DEF Loaded, Visit, serverVars, pageVars, overlayVars
<1>5. ASSUME NEW s \in Runs, DeleteMessages(s) PROVE RunPlaces'
  <2>1. UNCHANGED <<runs, sender, session, told, reading, listens>>
    BY <1>5 DEF DeleteMessages, overlayVars
  <2>2. \A q \in Runs : rows'[q] \subseteq rows[q]
    BY <1>5 DEF DeleteMessages
  <2> QED
    BY <2>1, <2>2
<1>6. ASSUME NEW r \in Runs, PageSend(r) PROVE RunPlaces'
  <2>1. runs[r] = "none" /\ r \notin told /\ r \notin listens /\ reading # r /\ \A s \in Runs : r \notin rows[s]
    BY <1>6, ChatsCounts DEF PageSend, Fresh
  <2>2. PICK to \in {"queued", "ended"} : runs' = [runs EXCEPT ![r] = to]
    BY <1>6 DEF PageSend
  <2>3. \A q \in Runs : q # r => UNCHANGED <<runs[q], session[q], sender[q]>>
    BY <2>2, <1>6 DEF PageSend
  <2>4. runs'[r] = to /\ sender'[r] = "page" /\ told' = told /\ rows' = rows
    BY <2>2, <1>6 DEF PageSend
  <2>5. /\ \A q \in listens' : sender'[q] = "overlay" /\ runs'[q] \in {"queued", "running"}
        /\ reading' # NoRun => sender'[reading'] = "page" /\ runs'[reading'] \in {"queued", "running"}
    BY <2>1, <2>2, <2>3, <2>4, ChatsCounts, <1>6 DEF PageSend, pageVars, overlayVars
  <2> QED
    BY <2>1, <2>3, <2>4, <2>5
<1>7. ASSUME NEW r \in Runs, OverlaySend(r) PROVE RunPlaces'
  <2>1. runs[r] = "none" /\ r \notin told /\ r \notin listens /\ reading # r /\ \A s \in Runs : r \notin rows[s]
    BY <1>7, ChatsCounts DEF OverlaySend, Fresh
  <2>2. PICK to \in {"queued", "ended"} : runs' = [runs EXCEPT ![r] = to]
    BY <1>7 DEF OverlaySend
  <2>3. \A q \in Runs : q # r => UNCHANGED <<runs[q], session[q], sender[q]>>
    BY <2>2, <1>7 DEF OverlaySend
  <2>4. runs'[r] = to /\ sender'[r] = "overlay" /\ told' = told /\ rows' = rows
    BY <2>2, <1>7 DEF OverlaySend
  <2>5. /\ \A q \in listens' : sender'[q] = "overlay" /\ runs'[q] \in {"queued", "running"}
        /\ reading' # NoRun => sender'[reading'] = "page" /\ runs'[reading'] \in {"queued", "running"}
    BY <2>1, <2>2, <2>3, <2>4, ChatsCounts, <1>7 DEF OverlaySend, pageVars, overlayVars
  <2> QED
    BY <2>1, <2>3, <2>4, <2>5
<1>8. ASSUME NEW r \in Runs, Execute(r) PROVE RunPlaces'
  <2>1. PICK s \in Runs : s = IF session[r] = NoRun THEN r ELSE session[r]
    OBVIOUS
  <2>2. PICK to \in {"running", "ended"} : runs' = [runs EXCEPT ![r] = to]
    BY <1>8 DEF Execute, Closed
  <2>3. runs[r] = "queued" /\ r \notin told /\ \A q \in Runs : r \notin rows[q]
    BY <1>8 DEF Execute
  <2>4. \A q \in Runs : q # r => UNCHANGED <<runs[q], session[q], sender[q]>>
    BY <2>2, <1>8 DEF Execute
  <2>5. runs'[r] = to /\ sender'[r] = sender[r] /\ session'[r] = s /\ told' = told
    BY <2>1, <2>2, <1>8 DEF Execute
  <2>6. \A q \in Runs : rows'[q] \subseteq rows[q] \cup (IF q = s THEN {r} ELSE {})
    BY <2>1, <1>8 DEF Execute
  <2>7. /\ listens' \subseteq listens /\ reading' \in {reading, NoRun}
        /\ to = "ended" => r \notin listens' /\ reading' # r
    BY <2>2, <2>5, ChatsCounts, <1>8 DEF Execute, Closed, NoRun
  <2>8. \A q \in listens' : sender'[q] = "overlay" /\ runs'[q] \in {"queued", "running"}
    BY <2>4, <2>5, <2>7
  <2>9. reading' # NoRun => sender'[reading'] = "page" /\ runs'[reading'] \in {"queued", "running"}
    BY <2>4, <2>5, <2>7
  <2>10. \A q \in told' : runs'[q] = "ended" /\ session'[q] # NoRun
    BY <2>3, <2>4, <2>5
  <2>11. \A p \in Runs : \A q \in rows'[p] : session'[q] = p /\ runs'[q] \in {"running", "ended"}
    BY <2>3, <2>4, <2>5, <2>6
  <2> QED
    BY <2>8, <2>9, <2>10, <2>11
<1>9. ASSUME NEW r \in Runs, Text(r) PROVE RunPlaces'
  <2>1. UNCHANGED <<runs, sender, session, told, rows, reading, listens>>
    BY <1>9 DEF Text, serverVars, overlayVars
  <2> QED
    BY <2>1
<1>10. ASSUME NEW r \in Runs, ToolEvent(r) PROVE RunPlaces'
  <2>1. runs[r] = "running" /\ r \notin told /\ session[r] \in Runs /\ UNCHANGED <<session, sender>>
    BY <1>10 DEF ToolEvent
  <2>2. \A q \in Runs : q # r => runs'[q] = runs[q]
    BY <1>10 DEF ToolEvent, Closed
  <2>3. \/ runs'[r] = "running" /\ UNCHANGED <<listens, reading>>
        \/ runs'[r] = "ended" /\ r \notin listens' /\ reading' # r
           /\ listens' \subseteq listens /\ reading' \in {reading, NoRun}
    BY ChatsCounts, <1>10 DEF ToolEvent, Closed, NoRun
  <2>4. told' \subseteq told \cup {r} /\ (r \in told' => runs'[r] = "ended")
    BY <2>1, <1>10 DEF ToolEvent, Closed
  <2>5. \A q \in Runs : rows'[q] \subseteq rows[q] \cup (IF q = session[r] THEN {r} ELSE {})
    BY <1>10 DEF ToolEvent
  <2>6. \A q \in listens' : sender'[q] = "overlay" /\ runs'[q] \in {"queued", "running"}
    BY <2>1, <2>2, <2>3
  <2>7. reading' # NoRun => sender'[reading'] = "page" /\ runs'[reading'] \in {"queued", "running"}
    BY <2>1, <2>2, <2>3
  <2>8. \A q \in told' : runs'[q] = "ended" /\ session'[q] # NoRun
    BY <2>1, <2>2, <2>4
  <2>9. \A p \in Runs : \A q \in rows'[p] : session'[q] = p /\ runs'[q] \in {"running", "ended"}
    BY <2>1, <2>2, <2>3, <2>5
  <2> QED
    BY <2>6, <2>7, <2>8, <2>9
<1>11. ASSUME NEW r \in Runs, RunDone(r) PROVE RunPlaces'
  <2>1. runs[r] = "running" /\ r \notin told /\ session[r] \in Runs /\ UNCHANGED <<session, sender>>
    BY <1>11 DEF RunDone
  <2>2. \A q \in Runs : q # r => runs'[q] = runs[q]
    BY <1>11 DEF RunDone, Closed
  <2>3. \/ runs'[r] = "running" /\ UNCHANGED <<listens, reading>>
        \/ runs'[r] = "ended" /\ r \notin listens' /\ reading' # r
           /\ listens' \subseteq listens /\ reading' \in {reading, NoRun}
    BY ChatsCounts, <1>11 DEF RunDone, Closed, NoRun
  <2>4. told' \subseteq told \cup {r} /\ (r \in told' => runs'[r] = "ended")
    BY <2>1, <1>11 DEF RunDone, Closed
  <2>5. \A q \in Runs : rows'[q] \subseteq rows[q] \cup (IF q = session[r] THEN {r} ELSE {})
    BY <1>11 DEF RunDone
  <2>6. \A q \in listens' : sender'[q] = "overlay" /\ runs'[q] \in {"queued", "running"}
    BY <2>1, <2>2, <2>3
  <2>7. reading' # NoRun => sender'[reading'] = "page" /\ runs'[reading'] \in {"queued", "running"}
    BY <2>1, <2>2, <2>3
  <2>8. \A q \in told' : runs'[q] = "ended" /\ session'[q] # NoRun
    BY <2>1, <2>2, <2>4
  <2>9. \A p \in Runs : \A q \in rows'[p] : session'[q] = p /\ runs'[q] \in {"running", "ended"}
    BY <2>1, <2>2, <2>3, <2>5
  <2> QED
    BY <2>6, <2>7, <2>8, <2>9
<1>12. ASSUME NEW r \in Runs, RunFails(r) PROVE RunPlaces'
  <2>1. runs[r] = "running" /\ r \notin told /\ session[r] \in Runs /\ UNCHANGED <<session, sender>>
    BY <1>12 DEF RunFails
  <2>2. \A q \in Runs : q # r => runs'[q] = runs[q]
    BY <1>12 DEF RunFails, Closed
  <2>3. \/ runs'[r] = "running" /\ UNCHANGED <<listens, reading>>
        \/ runs'[r] = "ended" /\ r \notin listens' /\ reading' # r
           /\ listens' \subseteq listens /\ reading' \in {reading, NoRun}
    BY ChatsCounts, <1>12 DEF RunFails, Closed, NoRun
  <2>4. told' \subseteq told \cup {r} /\ (r \in told' => runs'[r] = "ended")
    BY <2>1, <1>12 DEF RunFails, Closed
  <2>5. \A q \in Runs : rows'[q] \subseteq rows[q] \cup (IF q = session[r] THEN {r} ELSE {})
    BY <1>12 DEF RunFails
  <2>6. \A q \in listens' : sender'[q] = "overlay" /\ runs'[q] \in {"queued", "running"}
    BY <2>1, <2>2, <2>3
  <2>7. reading' # NoRun => sender'[reading'] = "page" /\ runs'[reading'] \in {"queued", "running"}
    BY <2>1, <2>2, <2>3
  <2>8. \A q \in told' : runs'[q] = "ended" /\ session'[q] # NoRun
    BY <2>1, <2>2, <2>4
  <2>9. \A p \in Runs : \A q \in rows'[p] : session'[q] = p /\ runs'[q] \in {"running", "ended"}
    BY <2>1, <2>2, <2>3, <2>5
  <2> QED
    BY <2>6, <2>7, <2>8, <2>9
<1>13. ASSUME NEW r \in Runs, Broken(r) PROVE RunPlaces'
  <2>1. UNCHANGED <<runs, sender, session, told, rows>> /\ listens' \subseteq listens /\ reading' \in {reading, NoRun}
    BY <1>13 DEF Broken, serverVars
  <2> QED
    BY <2>1
<1>14. CASE UNCHANGED chatVars
  BY <1>14 DEF chatVars, serverVars, pageVars, overlayVars
<1>15. QED
  BY <1>1, <1>2, <1>3, <1>4, <1>5, <1>6, <1>7,
     <1>8, <1>9, <1>10, <1>11, <1>12, <1>13, <1>14 DEF ChatsNext


\* The run the page reads stays the last one it sent.
LEMMA PageLastStep ==
  ASSUME ChatsInv, [ChatsNext]_chatVars PROVE PageLast'
<1> USE DEF ChatsInv, ChatsTypeOK, InOrder, RunPlaces, PageLast
<1>1. CASE NewChat
  <2>1. UNCHANGED <<runs, sender>> /\ reading' \in {reading, NoRun}
    BY <1>1 DEF NewChat, serverVars, overlayVars
  <2> QED
    BY <2>1
<1>2. CASE DeleteRow
  <2>1. UNCHANGED <<runs, sender>> /\ reading' \in {reading, NoRun}
    BY <1>2 DEF DeleteRow, serverVars, overlayVars
  <2> QED
    BY <2>1
<1>3. ASSUME NEW s \in Runs, LoadSession(s) PROVE PageLast'
  <2>1. UNCHANGED <<runs, sender>> /\ reading' \in {reading, NoRun}
    BY <1>3 DEF LoadSession, serverVars, overlayVars
  <2> QED
    BY <2>1
<1>4. ASSUME NEW s \in Runs, Loaded(s) PROVE PageLast'
  <2>1. UNCHANGED <<runs, sender>> /\ reading' \in {reading, NoRun}
    BY <1>4 DEF Loaded, serverVars, overlayVars
  <2> QED
    BY <2>1
<1>5. ASSUME NEW s \in Runs, DeleteMessages(s) PROVE PageLast'
  <2>1. UNCHANGED <<runs, sender>> /\ reading' \in {reading, NoRun}
    BY <1>5 DEF DeleteMessages, serverVars, overlayVars
  <2> QED
    BY <2>1
<1>6. ASSUME NEW r \in Runs, PageSend(r) PROVE PageLast'
  <2>1. reading' # NoRun => reading' = r
    BY <1>6 DEF PageSend
  <2>2. \A p \in Runs : p # r => runs'[p] = runs[p]
    BY <1>6 DEF PageSend
  <2>3. \A p \in Runs : p > r => runs[p] = "none"
    BY ChatsCounts, <1>6 DEF PageSend, Fresh
  <2> QED
    BY <2>1, <2>2, <2>3, ChatsCounts
<1>7. ASSUME NEW r \in Runs, OverlaySend(r) PROVE PageLast'
  <2>1. reading' = reading /\ sender'[r] = "overlay"
    BY <1>7 DEF OverlaySend, pageVars
  <2>2. \A p \in Runs : p # r => runs'[p] = runs[p] /\ sender'[p] = sender[p]
    BY <1>7 DEF OverlaySend
  <2> QED
    BY <2>1, <2>2
<1>8. ASSUME NEW r \in Runs, Execute(r) PROVE PageLast'
  <2>1. sender' = sender /\ reading' \in {reading, NoRun}
    BY <1>8 DEF Execute, Closed
  <2>2. \A q \in Runs : runs'[q] # "none" => runs[q] # "none"
    BY <1>8 DEF Execute, Closed
  <2> QED
    BY <2>1, <2>2
<1>9. ASSUME NEW r \in Runs, Text(r) PROVE PageLast'
  <2>1. UNCHANGED <<runs, sender>> /\ reading' \in {reading, NoRun}
    BY <1>9 DEF Text, serverVars, overlayVars
  <2> QED
    BY <2>1
<1>10. ASSUME NEW r \in Runs, ToolEvent(r) PROVE PageLast'
  <2>1. sender' = sender /\ reading' \in {reading, NoRun}
    BY <1>10 DEF ToolEvent, Closed
  <2>2. \A q \in Runs : runs'[q] # "none" => runs[q] # "none"
    BY <1>10 DEF ToolEvent, Closed
  <2> QED
    BY <2>1, <2>2
<1>11. ASSUME NEW r \in Runs, RunDone(r) PROVE PageLast'
  <2>1. sender' = sender /\ reading' \in {reading, NoRun}
    BY <1>11 DEF RunDone, Closed
  <2>2. \A q \in Runs : runs'[q] # "none" => runs[q] # "none"
    BY <1>11 DEF RunDone, Closed
  <2> QED
    BY <2>1, <2>2
<1>12. ASSUME NEW r \in Runs, RunFails(r) PROVE PageLast'
  <2>1. sender' = sender /\ reading' \in {reading, NoRun}
    BY <1>12 DEF RunFails, Closed
  <2>2. \A q \in Runs : runs'[q] # "none" => runs[q] # "none"
    BY <1>12 DEF RunFails, Closed
  <2> QED
    BY <2>1, <2>2
<1>13. ASSUME NEW r \in Runs, Broken(r) PROVE PageLast'
  <2>1. UNCHANGED <<runs, sender>> /\ reading' \in {reading, NoRun}
    BY <1>13 DEF Broken, serverVars, overlayVars
  <2> QED
    BY <2>1
<1>14. CASE UNCHANGED chatVars
  BY <1>14 DEF chatVars, serverVars, pageVars, overlayVars
<1>15. QED
  BY <1>1, <1>2, <1>3, <1>4, <1>5, <1>6, <1>7,
     <1>8, <1>9, <1>10, <1>11, <1>12, <1>13, <1>14 DEF ChatsNext


\* What a page shows whose user waited stays of its session.
LEMMA PageWaitsStep ==
  ASSUME ChatsInv, [ChatsNext]_chatVars PROVE PageWaits'
<1> USE DEF ChatsInv, ChatsTypeOK, InOrder, RunPlaces, PageLast, PageWaits
<1>1. CASE NewChat
  <2> SUFFICES ASSUME ~crossed' PROVE PageWaits'
    BY DEF PageWaits
  <2>1. UNCHANGED <<reading, session, sender, told>> /\ reading = NoRun /\ loads = {}
    BY <1>1 DEF NewChat, Waiting, serverVars
  <2> QED
    BY <2>1, <1>1 DEF NewChat
<1>2. CASE DeleteRow
  <2> SUFFICES ASSUME ~crossed' PROVE PageWaits'
    BY DEF PageWaits
  <2>1. UNCHANGED <<reading, session, sender, told>> /\ reading = NoRun /\ loads = {}
    BY <1>2 DEF DeleteRow, Waiting, serverVars
  <2>2. loads' = {} /\ rows' = rows /\ ~crossed
    BY <2>1, <1>2 DEF DeleteRow
  <2>3. UNCHANGED <<active, shown>> \/ (active' = NoRun /\ shown' = {})
    BY <1>2 DEF DeleteRow
  <2> QED
    BY <2>1, <2>2, <2>3
<1>3. ASSUME NEW s \in Runs, LoadSession(s) PROVE PageWaits'
  <2> SUFFICES ASSUME ~crossed' PROVE PageWaits'
    BY DEF PageWaits
  <2>1. UNCHANGED <<reading, session, sender, told>> /\ reading = NoRun /\ loads = {}
    BY <1>3 DEF LoadSession, Waiting, serverVars
  <2> QED
    BY <2>1, <1>3 DEF LoadSession
<1>4. ASSUME NEW s \in Runs, Loaded(s) PROVE PageWaits'
  <2> SUFFICES ASSUME ~crossed' PROVE PageWaits'
    BY DEF PageWaits
  <2>1. UNCHANGED <<reading, session, sender, told, active, rows>> /\ ~crossed
    BY <1>4 DEF Loaded, serverVars
  <2>2. s = active /\ loads' = {} /\ reading = NoRun /\ active # NoRun /\ shown' = rows[active]
    BY <2>1, ChatsCounts, <1>4 DEF Loaded
  <2> QED
    BY <2>1, <2>2
<1>5. ASSUME NEW s \in Runs, DeleteMessages(s) PROVE PageWaits'
  <2> SUFFICES ASSUME ~crossed' PROVE PageWaits'
    BY DEF PageWaits
  <2>1. UNCHANGED <<reading, session, sender, told>> /\ reading = NoRun /\ loads = {}
    BY <1>5 DEF DeleteMessages, Waiting, serverVars
  <2>2. UNCHANGED <<loads, active, shown>> /\ ~crossed /\ \A q \in Runs : rows'[q] \subseteq rows[q]
    BY <1>5 DEF DeleteMessages
  <2> QED
    BY <2>1, <2>2
<1>6. ASSUME NEW r \in Runs, PageSend(r) PROVE PageWaits'
  <2> SUFFICES ASSUME ~crossed' PROVE PageWaits'
    BY DEF PageWaits
  <2>1. UNCHANGED <<told, rows, active, loads>> /\ ~crossed /\ loads = {} /\ reading' \in {r, NoRun}
    BY <1>6 DEF PageSend
  <2>2. r \notin told /\ (\A s \in Runs : r \notin rows[s]) /\ shown' = shown \cup {r}
    BY <1>6 DEF PageSend, Fresh
  <2>3. session'[r] = active /\ sender'[r] = "page"
    BY <1>6 DEF PageSend
  <2>4. \A q \in Runs : q # r => session'[q] = session[q] /\ sender'[q] = sender[q]
    BY <1>6 DEF PageSend
  <2> QED
    BY <2>1, <2>2, <2>3, <2>4
<1>7. ASSUME NEW r \in Runs, OverlaySend(r) PROVE PageWaits'
  <2> SUFFICES ASSUME ~crossed' PROVE PageWaits'
    BY DEF PageWaits
  <2>1. UNCHANGED <<told, rows, active, loads, reading, shown>> /\ ~crossed
    BY <1>7 DEF OverlaySend, pageVars
  <2>2. r \notin told /\ r \notin shown /\ reading # r /\ \A s \in Runs : r \notin rows[s]
    BY ChatsCounts, <1>7 DEF OverlaySend, Fresh, Started
  <2>3. \A q \in Runs : q # r => session'[q] = session[q] /\ sender'[q] = sender[q]
    BY <1>7 DEF OverlaySend
  <2> QED
    BY <2>1, <2>2, <2>3
<1>8. ASSUME NEW r \in Runs, Execute(r) PROVE PageWaits'
  <2> SUFFICES ASSUME ~crossed' PROVE PageWaits'
    BY DEF PageWaits
  <2>1. UNCHANGED <<told, active, loads, shown, sender>> /\ ~crossed /\ reading' \in {reading, NoRun}
    BY <1>8 DEF Execute, Closed
  <2>2. \A q \in Runs : q # r => session'[q] = session[q]
    BY <1>8 DEF Execute
  <2>3. session[r] # NoRun => session'[r] = session[r]
    BY <1>8 DEF Execute
  <2>4. session[r] = NoRun => session'[r] = r
    BY <1>8 DEF Execute
  <2>5. r \notin told /\ \A s \in Runs : rows'[s] \subseteq rows[s] \cup {r}
    BY <1>8 DEF Execute
  <2>6. reading' # NoRun => session'[reading'] = active' \/ (active' = NoRun /\ session'[reading'] = reading')
    BY <2>1, <2>2, <2>3, <2>4
  <2> QED
    BY <2>1, <2>2, <2>3, <2>5, <2>6
<1>9. ASSUME NEW r \in Runs, Text(r) PROVE PageWaits'
  <2>1. UNCHANGED <<session, sender, told, rows, active, loads, crossed, reading>>
    BY <1>9 DEF Text, serverVars
  <2>2. sender[r] = "page" /\ r \notin told
    BY ChatsCounts, <1>9 DEF Text
  <2>3. shown' \in {shown, shown \cup {r}}
    BY <1>9 DEF Text, PageText
  <2> QED
    BY <2>1, <2>2, <2>3
<1>10. ASSUME NEW r \in Runs, ToolEvent(r) PROVE PageWaits'
  <2>1. UNCHANGED <<session, sender, told, active, loads, crossed>> /\ reading' \in {reading, NoRun}
    BY <1>10 DEF ToolEvent, Closed
  <2>2. r \notin told /\ \A s \in Runs : rows'[s] \subseteq rows[s] \cup {r}
    BY <1>10 DEF ToolEvent
  <2>3. shown' = shown \/ (shown' = shown \cup {r} /\ sender[r] = "page")
    BY ChatsCounts, <1>10 DEF ToolEvent, PageElement
  <2> QED
    BY <2>1, <2>2, <2>3
<1>11. ASSUME NEW r \in Runs, RunDone(r) PROVE PageWaits'
  <2> SUFFICES ASSUME ~crossed' PROVE PageWaits'
    BY DEF PageWaits
  <2>1. UNCHANGED <<session, sender, rows, loads, crossed>> /\ ~crossed /\ reading' \in {reading, NoRun}
    BY <1>11 DEF RunDone, Closed
  <2>2. runs[r] = "running" /\ session[r] # NoRun
    BY <1>11 DEF RunDone
  <2>3. CASE reading = r
    <3>1. r # NoRun /\ sender[r] = "page" /\ r \notin listens
      BY <2>3, ChatsCounts
    <3>2. active' = session[r] /\ shown' = shown \cup {r} /\ told' = told \cup {r} /\ reading' = NoRun
      BY <2>3, <3>1, <1>11 DEF RunDone, Closed, PageElement, Heard
    <3>3. loads = {} /\ (session[r] = active \/ (active = NoRun /\ session[r] = r))
      BY <2>1, <2>3, <3>1
    <3>4. CASE session[r] = active
      BY <2>1, <2>2, <3>1, <3>2, <3>3, <3>4
    <3>5. CASE active = NoRun /\ session[r] = r
      <4>1. \A q \in shown : q \notin told /\ sender[q] # "overlay"
        BY <2>1, <3>5
      <4>2. \A q \in rows[r] : sender[q] = "page" => q = r
        <5> SUFFICES ASSUME NEW q \in rows[r], sender[q] = "page", q # r PROVE FALSE
          OBVIOUS
        <5>1. q \in Runs /\ r <= q /\ runs[q] # "none"
          OBVIOUS
        <5>2. q > r
          <6>1. q \in Nat /\ r \in Nat /\ q # r
            BY <5>1, ChatsCounts
          <6> QED
            BY ONLY <5>1, <6>1
        <5> QED
          BY <2>3, <3>1, <5>1, <5>2
      <4> QED
        BY <2>1, <2>2, <3>1, <3>2, <3>3, <3>5, <4>1, <4>2
    <3> QED
      BY <3>3, <3>4, <3>5
  <2>4. CASE reading # r
    <3>1. UNCHANGED <<active, shown>>
      BY <2>4, <1>11 DEF RunDone
    <3>2. told' = told \/ (told' = told \cup {r} /\ sender[r] = "overlay")
      BY <2>4, <1>11 DEF RunDone, Heard
    <3> QED
      BY <2>1, <3>1, <3>2
  <2> QED
    BY <2>3, <2>4
<1>12. ASSUME NEW r \in Runs, RunFails(r) PROVE PageWaits'
  <2>1. UNCHANGED <<session, sender, told, rows, active, loads, crossed, shown>> /\ reading' \in {reading, NoRun}
    BY <1>12 DEF RunFails, Closed
  <2> QED
    BY <2>1
<1>13. ASSUME NEW r \in Runs, Broken(r) PROVE PageWaits'
  <2>1. UNCHANGED <<session, sender, told, rows, active, loads, crossed>> /\ reading' \in {reading, NoRun}
    BY <1>13 DEF Broken, serverVars
  <2>2. shown' = shown \/ (shown' = shown \cup {r} /\ sender[r] = "page" /\ r \notin told)
    BY ChatsCounts, <1>13 DEF Broken
  <2> QED
    BY <2>1, <2>2
<1>14. CASE UNCHANGED chatVars
  BY <1>14 DEF chatVars, serverVars, pageVars, overlayVars
<1>15. QED
  BY <1>1, <1>2, <1>3, <1>4, <1>5, <1>6, <1>7,
     <1>8, <1>9, <1>10, <1>11, <1>12, <1>13, <1>14 DEF ChatsNext


\* The one session of an overlay that waited.
LEMMA OverlayWaitsStep ==
  ASSUME ChatsInv, [ChatsNext]_chatVars PROVE OverlayWaits'
<1> USE DEF ChatsInv, ChatsTypeOK, InOrder, RunPlaces, OverlayWaits
<1>1. CASE NewChat
  <2>1. UNCHANGED <<runs, sender, session, told, sessionId, listens, pose, early>>
    BY <1>1 DEF NewChat, serverVars, overlayVars
  <2> QED
    BY <2>1
<1>2. CASE DeleteRow
  <2>1. UNCHANGED <<runs, sender, session, told, sessionId, listens, pose, early>>
    BY <1>2 DEF DeleteRow, serverVars, overlayVars
  <2> QED
    BY <2>1
<1>3. ASSUME NEW s \in Runs, LoadSession(s) PROVE OverlayWaits'
  <2>1. UNCHANGED <<runs, sender, session, told, sessionId, listens, pose, early>>
    BY <1>3 DEF LoadSession, serverVars, overlayVars
  <2> QED
    BY <2>1
<1>4. ASSUME NEW s \in Runs, Loaded(s) PROVE OverlayWaits'
  <2>1. UNCHANGED <<runs, sender, session, told, sessionId, listens, pose, early>>
    BY <1>4 DEF Loaded, serverVars, overlayVars
  <2> QED
    BY <2>1
<1>5. ASSUME NEW s \in Runs, DeleteMessages(s) PROVE OverlayWaits'
  <2>1. UNCHANGED <<runs, sender, session, told, sessionId, listens, pose, early>>
    BY <1>5 DEF DeleteMessages, serverVars, overlayVars
  <2> QED
    BY <2>1
<1>6. ASSUME NEW r \in Runs, PageSend(r) PROVE OverlayWaits'
  <2>1. UNCHANGED <<told, sessionId, listens, pose, early>>
    BY <1>6 DEF PageSend, overlayVars
  <2>2. r \notin told /\ r \notin listens /\ runs[r] = "none" /\ sender'[r] = "page"
    BY <1>6 DEF PageSend, Fresh
  <2>3. \A q \in Runs : q # r => sender'[q] = sender[q] /\ session'[q] = session[q] /\ runs'[q] = runs[q]
    BY <1>6 DEF PageSend
  <2> QED
    BY <2>1, <2>2, <2>3
<1>7. ASSUME NEW r \in Runs, OverlaySend(r) PROVE OverlayWaits'
  <2>1. UNCHANGED <<told, sessionId>> /\ listens' = listens \cup {r} /\ (~early' => listens = {} /\ ~early)
    BY <1>7 DEF OverlaySend
  <2>2. r \notin told /\ session'[r] = sessionId
    BY <1>7 DEF OverlaySend, Fresh
  <2>3. \A q \in Runs : q # r => sender'[q] = sender[q] /\ session'[q] = session[q]
    BY <1>7 DEF OverlaySend
  <2> QED
    BY <2>1, <2>2, <2>3
<1>8. ASSUME NEW r \in Runs, Execute(r) PROVE OverlayWaits'
  <2>1. UNCHANGED <<sender, told, sessionId, pose, early>> /\ listens' \in {listens, listens \ {r}}
    BY <1>8 DEF Execute, Closed
  <2>2. runs[r] # "none" /\ runs'[r] # "none" /\ r \notin told /\ \A q \in Runs : q # r => runs'[q] = runs[q]
    BY <1>8 DEF Execute, Closed
  <2>3. \A q \in Runs : session[q] # NoRun => session'[q] = session[q]
    BY <1>8 DEF Execute, Closed
  <2>4. r \in listens => sender[r] = "overlay"
    OBVIOUS
  <2>5. pose' = "Thinking" =>
          listens' # {} \/ (\E q \in Runs : sender'[q] = "overlay" /\ runs'[q] # "none" /\ q \notin told')
    BY <2>1, <2>2, <2>4
  <2> QED
    BY <2>1, <2>2, <2>3, <2>5
<1>9. ASSUME NEW r \in Runs, Text(r) PROVE OverlayWaits'
  <2>1. UNCHANGED <<runs, sender, session, told, sessionId, listens, pose, early>>
    BY <1>9 DEF Text, serverVars, overlayVars
  <2> QED
    BY <2>1
<1>10. ASSUME NEW r \in Runs, ToolEvent(r) PROVE OverlayWaits'
  <2>1. UNCHANGED <<sender, told, sessionId, pose, early>> /\ listens' \in {listens, listens \ {r}}
    BY <1>10 DEF ToolEvent, Closed
  <2>2. runs[r] # "none" /\ runs'[r] # "none" /\ r \notin told /\ \A q \in Runs : q # r => runs'[q] = runs[q]
    BY <1>10 DEF ToolEvent, Closed
  <2>3. \A q \in Runs : session[q] # NoRun => session'[q] = session[q]
    BY <1>10 DEF ToolEvent, Closed
  <2>4. r \in listens => sender[r] = "overlay"
    OBVIOUS
  <2>5. pose' = "Thinking" =>
          listens' # {} \/ (\E q \in Runs : sender'[q] = "overlay" /\ runs'[q] # "none" /\ q \notin told')
    BY <2>1, <2>2, <2>4
  <2> QED
    BY <2>1, <2>2, <2>3, <2>5
<1>11. ASSUME NEW r \in Runs, RunDone(r) PROVE OverlayWaits'
  <2>1. UNCHANGED <<sender, session, early>> /\ listens' = listens \ {r} /\ runs[r] = "running" /\ session[r] # NoRun
    BY <1>11 DEF RunDone, Closed
  <2>2. \A q \in Runs : runs[q] # "none" => runs'[q] # "none"
    BY <1>11 DEF RunDone, Closed
  <2>3. CASE r \notin listens
    <3>1. UNCHANGED <<sessionId, pose>> /\ (told' = told \/ (told' = told \cup {r} /\ sender[r] = "page"))
      <4>1. reading = r => sender[r] = "page"
        BY ChatsCounts
      <4> QED
        BY <2>3, <4>1, <1>11 DEF RunDone, Heard
    <3> QED
      BY <2>1, <2>2, <2>3, <3>1
  <2>4. CASE r \in listens /\ told' = told \cup {r} /\ sessionId' = session[r] /\ pose' = "Idle"
    <3>1. ASSUME ~early PROVE listens' = {} /\ \A q \in told : sender[q] = "overlay" => session[q] = session[r]
      BY <2>1, <2>4, <3>1
    <3> QED
      BY <2>1, <2>4, <3>1
  <2>5. CASE r \in listens /\ UNCHANGED <<told, sessionId, pose>>
    <3>1. sender[r] = "overlay" /\ r \notin told
      BY <2>1, <2>5
    <3> QED
      BY <2>1, <2>2, <2>5, <3>1
  <2> QED
    BY <2>3, <2>4, <2>5, <1>11 DEF RunDone, Heard
<1>12. ASSUME NEW r \in Runs, RunFails(r) PROVE OverlayWaits'
  <2>1. UNCHANGED <<sender, told, sessionId, pose, early>> /\ listens' \in {listens, listens \ {r}}
    BY <1>12 DEF RunFails, Closed
  <2>2. runs[r] # "none" /\ runs'[r] # "none" /\ r \notin told /\ \A q \in Runs : q # r => runs'[q] = runs[q]
    BY <1>12 DEF RunFails, Closed
  <2>3. \A q \in Runs : session[q] # NoRun => session'[q] = session[q]
    BY <1>12 DEF RunFails, Closed
  <2>4. r \in listens => sender[r] = "overlay"
    OBVIOUS
  <2>5. pose' = "Thinking" =>
          listens' # {} \/ (\E q \in Runs : sender'[q] = "overlay" /\ runs'[q] # "none" /\ q \notin told')
    BY <2>1, <2>2, <2>4
  <2> QED
    BY <2>1, <2>2, <2>3, <2>5
<1>13. ASSUME NEW r \in Runs, Broken(r) PROVE OverlayWaits'
  <2>1. UNCHANGED <<runs, sender, session, told, sessionId, early>>
    BY <1>13 DEF Broken, serverVars
  <2>2. listens' \subseteq listens /\ (UNCHANGED <<listens, pose>> \/ pose' = "Idle")
    BY <1>13 DEF Broken
  <2> QED
    BY <2>1, <2>2
<1>14. CASE UNCHANGED chatVars
  BY <1>14 DEF chatVars, serverVars, pageVars, overlayVars
<1>15. QED
  BY <1>1, <1>2, <1>3, <1>4, <1>5, <1>6, <1>7,
     <1>8, <1>9, <1>10, <1>11, <1>12, <1>13, <1>14 DEF ChatsNext

LEMMA ChatsInvInit == ChatsInit => ChatsInv
<1> SUFFICES ASSUME ChatsInit PROVE ChatsInv
  OBVIOUS
<1>1. ChatsTypeOK
  <2>1. MaxVisits \in Nat /\ MaxMishapsOfChats \in Nat
    BY ChatsAssumption
  <2>2. 0 \in 0..MaxVisits /\ 0 \in 0..MaxMishapsOfChats
    BY ONLY <2>1
  <2> QED
    BY <2>2 DEF ChatsInit, ChatsTypeOK
<1>2. InOrder
  BY ChatsCounts, <1>1 DEF ChatsInit, InOrder, Started, NoRun
<1>3. RunPlaces /\ PageLast /\ PageWaits /\ OverlayWaits
  BY DEF ChatsInit, RunPlaces, PageLast, PageWaits, OverlayWaits
<1> QED
  BY <1>1, <1>2, <1>3 DEF ChatsInv

LEMMA ChatsInvStep == ChatsInv /\ [ChatsNext]_chatVars => ChatsInv'
BY ChatsTypeStep, InOrderStep, RunPlacesStep, PageLastStep, PageWaitsStep, OverlayWaitsStep DEF ChatsInv

\* Both chats go on where the user left off: at rest the page shows what belongs
\* to the session its next prompt goes to, and the overlay's prompts are of one
\* session, as long as the user of each waited; whatever runs in between, and
\* whichever posts, streams and runs fail.
THEOREM ChatsFollowUser == ChatsSpec => []ChatsFollow
<1>1. ChatsInv => ChatsFollow
  <2> SUFFICES ASSUME ChatsInv PROVE ChatsFollow
    OBVIOUS
  <2>1. PageFollows
    BY DEF ChatsInv, ChatsTypeOK, PageWaits, PageFollows, Waiting
  <2>2. OverlayFollows
    BY DEF ChatsInv, OverlayWaits, OverlayFollows
  <2> QED
    BY <2>1, <2>2 DEF ChatsFollow
<1>2. QED
  BY <1>1, ChatsInvInit, ChatsInvStep, PTL DEF ChatsSpec

-----------------------------------------------------------------------------
(* The memories, and all of them together.                                 *)

\* A row that decays keeps its type: what is rounded down is no less than zero.
LEMMA ShareIsNat == ASSUME NEW i \in Nat PROVE (i * DecayFactor) \div 100 \in Nat
<1>1. DecayFactor \in Nat
  BY MemoriesAssumption
<1>2. PICK n : n = i * DecayFactor
  OBVIOUS
<1>3. n \in Nat
  BY <1>1, <1>2
<1>4. n \div 100 \in Nat
  BY ONLY <1>3
<1> QED
  BY <1>2, <1>4

LEMMA AgesAre == Oldest \in Nat /\ Never \in Nat /\ Never = Oldest + 1 /\ 0 \in 0..Oldest /\ 0 \in 0..Never
                 /\ Never \in 0..Never /\ \A a \in 0..Oldest : Older(a) \in 0..Oldest
<1>1. Oldest \in Nat
  BY MemoriesAssumption DEF Oldest
<1>2. \A a \in 0..Oldest : Older(a) \in 0..Oldest
  BY <1>1 DEF Older
<1> QED
  BY <1>1, <1>2 DEF Never

LEMMA RowDecays == ASSUME NEW row \in Rows
                   PROVE  /\ Decayed(row) \in Rows
                          /\ Decayed(row).category = row.category /\ Decayed(row).hits = row.hits
                          /\ Decayed(row).born = row.born
<1>1. (row.importance * DecayFactor) \div 100 \in Nat
  BY ShareIsNat DEF Rows
<1>2. PICK n \in Nat : n = (row.importance * DecayFactor) \div 100
  BY <1>1
<1> QED
  BY <1>2 DEF Rows, Decayed

LEMMA NoneIsNoRow == None \notin Rows
BY DEF None, Rows

\* What the gardener took, in the pass before, is what it may take.
MemoriesInv == MemoriesTypeOK /\ UsedKept

LEMMA SaveTyped ==
  ASSUME MemoriesTypeOK, NEW k \in Keys, NEW c \in Categories, NEW i \in Nat, Save(k, c, i)
  PROVE  memory' \in [Keys -> Rows \cup {None}]
<1> USE AgesAre, NoneIsNoRow DEF MemoriesTypeOK
<1>1. CASE k \in Stored
  <2>1. memory[k] \in Rows
    BY <1>1 DEF Stored
  <2>2. [memory[k] EXCEPT !.category = c, !.importance = i, !.touched = 0] \in Rows
    BY <2>1 DEF Rows
  <2> QED
    BY <1>1, <2>2 DEF Save
<1>2. CASE k \notin Stored
  <2>1. [stored |-> TRUE, category |-> c, importance |-> i,
         born |-> 0, touched |-> Never, hits |-> FALSE] \in Rows
    BY DEF Rows
  <2> QED
    BY <1>2, <2>1 DEF Save
<1> QED
  BY <1>1, <1>2

LEMMA MemoriesInvInit == MemoriesInit => MemoriesInv
BY DEF MemoriesInit, MemoriesInv, MemoriesTypeOK, UsedKept

LEMMA MemoriesInvStep == MemoriesInv /\ [MemoriesNext]_memVars => MemoriesInv'
<1> SUFFICES ASSUME MemoriesInv, [MemoriesNext]_memVars PROVE MemoriesInv'
  OBVIOUS
<1> USE AgesAre, NoneIsNoRow DEF MemoriesInv, MemoriesTypeOK, UsedKept
<1>1. CASE ToolSaves
  <2>1. \A c : FromStr(c) \in Categories
    BY DEF FromStr, Categories
  <2>2. memory' \in [Keys -> Rows \cup {None}]
    BY <1>1, <2>1, SaveTyped, MemoriesAssumption DEF ToolSaves
  <2> QED
    BY <1>1, <2>2 DEF ToolSaves
<1>2. CASE Search
  <2>1. \A k \in Stored : [memory[k] EXCEPT !.touched = 0, !.hits = TRUE] \in Rows
    BY DEF Stored, Rows
  <2>2. PICK found \in SUBSET Stored :
          memory' = [k \in Keys |-> IF k \in found THEN [memory[k] EXCEPT !.touched = 0, !.hits = TRUE]
                                    ELSE memory[k]]
    BY <1>2 DEF Search
  <2>3. memory' \in [Keys -> Rows \cup {None}]
    BY <2>1, <2>2
  <2> QED
    BY <1>2, <2>3 DEF Search
<1>3. CASE Delete
  BY <1>3 DEF Delete, Stored
<1>4. CASE Reflect
  <2>1. \A o \in DOMAIN OutcomeImportance : OutcomeImportance[o] \in Nat
    BY DEF OutcomeImportance
  <2>2. memory' \in [Keys -> Rows \cup {None}]
    BY <1>4, <2>1, SaveTyped DEF Reflect, Categories
  <2> QED
    BY <1>4, <2>2 DEF Reflect
<1>5. CASE GardenerPass
  <2>1. memory' \in [Keys -> Rows \cup {None}]
    BY <1>5, RowDecays DEF GardenerPass, Garden
  <2>2. ASSUME NEW k \in Stored, memory'[k] = None
        PROVE  memory[k] \in Rows /\ Prunable(Decayed(memory[k]))
    BY <1>5, <2>2, RowDecays DEF GardenerPass, Garden, Stored
  <2>3. ASSUME NEW f \in forgotten'
        PROVE  f.key \in Keys /\ f.row \in Rows /\ f = [key |-> f.key, row |-> f.row]
               /\ ~f.row.hits /\ f.row.category # "skill" /\ f.row.born > PruneAge
    <3>1. PICK k \in Stored : memory'[k] = None /\ f = [key |-> k, row |-> memory[k]]
      BY <1>5, <2>3 DEF GardenerPass
    <3>2. memory[k] \in Rows /\ Prunable(Decayed(memory[k]))
      BY <2>2, <3>1
    <3> QED
      BY <3>1, <3>2, RowDecays DEF Prunable, Stored
  <2>4. forgotten' \subseteq [key : Keys, row : Rows]
    BY <2>3
  <2> QED
    BY <1>5, <2>1, <2>3, <2>4 DEF GardenerPass
<1>6. CASE NextDay
  <2>1. ASSUME NEW k \in Keys, memory[k] # None
        PROVE  [memory[k] EXCEPT !.born = Older(@), !.touched = IF @ = Never THEN Never ELSE Older(@)] \in Rows
    <3>1. memory[k] \in Rows
      BY <2>1
    <3>2. memory[k].touched # Never => memory[k].touched \in 0..Oldest
      BY <3>1 DEF Rows
    <3>3. \A a \in 0..Oldest : Older(a) \in 0..Never
      OBVIOUS
    <3> QED
      BY <3>1, <3>2, <3>3 DEF Rows
  <2>2. memory' \in [Keys -> Rows \cup {None}]
    BY <1>6, <2>1 DEF NextDay
  <2> QED
    BY <1>6, <2>2 DEF NextDay
<1>7. CASE UNCHANGED memVars
  BY <1>7 DEF memVars
<1> QED
  BY <1>1, <1>2, <1>3, <1>4, <1>5, <1>6, <1>7 DEF MemoriesNext

-----------------------------------------------------------------------------
DeviceInv == /\ RpcInv /\ RpcBounds /\ MemoriesInv /\ ChatsInv
             /\ ScreenInv /\ ScreenBounds /\ PadFits

LEMMA DeviceInit == Init => DeviceInv
BY RpcInvInit, RpcBoundsInit, MemoriesInvInit, ChatsInvInit, ScreenInvInit, ScreenBoundsInit
DEF Init, DeviceInv

\* A step is of one exchange and leaves the others where they were.
LEMMA DeviceParts ==
  ASSUME [Next]_vars
  PROVE  [RpcNext]_rpcVars /\ [MemoriesNext]_memVars /\ [ChatsNext]_chatVars /\ [ScreenNext]_screenVars
<1>1. CASE Next
  BY <1>1 DEF Next
<1>2. CASE UNCHANGED vars
  BY <1>2 DEF vars
<1> QED
  BY <1>1, <1>2

LEMMA DeviceStep == DeviceInv /\ [Next]_vars => DeviceInv'
<1> SUFFICES ASSUME DeviceInv, [Next]_vars PROVE DeviceInv'
  OBVIOUS
<1>1. (RpcInv /\ RpcBounds)'
  BY DeviceParts, RpcInvStep, RpcBoundsStep DEF DeviceInv, RpcInv
<1>2. MemoriesInv' /\ ChatsInv'
  BY DeviceParts, MemoriesInvStep, ChatsInvStep DEF DeviceInv
<1>3. (ScreenInv /\ ScreenBounds /\ PadFits)'
  BY DeviceParts, ScreenInvStep, ScreenBoundsStep, PadFitsStep DEF DeviceInv, ScreenInv
<1> QED
  BY <1>1, <1>2, <1>3 DEF DeviceInv

LEMMA DeviceInvAlways == Spec => []DeviceInv
BY DeviceInit, DeviceStep, PTL DEF Spec

\* Whichever exchange it is: files, rows, sessions and the pad hold what they are
\* meant to. The queue of a dispatcher has each call once, and a run types the PIN
\* twice at most for each tool it calls.
THEOREM DeviceTypeCorrect == Spec => []TypeOK
<1>1. DeviceInv => TypeOK
  BY RpcInvTypes, ScreenInvTypes DEF DeviceInv, MemoriesInv, ChatsInv, ScreenInv, TypeOK
<1> QED
  BY <1>1, DeviceInvAlways, PTL

\* The gardener forgets no skill, nothing that a search ever found and nothing
\* young, whatever the limits in its configuration are (gardener.rs).
THEOREM GardenerKeepsUsed == Spec => []UsedKept
<1>1. DeviceInv => UsedKept
  BY DEF DeviceInv, MemoriesInv
<1> QED
  BY <1>1, DeviceInvAlways, PTL

\* Where the exchanges are checked together, the bridge still implements its
\* contract, runs share the display, and chats follow their users.
THEOREM DeviceStaysSafe == Spec => ContractKept /\ [](DisplayShared /\ ChatsFollow)
<1>1. Init => RpcInit /\ ScreenInit /\ ChatsInit
  BY DEF Init
<1>2. [Next]_vars => [RpcNext]_rpcVars /\ [ScreenNext]_screenVars /\ [ChatsNext]_chatVars
  BY DeviceParts
<1>3. Spec => RpcSpec /\ ScreenSpec /\ ChatsSpec
  BY <1>1, <1>2, PTL DEF Spec, RpcSpec, ScreenSpec, ChatsSpec
<1>4. RpcSpec => ContractKept
  BY BridgeKeepsContract
<1> QED
  BY <1>3, <1>4, SharesDisplay, ChatsFollowUser, PTL
=============================================================================
