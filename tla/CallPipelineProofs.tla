------------------------- MODULE CallPipelineProofs -------------------------
(***************************************************************************)
(* What holds of the call pipeline for any number of calls, recordings and *)
(* mishaps.  The argument has two halves: the files (FilesInv), from which *)
(* UploadedOnce, CollectableWhole and Accounted follow, and the line       *)
(* (LineInv), from which LineFollowed follows.                             *)
(***************************************************************************)
EXTENDS CallPipeline, TLAPS

-----------------------------------------------------------------------------
(* What a change of the line does to the recorder                           *)

LEMMA LineStates ==
  ASSUME NEW calls, NEW r
  PROVE  LineState(calls, r) \in {"RINGING", "OFFHOOK", "IDLE"}
  BY DEF LineState

\* Nothing but the history of what was heard changes.
Overheard(calls) ==
  /\ UNCHANGED <<serviceVars, fileVars, records, number, botched>>
  /\ heard' = heard \/ (recording # 0 /\ heard' = Hear(recording, calls))

\* The three things a broadcast may come to: a start, a stop, or neither.
LEMMA Commands ==
  ASSUME NEW n, NEW calls, NEW r, Receive(n, calls, r)
  PROVE  /\ lastState' = LineState(calls, r)
         /\ \/ /\ StartCommand(n, calls)
               /\ LineState(calls, r) = "OFFHOOK" /\ latched' = n
            \/ /\ StopCommand
               /\ LineState(calls, r) = "IDLE" /\ latched' = 0
            \/ /\ Overheard(calls)
               /\ \/ lastState = LineState(calls, r) /\ latched' = n
                  \/ LineState(calls, r) = "RINGING" /\ latched' \in {r, latched}
                  \/ LineState(calls, r) = "OFFHOOK" /\ latched' = n
                  \/ LineState(calls, r) = "IDLE" /\ latched' = 0 /\ lastState # "OFFHOOK"
<1> DEFINE s == LineState(calls, r)
<1>1. CASE s = lastState
  <2>1. /\ latched' = n /\ UNCHANGED lastState
        /\ UNCHANGED <<serviceVars, fileVars, records, number, botched>>
        /\ heard' = IF recording = 0 THEN heard ELSE Hear(recording, calls)
    BY <1>1, LineStates DEF Receive
  <2> QED BY <2>1, <1>1 DEF Overheard
<1>2. CASE s = "RINGING" /\ s # lastState
  <2>1. Ringing(r) BY <1>2 DEF Receive
  <2> QED BY <2>1, <1>2 DEF Ringing, NoCommand, Overheard
<1>3. CASE s = "OFFHOOK" /\ s # lastState
  <2>1. OffHook(n, calls) BY <1>3 DEF Receive
  <2> QED BY <2>1, <1>3 DEF OffHook, NoCommand, Overheard
<1>4. CASE s = "IDLE" /\ s # lastState
  <2>1. Idle BY <1>4 DEF Receive
  <2> QED BY <2>1, <1>4 DEF Idle, NoCommand, Overheard
<1> QED BY <1>1, <1>2, <1>3, <1>4, LineStates

\* Every action of the line is one of Line, for some calls and some latched number.
LEMMA LineSteps ==
  ASSUME CallsTypeOK, Ring \/ PickUp \/ RingsOut \/ Dial \/ HangUp
  PROVE  /\ placed' \in 0..MaxCalls /\ waited \subseteq waited'
         /\ waited' \subseteq CallIds
         /\ \E n \in CallIds \cup {0}, calls \in SUBSET CallIds, r \in CallIds \cup {0} :
              Line(n, calls, r)
<1> USE DEF CallsTypeOK, ShimTypeOK, CallIds
<1>1. CASE Ring
  <2>1. placed' \in 1..MaxCalls BY <1>1, RecordingAssumption DEF Ring
  <2>2. Line(latched, on, placed') BY <1>1 DEF Ring
  <2> QED BY <1>1, <2>1, <2>2 DEF Ring
<1>2. CASE PickUp BY <1>2 DEF PickUp
<1>3. CASE RingsOut BY <1>3 DEF RingsOut
<1>4. CASE Dial
  <2>1. placed' \in 1..MaxCalls BY <1>4, RecordingAssumption DEF Dial
  <2>2. PICK n \in {latched, placed'} : Line(n, {placed'}, 0) BY <1>4 DEF Dial
  <2> QED BY <1>4, <2>1, <2>2 DEF Dial
<1>5. CASE HangUp
  <2>1. PICK k \in on : Line(latched, on \ {k}, ring) BY <1>5 DEF HangUp
  <2> QED BY <1>5, <2>1 DEF HangUp
<1> QED BY <1>1, <1>2, <1>3, <1>4, <1>5

-----------------------------------------------------------------------------
(* Types                                                                   *)

\* What a command may do to the types of the service and its files.
CommandTypes ==
  /\ recording \in Records \cup {0} /\ current \in Records \cup {0}
  /\ ending \in {"no", "stopped", "described", "refused"}
  /\ records \in 0..MaxRecords
  /\ audio \in [Records -> {"none", "open", "whole", "empty"}]
  /\ json \in [Records -> {"none", "partial", "final", "failed"}]
  /\ done \subseteq Records /\ botched \subseteq Records
  /\ number \in [Records -> CallIds \cup {0}]
  /\ heard \in [Records -> SUBSET CallIds]

LEMMA StartTypes ==
  ASSUME CommandTypes, NEW n \in CallIds \cup {0}, NEW calls \in SUBSET CallIds,
         StartCommand(n, calls)
  PROVE  CommandTypes'
<1> USE RecordingAssumption DEF CommandTypes
<1>1. CASE recording # 0 /\ heard' = Hear(recording, calls)
           /\ UNCHANGED <<serviceVars, fileVars, records, number, botched>>
  BY <1>1 DEF Hear, serviceVars, fileVars
<1>2. CASE recording = 0
  <2>1. records' = records + 1 /\ records < MaxRecords /\ current' = records'
    BY <1>2 DEF StartCommand
  <2>2. records' \in Records /\ records' \in 0..MaxRecords
    BY <2>1 DEF Records
  <2>3. number' = [number EXCEPT ![records'] = n] /\ done' = done
    BY <1>2 DEF StartCommand
  <2>4. number' \in [Records -> CallIds \cup {0}]
    BY <2>2, <2>3
  <2>5. CASE /\ recording' = records' /\ ending' = "no"
             /\ audio' = [audio EXCEPT ![records'] = "open"]
             /\ json' = [json EXCEPT ![records'] = "partial"]
             /\ heard' = Hear(records', calls)
             /\ UNCHANGED botched
    <3>1. heard' \in [Records -> SUBSET CallIds] BY <2>2, <2>5 DEF Hear
    <3> QED BY <2>1, <2>2, <2>3, <2>4, <2>5, <3>1
  <2>6. CASE /\ recording' = 0 /\ ending' = "refused"
             /\ json' = [json EXCEPT ![records'] = "failed"]
             /\ UNCHANGED <<audio, heard, botched>>
    BY <2>1, <2>2, <2>3, <2>4, <2>6
  <2> QED BY <1>2, <2>5, <2>6 DEF StartCommand
<1> QED BY <1>1, <1>2 DEF StartCommand

LEMMA StopTypes ==
  ASSUME CommandTypes, StopCommand
  PROVE  CommandTypes'
  BY DEF CommandTypes, StopCommand

LEMMA LineTypes ==
  ASSUME ShimTypeOK, NEW n \in CallIds \cup {0}, NEW calls \in SUBSET CallIds,
         NEW r \in CallIds \cup {0}, Line(n, calls, r),
         placed' \in 0..MaxCalls, waited' \subseteq CallIds
  PROVE  ShimTypeOK'
<1>1. Receive(n, calls, r) BY DEF Line
<1>2. on' \subseteq CallIds /\ ring' \in CallIds \cup {0}
      /\ UNCHANGED <<marked, mishaps>>
  BY DEF Line
<1>3. lastState' \in {"RINGING", "OFFHOOK", "IDLE"} /\ latched' \in CallIds \cup {0}
  BY <1>1, Commands, LineStates DEF ShimTypeOK
<1>4. CommandTypes BY DEF ShimTypeOK, CommandTypes
<1>5. CommandTypes'
  <2>1. CASE StartCommand(n, calls) BY <1>4, <2>1, StartTypes
  <2>2. CASE StopCommand BY <1>4, <2>2, StopTypes
  <2>3. CASE Overheard(calls)
    BY <1>4, <2>3 DEF CommandTypes, Overheard, Hear, serviceVars, fileVars
  <2> QED BY <2>1, <2>2, <2>3, <1>1, Commands
<1> QED BY <1>2, <1>3, <1>5 DEF ShimTypeOK, CommandTypes

LEMMA ShimTypes ==
  ASSUME CallsTypeOK, Shim
  PROVE  CallsTypeOK'
<1>1. ShimTypeOK BY DEF CallsTypeOK
<1>2. UNCHANGED <<enabled, pipeVars, row, uploads, remembered, old, cut>>
      /\ ShimNext
  BY DEF Shim
<1>3. ShimTypeOK'
  <2>1. CASE Ring \/ PickUp \/ RingsOut \/ Dial \/ HangUp
    BY <1>1, <2>1, LineSteps, LineTypes
  <2>2. CASE Describe
    BY <1>1, <2>2, RecordingAssumption
    DEF Describe, Mishap, ShimTypeOK, lineVars, receiverVars
  <2>3. CASE MarkDone
    BY <1>1, <2>3 DEF MarkDone, ShimTypeOK, lineVars, receiverVars
  <2>4. CASE Destroy
    <3>1. CommandTypes BY <1>1 DEF ShimTypeOK, CommandTypes
    <3>2. CommandTypes' BY <2>4, <3>1, StopTypes DEF Destroy
    <3> QED BY <1>1, <2>4, <3>2
            DEF Destroy, ShimTypeOK, CommandTypes, lineVars, receiverVars
  <2>5. CASE ShimDies
    BY <1>1, <2>5, RecordingAssumption
    DEF ShimDies, Mishap, ShimTypeOK, lineVars, fileVars
  <2> QED BY <1>2, <2>1, <2>2, <2>3, <2>4, <2>5 DEF ShimNext
<1> QED BY <1>2, <1>3 DEF CallsTypeOK, pipeVars

\* What every step of the agent leaves alone: the line, the receiver, the service
\* and its notes.  Only the files, the rows and its own place change.
AgentFrame ==
  UNCHANGED <<lineVars, receiverVars, serviceVars, noteVars>>

LEMMA AgentFrames ==
  ASSUME Agent
  PROVE  AgentFrame
  BY DEF Agent, Pipeline, Poll, Take, Upload, Transcribe, Summarise, Remember,
         CleanUp, CleanedUp, EndTick, Sweep, DaysPass, Toggle, AgentCrash,
         AgentFrame, shimVars

\* Where the tick is in the middle of a call, it has one in hand.
AtHand == step \notin {"sleep", "next", "sweep"} => at \in Records

\* The types of what the agent does change.
AgentTypes ==
  /\ audio \in [Records -> {"none", "open", "whole", "empty"}]
  /\ json \in [Records -> {"none", "partial", "final", "failed"}]
  /\ done \subseteq Records /\ mishaps \in 0..MaxMishaps
  /\ enabled \in BOOLEAN /\ step \in Steps
  /\ todo \subseteq Records /\ at \in Records \cup {0}
  /\ row \in [Records -> {"none", "recorded", "transcribed", "summarised",
                          "skipped", "error"}]
  /\ uploads \in [Records -> Nat] /\ remembered \in [Records -> Nat]
  /\ old \subseteq Records /\ cut \subseteq Records

LEMMA AgentTypeStep ==
  ASSUME CallsTypeOK, AtHand, Agent
  PROVE  CallsTypeOK' /\ AtHand'
<1>1. AgentTypes BY DEF CallsTypeOK, ShimTypeOK, AgentTypes
<1>2. AgentTypes' /\ AtHand'
  <2> USE <1>1, RecordingAssumption DEF AgentTypes, AtHand, Steps
  <2>1. CASE Poll BY <2>1 DEF Poll, shimVars, fileVars
  <2>2. ASSUME NEW r \in Records, Take(r) PROVE AgentTypes' /\ AtHand'
    BY <2>2 DEF Take, Insert, GiveUp, Mishap
  <2>3. CASE Upload BY <2>3 DEF Upload, CutShort, GiveUp, Mishap
  <2>4. CASE Transcribe BY <2>4 DEF Transcribe, CutShort, GiveUp, Mishap
  <2>5. CASE Summarise BY <2>5 DEF Summarise, CutShort, GiveUp, Mishap
  <2>6. CASE Remember BY <2>6 DEF Remember, shimVars, fileVars
  <2>7. CASE CleanUp BY <2>7 DEF CleanUp
  <2>8. CASE CleanedUp BY <2>8 DEF CleanedUp
  <2>9. CASE EndTick BY <2>9 DEF EndTick, shimVars, fileVars
  <2>10. CASE Sweep BY <2>10 DEF Sweep
  <2>11. CASE DaysPass
    <3>1. 1..records \subseteq Records BY DEF CallsTypeOK, ShimTypeOK, Records
    <3> QED BY <3>1, <2>11 DEF DaysPass, shimVars, fileVars, pipeVars
  <2>12. CASE Toggle BY <2>12 DEF Toggle, shimVars, fileVars, pipeVars, Mishap
  <2>13. CASE AgentCrash BY <2>13 DEF AgentCrash, shimVars, fileVars, Mishap
  <2> QED BY <2>1, <2>2, <2>3, <2>4, <2>5, <2>6, <2>7, <2>8, <2>9, <2>10, <2>11,
             <2>12, <2>13 DEF Agent, Pipeline
<1> QED BY <1>2, AgentFrames DEF AgentFrame, AgentTypes, CallsTypeOK, ShimTypeOK,
           lineVars, receiverVars, serviceVars, noteVars

LEMMA TypeStep ==
  ASSUME CallsTypeOK, AtHand, [CallsNext]_callVars
  PROVE  CallsTypeOK' /\ AtHand'
<1>1. CASE Agent BY <1>1, AgentTypeStep
<1>2. CASE Shim BY <1>2, ShimTypes DEF Shim, pipeVars, AtHand
<1>3. CASE UNCHANGED callVars
  BY <1>3 DEF callVars, shimVars, lineVars, receiverVars, serviceVars, fileVars,
              noteVars, pipeVars, CallsTypeOK, ShimTypeOK, AtHand
<1> QED BY <1>1, <1>2, <1>3 DEF CallsNext

\* The types of the line, the recorder, the files, the rows and the tick hold for
\* any number of calls, recordings and mishaps.
THEOREM CallsTypeCorrect == CallsSpec => []CallsTypeOK
<1>1. CallsInit => CallsTypeOK /\ AtHand
  BY RecordingAssumption DEF CallsInit, ShimInit, CallsTypeOK, ShimTypeOK, AtHand, Steps
<1>2. CallsTypeOK /\ AtHand /\ [CallsNext]_callVars => (CallsTypeOK /\ AtHand)'
  BY TypeStep
<1> QED BY <1>1, <1>2, PTL DEF CallsSpec

-----------------------------------------------------------------------------
(* The files                                                               *)

\* A recording yet to come has left no trace.
Unrecorded ==
  /\ recording <= records /\ current <= records /\ old \subseteq 1..records
  /\ \A r \in Records : r > records => audio[r] = "none" /\ r \notin done

\* An open recorder belongs to the current recording, which the sweep leaves alone.
Recorder ==
  /\ recording # 0 => recording = current
  /\ ending # "no" => recording = 0
  /\ current # 0 => /\ current \notin old
                    /\ audio[current] = "open" => recording = current

\* Where the sentinel is next, the description is written.
Announced ==
  /\ ending = "described" /\ current # 0 =>
       current \in botched \/ row[current] # "none" \/ json[current] = "final"
  /\ ending = "refused" =>
       current # 0 /\ (row[current] # "none" \/ json[current] = "failed")

\* The row of the call in hand says how far it is.
RowAtHand ==
  /\ step \in {"sleep", "next", "sweep"} => at = 0
  /\ step \in {"key", "stt"} => row[at] = "recorded"
  /\ step = "summary" => row[at] = "transcribed"
  /\ step = "memory" => row[at] = "summarised"
  /\ step \in {"cleanup", "cleaned", "keep"} =>
       row[at] \in {"transcribed", "summarised", "skipped", "error"}
  /\ step = "sweep" => todo = {}

\* An old sentinel is looked at before the next sweep.
SweptLast ==
  step # "sleep" => \A r \in old \cap done : r \in todo \/ row[r] # "none"

\* Nothing is paid for before there is a row, nor a second time.
PaidOnce ==
  /\ \A r \in Records : row[r] = "none" => uploads[r] = 0 /\ remembered[r] = 0
  /\ step = "key" => uploads[at] = 0
  /\ step \in {"key", "stt", "summary", "memory"} => remembered[at] = 0

\* A row that waits for its transcript is the one in hand, or was cut short.
Waits == \A r \in Records : row[r] = "recorded" => r = at \/ r \in cut

FilesInv ==
  /\ Unrecorded /\ Recorder /\ Announced
  /\ RowAtHand /\ SweptLast /\ PaidOnce /\ Waits
  /\ UploadedOnce /\ CollectableWhole /\ Accounted

-----------------------------------------------------------------------------
(* The line                                                                *)

\* The receiver knows the state of the line, unless it has just been started.
UpToDate == lastState \in {"null", LineState(on, ring)}

\* As long as no call waited behind another.
LineInv ==
  /\ UpToDate
  /\ waited = {} =>
       /\ recording # 0 => lastState = "OFFHOOK" /\ on # {}
       /\ ring # 0 => on = {}
       /\ \A a, b \in on : a = b
       /\ latched \in on \cup {ring, 0}
       /\ \A r \in Records :
            audio[r] # "none" \/ r = recording => number[r] \in heard[r] \cup {0}

\* What the next line may be, as long as no call waits.
NextLine(n, calls, r) ==
  /\ n \in CallIds \cup {0} /\ calls \subseteq CallIds /\ r \in CallIds \cup {0}
  /\ r # 0 => calls = {} /\ recording = 0 /\ latched = 0
  /\ \A a, b \in calls : a = b
  /\ \/ n \in calls \cup {r, 0}
     \/ LineState(calls, r) = "IDLE" /\ lastState # "IDLE"

LEMMA NextLines ==
  ASSUME CallsTypeOK, LineInv, waited' = {},
         Ring \/ PickUp \/ RingsOut \/ Dial \/ HangUp
  PROVE  waited = {} /\ \E n, calls, r : Line(n, calls, r) /\ NextLine(n, calls, r)
<1> USE DEF CallsTypeOK, ShimTypeOK, CallIds, LineInv, UpToDate, NextLine
<1>1. CASE Ring
  <2>1. placed' \in 1..MaxCalls /\ ring = 0 BY <1>1, RecordingAssumption DEF Ring
  <2>2. waited = {} /\ on = {} BY <1>1 DEF Ring
  <2>3. Line(latched, {}, placed') BY <1>1, <2>2 DEF Ring
  <2>4. recording = 0 /\ latched = 0 BY <2>1, <2>2
  <2>5. NextLine(latched, {}, placed') BY <2>1, <2>4
  <2> QED BY <2>2, <2>3, <2>5
<1>2. CASE PickUp
  <2>1. waited = {} /\ ring # 0 /\ on = {} BY <1>2 DEF PickUp
  <2>2. Line(latched, {ring}, 0) BY <1>2, <2>1 DEF PickUp
  <2>3. NextLine(latched, {ring}, 0) BY <2>1
  <2> QED BY <2>1, <2>2, <2>3
<1>3. CASE RingsOut
  <2>1. waited = {} /\ ring # 0 /\ on = {} BY <1>3 DEF RingsOut
  <2>2. Line(latched, {}, 0) BY <1>3, <2>1 DEF RingsOut
  <2>3. LineState(on, ring) = "RINGING" /\ LineState({}, 0) = "IDLE"
    BY <2>1 DEF LineState
  <2>4. NextLine(latched, {}, 0) BY <2>3
  <2> QED BY <2>1, <2>2, <2>4
<1>4. CASE Dial
  <2>1. placed' \in 1..MaxCalls /\ waited = {} BY <1>4, RecordingAssumption DEF Dial
  <2>2. PICK n \in {latched, placed'} : Line(n, {placed'}, 0) BY <1>4 DEF Dial
  <2>3. latched = 0 BY <1>4, <2>1 DEF Dial
  <2>4. NextLine(n, {placed'}, 0) BY <2>1, <2>2, <2>3
  <2> QED BY <2>1, <2>2, <2>4
<1>5. CASE HangUp
  <2>1. PICK k \in on : Line(latched, on \ {k}, ring) BY <1>5 DEF HangUp
  <2>2. waited = {} BY <1>5 DEF HangUp
  <2>3. on \ {k} = {} /\ ring = 0 BY <2>1, <2>2
  <2>4. LineState(on, ring) = "OFFHOOK" /\ LineState({}, 0) = "IDLE"
    BY <2>1, <2>3 DEF LineState
  <2>5. Line(latched, {}, 0) BY <2>1, <2>3
  <2>6. NextLine(latched, {}, 0) BY <2>4
  <2> QED BY <2>2, <2>5, <2>6
<1> QED BY <1>1, <1>2, <1>3, <1>4, <1>5

LEMMA LineKeeps ==
  ASSUME CallsTypeOK, Unrecorded, Recorder, LineInv, waited = {}, waited' = {},
         NEW n, NEW calls, NEW r, Line(n, calls, r), NextLine(n, calls, r)
  PROVE  LineInv'
<1> USE DEF NextLine
<1>1. Receive(n, calls, r) /\ on' = calls /\ ring' = r BY DEF Line
<1>2. lastState' = LineState(calls, r) BY <1>1, Commands
<1>3. UpToDate' BY <1>1, <1>2 DEF UpToDate, LineState
<1> DEFINE NumberOK(q) == audio[q] # "none" \/ q = recording => number[q] \in heard[q] \cup {0}
<1>4. \A q \in Records : NumberOK(q) BY DEF LineInv
<1>5. recording # 0 => lastState = "OFFHOOK" BY DEF LineInv
<1>6. /\ recording' # 0 => lastState' = "OFFHOOK" /\ on' # {}
      /\ latched' \in on' \cup {ring', 0}
      /\ \A q \in Records : NumberOK(q)'
  <2>1. CASE /\ StartCommand(n, calls)
             /\ LineState(calls, r) = "OFFHOOK" /\ latched' = n
    <3>1. calls # {} /\ n \in calls \cup {r, 0} /\ r = 0 BY <2>1 DEF LineState
    <3>2. \A q \in Records : NumberOK(q)'
      <4>1. CASE /\ recording # 0
                 /\ heard' = Hear(recording, calls)
                 /\ UNCHANGED <<serviceVars, fileVars, records, number, botched>>
        BY <4>1, <1>4 DEF Hear, serviceVars, fileVars, CallsTypeOK, ShimTypeOK
      <4>2. CASE recording = 0
        <5>1. /\ records' = records + 1 /\ records' \in Records
              /\ number' = [number EXCEPT ![records'] = n]
              /\ records \in Nat
          BY <4>2, <2>1, RecordingAssumption
          DEF StartCommand, Records, CallsTypeOK, ShimTypeOK
        <5>2. audio[records'] = "none" BY <5>1 DEF Unrecorded
        <5>3. CASE /\ recording' = records'
                   /\ audio' = [audio EXCEPT ![records'] = "open"]
                   /\ heard' = Hear(records', calls)
          <6>1. SUFFICES ASSUME NEW q \in Records PROVE NumberOK(q)' OBVIOUS
          <6>2. CASE q = records'
            BY <6>2, <5>1, <5>3, <3>1 DEF Hear, CallsTypeOK, ShimTypeOK
          <6>3. CASE q # records'
            BY <6>3, <5>1, <5>3, <1>4 DEF Hear, CallsTypeOK, ShimTypeOK
          <6> QED BY <6>2, <6>3
        <5>4. CASE recording' = 0 /\ UNCHANGED <<audio, heard, botched>>
          <6>1. SUFFICES ASSUME NEW q \in Records, audio[q] # "none"
                         PROVE  number'[q] \in heard[q] \cup {0}
            BY <5>4 DEF Records
          <6> QED BY <6>1, <5>1, <5>2, <5>4, <1>4 DEF CallsTypeOK, ShimTypeOK
        <5> QED BY <4>2, <2>1, <5>3, <5>4 DEF StartCommand
      <4> QED BY <2>1, <4>1, <4>2 DEF StartCommand
    <3> QED BY <1>1, <1>2, <2>1, <3>1, <3>2
  <2>2. CASE StopCommand /\ LineState(calls, r) = "IDLE" /\ latched' = 0
    BY <2>2, <1>1, <1>4 DEF StopCommand, CallsTypeOK, ShimTypeOK, Records
  <2>3. CASE Overheard(calls)
    <3>1. \A q \in Records : NumberOK(q)'
      BY <2>3, <1>4 DEF Overheard, Hear, serviceVars, fileVars, CallsTypeOK, ShimTypeOK
    <3>2. recording' = recording BY <2>3 DEF Overheard, serviceVars
    <3>3. latched' \in calls \cup {r, 0} /\ (recording # 0 => LineState(calls, r) = "OFFHOOK")
      <4>1. CASE lastState = LineState(calls, r) /\ latched' = n
        BY <4>1, <1>5
      <4>2. CASE LineState(calls, r) = "RINGING" /\ latched' \in {r, latched}
        <5>1. r # 0 BY <4>2 DEF LineState
        <5> QED BY <4>2, <5>1
      <4>3. CASE LineState(calls, r) = "OFFHOOK" /\ latched' = n BY <4>3
      <4>4. CASE LineState(calls, r) = "IDLE" /\ latched' = 0 /\ lastState # "OFFHOOK"
        BY <4>4, <1>5
      <4>5. CASE StopCommand /\ LineState(calls, r) = "IDLE" /\ latched' = 0
        BY <4>5, <3>2 DEF StopCommand
      <4>6. CASE StartCommand(n, calls) /\ LineState(calls, r) = "OFFHOOK" /\ latched' = n
        BY <4>6
      <4> QED BY <1>1, <4>1, <4>2, <4>3, <4>4, <4>5, <4>6, Commands
    <3>4. LineState(calls, r) = "OFFHOOK" => calls # {} BY DEF LineState
    <3> QED BY <1>1, <1>2, <3>1, <3>2, <3>3, <3>4
  <2> QED BY <1>1, <2>1, <2>2, <2>3, Commands
<1> QED BY <1>1, <1>3, <1>6 DEF LineInv

\* The agent only takes audio and descriptions away.
LEMMA AgentTakes ==
  ASSUME CallsTypeOK, Agent
  PROVE  /\ \A q \in Records : audio'[q] \in {"none", audio[q]}
         /\ \A q \in Records : json'[q] \in {"none", json[q]}
         /\ done' \subseteq done
<1> USE DEF CallsTypeOK, ShimTypeOK
<1>1. CASE CleanUp BY <1>1 DEF CleanUp
<1>2. CASE Sweep BY <1>2 DEF Sweep
<1>3. ASSUME NEW r \in Records, Take(r)
      PROVE  UNCHANGED <<audio, json>> /\ done' \subseteq done
  BY <1>3 DEF Take, Insert, GiveUp
<1>4. CASE Poll \/ Remember \/ EndTick \/ DaysPass \/ Toggle \/ AgentCrash
  BY <1>4 DEF Poll, Remember, EndTick, DaysPass, Toggle, AgentCrash, shimVars, fileVars
<1>5. CASE Upload \/ Transcribe \/ Summarise \/ CleanedUp
  BY <1>5 DEF Upload, Transcribe, Summarise, CleanedUp, CutShort, GiveUp
<1> QED BY <1>1, <1>2, <1>3, <1>4, <1>5 DEF Agent, Pipeline

LEMMA LineInvStep ==
  ASSUME CallsTypeOK, Unrecorded, Recorder, LineInv, [CallsNext]_callVars
  PROVE  LineInv'
<1>1. CASE Ring \/ PickUp \/ RingsOut \/ Dial \/ HangUp
  <2>1. CASE waited' = {}
    BY <1>1, <2>1, NextLines, LineKeeps
  <2>2. CASE waited' # {}
    <3>1. PICK n, calls, r : Line(n, calls, r) BY <1>1, LineSteps
    <3>2. on' = calls /\ ring' = r /\ lastState' = LineState(calls, r)
      BY <3>1, Commands DEF Line
    <3> QED BY <2>2, <3>2 DEF LineInv, UpToDate, LineState
  <2> QED BY <2>1, <2>2
<1>2. CASE Describe \/ MarkDone
  BY <1>2 DEF Describe, MarkDone, LineInv, UpToDate, LineState, lineVars, receiverVars
<1>3. CASE Destroy
  BY <1>3 DEF Destroy, StopCommand, LineInv, UpToDate, LineState, lineVars,
              receiverVars, CallsTypeOK, ShimTypeOK, Records
<1>4. CASE ShimDies
  BY <1>4 DEF ShimDies, LineInv, UpToDate, LineState, lineVars, fileVars, Records
<1>5. CASE Agent
  <2>1. AgentFrame BY <1>5, AgentFrames
  <2>2. \A q \in Records : audio'[q] \in {"none", audio[q]} BY <1>5, AgentTakes
  <2> QED BY <2>1, <2>2 DEF AgentFrame, LineInv, UpToDate, LineState, lineVars,
             receiverVars, serviceVars, noteVars
<1>6. CASE UNCHANGED callVars
  BY <1>6 DEF callVars, shimVars, LineInv, UpToDate, LineState, lineVars,
              receiverVars, serviceVars, noteVars, fileVars
<1> QED BY <1>1, <1>2, <1>3, <1>4, <1>5, <1>6 DEF CallsNext, Shim, ShimNext

-----------------------------------------------------------------------------
(* The files under the steps of the shim                                    *)

ShimFiles ==
  /\ Unrecorded /\ Recorder /\ Announced
  /\ SweptLast /\ CollectableWhole /\ Accounted

\* The agent's own state, with the history of the shim's sentinels.
AgentStill == UNCHANGED <<enabled, pipeVars, row, uploads, remembered, old, cut>>

LEMMA StartKeeps ==
  ASSUME CallsTypeOK, ShimFiles, AgentStill, ending = "no", UNCHANGED marked,
         NEW n, NEW calls, StartCommand(n, calls)
  PROVE  ShimFiles'
<1> USE DEF CallsTypeOK, ShimTypeOK, AgentStill, pipeVars
<1>1. CASE /\ recording # 0
           /\ UNCHANGED <<serviceVars, fileVars, records, number, botched>>
  BY <1>1 DEF serviceVars, fileVars, ShimFiles, Unrecorded, Recorder, Announced,
              SweptLast, CollectableWhole, Accounted
<1>2. CASE recording = 0
  <2>1. /\ records' = records + 1 /\ records \in Nat /\ records' \in Records
        /\ current' = records' /\ UNCHANGED <<done, botched>>
    BY <1>2, RecordingAssumption DEF StartCommand, Records
  <2>2. /\ audio[records'] = "none" /\ records' \notin done /\ records' \notin old
        /\ records' # 0 /\ old \subseteq 1..records
    BY <2>1 DEF ShimFiles, Unrecorded
  <2>3. \/ /\ recording' = records' /\ ending' = "no"
           /\ audio' = [audio EXCEPT ![records'] = "open"]
           /\ json' = [json EXCEPT ![records'] = "partial"]
        \/ /\ recording' = 0 /\ ending' = "refused"
           /\ json' = [json EXCEPT ![records'] = "failed"]
           /\ UNCHANGED audio
    BY <1>2 DEF StartCommand
  <2>4. Unrecorded'
    <3>1. old' \subseteq 1..records' BY <2>1, <2>2
    <3>2. recording' <= records' /\ current' <= records' BY <2>1, <2>3
    <3>3. ASSUME NEW q \in Records, q > records' PROVE audio'[q] = "none" /\ q \notin done'
      <4>1. q > records /\ q # records' BY <2>1, <3>3 DEF Records
      <4> QED BY <4>1, <2>1, <2>3 DEF ShimFiles, Unrecorded
    <3> QED BY <3>1, <3>2, <3>3 DEF Unrecorded
  <2>5. Recorder' BY <2>1, <2>2, <2>3 DEF Recorder
  <2>6. Announced' BY <2>1, <2>2, <2>3 DEF Announced
  <2>7. SweptLast' BY <2>1 DEF ShimFiles, SweptLast
  <2>8. CollectableWhole' BY <2>1, <2>2, <2>3 DEF ShimFiles, CollectableWhole
  <2>9. Accounted' BY <2>1 DEF ShimFiles, Accounted
  <2> QED BY <2>4, <2>5, <2>6, <2>7, <2>8, <2>9 DEF ShimFiles
<1> QED BY <1>1, <1>2 DEF StartCommand

LEMMA StopKeeps ==
  ASSUME CallsTypeOK, ShimFiles, AgentStill, ending = "no", UNCHANGED marked, StopCommand
  PROVE  ShimFiles'
<1> USE DEF CallsTypeOK, ShimTypeOK, AgentStill, pipeVars
<1>1. /\ recording' = 0 /\ ending' = "stopped"
      /\ UNCHANGED <<current, json, done, records, botched>>
  BY DEF StopCommand
<1>2. \A q \in Records : IF q = recording THEN audio'[q] \in {"whole", "empty"}
                                           ELSE audio'[q] = audio[q]
  BY DEF StopCommand, Records
<1>3. Unrecorded'
  BY <1>1, <1>2 DEF ShimFiles, Unrecorded, Records
<1>4. Recorder'
  BY <1>1, <1>2 DEF ShimFiles, Recorder, Records
<1>5. Announced' /\ SweptLast' /\ Accounted'
  BY <1>1 DEF ShimFiles, Announced, SweptLast, Accounted
<1>6. CollectableWhole' BY <1>1, <1>2 DEF ShimFiles, CollectableWhole
<1> QED BY <1>3, <1>4, <1>5, <1>6 DEF ShimFiles

LEMMA ShimKeeps ==
  ASSUME CallsTypeOK, ShimFiles, Shim
  PROVE  ShimFiles'
<1> USE DEF CallsTypeOK, ShimTypeOK, AgentStill, pipeVars
<1>1. AgentStill BY DEF Shim
<1>2. CASE Ring \/ PickUp \/ RingsOut \/ Dial \/ HangUp
  <2>1. PICK n, calls, r : Line(n, calls, r) BY <1>2, LineSteps
  <2>2. ending = "no" /\ UNCHANGED marked /\ Receive(n, calls, r) BY <2>1 DEF Line
  <2>3. CASE StartCommand(n, calls) BY <1>1, <2>2, <2>3, StartKeeps
  <2>4. CASE StopCommand BY <1>1, <2>2, <2>4, StopKeeps
  <2>5. CASE Overheard(calls)
    BY <1>1, <2>2, <2>5 DEF Overheard, serviceVars, fileVars, ShimFiles, Unrecorded,
       Recorder, Announced, SweptLast, CollectableWhole, Accounted
  <2> QED BY <2>2, <2>3, <2>4, <2>5, Commands
<1>3. CASE Describe
  <2>1. UNCHANGED <<recording, current, audio, done, records, marked>>
    BY <1>3 DEF Describe
  <2>2. /\ ending = "stopped" /\ ending' = "described"
        /\ \/ current = 0 /\ UNCHANGED <<json, botched>>
           \/ current # 0 /\ json' = [json EXCEPT ![current] = "final"] /\ UNCHANGED botched
           \/ current # 0 /\ botched' = botched \cup {current} /\ UNCHANGED json
    BY <1>3 DEF Describe
  <2>3. Unrecorded' /\ Recorder' /\ SweptLast'
    BY <1>1, <2>1, <2>2 DEF ShimFiles, Unrecorded, Recorder, SweptLast
  <2>4. Announced' BY <1>1, <2>1, <2>2 DEF Announced
  <2>5. CollectableWhole' BY <1>1, <2>1, <2>2 DEF ShimFiles, CollectableWhole
  <2>6. Accounted' BY <1>1, <2>1, <2>2 DEF ShimFiles, Accounted
  <2> QED BY <2>3, <2>4, <2>5, <2>6 DEF ShimFiles
<1>4. CASE MarkDone
  <2>1. /\ UNCHANGED <<recording, audio, json, records, botched>>
        /\ ending \in {"described", "refused"} /\ ending' = "no"
        /\ current' \in {0, current}
        /\ \/ current = 0 /\ UNCHANGED <<done, marked>>
           \/ current # 0 /\ done' = done \cup {current} /\ marked' = marked \cup {current}
    BY <1>4 DEF MarkDone
  <2>2. Unrecorded' BY <1>1, <2>1, RecordingAssumption DEF ShimFiles, Unrecorded, Records
  <2>3. Recorder' /\ Announced' BY <1>1, <2>1 DEF ShimFiles, Recorder, Announced
  <2>4. SweptLast' BY <1>1, <2>1 DEF ShimFiles, SweptLast, Recorder
  <2>5. CollectableWhole'
    <3>1. current # 0 /\ current \notin botched /\ row[current] = "none" =>
            json[current] \in {"final", "failed"} /\ audio[current] # "open"
      BY <2>1 DEF ShimFiles, Announced, Recorder
    <3> QED BY <1>1, <2>1, <3>1 DEF ShimFiles, CollectableWhole
  <2>6. Accounted' BY <1>1, <2>1 DEF ShimFiles, Accounted
  <2> QED BY <2>2, <2>3, <2>4, <2>5, <2>6 DEF ShimFiles
<1>5. CASE Destroy BY <1>1, <1>5, StopKeeps DEF Destroy
<1>6. CASE ShimDies
  <2>1. /\ recording' = 0 /\ current' = 0 /\ ending' = "no"
        /\ UNCHANGED <<audio, json, done, records, marked, botched>>
    BY <1>6 DEF ShimDies, fileVars
  <2>2. Unrecorded' /\ Recorder' /\ Announced'
    BY <1>1, <2>1 DEF ShimFiles, Unrecorded, Recorder, Announced
  <2>3. SweptLast' /\ CollectableWhole' /\ Accounted'
    BY <1>1, <2>1 DEF ShimFiles, SweptLast, CollectableWhole, Accounted
  <2> QED BY <2>2, <2>3 DEF ShimFiles
<1> QED BY <1>2, <1>3, <1>4, <1>5, <1>6 DEF Shim, ShimNext

-----------------------------------------------------------------------------
(* The files under the steps of the agent                                   *)

\* What the agent does to the current recording and to new ones.
LEMMA AgentKeepsRecorder ==
  ASSUME CallsTypeOK, AtHand, FilesInv, Agent
  PROVE  Unrecorded' /\ Recorder'
<1> USE DEF CallsTypeOK, ShimTypeOK
<1>1. /\ \A q \in Records : audio'[q] \in {"none", audio[q]}
      /\ done' \subseteq done
  BY AgentTakes
<1>2. UNCHANGED <<recording, current, ending, records>>
  BY AgentFrames DEF AgentFrame, serviceVars, noteVars
<1>3. old' \subseteq 1..records /\ (current # 0 => current \notin old')
  <2>1. CASE DaysPass BY <2>1 DEF DaysPass, FilesInv, Unrecorded, Recorder
  <2>2. CASE UNCHANGED old BY <2>2 DEF FilesInv, Unrecorded, Recorder
  <2> QED BY <2>1, <2>2 DEF Agent, Pipeline, Poll, Take, Upload, Transcribe, Summarise,
             Remember, CleanUp, CleanedUp, EndTick, Sweep, Toggle, AgentCrash
<1>4. Unrecorded' BY <1>1, <1>2, <1>3 DEF FilesInv, Unrecorded
<1>5. Recorder' BY <1>1, <1>2, <1>3 DEF FilesInv, Recorder
<1> QED BY <1>4, <1>5

\* The parts of the invariant that only the agent can break.
TickInv ==
  /\ Announced /\ RowAtHand /\ SweptLast /\ PaidOnce /\ Waits
  /\ UploadedOnce /\ CollectableWhole /\ Accounted

LEMMA TakeKeeps ==
  ASSUME CallsTypeOK, FilesInv, NEW r \in Records, Take(r)
  PROVE  TickInv'
<1> USE DEF CallsTypeOK, ShimTypeOK
<1>1. /\ step = "next" /\ at = 0 /\ todo' = todo \ {r}
      /\ UNCHANGED <<audio, json, uploads, remembered, old, current, ending, marked, botched>>
  BY DEF Take, FilesInv, RowAtHand, serviceVars, noteVars
<1>2. CASE row[r] # "none" \/ json[r] = "none"
  <2>1. done' = done \ {r} /\ UNCHANGED <<step, at, row, cut>>
    BY <1>2 DEF Take
  <2>2. Announced' /\ RowAtHand' /\ SweptLast' /\ PaidOnce' /\ Waits' /\ UploadedOnce'
    BY <1>1, <1>2, <2>1
    DEF FilesInv, Announced, RowAtHand, SweptLast, PaidOnce, Waits, UploadedOnce
  <2>3. CollectableWhole' BY <1>1, <2>1 DEF FilesInv, CollectableWhole
  <2>4. ASSUME NEW q \in marked \ (cut \cup botched)
        PROVE  q \in done' \/ q = at' \/ row'[q] \in {"transcribed", "summarised", "skipped", "error"}
    <3>1. CASE q = r /\ q \in done
      <4>1. row[r] # "none" BY <1>2, <3>1, <2>4 DEF FilesInv, CollectableWhole
      <4>2. row[r] # "recorded" BY <1>1, <3>1, <2>4 DEF FilesInv, Waits, Records
      <4> QED BY <2>1, <3>1, <4>1, <4>2
    <3>2. CASE q # r \/ q \notin done
      BY <1>1, <2>1, <2>4, <3>2 DEF FilesInv, Accounted
    <3> QED BY <3>1, <3>2
  <2>5. Accounted' BY <1>1, <2>1, <2>4 DEF Accounted
  <2> QED BY <2>2, <2>3, <2>5 DEF TickInv
<1>3. CASE row[r] = "none" /\ Insert(r) /\ UNCHANGED cut
  <2>1. /\ at' = r /\ UNCHANGED done
        /\ \/ row' = [row EXCEPT ![r] = "skipped"] /\ step' = "cleanup"
           \/ row' = [row EXCEPT ![r] = "recorded"] /\ step' = "key"
    BY <1>3 DEF Insert
  <2>2. Announced' /\ RowAtHand' /\ UploadedOnce'
    BY <1>1, <1>3, <2>1 DEF FilesInv, Announced, RowAtHand, UploadedOnce
  <2>3. SweptLast' BY <1>1, <1>3, <2>1 DEF FilesInv, SweptLast
  <2>4. PaidOnce' BY <1>1, <1>3, <2>1 DEF FilesInv, PaidOnce
  <2>5. \A q \in Records : q # at BY <1>1 DEF Records
  <2>6. \A q \in Records \ {r} : row'[q] = row[q] BY <2>1
  <2>7. Waits' BY <1>3, <2>1, <2>5, <2>6 DEF FilesInv, Waits
  <2>8. CollectableWhole' BY <1>1, <2>1 DEF FilesInv, CollectableWhole
  <2>9. Accounted'
    BY <1>1, <1>3, <2>1, <2>5, <2>6 DEF FilesInv, Accounted
  <2> QED BY <2>2, <2>3, <2>4, <2>7, <2>8, <2>9 DEF TickInv
<1>4. CASE row[r] = "none" /\ cut' = cut \cup {r} /\ GiveUp(r)
  <2>1. done' = done \ {r} /\ step' = "next" /\ at' = 0 /\ row' = row
    BY <1>4 DEF GiveUp
  <2>2. Announced' /\ RowAtHand' /\ SweptLast' /\ PaidOnce' /\ UploadedOnce'
    BY <1>1, <2>1
    DEF FilesInv, Announced, RowAtHand, SweptLast, PaidOnce, UploadedOnce
  <2>3. Waits' BY <1>1, <1>4, <2>1 DEF FilesInv, Waits
  <2>4. CollectableWhole' BY <1>1, <2>1 DEF FilesInv, CollectableWhole
  <2>5. Accounted' BY <1>1, <1>4, <2>1 DEF FilesInv, Accounted, Records
  <2> QED BY <2>2, <2>3, <2>4, <2>5 DEF TickInv
<1> QED BY <1>2, <1>3, <1>4 DEF Take

\* A step that ends the processing of the call in hand with a refused write.
LEMMA CutKeeps ==
  ASSUME CallsTypeOK, AtHand, FilesInv, CutShort,
         step \in {"key", "stt", "summary"}, AgentFrame,
         UNCHANGED <<audio, json, todo, uploads, remembered, old>>
  PROVE  TickInv'
<1> USE DEF CallsTypeOK, ShimTypeOK
<1>1. /\ at \in Records /\ row[at] # "none" BY DEF AtHand, FilesInv, RowAtHand
<1>2. /\ cut' = cut \cup {at} /\ done' = done \ {at} /\ step' = "next" /\ at' = 0
      /\ row' \in {row, [row EXCEPT ![at] = "error"]}
      /\ UNCHANGED <<current, ending, marked, botched>>
  BY DEF CutShort, GiveUp, AgentFrame, serviceVars, noteVars
<1>3. \A q \in Records \ {at} : row'[q] = row[q] BY <1>2
<1>4. row'[at] \in {row[at], "error"} BY <1>1, <1>2
<1>5. Announced' BY <1>2, <1>3, <1>4 DEF FilesInv, Announced
<1>6. RowAtHand' /\ SweptLast' /\ UploadedOnce'
  BY <1>2, <1>3 DEF FilesInv, RowAtHand, SweptLast, UploadedOnce
<1>7. PaidOnce' BY <1>1, <1>2, <1>3, <1>4 DEF FilesInv, PaidOnce
<1>8. Waits' BY <1>2, <1>3 DEF FilesInv, Waits
<1>9. CollectableWhole' BY <1>1, <1>2, <1>3 DEF FilesInv, CollectableWhole
<1>10. Accounted' BY <1>2, <1>3 DEF FilesInv, Accounted
<1> QED BY <1>5, <1>6, <1>7, <1>8, <1>9, <1>10 DEF TickInv

\* A step that moves the call in hand on, and with it its row.
LEMMA MoveKeeps ==
  ASSUME CallsTypeOK, AtHand, FilesInv, AgentFrame, UNCHANGED <<todo, old, cut, at>>,
         step \notin {"sleep", "next", "sweep"},
         step' \notin {"sleep", "next", "sweep"},
         done' = done, RowAtHand', PaidOnce', UploadedOnce',
         \A q \in Records \ {at} :
           row'[q] = row[q] /\ json'[q] = json[q] /\ audio'[q] = audio[q],
         row'[at] # "none"
  PROVE  TickInv'
<1> USE DEF CallsTypeOK, ShimTypeOK
<1>1. at \in Records /\ row[at] # "none" BY DEF AtHand, FilesInv, RowAtHand, Steps
<1>2. UNCHANGED <<current, ending, marked, botched>>
  BY DEF AgentFrame, serviceVars, noteVars
<1>3. Announced' BY <1>1, <1>2 DEF FilesInv, Announced
<1>4. SweptLast' BY DEF FilesInv, SweptLast
<1>5. Waits' BY DEF FilesInv, Waits
<1>6. CollectableWhole' BY <1>2 DEF FilesInv, CollectableWhole
<1>7. Accounted' BY <1>2 DEF FilesInv, Accounted
<1> QED BY <1>3, <1>4, <1>5, <1>6, <1>7 DEF TickInv

LEMMA CallKeeps ==
  ASSUME CallsTypeOK, AtHand, FilesInv, Agent,
         Upload \/ Transcribe \/ Summarise \/ Remember \/ CleanUp
  PROVE  TickInv'
<1> USE AgentFrames DEF CallsTypeOK, ShimTypeOK
<1>1. CASE Upload
  <2>1. step = "key" /\ at \in Records BY <1>1 DEF Upload, AtHand
  <2>2. CASE CutShort /\ UNCHANGED uploads
    BY <1>1, <2>1, <2>2, CutKeeps DEF Upload
  <2>3. CASE at' = at /\ step' # "next"
    <3>1. \/ row' = [row EXCEPT ![at] = "skipped"] /\ step' = "cleanup" /\ uploads' = uploads
          \/ row' = row /\ step' = "stt" /\ uploads' = [uploads EXCEPT ![at] = @ + 1]
      BY <1>1, <2>3 DEF Upload, CutShort, GiveUp
    <3>2. /\ UNCHANGED <<todo, old, cut, audio, json, done, remembered>>
      BY <1>1, <2>3 DEF Upload, CutShort, GiveUp
    <3>3. RowAtHand' BY <2>1, <2>3, <3>1 DEF FilesInv, RowAtHand
    <3>4. PaidOnce' /\ UploadedOnce'
      BY <2>1, <2>3, <3>1, <3>2 DEF FilesInv, RowAtHand, PaidOnce, UploadedOnce
    <3> QED BY <2>1, <2>3, <3>1, <3>2, <3>3, <3>4, MoveKeeps DEF FilesInv, RowAtHand
  <2> QED BY <1>1, <2>2, <2>3 DEF Upload
<1>2. CASE Transcribe
  <2>1. step = "stt" /\ at \in Records BY <1>2 DEF Transcribe, AtHand
  <2>2. CASE CutShort
    BY <1>2, <2>1, <2>2, CutKeeps DEF Transcribe
  <2>3. CASE at' = at /\ step' # "next"
    <3>1. \/ row' = [row EXCEPT ![at] = "transcribed"] /\ step' = "summary"
          \/ row' = [row EXCEPT ![at] = "error"] /\ step' = "keep"
      BY <1>2, <2>3 DEF Transcribe, CutShort, GiveUp
    <3>2. /\ UNCHANGED <<todo, old, cut, audio, json, done, uploads, remembered>>
      BY <1>2, <2>3 DEF Transcribe, CutShort, GiveUp
    <3>3. RowAtHand' BY <2>1, <2>3, <3>1 DEF FilesInv, RowAtHand
    <3>4. PaidOnce' /\ UploadedOnce'
      BY <2>1, <2>3, <3>1, <3>2 DEF FilesInv, PaidOnce, UploadedOnce
    <3> QED BY <2>1, <2>3, <3>1, <3>2, <3>3, <3>4, MoveKeeps
  <2> QED BY <1>2, <2>2, <2>3 DEF Transcribe
<1>3. CASE Summarise
  <2>1. step = "summary" /\ at \in Records BY <1>3 DEF Summarise, AtHand
  <2>2. CASE CutShort
    BY <1>3, <2>1, <2>2, CutKeeps DEF Summarise
  <2>3. CASE at' = at /\ step' # "next"
    <3>1. \/ row' = [row EXCEPT ![at] = "summarised"] /\ step' = "memory"
          \/ row' = row /\ step' = "cleanup"
      BY <1>3, <2>3 DEF Summarise, CutShort, GiveUp
    <3>2. /\ UNCHANGED <<todo, old, cut, audio, json, done, uploads, remembered>>
      BY <1>3, <2>3 DEF Summarise, CutShort, GiveUp
    <3>3. RowAtHand' BY <2>1, <2>3, <3>1 DEF FilesInv, RowAtHand
    <3>4. PaidOnce' /\ UploadedOnce'
      BY <2>1, <2>3, <3>1, <3>2 DEF FilesInv, PaidOnce, UploadedOnce
    <3> QED BY <2>1, <2>3, <3>1, <3>2, <3>3, <3>4, MoveKeeps DEF FilesInv, RowAtHand
  <2> QED BY <1>3, <2>2, <2>3 DEF Summarise
<1>4. CASE Remember
  <2>1. /\ step = "memory" /\ at \in Records /\ step' = "cleanup"
        /\ remembered' \in {remembered, [remembered EXCEPT ![at] = @ + 1]}
        /\ UNCHANGED <<todo, at, row, uploads, old, cut, audio, json, done>>
    BY <1>4 DEF Remember, AtHand, shimVars, fileVars
  <2>2. RowAtHand' BY <2>1 DEF FilesInv, RowAtHand
  <2>3. row[at] = "summarised" /\ remembered[at] = 0
    BY <2>1 DEF FilesInv, RowAtHand, PaidOnce
  <2>4. PaidOnce' /\ UploadedOnce'
    BY <2>1, <2>3 DEF FilesInv, PaidOnce, UploadedOnce
  <2> QED BY <2>1, <2>2, <2>3, <2>4, MoveKeeps
<1>5. CASE CleanUp
  <2>1. /\ step \in {"cleanup", "keep"} /\ at \in Records /\ step' = "cleaned"
        /\ json' = [json EXCEPT ![at] = "none"]
        /\ audio' \in {audio, [audio EXCEPT ![at] = "none"]}
        /\ UNCHANGED <<todo, at, row, uploads, remembered, old, cut, done>>
    BY <1>5 DEF CleanUp, AtHand
  <2>2. RowAtHand' /\ PaidOnce' /\ UploadedOnce' /\ row[at] # "none"
    BY <2>1 DEF FilesInv, RowAtHand, PaidOnce, UploadedOnce
  <2> QED BY <2>1, <2>2, MoveKeeps
<1> QED BY <1>1, <1>2, <1>3, <1>4, <1>5

LEMMA TickKeeps ==
  ASSUME CallsTypeOK, AtHand, FilesInv, Agent,
         Poll \/ CleanedUp \/ EndTick \/ Sweep \/ DaysPass \/ Toggle \/ AgentCrash
  PROVE  TickInv'
<1> USE DEF CallsTypeOK, ShimTypeOK
<1>1. UNCHANGED <<current, ending, marked, botched>>
  BY AgentFrames DEF AgentFrame, serviceVars, noteVars
<1>2. CASE Poll
  <2>1. /\ step = "sleep" /\ todo' = done /\ step' = "next"
        /\ UNCHANGED <<at, row, uploads, remembered, old, cut, audio, json, done>>
    BY <1>2 DEF Poll, shimVars, fileVars
  <2> QED BY <1>1, <2>1 DEF FilesInv, TickInv, Announced, RowAtHand, SweptLast, PaidOnce,
             Waits, UploadedOnce, CollectableWhole, Accounted
<1>3. CASE CleanedUp
  <2>1. /\ step = "cleaned" /\ at \in Records /\ done' = done \ {at}
        /\ step' = "next" /\ at' = 0
        /\ UNCHANGED <<todo, row, uploads, remembered, old, cut, audio, json>>
    BY <1>3 DEF CleanedUp, AtHand
  <2>2. row[at] \in {"transcribed", "summarised", "skipped", "error"}
    BY <2>1 DEF FilesInv, RowAtHand
  <2>3. Announced' /\ RowAtHand' /\ SweptLast' /\ PaidOnce' /\ UploadedOnce'
    BY <1>1, <2>1 DEF FilesInv, Announced, RowAtHand, SweptLast, PaidOnce, UploadedOnce
  <2>4. Waits' BY <2>1, <2>2 DEF FilesInv, Waits
  <2>5. CollectableWhole' BY <1>1, <2>1 DEF FilesInv, CollectableWhole
  <2>6. Accounted' BY <1>1, <2>1, <2>2 DEF FilesInv, Accounted
  <2> QED BY <2>3, <2>4, <2>5, <2>6 DEF TickInv
<1>4. CASE EndTick
  <2>1. /\ step = "next" /\ todo = {} /\ step' \in {"sweep", "sleep"}
        /\ UNCHANGED <<todo, at, row, uploads, remembered, old, cut, audio, json, done>>
    BY <1>4 DEF EndTick, shimVars, fileVars
  <2> QED BY <1>1, <2>1 DEF FilesInv, TickInv, Announced, RowAtHand, SweptLast, PaidOnce,
             Waits, UploadedOnce, CollectableWhole, Accounted
<1>5. CASE Sweep
  <2>1. /\ step = "sweep" /\ step' = "sleep" /\ at = 0 /\ todo = {}
        /\ UNCHANGED <<todo, at, row, uploads, remembered, old, cut, done>>
    BY <1>5 DEF Sweep, FilesInv, RowAtHand
  <2>2. \A q \in Records : IF q \in old THEN audio'[q] = "none" /\ json'[q] = "none"
                                        ELSE audio'[q] = audio[q] /\ json'[q] = json[q]
    BY <1>5 DEF Sweep
  <2>3. \A q \in old \cap done : row[q] # "none" BY <2>1 DEF FilesInv, SweptLast
  <2>4. Announced' BY <1>1, <2>1, <2>2 DEF FilesInv, Announced, Recorder
  <2>5. RowAtHand' /\ SweptLast' /\ PaidOnce' /\ Waits' /\ UploadedOnce'
    BY <2>1 DEF FilesInv, RowAtHand, SweptLast, PaidOnce, Waits, UploadedOnce
  <2>6. CollectableWhole' BY <1>1, <2>1, <2>2, <2>3 DEF FilesInv, CollectableWhole
  <2>7. Accounted' BY <1>1, <2>1 DEF FilesInv, Accounted
  <2> QED BY <2>4, <2>5, <2>6, <2>7 DEF TickInv
<1>6. CASE DaysPass
  <2>1. /\ step = "sleep" /\ step' = "sleep"
        /\ UNCHANGED <<todo, at, row, uploads, remembered, cut, audio, json, done>>
    BY <1>6 DEF DaysPass, shimVars, fileVars, pipeVars
  <2> QED BY <1>1, <2>1 DEF FilesInv, TickInv, Announced, RowAtHand, SweptLast, PaidOnce,
             Waits, UploadedOnce, CollectableWhole, Accounted
<1>7. CASE Toggle
  <2>1. UNCHANGED <<step, todo, at, row, uploads, remembered, old, cut, audio, json, done>>
    BY <1>7 DEF Toggle, shimVars, fileVars, pipeVars
  <2> QED BY <1>1, <2>1 DEF FilesInv, TickInv, Announced, RowAtHand, SweptLast, PaidOnce,
             Waits, UploadedOnce, CollectableWhole, Accounted
<1>8. CASE AgentCrash
  <2>1. /\ step' = "sleep" /\ todo' = {} /\ at' = 0
        /\ cut' = IF at = 0 THEN cut ELSE cut \cup {at}
        /\ UNCHANGED <<row, uploads, remembered, old, audio, json, done>>
    BY <1>8 DEF AgentCrash, shimVars, fileVars
  <2>2. Announced' /\ RowAtHand' /\ SweptLast' /\ PaidOnce' /\ UploadedOnce'
    BY <1>1, <2>1 DEF FilesInv, Announced, RowAtHand, SweptLast, PaidOnce, UploadedOnce
  <2>3. Waits' BY <2>1 DEF FilesInv, Waits
  <2>4. CollectableWhole' BY <1>1, <2>1 DEF FilesInv, CollectableWhole
  <2>5. Accounted' BY <1>1, <2>1 DEF FilesInv, Accounted
  <2> QED BY <2>2, <2>3, <2>4, <2>5 DEF TickInv
<1> QED BY <1>2, <1>3, <1>4, <1>5, <1>6, <1>7, <1>8

-----------------------------------------------------------------------------
CallsInv == CallsTypeOK /\ AtHand /\ FilesInv /\ LineInv

LEMMA FilesInvStep ==
  ASSUME CallsInv, [CallsNext]_callVars
  PROVE  FilesInv'
<1> USE DEF CallsInv
<1>1. CASE Agent
  <2>1. Unrecorded' /\ Recorder' BY <1>1, AgentKeepsRecorder
  <2>2. ASSUME \E r \in Records : Take(r) PROVE TickInv' BY <2>2, TakeKeeps
  <2>3. ASSUME Upload \/ Transcribe \/ Summarise \/ Remember \/ CleanUp
        PROVE  TickInv'
    BY <1>1, <2>3, CallKeeps
  <2>4. ASSUME Poll \/ CleanedUp \/ EndTick \/ Sweep \/ DaysPass \/ Toggle \/ AgentCrash
        PROVE  TickInv'
    BY <1>1, <2>4, TickKeeps
  <2>5. TickInv' BY <1>1, <2>2, <2>3, <2>4 DEF Agent, Pipeline
  <2> QED BY <2>1, <2>5 DEF TickInv, FilesInv
<1>2. CASE Shim
  <2>1. ShimFiles' BY <1>2, ShimKeeps DEF FilesInv, ShimFiles
  <2>2. RowAtHand' /\ PaidOnce' /\ Waits' /\ UploadedOnce'
    BY <1>2 DEF Shim, pipeVars, FilesInv, RowAtHand, PaidOnce, Waits, UploadedOnce
  <2> QED BY <2>1, <2>2 DEF ShimFiles, FilesInv
<1>3. CASE UNCHANGED callVars
  BY <1>3 DEF callVars, shimVars, serviceVars, fileVars, noteVars, pipeVars, FilesInv,
     Unrecorded, Recorder, Announced, RowAtHand, SweptLast, PaidOnce, Waits,
     UploadedOnce, CollectableWhole, Accounted
<1> QED BY <1>1, <1>2, <1>3 DEF CallsNext

LEMMA CallsInvariant == CallsSpec => []CallsInv
<1>1. CallsInit => CallsInv
  <2> SUFFICES ASSUME CallsInit PROVE CallsInv OBVIOUS
  <2> USE RecordingAssumption DEF CallsInit, ShimInit
  <2>1. CallsTypeOK /\ AtHand
    BY DEF CallsTypeOK, ShimTypeOK, AtHand, Steps
  <2>2. FilesInv
    BY DEF FilesInv, Unrecorded, Recorder, Announced, RowAtHand, SweptLast, PaidOnce,
       Waits, UploadedOnce, CollectableWhole, Accounted
  <2>3. LineInv BY DEF LineInv, UpToDate, Records
  <2> QED BY <2>1, <2>2, <2>3 DEF CallsInv
<1>2. CallsInv /\ [CallsNext]_callVars => CallsInv'
  BY TypeStep, FilesInvStep, LineInvStep DEF CallsInv, FilesInv
<1> QED BY <1>1, <1>2, PTL DEF CallsSpec

\* No call is uploaded or remembered twice, through any number of crashes of the
\* agent and of the shim, and a sentinel announces a description and a closed
\* recording whatever the sweep does: the row is written before anything is sent.
THEOREM CollectsOnce == CallsSpec => []CollectedOnce
<1>1. CallsInv => CollectedOnce BY DEF CallsInv, FilesInv, CollectedOnce
<1> QED BY <1>1, CallsInvariant, PTL

\* No finished recording vanishes without a row that says what became of it.
THEOREM NoneUnaccounted == CallsSpec => []Accounted
<1>1. CallsInv => Accounted BY DEF CallsInv, FilesInv
<1> QED BY <1>1, CallsInvariant, PTL

\* No recorder runs on an idle line and no recording bears the number of
\* another call, as long as no call has waited.
THEOREM LinesFollowed == CallsSpec => []LineFollowed
<1>1. CallsInv => RecordingEnds BY DEF CallsInv, LineInv, RecordingEnds
<1>2. CallsInv => NumberHeard BY DEF CallsInv, LineInv, NumberHeard
<1> QED BY <1>1, <1>2, CallsInvariant, PTL DEF LineFollowed
=============================================================================
