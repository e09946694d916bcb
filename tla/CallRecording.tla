--------------------------- MODULE CallRecording ----------------------------
(***************************************************************************)
(* The recording side of the call pipeline, in the SMS shim: the receiver  *)
(* of PHONE_STATE broadcasts (CallStateReceiver.kt) and the recorder       *)
(* service (CallRecorderService.kt), which leaves an audio file, a         *)
(* description and a sentinel per recording for the agent to collect.      *)
(*                                                                         *)
(* Both run on the main thread of the shim, so a broadcast, and the        *)
(* command it sends to the service, are one step here; the end of a        *)
(* recording takes several, because the agent watches the files.           *)
(* Broadcasts take milliseconds and calls seconds: one is handled before   *)
(* the line changes again.                                                 *)
(***************************************************************************)
EXTENDS Naturals, FiniteSets

CONSTANTS
  MaxCalls,     \* bound: calls, incoming and outgoing
  MaxRecords,   \* bound: recordings
  MaxMishaps,   \* bound: crashes, refused writes, changes of configuration
  Waiting       \* whether a call may come in while another is on

ASSUME RecordingAssumption ==
  /\ MaxCalls \in Nat /\ MaxRecords \in Nat /\ MaxMishaps \in Nat
  /\ Waiting \in BOOLEAN

CallIds == 1..MaxCalls
Records == 1..MaxRecords

VARIABLES
  placed,      \* how many calls there were
  on,          \* the calls that are connected
  ring,        \* the call that rings (0: none)
  lastState,   \* companion lastState
  latched,     \* latchedNumber, as the call it belongs to (0: null)
  recording,   \* the recording under way: recorder # null (0: none)
  current,     \* callId and the files of the service's instance (0: null)
  ending,      \* before markDone: "no", "stopped", "described", "refused"
  records,     \* how many recordings there are
  audio,       \* [Records]: "none", "open", "whole", "empty"
  json,        \* [Records]: "none", "partial", "final", "failed"
  done,        \* the sentinels
  number,      \* [Records]: the number in the description
  heard,       \* history: [Records]: the calls that were on meanwhile
  marked,      \* history: recordings whose sentinel was written
  botched,     \* history: recordings whose description could not be written
  waited,      \* history: calls that rang while another was on
  mishaps      \* bound: counts the mishaps, also of the agent's side

lineVars     == <<placed, on, ring>>
receiverVars == <<lastState, latched>>
serviceVars  == <<recording, current, ending>>
fileVars     == <<audio, json, done>>
noteVars     == <<records, number, heard, marked, botched, waited>>
shimVars     == <<lineVars, receiverVars, serviceVars, fileVars, noteVars>>

ShimTypeOK ==
  /\ placed \in 0..MaxCalls /\ on \subseteq CallIds /\ ring \in CallIds \cup {0}
  /\ lastState \in {"null", "IDLE", "RINGING", "OFFHOOK"}
  /\ latched \in CallIds \cup {0}
  /\ recording \in Records \cup {0} /\ current \in Records \cup {0}
  /\ ending \in {"no", "stopped", "described", "refused"}
  /\ records \in 0..MaxRecords
  /\ audio \in [Records -> {"none", "open", "whole", "empty"}]
  /\ json \in [Records -> {"none", "partial", "final", "failed"}]
  /\ done \subseteq Records /\ marked \subseteq Records /\ botched \subseteq Records
  /\ number \in [Records -> CallIds \cup {0}]
  /\ heard \in [Records -> SUBSET CallIds]
  /\ waited \subseteq CallIds /\ mishaps \in 0..MaxMishaps

ShimInit ==
  /\ placed = 0 /\ on = {} /\ ring = 0
  /\ lastState = "null" /\ latched = 0
  /\ recording = 0 /\ current = 0 /\ ending = "no" /\ records = 0
  /\ audio = [r \in Records |-> "none"] /\ json = [r \in Records |-> "none"]
  /\ done = {} /\ marked = {} /\ botched = {} /\ waited = {} /\ mishaps = 0
  /\ number = [r \in Records |-> 0] /\ heard = [r \in Records |-> {}]

Mishap == mishaps < MaxMishaps /\ mishaps' = mishaps + 1

-----------------------------------------------------------------------------
(* The service                                                             *)

\* The calls on the line are heard by the recording under way.
Hear(r, calls) == [heard EXCEPT ![r] = @ \cup calls]

\* ACTION_START: ignored while a recorder runs; otherwise a new recording, whose
\* audio opens on one of the sources, or on none, which its description says.
StartCommand(n, calls) ==
  \/ /\ recording # 0
     /\ heard' = Hear(recording, calls)
     /\ UNCHANGED <<serviceVars, fileVars, records, number, botched>>
  \/ /\ recording = 0 /\ records < MaxRecords
     /\ records' = records + 1
     /\ current' = records'
     /\ number' = [number EXCEPT ![records'] = n]
     /\ \/ /\ recording' = records' /\ ending' = "no"
           /\ audio' = [audio EXCEPT ![records'] = "open"]
           /\ json' = [json EXCEPT ![records'] = "partial"]
           /\ heard' = Hear(records', calls)
           /\ UNCHANGED botched
        \/ /\ recording' = 0 /\ ending' = "refused"
           /\ json' = [json EXCEPT ![records'] = "failed"]
           /\ UNCHANGED <<audio, heard, botched>>
     /\ UNCHANGED done

\* ACTION_STOP, to the end of r.stop(): the recorder stops, with or without a
\* frame written.  A service without a recording has nothing to stop.
StopCommand ==
  /\ recording' = 0 /\ ending' = "stopped"
  /\ \E a \in {"whole", "empty"} :
       audio' = IF recording # 0 THEN [audio EXCEPT ![recording] = a] ELSE audio
  /\ UNCHANGED <<current, json, done, records, number, heard, botched>>

NoCommand ==
  UNCHANGED <<serviceVars, fileVars, records, number, heard, botched>>

-----------------------------------------------------------------------------
(* The line and the receiver                                               *)

\* What telephony reports: a ringing call hides a connected one.
LineState(calls, r) ==
  IF r # 0 THEN "RINGING" ELSE IF calls # {} THEN "OFFHOOK" ELSE "IDLE"

\* The number of the caller comes with the broadcast, or is blank.
Ringing(r) ==
  /\ lastState' = "RINGING"
  /\ latched' = r \/ UNCHANGED latched
  /\ NoCommand

\* The system may refuse to start the service.
OffHook(n, calls) ==
  /\ lastState' = "OFFHOOK" /\ latched' = n
  /\ StartCommand(n, calls) \/ NoCommand

\* Mutant of Idle: the number stays latched.
IdleLatched ==
  /\ lastState' = "IDLE" /\ UNCHANGED latched
  /\ IF lastState = "OFFHOOK" THEN StopCommand ELSE NoCommand

\* Only a line that was off the hook has a recording to stop.
Idle ==
  /\ lastState' = "IDLE" /\ latched' = 0
  /\ IF lastState = "OFFHOOK" THEN StopCommand ELSE NoCommand

\* onReceive, with n latched: a state that is already known is dropped.
Receive(n, calls, r) ==
  LET s == LineState(calls, r) IN
  \/ /\ s = lastState
     /\ latched' = n /\ UNCHANGED lastState
     /\ UNCHANGED <<serviceVars, fileVars, records, number, botched>>
     /\ heard' = IF recording = 0 THEN heard ELSE Hear(recording, calls)
  \/ s = "RINGING" /\ s # lastState /\ Ringing(r)
  \/ s = "OFFHOOK" /\ s # lastState /\ OffHook(n, calls)
  \/ s = "IDLE" /\ s # lastState /\ Idle

\* The line changes, and the receiver hears of it.
Line(n, calls, r) ==
  /\ ending = "no"
  /\ on' = calls /\ ring' = r
  /\ Receive(n, calls, r)
  /\ UNCHANGED <<marked, mishaps>>

Ring ==
  /\ placed < MaxCalls /\ ring = 0 /\ (on = {} \/ Waiting)
  /\ placed' = placed + 1
  /\ Line(latched, on, placed')
  /\ waited' = IF on = {} THEN waited ELSE waited \cup {placed'}

PickUp ==
  /\ ring # 0
  /\ Line(latched, on \cup {ring}, 0)
  /\ UNCHANGED <<placed, waited>>

RingsOut ==
  /\ ring # 0
  /\ Line(latched, on, 0)
  /\ UNCHANGED <<placed, waited>>

\* NEW_OUTGOING_CALL latches the number, unless it is blank, before the line goes
\* off the hook.
Dial ==
  /\ placed < MaxCalls /\ ring = 0 /\ on = {}
  /\ placed' = placed + 1
  /\ \E n \in {latched, placed'} : Line(n, {placed'}, 0)
  /\ UNCHANGED waited

HangUp ==
  /\ \E k \in on : Line(latched, on \ {k}, ring)
  /\ UNCHANGED <<placed, waited>>

-----------------------------------------------------------------------------
(* The end of a recording                                                  *)

\* Mutant of Describe: the sentinel is written before the description.
DescribeLast ==
  /\ ending = "stopped"
  /\ ending' = "described"
  /\ done' = IF current = 0 THEN done ELSE done \cup {current}
  /\ UNCHANGED <<lineVars, receiverVars, recording, current, audio, json, noteVars,
                 mishaps>>

\* writeMetadata, over a temporary file: the description is replaced as a whole,
\* or not at all.
Describe ==
  /\ ending = "stopped"
  /\ ending' = "described"
  /\ \/ /\ json' = IF current = 0 THEN json ELSE [json EXCEPT ![current] = "final"]
        /\ UNCHANGED botched
        /\ UNCHANGED mishaps
     \/ /\ current # 0 /\ Mishap
        /\ botched' = botched \cup {current} /\ UNCHANGED json
  /\ UNCHANGED <<lineVars, receiverVars, recording, current, audio, done,
                 records, number, heard, marked, waited>>

\* markDone.  After a stop the service goes, and its fields with it.
MarkDone ==
  /\ ending \in {"described", "refused"}
  /\ ending' = "no"
  /\ done' = IF current = 0 THEN done ELSE done \cup {current}
  /\ marked' = IF current = 0 THEN marked ELSE marked \cup {current}
  /\ current' = IF ending = "refused" THEN current ELSE 0
  /\ UNCHANGED <<lineVars, receiverVars, recording, audio, json, records, number,
                 heard, botched, waited, mishaps>>

\* The system takes the service away: onDestroy ends what it records.
Destroy ==
  /\ ending = "no" /\ recording # 0
  /\ StopCommand
  /\ UNCHANGED <<lineVars, receiverVars, marked, waited, mishaps>>

\* The process of the shim dies, and nothing is closed.
ShimDies ==
  /\ Mishap
  /\ recording' = 0 /\ current' = 0 /\ ending' = "no"
  /\ lastState' = "null" /\ latched' = 0
  /\ UNCHANGED <<lineVars, fileVars, records, number, heard, marked, botched,
                 waited>>

ShimNext ==
  \/ Ring \/ PickUp \/ RingsOut \/ Dial \/ HangUp
  \/ Describe \/ MarkDone \/ Destroy \/ ShimDies

-----------------------------------------------------------------------------
\* When the line is idle no microphone stays open: every recording is stopped
\* when its call ends, whatever was refused or died in between, as long as no
\* call waits.  A call that ends while another waits, and the other rings out, is
\* RINGING to IDLE for the receiver, which takes it for a missed call.
RecordingEnds ==
  on = {} /\ ring = 0 => recording = 0 \/ waited # {}

\* A recording bears the number of a call it heard, or none: no number stays
\* latched from one call to the next, again as long as no call waits.
NumberHeard ==
  \A r \in Records :
    audio[r] # "none" => number[r] \in heard[r] \cup {0} \/ waited # {}

\* The recorder follows the line, whatever way a call takes through it.
LineFollowed == RecordingEnds /\ NumberHeard
=============================================================================
