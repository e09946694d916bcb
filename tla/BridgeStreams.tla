---------------------------- MODULE BridgeStreams ----------------------------
(***************************************************************************)
(* The continuous captures of the overlay app: camera frames               *)
(* (CameraBridgeService.kt), ambient sound (AudioBridgeService.kt) and     *)
(* positions (LocationBridgeService.kt), which end up in the journal.      *)
(* Requests run on the one thread of the service's dispatcher; frames and  *)
(* the camera's callbacks on the camera's handler thread; ambient sound on *)
(* a thread of its own.  The three share only the journal, so a behaviour  *)
(* is about one of them.                                                   *)
(***************************************************************************)
EXTENDS EventJournal

CONSTANTS
  Devices,       \* which of "camera", "mic", "gps" to look at
  MaxRequests,   \* bound: requests to start something
  MaxFrames      \* max_frames of a limited stream

ASSUME StreamsAssumption ==
  /\ Devices \subseteq {"camera", "mic", "gps"}
  /\ MaxRequests \in Nat /\ MaxFrames \in Nat \ {0}

VARIABLES
  device,     \* the service this behaviour is about
  requests,   \* bound: counts the requests
  place,      \* the dispatcher's thread: "idle", or where in a request it is
  purpose,    \* of that request: "capture", "stream"
  cam,        \* the camera it opened: "closed", "open", "gone"
  orphans,    \* opens nobody waits for any more
  leaked,     \* cameras opened by those
  slot,       \* activeStream # null
  running,    \* the stream's running flag
  limited,    \* whether it has a max_frames
  frames,     \* its frameCount
  flying,     \* captures asked for whose image is not there yet
  quick,      \* history: the last frame came before the stream was registered
  mic,        \* ambientThread (0: null)
  threads,    \* [1..MaxRequests]: "none", "born", "reading", "ended"
  early,      \* history: threads that looked before they were assigned
  broken,     \* history: threads ended by an exception
  listening   \* activeStreams of the location service

camVars == <<purpose, cam, orphans, leaked, slot, running, limited, frames, flying, quick>>
micVars == <<mic, threads, early, broken>>
streamVars == <<journalVars, device, requests, place, camVars, micVars, listening>>
Threads == 1..MaxRequests

StreamsTypeOK ==
  /\ JournalTypeOK
  /\ device \in Devices /\ requests \in 0..MaxRequests
  /\ place \in {"idle", "opening", "session", "posted", "assign"}
  /\ purpose \in {"capture", "stream"} /\ cam \in {"closed", "open", "gone"}
  /\ orphans \in 0..MaxRequests /\ leaked \in 0..MaxRequests
  /\ {slot, running, limited, quick} \subseteq BOOLEAN
  /\ frames \in 0..MaxRows /\ flying \in 0..2
  /\ mic \in Threads \cup {0}
  /\ threads \in [Threads -> {"none", "born", "reading", "ended"}]
  /\ early \subseteq Threads /\ broken \subseteq Threads /\ listening \in BOOLEAN

StreamsInit ==
  /\ JournalInit /\ device \in Devices /\ requests = 0 /\ place = "idle"
  /\ purpose = "capture" /\ cam = "closed" /\ orphans = 0 /\ leaked = 0
  /\ slot = FALSE /\ running = FALSE /\ limited = FALSE /\ frames = 0 /\ flying = 0
  /\ quick = FALSE /\ mic = 0 /\ threads = [t \in Threads |-> "none"]
  /\ early = {} /\ broken = {} /\ listening = FALSE

Request == requests < MaxRequests /\ requests' = requests + 1

-----------------------------------------------------------------------------
(* The camera.                                                             *)

\* doCapture, doStartStream: refused while a stream is registered; both then
\* open the camera and wait for it.
OpenCamera(what) ==
  /\ place = "idle" /\ ~slot /\ Request
  /\ place' = "opening" /\ purpose' = what
  /\ UNCHANGED <<cam, orphans, leaked, slot, running, limited, frames, flying, quick>>

\* onOpened, onError and onDisconnected, or five seconds without any of them.
CameraOpened ==
  /\ place = "opening" /\ place' = "session" /\ cam' = "open"
  /\ UNCHANGED <<requests, purpose, orphans, leaked, slot, running, limited, frames, flying, quick>>
CameraFails ==
  /\ place = "opening" /\ place' = "idle"
  /\ UNCHANGED <<requests, camVars>>
OpenTimesOut ==
  /\ place = "opening" /\ place' = "idle" /\ orphans' = orphans + 1
  /\ UNCHANGED <<requests, purpose, cam, leaked, slot, running, limited, frames, flying, quick>>

\* The callback comes after all: nobody closes that camera.
OpenedLate ==
  /\ orphans > 0 /\ orphans' = orphans - 1 /\ leaked' = leaked + 1
  /\ UNCHANGED <<requests, place, purpose, cam, slot, running, limited, frames, flying, quick>>

\* No session: both ways close the camera.
SessionFailsOpen ==   \* a slip: without closing it
  /\ place = "session" /\ place' = "idle"
  /\ UNCHANGED <<requests, camVars>>
SessionFails ==
  /\ place = "session" /\ place' = "idle" /\ cam' = "closed"
  /\ UNCHANGED <<requests, purpose, orphans, leaked, slot, running, limited, frames, flying, quick>>

\* A still is taken, or not in time; the camera is closed either way.
StillTaken ==
  /\ place = "session" /\ purpose = "capture" /\ place' = "idle" /\ cam' = "closed"
  /\ UNCHANGED <<requests, purpose, orphans, leaked, slot, running, limited, frames, flying, quick>>

\* The stream's ticker is posted before the stream is registered.
PostTicker ==
  /\ place = "session" /\ purpose = "stream" /\ place' = "posted"
  /\ running' = TRUE /\ frames' = 0 /\ flying' = 0 /\ limited' \in BOOLEAN /\ quick' = FALSE
  /\ UNCHANGED <<requests, purpose, cam, orphans, leaked, slot>>
RegisterStream ==
  /\ place = "posted" /\ place' = "idle" /\ slot' = TRUE
  /\ UNCHANGED <<requests, purpose, cam, orphans, leaked, running, limited, frames, flying, quick>>

Streaming == place = "posted" \/ slot
Tick ==
  /\ Streaming /\ running /\ cam = "open" /\ flying < 2
  /\ flying' = flying + 1
  /\ UNCHANGED <<requests, place, purpose, cam, orphans, leaked, slot, running, limited, frames, quick>>

\* stopStreamInternal: whoever empties the slot closes the camera.
StopInternal == slot' = FALSE /\ running' = FALSE /\ cam' = "closed" /\ flying' = 0

\* An image: written down if the stream runs, and counted; at the limit the
\* stream is stopped if it is registered, also by an image that comes later.
Image ==
  /\ Streaming /\ flying > 0 /\ cam = "open"
  /\ frames' = IF running THEN frames + 1 ELSE frames
  /\ IF running THEN AppendEvent ELSE UNCHANGED journalVars
  /\ \/ ~(limited /\ frames' >= MaxFrames)
        /\ flying' = flying - 1 /\ UNCHANGED <<slot, running, cam, quick>>
     \/ limited /\ frames' >= MaxFrames /\ slot
        /\ StopInternal /\ quick' = quick
     \/ limited /\ frames' >= MaxFrames /\ ~slot
        /\ running' = FALSE /\ quick' = TRUE /\ flying' = flying - 1 /\ UNCHANGED <<slot, cam>>
  /\ UNCHANGED <<requests, place, purpose, orphans, leaked, limited>>

StopStream ==
  /\ place = "idle" /\ slot /\ StopInternal
  /\ UNCHANGED <<requests, place, purpose, orphans, leaked, limited, frames, quick>>

\* The camera is taken away; the stream stays registered until it is stopped.
CameraGone ==
  /\ Streaming /\ cam = "open" /\ cam' = "gone"
  /\ UNCHANGED <<requests, place, purpose, orphans, leaked, slot, running, limited, frames, flying, quick>>

CameraNext ==
  \/ /\ \/ \E what \in {"capture", "stream"} : OpenCamera(what)
        \/ CameraOpened \/ CameraFails \/ OpenTimesOut \/ OpenedLate
        \/ SessionFails \/ StillTaken \/ PostTicker \/ RegisterStream
        \/ Tick \/ StopStream \/ CameraGone
     /\ UNCHANGED journalVars
  \/ Image

-----------------------------------------------------------------------------
(* Ambient sound.                                                          *)

\* doStartAmbient creates the thread, which starts at once, and assigns it.
StartAmbient ==
  /\ place = "idle" /\ mic = 0 /\ Request
  /\ threads' = [threads EXCEPT ![requests + 1] = "born"]
  /\ place' = "assign"
  /\ UNCHANGED <<journalVars, mic, early, broken>>
AssignThread ==
  /\ place = "assign" /\ mic' = requests /\ place' = "idle"
  /\ UNCHANGED <<journalVars, requests, threads, early, broken>>

\* The thread's loop: as long as it is the assigned one.
ThreadLooks(t) ==
  /\ threads[t] \in {"born", "reading"}
  /\ threads' = [threads EXCEPT ![t] = IF mic = t THEN "reading" ELSE "ended"]
  /\ early' = IF threads[t] = "born" /\ mic # t /\ place = "assign" THEN early \cup {t} ELSE early
  /\ UNCHANGED <<journalVars, requests, place, mic, broken>>
Window(t) ==
  /\ threads[t] = "reading" /\ AppendEvent
  /\ UNCHANGED <<requests, place, micVars>>
RecorderFails(t) ==
  /\ threads[t] \in {"born", "reading"}
  /\ threads' = [threads EXCEPT ![t] = "ended"] /\ broken' = broken \cup {t}
  /\ UNCHANGED <<journalVars, requests, place, mic, early>>

\* doStopAmbient: whether or not the thread ends within two seconds.
StopAmbient ==
  /\ place = "idle" /\ mic # 0 /\ mic' = 0
  /\ UNCHANGED <<journalVars, requests, place, threads, early, broken>>

MicNext ==
  \/ StartAmbient \/ AssignThread \/ StopAmbient
  \/ \E t \in Threads : ThreadLooks(t) \/ Window(t) \/ RecorderFails(t)

-----------------------------------------------------------------------------
(* Positions.                                                              *)

StartUpdates ==
  /\ place = "idle" /\ ~listening /\ Request
  /\ listening' \in BOOLEAN   \* refused, disabled, or requested
  /\ UNCHANGED <<journalVars, place>>
Position == listening /\ AppendEvent /\ UNCHANGED <<requests, place, listening>>
StopUpdates ==
  /\ listening /\ listening' = FALSE
  /\ UNCHANGED <<journalVars, requests, place>>

StreamsNext ==
  /\ UNCHANGED device
  /\ \/ device = "camera" /\ CameraNext /\ UNCHANGED <<micVars, listening>>
     \/ device = "mic" /\ MicNext /\ UNCHANGED <<camVars, listening>>
     \/ device = "gps" /\ (StartUpdates \/ Position \/ StopUpdates) /\ UNCHANGED <<camVars, micVars>>
     \/ JournalNext /\ UNCHANGED <<requests, place, camVars, micVars, listening>>

StreamsSpec == StreamsInit /\ [][StreamsNext]_streamVars

-----------------------------------------------------------------------------
\* Nothing captures that no request can stop, and nothing is taken for running
\* that is not.  The exceptions have names: a camera that opens after its five
\* seconds, a stream whose last frame came before it was registered, a thread
\* that looked before it was assigned or that died of an exception.
CapturesAccounted ==
  /\ cam # "closed" => place # "idle" \/ slot
  /\ slot /\ ~running => quick
  /\ \A t \in Threads : mic = t /\ threads[t] = "ended" => t \in early \cup broken
=============================================================================
