------------------------------ MODULE BridgeRpc ------------------------------
(***************************************************************************)
(* Requests of the agent's device tools to the overlay app, over files:    *)
(* the client every tool shares (bridge_client.rs), the tools on top of it *)
(* (camera, gps, telephony, audio_pcm) and the dispatcher of one topic in  *)
(* the app (RpcDispatcher.kt; AudioBridgeService.kt has its own copy).     *)
(*                                                                         *)
(* The client writes the request, an input asset if there is one, and then *)
(* a sentinel; the dispatcher's one thread takes the requests in turn and  *)
(* writes asset, answer and sentinel.  The client polls, reads, and on     *)
(* every way out removes the request and the answer.  The app is killed    *)
(* and restarted by the system (its services are never stopped otherwise), *)
(* the agent by init.  File names hold a UUID, so that calls never share   *)
(* files; the body of a request is left out.                               *)
(***************************************************************************)
EXTENDS Naturals, Sequences, FiniteSets

CONSTANTS
  Calls,      \* the requests sent over one topic
  Plans,      \* what the calls may ask for: functions from Calls to Kinds
  MaxLives,   \* bound: lives of the app's process
  MaxFaults   \* bound: failed writes of the dispatcher and deaths of the agent

Kinds == {"record", "tts", "play", "capture", "query"}

ASSUME RpcAssumption ==
  /\ Calls \subseteq Nat \ {0} /\ IsFiniteSet(Calls) /\ Plans \subseteq [Calls -> Kinds]
  /\ MaxLives \in Nat \ {0} /\ MaxFaults \in Nat

NoCall == 0   \* the dispatcher's thread with nothing to do

VARIABLES
  kind,       \* [Calls]: what each call asks for
  phase,      \* [Calls]: the caller, as in RpcContract; "sent" and "read" inside
  saw,        \* [Calls]: the answer the caller has read
  inJson,     \* calls with <id>.json in in/
  inStart,    \* calls with <id>.start in in/
  outJson,    \* [Calls]: "none", "partial", "ok", "err": <id>.json in out/
  outAsset,   \* [Calls]: "none", "partial", "whole": <id>.jpg or .wav in out/
  outDone,    \* calls with <id>.done in out/
  kept,       \* [Calls]: "no", "partial", "whole": the copy under /data/peko
  up,         \* the app's process lives
  life,       \* its number
  notices,    \* FileObserver events not delivered yet
  processed,  \* the dispatcher's map of ids it has taken on
  jobs,       \* the executor's queue
  handling,   \* the call its thread works on
  serving,    \* and where: "take", "run", "json", "done", "clean"
  reply,      \* what the handler returned: "ok" or "err"
  begun,      \* history: [Calls]: lives in which its handler was started
  finished,   \* history: calls whose handler came to its end with ok
  faults      \* bound: counts the faults

callerVars == <<phase, saw, kept>>
fileVarsIn == <<inJson, inStart>>
fileVarsOut == <<outJson, outAsset, outDone>>
threadVars == <<handling, serving, reply>>
appVars    == <<kind, up, life, notices, processed, jobs>>
rpcVars    == <<callerVars, fileVarsIn, fileVarsOut, threadVars, appVars, begun, finished, faults>>

RpcTypeOK ==
  /\ kind \in Plans
  /\ phase \in [Calls -> {"idle", "sent", "asked", "read", "told", "failed", "dead"}]
  /\ saw \in [Calls -> {"none", "ok", "err"}]
  /\ inJson \subseteq Calls /\ inStart \subseteq Calls /\ outDone \subseteq Calls
  /\ outJson \in [Calls -> {"none", "partial", "ok", "err"}]
  /\ outAsset \in [Calls -> {"none", "partial", "whole"}]
  /\ kept \in [Calls -> {"no", "partial", "whole"}]
  /\ up \in BOOLEAN /\ life \in 1..MaxLives
  /\ notices \subseteq Calls /\ processed \subseteq Calls
  /\ jobs \in Seq(Calls) /\ Len(jobs) <= Cardinality(Calls)
  /\ handling \in Calls \cup {NoCall}
  /\ serving \in {"take", "run", "json", "done", "clean"}
  /\ reply \in {"ok", "err"}
  /\ begun \in [Calls -> SUBSET (1..MaxLives)] /\ finished \subseteq Calls
  /\ faults \in 0..MaxFaults

RpcInit ==
  /\ kind \in Plans
  /\ phase = [c \in Calls |-> "idle"] /\ saw = [c \in Calls |-> "none"]
  /\ inJson = {} /\ inStart = {} /\ outDone = {}
  /\ outJson = [c \in Calls |-> "none"] /\ outAsset = [c \in Calls |-> "none"]
  /\ kept = [c \in Calls |-> "no"]
  /\ up = TRUE /\ life = 1 /\ notices = {} /\ processed = {} /\ jobs = <<>>
  /\ handling = NoCall /\ serving = "take" /\ reply = "ok"
  /\ begun = [c \in Calls |-> {}] /\ finished = {} /\ faults = 0

Fault == faults < MaxFaults /\ faults' = faults + 1

-----------------------------------------------------------------------------
\* Those whose answer comes with an asset; and tts plays what it has made.
Produces == {c \in Calls : kind[c] \in {"record", "tts", "capture"}}
After(c) == IF kind[c] = "play" THEN {b \in Calls : kind[b] = "tts"} ELSE {}

\* Those served by AudioBridgeService, which has a dispatcher of its own.
Audio(c) == kind[c] \in {"record", "tts", "play"}

(* The caller: send() and the tool around it.                              *)

\* How long a tool waits: what the model asked for, or the tool's default.
PickTimeout(given, default, least, most) ==
  LET wanted == IF given # {} THEN CHOOSE g \in given : TRUE
                ELSE IF default > least THEN default ELSE least
  IN IF wanted < most THEN wanted ELSE most

\* No tool waits longer than the cap, and none that was not told to waits
\* less than the usual time.
ASSUME TimeoutBounded ==
  \A default \in 0..6, given \in {{}} \cup {{g} : g \in 0..6} :
    /\ PickTimeout(given, default, 2, 4) <= 4
    /\ given = {} => PickTimeout(given, default, 2, 4) >= 2

\* The request and its input are on disk; nobody looks at them yet.
Send(c) ==
  /\ phase[c] = "idle"
  /\ \A b \in After(c) : kept[b] # "no"
  /\ phase' = [phase EXCEPT ![c] = "sent"]
  /\ inJson' = inJson \cup {c}
  /\ UNCHANGED <<saw, kept, inStart, fileVarsOut, threadVars, appVars, begun, finished, faults>>

Sentinel(c) ==
  /\ phase[c] = "sent"
  /\ phase' = [phase EXCEPT ![c] = "asked"]
  /\ inStart' = inStart \cup {c}
  /\ notices' = IF up THEN notices \cup {c} ELSE notices
  /\ UNCHANGED <<saw, kept, inJson, fileVarsOut, threadVars, kind, up, life, processed, jobs, begun, finished, faults>>

\* The guard: every way out of send() removes the request and the answer,
\* but not the asset, which the tool has yet to copy.
CleanUpFiles(c) ==
  /\ inJson' = inJson \ {c} /\ inStart' = inStart \ {c}
  /\ outDone' = outDone \ {c}
  /\ outJson' = [outJson EXCEPT ![c] = "none"]

\* A poll that finds the sentinel reads the answer; one that is missing reads
\* as an error of the bridge.
ReadAnswer(c) ==
  /\ phase[c] = "asked" /\ c \in outDone
  /\ outJson[c] # "partial"
  /\ phase' = [phase EXCEPT ![c] = "read"]
  /\ saw' = [saw EXCEPT ![c] = IF outJson[c] = "ok" THEN "ok" ELSE "err"]
  /\ UNCHANGED <<kept, fileVarsIn, fileVarsOut, threadVars, appVars, begun, finished, faults>>

\* The caller gives up: at its deadline, or because the answer does not parse.
GiveUpCall(c) ==
  /\ phase[c] = "asked"
  /\ c \in outDone => outJson[c] = "partial"
  /\ phase' = [phase EXCEPT ![c] = "failed"]
  /\ CleanUpFiles(c)
  /\ UNCHANGED <<saw, kept, outAsset, threadVars, appVars, begun, finished, faults>>

\* send() returns: with an asset if one that is not empty stands beside the
\* answer.  An answer without the asset it should have is an error to the tool.
Return(c) ==
  /\ phase[c] = "read"
  /\ LET found == outAsset[c] # "none" IN
     phase' = [phase EXCEPT ![c] =
       IF saw[c] = "ok" /\ (c \in Produces => found) THEN "told" ELSE "failed"]
  /\ CleanUpFiles(c)
  /\ UNCHANGED <<saw, kept, outAsset, threadVars, appVars, begun, finished, faults>>

\* persist_asset: the tool copies the asset to where the agent keeps it.
Keep(c) ==
  /\ phase[c] = "told" /\ c \in Produces /\ kept[c] = "no"
  /\ outAsset[c] # "none"
  /\ kept' = [kept EXCEPT ![c] = outAsset[c]]
  /\ UNCHANGED <<phase, saw, fileVarsIn, fileVarsOut, threadVars, appVars, begun, finished, faults>>

\* The agent's process dies: no guard runs.
AgentDies ==
  /\ Fault
  /\ phase' = [c \in Calls |-> IF phase[c] \in {"sent", "asked", "read"} THEN "dead" ELSE phase[c]]
  /\ \E c \in Calls : phase[c] \in {"sent", "asked", "read"}
  /\ UNCHANGED <<saw, kept, fileVarsIn, fileVarsOut, threadVars, appVars, begun, finished>>

-----------------------------------------------------------------------------
(* The dispatcher.                                                         *)

\* onStart, by an event or by the scan when the service starts.
OnStart(c) ==
  /\ up /\ c \in notices
  /\ notices' = notices \ {c}
  /\ IF c \in processed THEN UNCHANGED <<processed, jobs>>
     ELSE processed' = processed \cup {c} /\ jobs' = Append(jobs, c)
  /\ UNCHANGED <<callerVars, fileVarsIn, fileVarsOut, threadVars, kind, up, life, begun, finished, faults>>

\* A slip, for the mutant of the run: the request is not looked for again when
\* its turn comes.
TakeCallBlind ==
  /\ up /\ handling = NoCall /\ jobs # <<>>
  /\ handling' = Head(jobs) /\ jobs' = Tail(jobs)
  /\ serving' = "run" /\ begun' = [begun EXCEPT ![Head(jobs)] = @ \cup {life}]
  /\ UNCHANGED <<callerVars, fileVarsIn, fileVarsOut, kind, up, life, notices, processed, reply, finished, faults>>

\* process(id): the request is read, if it is still there.
TakeCall ==
  /\ up /\ handling = NoCall /\ jobs # <<>>
  /\ handling' = Head(jobs) /\ jobs' = Tail(jobs)
  /\ IF Head(jobs) \in inJson
     THEN /\ serving' = "run"
          /\ begun' = [begun EXCEPT ![Head(jobs)] = @ \cup {life}]
          /\ reply' = reply
     ELSE serving' = "json" /\ reply' = "err" /\ begun' = begun
  /\ UNCHANGED <<callerVars, fileVarsIn, fileVarsOut, kind, up, life, notices, processed, finished, faults>>

\* The handler is under way and its asset is being written.
WriteAsset ==
  /\ up /\ handling \in Produces /\ serving = "run" /\ outAsset[handling] # "partial"
  /\ outAsset' = [outAsset EXCEPT ![handling] = "partial"]
  /\ UNCHANGED <<callerVars, fileVarsIn, outJson, outDone, threadVars, appVars, begun, finished, faults>>

\* What the handlers may end with: the answer and the state of the asset.  An
\* answer of err leaves whatever was written; a handler that throws is one.
Errors(c) == {[reply |-> "err", asset |-> outAsset[c]]}
Written(c) == {[reply |-> "ok", asset |-> "whole"] : x \in {y \in {c} : outAsset[c] = "partial"}}

\* doRecord: the whole WAV is written after the recording.
RecordEnds(c) == Errors(c) \cup Written(c)

\* doCapture: the image listener has written the file before it lets go on.
CaptureEnds(c) == Errors(c) \cup Written(c)

\* doTts: 30 seconds without a word from the engine are no failure; what is in
\* the file by then is the answer.
TtsEnds(c) ==
  Errors(c) \cup Written(c) \cup
  {[reply |-> "ok", asset |-> "partial"] : x \in {y \in {c} : outAsset[c] = "partial"}}

\* doPlay: the input lies beside the request and goes with it.
PlayEnds(c) ==
  Errors(c) \cup {[reply |-> "ok", asset |-> "none"] : x \in {c} \cap inJson}

\* doFix, doInfo, doRouteSet...: an answer without an asset.
QueryEnds(c) == Errors(c) \cup {[reply |-> "ok", asset |-> "none"]}

Outcomes(c) ==
  CASE kind[c] = "record"  -> RecordEnds(c)
    [] kind[c] = "capture" -> CaptureEnds(c)
    [] kind[c] = "tts"     -> TtsEnds(c)
    [] kind[c] = "play"    -> PlayEnds(c)
    [] kind[c] = "query"   -> QueryEnds(c)

HandlerEnds ==
  /\ up /\ handling # NoCall /\ serving = "run"
  /\ \E end \in Outcomes(handling) :
       /\ reply' = end.reply
       /\ outAsset' = [outAsset EXCEPT ![handling] = end.asset]
       /\ finished' = IF end.reply = "ok" THEN finished \cup {handling} ELSE finished
  /\ serving' = "json"
  /\ UNCHANGED <<callerVars, fileVarsIn, outJson, outDone, handling, appVars, begun, faults>>

\* The answer is written in place: the file is cut first and filled then.
OpenJson ==
  /\ up /\ handling # NoCall /\ serving = "json" /\ outJson[handling] # "partial"
  /\ outJson' = [outJson EXCEPT ![handling] = "partial"]
  /\ UNCHANGED <<callerVars, fileVarsIn, outAsset, outDone, threadVars, appVars, begun, finished, faults>>

FillJson ==
  /\ up /\ handling # NoCall /\ serving = "json" /\ outJson[handling] = "partial"
  /\ outJson' = [outJson EXCEPT ![handling] = reply]
  /\ serving' = "done"
  /\ UNCHANGED <<callerVars, fileVarsIn, outAsset, outDone, handling, reply, appVars, begun, finished, faults>>

WriteDone ==
  /\ up /\ handling # NoCall /\ serving = "done"
  /\ outDone' = outDone \cup {handling}
  /\ serving' = "clean"
  /\ UNCHANGED <<callerVars, fileVarsIn, outJson, outAsset, handling, reply, appVars, begun, finished, faults>>

\* A write throws.  RpcDispatcher writes an error in its stead; failing that,
\* only the sentinel (the file that could not be filled is taken for the
\* answer); failing that, nothing.
WriteThrows ==
  /\ up /\ handling # NoCall /\ ~Audio(handling) /\ serving \in {"json", "done"} /\ Fault
  /\ \/ /\ outJson' = [outJson EXCEPT ![handling] = "err"]
        /\ outDone' = outDone \cup {handling}
     \/ outDone' = outDone \cup {handling} /\ outJson' = outJson
     \/ UNCHANGED <<outJson, outDone>>
  /\ serving' = "clean"
  /\ UNCHANGED <<callerVars, fileVarsIn, outAsset, handling, reply, appVars, begun, finished>>

\* AudioBridgeService writes an error, too; if that throws as well, nobody
\* catches it: the inputs are removed and the app's process ends.
AudioThrows ==
  /\ up /\ handling # NoCall /\ Audio(handling) /\ serving \in {"json", "done"} /\ Fault
  /\ \/ /\ outJson' = [outJson EXCEPT ![handling] = "err"]
        /\ outDone' = outDone \cup {handling}
        /\ serving' = "clean"
        /\ UNCHANGED <<fileVarsIn, handling, appVars>>
     \/ /\ life < MaxLives
        /\ up' = FALSE /\ notices' = {} /\ processed' = {} /\ jobs' = <<>>
        /\ inJson' = inJson \ {handling} /\ inStart' = inStart \ {handling}
        /\ handling' = NoCall /\ serving' = "take"
        /\ UNCHANGED <<outJson, outDone, kind, life>>
  /\ UNCHANGED <<callerVars, outAsset, reply, begun, finished>>

CleanInput ==
  /\ up /\ handling # NoCall /\ serving = "clean"
  /\ inJson' = inJson \ {handling} /\ inStart' = inStart \ {handling}
  /\ handling' = NoCall /\ serving' = "take"
  /\ UNCHANGED <<callerVars, fileVarsOut, reply, appVars, begun, finished, faults>>

\* The system kills the app's process, and starts it again.
AppDies ==
  /\ up /\ life < MaxLives
  /\ up' = FALSE /\ notices' = {} /\ processed' = {} /\ jobs' = <<>>
  /\ handling' = NoCall /\ serving' = "take"
  /\ UNCHANGED <<callerVars, fileVarsIn, fileVarsOut, kind, life, reply, begun, finished, faults>>

AppStarts ==
  /\ ~up /\ up' = TRUE /\ life' = life + 1
  /\ notices' = inStart
  /\ UNCHANGED <<callerVars, fileVarsIn, fileVarsOut, threadVars, kind, processed, jobs, begun, finished, faults>>

Dispatch == TakeCall \/ WriteAsset \/ HandlerEnds \/ OpenJson \/ FillJson \/ WriteDone \/ CleanInput

Caller(c) == ReadAnswer(c) \/ GiveUpCall(c) \/ Return(c)

RpcNext ==
  \/ \E c \in Calls : Send(c) \/ Sentinel(c) \/ Caller(c) \/ Keep(c) \/ OnStart(c)
  \/ Dispatch \/ WriteThrows \/ AudioThrows \/ AppDies \/ AppStarts \/ AgentDies

-----------------------------------------------------------------------------
RpcSpec == RpcInit /\ [][RpcNext]_rpcVars

\* What the caller's files and steps amount to.
Contract == INSTANCE RpcContract WITH
  phase <- [c \in Calls |-> IF phase[c] = "sent" THEN "asked"
                            ELSE IF phase[c] = "read" THEN "asked" ELSE phase[c]],
  hasty <- {c \in Calls : kind[c] = "tts"},
  working <- IF serving = "run" THEN {handling} ELSE {},
  life <- IF up THEN life ELSE life + 1

\* The files implement the contract of a request: bridge_client.rs and the
\* dispatchers never start on a request whose caller has gone, never twice in
\* one life, and say ok only of work that was done; what a tool keeps is whole
\* unless the app died and answered twice; and every call returns.
RpcImplements == Contract!ContractSpec
=============================================================================
