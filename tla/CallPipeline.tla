---------------------------- MODULE CallPipeline ----------------------------
(***************************************************************************)
(* The collecting side of the call pipeline                                *)
(* (peko-core/src/call_pipeline.rs): every ten seconds, when [calls] is    *)
(* enabled, it takes the recordings whose sentinel is there, uploads the   *)
(* audio, has the transcript summarised and remembers the summary.  The    *)
(* row of a call is the only thing that survives a crash with the files;   *)
(* what is not in the model: the wording, the notification, the list.      *)
(***************************************************************************)
EXTENDS CallRecording

VARIABLES
  enabled,    \* [calls].enabled of the live configuration
  step,       \* where the tick stands, "sleep" between two of them
  todo,       \* sentinels of this tick still to be looked at
  at,         \* the recording in hand (0: none)
  row,        \* [Records]: the state column, "none" without a row
  uploads,    \* [Records]: audio uploads begun
  remembered, \* [Records]: summaries saved in the memory store
  old,        \* recordings whose files are past retain_audio_days
  cut         \* history: recordings a crash or a refusal cut short

pipeVars  == <<step, todo, at>>
callVars  == <<shimVars, mishaps, enabled, pipeVars, row, uploads, remembered, old, cut>>

Steps == {"sleep", "next", "key", "stt", "summary", "memory", "cleanup",
          "cleaned", "keep", "sweep"}

CallsTypeOK ==
  /\ ShimTypeOK
  /\ enabled \in BOOLEAN /\ step \in Steps
  /\ todo \subseteq Records /\ at \in Records \cup {0}
  /\ row \in [Records -> {"none", "recorded", "transcribed", "summarised",
                          "skipped", "error"}]
  /\ uploads \in [Records -> Nat] /\ remembered \in [Records -> Nat]
  /\ old \subseteq Records /\ cut \subseteq Records

CallsInit ==
  /\ ShimInit
  /\ enabled \in BOOLEAN /\ step = "sleep" /\ todo = {} /\ at = 0
  /\ row = [r \in Records |-> "none"]
  /\ uploads = [r \in Records |-> 0] /\ remembered = [r \in Records |-> 0]
  /\ old = {} /\ cut = {}

-----------------------------------------------------------------------------
(* tick                                                                    *)

\* Mutant of Poll: the sweep comes first.
PollSwept ==
  /\ step = "sleep" /\ enabled
  /\ todo' = done /\ step' = "next"
  /\ audio' = [r \in Records |-> IF r \in old THEN "none" ELSE audio[r]]
  /\ json' = [r \in Records |-> IF r \in old THEN "none" ELSE json[r]]
  /\ UNCHANGED <<lineVars, receiverVars, serviceVars, done, noteVars, enabled, at,
                 row, uploads, remembered, old, cut, mishaps>>

Poll ==
  /\ step = "sleep" /\ enabled
  /\ todo' = done /\ step' = "next"
  /\ UNCHANGED <<shimVars, enabled, at, row, uploads, remembered, old, cut, mishaps>>

\* process_one failed: the error is noted unless the store is locked, and the
\* sentinel goes, so that nothing is tried again.
GiveUp(r) ==
  /\ \/ UNCHANGED row
     \/ row[r] # "none" /\ row' = [row EXCEPT ![r] = "error"]
  /\ done' = done \ {r}
  /\ step' = "next" /\ at' = 0

\* Without audio, or with an error in its description; any call may be too short.
MustSkip(r) == audio[r] # "whole" \/ json[r] # "final"

Insert(r) ==
  /\ at' = r
  /\ \/ /\ row' = [row EXCEPT ![r] = "skipped"] /\ step' = "cleanup"
     \/ /\ ~MustSkip(r)
        /\ row' = [row EXCEPT ![r] = "recorded"] /\ step' = "key"
  /\ UNCHANGED done

\* process_one, up to the row: a call that has one already, or no description,
\* only loses its sentinel.
Take(r) ==
  /\ step = "next" /\ r \in todo
  /\ todo' = todo \ {r}
  /\ IF row[r] # "none" \/ json[r] = "none"
     THEN /\ done' = done \ {r} /\ UNCHANGED <<step, at, row, cut, mishaps>>
     ELSE \/ Insert(r) /\ UNCHANGED <<cut, mishaps>>
          \/ /\ Mishap /\ cut' = cut \cup {r}
             /\ GiveUp(r)
  /\ UNCHANGED <<lineVars, receiverVars, serviceVars, audio, json, noteVars,
                 enabled, uploads, remembered, old>>

\* Storing a step of the call fails, and the failure ends its processing.
CutShort == Mishap /\ cut' = cut \cup {at} /\ GiveUp(at)

\* Without a key the call is skipped; with one its audio is sent.
Upload ==
  /\ step = "key"
  /\ \/ /\ row' = [row EXCEPT ![at] = "skipped"] /\ step' = "cleanup"
        /\ UNCHANGED <<uploads, done, at, cut, mishaps>>
     \/ /\ uploads' = [uploads EXCEPT ![at] = @ + 1] /\ step' = "stt"
        /\ UNCHANGED <<row, done, at, cut, mishaps>>
     \/ CutShort /\ UNCHANGED uploads
  /\ UNCHANGED <<lineVars, receiverVars, serviceVars, audio, json, noteVars,
                 enabled, todo, remembered, old>>

\* Mutant of Transcribe: a failed upload leaves the row as it is.
TranscribeSilent ==
  /\ step = "stt"
  /\ \/ /\ row' = [row EXCEPT ![at] = "transcribed"] /\ step' = "summary"
        /\ UNCHANGED <<done, at, cut, mishaps>>
     \/ /\ step' = "keep" /\ UNCHANGED <<row, done, at, cut, mishaps>>
     \/ CutShort
  /\ UNCHANGED <<lineVars, receiverVars, serviceVars, audio, json, noteVars,
                 enabled, todo, uploads, remembered, old>>

\* The answer, an error or an empty transcript; storing it may be refused.
Transcribe ==
  /\ step = "stt"
  /\ \/ /\ row' = [row EXCEPT ![at] = "transcribed"] /\ step' = "summary"
        /\ UNCHANGED <<done, at, cut, mishaps>>
     \/ /\ row' = [row EXCEPT ![at] = "error"] /\ step' = "keep"
        /\ UNCHANGED <<done, at, cut, mishaps>>
     \/ CutShort
  /\ UNCHANGED <<lineVars, receiverVars, serviceVars, audio, json, noteVars,
                 enabled, todo, uploads, remembered, old>>

\* A summary, or none: without a provider, or when it fails, the transcript is
\* what there is.
Summarise ==
  /\ step = "summary"
  /\ \/ /\ row' = [row EXCEPT ![at] = "summarised"] /\ step' = "memory"
        /\ UNCHANGED <<done, at, cut, mishaps>>
     \/ /\ step' = "cleanup" /\ UNCHANGED <<row, done, at, cut, mishaps>>
     \/ CutShort
  /\ UNCHANGED <<lineVars, receiverVars, serviceVars, audio, json, noteVars,
                 enabled, todo, uploads, remembered, old>>

\* persist_to_memory and the notification, whose failures are only logged.
Remember ==
  /\ step = "memory"
  /\ \/ remembered' = [remembered EXCEPT ![at] = @ + 1]
     \/ UNCHANGED remembered
  /\ step' = "cleanup"
  /\ UNCHANGED <<shimVars, enabled, todo, at, row, uploads, old, cut, mishaps>>

\* cleanup and cleanup_keep_audio: the files first ...
CleanUp ==
  /\ step \in {"cleanup", "keep"}
  /\ json' = [json EXCEPT ![at] = "none"]
  /\ audio' = IF step = "cleanup" THEN [audio EXCEPT ![at] = "none"] ELSE audio
  /\ step' = "cleaned"
  /\ UNCHANGED <<lineVars, receiverVars, serviceVars, done, noteVars, enabled, todo,
                 at, row, uploads, remembered, old, cut, mishaps>>

\* ... then the sentinel.
CleanedUp ==
  /\ step = "cleaned"
  /\ done' = done \ {at}
  /\ step' = "next" /\ at' = 0
  /\ UNCHANGED <<lineVars, receiverVars, serviceVars, audio, json, noteVars,
                 enabled, todo, row, uploads, remembered, old, cut, mishaps>>

EndTick ==
  /\ step = "next" /\ todo = {}
  /\ step' \in {"sweep", "sleep"}
  /\ UNCHANGED <<shimVars, enabled, todo, at, row, uploads, remembered, old, cut,
                 mishaps>>

\* sweep_old_audio, once an hour: audio and descriptions go, sentinels stay.
Sweep ==
  /\ step = "sweep"
  /\ audio' = [r \in Records |-> IF r \in old THEN "none" ELSE audio[r]]
  /\ json' = [r \in Records |-> IF r \in old THEN "none" ELSE json[r]]
  /\ step' = "sleep"
  /\ UNCHANGED <<lineVars, receiverVars, serviceVars, done, noteVars, enabled, todo,
                 at, row, uploads, remembered, old, cut, mishaps>>

Pipeline ==
  \/ Poll \/ (\E r \in Records : Take(r)) \/ Upload \/ Transcribe \/ Summarise
  \/ Remember \/ CleanUp \/ CleanedUp \/ EndTick \/ Sweep

-----------------------------------------------------------------------------
\* Days pass between two ticks, not within one, nor within a call.
DaysPass ==
  /\ step = "sleep"
  /\ old' = old \cup {r \in 1..records : r # current}
  /\ UNCHANGED <<shimVars, enabled, pipeVars, row, uploads, remembered, cut, mishaps>>

\* The web UI changes the live configuration.
Toggle ==
  /\ Mishap
  /\ enabled' = ~enabled
  /\ UNCHANGED <<shimVars, pipeVars, row, uploads, remembered, old, cut>>

\* The agent dies and is started again.
AgentCrash ==
  /\ Mishap
  /\ cut' = IF at = 0 THEN cut ELSE cut \cup {at}
  /\ step' = "sleep" /\ todo' = {} /\ at' = 0
  /\ UNCHANGED <<shimVars, enabled, row, uploads, remembered, old>>

Agent == Pipeline \/ DaysPass \/ Toggle \/ AgentCrash
Shim  == ShimNext /\ UNCHANGED <<enabled, pipeVars, row, uploads, remembered, old,
                                 cut>>

CallsNext == Agent \/ Shim
CallsSpec == CallsInit /\ [][CallsNext]_callVars

-----------------------------------------------------------------------------
\* A call is uploaded and remembered at most once, through every crash: what is
\* paid for is not paid for again.
UploadedOnce == \A r \in Records : uploads[r] <= 1 /\ remembered[r] <= 1

\* What waits to be collected is whole: the sentinel comes after audio and
\* description, and the sweep does not take them from under it.
CollectableWhole ==
  \A r \in done \ botched :
    row[r] = "none" => json[r] \in {"final", "failed"} /\ audio[r] # "open"

\* What is collected is whole, and it is paid for once.
CollectedOnce == UploadedOnce /\ CollectableWhole

\* A recording that was finished waits for collection, is in hand, or has a row
\* that says what became of it, unless a crash or SQLite cut its processing short
\* or its description could not be written.
Accounted ==
  \A r \in marked \ (cut \cup botched) :
    \/ r \in done \/ r = at
    \/ row[r] \in {"transcribed", "summarised", "skipped", "error"}
=============================================================================
