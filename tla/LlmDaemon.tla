----------------------------- MODULE LlmDaemon -----------------------------
(***************************************************************************)
(* The daemon that runs a model on the device (peko-llm-daemon): its start *)
(* and end around a socket that another process of it may share, a pool of *)
(* threads, and the one session with its key-value cache that all requests *)
(* take turns on.                                                          *)
(*                                                                         *)
(* A request is a prompt of some size; what the model says is counted in   *)
(* tokens. The HTTP library (a pool, a socket that is closed by stop, jobs *)
(* that are finished before listen returns), llama.cpp and the clients are *)
(* modelled by what the daemon sees of them.                               *)
(***************************************************************************)
EXTENDS Naturals, FiniteSets, Sequences, SequencesExt

CONSTANTS
  Processes,      \* of the daemon, in the order of their start
  Requests,       \* in the order they come in
  PromptSizes,    \* sizes of prompts, in tokens
  ContextSize,    \* --context
  MaxTokens,      \* --max-tokens; the max_tokens of a request is not looked at
  Threads,        \* of the pool
  MaxUpsets       \* bound: kills, failures of the engine, clients that go

ASSUME DaemonAssumption ==
  /\ Processes \subseteq Nat \ {0} /\ Requests \subseteq Nat \ {0}
  /\ PromptSizes \subseteq Nat \ {0} /\ {ContextSize, MaxTokens, MaxUpsets} \subseteq Nat
  /\ Threads \in Nat \ {0}

Nobody == 0

VARIABLES
  abstract,   \* whether the socket has an abstract name ("@peko-llm")
  daemon,     \* [Processes]: how far main is
  owner,      \* whose socket the name leads to
  overlap,    \* history: processes that were alive at the same time
  stage,      \* [Requests]: where the request is
  at,         \* [Requests]: the process that has it
  prompt,     \* [Requests]: its size
  streamed,   \* [Requests]: stream of the body
  said,       \* [Requests]: n_decoded
  heard,      \* [Requests]: how many tokens reached the client
  outcome,    \* [Requests]: what the client was told at the end
  gone,       \* requests whose client hung up
  holder,     \* [Processes]: gen_mutex_
  cache,      \* [Processes]: the tokens in the cache, by request
  upsets      \* bound: counts the upsets

socketVars  == <<abstract, daemon, owner, overlap>>
requestVars == <<stage, at, prompt, streamed, said, heard, outcome, gone>>
daemonVars  == <<socketVars, requestVars, holder, cache, upsets>>

DaemonTypeOK ==
  /\ abstract \in BOOLEAN /\ owner \in Processes \cup {Nobody}
  /\ daemon \in [Processes -> {"none", "ready", "bound", "listening", "draining", "ended", "failed"}]
  /\ overlap \subseteq Processes /\ gone \subseteq Requests
  /\ stage \in [Requests -> {"new", "queued", "waiting", "generating", "done"}]
  /\ at \in [Requests -> Processes \cup {Nobody}]
  /\ prompt \in [Requests -> PromptSizes \cup {0}] /\ streamed \in [Requests -> BOOLEAN]
  /\ said \in [Requests -> 0..MaxTokens] /\ heard \in [Requests -> 0..MaxTokens]
  /\ outcome \in [Requests -> {"open", "stop", "error", "refused", "broken"}]
  /\ holder \in [Processes -> Requests \cup {Nobody}]
  /\ cache \in [Processes -> [Requests -> 0..ContextSize]]
  /\ upsets \in 0..MaxUpsets

DaemonInit ==
  /\ abstract \in BOOLEAN /\ owner = Nobody /\ overlap = {} /\ gone = {} /\ upsets = 0
  /\ daemon = [d \in Processes |-> "none"]
  /\ stage = [r \in Requests |-> "new"] /\ at = [r \in Requests |-> Nobody]
  /\ prompt = [r \in Requests |-> 0] /\ streamed = [r \in Requests |-> TRUE]
  /\ said = [r \in Requests |-> 0] /\ heard = [r \in Requests |-> 0]
  /\ outcome = [r \in Requests |-> "open"]
  /\ holder = [d \in Processes |-> Nobody]
  /\ cache = [d \in Processes |-> [r \in Requests |-> 0]]

Upset == upsets < MaxUpsets /\ upsets' = upsets + 1

Become(d, state) == daemon' = [daemon EXCEPT ![d] = state]
Alive == {d \in Processes : daemon[d] \notin {"none", "ended", "failed"}}

-----------------------------------------------------------------------------
(* The prompt: the messages of the body and a template.                    *)

Roles == {"system", "user", "assistant", "tool"}
\* A content: a string, text among other parts, or none, as beside tool calls.
Contents == {<<"a">>, <<"a", "image", "b">>, <<>>}

\* from_json: the parts that are text, one after the other.
FromJson(body) ==
  [i \in DOMAIN body |-> [role |-> body[i].role,
                          text |-> SelectSeq(body[i].content, LAMBDA p : p # "image")]]

\* format_prompt for Gemma, which has no role for the system: what it says
\* goes before the first text of the user.
GemmaPrompt(messages) ==
  LET system == FlattenSeq([i \in DOMAIN messages |->
                  IF messages[i].role = "system" THEN messages[i].text ELSE <<>>])
      turns == SelectSeq(messages, LAMBDA m : m.role # "system")
      first(i) == turns[i].role = "user" /\ \A j \in 1..(i - 1) : turns[j].role # "user"
  IN [i \in DOMAIN turns |->
        [role |-> IF turns[i].role = "assistant" THEN "model" ELSE "user",
         text |-> IF first(i) THEN system \o turns[i].text ELSE turns[i].text]]

\* format_prompt: a turn for each message, and one left open for the model.
FormatPrompt(template, messages) ==
  IF template = "gemma" THEN Append(GemmaPrompt(messages), [role |-> "model", text |-> <<>>])
  ELSE Append(messages, [role |-> "assistant", text |-> <<>>])

PromptTexts(turns) == FlattenSeq([i \in DOMAIN turns |-> turns[i].text])

\* All that was said reaches the model, in its order; with Gemma's template
\* what the system said comes first in the first turn of the user, and is lost
\* if there is none.
ASSUME PromptWhole ==
  \A body \in UNION {[1..n -> [role : Roles, content : Contents]] : n \in 0..3} :
    LET m == FromJson(body)
        gemma == FormatPrompt("gemma", m)
        of(who) == SelectSeq(m, LAMBDA x : x.role \in who)
        system == PromptTexts(of({"system"}))
        others == of(Roles \ {"system"})
    IN /\ PromptTexts(FormatPrompt("qwen", m)) = PromptTexts(m)
       /\ Len(PromptTexts(gemma)) = Len(PromptTexts(m)) <=> system = <<>> \/ of({"user"}) # <<>>
       /\ others # <<>> /\ others[1].role = "user" =>
            PromptTexts(gemma) = system \o PromptTexts(others)

-----------------------------------------------------------------------------
(* The process.                                                            *)

\* main up to run: the model is loaded, the handlers of signals are set.
Launch(d) ==
  /\ daemon[d] = "none" /\ \A e \in Processes : e < d => daemon[e] # "none"
  /\ Become(d, "ready")
  /\ overlap' = IF Alive = {} THEN overlap ELSE overlap \cup Alive \cup {d}
  /\ UNCHANGED <<abstract, owner, requestVars, holder, cache, upsets>>

\* bind_unix_socket: whatever file is there is taken for a stale one. An
\* abstract name is no file.
BindUnixSocket(d) ==
  /\ daemon[d] = "ready" /\ Become(d, "bound")
  /\ owner' = IF abstract THEN owner ELSE Nobody
  /\ UNCHANGED <<abstract, overlap, requestVars, holder, cache, upsets>>

\* listen: a name that is taken cannot be bound; then the file is removed all
\* the same.
Listen(d) ==
  /\ daemon[d] = "bound"
  /\ IF owner = Nobody THEN Become(d, "listening") /\ owner' = d
     ELSE Become(d, "failed") /\ owner' = IF abstract THEN owner ELSE Nobody
  /\ UNCHANGED <<abstract, overlap, requestVars, holder, cache, upsets>>

\* SIGTERM: stop closes the socket of a server that listens; an earlier one
\* has no effect.
StopServing(d) ==
  /\ daemon[d] = "listening" /\ Become(d, "draining")
  /\ owner' = IF abstract THEN Nobody ELSE owner
  /\ UNCHANGED <<abstract, overlap, requestVars, holder, cache, upsets>>

Of(d) == {r \in Requests : at[r] = d /\ stage[r] # "done"}

\* listen returns when the pool has finished what it had, and run removes the
\* file, whoever's it is by now.
Exit(d) ==
  /\ daemon[d] = "draining" /\ Of(d) = {} /\ Become(d, "ended")
  /\ owner' = IF abstract THEN owner ELSE Nobody
  /\ UNCHANGED <<abstract, overlap, requestVars, holder, cache, upsets>>

\* The process dies: an abstract name goes with it, a file stays.
Die(d) ==
  /\ Upset /\ Become(d, "ended")
  /\ owner' = IF abstract /\ owner = d THEN Nobody ELSE owner
  /\ stage' = [r \in Requests |-> IF r \in Of(d) THEN "done" ELSE stage[r]]
  /\ outcome' = [r \in Requests |-> IF r \in Of(d) THEN "broken" ELSE outcome[r]]
  /\ holder' = [holder EXCEPT ![d] = Nobody]
  /\ UNCHANGED <<abstract, overlap, at, prompt, streamed, said, heard, gone, cache>>

Kill(d) == d \in Alive /\ Die(d)

-----------------------------------------------------------------------------
(* A request.                                                              *)

\* A client connects and sends: to a process that listens, or to nobody.
Submit(r, size, s) ==
  /\ stage[r] = "new" /\ \A q \in Requests : q < r => stage[q] # "new"
  /\ IF owner # Nobody /\ daemon[owner] = "listening"
     THEN /\ at' = [at EXCEPT ![r] = owner] /\ stage' = [stage EXCEPT ![r] = "queued"]
          /\ prompt' = [prompt EXCEPT ![r] = size] /\ streamed' = [streamed EXCEPT ![r] = s]
          /\ UNCHANGED outcome
     ELSE /\ stage' = [stage EXCEPT ![r] = "done"]
          /\ outcome' = [outcome EXCEPT ![r] = "refused"]
          /\ UNCHANGED <<at, prompt, streamed>>
  /\ UNCHANGED <<socketVars, said, heard, gone, holder, cache, upsets>>

\* A client goes; of one that does not stream the daemon would see nothing.
HangUp(r) ==
  /\ streamed[r] /\ stage[r] \notin {"new", "done"} /\ r \notin gone /\ Upset
  /\ gone' = gone \cup {r}
  /\ UNCHANGED <<socketVars, stage, at, prompt, streamed, said, heard, outcome, holder, cache>>

\* A thread takes the oldest connection, as long as there is one, and comes to
\* the lock of the session; a body that is no request is answered at once.
Handle(r) ==
  /\ stage[r] = "queued"
  /\ \A q \in Of(at[r]) : stage[q] = "queued" => r <= q
  /\ Cardinality({q \in Of(at[r]) : stage[q] # "queued"}) < Threads
  /\ \/ stage' = [stage EXCEPT ![r] = "waiting"] /\ UNCHANGED outcome
     \/ /\ stage' = [stage EXCEPT ![r] = "done"]
        /\ outcome' = [outcome EXCEPT ![r] = "refused"]
  /\ UNCHANGED <<socketVars, at, prompt, streamed, said, heard, gone, holder, cache, upsets>>

\* The end of generate: the lock is given back and the client told; one that
\* does not stream is given the whole text only now, and none with an error.
Finish(r, how) ==
  /\ stage' = [stage EXCEPT ![r] = "done"] /\ holder' = [holder EXCEPT ![at[r]] = Nobody]
  /\ outcome' = [outcome EXCEPT ![r] = how]

\* A slip of Start: the cache is kept.
StartUncleared(r) ==
  /\ stage[r] = "waiting" /\ holder[at[r]] = Nobody
  /\ \/ /\ prompt[r] < ContextSize
        /\ stage' = [stage EXCEPT ![r] = "generating"]
        /\ holder' = [holder EXCEPT ![at[r]] = r]
        /\ cache' = [cache EXCEPT ![at[r]][r] = prompt[r]]
        /\ UNCHANGED <<outcome, upsets>>
     \/ /\ Finish(r, "error") /\ UNCHANGED cache
        /\ IF prompt[r] >= ContextSize THEN UNCHANGED upsets ELSE Upset
  /\ UNCHANGED <<socketVars, at, prompt, streamed, said, heard, gone>>

\* generate up to its loop, under the lock: a cleared cache, the prompt in it,
\* unless it is too long or the engine fails.
Start(r) ==
  /\ stage[r] = "waiting" /\ holder[at[r]] = Nobody
  /\ LET empty == [q \in Requests |-> 0]
     IN \/ /\ prompt[r] < ContextSize
           /\ stage' = [stage EXCEPT ![r] = "generating"]
           /\ holder' = [holder EXCEPT ![at[r]] = r]
           /\ cache' = [cache EXCEPT ![at[r]] = [empty EXCEPT ![r] = prompt[r]]]
           /\ UNCHANGED <<outcome, upsets>>
        \/ /\ Finish(r, "error") /\ cache' = [cache EXCEPT ![at[r]] = empty]
           /\ IF prompt[r] >= ContextSize THEN UNCHANGED upsets ELSE Upset
  /\ UNCHANGED <<socketVars, at, prompt, streamed, said, heard, gone>>

\* A round of the loop: a token is sampled, written to a client that streams,
\* and put into the cache if there is room. A client that left is noticed by
\* writing to it, and not by a token that is no text.
Token(r, silent) ==
  LET d == at[r]
      full == cache[d][r] = ContextSize
  IN /\ stage[r] = "generating" /\ said[r] < MaxTokens
     /\ IF streamed[r] /\ r \in gone /\ ~silent
        THEN Finish(r, "stop") /\ UNCHANGED <<said, heard, cache>>
        ELSE /\ heard' = IF streamed[r] THEN [heard EXCEPT ![r] = said[r] + 1] ELSE heard
             /\ IF full THEN Finish(r, "error") /\ UNCHANGED <<said, cache>>
                ELSE /\ said' = [said EXCEPT ![r] = @ + 1]
                     /\ cache' = [cache EXCEPT ![d][r] = @ + 1]
                     /\ UNCHANGED <<stage, holder, outcome>>
     /\ UNCHANGED <<socketVars, at, prompt, streamed, gone, upsets>>

\* The model ends its text, or max_tokens are reached: both are "stop".
EndOfText(r) ==
  /\ stage[r] = "generating" /\ Finish(r, "stop")
  /\ heard' = [heard EXCEPT ![r] = said[r]]
  /\ UNCHANGED <<socketVars, at, prompt, streamed, said, gone, cache, upsets>>

\* A whole text that stops in the middle of a character cannot be written as
\* JSON: nobody catches the exception, and the process dies of it.
CutText(r) ==
  /\ stage[r] = "generating" /\ ~streamed[r] /\ said[r] > 0
  /\ Die(at[r])

Process(d) == Listen(d) \/ BindUnixSocket(d) \/ Exit(d)
Thread(r) ==
  \/ Handle(r) \/ Start(r) \/ EndOfText(r) \/ CutText(r)
  \/ \E silent \in BOOLEAN : Token(r, silent)

DaemonNext ==
  \/ \E d \in Processes : Launch(d) \/ Process(d) \/ StopServing(d) \/ Kill(d)
  \/ \E r \in Requests, size \in PromptSizes, s \in BOOLEAN : Submit(r, size, s)
  \/ \E r \in Requests : HangUp(r) \/ Thread(r)

DaemonSpec == DaemonInit /\ [][DaemonNext]_daemonVars

-----------------------------------------------------------------------------
\* A request is generated from its own prompt and its own text alone, within
\* the context, whoever had the session before it.
OwnContext ==
  \A d \in Processes : LET r == holder[d] IN r # Nobody =>
    /\ at[r] = d /\ stage[r] = "generating"
    /\ \A q \in Requests : cache[d][q] = IF q = r THEN prompt[r] + said[r] ELSE 0
    /\ cache[d][r] <= ContextSize

\* A client that stayed and is told "stop" has heard all that was said; with
\* an error it has heard no more than the token that had no room.
HeardAll ==
  \A r \in Requests \ gone :
    /\ outcome[r] = "stop" => heard[r] = said[r]
    /\ outcome[r] = "error" => heard[r] \in {0, said[r] + 1}

\* A process that listens is found under its name, unless two of them were
\* alive at once and the name is that of a file: each removes what it finds.
Reachable ==
  \A d \in Processes :
    daemon[d] = "listening" => owner = d \/ (~abstract /\ d \in overlap)

\* What the daemon took in it answers, before a stop as well as after it.
DaemonSettles ==
  /\ \A r \in Requests : stage[r] = "queued" ~> stage[r] = "done"
  /\ \A d \in Processes : daemon[d] = "draining" ~> daemon[d] = "ended"

DaemonAnswers == [](OwnContext /\ HeardAll /\ Reachable) /\ DaemonSettles
=============================================================================
