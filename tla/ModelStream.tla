---------------------------- MODULE ModelStream ----------------------------
(***************************************************************************)
(* A reply of a language model on its way into a run: the chain of         *)
(* providers that is asked, the frames of a reply cut into chunks anywhere,*)
(* the parser that puts them together, and the accumulator of run_task and *)
(* run_turn that makes tool calls of them.  The in-process model is a      *)
(* provider of its own: it finds its calls in the text it generates.       *)
(*                                                                         *)
(* A reply is MaxToolCalls calls or fewer, the input of each in two        *)
(* pieces.                                                                 *)
(***************************************************************************)
EXTENDS Naturals, Sequences

CONSTANTS Styles,     \* of {"anthropic", "openai", "socket", "embedded"}
          MaxToolCalls

ASSUME StreamAssumption ==
  /\ Styles \subseteq {"anthropic", "openai", "socket", "embedded"}
  /\ MaxToolCalls \in Nat

LastProvider == 2
Loops == {"run_task", "run_turn"}
ReplyStages == {"asking", "reading", "taken", "failed", "spinning"}

VARIABLES
  reply,      \* how many calls the model makes
  style,      \* the format of the provider that answers
  entry,      \* which of the two loops reads the stream
  split,      \* embedded: whether the model's marker comes as two tokens
  asked,      \* the provider of the chain that is being asked
  stage,
  arrived,    \* how much of the stream has come: half frames, or tokens
  buffer,     \* how much of it lies before what the parser still holds
  inCall,     \* embedded: in_tool_call
  taking,     \* current_tool_name (0 is empty), current_tool_input, tool_calls
  howEnded    \* how the stream ended

replyVars == <<reply, style, entry, split, asked, stage, arrived, buffer, inCall, taking, howEnded>>

-----------------------------------------------------------------------------
(* What a provider sends.  A stream never changes, so it is not a variable: *)
(* it is its frames by their numbers, two halves each, or its tokens.       *)

Frame(t, c, n) == [t |-> t, c |-> c, n |-> n]

\* The frames of one call: it begins, its input comes in two pieces, and
\* Anthropic's format closes the block; OpenAI's does not.
PerCall == IF style = "anthropic" THEN 4 ELSE 3

CallFrame(c, k) ==
  CASE k = 0 -> Frame("start", c, 0)
    [] k \in {1, 2} -> Frame("input", c, k)
    [] k = 3 -> Frame("stop", c, 0)

FrameAt(i) == IF i > reply * PerCall THEN Frame("finish", 0, 0)
              ELSE CallFrame(1 + ((i - 1) \div PerCall), (i - 1) % PerCall)

\* The tokens of the in-process model for the same calls.
CallTokens == IF split THEN <<"ticks", "word", "body", "close", "text">>
                       ELSE <<"mark", "body", "close", "text">>
TokensPerCall == IF split THEN 5 ELSE 4
TokenAt(i) == CallTokens[1 + ((i - 1) % TokensPerCall)]

StreamLength == IF style = "embedded" THEN reply * TokensPerCall ELSE 2 * (reply * PerCall + 1)

-----------------------------------------------------------------------------
(* The accumulator. *)

NothingTaken == [name |-> 0, input |-> "none", calls |-> <<>>]

\* The pieces of an input behind each other.
Joined(input, n) ==
  IF input = "none" /\ n = 1 THEN "first"
  ELSE IF input = "first" /\ n = 2 THEN "whole" ELSE "other"

\* What the tool is called with: run_task marks an input that is no JSON,
\* run_turn calls the tool with no arguments.
Arguments(input) ==
  IF input = "none" THEN "empty"
  ELSE IF input = "whole" THEN "whole"
  ELSE IF entry = "run_task" THEN "malformed" ELSE "empty"

Call(c, input) == [c |-> c, input |-> input]

Finalize(acc) ==
  IF acc.name = 0 THEN acc
  ELSE [name |-> 0, input |-> "none",
        calls |-> Append(acc.calls, Call(acc.name, Arguments(acc.input)))]

Taken(acc, event) ==
  CASE event.t = "start" -> [acc EXCEPT !.name = event.c, !.input = "none"]
    [] event.t = "input" -> [acc EXCEPT !.input = Joined(@, event.n)]
    [] event.t \in {"stop", "finish"} -> Finalize(acc)

-----------------------------------------------------------------------------
ReplyInit ==
  /\ style \in Styles /\ entry \in Loops
  /\ split \in (IF style = "embedded" THEN BOOLEAN ELSE {FALSE})
  /\ asked = 1 /\ stage = "asking"
  /\ reply \in 0..MaxToolCalls
  /\ arrived = 0 /\ buffer = 0 /\ inCall = FALSE
  /\ taking = NothingTaken /\ howEnded = "none"

\* What the errors of a provider read like: a status the chain retries, one
\* it does not, a server that cannot be reached ("error sending request for
\* url") and a daemon that is not there ("UDS connect failed (...): Connection
\* refused"): the last two hold none of the chain's words.
Errors == {"429", "500", "502", "503", "401",
           "error sending request", "Connection refused"}
IsRetryable(e) == e \in {"429", "500", "502", "503"}

\* ProviderChain: an error that may pass goes on to the next provider.
AskNext ==
  /\ stage = "asking" /\ style # "embedded"
  /\ \E e \in Errors : IsRetryable(e) /\ asked < LastProvider
  /\ asked' = asked + 1
  /\ UNCHANGED <<reply, style, entry, split, stage, arrived, buffer, inCall, taking, howEnded>>

AskFails ==
  /\ stage = "asking" /\ style # "embedded"
  /\ \E e \in Errors : ~IsRetryable(e) \/ asked = LastProvider
  /\ stage' = "failed"
  /\ UNCHANGED <<reply, style, entry, split, asked, arrived, buffer, inCall, taking, howEnded>>

\* The answer begins: from here on no other provider is asked.
Answers ==
  /\ stage = "asking" /\ stage' = "reading"
  /\ UNCHANGED <<reply, style, entry, split, asked, arrived, buffer, inCall, taking, howEnded>>

Reading(s) == stage = "reading" /\ style \in s

Wired == {"anthropic", "openai", "socket"}

\* An empty line ends a block; the first one in the parser's buffer.
BlockEnd == 2 * (buffer \div 2) + 2
BlockHeld == style \in Wired /\ BlockEnd <= arrived

\* The next chunk is asked for when every block of the last one is taken.
MoreComes == arrived < StreamLength /\ ~BlockHeld

ChunkArrives ==
  Reading(Wired) /\ MoreComes /\ arrived' \in (arrived + 1)..StreamLength

\* A slip: the parser starts afresh with each chunk.
ReadAfresh ==
  /\ ChunkArrives /\ buffer' = arrived
  /\ UNCHANGED <<reply, style, entry, split, asked, stage, inCall, taking, howEnded>>

\* A chunk comes, cut anywhere, and goes behind what the parser holds.
ReadChunk ==
  /\ ChunkArrives
  /\ UNCHANGED <<reply, style, entry, split, asked, stage, buffer, inCall, taking, howEnded>>

\* Every block that ends with an empty line is an event, the rest waits.  A
\* block that lost its beginning is no JSON and is passed over.
TakeBlock ==
  /\ Reading(Wired) /\ BlockHeld
  /\ buffer' = BlockEnd
  /\ taking' = IF buffer % 2 = 0 THEN Taken(taking, FrameAt(BlockEnd \div 2)) ELSE taking
  /\ UNCHANGED <<reply, style, entry, split, asked, stage, arrived, inCall, howEnded>>

\* The stream is over: run_task and run_turn take what they have; what is
\* still in the parser's buffer is dropped with it.
TakeReply(how) ==
  /\ taking' = Finalize(taking) /\ stage' = "taken" /\ howEnded' = how
  /\ UNCHANGED <<reply, style, entry, split, asked, arrived, buffer, inCall>>

StreamEnds ==
  stage = "reading" /\ arrived = StreamLength /\ ~BlockHeld /\ TakeReply("end")

\* The server closes the connection early: for the two HTTP providers the
\* stream just ends. The daemon says what went wrong, in an event without
\* choices: parse_openai_delta passes it over, and the stream ends too.
ClosedEarly ==
  /\ Reading(Wired) /\ MoreComes
  /\ style = "socket" => buffer = arrived
  /\ TakeReply("early")

\* The connection breaks, or the 300 s of a request are over: run_turn leaves
\* its loop and takes what it has, run_task ends with the error.
StreamBreaks ==
  /\ Reading(Wired) /\ MoreComes
  /\ \/ entry = "run_turn" /\ TakeReply("broken")
     \/ /\ entry = "run_task" /\ stage' = "failed"
        /\ UNCHANGED <<reply, style, entry, split, asked, arrived, buffer, inCall, taking, howEnded>>

\* The daemon goes away between two chunks: read_line returns an empty line,
\* which read_next_chunk takes for a blank one, and the caller reads on.
DaemonGone ==
  /\ Reading({"socket"}) /\ MoreComes
  /\ stage' = "spinning"
  /\ UNCHANGED <<reply, style, entry, split, asked, arrived, buffer, inCall, taking, howEnded>>

-----------------------------------------------------------------------------
(* The in-process model. *)

\* The marker stands whole among the tokens behind from, up to upto.
Marker(from, upto) ==
  \E i \in (from + 1)..upto :
    \/ TokenAt(i) = "mark"
    \/ TokenAt(i) = "ticks" /\ i < upto /\ TokenAt(i + 1) = "word"

\* The marker, and ticks behind it that are not its own.
Complete(from, upto) == Marker(from, upto) /\ TokenAt(upto) = "close"

\* parse_tool_calls: every closed block of the text so far; the text of a call
\* ends one token after its close.
ParseToolCalls(upto) == [c \in 1..((upto + 1) \div TokensPerCall) |-> Call(c, "whole")]

\* The closed calls are emitted as they are, each from its start to its stop.
Generate ==
  /\ Reading({"embedded"}) /\ arrived < StreamLength
  /\ arrived' = arrived + 1
  /\ LET in   == inCall \/ Marker(0, arrived')
         done == in /\ Complete(buffer, arrived')
     IN /\ inCall' = (in /\ ~done)
        /\ buffer' = IF in /\ ~done THEN buffer ELSE arrived'
        /\ taking' = IF done THEN [taking EXCEPT !.calls = @ \o ParseToolCalls(arrived')]
                              ELSE taking
  /\ UNCHANGED <<reply, style, entry, split, asked, stage, howEnded>>

-----------------------------------------------------------------------------
ReplyNext ==
  \/ AskNext \/ AskFails \/ Answers
  \/ ReadChunk \/ TakeBlock \/ Generate
  \/ StreamEnds \/ ClosedEarly \/ StreamBreaks \/ DaemonGone

ReplySpec == ReplyInit /\ [][ReplyNext]_replyVars

ReplyTypeOK ==
  /\ style \in Styles /\ entry \in Loops /\ split \in BOOLEAN
  /\ asked \in 1..LastProvider /\ stage \in ReplyStages
  /\ inCall \in BOOLEAN /\ reply \in 0..MaxToolCalls
  /\ arrived \in 0..StreamLength /\ buffer \in 0..arrived
  /\ taking.name \in 0..MaxToolCalls /\ taking.input \in {"none", "first", "whole", "other"}
  /\ \A i \in DOMAIN taking.calls :
       /\ taking.calls[i].c \in 1..MaxToolCalls
       /\ taking.calls[i].input \in {"whole", "empty", "malformed"}

-----------------------------------------------------------------------------
(* Properties. *)

\* Where the code loses a call: OpenAI's format has no stop between two calls,
\* so the next start overwrites the one in hand (runtime.rs:367, :782); the
\* in-process provider looks for the whole marker in a buffer that began in
\* the middle of it (provider.rs:231).
Overwritten(c) == style \in {"openai", "socket"} /\ c < reply
Unseen(c) == style = "embedded" /\ split /\ reply = 1

\* The in-process provider emits the earlier calls of a reply again with each
\* later one (provider.rs:247).
Repeated == style = "embedded" /\ reply > (IF split THEN 2 ELSE 1)

\* However a reply is cut into chunks, the run acts on the calls the model
\* made: none is missing but those above, each has its whole input unless the
\* stream was cut off inside the last one, and they stand in the model's order
\* and once each.
ReplyTaken ==
  stage = "taken" =>
    LET calls == taking.calls
    IN /\ howEnded = "end" =>
            \A c \in 1..reply :
              Overwritten(c) \/ Unseen(c) \/ \E i \in DOMAIN calls : calls[i].c = c
       /\ \A i \in DOMAIN calls :
            calls[i].input # "whole" => howEnded # "end" /\ i = Len(calls)
       /\ \A i, j \in DOMAIN calls :
            i < j => \/ calls[i].c < calls[j].c
                     \/ Repeated
=============================================================================
