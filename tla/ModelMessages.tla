---------------------------- MODULE ModelMessages ----------------------------
(***************************************************************************)
(* A conversation on its way to a model: the neutral messages of the agent *)
(* as OpenAI's wire messages and as the prompt of the in-process model;    *)
(* and on its way to the checkpoint of a background job.                   *)
(* A message is a role and blocks; a plain text is one text block.         *)
(***************************************************************************)
EXTENDS Naturals, Sequences, SequencesExt

Roles == {"user", "assistant"}
Kinds == {"text", "image", "result", "call"}

\* The numbers of the blocks of a kind, in the order of the message.
Blocks(msg, kind) ==
  SelectSeq([i \in DOMAIN msg.blocks |-> i], LAMBDA i : msg.blocks[i] = kind)

Wire(role, parts, calls) == [role |-> role, parts |-> parts, calls |-> calls]

\* One tool message for each result, then the images of the group in one
\* message of the user; a text beside a result is dropped.
FromResults(msg) ==
  LET results == [i \in DOMAIN Blocks(msg, "result") |->
                    Wire("tool", <<Blocks(msg, "result")[i]>>, <<>>)]
      images  == Blocks(msg, "image")
  IN results \o (IF images = <<>> THEN <<>> ELSE <<Wire("user", images, <<>>)>>)

\* Text and images as they come; anything else in a message of the user is
\* dropped.
FromUser(msg) ==
  <<Wire("user", SelectSeq([i \in DOMAIN msg.blocks |-> i],
                           LAMBDA i : msg.blocks[i] \in {"text", "image"}), <<>>)>>

\* The texts become one content, the calls a list of their own.
FromAssistant(msg) ==
  <<Wire("assistant", Blocks(msg, "text"), Blocks(msg, "call"))>>

ToOpenAI(msg) ==
  IF msg.role = "assistant" THEN FromAssistant(msg)
  ELSE IF Blocks(msg, "result") # <<>> THEN FromResults(msg) ELSE FromUser(msg)

\* The system prompt goes first in every request.
RequestMessages(msgs) ==
  <<Wire("system", <<>>, <<>>)>> \o FlattenSeq([i \in DOMAIN msgs |-> ToOpenAI(msgs[i])])

\* ChatML: an image is only mentioned, a result loses the id of its call.
Shown(role) == IF role = "user" THEN {"text", "result", "image"} ELSE {"text", "call"}

ChatPrompt(msgs) ==
  <<[role |-> "system", shown |-> <<>>]>>
    \o [i \in DOMAIN msgs |->
          [role  |-> msgs[i].role,
           shown |-> SelectSeq([k \in DOMAIN msgs[i].blocks |-> k],
                               LAMBDA k : msgs[i].blocks[k] \in Shown(msgs[i].role))]]
    \o <<[role |-> "assistant", shown |-> <<>>]>>

-----------------------------------------------------------------------------
(* A checkpoint of a background job. *)

\* sanitise_messages: a result keeps its text, its image is dropped.
Sanitised(msg) ==
  IF Blocks(msg, "result") = <<>> THEN msg
  ELSE [msg EXCEPT !.blocks = SelectSeq(@, LAMBDA b : b # "image")]

\* encode: while the blob is over the cap, the oldest message but the first is
\* dropped, down to two.  It keeps the numbers of the messages that stay; what
\* the blob holds besides is left out.
BlobSize(sizes, kept) == FoldLeft(LAMBDA sum, i : sum + sizes[i], 0, kept)

KeptFrom(n, i) == <<1>> \o [k \in 1..(n - i + 1) |-> i + k - 1]

CheckpointOf(sizes, cap) ==
  LET n    == Len(sizes)
      fits == { i \in 2..n : BlobSize(sizes, KeptFrom(n, i)) <= cap \/ i = n }
  IN IF n <= 2 THEN [i \in 1..n |-> i]
     ELSE KeptFrom(n, CHOOSE i \in fits : \A j \in fits : i <= j)

-----------------------------------------------------------------------------
(* What the formats need, for every message of up to three blocks. *)

Messages ==
  { [role |-> r, blocks |-> b] : r \in Roles, b \in BoundedSeq(Kinds, 3) }

ToolMessages(wire) == SelectSeq(wire, LAMBDA w : w.role = "tool")

\* Every result of a message is answered by one tool message, in order, and no
\* other message stands between two of them; no image is lost, and none is put
\* into a tool message.
ResultsAnswered ==
  \A msg \in Messages :
    LET wire    == ToOpenAI(msg)
        results == IF msg.role = "user" THEN Blocks(msg, "result") ELSE <<>>
        images  == IF msg.role = "user" THEN Blocks(msg, "image") ELSE <<>>
    IN /\ wire # <<>>
       /\ ToolMessages(wire) = [i \in DOMAIN results |-> Wire("tool", <<results[i]>>, <<>>)]
       /\ IsPrefix(ToolMessages(wire), wire)
       /\ \A i \in DOMAIN images :
            \E k \in DOMAIN wire :
              wire[k].role = "user" /\ images[i] \in ToSet(wire[k].parts)

\* A call the model made stands in both forms of the conversation, so that the
\* result that follows it has something to answer.
CallsKept ==
  \A msg \in { m \in Messages : m.role = "assistant" } :
    /\ ToOpenAI(msg)[1].calls = Blocks(msg, "call")
    /\ ToSet(Blocks(msg, "call")) \subseteq ToSet(ChatPrompt(<<msg>>)[2].shown)

\* Only a text that stands beside a result does not reach OpenAI's format; the
\* in-process model is shown it.
TextKept ==
  \A msg \in Messages :
    \A i \in ToSet(Blocks(msg, "text")) :
      /\ \/ \E w \in ToSet(ToOpenAI(msg)) : i \in ToSet(w.parts)
         \/ msg.role = "user" /\ Blocks(msg, "result") # <<>>
      /\ i \in ToSet(ChatPrompt(<<msg>>)[2].shown)

\* A checkpoint holds the task and the latest message, and in between the newest
\* without a gap; it is over the cap only if these two are, and another message
\* would not have fitted.  The oldest it keeps may be a result whose call it
\* dropped.
CheckpointKeeps ==
  \A sizes \in BoundedSeq(1..3, 5), cap \in 0..8 :
    LET kept == CheckpointOf(sizes, cap)
        n    == Len(sizes)
        from == n - Len(kept) + 2
    IN sizes # <<>> =>
         /\ kept[1] = 1 /\ Last(kept) = n
         /\ \A i \in 2..Len(kept) : kept[i] = from + i - 2
         /\ BlobSize(sizes, kept) <= cap \/ Len(kept) <= 2
         /\ Len(kept) < n => BlobSize(sizes, kept) + sizes[from - 1] > cap

\* ... and no image, while every call and every result stays what it was.
CheckpointPlain ==
  \A msg \in Messages :
    LET plain == Sanitised(msg)
    IN /\ Len(Blocks(plain, "result")) = Len(Blocks(msg, "result"))
       /\ Len(Blocks(plain, "call")) = Len(Blocks(msg, "call"))
       /\ Blocks(plain, "image") = <<>> \/ plain = msg
       /\ Blocks(plain, "image") # <<>> => Blocks(plain, "result") = <<>>

ASSUME ResultsAnsweredAssumption == ResultsAnswered
ASSUME CallsKeptAssumption == CallsKept
ASSUME TextKeptAssumption == TextKept
ASSUME CheckpointKeepsAssumption == CheckpointKeeps
ASSUME CheckpointPlainAssumption == CheckpointPlain
=============================================================================
