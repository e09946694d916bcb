----------------------------- MODULE MCServices -----------------------------
(***************************************************************************)
(* The services that run beside the agent, one per behaviour: they share   *)
(* no state, so that running them side by side would only multiply it.     *)
(***************************************************************************)
EXTENDS Scheduler, CallPipeline, BridgeStreams, KnowledgeFiles,
        ModelStream, ModelMessages, Providers, Messages, McpClient, DevicePages

CONSTANTS
  Services,
  MaxSms    \* bound: calls of the tools when not all of them dial; they are made
            \* within two hours, so that the day matters to those that dial

VARIABLE service   \* the one this behaviour is about

vars == <<service, schedVars, callVars, streamVars, knowVars, replyVars,
          msgVars, mcpVars, pagesVars>>

Init ==
  /\ service \in Services
  /\ SchedInit /\ (service # "scheduler" => now = 0)
  /\ CallsInit /\ (service # "calls" => enabled)
  /\ KnowInit
  /\ StreamsInit /\ (service # "streams" => device = "gps")
  /\ ReplyInit /\ (service # "reply" =>
                     reply = 0 /\ style = "openai" /\ entry = "run_task")
  /\ MsgInit
  /\ McpInit /\ (service # "mcp" => transport = "http")
  /\ PagesInit

\* No call waits while recordings are collected: of the calls, the collecting side
\* sees the recordings only.
Next ==
  /\ UNCHANGED service
  /\ \/ /\ service = "scheduler" /\ SchedNext
        /\ UNCHANGED <<callVars, streamVars, knowVars, replyVars, msgVars, mcpVars, pagesVars>>
     \/ /\ \/ service = "calls" /\ CallsNext /\ waited' = {}
           \/ service = "line" /\ Shim
        /\ UNCHANGED <<schedVars, streamVars, knowVars, replyVars, msgVars, mcpVars, pagesVars>>
     \/ /\ service = "streams" /\ StreamsNext
        /\ UNCHANGED <<schedVars, callVars, knowVars, replyVars, msgVars, mcpVars, pagesVars>>
     \/ /\ service = "knowledge" /\ KnowNext
        /\ UNCHANGED <<schedVars, callVars, streamVars, replyVars, msgVars, mcpVars, pagesVars>>
     \/ /\ service = "reply" /\ ReplyNext
        /\ UNCHANGED <<schedVars, callVars, streamVars, knowVars, msgVars, mcpVars, pagesVars>>
     \/ /\ \/ service = "texts" /\ MsgNext /\ begun' <= MaxSms /\ msgClock' <= Hour + 1
           \/ service = "dials" /\ MsgNext /\ \A t \in 1..begun' : kind'[t] = "dial"
        /\ UNCHANGED <<schedVars, callVars, streamVars, knowVars, replyVars, mcpVars, pagesVars>>
     \/ /\ service = "mcp" /\ McpNext
        /\ UNCHANGED <<schedVars, callVars, streamVars, knowVars, replyVars, msgVars, pagesVars>>
     \/ /\ \/ service = "apps" /\ AppsNext
           \/ service = "logs" /\ PageStreamsNext
        /\ UNCHANGED <<schedVars, callVars, streamVars, knowVars, replyVars, msgVars, mcpVars>>

Spec == Init /\ [][Next]_vars

\* Of the service a behaviour is about: the state of the others never moves.
TypeOK ==
  /\ service = "scheduler" => SchedTypeOK
  /\ service \in {"calls", "line"} => CallsTypeOK
  /\ service = "streams" => StreamsTypeOK
  /\ service = "knowledge" => KnowTypeOK
  /\ service = "reply" => ReplyTypeOK
  /\ service \in {"texts", "dials"} => MsgTypeOK
  /\ service = "mcp" => McpTypeOK
  /\ service \in {"apps", "logs"} => PagesTypeOK

-----------------------------------------------------------------------------
\* Minutes 0 and 2 are due for the first entry, 0, 2 and 3 for the second; the
\* third is invalid; the fourth has 1 and 3.
MCCrons == << <<[kind |-> "every", step |-> 2]>>,
              <<[kind |-> "value", a |-> 0], [kind |-> "range", a |-> 2, b |-> 3]>>,
              <<[kind |-> "any"], [kind |-> "value", a |-> 4]>>,
              <<[kind |-> "stepped", a |-> 1, b |-> 3, step |-> 2]>> >>

\* Characters of one byte, and one of two where the log cuts.
MCResults == {<<1>>, <<1, 2>>}

\* Two skills share a file: sanitize_filename turns a blank into an underscore.
MCFileOf == [n \in {"wake up", "wake_up", "note"} |-> IF n = "note" THEN "note" ELSE "wake_up"]
=============================================================================
