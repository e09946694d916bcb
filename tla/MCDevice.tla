------------------------------ MODULE MCDevice ------------------------------
(***************************************************************************)
(* The agent, the apps on its device and its users, one exchange per       *)
(* behaviour: they share no state.                                         *)
(***************************************************************************)
EXTENDS BridgeRpc, Memories, Chats, Screen, WebNotes

CONSTANT Exchanges

VARIABLE exchange   \* the one this behaviour is about

vars == <<exchange, rpcVars, memVars, chatVars, screenVars>>

Init ==
  /\ exchange \in Exchanges
  /\ RpcInit /\ (exchange # "rpc" => kind = CHOOSE p \in Plans : TRUE)
  /\ MemoriesInit /\ ChatsInit
  /\ ScreenInit /\ (exchange # "screen" => secure /\ pin /\ ~awake)

\* Bound besides: the page has a second visit or the chats a mishap.
Next ==
  /\ UNCHANGED exchange
  /\ \/ exchange = "rpc" /\ RpcNext /\ UNCHANGED <<memVars, chatVars, screenVars>>
     \/ exchange = "memories" /\ MemoriesNext /\ UNCHANGED <<rpcVars, chatVars, screenVars>>
     \/ exchange = "chats" /\ ChatsNext /\ (mishaps' > 0 => visits' <= 1)
        /\ UNCHANGED <<rpcVars, memVars, screenVars>>
     \/ exchange = "screen" /\ ScreenNext /\ UNCHANGED <<rpcVars, memVars, chatVars>>

\* The caller of a bridge goes on. Days pass, and the gardener runs again and
\* again although it may be busy in between.
Fairness ==
  /\ \A c \in Calls : /\ WF_rpcVars(exchange = "rpc" /\ Sentinel(c))
                      /\ WF_rpcVars(exchange = "rpc" /\ Caller(c))
  /\ WF_memVars(exchange = "memories" /\ NextDay)
  /\ SF_memVars(exchange = "memories" /\ GardenerPass)

Spec == Init /\ [][Next]_vars /\ Fairness

TypeOK == RpcTypeOK /\ MemoriesTypeOK /\ ChatsTypeOK /\ ScreenTypeOK

-----------------------------------------------------------------------------
MCPlans == {<<"tts", "play">>, <<"record", "play">>, <<"capture", "query">>}
=============================================================================
