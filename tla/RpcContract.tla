----------------------------- MODULE RpcContract -----------------------------
(***************************************************************************)
(* What a tool may rely on when it sends a request over the file bridge    *)
(* (bridge_client.rs), without the files: a request is asked once and ends *)
(* once; the bridge starts on it only while somebody asks (or the asker    *)
(* died with it), at most once in a life of the bridge; an answer that     *)
(* says ok comes after the work was done; what the asker keeps of it is    *)
(* whole, unless the work was done twice or is hasty; every request ends. *)
(***************************************************************************)
EXTENDS Naturals, FiniteSets

CONSTANT Calls

VARIABLES
  hasty,     \* the calls whose work may be called done before it is
  phase,     \* [Calls]: "idle", "asked", "told" (ok), "failed", "dead"
  working,   \* the calls the bridge is working on
  begun,     \* [Calls]: the lives of the bridge that started on the call
  finished,  \* the calls whose work was done at least once
  kept,      \* [Calls]: "no", "partial", "whole": what the asker kept
  life       \* the bridge's life

contractVars == <<hasty, phase, working, begun, finished, kept, life>>

ContractInit ==
  /\ hasty \subseteq Calls
  /\ phase = [c \in Calls |-> "idle"]
  /\ working = {} /\ finished = {}
  /\ begun = [c \in Calls |-> {}]
  /\ kept = [c \in Calls |-> "no"]
  /\ life = 1

Ask(c) ==
  /\ phase[c] = "idle"
  /\ phase' = [phase EXCEPT ![c] = "asked"]
  /\ UNCHANGED <<hasty, working, begun, finished, kept, life>>

Work(c) ==
  /\ phase[c] \in {"asked", "dead"}
  /\ working = {} /\ life \notin begun[c]
  /\ working' = {c}
  /\ begun' = [begun EXCEPT ![c] = @ \cup {life}]
  /\ UNCHANGED <<hasty, phase, finished, kept, life>>

WorkEnds(c) ==
  /\ c \in working
  /\ working' = {}
  /\ finished' \in {finished, finished \cup {c}}
  /\ UNCHANGED <<hasty, phase, begun, kept, life>>

Told(c) ==
  /\ phase[c] = "asked" /\ c \in finished
  /\ phase' = [phase EXCEPT ![c] = "told"]
  /\ UNCHANGED <<hasty, working, begun, finished, kept, life>>

Failed(c) ==
  /\ phase[c] = "asked"
  /\ phase' = [phase EXCEPT ![c] = "failed"]
  /\ UNCHANGED <<hasty, working, begun, finished, kept, life>>

Repeated(c) == Cardinality(begun[c]) > 1

Keep(c) ==
  /\ phase[c] = "told" /\ kept[c] = "no"
  /\ \/ kept' = [kept EXCEPT ![c] = "whole"]
     \/ kept' = [kept EXCEPT ![c] = "partial"] /\ (c \in hasty \/ Repeated(c))
  /\ UNCHANGED <<hasty, phase, working, begun, finished, life>>

AskersDie ==
  /\ phase' = [c \in Calls |-> IF phase[c] = "asked" THEN "dead" ELSE phase[c]]
  /\ UNCHANGED <<hasty, working, begun, finished, kept, life>>

BridgeRestarts ==
  /\ life' = life + 1 /\ working' = {}
  /\ UNCHANGED <<hasty, phase, begun, finished, kept>>

ContractNext ==
  \/ \E c \in Calls : Ask(c) \/ Work(c) \/ WorkEnds(c) \/ Told(c) \/ Failed(c) \/ Keep(c)
  \/ AskersDie \/ BridgeRestarts

ContractSpec ==
  /\ ContractInit /\ [][ContractNext]_contractVars
  /\ \A c \in Calls : WF_contractVars(Told(c) \/ Failed(c))
=============================================================================
