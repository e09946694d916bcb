------------------------------- MODULE MCLoop -------------------------------
(***************************************************************************)
(* The agent's loop, and the daemon that may be its model. What the loop   *)
(* sees of a model is in AgentLoop (a reply, a failure, a stream that      *)
(* breaks) and in ModelStream (the bytes), so the two share no state and a *)
(* behaviour is about one of them.                                         *)
(***************************************************************************)
EXTENDS AgentLoop, LlmDaemon

CONSTANT Sides

VARIABLE side   \* the one this behaviour is about

\* Which of two brains a turn of run_turn goes to makes no difference to it.
MCInit ==
  /\ side \in Sides
  /\ Init /\ (side # "loop" => entry = "run_turn") /\ (entry = "run_turn" => ~dual)
  /\ DaemonInit /\ (side # "daemon" => abstract)

\* Bounds besides: a fault is in the first turn, which the second continues; one
\* prompt at most fills the context.
MCNext ==
  /\ UNCHANGED side
  /\ \/ side = "loop" /\ Next /\ (turn > 1 => faults' = faults) /\ UNCHANGED daemonVars
     \/ side = "daemon" /\ DaemonNext /\ UNCHANGED vars
        /\ Cardinality({r \in Requests : prompt'[r] = ContextSize}) <= 1

\* The runtime goes on with what it started (providers and tools time out); the
\* daemon's threads are scheduled and get the lock, and so does its main.
MCFairness ==
  /\ WF_vars(side = "loop" /\ Step)
  /\ \A d \in Processes : WF_daemonVars(side = "daemon" /\ Process(d))
  /\ \A r \in Requests : WF_daemonVars(side = "daemon" /\ Thread(r))

MCSpec == MCInit /\ [][MCNext]_<<side, vars, daemonVars>> /\ MCFairness

MCTypeOK == TypeOK /\ DaemonTypeOK
=============================================================================
