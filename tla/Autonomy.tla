------------------------------ MODULE Autonomy ------------------------------
(***************************************************************************)
(* The life loop (peko-core/src/life_loop.rs), its proposals and the web   *)
(* handlers that decide on them (src/web/api.rs), over the task queue.     *)
(*                                                                         *)
(* Every tick the loop passes its gates one lock at a time (idle queue,    *)
(* rate window, drives, token window) and then either pushes a proposal or *)
(* submits a task.  Users submit, approve, reject and pause in between.    *)
(* The drives are not modelled here: which action they suggest, and        *)
(* whether it yields a prompt, is left open.                               *)
(***************************************************************************)
EXTENDS TaskQueue

CONSTANTS
  Modes,         \* the values of [autonomy].propose_only to look at
  MaxPerHour,    \* [autonomy].max_internal_tasks_per_hour
  MaxPerDay,     \* [autonomy].max_internal_tasks_per_day
  TokenCap,      \* [autonomy].max_tokens_per_day, in tasks; 0 = no cap
  Approvers,     \* the approve requests that may be handled at once
  MaxProposals   \* bound: proposals ever made

ASSUME AutonomyAssumption ==
  /\ Modes \subseteq BOOLEAN /\ MaxPerHour \in Nat /\ MaxPerDay \in Nat
  /\ TokenCap \in Nat /\ MaxProposals \in Nat
  /\ "life" \notin Approvers

Proposals == 1..MaxProposals

VARIABLES
  proposeOnly,
  paused,
  life,      \* where the loop stands, "sleep" between two ticks
  inHour,    \* rate window: tasks charged in the last hour ...
  inDay,     \* ... and in the last day (the token window holds the same ones)
  made,      \* how many proposals there are
  verdict,   \* [Proposals]: ProposalStatus
  old,       \* proposals older than 24 h
  handler,   \* [Approvers]: where approve_proposal stands, and for what
  runs,      \* [Proposals]: tasks submitted for it
  ticket     \* the task the life loop and each handler is sending

settings  == <<proposeOnly, paused>>
windows   == <<inHour, inDay>>
proposals == <<made, verdict, old>>
requests  == <<handler, runs, ticket>>
lifeVars  == <<settings, life, windows, proposals, requests>>
vars == <<queueVars, lifeVars>>

Verdicts == {"pending", "approved", "rejected", "executed", "expired"}
NoRequest == [at |-> "free", p |-> 0]

TypeOK ==
  /\ QueueTypeOK
  /\ proposeOnly \in Modes /\ paused \in BOOLEAN
  /\ life \in {"sleep", "gate", "decide", "charge", "act", "sending", "sent"}
  /\ inHour \in Nat /\ inDay \in Nat
  /\ made \in 0..MaxProposals
  /\ verdict \in [Proposals -> Verdicts \cup {"none"}]
  /\ old \subseteq Proposals
  /\ handler \in [Approvers -> [at : {"free", "read", "set", "sending", "sent"},
                                p  : 0..MaxProposals]]
  /\ runs \in [Proposals -> Nat]
  /\ ticket \in [Approvers \cup {"life"} -> 0..MaxTasks]

Init ==
  /\ QueueInit
  /\ proposeOnly \in Modes /\ paused = FALSE
  /\ life = "sleep" /\ inHour = 0 /\ inDay = 0
  /\ made = 0 /\ verdict = [p \in Proposals |-> "none"] /\ old = {}
  /\ handler = [a \in Approvers |-> NoRequest]
  /\ runs = [p \in Proposals |-> 0]
  /\ ticket = [a \in Approvers \cup {"life"} |-> 0]

-----------------------------------------------------------------------------
(* The tick                                                                *)

\* A tick that finds the loop running expires the old proposals nobody
\* answered.
Tick ==
  /\ life = "sleep" /\ ~paused
  /\ life' = "gate"
  /\ verdict' = [p \in Proposals |->
                   IF verdict[p] = "pending" /\ p \in old
                   THEN "expired" ELSE verdict[p]]
  /\ UNCHANGED <<queueVars, settings, windows, made, old, requests>>

\* Mutant of Gate: only the flag is looked at.
GateProcessingOnly ==
  /\ life = "gate"
  /\ life' = IF ~processing THEN "decide" ELSE "sleep"
  /\ UNCHANGED <<queueVars, settings, windows, proposals, requests>>

Gate ==
  /\ life = "gate"
  /\ life' = IF IsIdle THEN "decide" ELSE "sleep"
  /\ UNCHANGED <<queueVars, settings, windows, proposals, requests>>

RateBudget == inHour < MaxPerHour /\ inDay < MaxPerDay

\* has_budget, suggest_action and the prompt of the action: each of them may
\* end the tick.
Decide ==
  /\ life = "decide"
  /\ \/ life' = "sleep"
     \/ RateBudget /\ life' = "charge"
  /\ UNCHANGED <<queueVars, settings, windows, proposals, requests>>

\* Mutant of Charge: the token window is compared before the task's own cost.
ChargeLoose ==
  /\ life = "charge"
  /\ IF TokenCap = 0 \/ inDay <= TokenCap
     THEN life' = "act" /\ inHour' = inHour + 1 /\ inDay' = inDay + 1
     ELSE life' = "sleep" /\ UNCHANGED windows
  /\ UNCHANGED <<queueVars, settings, proposals, requests>>

\* The token gate; then both windows are charged.
Charge ==
  /\ life = "charge"
  /\ IF TokenCap = 0 \/ inDay + 1 <= TokenCap
     THEN life' = "act" /\ inHour' = inHour + 1 /\ inDay' = inDay + 1
     ELSE life' = "sleep" /\ UNCHANGED windows
  /\ UNCHANGED <<queueVars, settings, proposals, requests>>

Propose ==
  /\ life = "act" /\ proposeOnly
  /\ made < MaxProposals
  /\ made' = made + 1
  /\ verdict' = [verdict EXCEPT ![made + 1] = "pending"]
  /\ life' = "sleep"
  /\ UNCHANGED <<queueVars, settings, windows, old, requests>>

\* propose_only = false: the task goes straight into the queue.
ActAlone ==
  /\ life = "act" /\ ~proposeOnly
  /\ Submit("life")
  /\ ticket' = [ticket EXCEPT !["life"] = submitted + 1]
  /\ life' = "sending"
  /\ UNCHANGED <<settings, windows, proposals, handler, runs>>

LifeSend ==
  /\ life = "sending"
  /\ Send(ticket["life"])
  /\ life' = "sent"
  /\ UNCHANGED <<settings, windows, proposals, requests>>

\* The receivers are dropped at once: nobody waits for the answer.
LifeDrop ==
  /\ life = "sent"
  /\ Leave(ticket["life"])
  /\ life' = "sleep"
  /\ UNCHANGED <<settings, windows, proposals, requests>>

LifeLoop == Tick \/ Gate \/ Decide \/ Charge \/ Propose \/ ActAlone \/ LifeSend
              \/ LifeDrop

\* Time passes: a charge leaves the hour, or the day; a proposal gets old.
AgeHour == inHour > 0 /\ inHour' = inHour - 1 /\ UNCHANGED inDay
AgeDay  == inDay > inHour /\ inDay' = inDay - 1 /\ UNCHANGED inHour
Age ==
  /\ AgeHour \/ AgeDay
  /\ UNCHANGED <<queueVars, settings, life, proposals, requests>>
GetOld(p) ==
  /\ verdict[p] = "pending" /\ p \notin old
  /\ old' = old \cup {p}
  /\ UNCHANGED <<queueVars, settings, life, windows, made, verdict, requests>>

-----------------------------------------------------------------------------
(* The web handlers                                                        *)

\* Mutant of ApproveRead: any proposal that exists will do.
ApproveReadAny(a, p) ==
  /\ handler[a] = NoRequest
  /\ verdict[p] # "none"
  /\ handler' = [handler EXCEPT ![a] = [at |-> "read", p |-> p]]
  /\ UNCHANGED <<queueVars, settings, life, windows, proposals, runs, ticket>>

\* Mutant of ApproveRead: a proposal that does not exist is made up.
ApproveReadUnknown(a, p) ==
  /\ handler[a] = NoRequest
  /\ handler' = [handler EXCEPT ![a] = [at |-> "read", p |-> made + 1]]
  /\ UNCHANGED <<queueVars, settings, life, windows, proposals, runs, ticket>>

\* approve_proposal reads a copy of the proposal and wants it pending ...
ApproveRead(a, p) ==
  /\ handler[a] = NoRequest
  /\ verdict[p] = "pending"
  /\ handler' = [handler EXCEPT ![a] = [at |-> "read", p |-> p]]
  /\ UNCHANGED <<queueVars, settings, life, windows, proposals, runs, ticket>>

\* ... then overwrites the status ...
ApproveSet(a) ==
  /\ handler[a].at = "read"
  /\ handler' = [handler EXCEPT ![a].at = "set"]
  /\ verdict' = [verdict EXCEPT ![handler[a].p] = "approved"]
  /\ UNCHANGED <<queueVars, settings, life, windows, made, old, runs, ticket>>

\* ... submits the task ...
ApproveSubmit(a) ==
  /\ handler[a].at = "set"
  /\ Submit("approved")
  /\ ticket' = [ticket EXCEPT ![a] = submitted + 1]
  /\ runs' = [runs EXCEPT ![handler[a].p] = @ + 1]
  /\ handler' = [handler EXCEPT ![a].at = "sending"]
  /\ UNCHANGED <<settings, life, windows, proposals>>

ApproveSend(a) ==
  /\ handler[a].at = "sending"
  /\ Send(ticket[a])
  /\ handler' = [handler EXCEPT ![a].at = "sent"]
  /\ UNCHANGED <<settings, life, windows, proposals, runs, ticket>>

\* ... and overwrites the status again; its receivers go with it.
ApproveDone(a) ==
  /\ handler[a].at = "sent"
  /\ Leave(ticket[a])
  /\ verdict' = [verdict EXCEPT ![handler[a].p] = "executed"]
  /\ handler' = [handler EXCEPT ![a] = NoRequest]
  /\ UNCHANGED <<settings, life, windows, made, old, runs, ticket>>

\* A client gone at one of the handler's awaits takes the handler with it, and
\* the status stays as it was last set.
ApproveGone(a) ==
  /\ \/ handler[a].at = "sending" /\ Disconnect(ticket[a])
     \/ handler[a].at = "sent" /\ Leave(ticket[a])
     \/ handler[a].at \in {"read", "set"} /\ UNCHANGED queueVars
  /\ handler' = [handler EXCEPT ![a] = NoRequest]
  /\ UNCHANGED <<settings, life, windows, proposals, runs, ticket>>

Approve(a) ==
  \/ \E p \in Proposals : ApproveRead(a, p)
  \/ ApproveSet(a) \/ ApproveSubmit(a) \/ ApproveSend(a) \/ ApproveDone(a)
  \/ ApproveGone(a)

\* reject_proposal overwrites whatever status it finds.
Reject(p) ==
  /\ verdict[p] \notin {"none", "rejected"}
  /\ verdict' = [verdict EXCEPT ![p] = "rejected"]
  /\ UNCHANGED <<queueVars, settings, life, windows, made, old, requests>>

PauseOrResume ==
  /\ paused' = ~paused
  /\ UNCHANGED <<queueVars, proposeOnly, life, windows, proposals, requests>>

-----------------------------------------------------------------------------
\* The other users of the queue, and its executor.
Queue ==
  /\ \/ Submit("web")
     \/ \E t \in Tasks : /\ source[t] = "web"
                        /\ (Send(t) \/ Disconnect(t) \/ Leave(t))
     \/ Executor \/ Read
  /\ UNCHANGED lifeVars

Next ==
  \/ Queue
  \/ LifeLoop \/ Age \/ (\E p \in Proposals : GetOld(p))
  \/ \E a \in Approvers : Approve(a)
  \/ \E p \in Proposals : Reject(p)
  \/ PauseOrResume

Spec == Init /\ [][Next]_vars

-----------------------------------------------------------------------------
\* The life loop never has two tasks of its own in the queue or in hand: its
\* idle gate waits for the previous one, whatever users do in between.
OneAutonomousTask ==
  Cardinality({t \in Tasks : /\ source[t] = "life"
                             /\ stage[t] \in {"counted", "sent"}}) <= 1

\* The windows bound what the loop starts: tasks and proposals of a day are
\* within the day's cap, the hour's cap and the token cap.
WithinWindows ==
  /\ inHour <= MaxPerHour
  /\ inDay <= MaxPerDay
  /\ TokenCap > 0 => inDay <= TokenCap

\* A proposal is submitted at most once ("A proposal is an internal task that
\* hasn't executed yet", life_loop.rs:45).
ProposalRunsOnce == \A p \in Proposals : runs[p] <= 1
=============================================================================
