---------------------------- MODULE MCApprovals ----------------------------
(***************************************************************************)
(* What users decide: the proposals of the life loop, by the web API; the  *)
(* plans, by Telegram; the configuration, by the page.  They share no      *)
(* state, so a behaviour is about one of them.                             *)
(***************************************************************************)
EXTENDS Autonomy, TelegramPlans, LiveConfig, StartUp, Drives

CONSTANT Approvals

VARIABLE approval   \* the one this behaviour is about

MCInit ==
  /\ approval \in Approvals
  /\ Init /\ (approval # "proposals" => proposeOnly)
  /\ PlansInit
  /\ ConfigInit /\ (approval # "config" => ~env)

\* Bounds besides: a client leaves or there is a third task, not both; two drafts
\* or a death; a third save or an accident.
MCNext ==
  /\ UNCHANGED approval
  /\ \/ approval = "proposals" /\ Next /\ (gone' > 0 => submitted' <= 2)
        /\ UNCHANGED <<planVars, configVars>>
     \/ approval = "plans" /\ PlansNext /\ (deaths' > 0 => drafts' <= 1)
        /\ UNCHANGED <<vars, configVars>>
     \/ approval = "config" /\ ConfigNext /\ (accidents' > 0 => saves' <= 2)
        /\ UNCHANGED <<vars, planVars>>

MCSpec == MCInit /\ [][MCNext]_<<approval, vars, planVars, configVars>>

ApprovalsTypeOK == TypeOK /\ PlansTypeOK /\ ConfigTypeOK
=============================================================================
