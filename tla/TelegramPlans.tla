---------------------------- MODULE TelegramPlans ----------------------------
(***************************************************************************)
(* The Telegram bot (telegram/bot.rs) and the plans it has approved by     *)
(* buttons (plan_tool.rs on the brain store, notebook.rs).                 *)
(*                                                                         *)
(* The bot polls for updates and handles them one after the other; an      *)
(* update is off Telegram's hands when a later poll names a higher offset, *)
(* and the offset lives in memory.  A plan is a note whose slug comes from *)
(* its title; its status is a tag.  The agent draws up, executes and       *)
(* cancels plans through the tool; the bot asks the user or, for a plan    *)
(* whose draft was safe, goes on by itself.  What the model says is left   *)
(* open but for this: it repeats the marker that the tool gave it, and it  *)
(* calls the tool that the bot's prompt names.                             *)
(***************************************************************************)
EXTENDS Naturals, Sequences, FiniteSets, SequencesExt

CONSTANTS
  Slugs,        \* the plans' slugs
  MaxUpdates,   \* bound: updates sent to the bot
  MaxDrafts,    \* bound: drafts
  MaxDeaths,    \* bound: deaths of the process
  KeepTurns     \* turns of a chat that go into the next prompt

ASSUME PlansAssumption ==
  /\ Slugs # {} /\ MaxUpdates \in Nat /\ MaxDrafts \in Nat /\ MaxDeaths \in Nat /\ KeepTurns \in Nat

VARIABLES
  sent,        \* updates sent
  what,        \* [1..MaxUpdates]: what each is
  confirmed,   \* updates Telegram has dropped
  bot,         \* "starting", "polling", "stopped"
  batch,       \* ids the bot has yet to handle
  offset,      \* what its next poll asks for
  update,      \* the update being handled (0: none)
  runStage,       \* and where: "run", "execute"
  marker,      \* the plan in the reply: [slug, version] (version 0: none)
  turns,       \* how many turns of the chat are remembered
  plan,        \* [Slugs]: the note: [version, tag]
  drafts,      \* how many drafts there were; each is a version
  safe,        \* versions whose draft needs no approval
  shown,       \* messages with buttons: [slug, version]
  cancelled,   \* history: versions cancelled
  ran,         \* history: [slug, version, id, late]: plans begun for the bot
  starts,      \* history: [ids]: how often its handling began
  handled,     \* history: ids handled to the end
  deaths       \* bound: counts the deaths

serverVars == <<sent, what, confirmed>>
botVars == <<bot, batch, offset, update, runStage, marker, turns>>
planNotes == <<plan, drafts, safe, cancelled>>
logVars == <<starts, handled, deaths>>
planVars == <<serverVars, botVars, planNotes, shown, ran, logVars>>

UpdateIds == 1..MaxUpdates
Versions == 1..MaxDrafts
Update(kind, by, slug, version) == [kind |-> kind, by |-> by, slug |-> slug, version |-> version]
AnySlug == CHOOSE s \in Slugs : TRUE
NoUpdate == Update("task", "stranger", AnySlug, 0)
NoPlan == [version |-> 0, tag |-> "none"]
NoMarker == [slug |-> AnySlug, version |-> 0]

PlansTypeOK ==
  /\ sent \in 0..MaxUpdates /\ confirmed \in 0..sent
  /\ what \in [UpdateIds -> [kind : {"task", "note", "new", "approve", "cancel"},
                             by : {"owner", "stranger"}, slug : Slugs, version : 0..MaxDrafts]]
  /\ bot \in {"starting", "polling", "stopped"}
  /\ batch \in Seq(UpdateIds) /\ Len(batch) <= MaxUpdates
  /\ offset \in 0..MaxUpdates + 1 /\ update \in 0..MaxUpdates
  /\ runStage \in {"run", "execute"} /\ marker \in [slug : Slugs, version : 0..MaxDrafts]
  /\ turns \in 0..KeepTurns
  /\ plan \in [Slugs -> [version : 0..MaxDrafts, tag : {"none", "note", "pending", "executing", "cancelled"}]]
  /\ drafts \in 0..MaxDrafts /\ safe \subseteq Versions /\ cancelled \subseteq Versions
  /\ shown \subseteq [slug : Slugs, version : Versions]
  /\ ran \subseteq [slug : Slugs, version : Versions, id : UpdateIds, late : BOOLEAN]
  /\ starts \in [UpdateIds -> 0..MaxDeaths + 1] /\ handled \subseteq UpdateIds
  /\ deaths \in 0..MaxDeaths

PlansInit ==
  /\ sent = 0 /\ what = [i \in UpdateIds |-> NoUpdate] /\ confirmed = 0
  /\ bot = "starting" /\ batch = <<>> /\ offset = 0 /\ update = 0 /\ runStage = "run" /\ marker = NoMarker /\ turns = 0
  /\ plan = [s \in Slugs |-> NoPlan] /\ drafts = 0 /\ safe = {} /\ shown = {} /\ cancelled = {}
  /\ ran = {} /\ starts = [i \in UpdateIds |-> 0] /\ handled = {} /\ deaths = 0

-----------------------------------------------------------------------------
(* Rate limit and markers, as functions.                                   *)

\* check_rate_limit over a sequence of arrivals: those that are let through.
\* The window holds the times of those let through less than a minute ago.
Admitted(arrivals, limit, minute) ==
  LET step(window, t) ==
        LET recent == SelectSeq(window, LAMBDA u : t - u < minute)
        IN IF limit = 0 \/ Len(recent) < limit THEN Append(window, t) ELSE window
  IN FoldLeft(step, <<>>, arrivals)

\* With a limit, no minute lets more than that many through, and whoever is
\* turned away came within a minute of that many others.
ASSUME RateLimited ==
  \A gaps \in [1..4 -> 0..2], limit \in 0..2 :
    LET arrivals == [i \in 1..4 |-> FoldLeft(LAMBDA a, b : a + b, 0, SubSeq(gaps, 1, i))]
        through == Admitted(arrivals, limit, 3)
        Within(t) == {i \in 1..Len(through) : through[i] \in t..t + 2}
    IN /\ limit = 0 => through = arrivals
       /\ limit > 0 => \A t \in 0..8 : Cardinality(Within(t)) <= limit
       /\ limit > 0 /\ Len(through) < 4 => \E t \in 0..8 : Cardinality(Within(t)) = limit

\* parse_plan_marker over the lines of a reply, "a" and "u" standing for lines
\* with the marker of either kind: the first counts, and only it is cut out.
Marker(lines) ==
  LET marked == {i \in DOMAIN lines : lines[i].kind # "text"}
      first == CHOOSE i \in marked : \A j \in marked : i <= j
  IN IF marked = {} THEN [kind |-> "text", slug |-> 0, body |-> lines]
     ELSE [kind |-> lines[first].kind, slug |-> lines[first].slug, body |-> RemoveAt(lines, first)]

ASSUME FirstMarkerTaken ==
  \A lines \in UNION {[1..n -> [kind : {"text", "approve", "auto"}, slug : 1..2]] : n \in 0..2} :
    LET m == Marker(lines) IN
    IF m.kind = "text" THEN m.body = lines
    ELSE \E i \in DOMAIN lines : /\ lines[i] = [kind |-> m.kind, slug |-> m.slug]
                                 /\ \A j \in 1..(i - 1) : lines[j].kind = "text"
                                 /\ m.body = SubSeq(lines, 1, i - 1) \o SubSeq(lines, i + 1, Len(lines))

\* draft: only an internal plan of declared, read-only tools whose text names
\* no other tool goes without approval.
NeedsApproval(internal, declared, readOnly, mentioned) ==
  ~(internal /\ declared # {} /\ declared \subseteq readOnly /\ mentioned \subseteq declared)

ASSUME UndeclaredNeverAuto ==
  \A internal \in BOOLEAN, declared, mentioned \in SUBSET {"ocr", "web", "shell"} :
    ~NeedsApproval(internal, declared, {"ocr", "web"}, mentioned \cap {"shell"}) =>
      "shell" \notin declared \cup mentioned

-----------------------------------------------------------------------------
(* The plan tool: every call holds the lock of the store.                  *)

\* A draft takes the note of its slug, whatever that was.
Draft(s) ==
  /\ drafts < MaxDrafts
  /\ drafts' = drafts + 1
  /\ plan' = [plan EXCEPT ![s] = [version |-> drafts + 1, tag |-> "pending"]]
  /\ safe' \in {safe, safe \cup {drafts + 1}}
  /\ cancelled' = cancelled

IsPlan(s) == plan[s].tag \in {"pending", "executing", "cancelled"}
MayExecuteAny(s) == IsPlan(s)   \* a slip, for the mutant of the run

MayExecute(s) == IsPlan(s) /\ plan[s].tag # "cancelled"
Execute(s) ==
  /\ MayExecute(s)
  /\ plan' = [plan EXCEPT ![s].tag = "executing"]
  /\ UNCHANGED <<drafts, safe, cancelled>>

Cancel(s) ==
  /\ IsPlan(s)
  /\ plan' = [plan EXCEPT ![s].tag = "cancelled"]
  /\ cancelled' = cancelled \cup {plan[s].version}
  /\ UNCHANGED <<drafts, safe>>

\* Any note saved under the title of a plan takes its place.
SaveNote(s) ==
  /\ plan' = [plan EXCEPT ![s] = [version |-> 0, tag |-> "note"]]
  /\ UNCHANGED <<drafts, safe, cancelled>>

\* What other runs of the agent (the queue, the schedule) do to the plans.
Elsewhere ==
  /\ \E s \in Slugs : Draft(s) \/ Cancel(s)
  /\ UNCHANGED <<serverVars, botVars, shown, ran, logVars>>

-----------------------------------------------------------------------------
(* Telegram and the user.                                                  *)

Taps == {Update(kind, "owner", m.slug, m.version) : kind \in {"approve", "cancel"}, m \in shown}
Texts == {Update("task", by, AnySlug, 0) : by \in {"owner", "stranger"}}
         \cup {Update("note", "owner", s, 0) : s \in Slugs} \cup {Update("new", "owner", AnySlug, 0)}

UserSends ==
  /\ sent < MaxUpdates
  /\ sent' = sent + 1
  /\ \E u \in Taps \cup Texts : what' = [what EXCEPT ![sent + 1] = u]
  /\ UNCHANGED <<confirmed, botVars, planNotes, shown, ran, logVars>>

\* run: getMe decides whether the bot lives at all.
StartBot ==
  /\ bot = "starting" /\ bot' \in {"polling", "stopped"}
  /\ UNCHANGED <<serverVars, batch, offset, update, runStage, marker, turns, planNotes, shown, ran, logVars>>

\* get_updates: what is below the offset is dropped, the rest comes.  A poll
\* that fails changes nothing and is repeated.
Polls ==
  /\ bot = "polling" /\ batch = <<>> /\ update = 0
  /\ confirmed' = IF offset > confirmed + 1 THEN offset - 1 ELSE confirmed
  /\ confirmed' < sent
  /\ batch' = [i \in 1..(sent - confirmed') |-> confirmed' + i]
  /\ UNCHANGED <<sent, what, bot, offset, update, runStage, marker, turns, planNotes, shown, ran, logVars>>

\* The gates: a stranger gets an answer and nothing else; a message or a tap
\* over the rate limit the same.
TakeUpdate ==
  /\ update = 0 /\ batch # <<>>
  /\ LET id == Head(batch) IN
     /\ batch' = Tail(batch) /\ offset' = id + 1
     /\ starts' = [starts EXCEPT ![id] = @ + 1]
     /\ \/ /\ what[id].by = "owner" /\ update' = id /\ runStage' = "run" /\ marker' = NoMarker
           /\ handled' = handled
        \/ update' = 0 /\ handled' = handled \cup {id} /\ UNCHANGED <<runStage, marker>>
  /\ UNCHANGED <<serverVars, bot, turns, planNotes, shown, ran, deaths>>

Settled == update' = 0 /\ runStage' = "run" /\ marker' = NoMarker
Finished == Settled /\ handled' = handled \cup {update}
Handling(kinds) == update # 0 /\ what[update].kind \in kinds

\* A command that works on the stores directly.
Command ==
  /\ Handling({"note", "new"}) /\ runStage = "run" /\ Finished
  /\ \/ what[update].kind = "note" /\ SaveNote(what[update].slug) /\ turns' = turns
     \/ what[update].kind = "new" /\ turns' = 0 /\ UNCHANGED planNotes
  /\ UNCHANGED <<serverVars, bot, batch, offset, shown, ran, starts, deaths>>

\* Only a message whose own run succeeded is remembered.
RecordTurn == turns' = IF turns < KeepTurns THEN turns + 1 ELSE turns

\* A run for a message: it fails, or draws up a plan, or neither.
RunFails ==
  /\ update # 0 /\ runStage \in {"run", "execute"} /\ what[update].kind \in {"task", "approve", "cancel"}
  /\ Finished /\ (IF runStage = "execute" THEN RecordTurn ELSE turns' = turns)
  /\ UNCHANGED <<serverVars, bot, batch, offset, planNotes, shown, ran, starts, deaths>>
RunDrafts(s) ==
  /\ Handling({"task"}) /\ runStage = "run" /\ marker = NoMarker /\ Draft(s)
  /\ marker' = [slug |-> s, version |-> drafts + 1]
  /\ UNCHANGED <<serverVars, bot, batch, offset, update, runStage, turns, shown, ran, logVars>>

\* The reply goes out with buttons, or as it is.
Respond ==
  /\ Handling({"task"}) /\ runStage = "run" /\ marker.version \notin safe
  /\ Finished /\ RecordTurn
  /\ shown' = IF marker = NoMarker THEN shown ELSE shown \cup {marker}
  /\ UNCHANGED <<serverVars, bot, batch, offset, planNotes, ran, starts, deaths>>
AutoExecute ==
  /\ Handling({"task"}) /\ runStage = "run" /\ marker.version \in safe
  /\ runStage' = "execute"
  /\ UNCHANGED <<serverVars, bot, batch, offset, update, marker, turns, planNotes, shown, ran, logVars>>

\* The run for an approved plan, by a button or by itself: the tool hands out
\* whatever the note says now.
BeginPlan(s) ==
  ran' = ran \cup {[slug |-> s, version |-> plan[s].version, id |-> update,
                    late |-> plan[s].version \in cancelled]}
RunExecutes ==
  /\ \/ Handling({"approve"}) /\ runStage = "run" /\ turns' = turns
     \/ Handling({"task"}) /\ runStage = "execute" /\ RecordTurn
  /\ Finished
  /\ LET s == IF runStage = "run" THEN what[update].slug ELSE marker.slug IN
     \/ Execute(s) /\ BeginPlan(s)
     \/ ~MayExecute(s) /\ UNCHANGED <<planNotes, ran>>
  /\ UNCHANGED <<serverVars, bot, batch, offset, shown, starts, deaths>>
RunCancels ==
  /\ Handling({"cancel"}) /\ runStage = "run" /\ Finished
  /\ LET s == what[update].slug IN Cancel(s) \/ (~IsPlan(s) /\ UNCHANGED planNotes)
  /\ UNCHANGED <<serverVars, bot, batch, offset, turns, shown, ran, starts, deaths>>

\* The process dies and is started again: the offset and the chat are gone.
BotDies ==
  /\ deaths < MaxDeaths /\ deaths' = deaths + 1 /\ bot = "polling"
  /\ bot' = "starting" /\ batch' = <<>> /\ offset' = 0 /\ Settled /\ turns' = 0
  /\ UNCHANGED <<serverVars, planNotes, shown, ran, starts, handled>>

PlansNext ==
  \/ UserSends \/ StartBot \/ Polls \/ TakeUpdate \/ Command
  \/ RunFails \/ (\E s \in Slugs : RunDrafts(s))
  \/ Respond \/ AutoExecute \/ RunExecutes \/ RunCancels
  \/ Elsewhere \/ BotDies

PlansSpec == PlansInit /\ [][PlansNext]_planVars

-----------------------------------------------------------------------------
\* What the bot sets going was approved: by a button under that very text, or
\* by a draft that needed none, unless a later draft has taken the slug; it is
\* never a plan that was cancelled before; no update is dropped unhandled; and
\* none is handled twice in one life of the process.
ApprovalHonoured ==
  /\ \A r \in ran :
       LET u == what[r.id] IN
       /\ u.by = "owner" /\ ~r.late
       /\ u.kind = "approve" => u.slug = r.slug /\ u.version <= r.version
       /\ u.kind = "task" => \E v \in safe : v <= r.version
  /\ \A i \in 1..confirmed : i \in handled
  /\ \A i \in UpdateIds : starts[i] <= 1 + deaths
=============================================================================
