------------------------------- MODULE Drives -------------------------------
(***************************************************************************)
(* What the life loop wants: the four drives with the events that move     *)
(* them, and what it makes of a drive: a tool to try, a task to propose.   *)
(* The drives are numbers from 0 to 1 in the code, ten-thousandths here.   *)
(* Autonomy leaves the action of a tick open: these functions choose it.   *)
(***************************************************************************)
EXTENDS Integers, Sequences, SequencesExt, FiniteSets

Names == {"curiosity", "competence", "social", "coherence"}
Unit == 10000
Centre == 5000
Values == 0..Unit

Rested == [d \in Names |-> Centre]

Clamp(v) == IF v < 0 THEN 0 ELSE IF v > Unit THEN Unit ELSE v

\* The drive an event moves, and by how much at the centre.
Events ==
  [TaskSucceeded      |-> <<"competence", 500>>,  TaskFailed       |-> <<"competence", -500>>,
   TaskEscalated      |-> <<"competence", -300>>, UserEngaged      |-> <<"social", 500>>,
   UserRejected       |-> <<"social", -500>>,     NewToolUsed      |-> <<"curiosity", -1000>>,
   StalePatterns      |-> <<"curiosity", 200>>,   BehaviorCoherent |-> <<"coherence", 200>>,
   BehaviorIncoherent |-> <<"coherence", -500>>]

\* The code that is there records five of them.
Recorded == {"TaskSucceeded", "TaskFailed", "UserEngaged", "UserRejected", "StalePatterns"}

\* The part p of n, rounded towards none.
Part(n, p) == IF n < 0 THEN -((-n) \div p) ELSE n \div p

\* adjust: the nearer the end it moves to, the less a drive moves.
Adjust(v, delta) ==
  LET room == IF delta > 0 THEN Unit - v ELSE v
  IN Clamp(v + Part(delta * 2 * room, Unit))

Record(drives, event) ==
  [drives EXCEPT ![Events[event][1]] = Adjust(@, Events[event][2])]

\* decay: towards the centre by a hundredth an hour, at most all the way.
Decay(drives, minutes) ==
  LET rate == IF minutes > 6000 THEN 6000 ELSE minutes
  IN [d \in Names |-> drives[d] + Part((Centre - drives[d]) * rate, 6000)]

\* suggest_action: the first drive beyond its threshold decides.
Suggest(drives) ==
  IF drives["curiosity"] > 7000 THEN "explore"
  ELSE IF drives["competence"] < 3000 THEN "review-failures"
  ELSE IF drives["social"] > 7000 THEN "propose-helpful"
  ELSE IF drives["coherence"] < 3000 THEN "review-behavior"
  ELSE "none"

\* A tick of the loop while the queue rests and the budgets allow: after the
\* third without an action, curiosity is nudged.
TickMinutes == 5
StaleTicks == 3

IdleTick(state) ==
  LET drives == Decay(state.drives, TickMinutes)
      stale  == IF Suggest(drives) = "none" THEN state.stale + 1 ELSE 0
  IN [drives |-> IF stale >= StaleTicks THEN Record(drives, "StalePatterns") ELSE drives,
      stale  |-> stale]

-----------------------------------------------------------------------------
(* The user model. *)

\* record_tool_use: tools with the times of their last use, the oldest evicted.
RecordTool(used, tool, now, cap) ==
  LET all    == [t \in DOMAIN used \cup {tool} |-> IF t = tool THEN now ELSE used[t]]
      oldest == CHOOSE t \in DOMAIN all : \A u \in DOMAIN all : all[t] <= all[u]
  IN IF Cardinality(DOMAIN all) <= cap THEN all
     ELSE [t \in DOMAIN all \ {oldest} |-> all[t]]

UsedRecently(used, tool, now, window) == tool \in DOMAIN used /\ used[tool] >= now - window

\* record_task and add_observation: what is new goes to the end, and pushes out
\* the first.
Remember(list, item, cap) ==
  IF item \in ToSet(list) THEN list
  ELSE LET longer == Append(list, item) IN IF Len(longer) > cap THEN Tail(longer) ELSE longer

\* set_preference: where only some values are known, any other is taken for one of
\* them.
Chosen ==
  [expertise         |-> {"beginner", "intermediate", "advanced", "developer"},
   response_style    |-> {"concise", "detailed", "technical", "casual"},
   verbose           |-> {"true", "false"},
   confirm_dangerous |-> {"true", "false"}]
Otherwise ==
  [expertise |-> "intermediate", response_style |-> "concise",
   verbose   |-> "false",        confirm_dangerous |-> "false"]

Preference(key, value) ==
  IF key \in DOMAIN Chosen /\ value \notin Chosen[key] THEN Otherwise[key] ELSE value

\* update_user_model: the request sets what it names, and adds what it has seen.
UpdateUser(model, updates, cap) ==
  [prefs        |-> [k \in DOMAIN model.prefs |->
                       IF k \in DOMAIN updates THEN Preference(k, updates[k]) ELSE model.prefs[k]],
   observations |-> IF "observation" \in DOMAIN updates
                    THEN Remember(model.observations, updates.observation, cap)
                    ELSE model.observations,
   apps         |-> IF "preferred_app" \in DOMAIN updates
                    THEN model.apps \cup {updates.preferred_app} ELSE model.apps]

\* ... and saves the model under the same lock, by a temporary file that is
\* renamed: the save is done, or refused and answered as an error, or the process
\* dies before or after the rename and loads the file.
UserSaves == {"saved", "refused", "dies before", "dies after"}

UpdateSaved(user, updates, ends, cap) ==
  LET model == UpdateUser(user.held, updates, cap)
      file  == IF ends \in {"saved", "dies after"} THEN model ELSE user.file
  IN [held |-> IF ends = "dies before" THEN file ELSE model, file |-> file]

\* build_context: the last of each.
Told(list, n) == LET r == Reverse(list) IN IF Len(r) > n THEN SubSeq(r, 1, n) ELSE r

-----------------------------------------------------------------------------
(* Explore. *)

SafeTools == <<"screenshot", "ui_inspect", "memory", "skills">>

\* candidates: the safe tools that are there and were not used for a day, and
\* the time of day: active_hours is never written, so every hour is unusual,
\* and the text holds the minute.
ExploreCandidates(tools, used, now, window, hourText) ==
  SelectSeq(SafeTools, LAMBDA t : t \in tools /\ ~UsedRecently(used, t, now, window))
    \o <<hourText>>

\* next is the first of these.
NextExplore(tools, used, now, window, hourText, recent) ==
  SelectSeq(ExploreCandidates(tools, used, now, window, hourText), LAMBDA c : c \notin recent)

-----------------------------------------------------------------------------
(* Propose. *)

Pattern(kind, confidence) == [kind |-> kind, confidence |-> confidence]

\* detect_recurring_tasks: the three tasks that are remembered longest, however
\* often they were done.
Recurring(tasks) ==
  [i \in 1..(IF Len(tasks) > 3 THEN 3 ELSE Len(tasks)) |-> Pattern(tasks[i], 4000)]

Failures(n) ==
  IF n < 2 THEN <<>> ELSE <<Pattern("failures", IF n > 9 THEN 9000 ELSE n * 1000)>>

\* detect: a stable sort by confidence times the same weight.
Top(tasks, failed) ==
  LET r == Recurring(tasks)
      f == Failures(failed)
  IN IF f = <<>> THEN r
     ELSE IF r = <<>> \/ f[1].confidence > r[1].confidence THEN f ELSE r

-----------------------------------------------------------------------------
(* What must hold for every value. *)

\* A drive never leaves its range and, from inside, never gets stuck at an end:
\* an event moves it its own way, by less the nearer the end is.
DrivesMove ==
  \A v \in Values, e \in DOMAIN Events :
    LET to == Adjust(v, Events[e][2])
    IN /\ to \in Values
       /\ v \notin {0, Unit} => to \notin {0, Unit}
       /\ IF Events[e][2] > 0 THEN to >= v ELSE to <= v

\* Decay brings a drive nearer to the centre and never beyond it, however long
\* the agent was off.
DecaySettles ==
  \A v \in Values, minutes \in {1, TickMinutes, 60, 1440, 6000, 100000} :
    LET to == Decay([Rested EXCEPT !["social"] = v], minutes)["social"]
    IN /\ IF v <= Centre THEN to \in v..Centre ELSE to \in Centre..v
       /\ minutes >= 6000 => to = Centre

\* An agent that is at rest explores: from every curiosity that the recorded
\* events can leave behind, fewer than 20 quiet ticks raise it over the
\* threshold, decay or not; and a rested agent has nothing to do at first.
Quiet(n, curiosity) ==
  FoldLeft(LAMBDA s, i : IF Suggest(s.drives) = "none" THEN IdleTick(s) ELSE s,
           [drives |-> [Rested EXCEPT !["curiosity"] = curiosity], stale |-> 0],
           [i \in 1..n |-> i])

IdleExplores ==
  /\ Suggest(Rested) = "none"
  /\ \A c \in {Centre + 100 * k : k \in 0..50} : Suggest(Quiet(20, c).drives) = "explore"
  /\ Suggest(Quiet(12, Centre).drives) = "none"

\* The behaviour is never reviewed: no code records an event of coherence.
CoherenceRests == \A e \in Recorded : Events[e][1] # "coherence"

\* A tool that was just used stays known, unless the clock was set back, and
\* every evicted one is older than those that stay.
SomeTools == {"t1", "t2", "t3"}
ToolsKept ==
  \A used \in UNION { [s -> 0..3] : s \in SUBSET SomeTools }, now \in 0..3, t \in SomeTools :
    LET after == RecordTool(used, t, now, 2)
    IN /\ Cardinality(DOMAIN after) <= 2
       /\ (\A u \in DOMAIN used : used[u] < now) => t \in DOMAIN after
       /\ \A u \in DOMAIN used \ (DOMAIN after \cup {t}), k \in DOMAIN after : used[u] <= after[k]

\* The lists of the model stay within their bound, hold nothing twice, and the
\* prompt shows the newest first.
ListsBounded ==
  \A items \in BoundedSeq({"a", "b", "c", "d"}, 5) :
    LET list == FoldLeft(LAMBDA l, i : Remember(l, i, 3), <<>>, items)
    IN /\ Len(list) <= 3 /\ IsInjective(list)
       /\ items # <<>> => Last(items) \in ToSet(list)
       /\ Told(list, 2) = SubSeq(Reverse(list), 1, Len(Told(list, 2)))

\* A request that was answered well lasts: it is in the file until a later one
\* sets the same key, whatever was refused and whenever the process died; a
\* request may be repeated after an error and then changes nothing more.
NewUser ==
  [prefs |-> [k \in DOMAIN Chosen |-> Otherwise[k]], observations |-> <<>>, apps |-> {}]
SomeUpdates ==
  { [expertise |-> "developer"], [expertise |-> "guru"], [observation |-> "a"],
    [observation |-> "b", preferred_app |-> "maps"] }
Requests == [updates : SomeUpdates, ends : UserSaves]

UpdatesLast ==
  \A requests \in BoundedSeq(Requests, 3) :
    LET user == FoldLeft(LAMBDA u, r : UpdateSaved(u, r.updates, r.ends, 1),
                         [held |-> NewUser, file |-> NewUser], requests)
    IN /\ \A i \in DOMAIN requests :
            /\ requests[i].ends = "saved"
            /\ \A j \in (i + 1)..Len(requests) :
                  DOMAIN requests[j].updates \cap DOMAIN requests[i].updates = {}
            => UpdateUser(user.file, requests[i].updates, 1) = user.file
       /\ \A u \in SomeUpdates :
            LET once == UpdateUser(user.held, u, 1)
            IN UpdateUser(once, u, 1) = once
       /\ \A k \in DOMAIN Chosen : user.file.prefs[k] \in Chosen[k]

\* What is explored next was not proposed within the day; once every tool was
\* used there is still the hour, under another text each minute.
ExploresUnseen ==
  \A tools \in SUBSET ToSet(SafeTools), used \in SUBSET ToSet(SafeTools),
     proposed \in SUBSET ToSet(SafeTools), hourText \in {"13:30", "13:31"} :
    LET recent == {"13:30"} \cup proposed
        next   == NextExplore(tools, [t \in used |-> 10], 12, 24, hourText, recent)
    IN /\ ToSet(next) \cap (recent \cup used) = {}
       /\ (tools \ (used \cup proposed)) \subseteq ToSet(next)
       /\ hourText = "13:31" => next # <<>>

\* Failures are put before a habit only from the fifth on.
FailuresFirst ==
  \A n \in 0..12, k \in 0..4 :
    LET tasks == SubSeq(<<"a", "b", "c", "d">>, 1, k)
    IN /\ Top(tasks, n) = <<>> <=> n < 2 /\ k = 0
       /\ (k > 0 /\ Top(tasks, n)[1].kind = "failures") <=> (k > 0 /\ n >= 5)

ASSUME DrivesMoveAssumption == DrivesMove
ASSUME DecaySettlesAssumption == DecaySettles
ASSUME IdleExploresAssumption == IdleExplores
ASSUME CoherenceRestsAssumption == CoherenceRests
ASSUME ToolsKeptAssumption == ToolsKept
ASSUME ListsBoundedAssumption == ListsBounded
ASSUME UpdatesLastAssumption == UpdatesLast
ASSUME ExploresUnseenAssumption == ExploresUnseen
ASSUME FailuresFirstAssumption == FailuresFirst
=============================================================================
