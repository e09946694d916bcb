--------------------------- MODULE ApprovalsProofs ---------------------------
(***************************************************************************)
(* Plans and the configuration, for any number of slugs, updates, drafts,  *)
(* savers and deaths; and the types of everything that users decide.       *)
(*                                                                         *)
(* Plans: what a tap or a reply names was drawn up before the note's plan  *)
(* of now, and the version of a note that was cancelled has the tag to     *)
(* show for it.  The updates: all below the next one to be handled are     *)
(* handled, but for the one under way.                                     *)
(* The configuration: no copy of it, wherever it is, has lost a secret;    *)
(* and a save that no other has overlapped has the files for itself.       *)
(* The queue and the life loop are those of AutonomyProofs; what the whole *)
(* of MCApprovals does is what each of its parts does.                     *)
(* Functions, for inputs of any size: the servers and their tools, the     *)
(* decay of the drives, the tools' times and the marker of a reply.        *)
(***************************************************************************)
EXTENDS MCApprovals, AutonomyProofs

\* The first update that has not been begun in this life of the bot.
Upcoming == IF offset > confirmed + 1 THEN offset ELSE confirmed + 1

ServerTypes ==
  /\ sent \in 0..MaxUpdates /\ confirmed \in 0..sent
  /\ what \in [UpdateIds -> [kind : {"task", "note", "new", "approve", "cancel"},
                             by : {"owner", "stranger"}, slug : Slugs, version : 0..MaxDrafts]]

BotTypes ==
  /\ bot \in {"starting", "polling", "stopped"}
  /\ offset \in Nat /\ update \in 0..MaxUpdates /\ runStage \in {"run", "execute"}
  /\ marker \in [slug : Slugs, version : 0..MaxDrafts] /\ turns \in 0..KeepTurns

NoteTypes ==
  /\ plan \in [Slugs -> [version : 0..MaxDrafts, tag : {"none", "note", "pending", "executing", "cancelled"}]]
  /\ drafts \in 0..MaxDrafts /\ safe \subseteq Versions /\ cancelled \subseteq Versions

LogTypes ==
  /\ shown \subseteq [slug : Slugs, version : Versions]
  /\ ran \subseteq [slug : Slugs, version : Versions, id : UpdateIds, late : BOOLEAN]
  /\ starts \in [UpdateIds -> Nat] /\ handled \subseteq UpdateIds /\ deaths \in 0..MaxDeaths

PlansTypes == ServerTypes /\ BotTypes /\ NoteTypes /\ LogTypes

\* What waits in the batch comes next, in order, and was sent.
Ordered ==
  /\ batch \in Seq(UpdateIds)
  /\ \A k \in 1..Len(batch) : batch[k] = Upcoming + k - 1
  /\ Upcoming + Len(batch) <= sent + 1
  /\ update <= sent

\* What lies behind is handled, or under way.
Behind ==
  /\ \A i \in UpdateIds : i <= confirmed => i \in handled
  /\ \A i \in UpdateIds : i < Upcoming => i \in handled \/ i = update

StartedOnce ==
  \A i \in UpdateIds : starts[i] <= (IF i < Upcoming THEN 1 + deaths ELSE deaths)

\* Every draft has a version of its own, and a cancelled one keeps its tag.
Drawn ==
  /\ safe \subseteq 1..drafts /\ cancelled \subseteq 1..drafts
  /\ \A s \in Slugs : /\ plan[s].version <= drafts /\ (IsPlan(s) <=> plan[s].version # 0)
                      /\ plan[s].version \in cancelled => plan[s].tag = "cancelled"
  /\ \A s, t \in Slugs : s # t /\ plan[s].version = plan[t].version => plan[s].version = 0

\* A version that was named is no later than the plan that has its slug.
Before(slug, version) ==
  version <= drafts /\ (IsPlan(slug) => version <= plan[slug].version)

Named ==
  /\ Before(marker.slug, marker.version)
  /\ \A m \in shown : Before(m.slug, m.version)
  /\ \A i \in 1..sent : Before(what[i].slug, what[i].version)

UnderWay ==
  /\ update # 0 => what[update].by = "owner"
  /\ marker.version = 0 => marker = NoMarker
  /\ runStage = "execute" => update # 0 /\ what[update].kind = "task" /\ marker.version \in safe

RanApproved ==
  \A r \in ran :
    /\ r.id <= sent /\ what[r.id].by = "owner" /\ ~r.late
    /\ what[r.id].kind = "approve" => what[r.id].slug = r.slug /\ what[r.id].version <= r.version
    /\ what[r.id].kind = "task" => \E v \in safe : v <= r.version

PlansInv ==
  PlansTypes /\ Ordered /\ Behind /\ StartedOnce /\ Drawn /\ Named /\ UnderWay /\ RanApproved

-----------------------------------------------------------------------------
LEMMA NoneIsTyped ==
  NoMarker \in [slug : Slugs, version : 0..MaxDrafts] /\ NoMarker.version = 0 /\ AnySlug \in Slugs
BY PlansAssumption DEF NoMarker, AnySlug

\* The head of the batch is the upcoming update; the tail follows it.
LEMMA HeadOfBatch ==
  ASSUME PlansTypes, Ordered, batch # <<>>
  PROVE  /\ Head(batch) = Upcoming /\ Head(batch) \in UpdateIds /\ Tail(batch) \in Seq(UpdateIds)
         /\ Len(batch) \in Nat \ {0} /\ Len(Tail(batch)) = Len(batch) - 1
         /\ \A k \in 1..Len(Tail(batch)) : Tail(batch)[k] = batch[k + 1]
<1>1. /\ batch \in Seq(UpdateIds) /\ Head(batch) \in UpdateIds /\ Tail(batch) \in Seq(UpdateIds)
       /\ Len(batch) \in Nat \ {0} /\ Len(Tail(batch)) = Len(batch) - 1 /\ Head(batch) = batch[1]
       /\ \A k \in 1..Len(Tail(batch)) : Tail(batch)[k] = batch[k + 1]
  BY EmptySeq, HeadTailProperties DEF Ordered
<1>2. batch[1] = Upcoming + 1 - 1 /\ Upcoming \in Int
  BY <1>1 DEF Ordered, Upcoming, PlansTypes, ServerTypes, BotTypes
<1>3. QED
  BY <1>1, <1>2

\* An update under way was sent to the bot.
LEMMA UpdateTyped ==
  ASSUME PlansTypes, update # 0
  PROVE  update \in UpdateIds /\ what[update].slug \in Slugs /\ what[update].version \in 0..MaxDrafts
BY DEF PlansTypes, ServerTypes, BotTypes, UpdateIds

\* The calls of the plan tool, and a note saved over a plan, keep the types.
LEMMA ToolTyped ==
  ASSUME NoteTypes, Drawn, PlansAssumption, NEW s \in Slugs,
         Draft(s) \/ Execute(s) \/ Cancel(s) \/ SaveNote(s)
  PROVE  NoteTypes'
<1> USE DEF NoteTypes, Versions
<1>1. CASE Draft(s)
  <2>1. drafts' \in 0..MaxDrafts /\ drafts + 1 \in 0..MaxDrafts /\ safe' \subseteq Versions
    BY <1>1 DEF Draft, PlansAssumption
  <2>2. [version |-> drafts + 1, tag |-> "pending"]
          \in [version : 0..MaxDrafts, tag : {"none", "note", "pending", "executing", "cancelled"}]
    BY <2>1
  <2>3. QED
    BY <1>1, <2>1, <2>2 DEF Draft
<1>2. CASE Execute(s)
  BY <1>2 DEF Execute
<1>3. CASE Cancel(s)
  <2>1. plan[s].version \in Versions
    BY <1>3 DEF Cancel, Drawn, PlansAssumption
  <2>2. QED
    BY <1>3, <2>1 DEF Cancel
<1>4. CASE SaveNote(s)
  <2>1. [version |-> 0, tag |-> "note"]
          \in [version : 0..MaxDrafts, tag : {"none", "note", "pending", "executing", "cancelled"}]
    BY DEF PlansAssumption
  <2>2. QED
    BY <1>4, <2>1 DEF SaveNote
<1>5. QED
  BY <1>1, <1>2, <1>3, <1>4

\* The updates keep their types.
LEMMA ServerTypesStep ==
  ASSUME PlansInv, [PlansNext]_planVars PROVE ServerTypes'
<1> USE PlansAssumption DEF PlansInv, PlansTypes, ServerTypes, UpdateIds, Versions, serverVars, botVars, planNotes, logVars, Settled, Finished, Handling, RecordTurn
<1>1. CASE UserSends
  <2>1. sent' \in 0..MaxUpdates /\ confirmed' \in 0..sent' /\ sent + 1 \in UpdateIds
    BY <1>1 DEF UserSends
  <2>2. \A u \in Taps \cup Texts :
          u \in [kind : {"task", "note", "new", "approve", "cancel"},
                 by : {"owner", "stranger"}, slug : Slugs, version : 0..MaxDrafts]
    BY NoneIsTyped DEF LogTypes, Taps, Texts, Update
  <2>3. QED
    BY <1>1, <2>1, <2>2 DEF UserSends
<1>2. CASE StartBot
  BY <1>2 DEF StartBot
<1>3. CASE Polls
  BY <1>3 DEF BotTypes, Ordered, Upcoming, Polls
<1>4. CASE TakeUpdate
  BY <1>4 DEF TakeUpdate
<1>5. CASE Command
  BY <1>5 DEF Command, SaveNote
<1>6. CASE RunFails
  BY <1>6 DEF RunFails
<1>7. ASSUME NEW s \in Slugs, RunDrafts(s) PROVE ServerTypes'
  BY <1>7 DEF RunDrafts, Draft
<1>8. CASE Respond
  BY <1>8 DEF Respond
<1>9. CASE AutoExecute
  BY <1>9 DEF AutoExecute
<1>10. CASE RunExecutes
  BY <1>10 DEF RunExecutes, Execute, BeginPlan, MayExecute, IsPlan
<1>11. CASE RunCancels
  BY <1>11 DEF RunCancels, Cancel, IsPlan
<1>12. CASE Elsewhere
  BY <1>12 DEF Elsewhere, Draft, Cancel, IsPlan
<1>13. CASE BotDies
  BY <1>13 DEF BotDies
<1>14. CASE UNCHANGED planVars
  BY <1>14 DEF planVars
<1>15. QED
  BY <1>1, <1>2, <1>3, <1>4, <1>5, <1>6, <1>7, <1>8,
     <1>9, <1>10, <1>11, <1>12, <1>13, <1>14 DEF PlansNext

\* So does the bot.
LEMMA BotTypesStep ==
  ASSUME PlansInv, [PlansNext]_planVars PROVE BotTypes'
<1> USE NoneIsTyped, PlansAssumption DEF PlansInv, PlansTypes, BotTypes, UpdateIds, Versions, serverVars, botVars, planNotes, logVars, Settled, Finished, Handling, RecordTurn
<1>1. CASE UserSends
  BY <1>1 DEF UserSends, Taps, Texts, Update
<1>2. CASE StartBot
  BY <1>2 DEF StartBot
<1>3. CASE Polls
  BY <1>3 DEF Polls
<1>4. CASE TakeUpdate
  BY <1>4, HeadOfBatch DEF TakeUpdate
<1>5. CASE Command
  BY <1>5 DEF Command, SaveNote
<1>6. CASE RunFails
  BY <1>6 DEF RunFails
<1>7. ASSUME NEW s \in Slugs, RunDrafts(s) PROVE BotTypes'
  BY <1>7 DEF RunDrafts, Draft, NoteTypes
<1>8. CASE Respond
  BY <1>8 DEF Respond
<1>9. CASE AutoExecute
  BY <1>9 DEF AutoExecute
<1>10. CASE RunExecutes
  BY <1>10, SMTT(30) DEF RunExecutes
<1>11. CASE RunCancels
  BY <1>11 DEF RunCancels, Cancel, IsPlan
<1>12. CASE Elsewhere
  BY <1>12 DEF Elsewhere, Draft, Cancel, IsPlan
<1>13. CASE BotDies
  BY <1>13 DEF BotDies
<1>14. CASE UNCHANGED planVars
  BY <1>14 DEF planVars
<1>15. QED
  BY <1>1, <1>2, <1>3, <1>4, <1>5, <1>6, <1>7, <1>8,
     <1>9, <1>10, <1>11, <1>12, <1>13, <1>14 DEF PlansNext

\* So do the notes.
LEMMA NoteTypesStep ==
  ASSUME PlansInv, [PlansNext]_planVars PROVE NoteTypes'
<1> USE PlansAssumption DEF PlansInv, PlansTypes, planNotes, logVars
<1>1. CASE UserSends
  BY <1>1 DEF UserSends, NoteTypes
<1>2. CASE StartBot
  BY <1>2 DEF StartBot, NoteTypes
<1>3. CASE Polls
  BY <1>3 DEF Polls, NoteTypes
<1>4. CASE TakeUpdate
  BY <1>4 DEF TakeUpdate, NoteTypes
<1>5. CASE Command
  BY <1>5, ToolTyped, UpdateTyped DEF Command, Handling, NoteTypes
<1>6. CASE RunFails
  BY <1>6 DEF RunFails, NoteTypes
<1>7. ASSUME NEW s \in Slugs, RunDrafts(s) PROVE NoteTypes'
  BY <1>7, ToolTyped DEF RunDrafts
<1>8. CASE Respond
  BY <1>8 DEF Respond, NoteTypes
<1>9. CASE AutoExecute
  BY <1>9 DEF AutoExecute, NoteTypes
<1>10. CASE RunExecutes
  <2>1. CASE \E s \in Slugs : Execute(s)
    BY <2>1, ToolTyped
  <2>2. CASE UNCHANGED planNotes
    BY <2>2 DEF NoteTypes
  <2>3. QED
    BY <1>10, <2>1, <2>2, UpdateTyped DEF RunExecutes, Handling, BotTypes
<1>11. CASE RunCancels
  BY <1>11, ToolTyped, UpdateTyped DEF RunCancels, Handling, NoteTypes
<1>12. CASE Elsewhere
  BY <1>12, ToolTyped DEF Elsewhere
<1>13. CASE BotDies
  BY <1>13 DEF BotDies, NoteTypes
<1>14. CASE UNCHANGED planVars
  BY <1>14 DEF planVars, NoteTypes
<1>15. QED
  BY <1>1, <1>2, <1>3, <1>4, <1>5, <1>6, <1>7, <1>8,
     <1>9, <1>10, <1>11, <1>12, <1>13, <1>14 DEF PlansNext

\* So do the histories.
LEMMA LogTypesStep ==
  ASSUME PlansInv, [PlansNext]_planVars PROVE LogTypes'
<1> USE PlansAssumption DEF PlansInv, PlansTypes, LogTypes, UpdateIds, serverVars, botVars, planNotes, logVars, Settled, Finished, Handling, RecordTurn
<1>1. CASE UserSends
  BY <1>1 DEF UserSends, Taps, Texts, Update
<1>2. CASE StartBot
  BY <1>2 DEF StartBot
<1>3. CASE Polls
  BY <1>3 DEF Polls
<1>4. CASE TakeUpdate
  <2>1. \A i \in UpdateIds : starts[i] + 1 \in Nat
    OBVIOUS
  <2>2. QED
    BY <1>4, <2>1, HeadOfBatch DEF TakeUpdate
<1>5. CASE Command
  BY <1>5, UpdateTyped DEF Command
<1>6. CASE RunFails
  BY <1>6, UpdateTyped DEF RunFails
<1>7. ASSUME NEW s \in Slugs, RunDrafts(s) PROVE LogTypes'
  BY <1>7 DEF RunDrafts, Draft
<1>8. CASE Respond
  <2>1. marker \in shown' \ shown => marker \in [slug : Slugs, version : Versions]
    BY <1>8 DEF Respond, BotTypes, Versions, UnderWay
  <2>2. QED
    BY <1>8, <2>1, UpdateTyped DEF Respond
<1>9. CASE AutoExecute
  BY <1>9 DEF AutoExecute
<1>10. CASE RunExecutes
  <2>1. handled' \subseteq UpdateIds
    BY <1>10, UpdateTyped DEF RunExecutes
  <2>2. ASSUME NEW s \in Slugs, Execute(s), BeginPlan(s), update # 0
        PROVE  ran' \subseteq [slug : Slugs, version : Versions, id : UpdateIds, late : BOOLEAN]
    <3>1. plan[s].version \in Versions
      BY <2>2 DEF Execute, MayExecute, Drawn, NoteTypes, Versions
    <3>2. QED
      <4>1. DEFINE late == plan[s].version \in cancelled
      <4>2. [slug |-> s, version |-> plan[s].version, id |-> update, late |-> late]
              \in [slug : Slugs, version : Versions, id : UpdateIds, late : BOOLEAN]
        <5>1. late \in BOOLEAN
          OBVIOUS
        <5>2. HIDE DEF late
        <5>3. QED
          BY <2>2, <3>1, <5>1, UpdateTyped
      <4>3. QED
        BY <2>2, <4>2 DEF BeginPlan
  <2>3. ran' \subseteq [slug : Slugs, version : Versions, id : UpdateIds, late : BOOLEAN]
    BY <1>10, <2>2, UpdateTyped DEF RunExecutes, BotTypes
  <2>4. QED
    BY <1>10, <2>1, <2>3 DEF RunExecutes
<1>11. CASE RunCancels
  BY <1>11, UpdateTyped DEF RunCancels
<1>12. CASE Elsewhere
  BY <1>12 DEF Elsewhere, Draft, Cancel, IsPlan
<1>13. CASE BotDies
  BY <1>13 DEF BotDies
<1>14. CASE UNCHANGED planVars
  BY <1>14 DEF planVars
<1>15. QED
  BY <1>1, <1>2, <1>3, <1>4, <1>5, <1>6, <1>7, <1>8,
     <1>9, <1>10, <1>11, <1>12, <1>13, <1>14 DEF PlansNext

\* A run of numbers, as a sequence.
LEMMA RunOfNumbers ==
  ASSUME NEW a \in Nat, NEW n \in Nat, NEW top \in Nat, a + n <= top, NEW q, q = [i \in 1..n |-> a + i]
  PROVE  q \in Seq(1..top) /\ Len(q) = n /\ \A k \in 1..n : q[k] = a + k
<1>1. \A i \in 1..n : a + i \in 1..top
  OBVIOUS
<1>2. QED
  BY <1>1

\* What taking an update does, in terms of the upcoming one.
LEMMA Taken ==
  ASSUME PlansInv, TakeUpdate
  PROVE  /\ Upcoming \in UpdateIds /\ Upcoming <= sent /\ update = 0
         /\ Upcoming' = Upcoming + 1 /\ batch' = Tail(batch) /\ batch # <<>>
         /\ starts' = [starts EXCEPT ![Upcoming] = @ + 1]
         /\ \/ /\ what[Upcoming].by = "owner" /\ update' = Upcoming /\ runStage' = "run"
               /\ marker' = NoMarker /\ handled' = handled
            \/ update' = 0 /\ handled' = handled \cup {Upcoming} /\ UNCHANGED <<runStage, marker>>
         /\ UNCHANGED <<serverVars, deaths>>
<1>1. batch # <<>> /\ Head(batch) = Upcoming /\ Upcoming \in UpdateIds /\ Len(batch) \in Nat \ {0}
  BY HeadOfBatch DEF TakeUpdate, PlansInv
<1>2. Upcoming <= sent
  BY <1>1 DEF PlansInv, Ordered, PlansTypes, ServerTypes, UpdateIds
<1>3. offset' = Upcoming + 1 /\ confirmed' = confirmed /\ confirmed + 1 <= Upcoming
  BY <1>1, SMTT(30)
    DEF TakeUpdate, serverVars, Upcoming, PlansInv, PlansTypes, ServerTypes, BotTypes
<1>4. Upcoming' = Upcoming + 1
  BY <1>1, <1>3 DEF Upcoming, UpdateIds, PlansInv, PlansTypes, ServerTypes
<1>5. QED
  BY <1>1, <1>2, <1>4 DEF TakeUpdate

\* The batch stays the run of updates from the upcoming one.
LEMMA OrderedStep ==
  ASSUME PlansInv, [PlansNext]_planVars PROVE Ordered'
<1> USE PlansAssumption DEF PlansInv, PlansTypes, ServerTypes, BotTypes, UpdateIds, Upcoming, serverVars, botVars, logVars, Settled, Finished, Handling, RecordTurn, Ordered
<1>1. CASE UserSends
  BY <1>1 DEF UserSends
<1>2. CASE StartBot
  BY <1>2 DEF StartBot
<1>3. CASE Polls
  <2>1. sent - confirmed' \in Nat /\ confirmed' \in Nat /\ Upcoming' = confirmed' + 1
        /\ MaxUpdates \in Nat /\ confirmed' + (sent - confirmed') <= MaxUpdates
    BY <1>3 DEF Polls
  <2>2. batch' = [i \in 1..(sent - confirmed') |-> confirmed' + i]
    BY <1>3 DEF Polls
  <2>4. /\ batch' \in Seq(UpdateIds) /\ Len(batch') = sent - confirmed'
        /\ \A k \in 1..Len(batch') : batch'[k] = confirmed' + k
    <3> DEFINE a == confirmed'  n == sent - confirmed'
    <3>1. a \in Nat /\ n \in Nat /\ a + n <= MaxUpdates /\ MaxUpdates \in Nat /\ batch' = [i \in 1..n |-> a + i]
      BY ONLY <2>1, <2>2
    <3>2. HIDE DEF a, n
    <3>3. /\ batch' \in Seq(1..MaxUpdates) /\ Len(batch') = n /\ \A k \in 1..n : batch'[k] = a + k
      BY ONLY <3>1, RunOfNumbers
    <3>4. QED
      BY <3>3 DEF a, n
  <2>5. QED
    BY <1>3, <2>1, <2>4 DEF Polls
<1>4. CASE TakeUpdate
  <2>1. Upcoming' = Upcoming + 1 /\ batch' = Tail(batch) /\ UNCHANGED sent
    BY <1>4, Taken
  <2>2. \A k \in 1..Len(batch') : batch'[k] = Upcoming' + k - 1
    BY <1>4, <2>1, HeadOfBatch, SMTT(30)
  <2>3. batch' \in Seq(UpdateIds) /\ Upcoming' + Len(batch') <= sent' + 1
    BY <1>4, <2>1, HeadOfBatch DEF TakeUpdate
  <2>4. update' <= sent'
    BY <1>4, Taken
  <2>5. QED
    BY <2>2, <2>3, <2>4
<1>5. CASE Command
  BY <1>5 DEF Command
<1>6. CASE RunFails
  BY <1>6 DEF RunFails
<1>7. ASSUME NEW s \in Slugs, RunDrafts(s) PROVE Ordered'
  BY <1>7 DEF RunDrafts
<1>8. CASE Respond
  BY <1>8 DEF Respond
<1>9. CASE AutoExecute
  BY <1>9 DEF AutoExecute
<1>10. CASE RunExecutes
  BY <1>10 DEF RunExecutes
<1>11. CASE RunCancels
  BY <1>11 DEF RunCancels
<1>12. CASE Elsewhere
  BY <1>12 DEF Elsewhere
<1>13. CASE BotDies
  <2>1. batch' = <<>> /\ Len(batch') = 0 /\ batch' \in Seq(UpdateIds)
    BY <1>13 DEF BotDies
  <2>2. QED
    BY <1>13, <2>1 DEF BotDies
<1>14. CASE UNCHANGED planVars
  BY <1>14 DEF planVars
<1>15. QED
  BY <1>1, <1>2, <1>3, <1>4, <1>5, <1>6, <1>7, <1>8,
     <1>9, <1>10, <1>11, <1>12, <1>13, <1>14 DEF PlansNext

\* No update is left behind.
LEMMA BehindStep ==
  ASSUME PlansInv, [PlansNext]_planVars PROVE Behind'
<1> USE PlansAssumption DEF PlansInv, PlansTypes, ServerTypes, BotTypes, UpdateIds, Upcoming, serverVars, botVars, logVars, Settled, Finished, Handling, RecordTurn, Behind
<1>1. CASE UserSends
  BY <1>1 DEF UserSends
<1>2. CASE StartBot
  BY <1>2 DEF StartBot
<1>3. CASE Polls
  BY <1>3 DEF Polls, Ordered
<1>4. CASE TakeUpdate
  <2>1. Upcoming \in UpdateIds /\ update = 0 /\ Upcoming' = Upcoming + 1 /\ confirmed' = confirmed
    BY <1>4, Taken
  <2>2. \/ update' = Upcoming /\ handled' = handled
        \/ update' = 0 /\ handled' = handled \cup {Upcoming}
    BY <1>4, Taken
  <2>3. \A i \in UpdateIds : i < Upcoming => i \in handled
    BY <2>1
  <2>4. handled \subseteq handled' /\ (Upcoming \in handled' \/ update' = Upcoming)
    BY <2>2
  <2>5. \A i \in UpdateIds : i < Upcoming + 1 => i < Upcoming \/ i = Upcoming
    BY <2>1
  <2>6. \A i \in UpdateIds : i < Upcoming' => i \in handled' \/ i = update'
    BY <2>1, <2>3, <2>4, <2>5
  <2>7. QED
    BY <2>1, <2>4, <2>6
<1>5. CASE Command
  BY <1>5 DEF Command
<1>6. CASE RunFails
  BY <1>6 DEF RunFails
<1>7. ASSUME NEW s \in Slugs, RunDrafts(s) PROVE Behind'
  BY <1>7 DEF RunDrafts
<1>8. CASE Respond
  BY <1>8 DEF Respond
<1>9. CASE AutoExecute
  BY <1>9 DEF AutoExecute
<1>10. CASE RunExecutes
  BY <1>10 DEF RunExecutes
<1>11. CASE RunCancels
  BY <1>11 DEF RunCancels
<1>12. CASE Elsewhere
  BY <1>12 DEF Elsewhere
<1>13. CASE BotDies
  BY <1>13 DEF BotDies
<1>14. CASE UNCHANGED planVars
  BY <1>14 DEF planVars
<1>15. QED
  BY <1>1, <1>2, <1>3, <1>4, <1>5, <1>6, <1>7, <1>8,
     <1>9, <1>10, <1>11, <1>12, <1>13, <1>14 DEF PlansNext

\* None is begun twice in one life.
LEMMA StartedOnceStep ==
  ASSUME PlansInv, [PlansNext]_planVars PROVE StartedOnce'
<1> USE PlansAssumption DEF PlansInv, PlansTypes, ServerTypes, BotTypes, UpdateIds, Upcoming, serverVars, botVars, logVars, Settled, Finished, Handling, RecordTurn, StartedOnce, LogTypes
<1>1. CASE UserSends
  BY <1>1 DEF UserSends
<1>2. CASE StartBot
  BY <1>2 DEF StartBot
<1>3. CASE Polls
  BY <1>3 DEF Polls, Ordered
<1>4. CASE TakeUpdate
  <2>1. Upcoming' = Upcoming + 1 /\ UNCHANGED deaths
    BY <1>4, Taken
  <2>2. \A i \in UpdateIds : starts'[i] = IF i = Upcoming THEN starts[i] + 1 ELSE starts[i]
    BY <1>4, Taken
  <2>3. QED
    BY <2>1, <2>2, SMTT(30)
<1>5. CASE Command
  BY <1>5 DEF Command
<1>6. CASE RunFails
  BY <1>6 DEF RunFails
<1>7. ASSUME NEW s \in Slugs, RunDrafts(s) PROVE StartedOnce'
  BY <1>7 DEF RunDrafts
<1>8. CASE Respond
  BY <1>8 DEF Respond
<1>9. CASE AutoExecute
  BY <1>9 DEF AutoExecute
<1>10. CASE RunExecutes
  BY <1>10 DEF RunExecutes
<1>11. CASE RunCancels
  BY <1>11 DEF RunCancels
<1>12. CASE Elsewhere
  BY <1>12 DEF Elsewhere
<1>13. CASE BotDies
  BY <1>13, SMTT(30) DEF BotDies
<1>14. CASE UNCHANGED planVars
  BY <1>14 DEF planVars
<1>15. QED
  BY <1>1, <1>2, <1>3, <1>4, <1>5, <1>6, <1>7, <1>8,
     <1>9, <1>10, <1>11, <1>12, <1>13, <1>14 DEF PlansNext

LEMMA PlansTypesStep ==
  ASSUME PlansInv, [PlansNext]_planVars PROVE PlansTypes'
BY ServerTypesStep, BotTypesStep, NoteTypesStep, LogTypesStep DEF PlansTypes

-----------------------------------------------------------------------------
\* The plan tool and a note saved over a plan: versions stay apart, a cancelled
\* one keeps its tag, and what was named before stays before.
ToolCall == \E s \in Slugs : Draft(s) \/ Execute(s) \/ Cancel(s) \/ SaveNote(s)

LEMMA ToolDrawn ==
  ASSUME PlansTypes, Drawn, ToolCall
  PROVE  Drawn'
<1> USE DEF PlansTypes, NoteTypes, Drawn, IsPlan, Versions
<1>1. PICK s \in Slugs : Draft(s) \/ Execute(s) \/ Cancel(s) \/ SaveNote(s)
  BY DEF ToolCall
<1>2. CASE Draft(s)
  BY <1>2 DEF Draft
<1>3. CASE Execute(s)
  BY <1>3 DEF Execute, MayExecute
<1>4. CASE Cancel(s)
  BY <1>4 DEF Cancel
<1>5. CASE SaveNote(s)
  BY <1>5 DEF SaveNote
<1>6. QED
  BY <1>1, <1>2, <1>3, <1>4, <1>5

LEMMA ToolBefore ==
  ASSUME PlansTypes, Drawn, ToolCall, NEW t \in Slugs, NEW v \in Nat, Before(t, v)
  PROVE  Before(t, v)'
<1> USE DEF PlansTypes, NoteTypes, Drawn, IsPlan, Before, Versions
<1>1. PICK s \in Slugs : Draft(s) \/ Execute(s) \/ Cancel(s) \/ SaveNote(s)
  BY DEF ToolCall
<1>2. CASE Draft(s)
  BY <1>2 DEF Draft
<1>3. CASE Execute(s)
  BY <1>3 DEF Execute, MayExecute
<1>4. CASE Cancel(s)
  BY <1>4 DEF Cancel
<1>5. CASE SaveNote(s)
  BY <1>5 DEF SaveNote
<1>6. QED
  BY <1>1, <1>2, <1>3, <1>4, <1>5

\* A step calls the tool, or leaves the plans alone; and no step takes back that
\* a version needs no approval.
LEMMA PlanStep ==
  ASSUME PlansInv, [PlansNext]_planVars
  PROVE  (ToolCall \/ UNCHANGED planNotes) /\ safe \subseteq safe'
<1>1. ToolCall => safe \subseteq safe'
  BY DEF ToolCall, Draft, Execute, Cancel, SaveNote
<1>2. ToolCall \/ UNCHANGED planNotes
  <2>1. ASSUME update # 0 PROVE what[update].slug \in Slugs /\ marker.slug \in Slugs
    BY <2>1, UpdateTyped DEF PlansInv, PlansTypes, BotTypes
  <2>2. CASE UserSends \/ StartBot \/ Polls \/ TakeUpdate \/ RunFails \/ Respond \/ AutoExecute \/ BotDies
    BY <2>2 DEF UserSends, StartBot, Polls, TakeUpdate, RunFails, Respond, AutoExecute, BotDies
  <2>3. CASE Command
    BY <2>1, <2>3 DEF Command, Handling, ToolCall
  <2>4. CASE \E s \in Slugs : RunDrafts(s)
    BY <2>4 DEF RunDrafts, ToolCall
  <2>5. CASE RunExecutes
    BY <2>1, <2>5 DEF RunExecutes, Handling, ToolCall
  <2>6. CASE RunCancels
    BY <2>1, <2>6 DEF RunCancels, Handling, ToolCall
  <2>7. CASE Elsewhere
    BY <2>7 DEF Elsewhere, ToolCall
  <2>8. CASE UNCHANGED planVars
    BY <2>8 DEF planVars
  <2>9. QED
    BY <2>2, <2>3, <2>4, <2>5, <2>6, <2>7, <2>8 DEF PlansNext
<1>3. QED
  BY <1>1, <1>2 DEF planNotes

LEMMA DrawnStep ==
  ASSUME PlansInv, [PlansNext]_planVars PROVE Drawn'
<1>1. CASE ToolCall
  BY <1>1, ToolDrawn DEF PlansInv
<1>2. CASE UNCHANGED planNotes
  BY <1>2 DEF PlansInv, Drawn, planNotes, IsPlan
<1>3. QED
  BY <1>1, <1>2, PlanStep

LEMMA BeforeStays ==
  ASSUME PlansInv, [PlansNext]_planVars, NEW t \in Slugs, NEW v \in Nat, Before(t, v)
  PROVE  Before(t, v)'
<1>1. CASE ToolCall
  BY <1>1, ToolBefore DEF PlansInv
<1>2. CASE UNCHANGED planNotes
  BY <1>2 DEF Before, planNotes, IsPlan
<1>3. QED
  BY <1>1, <1>2, PlanStep

\* Updates are sent one by one, and stay as they are.
LEMMA SentTyped ==
  ASSUME PlansTypes
  PROVE  /\ sent \in Nat /\ MaxUpdates \in Nat /\ sent <= MaxUpdates
         /\ \A i \in 1..sent : i \in UpdateIds /\ what[i].slug \in Slugs /\ what[i].version \in Nat
<1>1. sent \in Nat /\ MaxUpdates \in Nat /\ sent <= MaxUpdates
  BY PlansAssumption DEF PlansTypes, ServerTypes
<1>2. \A i \in 1..sent : i \in UpdateIds
  BY <1>1 DEF UpdateIds
<1>3. \A i \in UpdateIds : what[i].slug \in Slugs /\ what[i].version \in Nat
  BY DEF PlansTypes, ServerTypes
<1>4. QED
  BY <1>1, <1>2, <1>3

LEMMA SentStep ==
  ASSUME PlansTypes, [PlansNext]_planVars
  PROVE  /\ sent' = sent \/ sent' = sent + 1
         /\ \A i \in 1..sent : what'[i] = what[i]
         /\ sent' = sent + 1 => what'[sent + 1] \in Taps \cup Texts
<1>1. CASE UserSends
  <2>1. PICK u \in Taps \cup Texts : what' = [what EXCEPT ![sent + 1] = u]
    BY <1>1 DEF UserSends
  <2>2. sent' = sent + 1 /\ sent + 1 \in UpdateIds /\ sent < MaxUpdates
    BY <1>1, SentTyped DEF UserSends, UpdateIds
  <2>3. \A i \in UpdateIds : what'[i] = IF i = sent + 1 THEN u ELSE what[i]
    BY <2>1, <2>2 DEF PlansTypes, ServerTypes
  <2>4. \A i \in 1..sent : i # sent + 1
    BY SentTyped
  <2>5. QED
    BY <2>2, <2>3, <2>4, SentTyped
<1>2. CASE UNCHANGED <<sent, what>>
  BY <1>2, SentTyped
<1>3. QED
  BY <1>1, <1>2 DEF PlansNext, StartBot, Polls, TakeUpdate, Command, RunFails, Respond, RunDrafts,
       AutoExecute, RunExecutes, RunCancels, Elsewhere, BotDies, planVars, serverVars

\* Whatever a message, a marker or an update names stays before the plan.
LEMMA NamedStep ==
  ASSUME PlansInv, [PlansNext]_planVars PROVE Named'
<1>1. Before(marker.slug, marker.version)' 
  <2>1. CASE UNCHANGED marker
    <3>1. marker.slug \in Slugs /\ marker.version \in Nat
      BY DEF PlansInv, PlansTypes, BotTypes
    <3>2. QED
      BY <2>1, <3>1, BeforeStays DEF PlansInv, Named
  <2>2. CASE marker' = NoMarker
    BY <2>2, NoneIsTyped, PlansTypesStep, DrawnStep DEF PlansTypes, NoteTypes, Before
  <2>3. CASE \E s \in Slugs : RunDrafts(s)
    BY <2>3 DEF RunDrafts, Draft, Before, PlansInv, PlansTypes, NoteTypes
  <2>4. QED
    BY <2>1, <2>2, <2>3 DEF PlansNext, UserSends, StartBot, Polls, TakeUpdate, Command, RunFails, Respond,
         AutoExecute, RunExecutes, RunCancels, Elsewhere, BotDies, planVars, botVars, Settled, Finished
<1>2. \A m \in shown' : Before(m.slug, m.version)'
  <2>1. ASSUME NEW m \in shown' PROVE m \in shown \/ m = marker
    BY DEF PlansNext, UserSends, StartBot, Polls, TakeUpdate, Command, RunFails, Respond, RunDrafts,
         AutoExecute, RunExecutes, RunCancels, Elsewhere, BotDies, planVars
  <2>2. ASSUME NEW m \in shown' PROVE m.slug \in Slugs /\ m.version \in Nat
    BY <2>1 DEF PlansInv, PlansTypes, BotTypes, LogTypes, Versions
  <2>3. QED
    BY <2>1, <2>2, BeforeStays DEF PlansInv, Named
<1>3. \A i \in 1..sent' : Before(what[i].slug, what[i].version)'
  <2>1. ASSUME NEW i \in 1..sent', NEW u, u = what'[i]
        PROVE  Before(u.slug, u.version)'
    <3>1. CASE i \in 1..sent
      <4>1. u = what[i] /\ u.slug \in Slugs /\ u.version \in Nat
        BY <2>1, <3>1, SentTyped, SentStep DEF PlansInv
      <4>2. Before(u.slug, u.version)
        BY <3>1, <4>1 DEF PlansInv, Named
      <4>3. QED
        BY <4>1, <4>2, BeforeStays
    <3>2. CASE i \notin 1..sent
      <4>1. u \in Taps \cup Texts
        BY <2>1, <3>2, SentTyped, SentStep DEF PlansInv, PlansTypes, ServerTypes
      <4>2. u.slug \in Slugs /\ u.version \in Nat /\ Before(u.slug, u.version)
        BY <4>1, NoneIsTyped DEF Taps, Texts, Update, PlansInv, Named, PlansTypes, LogTypes, Versions, NoteTypes, Before
      <4>3. QED
        BY <4>2, BeforeStays
    <3>3. QED
      BY <3>1, <3>2
  <2>2. QED
    BY <2>1 DEF Before, IsPlan
<1>4. QED
  BY <1>1, <1>2, <1>3 DEF Named

\* The update under way is the owner's, and a run for a draft is for a safe one.
LEMMA UnderWayStep ==
  ASSUME PlansInv, [PlansNext]_planVars PROVE UnderWay'
<1> USE DEF serverVars, botVars, planNotes, Settled, Finished, Handling, UnderWay
<1>1. CASE UserSends
  BY <1>1 DEF UserSends, PlansInv, Ordered, PlansTypes, ServerTypes, BotTypes
<1>2. CASE StartBot
  BY <1>2 DEF StartBot, PlansInv
<1>3. CASE Polls
  BY <1>3 DEF Polls, PlansInv
<1>4. CASE TakeUpdate
  BY <1>4, Taken, NoneIsTyped DEF PlansInv, serverVars
<1>5. CASE Command
  BY <1>5 DEF Command, PlansInv
<1>6. CASE RunFails
  BY <1>6 DEF RunFails, PlansInv
<1>7. ASSUME NEW s \in Slugs, RunDrafts(s) PROVE UnderWay'
  BY <1>7, PlanStep DEF PlansInv, RunDrafts, Draft, PlansTypes, NoteTypes
<1>8. CASE Respond
  BY <1>8 DEF Respond, PlansInv
<1>9. CASE AutoExecute
  BY <1>9 DEF AutoExecute, PlansInv
<1>10. CASE RunExecutes
  BY <1>10 DEF RunExecutes, PlansInv
<1>11. CASE RunCancels
  BY <1>11 DEF RunCancels, PlansInv
<1>12. CASE Elsewhere
  BY <1>12, PlanStep DEF Elsewhere, PlansInv
<1>13. CASE BotDies
  BY <1>13 DEF BotDies, PlansInv
<1>14. CASE UNCHANGED planVars
  BY <1>14 DEF planVars, PlansInv
<1>15. QED
  BY <1>1, <1>2, <1>3, <1>4, <1>5, <1>6, <1>7,
     <1>8, <1>9, <1>10, <1>11, <1>12, <1>13, <1>14 DEF PlansNext

\* What was begun for the bot had been approved.
LEMMA RanApprovedStep ==
  ASSUME PlansInv, [PlansNext]_planVars PROVE RanApproved'
<1>1. safe \subseteq safe' /\ \A i \in 1..sent : what'[i] = what[i] /\ i <= sent'
  BY PlanStep, SentStep, SentTyped DEF PlansInv
<1>2. ASSUME NEW r \in ran
      PROVE  /\ r.id <= sent' /\ what'[r.id].by = "owner" /\ ~r.late
             /\ what'[r.id].kind = "approve" => what'[r.id].slug = r.slug /\ what'[r.id].version <= r.version
             /\ what'[r.id].kind = "task" => \E v \in safe' : v <= r.version
  <2>1. r.id \in 1..sent
    BY DEF PlansInv, RanApproved, PlansTypes, LogTypes, UpdateIds, ServerTypes
  <2>2. QED
    BY <1>1, <2>1 DEF PlansInv, RanApproved
<1>3. CASE UNCHANGED ran
  BY <1>2, <1>3 DEF RanApproved
<1>4. ASSUME NEW s \in Slugs, RunExecutes, Execute(s), BeginPlan(s),
             s = IF runStage = "run" THEN what[update].slug ELSE marker.slug
      PROVE  RanApproved'
  <2>1. update \in 1..sent /\ what[update].by = "owner" /\ what'[update] = what[update]
    BY <1>4, <1>1 DEF RunExecutes, Handling, PlansInv, UnderWay, Ordered, PlansTypes, BotTypes, ServerTypes
  <2>2. plan[s].version \notin cancelled /\ plan[s].version \in Nat
    BY <1>4 DEF Execute, MayExecute, PlansInv, Drawn, PlansTypes, NoteTypes
  <2>3. what[update].kind = "approve" => what[update].slug = s /\ what[update].version <= plan[s].version
    BY <1>4, <2>1 DEF RunExecutes, Handling, Execute, MayExecute, PlansInv, Named, Before, UnderWay
  <2>4. what[update].kind = "task" => \E v \in safe' : v <= plan[s].version
    BY <1>4, <1>1 DEF RunExecutes, Handling, Execute, MayExecute, PlansInv, Named, Before, UnderWay
  <2>5. DEFINE new == [slug |-> s, version |-> plan[s].version, id |-> update, late |-> plan[s].version \in cancelled]
  <2>6. ran' = ran \cup {new} /\ ~new.late
    BY <1>4, <2>2 DEF BeginPlan
  <2>7. new.slug = s /\ new.version = plan[s].version /\ new.id = update
    OBVIOUS
  <2>8. update <= sent'
    BY <1>1, <2>1
  <2>9. HIDE DEF new
  <2>10. QED
    BY <1>2, <2>1, <2>3, <2>4, <2>6, <2>7, <2>8 DEF RanApproved
<1>5. CASE RunExecutes
  <2>1. what[update].slug \in Slugs /\ marker.slug \in Slugs
    BY <1>5, UpdateTyped DEF RunExecutes, Handling, PlansInv, PlansTypes, BotTypes
  <2>2. QED
    BY <1>3, <1>4, <1>5, <2>1 DEF RunExecutes
<1>6. QED
  BY <1>3, <1>5 DEF PlansNext, UserSends, StartBot, Polls, TakeUpdate, Command, RunFails, Respond, RunDrafts,
         AutoExecute, RunCancels, Elsewhere, BotDies, planVars

-----------------------------------------------------------------------------
LEMMA PlansInvInit == PlansInit => PlansInv
<1> SUFFICES ASSUME PlansInit PROVE PlansInv
  OBVIOUS
<1> USE PlansAssumption, NoneIsTyped DEF PlansInit
<1>1. PlansTypes
  <2>1. NoUpdate \in [kind : {"task", "note", "new", "approve", "cancel"},
                      by : {"owner", "stranger"}, slug : Slugs, version : 0..MaxDrafts]
    BY DEF NoUpdate, Update
  <2>2. NoPlan \in [version : 0..MaxDrafts, tag : {"none", "note", "pending", "executing", "cancelled"}]
    BY DEF NoPlan
  <2>3. QED
    BY <2>1, <2>2 DEF PlansTypes, ServerTypes, BotTypes, NoteTypes, LogTypes
<1>2. Ordered /\ Behind /\ StartedOnce
  BY DEF Ordered, Behind, StartedOnce, Upcoming, UpdateIds
<1>3. Drawn /\ Named
  BY DEF Drawn, Named, Before, NoPlan, IsPlan
<1>4. UnderWay /\ RanApproved
  BY DEF UnderWay, RanApproved
<1>5. QED
  BY <1>1, <1>2, <1>3, <1>4 DEF PlansInv

LEMMA PlansInvStep == PlansInv /\ [PlansNext]_planVars => PlansInv'
BY PlansTypesStep, OrderedStep, BehindStep, StartedOnceStep, DrawnStep, NamedStep, UnderWayStep,
   RanApprovedStep DEF PlansInv

LEMMA PlansInvAlways == PlansSpec => []PlansInv
BY PlansInvInit, PlansInvStep, PTL DEF PlansSpec

\* What the invariant says of the bot, the plans and the histories.
LEMMA PlansInvTypes == PlansInv => PlansTypeOK
<1> SUFFICES ASSUME PlansInv PROVE PlansTypeOK
  OBVIOUS
<1>1. Len(batch) \in Nat /\ Upcoming \in Nat /\ Upcoming >= 1 /\ sent \in Nat /\ sent <= MaxUpdates
  BY PlansAssumption DEF PlansInv, PlansTypes, ServerTypes, BotTypes, Ordered, Upcoming
<1>2. Len(batch) <= MaxUpdates /\ Upcoming <= MaxUpdates + 1
  BY <1>1, PlansAssumption DEF PlansInv, Ordered
<1>3. offset \in 0..MaxUpdates + 1
  BY <1>2, PlansAssumption DEF Upcoming, PlansInv, PlansTypes, ServerTypes, BotTypes
<1>4. starts \in [UpdateIds -> 0..MaxDeaths + 1]
  BY <1>1, PlansAssumption DEF PlansInv, StartedOnce, PlansTypes, LogTypes
<1>5. QED
  BY <1>2, <1>3, <1>4 DEF PlansInv, PlansTypes, ServerTypes, BotTypes, NoteTypes, LogTypes, Ordered, PlansTypeOK

\* The bot, the plans and the histories keep their types and bounds: a batch is
\* never longer than what was sent, and the offset never passes it.
THEOREM PlansTypeCorrect == PlansSpec => []PlansTypeOK
BY PlansInvTypes, PlansInvAlways, PTL

\* A plan that the bot sets going was approved under that text or needed no
\* approval, and was never cancelled; no update is dropped unhandled, and none is
\* handled twice in one life: however many updates, drafts and deaths there are.
THEOREM ApprovalsHonoured == PlansSpec => []ApprovalHonoured
<1>1. PlansInv => ApprovalHonoured
  <2> SUFFICES ASSUME PlansInv PROVE ApprovalHonoured
    OBVIOUS
  <2>1. \A i \in 1..confirmed : i \in handled
    BY PlansAssumption DEF PlansInv, Behind, PlansTypes, ServerTypes, UpdateIds
  <2>2. \A i \in UpdateIds : starts[i] <= 1 + deaths
    BY PlansAssumption DEF PlansInv, StartedOnce, PlansTypes, LogTypes
  <2>3. QED
    BY <2>1, <2>2 DEF PlansInv, RanApproved, ApprovalHonoured
<1>2. QED
  BY <1>1, PlansInvAlways, PTL

-----------------------------------------------------------------------------
(* The configuration. *)

SaverStates ==
  [pc : {"idle", "open", "fill", "rename", "push"}, snap : Configs,
   file : {"none", "tmp", "disk", "lost"}, alone : BOOLEAN]

ConfigTypes ==
  /\ env \in BOOLEAN /\ up \in BOOLEAN /\ booted \in BOOLEAN /\ overlapped \in BOOLEAN
  /\ live \in Configs /\ acked \in Configs /\ pinNow \in Typed \cup {Blank}
  /\ disk \in Files /\ (tmp = NoFile \/ \E f \in Files : tmp = <<f>>)
  /\ saver \in [Savers -> SaverStates]
  /\ saves \in 0..MaxSaves /\ accidents \in 0..MaxAccidents /\ outcome \in {"ok", "failed"}

\* No copy of the configuration has lost a secret.
NoSecretLost ==
  /\ SecretsKept(live) /\ SecretsKept(acked) /\ SecretsKept(disk.of)
  /\ tmp # NoFile => SecretsKept(tmp[1].of)
  /\ \A s \in Savers : SecretsKept(saver[s].snap)

\* Who has the temporary file open will find it; a process that is down runs no
\* save.
FilesOpen ==
  /\ \A s \in Savers : saver[s].file = "tmp" => tmp # NoFile /\ saver[s].pc = "fill"
  /\ ~up => Busy = {}

\* A save that none has overlapped is the only one, and the files are its own.
AloneMeans ==
  \A s \in Savers : saver[s].pc # "idle" /\ saver[s].alone =>
    /\ \A t \in Savers : saver[t].pc # "idle" => t = s
    /\ live = saver[s].snap
    /\ saver[s].pc = "fill" => saver[s].file = "tmp" /\ ~tmp[1].whole
    /\ saver[s].pc = "rename" => tmp # NoFile /\ tmp[1].whole /\ tmp[1].of = saver[s].snap
    /\ saver[s].pc = "push" => disk.whole /\ disk.of = saver[s].snap

\* Unless saves have overlapped, the disk is whole and holds what was promised or
\* what is about to be, and an idle agent agrees with it.
NotOverlapped ==
  ~overlapped =>
    /\ \A s \in Savers : saver[s].pc # "idle" => saver[s].alone
    /\ disk.whole
    /\ disk.of = acked \/ ~up \/ \E s \in Savers : saver[s].pc = "push" /\ disk.of = saver[s].snap
    /\ up /\ (\A s \in Savers : saver[s].pc = "idle") /\ outcome = "ok" =>
         /\ live = IF booted THEN Booted(acked) ELSE acked
         /\ pinNow = acked.pin

ConfigInv == ConfigTypes /\ NoSecretLost /\ FilesOpen /\ AloneMeans /\ NotOverlapped

LEMMA SecretsAreNone ==
  /\ "old" \in Typed /\ "env" \in Typed
  /\ Blank \notin Typed /\ Mask \notin Typed /\ PinMask \notin Typed /\ Absent \notin Typed
BY ConfigAssumption DEF Typed, Blank, Mask, PinMask, Absent

LEMMA InstalledTyped == Installed \in Configs /\ SecretsKept(Installed)
BY SecretsAreNone DEF Installed, Configs, Providers, Known, Custom, SecretsKept, Blank, Mask, Absent

\* The page is given the mask of a key that is kept.
LEMMA FormMasks ==
  ASSUME NEW c \in Configs, SecretsKept(c)
  PROVE  Form(c) = [name |-> Known, key |-> Mask, stt |-> PinMask,
                    pin |-> IF c.pin = Blank THEN Blank ELSE PinMask]
<1>1. c.keys[Known] \in Typed /\ c.stt \in Typed /\ c.pin \in Typed \cup {Blank} /\ Known \in Providers
  BY DEF Configs, SecretsKept, Providers, Known
<1>2. Shown(c).keys[Known] = Mask /\ Shown(c).pin = IF c.pin = Blank THEN Blank ELSE PinMask
  BY <1>1 DEF Shown, Configs
<1>3. QED
  BY <1>2 DEF Form

LEMMA PostsTyped ==
  ASSUME NEW c \in Configs, SecretsKept(c), NEW p \in Posts(c)
  PROVE  /\ p.name \in Providers /\ p.key \in Fresh \cup {Blank, Mask}
         /\ p.stt \in Fresh \cup {PinMask} /\ p.pin \in Fresh \cup {Blank, PinMask}
<1>1. Known \in Providers
  BY DEF Providers
<1>2. CASE p = Form(c)
  BY <1>1, <1>2, FormMasks
<1>3. ASSUME NEW n \in Providers, NEW k \in Fresh \cup {Blank, Form(c).key},
             p = Retyped(Form(c), n, k)
      PROVE  /\ p.name \in Providers /\ p.key \in Fresh \cup {Blank, Mask}
             /\ p.stt \in Fresh \cup {PinMask} /\ p.pin \in Fresh \cup {Blank, PinMask}
  BY <1>3, FormMasks DEF Retyped
<1>4. ASSUME NEW k \in Fresh, p = [Form(c) EXCEPT !.stt = k]
      PROVE  /\ p.name \in Providers /\ p.key \in Fresh \cup {Blank, Mask}
             /\ p.stt \in Fresh \cup {PinMask} /\ p.pin \in Fresh \cup {Blank, PinMask}
  BY <1>1, <1>4, FormMasks
<1>5. ASSUME NEW k \in Fresh \cup {Blank}, p = [Form(c) EXCEPT !.pin = k]
      PROVE  /\ p.name \in Providers /\ p.key \in Fresh \cup {Blank, Mask}
             /\ p.stt \in Fresh \cup {PinMask} /\ p.pin \in Fresh \cup {Blank, PinMask}
  BY <1>1, <1>5, FormMasks
<1>6. \/ p = Form(c)
      \/ \E n \in Providers, k \in Fresh \cup {Blank, Form(c).key} : p = Retyped(Form(c), n, k)
      \/ \E k \in Fresh : p = [Form(c) EXCEPT !.stt = k]
      \/ \E k \in Fresh \cup {Blank} : p = [Form(c) EXCEPT !.pin = k]
  <2> DEFINE F == Form(c)
  <2> DEFINE Keys == { Retyped(F, n, k) : n \in Providers, k \in Fresh \cup {Blank, F.key} }
             Stts == { [F EXCEPT !.stt = k] : k \in Fresh }
             Pins == { [F EXCEPT !.pin = q] : q \in Fresh \cup {Blank} }
  <2>1. p \in {F} \cup Keys \cup Stts \cup Pins
    BY DEF Posts
  <2>2. p \in Keys => \E n \in Providers, k \in Fresh \cup {Blank, F.key} : p = Retyped(F, n, k)
    OBVIOUS
  <2>3. p \in Stts => \E k \in Fresh : p = [F EXCEPT !.stt = k]
    OBVIOUS
  <2>4. p \in Pins => \E k \in Fresh \cup {Blank} : p = [F EXCEPT !.pin = k]
    OBVIOUS
  <2>5. p = F \/ p \in Keys \/ p \in Stts \/ p \in Pins
    <3> HIDE DEF F, Keys, Stts, Pins
    <3> QED BY <2>1
  <2>6. QED
    BY <2>2, <2>3, <2>4, <2>5
<1>7. QED
  BY <1>2, <1>3, <1>4, <1>5, <1>6

\* A merge of what the page posts keeps every secret.
LEMMA MergeKeepsSecrets ==
  ASSUME NEW c \in Configs, SecretsKept(c), NEW p \in Posts(c)
  PROVE  Merged(c, p) \in Configs /\ SecretsKept(Merged(c, p))
<1> DEFINE key == KeptKey(c.keys[p.name], p.key)
<1>1. /\ p.name \in Providers /\ p.key \in Fresh \cup {Blank, Mask}
      /\ p.stt \in Fresh \cup {PinMask} /\ p.pin \in Fresh \cup {Blank, PinMask}
  BY PostsTyped
<1>2. /\ key \in Typed \cup {Blank, Mask, Absent}
      /\ p.name = Known => key \in Typed
  BY <1>1, SecretsAreNone DEF KeptKey, Configs, SecretsKept, Typed
<1>3. KeptStt(c.stt, p.stt) \in Typed /\ KeptPin(c.pin, p.pin) \in Typed \cup {Blank}
  BY <1>1, SecretsAreNone DEF KeptStt, KeptPin, Configs, SecretsKept, Typed
<1>4. Merged(c, p).keys = [c.keys EXCEPT ![p.name] = key]
  BY DEF Merged
<1>5. HIDE DEF key
<1>6. Merged(c, p).keys \in [Providers -> Typed \cup {Blank, Mask, Absent}] /\ Merged(c, p).keys[Known] \in Typed
  <2>1. Known \in Providers /\ c.keys[Known] \in Typed
    BY DEF Providers, Configs, SecretsKept
  <2>2. QED
    BY <1>1, <1>2, <1>4, <2>1 DEF Configs
<1>7. /\ Merged(c, p).stt = KeptStt(c.stt, p.stt) /\ Merged(c, p).pin = KeptPin(c.pin, p.pin)
      /\ Merged(c, p).dir = "unset"
      /\ Merged(c, p) = [keys |-> Merged(c, p).keys, stt |-> Merged(c, p).stt,
                         pin |-> Merged(c, p).pin, dir |-> Merged(c, p).dir]
  BY DEF Merged
<1>8. QED
  BY <1>3, <1>6, <1>7, SecretsAreNone DEF Configs, SecretsKept

LEMMA BootKeepsSecrets ==
  ASSUME NEW c \in Configs, SecretsKept(c), env \in BOOLEAN
  PROVE  Booted(c) \in Configs /\ SecretsKept(Booted(c))
BY SecretsAreNone DEF Booted, Configs, SecretsKept, Providers, Known

-----------------------------------------------------------------------------
LEMMA IdleTyped ==
  /\ Idle \in SaverStates
  /\ Idle.pc = "idle" /\ Idle.file = "none" /\ SecretsKept(Idle.snap)
BY InstalledTyped DEF Idle, SaverStates

LEMMA FileTyped ==
  ASSUME NEW w \in BOOLEAN, NEW c \in Configs
  PROVE  /\ [whole |-> w, of |-> c] \in Files
         /\ <<[whole |-> w, of |-> c]>> # NoFile /\ <<[whole |-> w, of |-> c]>>[1] = [whole |-> w, of |-> c]
BY DEF Files, NoFile

\* A post, with what it made of the copy in memory.
PostMade(s, c) ==
  /\ SecretsKept(c) /\ up /\ saver[s].pc = "idle" /\ live' = c
  /\ saver' = [t \in Savers |->
       IF t = s THEN [pc |-> "open", snap |-> c, file |-> "none", alone |-> Busy = {}]
       ELSE [saver[t] EXCEPT !.alone = @ /\ t \notin Busy]]
  /\ overlapped' = (overlapped \/ Busy # {}) /\ saves' \in 0..MaxSaves
  /\ UNCHANGED <<env, up, disk, tmp, pinNow, accidents, acked, booted, outcome>>

LEMMA PostMakes ==
  ASSUME ConfigInv, NEW s \in Savers, Post(s)
  PROVE  \E c \in Configs : PostMade(s, c)
<1>1. PICK p \in Posts(live) : live' = Merged(live, p)
  BY DEF Post
<1>2. live' \in Configs /\ SecretsKept(live')
  BY <1>1, MergeKeepsSecrets DEF ConfigInv, ConfigTypes, NoSecretLost
<1>3. saves' \in 0..MaxSaves
  <2>1. saves \in 0..MaxSaves /\ MaxSaves \in Nat /\ saves < MaxSaves /\ saves' = saves + 1
    BY ConfigAssumption DEF Post, ConfigInv, ConfigTypes
  <2>2. QED
    BY ONLY <2>1
<1>4. QED
  BY <1>2, <1>3 DEF Post, At, PostMade

\* The saves after a post, one by one.
LEMMA PostedSavers ==
  ASSUME ConfigTypes, NEW s \in Savers, NEW c \in Configs, PostMade(s, c)
  PROVE  /\ saver' \in [Savers -> SaverStates]
         /\ saver'[s].pc = "open" /\ saver'[s].snap = c /\ saver'[s].file = "none"
         /\ Busy # {} => ~saver'[s].alone
         /\ Busy = {} => saver'[s].alone
         /\ \A t \in Savers \ {s} :
              /\ saver'[t].pc = saver[t].pc /\ saver'[t].snap = saver[t].snap /\ saver'[t].file = saver[t].file
              /\ saver[t].pc # "idle" => ~saver'[t].alone
<1>1. saver'[s] = [pc |-> "open", snap |-> c, file |-> "none", alone |-> Busy = {}]
  BY DEF PostMade
<1>2. \A t \in Savers \ {s} : saver'[t] = [saver[t] EXCEPT !.alone = @ /\ t \notin Busy]
  BY DEF PostMade
<1>3. \A t \in Savers : t \in Busy <=> saver[t].pc # "idle"
  BY DEF Busy
<1>4. saver'[s] \in SaverStates
  <2>1. (Busy = {}) \in BOOLEAN
    OBVIOUS
  <2>2. ASSUME NEW b \in BOOLEAN PROVE [pc |-> "open", snap |-> c, file |-> "none", alone |-> b] \in SaverStates
    BY DEF SaverStates
  <2>3. QED
    BY <1>1, <2>1, <2>2
<1>5. ASSUME NEW t \in Savers \ {s} PROVE saver'[t] \in SaverStates
  <2>1. ASSUME NEW b \in BOOLEAN PROVE [saver[t] EXCEPT !.alone = b] \in SaverStates
    BY DEF ConfigTypes, SaverStates
  <2>2. (saver[t].alone /\ t \notin Busy) \in BOOLEAN
    OBVIOUS
  <2>3. QED
    BY <1>2, <2>1, <2>2
<1>6. saver' \in [Savers -> SaverStates]
  <2>1. \A t \in Savers : saver'[t] \in SaverStates
    BY <1>4, <1>5
  <2>2. saver' = [t \in Savers |-> saver'[t]]
    BY DEF PostMade
  <2>3. QED
    BY <2>1, <2>2
<1>7. /\ saver'[s].pc = "open" /\ saver'[s].snap = c /\ saver'[s].file = "none"
      /\ saver'[s].alone = IF Busy = {} THEN TRUE ELSE FALSE
  <2>1. (Busy = {}) = IF Busy = {} THEN TRUE ELSE FALSE
    OBVIOUS
  <2>2. ASSUME NEW b, saver'[s] = [pc |-> "open", snap |-> c, file |-> "none", alone |-> b]
        PROVE  saver'[s].pc = "open" /\ saver'[s].snap = c /\ saver'[s].file = "none" /\ saver'[s].alone = b
    BY <2>2
  <2>3. saver'[s] = [pc |-> "open", snap |-> c, file |-> "none", alone |-> IF Busy = {} THEN TRUE ELSE FALSE]
    BY <1>1, <2>1
  <2>4. QED
    BY <2>2, <2>3
<1>8. ASSUME NEW t \in Savers \ {s}
      PROVE  /\ saver'[t].pc = saver[t].pc /\ saver'[t].snap = saver[t].snap /\ saver'[t].file = saver[t].file
             /\ saver'[t].alone = IF saver[t].pc = "idle" THEN saver[t].alone ELSE FALSE
  <2>1. (saver[t].alone /\ t \notin Busy) = IF saver[t].pc = "idle" THEN saver[t].alone ELSE FALSE
    BY <1>3 DEF ConfigTypes, SaverStates
  <2>2. ASSUME NEW b, saver'[t] = [saver[t] EXCEPT !.alone = b]
        PROVE  /\ saver'[t].pc = saver[t].pc /\ saver'[t].snap = saver[t].snap /\ saver'[t].file = saver[t].file
               /\ saver'[t].alone = b
    BY <2>2 DEF ConfigTypes, SaverStates
  <2>3. saver'[t] = [saver[t] EXCEPT !.alone = IF saver[t].pc = "idle" THEN saver[t].alone ELSE FALSE]
    BY <1>2, <2>1
  <2>4. QED
    BY <2>2, <2>3
<1>9. Busy = {} => saver'[s].alone = TRUE
  BY <1>7
<1>10. Busy # {} => saver'[s].alone = FALSE
  BY <1>7
<1>11. \A t \in Savers \ {s} : saver[t].pc # "idle" => saver'[t].alone = FALSE
  BY <1>8
<1>12. QED
  BY <1>6, <1>7, <1>8, <1>9, <1>10, <1>11

\* The saves when one of them has moved on.
LEMMA MovedSaver ==
  ASSUME ConfigTypes, NEW s \in Savers, NEW r \in SaverStates, saver' = [saver EXCEPT ![s] = r]
  PROVE  /\ saver' \in [Savers -> SaverStates] /\ saver'[s] = r
         /\ \A t \in Savers \ {s} : saver'[t] = saver[t]
BY DEF ConfigTypes

Moved(s, pc, file) ==
  /\ saver' \in [Savers -> SaverStates]
  /\ saver'[s].pc = pc /\ saver'[s].file = file
  /\ saver'[s].snap = saver[s].snap /\ saver'[s].alone = saver[s].alone
  /\ \A t \in Savers \ {s} : saver'[t] = saver[t]

OpenEnds(s) ==
  /\ Moved(s, "fill", "tmp") /\ up /\ saver[s].pc = "open" /\ saver[s].snap \in Configs
  /\ tmp' # NoFile /\ tmp' = <<tmp'[1]>> /\ tmp'[1] \in Files /\ ~tmp'[1].whole /\ tmp'[1].of = saver[s].snap
  /\ UNCHANGED <<env, up, live, disk, pinNow, saves, accidents, acked, booted, outcome, overlapped>>

LEMMA OpenDoes == ASSUME ConfigTypes, NEW s \in Savers, Open(s) PROVE OpenEnds(s)
<1> DEFINE r == [saver[s] EXCEPT !.pc = "fill", !.file = "tmp"]
<1>1. /\ r \in SaverStates /\ saver[s].snap \in Configs
      /\ r.pc = "fill" /\ r.file = "tmp" /\ r.snap = saver[s].snap /\ r.alone = saver[s].alone
  BY DEF ConfigTypes, SaverStates
<1>2. saver' = [saver EXCEPT ![s] = r]
  BY DEF Open, ConfigTypes
<1>3. tmp' = <<[whole |-> FALSE, of |-> saver[s].snap]>>
  BY DEF Open
<1>4. tmp' # NoFile /\ tmp'[1] = [whole |-> FALSE, of |-> saver[s].snap] /\ tmp' = <<tmp'[1]>>
  BY <1>3 DEF NoFile
<1>5. tmp'[1] \in Files
  BY <1>1, <1>4 DEF Files
<1>6. QED
  BY <1>1, <1>2, <1>4, <1>5, MovedSaver DEF Open, At, Moved, OpenEnds

FillTmp(s) ==
  /\ saver[s].file = "tmp" /\ disk' = disk /\ tmp # NoFile /\ tmp[1] \in Files
  /\ tmp' # NoFile /\ tmp' = <<tmp'[1]>> /\ tmp'[1] \in Files /\ tmp'[1].of = saver[s].snap
  /\ ~tmp[1].whole => tmp'[1].whole
FillDisk(s) == saver[s].file = "disk" /\ tmp' = tmp /\ disk' \in Files /\ disk'.of = saver[s].snap
FillNone(s) == saver[s].file \notin {"tmp", "disk"} /\ UNCHANGED <<disk, tmp>>
FillEnds(s) ==
  /\ Moved(s, "rename", "none") /\ up /\ saver[s].pc = "fill" /\ saver[s].snap \in Configs
  /\ FillTmp(s) \/ FillDisk(s) \/ FillNone(s)
  /\ UNCHANGED <<env, up, live, pinNow, saves, accidents, acked, booted, outcome, overlapped>>

LEMMA FillDoes == ASSUME ConfigTypes, FilesOpen, NEW s \in Savers, Fill(s) PROVE FillEnds(s)
<1> DEFINE r == [saver[s] EXCEPT !.pc = "rename", !.file = "none"]
<1>1. /\ r \in SaverStates /\ saver[s].snap \in Configs
      /\ r.pc = "rename" /\ r.file = "none" /\ r.snap = saver[s].snap /\ r.alone = saver[s].alone
  BY DEF ConfigTypes, SaverStates
<1>2. saver' = [saver EXCEPT ![s] = r]
  BY DEF Fill, ConfigTypes
<1>3. Moved(s, "rename", "none")
  BY <1>1, <1>2, MovedSaver DEF Moved
<1>4. ASSUME NEW f \in Files, NEW c, NEW w \in BOOLEAN
      PROVE  \E v \in BOOLEAN : Filled(f, c, w) = [whole |-> v, of |-> c] /\ (~f.whole => v = TRUE)
  <2>1. f.whole \in BOOLEAN
    BY DEF Files
  <2>2. CASE f.whole
    BY <2>2 DEF Filled
  <2>3. CASE ~f.whole
    BY <2>3 DEF Filled
  <2>4. QED
    BY <2>1, <2>2, <2>3
<1>5. PICK w \in BOOLEAN :
        /\ tmp'  = IF saver[s].file = "tmp" THEN <<Filled(tmp[1], saver[s].snap, w)>> ELSE tmp
        /\ disk' = IF saver[s].file = "disk" THEN Filled(disk, saver[s].snap, w) ELSE disk
  BY DEF Fill
<1>6. disk \in Files /\ (saver[s].file = "tmp" => tmp # NoFile /\ tmp[1] \in Files)
  BY DEF ConfigTypes, FilesOpen
<1>7. ASSUME saver[s].file = "tmp" PROVE FillTmp(s)
  <2>1. PICK v \in BOOLEAN : Filled(tmp[1], saver[s].snap, w) = [whole |-> v, of |-> saver[s].snap]
                             /\ (~tmp[1].whole => v = TRUE)
    BY <1>4, <1>6, <1>7
  <2>2. tmp' = <<[whole |-> v, of |-> saver[s].snap]>> /\ disk' = disk
    BY <1>5, <1>7, <2>1
  <2>3. tmp' # NoFile /\ tmp'[1] = [whole |-> v, of |-> saver[s].snap] /\ tmp' = <<tmp'[1]>>
    BY <2>2 DEF NoFile
  <2>4. tmp'[1] \in Files
    BY <1>1, <2>3 DEF Files
  <2>5. QED
    BY <1>6, <1>7, <2>1, <2>2, <2>3, <2>4 DEF FillTmp
<1>8. ASSUME saver[s].file = "disk" PROVE FillDisk(s)
  <2>1. PICK v \in BOOLEAN : Filled(disk, saver[s].snap, w) = [whole |-> v, of |-> saver[s].snap]
    BY <1>4, <1>6
  <2>2. disk' = [whole |-> v, of |-> saver[s].snap] /\ tmp' = tmp
    BY <1>5, <1>8, <2>1
  <2>3. disk' \in Files
    BY <1>1, <2>2 DEF Files
  <2>4. QED
    BY <1>8, <2>2, <2>3 DEF FillDisk
<1>9. ASSUME saver[s].file \notin {"tmp", "disk"} PROVE FillNone(s)
  BY <1>5, <1>9 DEF FillNone
<1>10. QED
  BY <1>1, <1>3, <1>7, <1>8, <1>9 DEF Fill, At, FillEnds

\* A rename that finds no file ends the save; one that finds it moves it, with
\* whoever has it open.
RenameFails(s) == tmp = NoFile /\ Answer500(s) /\ UNCHANGED <<disk, tmp>>
RenameMoves(s) ==
  /\ tmp # NoFile /\ tmp[1] \in Files /\ tmp = <<tmp[1]>> /\ disk' = tmp[1]
  /\ tmp' = NoFile /\ UNCHANGED outcome /\ saver' \in [Savers -> SaverStates]
  /\ saver'[s].pc = "push"
  /\ \A t \in Savers : /\ t # s => saver'[t].pc = saver[t].pc
                       /\ saver'[t].snap = saver[t].snap /\ saver'[t].alone = saver[t].alone
                       /\ saver'[t].file # "tmp"
RenameEnds(s) ==
  /\ up /\ saver[s].pc = "rename" /\ (RenameFails(s) \/ RenameMoves(s))
  /\ UNCHANGED <<env, up, live, pinNow, saves, accidents, acked, booted, overlapped>>

LEMMA RenameDoes == ASSUME ConfigTypes, NEW s \in Savers, Rename(s) PROVE RenameEnds(s)
<1> USE DEF RenameEnds, RenameFails, RenameMoves
<1>1. CASE tmp = NoFile
  BY <1>1 DEF Rename, At
<1>2. CASE tmp # NoFile
  <2>1. PICK f \in Files : tmp = <<f>>
    BY <1>2 DEF ConfigTypes
  <2>2. tmp[1] = f /\ disk' = f /\ tmp' = NoFile /\ UNCHANGED outcome
    BY <1>2, <2>1 DEF Rename
  <2>3. saver' = [t \in Savers |->
               [saver[t] EXCEPT !.pc = IF t = s THEN "push" ELSE @,
                                !.file = CASE @ = "tmp" -> "disk" [] @ = "disk" -> "lost" [] OTHER -> @]]
    BY <1>2 DEF Rename
  <2>4. ASSUME NEW t \in Savers
        PROVE  /\ saver'[t] \in SaverStates /\ saver'[t].pc = (IF t = s THEN "push" ELSE saver[t].pc)
               /\ saver'[t].snap = saver[t].snap /\ saver'[t].alone = saver[t].alone /\ saver'[t].file # "tmp"
    <3> DEFINE pc == IF t = s THEN "push" ELSE saver[t].pc
               file == CASE saver[t].file = "tmp" -> "disk" [] saver[t].file = "disk" -> "lost"
                         [] OTHER -> saver[t].file
    <3>1. saver[t] \in SaverStates
      BY DEF ConfigTypes
    <3>2. file \in {"none", "disk", "lost"} /\ pc \in {"idle", "open", "fill", "rename", "push"}
      BY <3>1 DEF SaverStates
    <3>3. saver'[t] = [saver[t] EXCEPT !.pc = pc, !.file = file]
      BY <2>3
    <3>4. HIDE DEF pc, file
    <3>5. saver'[t] \in SaverStates /\ saver'[t].pc = pc /\ saver'[t].file = file
          /\ saver'[t].snap = saver[t].snap /\ saver'[t].alone = saver[t].alone
      BY <3>1, <3>2, <3>3 DEF SaverStates
    <3>6. QED
      BY <3>2, <3>5 DEF pc
  <2>5. saver' \in [Savers -> SaverStates]
    BY <2>3, <2>4
  <2>6. QED
    BY <2>1, <2>2, <2>4, <2>5 DEF Rename, At
<1>3. QED
  BY <1>1, <1>2

\* The copies, the files and the saves keep their types.
LEMMA ConfigTypesStep ==
  ASSUME ConfigInv, [ConfigNext]_configVars PROVE ConfigTypes'
<1> USE ConfigAssumption, IdleTyped, FileTyped DEF ConfigInv, ConfigTypes, At
<1>1. ASSUME NEW s \in Savers, Post(s) PROVE ConfigTypes'
  <2>1. PICK c \in Configs : PostMade(s, c)
    BY <1>1, PostMakes
  <2>2. QED
    BY <2>1, PostedSavers DEF PostMade
<1>2. ASSUME NEW s \in Savers, Open(s) PROVE ConfigTypes'
  BY <1>2, OpenDoes DEF OpenEnds, Moved
<1>3. ASSUME NEW s \in Savers, Fill(s) PROVE ConfigTypes'
  <2>1. disk' \in Files /\ (tmp' = NoFile \/ \E f \in Files : tmp' = <<f>>)
    BY <1>3, FillDoes DEF FillEnds, FillTmp, FillDisk, FillNone
  <2>2. QED
    BY <1>3, <2>1, FillDoes DEF FillEnds, Moved
<1>4. ASSUME NEW s \in Savers, Rename(s) PROVE ConfigTypes'
  <2>1. RenameEnds(s)
    BY <1>4, RenameDoes
  <2>2. CASE RenameFails(s)
    BY <2>1, <2>2 DEF RenameEnds, RenameFails, Answer500
  <2>3. CASE RenameMoves(s)
    BY <2>1, <2>3 DEF RenameEnds, RenameMoves
  <2>4. QED
    BY <2>1, <2>2, <2>3 DEF RenameEnds
<1>5. ASSUME NEW s \in Savers, Push(s) PROVE ConfigTypes'
  <2>1. saver[s].snap \in Configs /\ saver[s].snap.pin \in Typed \cup {Blank}
    BY DEF Configs, SaverStates
  <2>2. overlapped' \in BOOLEAN
    BY <1>5 DEF Push
  <2>3. QED
    BY <1>5, <2>1, <2>2 DEF Push
<1>6. ASSUME NEW s \in Savers, Refuse(s) PROVE ConfigTypes'
  <2>1. accidents' \in 0..MaxAccidents
    <3>1. accidents \in 0..MaxAccidents /\ MaxAccidents \in Nat /\ accidents < MaxAccidents /\ accidents' = accidents + 1
      BY <1>6 DEF Refuse
    <3>2. QED
      BY ONLY <3>1
  <2>2. QED
    BY <1>6, <2>1 DEF Refuse, Answer500
<1>7. CASE Crash
  <2>1. accidents' \in 0..MaxAccidents
    <3>1. accidents \in 0..MaxAccidents /\ MaxAccidents \in Nat /\ accidents < MaxAccidents /\ accidents' = accidents + 1
      BY <1>7 DEF Crash
    <3>2. QED
      BY ONLY <3>1
  <2>2. saver' \in [Savers -> SaverStates]
    BY <1>7 DEF Crash
  <2>3. QED
    BY <1>7, <2>1, <2>2 DEF Crash
<1>8. CASE Boot
  BY <1>8, BootKeepsSecrets, ZenonT(60) DEF Boot, NoSecretLost, Configs, Files
<1>9. CASE UNCHANGED configVars
  BY <1>9 DEF configVars
<1>10. QED
  BY <1>1, <1>2, <1>3, <1>4, <1>5,
     <1>6, <1>7, <1>8, <1>9 DEF ConfigNext

\* No step loses a secret to its mask.
LEMMA NoSecretLostStep ==
  ASSUME ConfigInv, [ConfigNext]_configVars PROVE NoSecretLost'
<1> USE IdleTyped, FileTyped DEF ConfigInv, ConfigTypes, NoSecretLost, At
<1>1. ASSUME NEW s \in Savers, Post(s) PROVE NoSecretLost'
  <2>1. PICK c \in Configs : PostMade(s, c)
    BY <1>1, PostMakes
  <2>2. QED
    BY <2>1, PostedSavers DEF PostMade
<1>2. ASSUME NEW s \in Savers, Open(s) PROVE NoSecretLost'
  BY <1>2, OpenDoes DEF OpenEnds, Moved
<1>3. ASSUME NEW s \in Savers, Fill(s) PROVE NoSecretLost'
  <2>1. SecretsKept(disk'.of) /\ (tmp' # NoFile => SecretsKept(tmp'[1].of))
    BY <1>3, FillDoes DEF FillEnds, FillTmp, FillDisk, FillNone
  <2>2. SecretsKept(live)' /\ SecretsKept(acked)' /\ \A t \in Savers : SecretsKept(saver'[t].snap)
    BY <1>3, FillDoes DEF FillEnds, Moved
  <2>3. QED
    BY <2>1, <2>2 DEF SecretsKept
<1>4. ASSUME NEW s \in Savers, Rename(s) PROVE NoSecretLost'
  <2>1. RenameEnds(s)
    BY <1>4, RenameDoes
  <2>2. CASE RenameFails(s)
    BY <2>1, <2>2 DEF RenameEnds, RenameFails, Answer500
  <2>3. CASE RenameMoves(s)
    BY <2>1, <2>3 DEF RenameEnds, RenameMoves
  <2>4. QED
    BY <2>1, <2>2, <2>3 DEF RenameEnds
<1>5. ASSUME NEW s \in Savers, Push(s) PROVE NoSecretLost'
  BY <1>5 DEF Push
<1>6. ASSUME NEW s \in Savers, Refuse(s) PROVE NoSecretLost'
  BY <1>6 DEF Refuse, Answer500
<1>7. CASE Crash
  BY <1>7 DEF Crash
<1>8. CASE Boot
  BY <1>8, BootKeepsSecrets DEF Boot, Configs, Files
<1>9. CASE UNCHANGED configVars
  BY <1>9 DEF configVars
<1>10. QED
  BY <1>1, <1>2, <1>3, <1>4, <1>5,
     <1>6, <1>7, <1>8, <1>9 DEF ConfigNext

\* Whoever has the temporary file open finds it.
LEMMA FilesOpenStep ==
  ASSUME ConfigInv, [ConfigNext]_configVars PROVE FilesOpen'
<1> USE IdleTyped, FileTyped DEF ConfigInv, ConfigTypes, FilesOpen, Busy, At
<1>1. ASSUME NEW s \in Savers, Post(s) PROVE FilesOpen'
  <2>1. PICK c \in Configs : PostMade(s, c)
    BY <1>1, PostMakes
  <2>2. QED
    BY <2>1, PostedSavers DEF PostMade
<1>2. ASSUME NEW s \in Savers, Open(s) PROVE FilesOpen'
  BY <1>2, OpenDoes DEF OpenEnds, Moved
<1>3. ASSUME NEW s \in Savers, Fill(s) PROVE FilesOpen'
  <2>1. FillEnds(s)
    BY <1>3, FillDoes DEF FilesOpen
  <2>2. CASE FillTmp(s)
    BY <2>1, <2>2 DEF FillEnds, FillTmp, Moved
  <2>3. CASE FillDisk(s)
    BY <2>1, <2>3 DEF FillEnds, FillDisk, Moved
  <2>4. CASE FillNone(s)
    BY <2>1, <2>4 DEF FillEnds, FillNone, Moved
  <2>5. QED
    BY <2>1, <2>2, <2>3, <2>4 DEF FillEnds
<1>4. ASSUME NEW s \in Savers, Rename(s) PROVE FilesOpen'
  <2>1. RenameEnds(s)
    BY <1>4, RenameDoes
  <2>2. CASE RenameFails(s)
    BY <2>1, <2>2 DEF RenameEnds, RenameFails, Answer500
  <2>3. CASE RenameMoves(s)
    BY <2>1, <2>3 DEF RenameEnds, RenameMoves
  <2>4. QED
    BY <2>1, <2>2, <2>3 DEF RenameEnds
<1>5. ASSUME NEW s \in Savers, Push(s) PROVE FilesOpen'
  BY <1>5 DEF Push
<1>6. ASSUME NEW s \in Savers, Refuse(s) PROVE FilesOpen'
  BY <1>6 DEF Refuse, Answer500
<1>7. CASE Crash
  BY <1>7 DEF Crash
<1>8. CASE Boot
  BY <1>8 DEF Boot
<1>9. CASE UNCHANGED configVars
  BY <1>9 DEF configVars
<1>10. QED
  BY <1>1, <1>2, <1>3, <1>4, <1>5,
     <1>6, <1>7, <1>8, <1>9 DEF ConfigNext

\* A save that none overlaps has memory and the files to itself.
LEMMA SaveAloneStep ==
  ASSUME ConfigInv, [ConfigNext]_configVars PROVE AloneMeans'
<1> USE IdleTyped, FileTyped DEF ConfigInv, ConfigTypes, AloneMeans, At
<1>1. ASSUME NEW s \in Savers, Post(s) PROVE AloneMeans'
  <2>1. PICK c \in Configs : PostMade(s, c)
    BY <1>1, PostMakes
  <2>2. Busy = {} <=> \A t \in Savers : saver[t].pc = "idle"
    BY DEF Busy
  <2>3. /\ live' = c /\ saver'[s].pc = "open" /\ saver'[s].snap = c /\ (saver'[s].alone => Busy = {})
        /\ \A t \in Savers \ {s} : saver'[t].pc = saver[t].pc /\ (saver'[t].alone => saver[t].pc = "idle")
    <3>1. live' = c
      BY <2>1 DEF PostMade
    <3>2. saver'[s].pc = "open" /\ saver'[s].snap = c /\ (Busy # {} => ~saver'[s].alone)
      BY <2>1, PostedSavers
    <3>3. \A t \in Savers \ {s} : saver'[t].pc = saver[t].pc /\ (saver[t].pc # "idle" => ~saver'[t].alone)
      BY <2>1, PostedSavers
    <3>4. QED
      BY <3>1, <3>2, <3>3
  <2>4. ASSUME NEW t \in Savers, saver'[t].pc # "idle", saver'[t].alone
        PROVE  t = s /\ \A u \in Savers : saver'[u].pc # "idle" => u = s
    BY <2>2, <2>3, <2>4
  <2>5. QED
    BY <2>3, <2>4
<1>2. ASSUME NEW s \in Savers, Open(s) PROVE AloneMeans'
  BY <1>2, OpenDoes DEF OpenEnds, Moved
<1>3. ASSUME NEW s \in Savers, Fill(s) PROVE AloneMeans'
  <2>1. FillEnds(s)
    BY <1>3, FillDoes DEF FilesOpen
  <2>2. CASE FillTmp(s)
    BY <2>1, <2>2 DEF FillEnds, FillTmp, Moved
  <2>3. CASE FillDisk(s)
    BY <2>1, <2>3 DEF FillEnds, FillDisk, Moved
  <2>4. CASE FillNone(s)
    BY <2>1, <2>4 DEF FillEnds, FillNone, Moved
  <2>5. QED
    BY <2>1, <2>2, <2>3, <2>4 DEF FillEnds
<1>4. ASSUME NEW s \in Savers, Rename(s) PROVE AloneMeans'
  <2>1. RenameEnds(s)
    BY <1>4, RenameDoes
  <2>2. CASE RenameFails(s)
    BY <2>1, <2>2 DEF RenameEnds, RenameFails, Answer500
  <2>3. CASE RenameMoves(s)
    BY <2>1, <2>3 DEF RenameEnds, RenameMoves
  <2>4. QED
    BY <2>1, <2>2, <2>3 DEF RenameEnds
<1>5. ASSUME NEW s \in Savers, Push(s) PROVE AloneMeans'
  BY <1>5 DEF Push
<1>6. ASSUME NEW s \in Savers, Refuse(s) PROVE AloneMeans'
  BY <1>6 DEF Refuse, Answer500
<1>7. CASE Crash
  BY <1>7 DEF Crash
<1>8. CASE Boot
  BY <1>8 DEF Boot, FilesOpen, Busy
<1>9. CASE UNCHANGED configVars
  BY <1>9 DEF configVars
<1>10. QED
  BY <1>1, <1>2, <1>3, <1>4, <1>5,
     <1>6, <1>7, <1>8, <1>9 DEF ConfigNext

\* And leaves them in agreement.
LEMMA NotOverlappedStep ==
  ASSUME ConfigInv, [ConfigNext]_configVars PROVE NotOverlapped'
<1> USE IdleTyped, FileTyped DEF ConfigInv, ConfigTypes, NotOverlapped, At
<1>1. ASSUME NEW s \in Savers, Post(s) PROVE NotOverlapped'
  <2>1. PICK c \in Configs : PostMade(s, c)
    BY <1>1, PostMakes
  <2>2. Busy = {} <=> \A t \in Savers : saver[t].pc = "idle"
    BY DEF Busy
  <2>3. /\ saver'[s].pc = "open" /\ (Busy = {} => saver'[s].alone)
        /\ \A t \in Savers \ {s} : saver'[t].pc = saver[t].pc
    BY <2>1, PostedSavers
  <2>4. up' /\ UNCHANGED <<disk, acked>> /\ up /\ (~overlapped' => ~overlapped /\ Busy = {})
    BY <2>1 DEF PostMade
  <2>5. QED
    BY <2>2, <2>3, <2>4
<1>2. ASSUME NEW s \in Savers, Open(s) PROVE NotOverlapped'
  BY <1>2, OpenDoes DEF OpenEnds, Moved
<1>3. ASSUME NEW s \in Savers, Fill(s) PROVE NotOverlapped'
  <2>1. FillEnds(s)
    BY <1>3, FillDoes DEF FilesOpen
  <2>2. CASE FillTmp(s)
    BY <2>1, <2>2 DEF FillEnds, FillTmp, Moved, AloneMeans
  <2>3. CASE FillDisk(s)
    BY <2>1, <2>3 DEF FillEnds, FillDisk, Moved, AloneMeans
  <2>4. CASE FillNone(s)
    BY <2>1, <2>4 DEF FillEnds, FillNone, Moved, AloneMeans
  <2>5. QED
    BY <2>1, <2>2, <2>3, <2>4 DEF FillEnds
<1>4. ASSUME NEW s \in Savers, Rename(s) PROVE NotOverlapped'
  <2>1. RenameEnds(s)
    BY <1>4, RenameDoes
  <2>2. CASE RenameFails(s)
    BY <2>1, <2>2 DEF RenameEnds, RenameFails, Answer500, AloneMeans
  <2>3. CASE RenameMoves(s)
    BY <2>1, <2>3 DEF RenameEnds, RenameMoves, AloneMeans
  <2>4. QED
    BY <2>1, <2>2, <2>3 DEF RenameEnds
<1>5. ASSUME NEW s \in Savers, Push(s) PROVE NotOverlapped'
  BY <1>5 DEF Push, AloneMeans
<1>6. ASSUME NEW s \in Savers, Refuse(s) PROVE NotOverlapped'
  BY <1>6 DEF Refuse, Answer500
<1>7. CASE Crash
  BY <1>7 DEF Crash
<1>8. CASE Boot
  <2>1. \A t \in Savers : saver[t].pc = "idle"
    BY <1>8 DEF Boot, FilesOpen, Busy
  <2>2. live' = Booted(acked)'
    BY <1>8 DEF Boot, Booted
  <2>3. QED
    BY <1>8, <2>1, <2>2 DEF Boot
<1>9. CASE UNCHANGED configVars
  <2>1. Booted(acked)' = Booted(acked)
    BY <1>9 DEF configVars, Booted
  <2>2. QED
    BY <1>9, <2>1 DEF configVars
<1>10. QED
  BY <1>1, <1>2, <1>3, <1>4, <1>5,
     <1>6, <1>7, <1>8, <1>9 DEF ConfigNext

LEMMA ConfigInvInit == ConfigInit => ConfigInv
<1> SUFFICES ASSUME ConfigInit PROVE ConfigInv
  OBVIOUS
<1> USE ConfigAssumption, InstalledTyped, IdleTyped, FileTyped DEF ConfigInit
<1>1. live \in Configs /\ SecretsKept(live)
  BY BootKeepsSecrets
<1>2. Installed.pin \in Typed
  BY SecretsAreNone DEF Installed
<1>3. ConfigTypes
  <2>1. saver \in [Savers -> SaverStates]
    OBVIOUS
  <2>2. disk \in Files /\ tmp = NoFile
    OBVIOUS
  <2>3. pinNow \in Typed \cup {Blank} /\ saves \in 0..MaxSaves /\ accidents \in 0..MaxAccidents
    <3>1. MaxSaves \in Nat /\ MaxAccidents \in Nat /\ saves = 0 /\ accidents = 0 /\ pinNow \in Typed
      BY <1>2
    <3>2. QED
      BY ONLY <3>1
  <2>4. QED
    BY <1>1, <2>1, <2>2, <2>3 DEF ConfigTypes
<1>4. NoSecretLost /\ FilesOpen /\ AloneMeans /\ NotOverlapped
  BY <1>1 DEF NoSecretLost, FilesOpen, AloneMeans, NotOverlapped
<1>5. QED
  BY <1>3, <1>4 DEF ConfigInv

LEMMA ConfigInvStep == ConfigInv /\ [ConfigNext]_configVars => ConfigInv'
BY ConfigTypesStep, NoSecretLostStep, FilesOpenStep, SaveAloneStep, NotOverlappedStep DEF ConfigInv

LEMMA ConfigInvAlways == ConfigSpec => []ConfigInv
BY ConfigInvInit, ConfigInvStep, PTL DEF ConfigSpec

\* What the invariant says of the files.
LEMMA ConfigInvTypes == ConfigInv => ConfigTypeOK
<1> SUFFICES ASSUME ConfigInv PROVE ConfigTypeOK
  OBVIOUS
<1>1. tmp = NoFile \/ tmp[1] \in Files
  BY DEF ConfigInv, ConfigTypes
<1> QED
  BY <1>1 DEF ConfigInv, ConfigTypes, ConfigTypeOK, SaverStates

\* Every save, the file, its .tmp, memory and the PIN hold configurations of their
\* kind, and a file that is half written is known to be (api.rs, config.rs).
THEOREM ConfigTypeCorrect == ConfigSpec => []ConfigTypeOK
BY ConfigInvTypes, ConfigInvAlways, PTL

\* However many saves run, fail or die under way: no secret is lost to its mask;
\* and unless saves have overlapped, the file on the disk is whole, it is what was
\* promised or what is about to be promised, and once a save was told OK memory,
\* file and PIN agree, also after a restart.
THEOREM ConfigStaysSaved == ConfigSpec => []ConfigSaved
<1>1. ConfigInv => ConfigSaved
  BY DEF ConfigInv, NoSecretLost, NotOverlapped, ConfigSaved, Busy
<1>2. QED
  BY <1>1, ConfigInvAlways, PTL

-----------------------------------------------------------------------------
(* What users decide, all together.                                        *)

DecisionsInv == Base /\ PlansInv /\ ConfigInv

LEMMA DecisionsInit == MCInit => DecisionsInv
BY BaseInit, PlansInvInit, ConfigInvInit DEF MCInit, DecisionsInv

\* A step is of one of the three and leaves the others where they were.
LEMMA DecisionsParts ==
  ASSUME [MCNext]_<<approval, vars, planVars, configVars>>
  PROVE  [Next]_vars /\ [PlansNext]_planVars /\ [ConfigNext]_configVars
<1>1. CASE MCNext
  BY <1>1 DEF MCNext
<1>2. CASE UNCHANGED <<approval, vars, planVars, configVars>>
  BY <1>2
<1> QED
  BY <1>1, <1>2

LEMMA DecisionsStep ==
  DecisionsInv /\ [MCNext]_<<approval, vars, planVars, configVars>> => DecisionsInv'
BY DecisionsParts, BaseStep, PlansInvStep, ConfigInvStep DEF DecisionsInv

\* Whatever users decide, in whichever order and however often: proposals, plans
\* and configurations keep their types (life_loop.rs, plan_tool.rs, config.rs).
THEOREM ApprovalsTypeCorrect == MCSpec => []ApprovalsTypeOK
<1>1. Base => TypeOK
  BY DEF Base, LifeTypeOK, TypeOK, QueueInv
<1>2. DecisionsInv => ApprovalsTypeOK
  BY <1>1, PlansInvTypes, ConfigInvTypes DEF DecisionsInv, ApprovalsTypeOK
<1> QED
  BY <1>2, DecisionsInit, DecisionsStep, PTL DEF MCSpec

\* What users decide is carried out where the three are checked together: the
\* life loop stays in its windows and submits one task of its own at a time, no
\* plan starts unapproved, no secret is lost from the configuration; and no
\* proposal is submitted twice if approvals of it do not overlap.
THEOREM DecisionsStaySafe ==
  /\ MCSpec => [](WithinWindows /\ OneAutonomousTask /\ ApprovalHonoured /\ ConfigSaved)
  /\ OneApprover => (MCSpec => []ProposalRunsOnce)
<1>1. MCInit => Init /\ PlansInit /\ ConfigInit
  BY DEF MCInit
<1>2. [MCNext]_<<approval, vars, planVars, configVars>> =>
        [Next]_vars /\ [PlansNext]_planVars /\ [ConfigNext]_configVars
  BY DecisionsParts
<1>3. MCSpec => Spec /\ PlansSpec /\ ConfigSpec
  BY <1>1, <1>2, PTL DEF MCSpec, Spec, PlansSpec, ConfigSpec
<1>4. MCSpec => [](WithinWindows /\ OneAutonomousTask /\ ApprovalHonoured /\ ConfigSaved)
  BY <1>3, WindowsRespected, OneAtATime, ApprovalsHonoured, ConfigStaysSaved, PTL
<1>5. OneApprover => (MCSpec => []ProposalRunsOnce)
  <2> SUFFICES ASSUME OneApprover PROVE MCSpec => []ProposalRunsOnce
    OBVIOUS
  <2>1. Spec => []ProposalRunsOnce
    BY SubmittedOnce
  <2> QED
    BY <1>3, <2>1, PTL
<1> QED
  BY <1>4, <1>5

-----------------------------------------------------------------------------
(* What the functions of the start, of the drives and of the plans give,   *)
(* for inputs of any size.                                                 *)

\* A set of numbers has a smallest, one with a bound a largest.
LEMMA SmallestNumber ==
  ASSUME NEW S, S \subseteq Nat, S # {} PROVE \E n \in S : \A m \in S : n <= m
<1> DEFINE less == OpToRel(<, Nat)
<1>1. IsWellFoundedOn(less, Nat)
  BY NatLessThanWellFounded
<1>2. PICK n \in S : \A m \in S : <<m, n>> \notin less
  <2> HIDE DEF less
  <2> QED
    BY <1>1, WFMin
<1>3. \A m \in S : ~(m < n)
  BY <1>2 DEF OpToRel
<1>4. \A m \in S : n <= m
  <2> TAKE m \in S
  <2>1. m \in Nat /\ n \in Nat /\ ~(m < n)
    BY <1>3
  <2> QED
    BY ONLY <2>1
<1> QED
  <2> HIDE DEF less
  <2> QED
    BY <1>4

LEMMA LargestNumber ==
  ASSUME NEW top \in Nat, NEW S, S \subseteq 0..top, S # {} PROVE \E n \in S : \A m \in S : m <= n
<1> DEFINE room == {top - n : n \in S}
<1>1. room \subseteq Nat /\ room # {}
  <2>1. \A n \in S : top - n \in Nat
    <3> TAKE n \in S
    <3>1. n \in 0..top
      OBVIOUS
    <3> QED
      BY ONLY <3>1, top \in Nat
  <2> QED
    BY <2>1, Zenon
<1>2. PICK least \in room : \A r \in room : least <= r
  <2> HIDE DEF room
  <2> QED
    BY <1>1, SmallestNumber
<1>3. PICK n \in S : least = top - n
  BY <1>2
<1>4. \A m \in S : top - n <= top - m
  BY <1>2, <1>3
<1>5. \A m \in S : m <= n
  <2> TAKE m \in S
  <2>1. top - n <= top - m /\ m \in Int /\ n \in Int /\ top \in Int
    BY <1>4
  <2> QED
    BY ONLY <2>1
<1> QED
  <2> HIDE DEF room
  <2> QED
    BY <1>5

\* The servers of a configuration offer tools of any names.
ServersOf(names) == Seq([connects : BOOLEAN, tools : SUBSET names])

\* A tool is there if a connected server offers it, and is the last such one's.
LEMMA LastOffering ==
  ASSUME NEW names, NEW servers \in ServersOf(names)
  PROVE  \A t : /\ t \in DOMAIN McpTools(servers) <=> Offering(servers, t) # {}
                /\ t \in DOMAIN McpTools(servers) =>
                     /\ McpTools(servers)[t] \in Offering(servers, t)
                     /\ \A j \in Offering(servers, t) : j <= McpTools(servers)[t]
<1> TAKE t
<1>1. DOMAIN servers = 1..Len(servers) /\ Len(servers) \in Nat
  BY DEF ServersOf
<1>2. t \in DOMAIN McpTools(servers) <=> Offering(servers, t) # {}
  BY DEF McpTools, Offering
<1>3. ASSUME t \in DOMAIN McpTools(servers)
      PROVE  /\ McpTools(servers)[t] \in Offering(servers, t)
             /\ \A j \in Offering(servers, t) : j <= McpTools(servers)[t]
  <2>1. Offering(servers, t) \subseteq 0..Len(servers) /\ Offering(servers, t) # {}
    BY <1>1, <1>2, <1>3 DEF Offering
  <2>2. \E i \in Offering(servers, t) : \A j \in Offering(servers, t) : j <= i
    BY <1>1, <2>1, LargestNumber
  <2>3. McpTools(servers)[t] = CHOOSE i \in Offering(servers, t) : \A j \in Offering(servers, t) : j <= i
    BY <1>3 DEF McpTools
  <2> QED
    BY <2>2, <2>3
<1> QED
  BY <1>2, <1>3

\* register_mcp_tools, for any number of servers: every tool is of a server that
\* connected and is kept alive by it; and a server that fails takes with it no tool
\* that another one gave, and hides none.
THEOREM ServersStayIndependent ==
  ASSUME NEW names, NEW servers \in ServersOf(names), NEW i \in DOMAIN servers
  PROVE  LET tools   == McpTools(servers)
             without == McpTools([servers EXCEPT ![i] = Failing(@)])
         IN /\ \A t \in DOMAIN tools : servers[tools[t]].connects /\ tools[t] \in McpAlive(servers)
            /\ DOMAIN without \subseteq DOMAIN tools
            /\ \A t \in DOMAIN without : without[t] = tools[t] \/ tools[t] = i
            /\ \A t \in DOMAIN tools \ DOMAIN without : tools[t] = i
<1> DEFINE fewer == [servers EXCEPT ![i] = Failing(servers[i])]
           tools == McpTools(servers)
           without == McpTools(fewer)
<1>0. /\ DOMAIN servers = 1..Len(servers) /\ Len(servers) \in Nat
      /\ Failing(servers[i]) \in [connects : {FALSE}, tools : SUBSET names]
  <2>1. DOMAIN servers = 1..Len(servers) /\ Len(servers) \in Nat
    BY LenProperties DEF ServersOf
  <2>2. servers[i] \in [connects : BOOLEAN, tools : SUBSET names]
    BY <2>1, ElementOfSeq DEF ServersOf
  <2>3. Failing(servers[i]) \in [connects : {FALSE}, tools : SUBSET names]
    BY <2>2 DEF Failing
  <2> QED
    BY <2>1, <2>3
<1>1. fewer \in ServersOf(names) /\ DOMAIN fewer = DOMAIN servers
  <2>1. Failing(servers[i]) \in [connects : BOOLEAN, tools : SUBSET names] /\ i \in 1..Len(servers)
    BY <1>0
  <2> QED
    BY <2>1, ExceptSeq DEF ServersOf
<1>2. \A t : Offering(fewer, t) = Offering(servers, t) \ {i}
  <2>1. ~fewer[i].connects /\ \A j \in DOMAIN servers : j # i => fewer[j] = servers[j]
    BY <1>0 DEF ServersOf
  <2> HIDE DEF fewer
  <2> QED
    BY <1>1, <2>1 DEF Offering
<1> HIDE DEF fewer
<1>3. \A t \in DOMAIN tools : servers[tools[t]].connects /\ tools[t] \in McpAlive(servers)
  <2> TAKE t \in DOMAIN tools
  <2>1. tools[t] \in Offering(servers, t)
    BY LastOffering
  <2> QED
    BY <2>1 DEF Offering, McpAlive
<1>4. ASSUME NEW t \in DOMAIN without
      PROVE  t \in DOMAIN tools /\ (without[t] = tools[t] \/ tools[t] = i)
  <2>1. /\ without[t] \in Offering(fewer, t)
        /\ \A j \in Offering(fewer, t) : j <= without[t]
    BY <1>1, LastOffering
  <2>2. Offering(servers, t) # {}
    BY <1>2, <2>1
  <2>3. /\ t \in DOMAIN tools /\ tools[t] \in Offering(servers, t)
        /\ \A j \in Offering(servers, t) : j <= tools[t]
    BY <2>2, LastOffering
  <2>4. ASSUME tools[t] # i PROVE without[t] = tools[t]
    <3>1. tools[t] \in Offering(fewer, t) /\ without[t] \in Offering(servers, t)
      BY <1>2, <2>1, <2>3, <2>4
    <3>2. tools[t] <= without[t] /\ without[t] <= tools[t]
      BY <2>1, <2>3, <3>1
    <3>3. tools[t] \in Nat /\ without[t] \in Nat
      <4>1. tools[t] \in DOMAIN servers /\ without[t] \in DOMAIN servers
        BY <3>1, <2>3 DEF Offering
      <4> HIDE DEF tools, without
      <4> QED
        BY <1>0, <4>1
    <3> HIDE DEF tools, without
    <3> QED
      BY <3>2, <3>3
  <2> QED
    BY <2>3, <2>4
<1>5. ASSUME NEW t \in DOMAIN tools, t \notin DOMAIN without PROVE tools[t] = i
  <2>1. Offering(fewer, t) = {} /\ tools[t] \in Offering(servers, t)
    BY <1>1, <1>5, LastOffering
  <2> QED
    BY <1>2, <2>1
<1> QED
  BY <1>3, <1>4, <1>5 DEF fewer

\* narrow_to, for any tools, servers and devices: a bot with a list reaches nothing
\* off the list unless bg is on it, and nothing that the configuration switches off
\* unless a server took the name over.
THEOREM ListLimitsBot ==
  ASSUME NEW on, NEW backend, NEW opens, NEW devices, NEW mcp, NEW allowed, allowed # {}
  PROVE  LET tools   == Registry(Registered(on, backend, opens, devices), mcp)
             limited == NarrowTo(DOMAIN tools, allowed)
         IN /\ Reach(limited, DOMAIN tools) \subseteq allowed \/ "bg" \in allowed
            /\ \A t \in limited : tools[t] = "mcp" => t \in mcp
            /\ Reach(limited, DOMAIN tools) \cap (Switched \cup Telephony) \subseteq on \cup mcp
<1> DEFINE given   == Registered(on, backend, opens, devices)
           tools   == Registry(given, mcp)
           limited == NarrowTo(DOMAIN tools, allowed)
<1>1. DOMAIN tools = given \cup OfStores \cup mcp \cup {"bg"} /\ limited = DOMAIN tools \cap allowed
  BY DEF Registry, NarrowTo
<1>2. \A t \in DOMAIN tools : tools[t] = "mcp" => t \in mcp
  BY DEF Registry
<1>3. given \cap (Switched \cup Telephony) \subseteq on
  BY DEF Registered, Switched, Telephony, AlwaysThere, Drives
<1>4. (OfStores \cup {"bg"}) \cap (Switched \cup Telephony) = {}
  BY DEF OfStores, Switched, Telephony
<1>5. Reach(limited, DOMAIN tools) \subseteq DOMAIN tools /\ ("bg" \notin limited => Reach(limited, DOMAIN tools) = limited)
  BY <1>1 DEF Reach
<1>6. \A t \in limited : tools[t] = "mcp" => t \in mcp
  BY <1>1, <1>2
<1> HIDE DEF given, tools, limited
<1>7. Reach(limited, DOMAIN tools) \subseteq allowed \/ "bg" \in allowed
  BY <1>1, <1>5
<1>8. Reach(limited, DOMAIN tools) \cap (Switched \cup Telephony) \subseteq on \cup mcp
  BY <1>1, <1>3, <1>4, <1>5
<1> QED
  BY <1>6, <1>7, <1>8 DEF given, tools, limited

\* decay, for any time that went by: a drive comes nearer to the centre and not
\* beyond it, and is there after a hundred hours.
THEOREM DecayAlwaysSettles ==
  ASSUME NEW drives \in [Names -> Values], NEW minutes \in Nat, NEW d \in Names
  PROVE  LET to == Decay(drives, minutes)[d]
         IN /\ IF drives[d] <= Centre THEN to \in drives[d]..Centre ELSE to \in Centre..drives[d]
            /\ minutes >= 6000 => to = Centre
<1> DEFINE rate == IF minutes > 6000 THEN 6000 ELSE minutes
           gap  == Centre - drives[d]
           over == drives[d] - Centre
<1>1. rate \in 0..6000 /\ (minutes >= 6000 => rate = 6000)
  OBVIOUS
<1>2. Decay(drives, minutes)[d] = drives[d] + Part(gap * rate, 6000)
  BY DEF Decay
<1>3. drives[d] \in Int /\ Centre \in Int
  <2>1. Values \subseteq Int
    BY SMTT(30) DEF Values, Unit
  <2>2. Centre \in Int
    BY DEF Centre
  <2>3. drives[d] \in Values
    OBVIOUS
  <2> HIDE DEF Values
  <2> QED
    BY <2>1, <2>2, <2>3
<1>4. gap = -over /\ gap \in Int /\ over \in Int /\ drives[d] + gap = Centre
      /\ (drives[d] <= Centre => gap \in Nat) /\ (~(drives[d] <= Centre) => over \in Nat \ {0})
  BY ONLY <1>3
<1> HIDE DEF rate, gap, over
<1>5. ASSUME NEW g \in Nat
      PROVE  /\ g * rate \in Nat /\ (g * rate) \div 6000 \in 0..g
             /\ rate = 6000 => (g * rate) \div 6000 = g
  <2> DEFINE p == g * rate
  <2>1. p \in Nat /\ p <= g * 6000 /\ (rate = 6000 => p = g * 6000)
    BY <1>1
  <2> HIDE DEF p
  <2>2. p \div 6000 \in 0..g /\ (p = g * 6000 => p \div 6000 = g)
    BY ONLY <2>1, g \in Nat
  <2> QED
    BY <2>1, <2>2 DEF p
<1>6. CASE drives[d] <= Centre
  <2> DEFINE q == (gap * rate) \div 6000
  <2>1. gap \in Nat /\ gap * rate \in Nat /\ q \in 0..gap /\ (rate = 6000 => q = gap)
    BY <1>4, <1>5, <1>6
  <2>2. Part(gap * rate, 6000) = q
    BY <2>1 DEF Part
  <2> HIDE DEF q
  <2>3. drives[d] + q \in drives[d]..Centre /\ (rate = 6000 => drives[d] + q = Centre)
    BY ONLY <1>3, <1>4, <2>1
  <2> QED
    BY <1>1, <1>2, <1>6, <2>2, <2>3
<1>7. CASE ~(drives[d] <= Centre)
  <2> DEFINE q == (over * rate) \div 6000
  <2>1. over \in Nat \ {0} /\ over * rate \in Nat /\ q \in 0..over /\ (rate = 6000 => q = over)
    BY <1>4, <1>5, <1>7
  <2>2. gap * rate = -(over * rate) /\ -(gap * rate) = over * rate
    BY <1>1, <1>4, <2>1
  <2>3. Part(gap * rate, 6000) = -q
    <3>1. CASE gap * rate < 0
      BY <2>2, <3>1 DEF Part
    <3>2. CASE ~(gap * rate < 0)
      <4>1. gap * rate = 0 /\ over * rate = 0
        BY <2>1, <2>2, <3>2
      <4> QED
        BY <4>1 DEF Part
    <3> QED
      BY <3>1, <3>2
  <2> HIDE DEF q
  <2>4. drives[d] + (-q) \in Centre..drives[d] /\ (rate = 6000 => drives[d] + (-q) = Centre)
    BY ONLY <1>3, <1>4, <2>1
  <2> QED
    BY <1>1, <1>2, <1>7, <2>3, <2>4
<1> QED
  BY <1>6, <1>7

\* record_tool_use, for any limit and any number of tools: within the limit, a tool
\* stays known as it is used unless the clock went back, and what is forgotten is
\* older than all that stays.
THEOREM ToolsStayKnown ==
  ASSUME NEW S, IsFiniteSet(S), NEW used \in [S -> Nat], NEW tool, NEW now \in Nat,
         NEW cap \in Nat \ {0}, Cardinality(S) <= cap
  PROVE  LET after == RecordTool(used, tool, now, cap)
         IN /\ IsFiniteSet(DOMAIN after) /\ Cardinality(DOMAIN after) <= cap
            /\ \A k \in DOMAIN after : after[k] = IF k = tool THEN now ELSE used[k]
            /\ (\A u \in S : used[u] < now) => tool \in DOMAIN after
            /\ \A u \in S \ (DOMAIN after \cup {tool}), k \in DOMAIN after : used[u] <= after[k]
<1> DEFINE more   == S \cup {tool}
           all    == [t \in DOMAIN used \cup {tool} |-> IF t = tool THEN now ELSE used[t]]
           oldest == CHOOSE t \in DOMAIN all : \A u \in DOMAIN all : all[t] <= all[u]
           after  == RecordTool(used, tool, now, cap)
<1>1. DOMAIN all = more /\ \A t \in more : all[t] \in Nat /\ all[t] = IF t = tool THEN now ELSE used[t]
  OBVIOUS
<1>2. /\ IsFiniteSet(more) /\ Cardinality(more) \in Nat /\ Cardinality(S) \in Nat
      /\ Cardinality(more) <= Cardinality(S) + 1 /\ (tool \in S => Cardinality(more) = Cardinality(S))
  <2>1. /\ IsFiniteSet(more) /\ Cardinality(S) \in Nat
        /\ Cardinality(more) = IF tool \in S THEN Cardinality(S) ELSE Cardinality(S) + 1
    BY FS_AddElement, FS_CardinalityType, Zenon
  <2> HIDE DEF more
  <2> QED
    BY <2>1
<1>3. \E t \in DOMAIN all : \A u \in DOMAIN all : all[t] <= all[u]
  <2> DEFINE times == {all[t] : t \in more}
  <2>1. times \subseteq Nat /\ times # {}
    BY <1>1
  <2> HIDE DEF all
  <2>2. PICK least \in times : \A n \in times : least <= n
    <3> HIDE DEF times
    <3> QED
      BY <2>1, SmallestNumber
  <2>3. PICK t \in more : least = all[t]
    BY <2>2
  <2>4. \A u \in more : all[t] <= all[u]
    BY <2>2, <2>3
  <2> QED
    BY <1>1, <2>4
<1>4. oldest \in more /\ \A u \in more : all[oldest] <= all[u]
  <2> HIDE DEF all
  <2> QED
    BY <1>1, <1>3
<1>5. after = IF Cardinality(more) <= cap THEN all ELSE [t \in more \ {oldest} |-> all[t]]
  BY <1>1 DEF RecordTool
<1> SUFFICES /\ IsFiniteSet(DOMAIN after) /\ Cardinality(DOMAIN after) <= cap
             /\ \A k \in DOMAIN after : after[k] = IF k = tool THEN now ELSE used[k]
             /\ (\A u \in S : used[u] < now) => tool \in DOMAIN after
             /\ \A u \in S \ (DOMAIN after \cup {tool}), k \in DOMAIN after : used[u] <= after[k]
  OBVIOUS
<1> HIDE DEF all, oldest, after
<1>6. CASE Cardinality(more) <= cap
  <2>1. DOMAIN after = more /\ \A k \in more : after[k] = all[k]
    BY <1>1, <1>5, <1>6
  <2>2. S \ (DOMAIN after \cup {tool}) = {} /\ tool \in DOMAIN after
    BY <2>1
  <2>3. IsFiniteSet(DOMAIN after) /\ Cardinality(DOMAIN after) <= cap
    <3> HIDE DEF more
    <3> QED
      BY <1>2, <1>6, <2>1
  <2>4. \A k \in DOMAIN after : after[k] = IF k = tool THEN now ELSE used[k]
    <3> HIDE DEF more
    <3> QED
      BY <1>1, <2>1
  <2> HIDE DEF more
  <2> QED
    BY <2>2, <2>3, <2>4
<1>7. CASE ~(Cardinality(more) <= cap)
  <2>1. DOMAIN after = more \ {oldest} /\ \A k \in more \ {oldest} : after[k] = all[k]
    BY <1>5, <1>7
  <2>2. IsFiniteSet(DOMAIN after) /\ Cardinality(DOMAIN after) = Cardinality(more) - 1
    <3>1. /\ IsFiniteSet(more \ {oldest})
          /\ Cardinality(more \ {oldest}) = Cardinality(more) - 1
      <4> HIDE DEF more
      <4> QED
        BY <1>2, <1>4, FS_RemoveElement, Zenon
    <3> QED
      BY <2>1, <3>1, Zenon
  <2>3. Cardinality(DOMAIN after) <= cap
    <3> HIDE DEF more
    <3> QED
      BY <1>2, <2>2
  <2>4. Cardinality(S) # 0 /\ tool \notin S
    BY <1>2, <1>7
  <2>5. ASSUME \A u \in S : used[u] < now PROVE tool \in DOMAIN after
    <3>1. PICK u \in S : TRUE
      BY <2>4, FS_EmptySet
    <3>2. all[u] = used[u] /\ all[tool] = now /\ u \in more /\ tool \in more
      BY <1>1, <2>4, <3>1
    <3>3. oldest # tool
      <4> SUFFICES ASSUME oldest = tool PROVE FALSE
        OBVIOUS
      <4>1. now <= used[u] /\ used[u] < now /\ used[u] \in Nat
        BY <1>4, <2>5, <3>2
      <4> QED
        BY <4>1
    <3> QED
      BY <2>1, <3>2, <3>3
  <2>6. ASSUME NEW u \in S \ (DOMAIN after \cup {tool}), NEW k \in DOMAIN after PROVE used[u] <= after[k]
    <3>1. u = oldest /\ all[u] = used[u] /\ after[k] = all[k] /\ k \in more
      BY <1>1, <2>1
    <3> QED
      BY <1>4, <3>1
  <2>7. \A k \in DOMAIN after : after[k] = IF k = tool THEN now ELSE used[k]
    BY <1>1, <2>1
  <2> HIDE DEF more
  <2> QED
    BY <2>2, <2>3, <2>5, <2>6, <2>7
<1> QED
  BY <1>6, <1>7

\* parse_plan_marker, for any number of lines: the first line with a marker says
\* what the reply asks for, and it alone is cut out.
THEOREM FirstMarkerCounts ==
  ASSUME NEW slugs, NEW lines \in Seq([kind : {"text", "approve", "auto"}, slug : slugs])
  PROVE  LET m == Marker(lines)
         IN IF m.kind = "text" THEN m.body = lines /\ \A i \in DOMAIN lines : lines[i].kind = "text"
            ELSE \E i \in DOMAIN lines :
                   /\ lines[i] = [kind |-> m.kind, slug |-> m.slug]
                   /\ \A j \in 1..(i - 1) : lines[j].kind = "text"
                   /\ m.body = SubSeq(lines, 1, i - 1) \o SubSeq(lines, i + 1, Len(lines))
<1> DEFINE marked == {i \in DOMAIN lines : lines[i].kind # "text"}
           first  == CHOOSE i \in marked : \A j \in marked : i <= j
<1>1. DOMAIN lines = 1..Len(lines) /\ Len(lines) \in Nat
  BY LenProperties
<1>2. \A i \in DOMAIN lines : lines[i] \in [kind : {"text", "approve", "auto"}, slug : slugs]
  BY <1>1, ElementOfSeq
<1>3. CASE marked = {}
  <2>1. Marker(lines) = [kind |-> "text", slug |-> 0, body |-> lines]
    BY <1>3 DEF Marker
  <2> QED
    BY <1>3, <2>1
<1>4. CASE marked # {}
  <2>1. marked \subseteq Nat
    BY <1>1
  <2>2. \E i \in marked : \A j \in marked : i <= j
    <3> HIDE DEF marked
    <3> QED
      BY <1>4, <2>1, SmallestNumber
  <2>3. first \in marked /\ \A j \in marked : first <= j
    <3> HIDE DEF marked
    <3> QED
      BY <2>2
  <2>4. Marker(lines) = [kind |-> lines[first].kind, slug |-> lines[first].slug, body |-> RemoveAt(lines, first)]
    BY <1>4 DEF Marker
  <2> HIDE DEF first
  <2>5. \A j \in 1..(first - 1) : lines[j].kind = "text"
    <3> TAKE j \in 1..(first - 1)
    <3>1. j \in DOMAIN lines /\ ~(first <= j)
      BY <1>1, <2>3
    <3> QED
      BY <2>3, <3>1
  <2>6. lines[first].kind # "text" /\ first \in DOMAIN lines
        /\ lines[first] = [kind |-> lines[first].kind, slug |-> lines[first].slug]
    BY <1>2, <2>3
  <2>7. RemoveAt(lines, first) = SubSeq(lines, 1, first - 1) \o SubSeq(lines, first + 1, Len(lines))
    BY DEF RemoveAt
  <2> HIDE DEF marked
  <2>8. Marker(lines).kind = lines[first].kind /\ Marker(lines).slug = lines[first].slug
        /\ Marker(lines).body = RemoveAt(lines, first)
    BY ONLY <2>4
  <2>9. /\ lines[first] = [kind |-> Marker(lines).kind, slug |-> Marker(lines).slug]
        /\ Marker(lines).kind # "text"
        /\ Marker(lines).body = SubSeq(lines, 1, first - 1) \o SubSeq(lines, first + 1, Len(lines))
    BY ONLY <2>6, <2>7, <2>8
  <2> QED
    BY <2>5, <2>6, <2>9, Zenon
<1> QED
  BY <1>3, <1>4
=============================================================================
