------------------------------- MODULE BgJobs -------------------------------
(***************************************************************************)
(* Fire-and-forget background jobs: the `bg' tool and its workers          *)
(* (peko-tools-android/src/bg_tool.rs) over the job store BgStore          *)
(* (peko-core/src/background.rs).                                          *)
(*                                                                         *)
(* BgStore keeps every job twice: in a map in memory, under an RwLock, and *)
(* as a row of SQLite, under a mutex.  Every mark_* method updates the     *)
(* first, releases its lock, and then updates the second, so two methods   *)
(* can pass each other between the two writes.  A row also carries the     *)
(* worker's last checkpoint; each checkpoint is written by a task of its   *)
(* own, so the writes of one worker land in any order.  A process that     *)
(* dies loses the map and the workers; the next one reloads the map,       *)
(* fails the running rows it cannot resume and re-spawns the others.       *)
(***************************************************************************)
EXTENDS Naturals, FiniteSets

CONSTANTS
  MaxJobs,        \* bound: jobs ever enqueued
  Firers,         \* the callers that may be inside `bg fire' at once
  MaxIterations,  \* [bg].max_iterations
  MaxConcurrent,  \* [bg].max_concurrent
  MaxTokens,      \* [bg].max_tokens_per_day in units of one iteration; 0 = none
  LoadLimit,      \* rows BgStore::open loads (LIMIT 500)
  MaxCrashes,     \* bound: deaths of the process
  MaxCancels,     \* bound: `bg cancel' calls that find a live job
  MaxFaults,      \* bound: row writes that SQLite refuses
  MaxDays         \* bound: UTC midnights

ASSUME BgAssumption ==
  /\ MaxJobs \in Nat /\ MaxIterations \in Nat /\ MaxConcurrent \in Nat
  /\ MaxTokens \in Nat /\ LoadLimit \in Nat /\ MaxCrashes \in Nat
  /\ MaxCancels \in Nat /\ MaxFaults \in Nat /\ MaxDays \in Nat
  /\ IsFiniteSet(Firers) /\ Firers # {}

\* A job is named by its place in the order of creation (`created_at').
Jobs == 1..MaxJobs

Live     == {"queued", "running"}
Terminal == {"done", "failed", "cancelled"}
Status   == Live \cup Terminal

\* Where the code that owns a job stands: inside `fire' ("insert"), then in
\* spawn_worker's task.
PC == {"none", "insert", "start", "starting", "setup", "run",
       "end", "ended", "count", "report"}

VARIABLES
  phase,     \* the process: "up", "recover" (main.rs, before serving), "down"
  fire,      \* [Firers]: how far a `bg fire' call is with its checks
  next,      \* the job the next enqueue creates
  mem,       \* [Jobs]: status in the in-memory map, or "absent"
  row,       \* [Jobs]: status in SQLite, or "absent"
  ckpt,      \* [Jobs]: iterations in the row's checkpoint_blob, 0 = NULL
  pc,        \* [Jobs]: the worker
  out,       \* [Jobs]: how the worker's run ended
  iter,      \* [Jobs]: the worker's total_iterations
  left,      \* [Jobs]: the worker's remaining iteration budget
  inflight,  \* [Jobs]: checkpoints whose spawned write has not landed
  cancelling,\* [Jobs]: cancels that set the map and not yet the row
  resume,    \* recovery: the jobs pending_resumable will return
  orphan,    \* recovery: the jobs it still has to fail
  tokens,    \* bg_stats: tokens_used of today
  \* What happened, kept for the properties only:
  ran,       \* [Jobs]: iterations executed by all the workers of the job
  told,      \* jobs whose end was sent to Telegram
  acked,     \* jobs cancelled, with the answer given, past mark_running
  lost,      \* jobs with a row write SQLite refused
  crashes, cancels, faults, days

store   == <<mem, row, ckpt>>
worker  == <<pc, out, iter, left, inflight>>
startup == <<resume, orphan>>
history == <<told, acked, crashes, cancels, days>>
vars == <<phase, fire, next, store, worker, cancelling, startup, tokens,
          ran, lost, faults, history>>

-----------------------------------------------------------------------------
TypeOK ==
  /\ phase \in {"up", "recover", "down"}
  /\ fire \in [Firers -> {"idle", "capped", "admitted"}]
  /\ next \in 1..(MaxJobs + 1)
  /\ mem \in [Jobs -> Status \cup {"absent"}]
  /\ row \in [Jobs -> Status \cup {"absent"}]
  /\ ckpt \in [Jobs -> Nat]
  /\ pc \in [Jobs -> PC]
  /\ out \in [Jobs -> {"none", "done", "failed", "setup"}]
  /\ iter \in [Jobs -> Nat]
  /\ left \in [Jobs -> 0..MaxIterations]
  /\ inflight \in [Jobs -> SUBSET Nat]
  /\ cancelling \in [Jobs -> Nat]
  /\ resume \subseteq Jobs /\ orphan \subseteq Jobs
  /\ tokens \in Nat
  /\ ran \in [Jobs -> Nat]
  /\ told \subseteq Jobs /\ acked \subseteq Jobs /\ lost \subseteq Jobs
  /\ crashes \in Nat /\ cancels \in Nat /\ faults \in Nat /\ days \in Nat

NoWorker ==
  /\ pc = [j \in Jobs |-> "none"]
  /\ out = [j \in Jobs |-> "none"]
  /\ iter = [j \in Jobs |-> 0]
  /\ left = [j \in Jobs |-> 0]
  /\ inflight = [j \in Jobs |-> {}]

Init ==
  /\ phase = "up"
  /\ fire = [f \in Firers |-> "idle"]
  /\ next = 1
  /\ mem = [j \in Jobs |-> "absent"]
  /\ row = [j \in Jobs |-> "absent"]
  /\ ckpt = [j \in Jobs |-> 0]
  /\ NoWorker
  /\ cancelling = [j \in Jobs |-> 0]
  /\ resume = {} /\ orphan = {}
  /\ tokens = 0
  /\ ran = [j \in Jobs |-> 0]
  /\ told = {} /\ acked = {} /\ lost = {}
  /\ crashes = 0 /\ cancels = 0 /\ faults = 0 /\ days = 0

-----------------------------------------------------------------------------
(* BgStore: the two layers                                                 *)

\* job.status := s, when the map holds the job.
SetMem(j, s) ==
  mem' = IF mem[j] = "absent" THEN mem ELSE [mem EXCEPT ![j] = s]

\* write_through of a status: an UPDATE of an absent row changes nothing, and
\* an error of SQLite is logged and dropped.
SetRow(j, s) ==
  \/ /\ row' = IF row[j] = "absent" THEN row ELSE [row EXCEPT ![j] = s]
     /\ UNCHANGED <<lost, faults>>
  \/ /\ faults < MaxFaults
     /\ faults' = faults + 1
     /\ lost' = lost \cup {j}
     /\ UNCHANGED row

Goto(j, label) == pc' = [pc EXCEPT ![j] = label]

-----------------------------------------------------------------------------
(* `bg fire'                                                               *)

\* What bg.list(false) counts.
Active == {j \in Jobs : mem[j] \in Live}

\* Mutant of FireCap: the comparison is off by one.
FireCapLoose(f) ==
  /\ phase = "up"
  /\ fire[f] = "idle"
  /\ Cardinality(Active) <= MaxConcurrent
  /\ fire' = [fire EXCEPT ![f] = "capped"]
  /\ UNCHANGED <<phase, next, store, worker, cancelling, startup, tokens,
                 ran, lost, faults, history>>

\* The concurrency cap is read from the map ...
FireCap(f) ==
  /\ phase = "up"
  /\ fire[f] = "idle"
  /\ Cardinality(Active) < MaxConcurrent
  /\ fire' = [fire EXCEPT ![f] = "capped"]
  /\ UNCHANGED <<phase, next, store, worker, cancelling, startup, tokens,
                 ran, lost, faults, history>>

\* ... the daily token budget from SQLite, later: admitted, or turned away.
FireBudget(f) ==
  /\ phase = "up"
  /\ fire[f] = "capped"
  /\ fire' = [fire EXCEPT ![f] = IF MaxTokens > 0 /\ tokens >= MaxTokens
                                 THEN "idle" ELSE "admitted"]
  /\ UNCHANGED <<phase, next, store, worker, cancelling, startup, tokens,
                 ran, lost, faults, history>>

\* enqueue, in memory.  The caller may ask for fewer iterations than the
\* configured maximum; the clamp is `min'.
EnqueueMem(f) ==
  /\ phase = "up"
  /\ fire[f] = "admitted"
  /\ next \in Jobs
  /\ fire' = [fire EXCEPT ![f] = "idle"]
  /\ next' = next + 1
  /\ mem' = [mem EXCEPT ![next] = "queued"]
  /\ Goto(next, "insert")
  /\ \E n \in 0..MaxIterations : left' = [left EXCEPT ![next] = n]
  /\ UNCHANGED <<phase, row, ckpt, out, iter, inflight, cancelling, startup,
                 tokens, ran, lost, faults, history>>

\* enqueue, the INSERT, and spawn_worker.
EnqueueRow(j) ==
  /\ pc[j] = "insert"
  /\ Goto(j, "start")
  /\ \/ row' = [row EXCEPT ![j] = "queued"] /\ UNCHANGED <<lost, faults>>
     \/ /\ faults < MaxFaults
        /\ faults' = faults + 1
        /\ lost' = lost \cup {j}
        /\ UNCHANGED row
  /\ UNCHANGED <<phase, fire, next, mem, ckpt, out, iter, left, inflight,
                 cancelling, startup, tokens, ran, history>>

-----------------------------------------------------------------------------
(* The worker: spawn_worker's task                                         *)

\* mark_running overwrites whatever status it finds.
MarkRunningMem(j) ==
  /\ pc[j] = "start"
  /\ SetMem(j, "running")
  /\ Goto(j, "starting")
  /\ UNCHANGED <<phase, fire, next, row, ckpt, out, iter, left, inflight,
                 cancelling, startup, tokens, ran, lost, faults, history>>

MarkRunningRow(j) ==
  /\ pc[j] = "starting"
  /\ SetRow(j, "running")
  /\ Goto(j, "setup")
  /\ UNCHANGED <<phase, fire, next, mem, ckpt, out, iter, left, inflight,
                 cancelling, startup, tokens, ran, history>>

\* The session store opens and the runtime starts, or the worker fails the job
\* without ever running it.
Setup(j) ==
  /\ pc[j] = "setup"
  /\ \/ Goto(j, "run") /\ UNCHANGED out
     \/ Goto(j, "end") /\ out' = [out EXCEPT ![j] = "setup"]
  /\ UNCHANGED <<phase, fire, next, store, iter, left, inflight, cancelling,
                 startup, tokens, ran, lost, faults, history>>

\* The iteration hook snapshots the conversation and spawns the write.
Checkpointing(j) ==
  inflight' = [inflight EXCEPT ![j] = @ \cup {iter[j] + 1}]

\* Mutant of Iterate: the loop does not ask the budget before a turn.
IterateUnbudgeted(j) ==
  /\ pc[j] = "run"
  /\ iter' = [iter EXCEPT ![j] = @ + 1]
  /\ ran' = [ran EXCEPT ![j] = @ + 1]
  /\ left' = [left EXCEPT ![j] = @ - 1]
  /\ Checkpointing(j)
  /\ UNCHANGED <<phase, fire, next, store, pc, out, cancelling, startup,
                 tokens, lost, faults, history>>

\* Mutant of Iterate: decrement reads the budget and does not store it back.
IterateFree(j) ==
  /\ pc[j] = "run"
  /\ left[j] > 0
  /\ iter' = [iter EXCEPT ![j] = @ + 1]
  /\ ran' = [ran EXCEPT ![j] = @ + 1]
  /\ Checkpointing(j)
  /\ UNCHANGED <<phase, fire, next, store, pc, out, left, cancelling, startup,
                 tokens, lost, faults, history>>

\* One turn of run_task's loop: tools ran, the hook spawns the write of a
\* checkpoint, the budget is decremented.  The status is not looked at.
Iterate(j) ==
  /\ pc[j] = "run"
  /\ left[j] > 0
  /\ iter' = [iter EXCEPT ![j] = @ + 1]
  /\ ran' = [ran EXCEPT ![j] = @ + 1]
  /\ left' = [left EXCEPT ![j] = @ - 1]
  /\ Checkpointing(j)
  /\ UNCHANGED <<phase, fire, next, store, pc, out, cancelling, startup,
                 tokens, lost, faults, history>>

\* run_task answered (or ran out of budget), failed, or hit the wall clock.
Finish(j) ==
  /\ pc[j] = "run"
  /\ \E o \in {"done", "failed"} : out' = [out EXCEPT ![j] = o]
  /\ Goto(j, "end")
  /\ UNCHANGED <<phase, fire, next, store, iter, left, inflight, cancelling,
                 startup, tokens, ran, lost, faults, history>>

EndStatus(j) == IF out[j] = "done" THEN "done" ELSE "failed"

\* mark_done, mark_failed, mark_timeout: the map, whatever it says ...
MarkEndMem(j) ==
  /\ pc[j] = "end"
  /\ SetMem(j, EndStatus(j))
  /\ Goto(j, "ended")
  /\ UNCHANGED <<phase, fire, next, row, ckpt, out, iter, left, inflight,
                 cancelling, startup, tokens, ran, lost, faults, history>>

\* Mutant of MarkEndRow: the end is set in the map only.
MarkEndRowSkipped(j) ==
  /\ pc[j] = "ended"
  /\ Goto(j, "count")
  /\ UNCHANGED <<phase, fire, next, store, out, iter, left, inflight,
                 cancelling, startup, tokens, ran, lost, faults, history>>

\* ... then the row ...
MarkEndRow(j) ==
  /\ pc[j] = "ended"
  /\ SetRow(j, EndStatus(j))
  /\ Goto(j, "count")
  /\ UNCHANGED <<phase, fire, next, mem, ckpt, out, iter, left, inflight,
                 cancelling, startup, tokens, ran, history>>

\* ... then the counters; only mark_done has tokens to add.
CountTokens(j) ==
  /\ pc[j] = "count"
  /\ tokens' = IF out[j] = "done" THEN tokens + iter[j] ELSE tokens
  /\ Goto(j, "report")
  /\ UNCHANGED <<phase, fire, next, store, out, iter, left, inflight,
                 cancelling, startup, ran, lost, faults, history>>

\* notify_terminal, which the setup failures return before reaching.
Report(j) ==
  /\ pc[j] = "report"
  /\ told' = IF out[j] = "setup" THEN told ELSE told \cup {j}
  /\ Goto(j, "none")
  /\ UNCHANGED <<phase, fire, next, store, out, iter, left, inflight,
                 cancelling, startup, tokens, ran, lost, faults, acked,
                 crashes, cancels, days>>

\* Mutant of WriteCheckpoint: the UPDATE also sets status = 'running'.
WriteCheckpointRunning(j) ==
  /\ \E n \in inflight[j] :
       /\ inflight' = [inflight EXCEPT ![j] = @ \ {n}]
       /\ ckpt' = IF row[j] = "absent" THEN ckpt ELSE [ckpt EXCEPT ![j] = n]
       /\ SetRow(j, "running")
  /\ UNCHANGED <<phase, fire, next, mem, pc, out, iter, left, cancelling,
                 startup, tokens, ran, history>>

\* A spawned write_checkpoint lands: the blob and the iteration count, and no
\* look at what the row holds already.
WriteCheckpoint(j) ==
  /\ \E n \in inflight[j] :
       /\ inflight' = [inflight EXCEPT ![j] = @ \ {n}]
       /\ \/ /\ ckpt' = IF row[j] = "absent" THEN ckpt
                        ELSE [ckpt EXCEPT ![j] = n]
             /\ UNCHANGED <<lost, faults>>
          \/ /\ faults < MaxFaults
             /\ faults' = faults + 1
             /\ lost' = lost \cup {j}
             /\ UNCHANGED ckpt
  /\ UNCHANGED <<phase, fire, next, mem, row, pc, out, iter, left, cancelling,
                 startup, tokens, ran, history>>

-----------------------------------------------------------------------------
(* `bg cancel' and the gardener                                            *)

\* mark_cancelled checks and sets the map under one lock ...
CancelMem(j) ==
  /\ phase = "up"
  /\ cancels < MaxCancels
  /\ mem[j] \in Live
  /\ cancels' = cancels + 1
  /\ mem' = [mem EXCEPT ![j] = "cancelled"]
  /\ cancelling' = [cancelling EXCEPT ![j] = @ + 1]
  /\ UNCHANGED <<phase, fire, next, row, ckpt, worker, startup, tokens, ran,
                 lost, faults, told, acked, crashes, days>>

\* ... then writes the row, and the tool answers "cancelled".
CancelRow(j) ==
  /\ cancelling[j] > 0
  /\ cancelling' = [cancelling EXCEPT ![j] = @ - 1]
  /\ SetRow(j, "cancelled")
  /\ acked' = IF pc[j] \in {"insert", "start", "starting"} THEN acked
              ELSE acked \cup {j}
  /\ UNCHANGED <<phase, fire, next, mem, ckpt, worker, startup, tokens, ran,
                 told, crashes, cancels, days>>

\* No step of the job is outstanding.
Settled(j) == pc[j] = "none" /\ inflight[j] = {} /\ cancelling[j] = 0

\* prune_finished: jobs that ended before the cut-off leave both layers.  The
\* cut-off (days) is far beyond the wall clock of a worker, so what is old
\* enough is settled; which of those are old enough is left open.
Prune(old) ==
  /\ phase = "up"
  /\ old # {}
  /\ \A j \in old : Settled(j) /\ (mem[j] \in Terminal \/ row[j] \in Terminal)
  /\ mem' = [j \in Jobs |-> IF j \in old /\ mem[j] \in Terminal
                            THEN "absent" ELSE mem[j]]
  /\ row' = [j \in Jobs |-> IF j \in old /\ row[j] \in Terminal
                            THEN "absent" ELSE row[j]]
  /\ ckpt' = [j \in Jobs |-> IF j \in old /\ row[j] \in Terminal
                             THEN 0 ELSE ckpt[j]]
  /\ UNCHANGED <<phase, fire, next, worker, cancelling, startup, tokens, ran,
                 lost, faults, history>>

\* UTC midnight: today_key names a fresh counter.
NewDay ==
  /\ days < MaxDays
  /\ days' = days + 1
  /\ tokens' = 0
  /\ UNCHANGED <<phase, fire, next, store, worker, cancelling, startup, ran,
                 lost, faults, told, acked, crashes, cancels>>

-----------------------------------------------------------------------------
(* Death and recovery                                                      *)

Crash ==
  /\ phase # "down"
  /\ crashes < MaxCrashes
  /\ crashes' = crashes + 1
  /\ phase' = "down"
  /\ fire' = [f \in Firers |-> "idle"]
  /\ mem' = [j \in Jobs |-> "absent"]
  /\ pc' = [j \in Jobs |-> "none"]
  /\ out' = [j \in Jobs |-> "none"]
  /\ iter' = [j \in Jobs |-> 0]
  /\ left' = [j \in Jobs |-> 0]
  /\ inflight' = [j \in Jobs |-> {}]
  /\ cancelling' = [j \in Jobs |-> 0]
  /\ resume' = {} /\ orphan' = {}
  /\ UNCHANGED <<next, row, ckpt, tokens, ran, lost, faults, told, acked,
                 cancels, days>>

RunningRows == {j \in Jobs : row[j] = "running"}

\* load_all: the newest LoadLimit rows.
Loaded ==
  {j \in Jobs : /\ row[j] # "absent"
                /\ Cardinality({k \in Jobs : k > j /\ row[k] # "absent"})
                     < LoadLimit}

\* Mutant of Restart: a checkpoint that cannot be used is passed over.
RestartPassingOver(bad) ==
  /\ phase = "down"
  /\ bad \subseteq RunningRows
  /\ phase' = "recover"
  /\ mem' = [j \in Jobs |-> IF j \in Loaded THEN row[j] ELSE "absent"]
  /\ orphan' = {j \in RunningRows : ckpt[j] = 0}
  /\ resume' = (RunningRows \ (orphan' \cup bad)) \cap Loaded
  /\ UNCHANGED <<fire, next, row, ckpt, worker, cancelling, tokens, ran, lost,
                 faults, history>>

\* BgStore::open fills the map; pending_resumable reads the running rows and
\* sorts them: no checkpoint, one too old or one that does not decode (`bad')
\* makes an orphan; the others are resumed, if the map holds them.
Restart(bad) ==
  /\ phase = "down"
  /\ bad \subseteq RunningRows
  /\ phase' = "recover"
  /\ mem' = [j \in Jobs |-> IF j \in Loaded THEN row[j] ELSE "absent"]
  /\ orphan' = bad \cup {j \in RunningRows : ckpt[j] = 0}
  /\ resume' = (RunningRows \ orphan') \cap Loaded
  /\ UNCHANGED <<fire, next, row, ckpt, worker, cancelling, tokens, ran, lost,
                 faults, history>>

\* mark_failed of an orphan; nothing else runs yet, so both layers at once.
FailOrphan(j) ==
  /\ phase = "recover"
  /\ j \in orphan
  /\ orphan' = orphan \ {j}
  /\ SetMem(j, "failed")
  /\ SetRow(j, "failed")
  /\ UNCHANGED <<phase, fire, next, ckpt, worker, cancelling, resume, tokens,
                 ran, history>>

\* resume_pending_bg_jobs: a worker per resumable job, counting on from its
\* checkpoint with a whole budget; then main.rs starts serving.
ResumeAll ==
  /\ phase = "recover"
  /\ orphan = {}
  /\ phase' = "up"
  /\ resume' = {}
  /\ pc' = [j \in Jobs |-> IF j \in resume THEN "start" ELSE pc[j]]
  /\ iter' = [j \in Jobs |-> IF j \in resume THEN ckpt[j] ELSE iter[j]]
  /\ left' = [j \in Jobs |-> IF j \in resume THEN MaxIterations ELSE left[j]]
  /\ UNCHANGED <<fire, next, store, out, inflight, cancelling, orphan, tokens,
                 ran, lost, faults, history>>

-----------------------------------------------------------------------------
Fire == \E f \in Firers : FireCap(f) \/ FireBudget(f) \/ EnqueueMem(f)

Work(j) ==
  \/ EnqueueRow(j)
  \/ MarkRunningMem(j) \/ MarkRunningRow(j)
  \/ Setup(j) \/ Iterate(j) \/ Finish(j)
  \/ MarkEndMem(j) \/ MarkEndRow(j) \/ CountTokens(j) \/ Report(j)

Recover ==
  \/ \E bad \in SUBSET Jobs : Restart(bad)
  \/ \E j \in Jobs : FailOrphan(j)
  \/ ResumeAll

Next ==
  \/ Fire
  \/ \E j \in Jobs : Work(j) \/ WriteCheckpoint(j) \/ CancelMem(j) \/ CancelRow(j)
  \/ \E old \in SUBSET Jobs : Prune(old)
  \/ NewDay
  \/ Crash
  \/ Recover

Spec == Init /\ [][Next]_vars

\* The runtime schedules every spawned task, every run ends (the iteration
\* budget and the wall clock see to it), and init restarts a dead process.
Fairness ==
  /\ \A j \in Jobs : WF_vars(Work(j)) /\ WF_vars(WriteCheckpoint(j))
                     /\ WF_vars(CancelRow(j))
  /\ WF_vars(Recover)

FairSpec == Spec /\ Fairness

-----------------------------------------------------------------------------
(* What the code keeps                                                     *)

\* A job the map shows as running has a worker that will end it, whatever was
\* cancelled, lost or crashed before; so does a queued one until the first
\* crash.  pending_resumable must leave no running row without a verdict.
RunningHasWorker ==
  phase = "up" =>
    \A j \in Jobs :
      (mem[j] = "running" \/ (mem[j] = "queued" /\ crashes = 0))
        => pc[j] # "none"

\* The user is told of an end after the row says so: a job reported on
\* Telegram is not executed again by a later process, unless SQLite refused
\* one of its writes.
ToldNeverRerun ==
  \A j \in told \ lost : pc[j] = "none" /\ row[j] # "running"

\* A cancel answered once mark_running is over is final on disk: no
\* checkpoint in flight and no restart brings the job back.
CancelSurvivesRestart ==
  \A j \in acked \ lost : row[j] # "running" /\ j \notin resume

\* A job never costs more iterations than a whole budget per life of the
\* process, however its checkpoints landed.
IterationsPerLife ==
  \A j \in Jobs : ran[j] <= MaxIterations * (crashes + 1)

\* The iterations the jobs of S executed: of each its first, its second, ...
ExecutedBy(S) == UNION {{j} \X (1..ran[j]) : j \in S}

\* The daily counter never holds more than the jobs executed, although a job
\* is counted with its iterations from before a crash: a counted job is not
\* resumed and counted again.
TokensNotOvercounted == lost = {} => tokens <= Cardinality(ExecutedBy(Jobs))

\* How far the check in `fire', made before the job is in the map, can be
\* overrun: by the calls that passed it together.  (A crash may add the jobs
\* whose end had not reached their rows, and a cancelled job is not counted.)
CapOverrun ==
  crashes = 0 /\ cancels = 0 =>
    Cardinality(Active) + Cardinality({f \in Firers : fire[f] # "idle"})
      <= MaxConcurrent + Cardinality(Firers) - 1

\* Both limits of background work, of cost and of number.
SpendingBounded == TokensNotOvercounted /\ CapOverrun

\* A running row does not stay running: its worker ends it, or a later start
\* fails or resumes it, unless SQLite refuses a write of the job.
RunningRowSettles ==
  \A j \in Jobs : (row[j] = "running") ~> (row[j] # "running" \/ j \in lost)

-----------------------------------------------------------------------------
(* What the comments say and the code does not do                          *)

\* `bg cancel' "sets status=cancelled" (bg_tool.rs:105): the status stays.
CancelSticks ==
  [][\A j \in Jobs : mem[j] = "cancelled" => mem'[j] \in {"cancelled", "absent"}]_vars
=============================================================================
