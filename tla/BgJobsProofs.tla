---------------------------- MODULE BgJobsProofs ----------------------------
(***************************************************************************)
(* Invariants of BgJobs for any number of jobs, callers, crashes, cancels  *)
(* and refused writes.                                                     *)
(*                                                                         *)
(* The map and the row of a job: what one says of it while the other is    *)
(* behind, told by the place of its worker and of its cancel.              *)
(* The tokens: the counter holds iterations of jobs that are over, so that *)
(* adding those of a job that ends counts none of them twice.              *)
(* The cap: the jobs that are live were let in by calls that saw no more   *)
(* than the cap allows, so what exceeds it is the calls under way.         *)
(***************************************************************************)
EXTENDS BgJobs, FiniteSetTheorems, TLAPS

\* A process that is not serving runs no worker.
Quiet ==
  phase # "up" =>
    /\ crashes > 0
    /\ \A j \in Jobs : pc[j] = "none" /\ cancelling[j] = 0 /\ inflight[j] = {}

\* A job not created yet has no trace.
Fresh ==
  \A j \in Jobs : j >= next =>
    /\ mem[j] = "absent" /\ row[j] = "absent" /\ pc[j] = "none"
    /\ cancelling[j] = 0 /\ ran[j] = 0
    /\ j \notin told /\ j \notin acked

\* The map says "running" from mark_running to the end, and during recovery
\* only of jobs that have a verdict coming.
Watched ==
  \A j \in Jobs :
    /\ phase = "up" /\ mem[j] = "running"
         => pc[j] \in {"start", "starting", "setup", "run", "end"}
    /\ phase = "up" /\ mem[j] = "queued" /\ crashes = 0
         => pc[j] \in {"insert", "start"}
    /\ phase = "recover" /\ mem[j] = "running" => j \in resume \cup orphan
    /\ phase = "down" => mem[j] = "absent"

\* Only running rows are resumed.
Resumable ==
  /\ \A j \in resume : row[j] = "running" /\ j \notin orphan
  /\ phase # "recover" => resume = {}

\* A worker that has written its end no longer has a running row.
EndWritten ==
  \A j \in Jobs \ lost : pc[j] \in {"count", "report"} => row[j] # "running"

\* A job cancelled past mark_running is past mark_running for good.
CancelledLate ==
  \A j \in acked \ lost :
    row[j] # "running" /\ pc[j] \notin {"insert", "start", "starting"}

\* What a job has executed and may still execute in this life.
Budgeted ==
  \A j \in Jobs :
    IF phase = "up" THEN ran[j] + left[j] <= MaxIterations * (crashes + 1)
                    ELSE ran[j] <= MaxIterations * crashes

\* No checkpoint is ahead of what was executed.
CheckpointsBehind ==
  \A j \in Jobs : iter[j] <= ran[j] /\ ckpt[j] <= ran[j] /\ \A n \in inflight[j] : n <= ran[j]

\* The jobs no process will execute again, and none will count again.
Over == {j \in Jobs : row[j] # "running" /\ pc[j] \in {"none", "report"}}

\* The counter holds no more than the executed iterations of such jobs.
CountedOnce == lost = {} => tokens <= Cardinality(ExecutedBy(Over))

\* Before the first crash and the first cancel a job is queued until its worker
\* marks it.
Marked ==
  crashes = 0 /\ cancels = 0 => \A j \in Jobs : pc[j] \in {"insert", "start"} => mem[j] = "queued"

IndInv ==
  /\ TypeOK
  /\ Quiet /\ Fresh /\ Watched /\ Resumable
  /\ EndWritten /\ ToldNeverRerun /\ CancelledLate /\ Budgeted
  /\ CheckpointsBehind /\ CountedOnce /\ Marked /\ CapOverrun

\* Type correctness is preserved by every action.
LEMMA TypeStep == TypeOK /\ [Next]_vars => TypeOK'
<1> SUFFICES ASSUME TypeOK, [Next]_vars PROVE TypeOK'
  OBVIOUS
<1> USE BgAssumption DEF TypeOK, vars, store, worker, startup, history,
       Status, Live, Terminal, PC
<1>1. ASSUME NEW f \in Firers, FireCap(f) PROVE TypeOK'
  BY <1>1 DEF FireCap
<1>2. ASSUME NEW f \in Firers, FireBudget(f) PROVE TypeOK'
  BY <1>2 DEF FireBudget
<1>3. ASSUME NEW f \in Firers, EnqueueMem(f) PROVE TypeOK'
  <2>1. next + 1 \in 1..(MaxJobs + 1)
    BY <1>3 DEF EnqueueMem, Jobs
  <2> QED
    BY <1>3, <2>1 DEF EnqueueMem, Goto
<1>4. ASSUME NEW j \in Jobs, EnqueueRow(j) PROVE TypeOK'
  BY <1>4 DEF EnqueueRow, Goto
<1>5. ASSUME NEW j \in Jobs, MarkRunningMem(j) PROVE TypeOK'
  BY <1>5 DEF MarkRunningMem, SetMem, Goto
<1>6. ASSUME NEW j \in Jobs, MarkRunningRow(j) PROVE TypeOK'
  BY <1>6 DEF MarkRunningRow, SetRow, Goto
<1>7. ASSUME NEW j \in Jobs, Setup(j) PROVE TypeOK'
  BY <1>7 DEF Setup, Goto
<1>8. ASSUME NEW j \in Jobs, Iterate(j) PROVE TypeOK'
  BY <1>8 DEF Iterate, Checkpointing
<1>9. ASSUME NEW j \in Jobs, Finish(j) PROVE TypeOK'
  BY <1>9 DEF Finish, Goto
<1>10. ASSUME NEW j \in Jobs, MarkEndMem(j) PROVE TypeOK'
  BY <1>10 DEF MarkEndMem, SetMem, Goto, EndStatus
<1>11. ASSUME NEW j \in Jobs, MarkEndRow(j) PROVE TypeOK'
  BY <1>11 DEF MarkEndRow, SetRow, Goto, EndStatus
<1>12. ASSUME NEW j \in Jobs, CountTokens(j) PROVE TypeOK'
  BY <1>12 DEF CountTokens, Goto
<1>13. ASSUME NEW j \in Jobs, Report(j) PROVE TypeOK'
  BY <1>13 DEF Report, Goto
<1>14. ASSUME NEW j \in Jobs, WriteCheckpoint(j) PROVE TypeOK'
  BY <1>14 DEF WriteCheckpoint
<1>15. ASSUME NEW j \in Jobs, CancelMem(j) PROVE TypeOK'
  BY <1>15 DEF CancelMem
<1>16. ASSUME NEW j \in Jobs, CancelRow(j) PROVE TypeOK'
  BY <1>16 DEF CancelRow, SetRow
<1>17. ASSUME NEW old \in SUBSET Jobs, Prune(old) PROVE TypeOK'
  BY <1>17 DEF Prune, Settled
<1>18. CASE NewDay
  BY <1>18 DEF NewDay
<1>19. CASE Crash
  BY <1>19 DEF Crash
<1>20. ASSUME NEW bad \in SUBSET Jobs, Restart(bad) PROVE TypeOK'
  BY <1>20 DEF Restart, RunningRows, Loaded
<1>21. ASSUME NEW j \in Jobs, FailOrphan(j) PROVE TypeOK'
  BY <1>21 DEF FailOrphan, SetMem, SetRow
<1>22. CASE ResumeAll
  BY <1>22 DEF ResumeAll
<1>23. CASE UNCHANGED vars
  BY <1>23
<1> HIDE DEF TypeOK, store, worker, startup, history,
       Status, Live, Terminal, PC
<1> QED
  BY <1>1, <1>2, <1>3, <1>4, <1>5, <1>6, <1>7, <1>8, <1>9, <1>10, <1>11, <1>12,
     <1>13, <1>14, <1>15, <1>16, <1>17, <1>18, <1>19, <1>20, <1>21, <1>22, <1>23
  DEF Next, Fire, Work, Recover
\* A process that is not serving stays quiet.
LEMMA QuietStep == TypeOK /\ Quiet /\ [Next]_vars => Quiet'
<1> SUFFICES ASSUME TypeOK /\ Quiet, [Next]_vars PROVE Quiet'
  OBVIOUS
<1> USE BgAssumption DEF TypeOK, vars, store, worker, startup, history,
       Status, Live, Terminal, PC, Quiet
<1>1. ASSUME NEW f \in Firers, FireCap(f) PROVE Quiet'
  BY <1>1 DEF FireCap
<1>2. ASSUME NEW f \in Firers, FireBudget(f) PROVE Quiet'
  BY <1>2 DEF FireBudget
<1>3. ASSUME NEW f \in Firers, EnqueueMem(f) PROVE Quiet'
  BY <1>3 DEF EnqueueMem, Goto
<1>4. ASSUME NEW j \in Jobs, EnqueueRow(j) PROVE Quiet'
  BY <1>4 DEF EnqueueRow, Goto
<1>5. ASSUME NEW j \in Jobs, MarkRunningMem(j) PROVE Quiet'
  BY <1>5 DEF MarkRunningMem, SetMem, Goto
<1>6. ASSUME NEW j \in Jobs, MarkRunningRow(j) PROVE Quiet'
  BY <1>6 DEF MarkRunningRow, SetRow, Goto
<1>7. ASSUME NEW j \in Jobs, Setup(j) PROVE Quiet'
  BY <1>7 DEF Setup, Goto
<1>8. ASSUME NEW j \in Jobs, Iterate(j) PROVE Quiet'
  BY <1>8 DEF Iterate, Checkpointing
<1>9. ASSUME NEW j \in Jobs, Finish(j) PROVE Quiet'
  BY <1>9 DEF Finish, Goto
<1>10. ASSUME NEW j \in Jobs, MarkEndMem(j) PROVE Quiet'
  BY <1>10 DEF MarkEndMem, SetMem, Goto, EndStatus
<1>11. ASSUME NEW j \in Jobs, MarkEndRow(j) PROVE Quiet'
  BY <1>11 DEF MarkEndRow, SetRow, Goto, EndStatus
<1>12. ASSUME NEW j \in Jobs, CountTokens(j) PROVE Quiet'
  BY <1>12 DEF CountTokens, Goto
<1>13. ASSUME NEW j \in Jobs, Report(j) PROVE Quiet'
  BY <1>13 DEF Report, Goto
<1>14. ASSUME NEW j \in Jobs, WriteCheckpoint(j) PROVE Quiet'
  BY <1>14 DEF WriteCheckpoint
<1>15. ASSUME NEW j \in Jobs, CancelMem(j) PROVE Quiet'
  BY <1>15 DEF CancelMem
<1>16. ASSUME NEW j \in Jobs, CancelRow(j) PROVE Quiet'
  BY <1>16 DEF CancelRow, SetRow
<1>17. ASSUME NEW old \in SUBSET Jobs, Prune(old) PROVE Quiet'
  BY <1>17 DEF Prune, Settled
<1>18. CASE NewDay
  BY <1>18 DEF NewDay
<1>19. CASE Crash
  BY <1>19 DEF Crash
<1>20. ASSUME NEW bad \in SUBSET Jobs, Restart(bad) PROVE Quiet'
  BY <1>20 DEF Restart, RunningRows, Loaded
<1>21. ASSUME NEW j \in Jobs, FailOrphan(j) PROVE Quiet'
  BY <1>21 DEF FailOrphan, SetMem, SetRow
<1>22. CASE ResumeAll
  BY <1>22 DEF ResumeAll
<1>23. CASE UNCHANGED vars
  BY <1>23
<1> HIDE DEF TypeOK, vars, store, worker, startup, history,
       Status, Live, Terminal, PC, Quiet
<1> QED
  BY <1>1, <1>2, <1>3, <1>4, <1>5, <1>6, <1>7, <1>8, <1>9, <1>10, <1>11, <1>12,
     <1>13, <1>14, <1>15, <1>16, <1>17, <1>18, <1>19, <1>20, <1>21, <1>22, <1>23
  DEF Next, Fire, Work, Recover

\* Jobs not yet created stay without a trace.
LEMMA FreshStep == TypeOK /\ Fresh /\ Resumable /\ [Next]_vars => Fresh'
<1> SUFFICES ASSUME TypeOK /\ Fresh /\ Resumable, [Next]_vars PROVE Fresh'
  OBVIOUS
<1> USE BgAssumption DEF TypeOK, vars, store, worker, startup, history,
       Status, Live, Terminal, PC, Fresh, Resumable
<1>1. ASSUME NEW f \in Firers, FireCap(f) PROVE Fresh'
  BY <1>1 DEF FireCap
<1>2. ASSUME NEW f \in Firers, FireBudget(f) PROVE Fresh'
  BY <1>2 DEF FireBudget
<1>3. ASSUME NEW f \in Firers, EnqueueMem(f) PROVE Fresh'
  BY <1>3 DEF EnqueueMem, Goto, Jobs
<1>4. ASSUME NEW j \in Jobs, EnqueueRow(j) PROVE Fresh'
  BY <1>4 DEF EnqueueRow, Goto
<1>5. ASSUME NEW j \in Jobs, MarkRunningMem(j) PROVE Fresh'
  BY <1>5 DEF MarkRunningMem, SetMem, Goto
<1>6. ASSUME NEW j \in Jobs, MarkRunningRow(j) PROVE Fresh'
  BY <1>6 DEF MarkRunningRow, SetRow, Goto
<1>7. ASSUME NEW j \in Jobs, Setup(j) PROVE Fresh'
  BY <1>7 DEF Setup, Goto
<1>8. ASSUME NEW j \in Jobs, Iterate(j) PROVE Fresh'
  BY <1>8 DEF Iterate, Checkpointing
<1>9. ASSUME NEW j \in Jobs, Finish(j) PROVE Fresh'
  BY <1>9 DEF Finish, Goto
<1>10. ASSUME NEW j \in Jobs, MarkEndMem(j) PROVE Fresh'
  BY <1>10 DEF MarkEndMem, SetMem, Goto, EndStatus
<1>11. ASSUME NEW j \in Jobs, MarkEndRow(j) PROVE Fresh'
  BY <1>11 DEF MarkEndRow, SetRow, Goto, EndStatus
<1>12. ASSUME NEW j \in Jobs, CountTokens(j) PROVE Fresh'
  BY <1>12 DEF CountTokens, Goto
<1>13. ASSUME NEW j \in Jobs, Report(j) PROVE Fresh'
  BY <1>13 DEF Report, Goto
<1>14. ASSUME NEW j \in Jobs, WriteCheckpoint(j) PROVE Fresh'
  BY <1>14 DEF WriteCheckpoint
<1>15. ASSUME NEW j \in Jobs, CancelMem(j) PROVE Fresh'
  BY <1>15 DEF CancelMem
<1>16. ASSUME NEW j \in Jobs, CancelRow(j) PROVE Fresh'
  BY <1>16 DEF CancelRow, SetRow
<1>17. ASSUME NEW old \in SUBSET Jobs, Prune(old) PROVE Fresh'
  BY <1>17 DEF Prune, Settled
<1>18. CASE NewDay
  BY <1>18 DEF NewDay
<1>19. CASE Crash
  BY <1>19 DEF Crash
<1>20. ASSUME NEW bad \in SUBSET Jobs, Restart(bad) PROVE Fresh'
  BY <1>20 DEF Restart, RunningRows, Loaded
<1>21. ASSUME NEW j \in Jobs, FailOrphan(j) PROVE Fresh'
  BY <1>21 DEF FailOrphan, SetMem, SetRow
<1>22. CASE ResumeAll
  BY <1>22 DEF ResumeAll
<1>23. CASE UNCHANGED vars
  BY <1>23
<1> HIDE DEF TypeOK, vars, store, worker, startup, history,
       Status, Live, Terminal, PC, Fresh, Resumable
<1> QED
  BY <1>1, <1>2, <1>3, <1>4, <1>5, <1>6, <1>7, <1>8, <1>9, <1>10, <1>11, <1>12,
     <1>13, <1>14, <1>15, <1>16, <1>17, <1>18, <1>19, <1>20, <1>21, <1>22, <1>23
  DEF Next, Fire, Work, Recover

\* The map's `running' stays accounted for.
LEMMA WatchedStep == TypeOK /\ Quiet /\ Watched /\ [Next]_vars => Watched'
<1> SUFFICES ASSUME TypeOK /\ Quiet /\ Watched, [Next]_vars PROVE Watched'
  OBVIOUS
<1> USE BgAssumption DEF TypeOK, vars, store, worker, startup, history,
       Status, Live, Terminal, PC, Quiet, Watched
<1>1. ASSUME NEW f \in Firers, FireCap(f) PROVE Watched'
  BY <1>1 DEF FireCap
<1>2. ASSUME NEW f \in Firers, FireBudget(f) PROVE Watched'
  BY <1>2 DEF FireBudget
<1>3. ASSUME NEW f \in Firers, EnqueueMem(f) PROVE Watched'
  BY <1>3 DEF EnqueueMem, Goto
<1>4. ASSUME NEW j \in Jobs, EnqueueRow(j) PROVE Watched'
  BY <1>4 DEF EnqueueRow, Goto
<1>5. ASSUME NEW j \in Jobs, MarkRunningMem(j) PROVE Watched'
  BY <1>5 DEF MarkRunningMem, SetMem, Goto
<1>6. ASSUME NEW j \in Jobs, MarkRunningRow(j) PROVE Watched'
  BY <1>6 DEF MarkRunningRow, SetRow, Goto
<1>7. ASSUME NEW j \in Jobs, Setup(j) PROVE Watched'
  BY <1>7 DEF Setup, Goto
<1>8. ASSUME NEW j \in Jobs, Iterate(j) PROVE Watched'
  BY <1>8 DEF Iterate, Checkpointing
<1>9. ASSUME NEW j \in Jobs, Finish(j) PROVE Watched'
  BY <1>9 DEF Finish, Goto
<1>10. ASSUME NEW j \in Jobs, MarkEndMem(j) PROVE Watched'
  BY <1>10 DEF MarkEndMem, SetMem, Goto, EndStatus
<1>11. ASSUME NEW j \in Jobs, MarkEndRow(j) PROVE Watched'
  BY <1>11 DEF MarkEndRow, SetRow, Goto, EndStatus
<1>12. ASSUME NEW j \in Jobs, CountTokens(j) PROVE Watched'
  BY <1>12 DEF CountTokens, Goto
<1>13. ASSUME NEW j \in Jobs, Report(j) PROVE Watched'
  BY <1>13 DEF Report, Goto
<1>14. ASSUME NEW j \in Jobs, WriteCheckpoint(j) PROVE Watched'
  BY <1>14 DEF WriteCheckpoint
<1>15. ASSUME NEW j \in Jobs, CancelMem(j) PROVE Watched'
  BY <1>15 DEF CancelMem
<1>16. ASSUME NEW j \in Jobs, CancelRow(j) PROVE Watched'
  BY <1>16 DEF CancelRow, SetRow
<1>17. ASSUME NEW old \in SUBSET Jobs, Prune(old) PROVE Watched'
  BY <1>17 DEF Prune, Settled
<1>18. CASE NewDay
  BY <1>18 DEF NewDay
<1>19. CASE Crash
  BY <1>19 DEF Crash
<1>20. ASSUME NEW bad \in SUBSET Jobs, Restart(bad) PROVE Watched'
  BY <1>20 DEF Restart, RunningRows, Loaded
<1>21. ASSUME NEW j \in Jobs, FailOrphan(j) PROVE Watched'
  BY <1>21 DEF FailOrphan, SetMem, SetRow
<1>22. CASE ResumeAll
  <2>1. \A j \in Jobs : mem[j] = "running" => j \in resume
    BY <1>22 DEF ResumeAll
  <2>2. crashes' > 0 /\ phase' = "up" /\ mem' = mem
    BY <1>22 DEF ResumeAll
  <2>3. \A j \in Jobs : j \in resume => pc'[j] = "start"
    BY <1>22 DEF ResumeAll
  <2> QED
    BY <2>1, <2>2, <2>3
<1>23. CASE UNCHANGED vars
  BY <1>23
<1> HIDE DEF TypeOK, vars, store, worker, startup, history,
       Status, Live, Terminal, PC, Quiet, Watched
<1> QED
  BY <1>1, <1>2, <1>3, <1>4, <1>5, <1>6, <1>7, <1>8, <1>9, <1>10, <1>11, <1>12,
     <1>13, <1>14, <1>15, <1>16, <1>17, <1>18, <1>19, <1>20, <1>21, <1>22, <1>23
  DEF Next, Fire, Work, Recover

\* Recovery resumes running rows only.
LEMMA ResumableStep == TypeOK /\ Quiet /\ Resumable /\ [Next]_vars => Resumable'
<1> SUFFICES ASSUME TypeOK /\ Quiet /\ Resumable, [Next]_vars PROVE Resumable'
  OBVIOUS
<1> USE BgAssumption DEF TypeOK, vars, store, worker, startup, history,
       Status, Live, Terminal, PC, Quiet, Resumable
<1>1. ASSUME NEW f \in Firers, FireCap(f) PROVE Resumable'
  BY <1>1 DEF FireCap
<1>2. ASSUME NEW f \in Firers, FireBudget(f) PROVE Resumable'
  BY <1>2 DEF FireBudget
<1>3. ASSUME NEW f \in Firers, EnqueueMem(f) PROVE Resumable'
  BY <1>3 DEF EnqueueMem, Goto
<1>4. ASSUME NEW j \in Jobs, EnqueueRow(j) PROVE Resumable'
  BY <1>4 DEF EnqueueRow, Goto
<1>5. ASSUME NEW j \in Jobs, MarkRunningMem(j) PROVE Resumable'
  BY <1>5 DEF MarkRunningMem, SetMem, Goto
<1>6. ASSUME NEW j \in Jobs, MarkRunningRow(j) PROVE Resumable'
  BY <1>6 DEF MarkRunningRow, SetRow, Goto
<1>7. ASSUME NEW j \in Jobs, Setup(j) PROVE Resumable'
  BY <1>7 DEF Setup, Goto
<1>8. ASSUME NEW j \in Jobs, Iterate(j) PROVE Resumable'
  BY <1>8 DEF Iterate, Checkpointing
<1>9. ASSUME NEW j \in Jobs, Finish(j) PROVE Resumable'
  BY <1>9 DEF Finish, Goto
<1>10. ASSUME NEW j \in Jobs, MarkEndMem(j) PROVE Resumable'
  BY <1>10 DEF MarkEndMem, SetMem, Goto, EndStatus
<1>11. ASSUME NEW j \in Jobs, MarkEndRow(j) PROVE Resumable'
  BY <1>11 DEF MarkEndRow, SetRow, Goto, EndStatus
<1>12. ASSUME NEW j \in Jobs, CountTokens(j) PROVE Resumable'
  BY <1>12 DEF CountTokens, Goto
<1>13. ASSUME NEW j \in Jobs, Report(j) PROVE Resumable'
  BY <1>13 DEF Report, Goto
<1>14. ASSUME NEW j \in Jobs, WriteCheckpoint(j) PROVE Resumable'
  BY <1>14 DEF WriteCheckpoint
<1>15. ASSUME NEW j \in Jobs, CancelMem(j) PROVE Resumable'
  BY <1>15 DEF CancelMem
<1>16. ASSUME NEW j \in Jobs, CancelRow(j) PROVE Resumable'
  BY <1>16 DEF CancelRow, SetRow
<1>17. ASSUME NEW old \in SUBSET Jobs, Prune(old) PROVE Resumable'
  BY <1>17 DEF Prune, Settled
<1>18. CASE NewDay
  BY <1>18 DEF NewDay
<1>19. CASE Crash
  BY <1>19 DEF Crash
<1>20. ASSUME NEW bad \in SUBSET Jobs, Restart(bad) PROVE Resumable'
  BY <1>20 DEF Restart, RunningRows, Loaded
<1>21. ASSUME NEW j \in Jobs, FailOrphan(j) PROVE Resumable'
  BY <1>21 DEF FailOrphan, SetMem, SetRow
<1>22. CASE ResumeAll
  BY <1>22 DEF ResumeAll
<1>23. CASE UNCHANGED vars
  BY <1>23
<1> HIDE DEF TypeOK, vars, store, worker, startup, history,
       Status, Live, Terminal, PC, Quiet, Resumable
<1> QED
  BY <1>1, <1>2, <1>3, <1>4, <1>5, <1>6, <1>7, <1>8, <1>9, <1>10, <1>11, <1>12,
     <1>13, <1>14, <1>15, <1>16, <1>17, <1>18, <1>19, <1>20, <1>21, <1>22, <1>23
  DEF Next, Fire, Work, Recover

\* Ends are written before they are told, and never undone.
LEMMA ToldStep ==
  TypeOK /\ Fresh /\ Resumable /\ EndWritten /\ ToldNeverRerun /\ [Next]_vars
    => (EndWritten /\ ToldNeverRerun)'
<1> SUFFICES ASSUME TypeOK /\ Fresh /\ Resumable /\ EndWritten /\ ToldNeverRerun, [Next]_vars PROVE (EndWritten /\ ToldNeverRerun)'
  OBVIOUS
<1> USE BgAssumption DEF TypeOK, vars, store, worker, startup, history,
       Status, Live, Terminal, PC, Fresh, Resumable, EndWritten, ToldNeverRerun
<1>1. ASSUME NEW f \in Firers, FireCap(f) PROVE (EndWritten /\ ToldNeverRerun)'
  BY <1>1 DEF FireCap
<1>2. ASSUME NEW f \in Firers, FireBudget(f) PROVE (EndWritten /\ ToldNeverRerun)'
  BY <1>2 DEF FireBudget
<1>3. ASSUME NEW f \in Firers, EnqueueMem(f) PROVE (EndWritten /\ ToldNeverRerun)'
  <2>1. next \in Jobs /\ next \notin told /\ row[next] # "running"
    BY <1>3 DEF EnqueueMem, Jobs
  <2> QED
    BY <1>3, <2>1 DEF EnqueueMem, Goto
<1>4. ASSUME NEW j \in Jobs, EnqueueRow(j) PROVE (EndWritten /\ ToldNeverRerun)'
  BY <1>4 DEF EnqueueRow, Goto
<1>5. ASSUME NEW j \in Jobs, MarkRunningMem(j) PROVE (EndWritten /\ ToldNeverRerun)'
  BY <1>5 DEF MarkRunningMem, SetMem, Goto
<1>6. ASSUME NEW j \in Jobs, MarkRunningRow(j) PROVE (EndWritten /\ ToldNeverRerun)'
  BY <1>6 DEF MarkRunningRow, SetRow, Goto
<1>7. ASSUME NEW j \in Jobs, Setup(j) PROVE (EndWritten /\ ToldNeverRerun)'
  BY <1>7 DEF Setup, Goto
<1>8. ASSUME NEW j \in Jobs, Iterate(j) PROVE (EndWritten /\ ToldNeverRerun)'
  BY <1>8 DEF Iterate, Checkpointing
<1>9. ASSUME NEW j \in Jobs, Finish(j) PROVE (EndWritten /\ ToldNeverRerun)'
  BY <1>9 DEF Finish, Goto
<1>10. ASSUME NEW j \in Jobs, MarkEndMem(j) PROVE (EndWritten /\ ToldNeverRerun)'
  BY <1>10 DEF MarkEndMem, SetMem, Goto, EndStatus
<1>11. ASSUME NEW j \in Jobs, MarkEndRow(j) PROVE (EndWritten /\ ToldNeverRerun)'
  BY <1>11 DEF MarkEndRow, SetRow, Goto, EndStatus
<1>12. ASSUME NEW j \in Jobs, CountTokens(j) PROVE (EndWritten /\ ToldNeverRerun)'
  BY <1>12 DEF CountTokens, Goto
<1>13. ASSUME NEW j \in Jobs, Report(j) PROVE (EndWritten /\ ToldNeverRerun)'
  BY <1>13 DEF Report, Goto
<1>14. ASSUME NEW j \in Jobs, WriteCheckpoint(j) PROVE (EndWritten /\ ToldNeverRerun)'
  BY <1>14 DEF WriteCheckpoint
<1>15. ASSUME NEW j \in Jobs, CancelMem(j) PROVE (EndWritten /\ ToldNeverRerun)'
  BY <1>15 DEF CancelMem
<1>16. ASSUME NEW j \in Jobs, CancelRow(j) PROVE (EndWritten /\ ToldNeverRerun)'
  BY <1>16 DEF CancelRow, SetRow
<1>17. ASSUME NEW old \in SUBSET Jobs, Prune(old) PROVE (EndWritten /\ ToldNeverRerun)'
  BY <1>17 DEF Prune, Settled
<1>18. CASE NewDay
  BY <1>18 DEF NewDay
<1>19. CASE Crash
  BY <1>19 DEF Crash
<1>20. ASSUME NEW bad \in SUBSET Jobs, Restart(bad) PROVE (EndWritten /\ ToldNeverRerun)'
  BY <1>20 DEF Restart, RunningRows, Loaded
<1>21. ASSUME NEW j \in Jobs, FailOrphan(j) PROVE (EndWritten /\ ToldNeverRerun)'
  BY <1>21 DEF FailOrphan, SetMem, SetRow
<1>22. CASE ResumeAll
  BY <1>22 DEF ResumeAll
<1>23. CASE UNCHANGED vars
  BY <1>23
<1> HIDE DEF TypeOK, vars, store, worker, startup, history,
       Status, Live, Terminal, PC, Fresh, Resumable, EndWritten, ToldNeverRerun
<1> QED
  BY <1>1, <1>2, <1>3, <1>4, <1>5, <1>6, <1>7, <1>8, <1>9, <1>10, <1>11, <1>12,
     <1>13, <1>14, <1>15, <1>16, <1>17, <1>18, <1>19, <1>20, <1>21, <1>22, <1>23
  DEF Next, Fire, Work, Recover

\* A cancel past mark_running stays on disk.
LEMMA CancelledStep == TypeOK /\ Fresh /\ Resumable /\ CancelledLate /\ [Next]_vars => CancelledLate'
<1> SUFFICES ASSUME TypeOK /\ Fresh /\ Resumable /\ CancelledLate, [Next]_vars PROVE CancelledLate'
  OBVIOUS
<1> USE BgAssumption DEF TypeOK, vars, store, worker, startup, history,
       Status, Live, Terminal, PC, Fresh, Resumable, CancelledLate
<1>1. ASSUME NEW f \in Firers, FireCap(f) PROVE CancelledLate'
  BY <1>1 DEF FireCap
<1>2. ASSUME NEW f \in Firers, FireBudget(f) PROVE CancelledLate'
  BY <1>2 DEF FireBudget
<1>3. ASSUME NEW f \in Firers, EnqueueMem(f) PROVE CancelledLate'
  BY <1>3 DEF EnqueueMem, Goto, Jobs
<1>4. ASSUME NEW j \in Jobs, EnqueueRow(j) PROVE CancelledLate'
  BY <1>4 DEF EnqueueRow, Goto
<1>5. ASSUME NEW j \in Jobs, MarkRunningMem(j) PROVE CancelledLate'
  BY <1>5 DEF MarkRunningMem, SetMem, Goto
<1>6. ASSUME NEW j \in Jobs, MarkRunningRow(j) PROVE CancelledLate'
  BY <1>6 DEF MarkRunningRow, SetRow, Goto
<1>7. ASSUME NEW j \in Jobs, Setup(j) PROVE CancelledLate'
  BY <1>7 DEF Setup, Goto
<1>8. ASSUME NEW j \in Jobs, Iterate(j) PROVE CancelledLate'
  BY <1>8 DEF Iterate, Checkpointing
<1>9. ASSUME NEW j \in Jobs, Finish(j) PROVE CancelledLate'
  BY <1>9 DEF Finish, Goto
<1>10. ASSUME NEW j \in Jobs, MarkEndMem(j) PROVE CancelledLate'
  BY <1>10 DEF MarkEndMem, SetMem, Goto, EndStatus
<1>11. ASSUME NEW j \in Jobs, MarkEndRow(j) PROVE CancelledLate'
  BY <1>11 DEF MarkEndRow, SetRow, Goto, EndStatus
<1>12. ASSUME NEW j \in Jobs, CountTokens(j) PROVE CancelledLate'
  BY <1>12 DEF CountTokens, Goto
<1>13. ASSUME NEW j \in Jobs, Report(j) PROVE CancelledLate'
  BY <1>13 DEF Report, Goto
<1>14. ASSUME NEW j \in Jobs, WriteCheckpoint(j) PROVE CancelledLate'
  BY <1>14 DEF WriteCheckpoint
<1>15. ASSUME NEW j \in Jobs, CancelMem(j) PROVE CancelledLate'
  BY <1>15 DEF CancelMem
<1>16. ASSUME NEW j \in Jobs, CancelRow(j) PROVE CancelledLate'
  BY <1>16 DEF CancelRow, SetRow
<1>17. ASSUME NEW old \in SUBSET Jobs, Prune(old) PROVE CancelledLate'
  BY <1>17 DEF Prune, Settled
<1>18. CASE NewDay
  BY <1>18 DEF NewDay
<1>19. CASE Crash
  BY <1>19 DEF Crash
<1>20. ASSUME NEW bad \in SUBSET Jobs, Restart(bad) PROVE CancelledLate'
  BY <1>20 DEF Restart, RunningRows, Loaded
<1>21. ASSUME NEW j \in Jobs, FailOrphan(j) PROVE CancelledLate'
  BY <1>21 DEF FailOrphan, SetMem, SetRow
<1>22. CASE ResumeAll
  BY <1>22 DEF ResumeAll
<1>23. CASE UNCHANGED vars
  BY <1>23
<1> HIDE DEF TypeOK, vars, store, worker, startup, history,
       Status, Live, Terminal, PC, Fresh, Resumable, CancelledLate
<1> QED
  BY <1>1, <1>2, <1>3, <1>4, <1>5, <1>6, <1>7, <1>8, <1>9, <1>10, <1>11, <1>12,
     <1>13, <1>14, <1>15, <1>16, <1>17, <1>18, <1>19, <1>20, <1>21, <1>22, <1>23
  DEF Next, Fire, Work, Recover

\* The worker's iteration budget bounds what a life of the process adds.
LEMMA BudgetStep == TypeOK /\ Fresh /\ Quiet /\ Budgeted /\ [Next]_vars => Budgeted'
<1> SUFFICES ASSUME TypeOK, Fresh, Quiet, Budgeted, [Next]_vars PROVE Budgeted'
  OBVIOUS
<1> DEFINE Bound(c) == MaxIterations * c
<1>a. /\ Bound(crashes) \in Nat /\ Bound(crashes + 1) \in Nat
      /\ Bound(crashes + 1) = Bound(crashes) + MaxIterations
  BY BgAssumption DEF TypeOK
<1>b. \A j \in Jobs : IF phase = "up" THEN ran[j] + left[j] <= Bound(crashes + 1)
                                     ELSE ran[j] <= Bound(crashes)
  BY DEF Budgeted
<1> HIDE DEF Bound
<1> USE <1>a, <1>b, BgAssumption DEF TypeOK, vars, store, worker, startup, history
<1>1. ASSUME crashes' = crashes,
             \A j \in Jobs : IF phase' = "up" THEN (ran[j] + left[j])' <= Bound(crashes + 1)
                                              ELSE ran'[j] <= Bound(crashes)
      PROVE Budgeted'
  BY <1>1 DEF Budgeted, Bound
<1>2. ASSUME phase' = phase, crashes' = crashes, ran' = ran, left' = left
      PROVE Budgeted'
  BY <1>1, <1>2
<1>3. ASSUME NEW f \in Firers, EnqueueMem(f) PROVE Budgeted'
  <2>1. next \in Jobs /\ ran[next] = 0
    BY <1>3 DEF EnqueueMem, Fresh, Jobs
  <2>2. \A j \in Jobs : (ran[j] + left[j])' <= Bound(crashes + 1)
    BY <1>3, <2>1 DEF EnqueueMem
  <2> QED
    BY <1>1, <1>3, <2>2 DEF EnqueueMem
<1>4. ASSUME NEW j \in Jobs, Iterate(j) PROVE Budgeted'
  <2>1. phase' = phase /\ crashes' = crashes /\ phase = "up"
    BY <1>4 DEF Iterate, Quiet
  <2>2. \A k \in Jobs : (ran[k] + left[k])' <= Bound(crashes + 1)
    BY <1>4, <2>1 DEF Iterate, Checkpointing
  <2> QED
    BY <1>1, <2>1, <2>2
<1>5. CASE Crash
  <2>1. \A j \in Jobs : ran[j] <= Bound(crashes + 1)
    OBVIOUS
  <2> QED
    BY <1>5, <2>1 DEF Crash, Budgeted, Bound
<1>6. ASSUME NEW bad \in SUBSET Jobs, Restart(bad) PROVE Budgeted'
  BY <1>1, <1>6 DEF Restart
<1>7. CASE ResumeAll
  <2>1. \A j \in Jobs : left'[j] \in 0..MaxIterations
    BY <1>7 DEF ResumeAll
  <2>2. \A j \in Jobs : (ran[j] + left[j])' <= Bound(crashes + 1)
    BY <1>7, <2>1 DEF ResumeAll
  <2> QED
    BY <1>1, <1>7, <2>2 DEF ResumeAll
<1>8. ASSUME NEW f \in Firers, FireCap(f) \/ FireBudget(f) PROVE Budgeted'
  BY <1>2, <1>8 DEF FireCap, FireBudget
<1>9. ASSUME NEW j \in Jobs,
             \/ EnqueueRow(j) \/ MarkRunningMem(j) \/ MarkRunningRow(j) \/ Setup(j)
             \/ Finish(j) \/ MarkEndMem(j) \/ MarkEndRow(j) \/ CountTokens(j)
             \/ Report(j) \/ WriteCheckpoint(j) \/ CancelMem(j) \/ CancelRow(j)
             \/ FailOrphan(j)
      PROVE Budgeted'
  BY <1>2, <1>9 DEF EnqueueRow, MarkRunningMem, MarkRunningRow, Setup, Finish,
     MarkEndMem, MarkEndRow, CountTokens, Report, WriteCheckpoint, CancelMem,
     CancelRow, FailOrphan
<1>10. ASSUME NEW old \in SUBSET Jobs, Prune(old) PROVE Budgeted'
  BY <1>2, <1>10 DEF Prune
<1>11. CASE NewDay \/ UNCHANGED vars
  BY <1>2, <1>11 DEF NewDay
<1> HIDE <1>a, <1>b DEF TypeOK, store, worker, startup, history
<1> QED
  BY <1>3, <1>4, <1>5, <1>6, <1>7, <1>8, <1>9, <1>10, <1>11
  DEF Next, Fire, Work, Recover

\* Checkpoints follow the execution: an iteration is counted and snapshotted by
\* the step that executes it, and a resumed worker counts on from a checkpoint.
LEMMA BehindStep == TypeOK /\ CheckpointsBehind /\ [Next]_vars => CheckpointsBehind'
<1> SUFFICES ASSUME TypeOK, CheckpointsBehind, [Next]_vars PROVE CheckpointsBehind'
  OBVIOUS
<1>1. ASSUME UNCHANGED <<iter, ckpt, inflight, ran>> PROVE CheckpointsBehind'
  BY <1>1 DEF CheckpointsBehind
<1>2. ASSUME NEW j \in Jobs, Iterate(j) PROVE CheckpointsBehind'
  <2>1. /\ iter'[j] = iter[j] + 1 /\ ran'[j] = ran[j] + 1 /\ ckpt' = ckpt
        /\ inflight'[j] = inflight[j] \cup {iter[j] + 1}
        /\ \A k \in Jobs : k # j => iter'[k] = iter[k] /\ ran'[k] = ran[k] /\ inflight'[k] = inflight[k]
    BY <1>2 DEF Iterate, Checkpointing, TypeOK, store
  <2>2. iter[j] \in Nat /\ ran[j] \in Nat /\ ckpt[j] \in Nat /\ inflight[j] \subseteq Nat
    BY DEF TypeOK
  <2>3. iter'[j] <= ran'[j] /\ ckpt'[j] <= ran'[j] /\ \A n \in inflight'[j] : n <= ran'[j]
    BY <2>1, <2>2 DEF CheckpointsBehind
  <2> QED
    BY <2>1, <2>3 DEF CheckpointsBehind
<1>3. ASSUME NEW j \in Jobs, WriteCheckpoint(j) PROVE CheckpointsBehind'
  <2>1. PICK n \in inflight[j] :
          /\ inflight' = [inflight EXCEPT ![j] = @ \ {n}] /\ UNCHANGED <<iter, ran>>
          /\ \/ ckpt' = ckpt
             \/ ckpt' = [ckpt EXCEPT ![j] = n]
    BY <1>3 DEF WriteCheckpoint
  <2>2. /\ n <= ran[j] /\ UNCHANGED <<iter, ran>>
        /\ \A k \in Jobs : inflight'[k] \subseteq inflight[k] /\ ckpt'[k] \in {ckpt[k], IF k = j THEN n ELSE ckpt[k]}
    BY <2>1 DEF CheckpointsBehind, TypeOK
  <2> QED
    BY <2>2 DEF CheckpointsBehind
<1>4. ASSUME NEW old \in SUBSET Jobs, Prune(old) PROVE CheckpointsBehind'
  <2>1. /\ UNCHANGED <<iter, inflight, ran>>
        /\ \A j \in Jobs : ckpt'[j] \in {0, ckpt[j]}
    BY <1>4 DEF Prune, worker
  <2>2. \A j \in Jobs : ran[j] \in Nat /\ 0 <= ran[j]
    BY DEF TypeOK
  <2> QED
    BY <2>1, <2>2 DEF CheckpointsBehind
<1>5. CASE Crash
  <2>1. \A j \in Jobs : iter'[j] = 0 /\ inflight'[j] = {} /\ ckpt'[j] = ckpt[j] /\ ran'[j] = ran[j]
    BY <1>5 DEF Crash
  <2>2. \A j \in Jobs : 0 <= ran[j]
    BY DEF TypeOK
  <2> QED
    BY <2>1, <2>2 DEF CheckpointsBehind
<1>6. CASE ResumeAll
  <2>1. /\ UNCHANGED <<ckpt, inflight, ran>>
        /\ \A j \in Jobs : iter'[j] \in {iter[j], ckpt[j]}
    BY <1>6 DEF ResumeAll, store
  <2> QED
    BY <2>1 DEF CheckpointsBehind
<1>7. ASSUME NEW f \in Firers,
             FireCap(f) \/ FireBudget(f) \/ EnqueueMem(f)
      PROVE CheckpointsBehind'
  BY <1>1, <1>7 DEF FireCap, FireBudget, EnqueueMem, vars, store,
     worker, startup, history
<1>8. ASSUME NEW j \in Jobs,
             \/ EnqueueRow(j) \/ MarkRunningMem(j) \/ MarkRunningRow(j) \/ Setup(j)
             \/ Finish(j) \/ MarkEndMem(j) \/ MarkEndRow(j) \/ CountTokens(j)
             \/ Report(j) \/ CancelMem(j) \/ CancelRow(j) \/ FailOrphan(j)
      PROVE CheckpointsBehind'
  BY <1>1, <1>8 DEF EnqueueRow, MarkRunningMem, MarkRunningRow, Setup, Finish,
     MarkEndMem, MarkEndRow, CountTokens, Report, CancelMem,
     CancelRow, FailOrphan, vars, store, worker,
     startup, history
<1>9. CASE NewDay
  BY <1>1, <1>9 DEF NewDay, vars, store, worker, startup,
     history
<1>10. ASSUME NEW bad \in SUBSET Jobs, Restart(bad) PROVE CheckpointsBehind'
  BY <1>1, <1>10 DEF Restart, vars, store, worker, startup,
     history
<1>11. CASE UNCHANGED vars
  BY <1>1, <1>11 DEF vars, store, worker, startup, history
<1>12. QED
  BY <1>2, <1>3, <1>4, <1>5, <1>6, <1>7, <1>8, <1>9,
     <1>10, <1>11
  DEF Next, Fire, Work, Recover

\* The iterations jobs executed are a finite set, and a part of them is fewer.
LEMMA ExecutedCount ==
  ASSUME NEW r \in [Jobs -> Nat], NEW b \in Nat, \A j \in Jobs : r[j] <= b,
         NEW S, S \subseteq Jobs, NEW T, T \subseteq UNION {{j} \X (1..r[j]) : j \in S}
  PROVE  /\ IsFiniteSet(T) /\ Cardinality(T) \in Nat
         /\ IsFiniteSet(UNION {{j} \X (1..r[j]) : j \in S})
         /\ Cardinality(T) <= Cardinality(UNION {{j} \X (1..r[j]) : j \in S})
<1>1. \A j \in Jobs : 1..r[j] \subseteq 1..b
  OBVIOUS
<1>2. UNION {{j} \X (1..r[j]) : j \in S} \subseteq Jobs \X (1..b)
  BY <1>1
<1>3. IsFiniteSet(Jobs) /\ IsFiniteSet(1..b)
  <2>1. 1 \in Int /\ MaxJobs \in Int /\ b \in Int
    BY BgAssumption
  <2> QED
    BY <2>1, FS_Interval DEF Jobs
<1>4. IsFiniteSet(UNION {{j} \X (1..r[j]) : j \in S})
  BY <1>2, <1>3, FS_Product, FS_Subset
<1> QED
  BY <1>4, FS_Subset, FS_CardinalityType

\* The number of iterations executed is bounded in a state.
LEMMA ExecutedBounded ==
  ASSUME TypeOK, IterationsPerLife
  PROVE  /\ ran \in [Jobs -> Nat] /\ MaxIterations * (crashes + 1) \in Nat
         /\ \A j \in Jobs : ran[j] <= MaxIterations * (crashes + 1)
  BY BgAssumption DEF TypeOK, IterationsPerLife

\* What the jobs that are over executed stays executed.
LEMMA OverGrows ==
  ASSUME TypeOK, TypeOK', IterationsPerLife', CountedOnce, lost' = {} => lost = {},
         \A j \in Over : j \in Over' \/ ran[j] = 0,
         \A j \in Over : ran'[j] = ran[j], tokens' <= tokens
  PROVE  CountedOnce'
<1> SUFFICES ASSUME lost' = {} PROVE tokens' <= Cardinality(ExecutedBy(Over)')
  BY DEF CountedOnce
<1>1. tokens <= Cardinality(ExecutedBy(Over))
  BY DEF CountedOnce
<1>2. \A j \in Over : 1..ran[j] = 1..ran'[j] /\ (ran[j] = 0 => 1..ran[j] = {})
  OBVIOUS
<1>3. ExecutedBy(Over) \subseteq ExecutedBy(Over)'
  BY <1>2 DEF ExecutedBy
<1>4. Over' \subseteq Jobs
  BY DEF Over
<1>5. /\ ran' \in [Jobs -> Nat] /\ MaxIterations * (crashes' + 1) \in Nat
      /\ \A j \in Jobs : ran'[j] <= MaxIterations * (crashes' + 1)
  <2>1. ran' \in [Jobs -> Nat] /\ crashes' \in Nat
    BY DEF TypeOK
  <2>2. MaxIterations * (crashes' + 1) \in Nat
    <3>1. \A c \in Nat : MaxIterations * (c + 1) \in Nat
      BY BgAssumption
    <3> QED
      BY <2>1, <3>1
  <2> QED
    BY <2>1, <2>2 DEF IterationsPerLife
<1>6. /\ Cardinality(ExecutedBy(Over)) \in Nat
      /\ Cardinality(ExecutedBy(Over)) <= Cardinality(ExecutedBy(Over)')
  BY <1>3, <1>4, <1>5, ExecutedCount DEF ExecutedBy
<1>7. Cardinality(ExecutedBy(Over)') \in Nat
  BY <1>4, <1>5, ExecutedCount DEF ExecutedBy
<1>8. tokens \in Nat /\ tokens' \in Nat
  BY DEF TypeOK
<1> QED
  BY <1>1, <1>6, <1>7, <1>8

\* A job that is counted is over: its row says so before the counters change,
\* and what has no running row is never executed again.
LEMMA CountedStep ==
  TypeOK /\ TypeOK' /\ IterationsPerLife' /\ Fresh /\ Resumable /\ EndWritten /\ CheckpointsBehind
    /\ CountedOnce /\ [Next]_vars => CountedOnce'
<1> SUFFICES ASSUME TypeOK, TypeOK', IterationsPerLife', Fresh, Resumable, EndWritten,
                    CheckpointsBehind, CountedOnce, [Next]_vars
             PROVE  CountedOnce'
  OBVIOUS
<1>1. ASSUME lost \subseteq lost', \A j \in Over : ran'[j] = ran[j], UNCHANGED tokens,
             \A j \in Over : j \in Over' \/ ran[j] = 0
      PROVE  CountedOnce'
  <2>1. tokens' <= tokens /\ (lost' = {} => lost = {})
    BY <1>1 DEF TypeOK
  <2> QED
    BY <1>1, <2>1, OverGrows
<1>2. ASSUME lost \subseteq lost', UNCHANGED <<row, pc, ran, tokens>> PROVE CountedOnce'
  BY <1>1, <1>2 DEF Over
<1>3. ASSUME NEW f \in Firers, EnqueueMem(f) PROVE CountedOnce'
  <2>1. next \in Jobs /\ ran[next] = 0 /\ UNCHANGED <<row, ran, tokens, lost>>
        /\ \A j \in Jobs : j # next => pc'[j] = pc[j]
    BY <1>3 DEF EnqueueMem, Goto, Fresh, TypeOK, Jobs
  <2> QED
    BY <1>1, <2>1 DEF Over
<1>4. ASSUME NEW j \in Jobs, EnqueueRow(j) PROVE CountedOnce'
  <2>1. /\ j \notin Over /\ lost \subseteq lost' /\ UNCHANGED <<ran, tokens>>
        /\ \A k \in Jobs : k # j => pc'[k] = pc[k] /\ row'[k] = row[k]
    BY <1>4 DEF EnqueueRow, Goto, Over, TypeOK
  <2> QED
    BY <1>1, <2>1 DEF Over
<1>5. ASSUME NEW j \in Jobs, MarkRunningMem(j) \/ Setup(j) \/ Finish(j) \/ MarkEndMem(j)
      PROVE CountedOnce'
  <2>1. /\ j \notin Over /\ UNCHANGED <<row, ran, tokens, lost>>
        /\ \A k \in Jobs : k # j => pc'[k] = pc[k]
    BY <1>5 DEF MarkRunningMem, Setup, Finish, MarkEndMem, Goto, Over, TypeOK, store
  <2> QED
    BY <1>1, <2>1 DEF Over
<1>6. ASSUME NEW j \in Jobs, MarkRunningRow(j) \/ MarkEndRow(j) PROVE CountedOnce'
  <2>1. /\ j \notin Over /\ lost \subseteq lost' /\ UNCHANGED <<ran, tokens>>
        /\ \A k \in Jobs : k # j => pc'[k] = pc[k] /\ row'[k] = row[k]
    BY <1>6 DEF MarkRunningRow, MarkEndRow, SetRow, Goto, Over, TypeOK
  <2> QED
    BY <1>1, <2>1 DEF Over
<1>7. ASSUME NEW j \in Jobs, Iterate(j) PROVE CountedOnce'
  <2>1. /\ j \notin Over /\ UNCHANGED <<row, pc, lost, tokens>>
        /\ \A k \in Jobs : k # j => ran'[k] = ran[k]
    BY <1>7 DEF Iterate, Over, TypeOK, store
  <2> QED
    BY <1>1, <2>1 DEF Over
<1>8. ASSUME NEW j \in Jobs, CountTokens(j) PROVE CountedOnce'
  <2>1. /\ pc[j] = "count" /\ pc'[j] = "report" /\ UNCHANGED <<row, ran, lost, crashes>>
        /\ tokens' \in {tokens, tokens + iter[j]} /\ \A k \in Jobs : k # j => pc'[k] = pc[k]
    BY <1>8 DEF CountTokens, Goto, TypeOK, store, history
  <2> SUFFICES ASSUME lost = {} PROVE tokens' <= Cardinality(ExecutedBy(Over)')
    BY <2>1 DEF CountedOnce
  <2>2. j \notin Over /\ Over' = Over \cup {j} /\ Over' \subseteq Jobs
    BY <2>1 DEF Over, EndWritten
  <2> DEFINE A == UNION {{k} \X (1..ran[k]) : k \in Over}
             B == {j} \X (1..ran[j])
             C == UNION {{k} \X (1..ran[k]) : k \in Over'}
  <2>3. C = A \cup B /\ A \cap B = {}
    BY <2>2
  <2>4. /\ ran \in [Jobs -> Nat] /\ \E b \in Nat : \A k \in Jobs : ran[k] <= b
    <3>1. \A c \in Nat : MaxIterations * (c + 1) \in Nat
      BY BgAssumption
    <3>2. crashes' \in Nat /\ MaxIterations * (crashes' + 1) \in Nat
      BY <3>1 DEF TypeOK
    <3> QED
      BY <2>1, <3>2 DEF TypeOK, IterationsPerLife
  <2>5. IsFiniteSet(A) /\ IsFiniteSet(B) /\ Cardinality(A) \in Nat
    <3>1. PICK b \in Nat : \A k \in Jobs : ran[k] <= b
      BY <2>4
    <3>2. Over \subseteq Jobs /\ {j} \subseteq Jobs /\ B = UNION {{k} \X (1..ran[k]) : k \in {j}}
      BY <2>2
    <3>3. IsFiniteSet(A) /\ Cardinality(A) \in Nat
      BY <2>4, <3>1, <3>2, ExecutedCount
    <3>4. IsFiniteSet(B)
      BY <2>4, <3>1, <3>2, ExecutedCount
    <3> QED
      BY <3>3, <3>4
  <2>6. Cardinality(C) = Cardinality(A) + Cardinality(B)
    <3>1. Cardinality(A \cap B) = 0
      BY <2>3, FS_EmptySet
    <3>2. Cardinality(B) \in Nat
      BY <2>5, FS_CardinalityType
    <3> HIDE DEF A, B, C
    <3> QED
      <4>1. Cardinality(A \cup B) = Cardinality(A) + Cardinality(B) - Cardinality(A \cap B)
        BY <2>5, FS_Union
      <4> QED
        BY <2>3, <2>5, <3>1, <3>2, <4>1
  <2>7. Cardinality(B) = ran[j]
    <3>1. ran[j] \in Nat
      BY DEF TypeOK
    <3>2. IsFiniteSet(1..ran[j]) /\ Cardinality(1..ran[j]) = ran[j]
      <4>1. 1 \in Int /\ ran[j] \in Int /\ (1 > ran[j] => ran[j] = 0) /\ ran[j] - 1 + 1 = ran[j]
        BY <3>1
      <4> QED
        BY <4>1, FS_Interval
    <3>3. IsFiniteSet({j}) /\ Cardinality({j}) = 1
      BY FS_Singleton
    <3>4. Cardinality(B) = 1 * ran[j]
      BY <3>2, <3>3, FS_Product, ZenonT(30)
    <3> QED
      BY <3>1, <3>4
  <2>8. tokens <= Cardinality(A) /\ iter[j] <= ran[j]
    BY DEF CountedOnce, CheckpointsBehind, ExecutedBy
  <2>9. tokens \in Nat /\ iter[j] \in Nat /\ ran[j] \in Nat
    BY DEF TypeOK
  <2>10. ExecutedBy(Over)' = C
    BY <2>1 DEF ExecutedBy
  <2> HIDE DEF A, B, C
  <2>11. tokens' <= Cardinality(C)
    BY <2>1, <2>5, <2>6, <2>7, <2>8, <2>9
  <2> QED
    BY <2>10, <2>11
<1>9. ASSUME NEW j \in Jobs, Report(j) PROVE CountedOnce'
  <2>1. pc'[j] = "none" /\ UNCHANGED <<row, ran, tokens, lost>> /\ \A k \in Jobs : k # j => pc'[k] = pc[k]
    BY <1>9 DEF Report, Goto, TypeOK, store
  <2> QED
    BY <1>1, <2>1 DEF Over
<1>10. ASSUME NEW j \in Jobs, WriteCheckpoint(j) \/ CancelMem(j) PROVE CountedOnce'
  BY <1>2, <1>10 DEF WriteCheckpoint, CancelMem, worker
<1>11. ASSUME NEW j \in Jobs, CancelRow(j) \/ FailOrphan(j) PROVE CountedOnce'
  <2>1. /\ lost \subseteq lost' /\ UNCHANGED <<pc, ran, tokens>>
        /\ \A k \in Jobs : row'[k] \in {row[k], "cancelled", "failed"}
    BY <1>11 DEF CancelRow, FailOrphan, SetRow, TypeOK, worker
  <2> QED
    BY <1>1, <2>1 DEF Over
<1>12. ASSUME NEW old \in SUBSET Jobs, Prune(old) PROVE CountedOnce'
  <2>1. UNCHANGED <<pc, ran, tokens, lost>> /\ \A k \in Jobs : row'[k] \in {row[k], "absent"}
    BY <1>12 DEF Prune, worker
  <2> QED
    BY <1>1, <2>1 DEF Over
<1>13. CASE NewDay
  <2>1. tokens' = 0 /\ UNCHANGED <<row, pc, ran, lost>>
    BY <1>13 DEF NewDay, store, worker
  <2>2. tokens' <= tokens
    BY <2>1 DEF TypeOK
  <2> QED
    BY <2>1, <2>2, OverGrows DEF Over
<1>14. CASE Crash
  <2>1. UNCHANGED <<row, ran, tokens, lost>> /\ \A k \in Jobs : pc'[k] = "none"
    BY <1>14 DEF Crash
  <2> QED
    BY <1>1, <2>1 DEF Over
<1>15. ASSUME NEW bad \in SUBSET Jobs, Restart(bad) PROVE CountedOnce'
  BY <1>2, <1>15 DEF Restart, worker
<1>16. CASE ResumeAll
  <2>1. UNCHANGED <<row, ran, tokens, lost>> /\ \A k \in Jobs : k \notin resume => pc'[k] = pc[k]
    BY <1>16 DEF ResumeAll, store
  <2> QED
    BY <1>1, <2>1 DEF Over, Resumable
<1>17. ASSUME NEW f \in Firers, FireCap(f) \/ FireBudget(f) PROVE CountedOnce'
  BY <1>2, <1>17 DEF FireCap, FireBudget, store, worker
<1>18. CASE UNCHANGED vars
  BY <1>2, <1>18 DEF vars, store, worker
<1>19. QED
  BY <1>3, <1>4, <1>5, <1>6, <1>7, <1>8, <1>9, <1>10,
     <1>11, <1>12, <1>13, <1>14, <1>15, <1>16, <1>17, <1>18
  DEF Next, Fire, Work, Recover

\* The calls inside `fire' and the jobs that are live, in numbers.
LEMMA FireCount ==
  ASSUME TypeOK
  PROVE  /\ \A S : S \subseteq Firers => IsFiniteSet(S) /\ Cardinality(S) \in Nat
                                          /\ Cardinality(S) <= Cardinality(Firers)
         /\ \A S : S \subseteq Jobs => IsFiniteSet(S) /\ Cardinality(S) \in Nat
         /\ Cardinality(Firers) \in Nat /\ Cardinality(Firers) >= 1 /\ MaxConcurrent \in Nat
<1>1. IsFiniteSet(Firers) /\ Firers # {} /\ MaxConcurrent \in Nat
  BY BgAssumption
<1>2. IsFiniteSet(Jobs)
  <2>1. 1 \in Int /\ MaxJobs \in Int
    BY BgAssumption
  <2> QED
    BY <2>1, FS_Interval DEF Jobs
<1>3. Cardinality(Firers) \in Nat /\ Cardinality(Firers) # 0
  BY <1>1, FS_CardinalityType, FS_EmptySet
<1>4. Cardinality(Firers) >= 1
  BY <1>3
<1> QED
  BY <1>1, <1>2, <1>3, <1>4, FS_Subset, FS_CardinalityType

\* A job stays queued in the map until its worker marks it, while nobody
\* cancels and nothing crashes.
LEMMA MarkedStep == TypeOK /\ Quiet /\ Fresh /\ Marked /\ [Next]_vars => Marked'
<1> SUFFICES ASSUME TypeOK, Quiet, Fresh, Marked, [Next]_vars PROVE Marked'
  OBVIOUS
<1>1. ASSUME UNCHANGED <<mem, crashes, cancels>>,
             \A j \in Jobs : pc'[j] \in {"insert", "start"} => pc[j] \in {"insert", "start"}
      PROVE Marked'
  BY <1>1 DEF Marked
<1>2. ASSUME crashes' # 0 \/ cancels' # 0 PROVE Marked'
  BY <1>2 DEF Marked
<1>3. ASSUME NEW f \in Firers, EnqueueMem(f) PROVE Marked'
  <2>1. next \in Jobs /\ mem'[next] = "queued" /\ UNCHANGED <<crashes, cancels>>
        /\ \A j \in Jobs : j # next => pc'[j] = pc[j] /\ mem'[j] = mem[j]
    BY <1>3 DEF EnqueueMem, Goto, TypeOK, history
  <2> QED
    BY <2>1 DEF Marked
<1>4. ASSUME NEW j \in Jobs, EnqueueRow(j) PROVE Marked'
  <2>1. UNCHANGED <<mem, crashes, cancels>> /\ pc[j] = "insert"
        /\ \A k \in Jobs : k # j => pc'[k] = pc[k]
    BY <1>4 DEF EnqueueRow, Goto, TypeOK, history
  <2> QED
    BY <1>1, <2>1
<1>5. ASSUME NEW j \in Jobs, MarkRunningMem(j) \/ MarkEndMem(j) PROVE Marked'
  <2>1. /\ UNCHANGED <<crashes, cancels>> /\ pc'[j] \in {"starting", "ended"}
        /\ \A k \in Jobs : k # j => pc'[k] = pc[k] /\ mem'[k] = mem[k]
    BY <1>5 DEF MarkRunningMem, MarkEndMem, SetMem, Goto, TypeOK, history
  <2> QED
    BY <2>1 DEF Marked
<1>6. ASSUME NEW j \in Jobs,
             \/ MarkRunningRow(j) \/ Setup(j) \/ Finish(j) \/ MarkEndRow(j)
             \/ CountTokens(j) \/ Report(j)
      PROVE Marked'
  <2>1. /\ UNCHANGED <<mem, crashes, cancels>>
        /\ pc'[j] \in {"setup", "run", "end", "count", "report", "none"}
        /\ \A k \in Jobs : k # j => pc'[k] = pc[k]
    BY <1>6 DEF MarkRunningRow, Setup, Finish, MarkEndRow, CountTokens, Report, Goto, TypeOK,
       history, store
  <2> QED
    BY <1>1, <2>1
<1>7. ASSUME NEW j \in Jobs, Iterate(j) \/ WriteCheckpoint(j) \/ CancelRow(j) PROVE Marked'
  BY <1>1, <1>7 DEF Iterate, WriteCheckpoint, CancelRow, store, worker, history
<1>8. ASSUME NEW j \in Jobs, CancelMem(j) PROVE Marked'
  BY <1>2, <1>8 DEF CancelMem, TypeOK
<1>9. ASSUME NEW old \in SUBSET Jobs, Prune(old) PROVE Marked'
  <2>1. UNCHANGED <<pc, crashes, cancels>>
        /\ \A j \in Jobs : pc[j] # "none" => mem'[j] = mem[j]
    BY <1>9 DEF Prune, Settled, worker, history
  <2> QED
    BY <2>1 DEF Marked
<1>10. CASE NewDay
  BY <1>1, <1>10 DEF NewDay, store, worker
<1>11. CASE Crash
  BY <1>2, <1>11 DEF Crash, TypeOK
<1>12. ASSUME NEW bad \in SUBSET Jobs, Restart(bad) PROVE Marked'
  <2>1. crashes' = crashes /\ crashes # 0
    BY <1>12 DEF Restart, Quiet, TypeOK, history
  <2> QED
    BY <1>2, <2>1
<1>13. ASSUME NEW j \in Jobs, FailOrphan(j) PROVE Marked'
  <2>1. crashes' = crashes /\ crashes # 0
    BY <1>13 DEF FailOrphan, Quiet, TypeOK, history
  <2> QED
    BY <1>2, <2>1
<1>14. CASE ResumeAll
  <2>1. crashes' = crashes /\ crashes # 0
    BY <1>14 DEF ResumeAll, Quiet, TypeOK, history
  <2> QED
    BY <1>2, <2>1
<1>15. ASSUME NEW f \in Firers, FireCap(f) \/ FireBudget(f) PROVE Marked'
  BY <1>1, <1>15 DEF FireCap, FireBudget, store, worker, history
<1>16. CASE UNCHANGED vars
  BY <1>1, <1>16 DEF vars, store, worker, history
<1>17. QED
  BY <1>3, <1>4, <1>5, <1>6, <1>7, <1>8, <1>9, <1>10,
     <1>11, <1>12, <1>13, <1>14, <1>15, <1>16
  DEF Next, Fire, Work, Recover

\* The cap is overrun by no more than the calls that passed it together: each
\* passes it with one of them to spare.
LEMMA CapStep == TypeOK /\ Quiet /\ Fresh /\ Marked /\ CapOverrun /\ [Next]_vars => CapOverrun'
<1> SUFFICES ASSUME TypeOK, Quiet, Fresh, Marked, CapOverrun, [Next]_vars PROVE CapOverrun'
  OBVIOUS
<1> DEFINE Inside == {f \in Firers : fire[f] # "idle"}
<1>0. ASSUME Active' \subseteq Active, Inside' \subseteq Inside, UNCHANGED <<crashes, cancels>>
      PROVE CapOverrun'
  <2>1. Active \subseteq Jobs /\ Inside \subseteq Firers
    BY DEF Active
  <2>2. IsFiniteSet(Active) /\ IsFiniteSet(Inside)
    BY <2>1, FireCount
  <2>3. Cardinality(Active') <= Cardinality(Active) /\ Cardinality(Inside') <= Cardinality(Inside)
    BY <1>0, <2>2, FS_Subset
  <2>4. /\ Cardinality(Active) \in Nat /\ Cardinality(Inside) \in Nat
        /\ Cardinality(Active') \in Nat /\ Cardinality(Inside') \in Nat
    BY <1>0, <2>1, FireCount
  <2>5. crashes = 0 /\ cancels = 0 => Cardinality(Active) + Cardinality(Inside)
                                       <= MaxConcurrent + Cardinality(Firers) - 1
    BY DEF CapOverrun
  <2> HIDE DEF Inside
  <2>6. crashes' = 0 /\ cancels' = 0 => Cardinality(Active') + Cardinality(Inside')
                                         <= MaxConcurrent + Cardinality(Firers) - 1
    BY <1>0, <2>3, <2>4, <2>5, FireCount
  <2> QED
    BY <2>6 DEF CapOverrun, Inside
<1>1. ASSUME \A j \in Jobs : mem'[j] \in Live => mem[j] \in Live, UNCHANGED <<fire, crashes, cancels>>
      PROVE CapOverrun'
  BY <1>0, <1>1 DEF Active
<1>2. ASSUME crashes' # 0 \/ cancels' # 0 PROVE CapOverrun'
  BY <1>2 DEF CapOverrun
<1>3. ASSUME NEW f \in Firers, FireCap(f) PROVE CapOverrun'
  <2>1. Active' = Active /\ Cardinality(Active) < MaxConcurrent /\ Inside' \subseteq Firers
    BY <1>3 DEF FireCap, Active, store
  <2>2. Cardinality(Active) \in Nat
    BY FireCount DEF Active
  <2>3. Cardinality(Inside') \in Nat /\ Cardinality(Inside') <= Cardinality(Firers)
    BY <2>1, FireCount
  <2> HIDE DEF Inside
  <2>4. Cardinality(Active') + Cardinality(Inside') <= MaxConcurrent + Cardinality(Firers) - 1
    BY <2>1, <2>2, <2>3, FireCount
  <2> QED
    BY <2>4 DEF CapOverrun, Inside
<1>4. ASSUME NEW f \in Firers, FireBudget(f) PROVE CapOverrun'
  <2>1. UNCHANGED <<mem, crashes, cancels>> /\ Inside' \subseteq Inside
    BY <1>4 DEF FireBudget, store, history, TypeOK
  <2> QED
    BY <1>0, <2>1 DEF Active
<1>5. ASSUME NEW f \in Firers, EnqueueMem(f) PROVE CapOverrun'
  <2>1. next \in Jobs /\ mem[next] = "absent" /\ f \in Inside /\ UNCHANGED <<crashes, cancels>>
    BY <1>5 DEF EnqueueMem, Fresh, TypeOK, history, Jobs
  <2>2. Active' = Active \cup {next} /\ next \notin Active /\ Inside' = Inside \ {f}
    BY <1>5, <2>1 DEF EnqueueMem, Active, TypeOK, Live
  <2>3. Active \subseteq Jobs /\ Inside \subseteq Firers
    BY DEF Active
  <2>4. /\ IsFiniteSet(Active) /\ IsFiniteSet(Inside)
        /\ Cardinality(Active) \in Nat /\ Cardinality(Inside) \in Nat
    BY <2>3, FireCount
  <2>5. Cardinality(Active') = Cardinality(Active) + 1 /\ Cardinality(Inside') = Cardinality(Inside) - 1
    <3>1. Cardinality(Active \cup {next}) = Cardinality(Active) + 1
      BY <2>2, <2>4, FS_AddElement
    <3>2. Cardinality(Inside \ {f}) = Cardinality(Inside) - 1
      BY <2>1, <2>4, FS_RemoveElement
    <3> QED
      BY <2>2, <3>1, <3>2
  <2>6. crashes = 0 /\ cancels = 0 => Cardinality(Active) + Cardinality(Inside)
                                       <= MaxConcurrent + Cardinality(Firers) - 1
    BY DEF CapOverrun
  <2> HIDE DEF Inside
  <2>7. crashes' = 0 /\ cancels' = 0 => Cardinality(Active') + Cardinality(Inside')
                                         <= MaxConcurrent + Cardinality(Firers) - 1
    BY <2>1, <2>4, <2>5, <2>6, FireCount
  <2> QED
    BY <2>7 DEF CapOverrun, Inside
<1>6. ASSUME NEW j \in Jobs, MarkRunningMem(j) PROVE CapOverrun'
  <2>1. /\ UNCHANGED <<fire, crashes, cancels>> /\ pc[j] = "start"
        /\ \A k \in Jobs : k # j => mem'[k] = mem[k]
    BY <1>6 DEF MarkRunningMem, SetMem, TypeOK, history
  <2>2. CASE crashes = 0 /\ cancels = 0
    BY <1>1, <2>1, <2>2 DEF Marked, Live
  <2>3. CASE crashes # 0 \/ cancels # 0
    BY <1>2, <2>1, <2>3
  <2> QED
    BY <2>2, <2>3
<1>7. ASSUME NEW j \in Jobs, MarkEndMem(j) PROVE CapOverrun'
  <2>1. /\ UNCHANGED <<fire, crashes, cancels>> /\ mem'[j] \in {mem[j], "done", "failed"}
        /\ \A k \in Jobs : k # j => mem'[k] = mem[k]
    BY <1>7 DEF MarkEndMem, SetMem, EndStatus, TypeOK, history
  <2> QED
    BY <1>1, <2>1 DEF Live
<1>8. ASSUME NEW j \in Jobs,
             \/ EnqueueRow(j) \/ MarkRunningRow(j) \/ Setup(j) \/ Iterate(j) \/ Finish(j)
             \/ MarkEndRow(j) \/ CountTokens(j) \/ Report(j) \/ WriteCheckpoint(j) \/ CancelRow(j)
      PROVE CapOverrun'
  <2>1. UNCHANGED <<mem, fire, crashes, cancels>>
    BY <1>8 DEF EnqueueRow, MarkRunningRow, Setup, Iterate, Finish, MarkEndRow, CountTokens,
       Report, WriteCheckpoint, CancelRow, store, history
  <2> QED
    BY <1>1, <2>1
<1>9. ASSUME NEW j \in Jobs, CancelMem(j) PROVE CapOverrun'
  BY <1>2, <1>9 DEF CancelMem, TypeOK
<1>10. ASSUME NEW old \in SUBSET Jobs, Prune(old) PROVE CapOverrun'
  BY <1>1, <1>10 DEF Prune, Live, history
<1>11. CASE NewDay
  BY <1>1, <1>11 DEF NewDay, store
<1>12. CASE Crash
  BY <1>2, <1>12 DEF Crash, TypeOK
<1>13. ASSUME NEW bad \in SUBSET Jobs, Restart(bad) PROVE CapOverrun'
  <2>1. crashes' = crashes /\ crashes # 0
    BY <1>13 DEF Restart, Quiet, TypeOK, history
  <2> QED
    BY <1>2, <2>1
<1>14. ASSUME NEW j \in Jobs, FailOrphan(j) PROVE CapOverrun'
  <2>1. crashes' = crashes /\ crashes # 0
    BY <1>14 DEF FailOrphan, Quiet, TypeOK, history
  <2> QED
    BY <1>2, <2>1
<1>15. CASE ResumeAll
  <2>1. crashes' = crashes /\ crashes # 0
    BY <1>15 DEF ResumeAll, Quiet, TypeOK, history
  <2> QED
    BY <1>2, <2>1
<1>16. CASE UNCHANGED vars
  BY <1>1, <1>16 DEF vars, store, history
<1>17. QED
  BY <1>3, <1>4, <1>5, <1>6, <1>7, <1>8, <1>9, <1>10,
     <1>11, <1>12, <1>13, <1>14, <1>15, <1>16
  DEF Next, Fire, Work, Recover

\* What was executed and may still be stays within the budgets of the lives.
LEMMA BudgetLife == TypeOK /\ Budgeted => IterationsPerLife
<1> SUFFICES ASSUME TypeOK, Budgeted, NEW j \in Jobs
             PROVE  ran[j] <= MaxIterations * (crashes + 1)
  BY DEF IterationsPerLife
<1>1. /\ ran[j] \in Nat /\ left[j] \in Nat /\ crashes \in Nat
      /\ MaxIterations \in Nat
  BY BgAssumption DEF TypeOK
<1>2. /\ MaxIterations * (crashes + 1) = MaxIterations * crashes + MaxIterations
      /\ MaxIterations * crashes \in Nat
  BY <1>1
<1>3. \/ ran[j] + left[j] <= MaxIterations * (crashes + 1)
      \/ ran[j] <= MaxIterations * crashes
  BY DEF Budgeted
<1> QED
  BY <1>1, <1>2, <1>3

\* The first process starts with an empty catalogue.
LEMMA InitInd == Init => IndInv
<1> SUFFICES ASSUME Init PROVE IndInv
  OBVIOUS
<1>1. TypeOK
  BY BgAssumption DEF Init, NoWorker, TypeOK, Status, Live, PC
<1>2. Quiet /\ Fresh /\ Watched /\ Resumable /\ EndWritten /\ ToldNeverRerun /\ CancelledLate
  BY DEF Init, NoWorker, Quiet, Fresh, Watched, Resumable, EndWritten,
     ToldNeverRerun, CancelledLate
<1>3. Budgeted
  BY BgAssumption DEF Init, NoWorker, Budgeted
<1>4. CheckpointsBehind /\ Marked
  BY DEF Init, NoWorker, CheckpointsBehind, Marked
<1>5. CountedOnce
  <2>1. tokens = 0 /\ TypeOK /\ IterationsPerLife /\ Over \subseteq Jobs
    BY <1>1, <1>3, BudgetLife DEF Init, Over
  <2>2. Cardinality(ExecutedBy(Over)) \in Nat
    BY <2>1, ExecutedBounded, ExecutedCount DEF ExecutedBy
  <2> QED
    BY <2>1, <2>2 DEF CountedOnce
<1>6. CapOverrun
  <2>1. Active = {} /\ {f \in Firers : fire[f] # "idle"} = {}
    BY DEF Init, Active, Live
  <2>2. Cardinality(Active) = 0 /\ Cardinality({f \in Firers : fire[f] # "idle"}) = 0
    BY <2>1, FS_EmptySet
  <2>3. 0 + 0 <= MaxConcurrent + Cardinality(Firers) - 1
    BY <1>1, FireCount
  <2> QED
    BY <2>2, <2>3 DEF CapOverrun
<1> QED
  BY <1>1, <1>2, <1>3, <1>4, <1>5, <1>6 DEF IndInv

\* The invariant is inductive.
LEMMA StepInd == IndInv /\ [Next]_vars => IndInv'
<1>1. (TypeOK /\ Budgeted => IterationsPerLife)'
  BY BudgetLife, PTL
<1> SUFFICES ASSUME IndInv, [Next]_vars PROVE IndInv'
  OBVIOUS
<1>2. TypeOK' /\ Budgeted' /\ IterationsPerLife'
  BY <1>1, TypeStep, BudgetStep DEF IndInv
<1>3. Quiet' /\ Fresh' /\ Watched' /\ Resumable' /\ EndWritten' /\ ToldNeverRerun' /\ CancelledLate'
  BY QuietStep, FreshStep, WatchedStep, ResumableStep, ToldStep, CancelledStep DEF IndInv
<1>4. CheckpointsBehind' /\ CountedOnce' /\ Marked' /\ CapOverrun'
  BY <1>2, BehindStep, CountedStep, MarkedStep, CapStep DEF IndInv
<1> QED
  BY <1>2, <1>3, <1>4 DEF IndInv

\* Every reachable state satisfies the inductive invariant.
THEOREM Inductive == Spec => []IndInv
  BY InitInd, StepInd, PTL DEF Spec

\* Type correctness of the store, the workers and the recovery state.
THEOREM TypeCorrect == Spec => []TypeOK
<1>1. IndInv => TypeOK
  BY DEF IndInv
<1> QED
  BY Inductive, <1>1, PTL

\* The map never shows a running job that nobody is working on, however
\* cancels, refused writes, crashes and restarts interleave.
THEOREM RunningWorked == Spec => []RunningHasWorker
<1>1. IndInv => RunningHasWorker
  BY DEF IndInv, Watched, RunningHasWorker
<1> QED
  BY Inductive, <1>1, PTL

\* A job whose end was sent to Telegram is never executed again.
THEOREM ToldOnce == Spec => []ToldNeverRerun
<1>1. IndInv => ToldNeverRerun
  BY DEF IndInv
<1> QED
  BY Inductive, <1>1, PTL

\* A cancel answered after mark_running survives every restart.
THEOREM CancelDurable == Spec => []CancelSurvivesRestart
<1>1. IndInv => CancelSurvivesRestart
  BY DEF IndInv, CancelledLate, Resumable, CancelSurvivesRestart
<1> QED
  BY Inductive, <1>1, PTL

\* A job executes at most one iteration budget per life of the process.
THEOREM IterationsBounded == Spec => []IterationsPerLife
<1>1. IndInv => IterationsPerLife
  BY BudgetLife DEF IndInv
<1> QED
  BY Inductive, <1>1, PTL

\* Both limits hold as far as they can: the day's tokens are of iterations that
\* were executed, each counted once whatever crashed in between, and the cap on
\* live jobs is passed by no more than the calls that checked it together.
THEOREM SpendingStaysBounded == Spec => []SpendingBounded
<1>1. IndInv => SpendingBounded
  <2> SUFFICES ASSUME IndInv PROVE SpendingBounded
    OBVIOUS
  <2>1. TokensNotOvercounted
    <3> SUFFICES ASSUME lost = {} PROVE tokens <= Cardinality(ExecutedBy(Jobs))
      BY DEF TokensNotOvercounted
    <3>1. tokens <= Cardinality(ExecutedBy(Over)) /\ tokens \in Nat
      BY DEF IndInv, CountedOnce, TypeOK
    <3>2. IterationsPerLife /\ TypeOK
      BY BudgetLife DEF IndInv
    <3>3. /\ ran \in [Jobs -> Nat] /\ MaxIterations * (crashes + 1) \in Nat
          /\ \A j \in Jobs : ran[j] <= MaxIterations * (crashes + 1)
      BY <3>2, ExecutedBounded
    <3>4. ExecutedBy(Over) \subseteq ExecutedBy(Jobs)
      BY DEF ExecutedBy, Over
    <3>5. Cardinality(ExecutedBy(Over)) \in Nat
          /\ Cardinality(ExecutedBy(Over)) <= Cardinality(ExecutedBy(Jobs))
      BY <3>3, <3>4, ExecutedCount DEF ExecutedBy
    <3>6. Cardinality(ExecutedBy(Jobs)) \in Nat
      BY <3>3, ExecutedCount DEF ExecutedBy
    <3> QED
      BY <3>1, <3>5, <3>6
  <2> QED
    BY <2>1 DEF SpendingBounded, IndInv
<1> QED
  BY Inductive, <1>1, PTL
=============================================================================
