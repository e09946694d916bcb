----------------------------- MODULE Scheduler ------------------------------
(***************************************************************************)
(* The scheduler (peko-core/src/scheduler.rs) and its cron expressions     *)
(* (cron.rs).  One loop looks once a minute at every task, runs at most    *)
(* one of those that are due, and sleeps to the next minute.  What it      *)
(* remembers of a run lives in memory only.                                *)
(*                                                                         *)
(* The sleeps follow the monotonic clock and the minutes the wall clock:   *)
(* the phone suspends, the wall clock is set, and the process dies and is  *)
(* restarted, in between.                                                  *)
(***************************************************************************)
EXTENDS Integers, Sequences, FiniteSets

CONSTANTS
  Crons,         \* the cron field of each [[schedule]] entry, in their order
  Enabled,       \* the entries that are enabled
  ToLog,         \* the entries whose notify is the log, not Telegram
  Results,       \* what a run may return: the widths of its characters
  LogCut,        \* where deliver cuts a result, in bytes (200)
  MinuteLen,     \* units of time in a minute (60 s)
  MinSleep,      \* the shortest sleep (55 s)
  MinutesPerHour,\* 60
  MaxTime,       \* bound: units of time
  MaxTroubles    \* bound: crashes and settings of the wall clock

\* The parts of a field: "*", "*/n", a number, a range, a range with a step.
Parts ==
  [kind : {"any"}] \cup [kind : {"every"}, step : Nat] \cup [kind : {"value"}, a : Nat]
    \cup [kind : {"range"}, a : Nat, b : Nat] \cup [kind : {"stepped"}, a : Nat, b : Nat, step : Nat]

ASSUME SchedulerAssumption ==
  /\ Crons \in Seq(Seq(Parts))
  /\ MinuteLen \in Nat \ {0} /\ MinSleep \in 1..MinuteLen
  /\ MinutesPerHour \in Nat \ {0} /\ MaxTime \in Nat /\ MinuteLen <= MaxTime /\ MaxTroubles \in Nat
  /\ LogCut \in Nat
  /\ Enabled \subseteq DOMAIN Crons /\ ToLog \subseteq DOMAIN Crons

Entries == DOMAIN Crons
Minutes == 0..(MaxTime \div MinuteLen)

VARIABLES
  now,       \* the wall clock, in units
  left,      \* units the loop still sleeps
  loop,      \* "down", "asleep", "running", "deliver"
  task,      \* the entry it runs (0: none)
  lastRun,   \* [Entries]: last_run, -1 for None
  result,    \* the text to deliver
  troubles,  \* bound: counts crashes and settings of the clock
  started,   \* history: [Entries -> [Minutes -> Nat]], runs begun
  checked,   \* history: the minutes the loop looked at
  busy,      \* history: the minutes it ran, was down or suspended in, or began in
  panicked   \* history: deliver killed the process

schedVars == <<now, left, loop, task, lastRun, result, troubles, started,
               checked, busy, panicked>>

-----------------------------------------------------------------------------
(* Cron expressions.  A field is a sequence of parts; {} stands for an      *)
(* error.  The fields after the minute are parsed alike and are left at *.  *)

\* parse_range
ParseRange(a, b, min, max) ==
  IF a < min \/ b > max \/ a > b THEN {} ELSE a..b

ParsePart(part, min, max) ==
  CASE part.kind = "any"     -> min..max
    [] part.kind = "every"   -> IF part.step = 0 THEN {}
                                ELSE {min + k * part.step : k \in 0..(max - min)}
                                       \cap (min..max)
    [] part.kind = "stepped" -> LET range == ParseRange(part.a, part.b, min, max)
                                IN  IF part.step = 0 THEN {}
                                    ELSE {v \in range : (v - part.a) % part.step = 0}
    [] part.kind = "range"   -> ParseRange(part.a, part.b, min, max)
    [] part.kind = "value"   -> {part.a} \cap (min..max)

\* Mutant of ParseField: a bad part is skipped.
ParseFieldLenient(field, min, max) ==
  UNION {ParsePart(field[i], min, max) : i \in DOMAIN field}

\* parse_field: one bad part and the expression is invalid.
ParseField(field, min, max) ==
  IF \E i \in DOMAIN field : ParsePart(field[i], min, max) = {}
  THEN {} ELSE UNION {ParsePart(field[i], min, max) : i \in DOMAIN field}

\* Scheduler::new disables an entry whose expression is invalid.
Registered == {i \in Enabled : ParseField(Crons[i], 0, MinutesPerHour - 1) # {}}

MinuteOf(t) == t \div MinuteLen
SecondOf(t) == t % MinuteLen

\* matches_now
Matches(i, t) ==
  MinuteOf(t) % MinutesPerHour \in ParseField(Crons[i], 0, MinutesPerHour - 1)

-----------------------------------------------------------------------------
SchedTypeOK ==
  /\ now \in 0..MaxTime /\ left \in 0..(MinuteLen + MinSleep)
  /\ loop \in {"down", "asleep", "running", "deliver"}
  /\ task \in Entries \cup {0}
  /\ lastRun \in [Entries -> Minutes \cup {-1}]
  /\ result \in Results \cup {<<>>}
  /\ troubles \in 0..MaxTroubles
  /\ started \in [Entries -> [Minutes -> Nat]]
  /\ checked \subseteq Minutes /\ busy \subseteq Minutes
  /\ panicked \in BOOLEAN

\* Mutant of UntilNextMinute: a minute too much.
UntilNextMinuteOver(t) == 2 * MinuteLen - SecondOf(t)

\* run first sleeps to the start of the next minute.
UntilNextMinute(t) == MinuteLen - SecondOf(t)


\* The sleep after a check: to the next minute, but not much less than one.
SleepAfter(t) ==
  IF UntilNextMinute(t) > MinSleep THEN UntilNextMinute(t) ELSE MinSleep

SchedInit ==
  /\ now \in 0..(MinuteLen - 1)
  /\ left = UntilNextMinute(now) /\ loop = "asleep" /\ task = 0
  /\ lastRun = [i \in Entries |-> -1]
  /\ result = <<>> /\ troubles = 0 /\ panicked = FALSE
  /\ started = [i \in Entries |-> [m \in Minutes |-> 0]]
  /\ checked = {} /\ busy = {0}

-----------------------------------------------------------------------------
(* Time                                                                    *)

\* A unit passes.  A check does not take one.
Pass ==
  /\ now < MaxTime
  /\ loop = "asleep" => left > 0
  /\ now' = now + 1
  /\ left' = IF loop = "asleep" THEN left - 1 ELSE left
  /\ busy' = IF loop = "asleep" THEN busy ELSE busy \cup {MinuteOf(now')}
  /\ UNCHANGED <<loop, task, lastRun, result, troubles, started, checked,
                 panicked>>

\* The phone suspends: the wall clock goes on and the sleep does not.
Suspend ==
  /\ \E later \in (now + 1)..MaxTime :
       /\ now' = later
       /\ busy' = busy \cup (MinuteOf(now)..MinuteOf(later))
  /\ UNCHANGED <<left, loop, task, lastRun, result, troubles, started,
                 checked, panicked>>

\* The wall clock is set back, by less than a minute.
SetBack ==
  /\ troubles < MaxTroubles
  /\ troubles' = troubles + 1
  /\ \E earlier \in 0..(now - 1) : now - earlier < MinuteLen /\ now' = earlier
  /\ UNCHANGED <<left, loop, task, lastRun, result, started, checked, busy,
                 panicked>>

-----------------------------------------------------------------------------
(* check_and_run                                                           *)

\* Mutant of Due: what ran in this minute is due all the same.
DueAgain(t) == {i \in Registered : Matches(i, t)}

Due(t) ==
  {i \in Registered : Matches(i, t) /\ lastRun[i] # MinuteOf(t)}

First(S) == CHOOSE i \in S : \A j \in S : i <= j

\* Mutant of Check: the loop looks at the first enabled entry only.
CheckFirst ==
  /\ loop = "asleep" /\ left = 0
  /\ checked' = checked \cup {MinuteOf(now)}
  /\ IF Due(now) # {} /\ First(Enabled) \in Due(now)
     THEN LET i == First(Enabled) IN
          /\ task' = i
          /\ lastRun' = [lastRun EXCEPT ![i] = MinuteOf(now)]
          /\ started' = [started EXCEPT ![i][MinuteOf(now)] = @ + 1]
          /\ busy' = busy \cup {MinuteOf(now)}
          /\ loop' = "running" /\ UNCHANGED left
     ELSE left' = SleepAfter(now)
          /\ UNCHANGED <<loop, task, lastRun, started, busy>>
  /\ UNCHANGED <<now, result, troubles, panicked>>

\* The first due entry is marked and run, the others of the minute are not; no
\* entry due, the loop sleeps.
Check ==
  /\ loop = "asleep" /\ left = 0
  /\ checked' = checked \cup {MinuteOf(now)}
  /\ IF Due(now) # {}
     THEN LET i == First(Due(now)) IN
          /\ task' = i
          /\ lastRun' = [lastRun EXCEPT ![i] = MinuteOf(now)]
          /\ started' = [started EXCEPT ![i][MinuteOf(now)] = @ + 1]
          /\ busy' = busy \cup {MinuteOf(now)}
          /\ loop' = "running" /\ UNCHANGED left
     ELSE left' = SleepAfter(now)
          /\ UNCHANGED <<loop, task, lastRun, started, busy>>
  /\ UNCHANGED <<now, result, troubles, panicked>>

\* The agent returns: its result or its error is stored under the lock, which
\* is then held while the text is delivered.
Finish ==
  /\ loop = "running"
  /\ loop' = "deliver"
  /\ result' \in Results
  /\ UNCHANGED <<now, left, task, lastRun, troubles, started, checked, busy,
                 panicked>>

\* The bytes before and up to the end of each character.
Boundaries(text) ==
  LET end[i \in 0..Len(text)] == IF i = 0 THEN 0 ELSE end[i - 1] + text[i]
  IN  {end[i] : i \in 0..Len(text)}

Bytes(text) == CHOOSE n \in Boundaries(text) : \A m \in Boundaries(text) : m <= n

\* Slicing a string inside a character panics.
CutPanics(text) == Bytes(text) > LogCut /\ LogCut \notin Boundaries(text)

\* deliver, for Telegram or for the log; the latter logs the first bytes.
Deliver ==
  /\ loop = "deliver"
  /\ task \in ToLog => ~CutPanics(result)
  /\ loop' = "asleep" /\ task' = 0 /\ result' = <<>>
  /\ left' = SleepAfter(now)
  /\ UNCHANGED <<now, lastRun, troubles, started, checked, busy, panicked>>

\* The process goes down, and with it what the loop remembers.
GoDown ==
  /\ troubles < MaxTroubles
  /\ troubles' = troubles + 1
  /\ loop' = "down" /\ task' = 0 /\ result' = <<>> /\ left' = 0
  /\ lastRun' = [i \in Entries |-> -1]
  /\ busy' = busy \cup {MinuteOf(now)}
  /\ UNCHANGED <<now, started, checked>>

\* A panic aborts the process (panic = "abort", Cargo.toml).
Panic ==
  /\ loop = "deliver" /\ task \in ToLog /\ CutPanics(result)
  /\ GoDown
  /\ panicked' = TRUE

Crash == loop # "down" /\ GoDown /\ UNCHANGED panicked

Start ==
  /\ loop = "down"
  /\ loop' = "asleep" /\ left' = UntilNextMinute(now)
  /\ busy' = busy \cup {MinuteOf(now)}
  /\ UNCHANGED <<now, task, lastRun, result, troubles, started, checked,
                 panicked>>

SchedNext ==
  \/ Pass \/ Suspend \/ SetBack
  \/ Check \/ Finish \/ Deliver
  \/ Panic \/ Crash \/ Start

SchedSpec == SchedInit /\ [][SchedNext]_schedVars

-----------------------------------------------------------------------------
\* No entry runs twice in a minute ("Prevent running same task twice in the same
\* minute", scheduler.rs:162), although last_run does not survive a restart and
\* the wall clock may be set back, as long as only one of the two happened and
\* once: a restart and then a clock that is set back run a minute again. And the
\* loop does not drift past one: it looked at every minute that passed while it
\* slept, was not suspended and was not down.
EachMinuteOnce ==
  /\ troubles <= 1 => \A i \in Entries, m \in Minutes : started[i][m] <= 1
  /\ \A m \in Minutes : m < MinuteOf(now) => m \in checked \cup busy

\* An entry matches as its expression says, taken as arithmetic on the minute.
Described(part, v) ==
  CASE part.kind = "any"     -> TRUE
    [] part.kind = "every"   -> v % part.step = 0
    [] part.kind = "stepped" -> \E k \in 0..v : v = part.a + k * part.step /\ v <= part.b
    [] part.kind = "range"   -> part.a <= v /\ v <= part.b
    [] part.kind = "value"   -> v = part.a
WellFormed(part) ==
  /\ part.kind \in {"every", "stepped"} => part.step > 0
  /\ part.kind \in {"range", "stepped"} => 0 <= part.a /\ part.a <= part.b
                                             /\ part.b < MinutesPerHour
  /\ part.kind = "value" => part.a \in 0..(MinutesPerHour - 1)
IsDue(i, m) ==
  /\ i \in Enabled
  /\ \A k \in DOMAIN Crons[i] : WellFormed(Crons[i][k])
  /\ \E k \in DOMAIN Crons[i] : Described(Crons[i][k], m % MinutesPerHour)

\* What runs was due, and what was due in a minute the loop looked at ran, unless
\* an entry before it ran in that minute: of two entries due in the same minute
\* the later one is dropped, not put off.
RunsWhatIsDue ==
  \A i \in Entries, m \in Minutes :
    /\ started[i][m] > 0 => IsDue(i, m)
    /\ m \in checked /\ IsDue(i, m) =>
         \E j \in Entries : j <= i /\ started[j][m] > 0

\* What is due runs, once, and nothing else does.
ScheduleKept == EachMinuteOnce /\ RunsWhatIsDue

\* "Main scheduler loop - runs forever" (scheduler.rs:134).
RunsForever == ~panicked
=============================================================================
