---------------------------- MODULE EventJournal ----------------------------
(***************************************************************************)
(* The journal of streaming events: one table that the bridge services     *)
(* append to (EventStore.kt) and the agent polls (events_tool.rs), each    *)
(* poll asking for what is newer than the newest it has seen.              *)
(* Times are milliseconds of the wall clock; two events may share one.       *)
(***************************************************************************)
EXTENDS Integers, Sequences, FiniteSets, FiniteSetsExt

CONSTANTS
  MaxRows,     \* bound: events appended
  LastSecond,  \* bound: the clock
  Retention,   \* events older than this are pruned on append
  Recent,      \* how far back the first poll looks
  PollLimit    \* events one poll may return

ASSUME JournalAssumption ==
  /\ MaxRows \in Nat /\ LastSecond \in Nat /\ Retention \in Nat /\ Recent \in Nat
  /\ PollLimit \in Nat \ {0}

VARIABLES
  clock,     \* the wall clock
  events,    \* the events in the table: [id, ts]
  appended,  \* how many were
  cursor,    \* latest_ts of the last poll (-1: none yet)
  got,       \* [ids]: how often the poller got each row
  tied       \* history: events at or before the cursor when it passed them by:
             \* they share the cursor's time, or the clock was set back

journalVars == <<clock, events, appended, cursor, got, tied>>

Ids == 1..MaxRows
Row(id, ts) == [id |-> id, ts |-> ts]

JournalTypeOK ==
  /\ clock \in 0..LastSecond
  /\ events \subseteq [id : Ids, ts : 0..LastSecond]
  /\ appended \in 0..MaxRows
  /\ cursor \in -1..LastSecond
  /\ got \in [Ids -> Nat] /\ tied \subseteq Ids

JournalInit ==
  /\ clock = 0 /\ events = {} /\ appended = 0 /\ cursor = -1
  /\ got = [i \in Ids |-> 0] /\ tied = {}

\* append: the row, then the pruning.
AppendEvent ==
  /\ appended < MaxRows
  /\ appended' = appended + 1
  /\ events' = {r \in events \cup {Row(appended + 1, clock)} : r.ts >= clock - Retention}
  /\ tied' = IF clock <= cursor THEN tied \cup {appended + 1} ELSE tied
  /\ UNCHANGED <<clock, cursor, got>>

\* A slip: the newest events first.
SelectionsNewest(since) ==
  LET newer == {r \in events : r.ts > since}
  IN {s \in SUBSET newer :
        /\ Cardinality(s) = IF Cardinality(newer) < PollLimit THEN Cardinality(newer) ELSE PollLimit
        /\ \A r \in s, q \in newer \ s : r.ts >= q.ts}

\* SELECT ... WHERE ts > since ORDER BY ts ASC LIMIT n: with equal times the
\* order is up to the database.
Selections(since) ==
  LET newer == {r \in events : r.ts > since}
  IN {s \in SUBSET newer :
        /\ Cardinality(s) = IF Cardinality(newer) < PollLimit THEN Cardinality(newer) ELSE PollLimit
        /\ \A r \in s, q \in newer \ s : r.ts <= q.ts}

\* The tool is called without since_ts first, and with its own latest_ts then.
CollectEvents ==
  LET since == IF cursor = -1 THEN clock - Recent ELSE cursor IN
  \E page \in Selections(since) :
    LET latest == Max({since, 0} \cup {r.ts : r \in page}) IN
    /\ got' = [i \in Ids |-> IF \E r \in page : r.id = i THEN got[i] + 1 ELSE got[i]]
    /\ cursor' = latest
    /\ tied' = tied \cup {r.id : r \in {q \in events \ page : q.ts = latest /\ got[q.id] = 0}}
                    \cup {r.id : r \in {q \in events : cursor = -1 /\ q.ts <= since}}
    /\ UNCHANGED <<clock, events, appended>>

ClockAdvances == clock < LastSecond /\ clock' = clock + 1 /\ UNCHANGED <<events, appended, cursor, got, tied>>
ClockSetBack == clock > 0 /\ clock' = clock - 1 /\ UNCHANGED <<events, appended, cursor, got, tied>>

JournalNext == CollectEvents \/ ClockAdvances \/ ClockSetBack

\* The poller gets no row twice, and none is left behind its cursor but the
\* named ones: events of the very millisecond at which a page ended, and events
\* written with the clock set back behind the cursor.
EveryEventOnce ==
  \A i \in Ids :
    /\ got[i] <= 1
    /\ \A r \in events : r.id = i /\ r.ts <= cursor => got[i] = 1 \/ i \in tied
=============================================================================
