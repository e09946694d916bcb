------------------------------ MODULE Memories ------------------------------
(***************************************************************************)
(* The memory store (memory.rs) with those who write it: the memory tool,  *)
(* the reflector (reflector.rs) after every task, the prompt of every task *)
(* (build_context) and, once a day, the gardener (gardener.rs).            *)
(*                                                                         *)
(* Time is counted in days, and only how long ago something was matters:   *)
(* ages stop counting when they are past every limit.  Every operation     *)
(* holds the store's lock.  Importance is in hundredths, rounded down.     *)
(***************************************************************************)
EXTENDS Integers, Sequences, FiniteSets, SequencesExt

CONSTANTS
  Keys,         \* the keys of memories that are told apart
  Given,        \* importances the model may give
  DecayAge, DecayFactor,             \* GardenerConfig
  PruneAge, PruneMinImportance

ASSUME MemoriesAssumption ==
  /\ Given \subseteq Nat /\ DecayAge \in Nat /\ DecayFactor \in 0..99
  /\ PruneAge \in Nat /\ PruneMinImportance \in 1..100

VARIABLES
  memory,    \* [Keys]: the row, or None
  gardened,  \* the pass of this day is over
  forgotten  \* history: what the last pass deleted: [key, row]

memVars == <<memory, gardened, forgotten>>

Oldest == PruneAge + DecayAge + 1
Never == Oldest + 1    \* accessed_at IS NULL
Categories == {"fact", "skill", "reflection"}
None == [stored |-> FALSE]
Rows == [stored : {TRUE}, category : Categories, importance : Nat,
         born : 0..Oldest, touched : 0..Never, hits : BOOLEAN]

MemoriesTypeOK ==
  /\ memory \in [Keys -> Rows \cup {None}]
  /\ gardened \in BOOLEAN
  /\ forgotten \subseteq [key : Keys, row : Rows]

MemoriesInit ==
  /\ memory = [k \in Keys |-> None] /\ gardened = FALSE /\ forgotten = {}

Stored == {k \in Keys : memory[k] # None}

\* save: an upsert on the key; the row keeps the age and the hits it had.
Save(k, category, importance) ==
  memory' = [memory EXCEPT ![k] =
    IF k \in Stored
    THEN [@ EXCEPT !.category = category, !.importance = importance, !.touched = 0]
    ELSE [stored |-> TRUE, category |-> category, importance |-> importance,
          born |-> 0, touched |-> Never, hits |-> FALSE]]

\* MemoryCategory::from_str: what the model may call a category and is none.
FromStrVerbatim(name) == name   \* a slip, for the mutant of the run
FromStr(name) == IF name \in Categories THEN name ELSE "fact"

ToolSaves ==
  /\ \E k \in Keys, c \in Categories \cup {"plan"}, i \in Given : Save(k, FromStr(c), i)
  /\ UNCHANGED <<gardened, forgotten>>

\* search, from the tool or for a prompt: whatever matches, up to the limit,
\* counts as used.  A query that the index cannot parse finds nothing.
Search ==
  /\ \E found \in SUBSET Stored :
       memory' = [k \in Keys |-> IF k \in found THEN [memory[k] EXCEPT !.touched = 0, !.hits = TRUE]
                                 ELSE memory[k]]
  /\ UNCHANGED <<gardened, forgotten>>

Delete ==
  /\ \E k \in Stored : memory' = [memory EXCEPT ![k] = None]
  /\ UNCHANGED <<gardened, forgotten>>

-----------------------------------------------------------------------------
(* The reflector.                                                          *)

OutcomeImportance == [went_well |-> 30, partial |-> 50, failed |-> 80]

\* extract_first_json_object: characters are [open, close, quote, slash: is it
\* that one; bytes: how long].  The search for the first brace gives a byte,
\* the loop skips as many characters; result: characters of the object, or 0.
ByteOf(s, i) == FoldLeft(LAMBDA a, c : a + c.bytes, 0, SubSeq(s, 1, i - 1))
Step(st, c) ==
  IF st.end # 0 THEN st
  ELSE LET n == [st EXCEPT !.pos = @ + 1] IN
       IF st.escaped THEN [n EXCEPT !.escaped = FALSE]
       ELSE IF c.kind = "slash" /\ st.quoted THEN [n EXCEPT !.escaped = TRUE]
       ELSE IF c.kind = "quote" THEN [n EXCEPT !.quoted = ~@]
       ELSE IF st.quoted \/ c.kind = "text" THEN n
       ELSE IF c.kind = "open" THEN [n EXCEPT !.depth = @ + 1]
       ELSE IF st.depth = 0 THEN [n EXCEPT !.end = -1]   \* below zero for good
       ELSE IF st.depth = 1 THEN [n EXCEPT !.end = n.pos, !.depth = 0]
       ELSE [n EXCEPT !.depth = @ - 1]
ObjectEnd(s) ==
  LET opens == {i \in DOMAIN s : s[i].kind = "open"}
      first == CHOOSE i \in opens : \A j \in opens : i <= j
      skipped == ByteOf(s, first)
      rest == SubSeq(s, skipped + 1, Len(s))
  IN IF opens = {} THEN 0
     ELSE LET end == FoldLeft(Step, [pos |-> skipped, depth |-> 0, quoted |-> FALSE,
                                     escaped |-> FALSE, end |-> 0], rest).end
          IN IF end = -1 THEN 0 ELSE end

\* Behind text of one-byte characters the object is found whole; behind others
\* the scan starts too late and may find nothing.
Char(kind, bytes) == [kind |-> kind, bytes |-> bytes]
Object == <<Char("open", 1), Char("quote", 1), Char("close", 1), Char("quote", 1), Char("close", 1)>>
ASSUME ObjectFound ==
  /\ \A n \in 0..3 : ObjectEnd([i \in 1..n |-> Char("text", 1)] \o Object) = n + Len(Object)
  /\ ObjectEnd(<<Char("text", 3)>> \o Object) = 0

\* reflect: one call to the model; an answer that is no JSON is dropped, one
\* without a known outcome is partial.  The key is the session's.
Reflect ==
  /\ \E k \in Keys, o \in DOMAIN OutcomeImportance : Save(k, "reflection", OutcomeImportance[o])
  /\ UNCHANGED <<gardened, forgotten>>

-----------------------------------------------------------------------------
(* The gardener.                                                           *)

DecayedTouched(row) ==   \* a slip: a row without a time is left alone
  IF row.touched > DecayAge /\ row.touched # Never /\ row.category # "skill"
  THEN [row EXCEPT !.importance = (@ * DecayFactor) \div 100]
  ELSE row

Decayed(row) ==
  IF row.touched > DecayAge /\ row.category # "skill"
  THEN [row EXCEPT !.importance = (@ * DecayFactor) \div 100]
  ELSE row

Prunable(row) ==
  /\ row.born > PruneAge /\ ~row.hits
  /\ row.importance < PruneMinImportance /\ row.category # "skill"

\* run_once: decay, then prune.
Garden(rows) ==
  [k \in Keys |-> IF rows[k] = None THEN None
                  ELSE IF Prunable(Decayed(rows[k])) THEN None ELSE Decayed(rows[k])]
GardenerPass ==
  /\ ~gardened /\ gardened' = TRUE
  /\ memory' = Garden(memory)
  /\ forgotten' = {[key |-> k, row |-> memory[k]] : k \in {k \in Stored : memory'[k] = None}}

\* A day goes by; at six o'clock the process may be down, or its minute loop
\* may be late.
Older(age) == IF age < Oldest THEN age + 1 ELSE age
NextDay ==
  /\ gardened' = FALSE
  /\ memory' = [k \in Keys |-> IF memory[k] = None THEN None
       ELSE [memory[k] EXCEPT !.born = Older(@),
                              !.touched = IF @ = Never THEN Never ELSE Older(@)]]
  /\ forgotten' = {}

MemoriesNext ==
  ToolSaves \/ Search \/ Delete \/ Reflect \/ GardenerPass \/ NextDay

-----------------------------------------------------------------------------
\* The store does not grow without bound: a memory that no search has ever
\* found and that is no skill goes in the end, unless it is saved again and
\* again.  Times are missing (NULL) in rows that were never touched; gardener.rs
\* relies on its SQL treating those as old.
Unused(k) == k \in Stored /\ ~memory[k].hits /\ memory[k].category # "skill"
UnusedForgotten ==
  \A k \in Keys : []<>(~Unused(k) \/ memory[k].touched = 0 \/ memory[k].born = 0)

\* And the gardener takes nothing that was ever found, is a skill, or is young.
UsedKept ==
  \A f \in forgotten : ~f.row.hits /\ f.row.category # "skill" /\ f.row.born > PruneAge
=============================================================================
