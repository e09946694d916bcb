--------------------------- MODULE KnowledgeFiles ---------------------------
(***************************************************************************)
(* The two stores of knowledge that keep files: skills (skills.rs, through *)
(* skills_tool.rs), one markdown file each with a copy in memory, and the  *)
(* notebook (notebook.rs, through brain_tool.rs), rows and links in SQLite *)
(* with a markdown copy.  Both are written step by step, without a         *)
(* transaction, and the process may die or the disk refuse in between.     *)
(* What the next start reads must be what was there before.                *)
(***************************************************************************)
EXTENDS Naturals, Sequences, FiniteSets, SequencesExt

CONSTANTS
  Skills,           \* names of skills
  FileOf,           \* [Skills -> Files]: sanitize_filename, which is not injective
  Dashed,           \* skills with "---" in what comes before the steps
  Notes,            \* slugs of notes
  MaxWrites,        \* bound: writes of either store
  MaxDisturbances   \* bound: deaths and refused writes

\* A skill and a note are told apart, whatever they are called.
ASSUME KnowledgeAssumption ==
  /\ Dashed \subseteq Skills /\ DOMAIN FileOf = Skills
  /\ Skills \cap Notes = {} /\ "none" \notin Notes
  /\ MaxWrites \in Nat /\ MaxDisturbances \in Nat

VARIABLES
  skills,        \* [Skills]: the copy in memory: version, or 0
  files,         \* [Files]: [name, version], Missing or Torn
  torn,           \* a skill file that is cut and not yet filled: [file, was, now] or Nothing
  written,       \* [Notes]: version of the row, or 0
  links,         \* [Notes]: the rows of note_links with this source
  pages,         \* [Notes]: version of the markdown copy (0: missing)
  saving,        \* the note being saved, or Nothing
  saveStep,      \* and where: "links", "insert", "page", "fill"
  writes,        \* counts the writes; each is a version
  excused,       \* skills and notes that a mishap or another skill has touched
  disturbances   \* bound: counts the mishaps

knowVars == <<skills, files, torn, written, links, pages, saving, saveStep, writes, excused, disturbances>>
skillVars == <<skills, files, torn>>
bookVars == <<written, links, pages, saving, saveStep>>

Files == {FileOf[n] : n \in Skills}
Missing == [name |-> "missing"]
Torn == [name |-> "torn"]
Nothing == [name |-> "nothing"]
NoNote == "none"
Garbled == MaxWrites + 1     \* version of a skill with other steps
TornPage == MaxWrites + 1

KnowTypeOK ==
  /\ skills \in [Skills -> 0..Garbled]
  /\ \A f \in Files : files[f] \in {Missing, Torn} \cup [name : Skills, version : 1..MaxWrites + 1]
  /\ torn = Nothing \/ (torn.file \in Files /\ torn.name \in Skills)
  /\ written \in [Notes -> 0..MaxWrites] /\ links \in [Notes -> SUBSET Notes]
  /\ pages \in [Notes -> 0..TornPage]
  /\ saving \in Notes \cup {NoNote} /\ saveStep \in {"links", "insert", "page", "fill"}
  /\ writes \in 0..MaxWrites /\ excused \subseteq Skills \cup Notes /\ disturbances \in 0..MaxDisturbances

KnowInit ==
  /\ skills = [n \in Skills |-> 0] /\ files = [f \in Files |-> Missing] /\ torn = Nothing
  /\ written = [n \in Notes |-> 0] /\ links = [n \in Notes |-> {}] /\ pages = [n \in Notes |-> 0]
  /\ saving = NoNote /\ saveStep = "links" /\ writes = 0 /\ excused = {} /\ disturbances = 0

Write == writes < MaxWrites /\ writes' = writes + 1
Disturbance == disturbances < MaxDisturbances /\ disturbances' = disturbances + 1

-----------------------------------------------------------------------------
(* Skills.  torn.was is what the copy in memory goes back to if the write   *)
(* is refused: nothing for a new skill, the new steps for one that is       *)
(* improved (memory is changed first).                                      *)

Neighbours(n) == {m \in Skills \ {n} : FileOf[m] = FileOf[n]}
InFile(n) == files[FileOf[n]] \notin {Missing, Torn} /\ files[FileOf[n]].name # n

\* save_to_disk: the file is cut.
Cut(n, was, now) ==
  /\ files' = [files EXCEPT ![FileOf[n]] = Torn]
  /\ torn' = [file |-> FileOf[n], name |-> n, was |-> was, now |-> now]
  /\ excused' = IF InFile(n) THEN (excused \ {n}) \cup {m \in Neighbours(n) : skills[m] # 0}
                ELSE excused \ {n}

\* create: the file first; whatever skill had the name starts anew.
Create(n) ==
  /\ torn = Nothing /\ Write
  /\ Cut(n, skills[n], writes + 1)
  /\ UNCHANGED <<skills, bookVars, disturbances>>

\* improve, record_outcome: memory first.
Improve(n) ==
  /\ torn = Nothing /\ skills[n] # 0 /\ Write
  /\ skills' = [skills EXCEPT ![n] = writes + 1]
  /\ Cut(n, writes + 1, writes + 1)
  /\ UNCHANGED <<bookVars, disturbances>>

Filled ==
  /\ torn # Nothing /\ torn' = Nothing
  /\ files' = [files EXCEPT ![torn.file] = [name |-> torn.name, version |-> torn.now]]
  /\ skills' = [skills EXCEPT ![torn.name] = torn.now]
  /\ UNCHANGED <<bookVars, writes, excused, disturbances>>

\* The disk refuses: the tool reports it, the file stays torn.
Refused ==
  /\ torn # Nothing /\ Disturbance /\ torn' = Nothing
  /\ skills' = [skills EXCEPT ![torn.name] = torn.was]
  /\ excused' = excused \cup {torn.name}
  /\ UNCHANGED <<files, bookVars, writes>>

DeleteSkillOnly(n) ==   \* a slip: the file is forgotten
  /\ torn = Nothing /\ skills[n] # 0
  /\ skills' = [skills EXCEPT ![n] = 0]
  /\ UNCHANGED <<files, torn, bookVars, writes, excused, disturbances>>

\* delete: the file goes too, whosever it is by now; if that fails nobody is told.
DeleteSkill(n) ==
  /\ torn = Nothing /\ skills[n] # 0
  /\ skills' = [skills EXCEPT ![n] = 0]
  /\ \/ /\ files' = [files EXCEPT ![FileOf[n]] = Missing] /\ disturbances' = disturbances
        /\ excused' = IF InFile(n) THEN excused \cup Neighbours(n) ELSE excused
     \/ Disturbance /\ files' = files /\ excused' = excused \cup {n}
  /\ UNCHANGED <<torn, bookVars, writes>>

\* open and from_markdown: the file is split at "---" twice; one that has it
\* earlier yields a skill with other steps and no counts.
Loaded(n) ==
  IF files[FileOf[n]] \in {Missing, Torn} \/ InFile(n) THEN 0
  ELSE IF n \in Dashed THEN Garbled ELSE files[FileOf[n]].version

-----------------------------------------------------------------------------
(* The notebook.                                                            *)

\* What the text of a version links to: any set, the same whenever asked.
LinksOf(n, v) == {m \in Notes : v % 2 = 0 \/ m = n}

\* save: row, links, page; each statement is its own transaction.
SaveRow(n) ==
  /\ saving = NoNote /\ Write
  /\ written' = [written EXCEPT ![n] = writes + 1] /\ saving' = n /\ saveStep' = "links"
  /\ UNCHANGED <<skillVars, links, pages, excused, disturbances>>
DropLinks ==
  /\ saving # NoNote /\ saveStep = "links" /\ saveStep' = "insert"
  /\ links' = [links EXCEPT ![saving] = {}]
  /\ UNCHANGED <<skillVars, written, pages, saving, writes, excused, disturbances>>
InsertLink ==
  /\ saving # NoNote /\ saveStep = "insert"
  /\ LET missing == LinksOf(saving, written[saving]) \ links[saving] IN
     \/ \E m \in missing : links' = [links EXCEPT ![saving] = @ \cup {m}] /\ saveStep' = saveStep
     \/ missing = {} /\ saveStep' = "page" /\ links' = links
  /\ UNCHANGED <<skillVars, written, pages, saving, writes, excused, disturbances>>
CutPage ==
  /\ saving # NoNote /\ saveStep = "page" /\ saveStep' = "fill"
  /\ pages' = [pages EXCEPT ![saving] = TornPage]
  /\ UNCHANGED <<skillVars, written, links, saving, writes, excused, disturbances>>
FillPage ==
  /\ saving # NoNote /\ saveStep = "fill" /\ saving' = NoNote /\ saveStep' = saveStep
  /\ pages' = [pages EXCEPT ![saving] = written[saving]]
  /\ excused' = excused \ {saving}
  /\ UNCHANGED <<skillVars, written, links, writes, disturbances>>

\* A statement or the page fails: save returns the error, the rest is not done.
SaveFails ==
  /\ saving # NoNote /\ Disturbance /\ saving' = NoNote
  /\ excused' = excused \cup {saving}
  /\ UNCHANGED <<skillVars, written, links, pages, saveStep, writes>>

\* delete: links, row, page.
DeleteNote(n) ==
  /\ saving = NoNote /\ written[n] # 0
  /\ links' = [links EXCEPT ![n] = {}] /\ written' = [written EXCEPT ![n] = 0]
  /\ \/ pages' = [pages EXCEPT ![n] = 0] /\ excused' = excused \ {n} /\ disturbances' = disturbances
     \/ Disturbance /\ pages' = pages /\ excused' = excused \cup {n}
  /\ UNCHANGED <<skillVars, saving, saveStep, writes>>

\* The process dies and starts: the skills are read again.
KnowRestart ==
  /\ Disturbance
  /\ torn' = Nothing /\ saving' = NoNote
  /\ skills' = [n \in Skills |-> Loaded(n)]
  /\ excused' = excused \cup (IF torn = Nothing THEN {} ELSE {torn.name})
                        \cup (IF saving = NoNote THEN {} ELSE {saving})
  /\ UNCHANGED <<files, written, links, pages, saveStep, writes>>

KnowNext ==
  \/ \E n \in Skills : Create(n) \/ Improve(n) \/ DeleteSkill(n)
  \/ Filled \/ Refused
  \/ \E n \in Notes : SaveRow(n) \/ DeleteNote(n)
  \/ DropLinks \/ InsertLink \/ CutPage \/ FillPage \/ SaveFails
  \/ KnowRestart

KnowSpec == KnowInit /\ [][KnowNext]_knowVars

-----------------------------------------------------------------------------
\* Between two operations, what a start would read is what the process has: no
\* skill is lost, comes back or goes back to older steps, and every note has
\* the links of its text and its page, unless a mishap or a skill of the same
\* file name has touched it since it was last written, or its description has
\* the separator in it.
StoresAgree ==
  /\ torn = Nothing => \A n \in Skills \ (excused \cup Dashed) : Loaded(n) = skills[n]
  /\ saving = NoNote => \A n \in Notes \ excused :
       /\ pages[n] = written[n]
       /\ links[n] = IF written[n] = 0 THEN {} ELSE LinksOf(n, written[n])

-----------------------------------------------------------------------------
(* Slugs, wiki links and searches, as functions.                            *)

\* slugify: letters (upper case "A" becomes "a"), separators "-", others are
\* dropped; runs of separators collapse, the ends are trimmed, and the slug is
\* cut to so many characters.
TrimDash(s) == IF s # <<>> /\ Last(s) = "-" THEN Front(s) ELSE s
Slugify(title, limit) ==
  LET add(s, c) == IF c = "A" THEN Append(s, "a")
                   ELSE IF c = "a" THEN Append(s, c)
                   ELSE IF c = "-" /\ s # <<>> /\ Last(s) # "-" THEN Append(s, c)
                   ELSE s
      whole == TrimDash(FoldLeft(add, <<>>, title))
  IN IF Len(whole) > limit THEN TrimDash(SubSeq(whole, 1, limit)) ELSE whole

\* A slug is a slug's slug, and has no separator at an end or twice in a row.
ASSUME SlugStable ==
  \A n \in 0..5 : \A title \in [1..n -> {"A", "a", "-", "!"}] :
    LET s == Slugify(title, 3) IN
    /\ Slugify(s, 3) = s
    /\ s # <<>> => s[1] # "-" /\ Last(s) # "-"
    /\ \A i \in 1..(Len(s) - 1) : s[i] = "-" => s[i + 1] # "-"

\* parse_wikilinks: from each "[[" to the next "]]"; a link with "[[" inside is
\* skipped whole, text behind an opening without an end is searched on.
Link(s, i) ==   \* the end of the link whose text starts at i, or 0
  LET ends == {e \in i..(Len(s) - 1) : s[e] = "]" /\ s[e + 1] = "]"}
  IN IF ends = {} THEN 0 ELSE CHOOSE e \in ends : \A f \in ends : e <= f
Nested(s) == \E i \in 1..(Len(s) - 1) : s[i] = "[" /\ s[i + 1] = "["
WikiLinks(s) ==
  LET from[i \in 1..(Len(s) + 3)] ==
        IF i >= Len(s) THEN <<>>
        ELSE IF s[i] = "[" /\ s[i + 1] = "[" /\ Link(s, i + 2) # 0
             THEN LET e == Link(s, i + 2)
                      text == SubSeq(s, i + 2, e - 1)
                  IN (IF text = <<>> \/ Nested(text) THEN <<>> ELSE <<text>>) \o from[e + 2]
             ELSE from[i + 1]
  IN from[1]

\* Every link of a text is found, in order, whatever stands between them.
ASSUME LinksFound ==
  \A a, b \in {<<"x">>, <<"x", "y">>, <<"[", "x">>, <<"x", "[">>},
     p, q, r \in {<<>>, <<"x">>, <<"]">>, <<"x", "]">>} :
    WikiLinks(p \o <<"[", "[">> \o a \o <<"]", "]">> \o q \o <<"[", "[">> \o b \o <<"]", "]">> \o r)
      = <<a, b>>

\* search: the hits, then for each what it links to and what links to it.
Found(hits, graph) ==
  hits \cup {m \in DOMAIN graph : \E h \in hits : m \in graph[h] \/ h \in graph[m]}
ASSUME OneHop ==
  \A graph \in [1..3 -> SUBSET (1..3)], h \in 1..3 :
    Found({h}, graph) = {m \in 1..3 : m = h \/ m \in graph[h] \/ h \in graph[m]}
=============================================================================
