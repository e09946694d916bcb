--------------------------- MODULE ServicesProofs ---------------------------
(***************************************************************************)
(* The services beside the agent, for any number of skills, notes, events, *)
(* requests, mishaps and calls of a reply: the files of knowledge, the     *)
(* captures with their journal, the pages about the device, the texts and  *)
(* calls that leave the phone, the scheduler, and a reply on its way into  *)
(* a run.  Each part states its invariant first; the end puts the parts    *)
(* together, those of modules of their own among them.                     *)
(***************************************************************************)
EXTENDS MCServices, CallPipelineProofs, McpProofs, FiniteSetTheorems, SequenceTheorems, TLAPS

-----------------------------------------------------------------------------
(* The files of knowledge. A skill that nothing has touched is in its file *)
(* as it is in memory, but for the one whose file is cut; and what a note  *)
(* being saved has of its links goes with the step it is at.               *)

Kept == [name : Skills, version : 1..MaxWrites + 1]
Cuts == [file : Files, name : Skills, was : 0..Garbled, now : 1..MaxWrites]

KnowTypes ==
  /\ skills \in [Skills -> 0..Garbled] /\ files \in [Files -> {Missing, Torn} \cup Kept]
  /\ torn \in {Nothing} \cup Cuts
  /\ written \in [Notes -> 0..MaxWrites] /\ links \in [Notes -> SUBSET Notes]
  /\ pages \in [Notes -> 0..TornPage]
  /\ saving \in Notes \cup {NoNote} /\ saveStep \in {"links", "insert", "page", "fill"}
  /\ writes \in 0..MaxWrites /\ excused \subseteq Skills \cup Notes /\ disturbances \in 0..MaxDisturbances

\* The file that is cut is that of the skill; one of the same file has no copy
\* in memory any more that a start would miss.
SkillsAgree ==
  /\ torn # Nothing => torn.file = FileOf[torn.name] /\ files[torn.file] = Torn
  /\ \A n \in Skills \ (excused \cup Dashed) : torn = Nothing \/ torn.name # n => Loaded(n) = skills[n]

NotesAgree ==
  /\ \A n \in Notes \ excused : n # saving =>
       /\ pages[n] = written[n]
       /\ links[n] = IF written[n] = 0 THEN {} ELSE LinksOf(n, written[n])
  /\ saving # NoNote =>
       /\ written[saving] # 0
       /\ saveStep = "insert" => links[saving] \subseteq LinksOf(saving, written[saving])
       /\ saveStep \in {"page", "fill"} => links[saving] = LinksOf(saving, written[saving])

KnowInv == KnowTypes /\ SkillsAgree /\ NotesAgree

\* What stands for no file, no version and no skill is none of them; and the
\* bounds on the writes and the disturbances are kept.
LEMMA KnowKinds ==
  /\ \A k \in Kept : k # Missing /\ k # Torn
  /\ Missing # Torn /\ \A c \in Cuts : c # Nothing
  /\ NoNote \notin Notes /\ Skills \cap Notes = {}
  /\ MaxWrites \in Nat /\ MaxDisturbances \in Nat /\ Dashed \subseteq Skills
  /\ DOMAIN FileOf = Skills /\ \A n \in Skills : FileOf[n] \in Files
<1>1. \A k \in Kept : k # Missing /\ k # Torn
  BY DEF Kept, Missing, Torn
<1>2. Missing # Torn
  BY DEF Missing, Torn
<1>3. \A c \in Cuts : c # Nothing
  BY DEF Cuts, Nothing
<1> QED
  BY <1>1, <1>2, <1>3, KnowledgeAssumption DEF NoNote, Files

LEMMA KnowCounts ==
  ASSUME KnowTypes
  PROVE  /\ Write => writes' \in 0..MaxWrites /\ writes + 1 \in 1..MaxWrites
         /\ Disturbance => disturbances' \in 0..MaxDisturbances
         /\ \A v \in 1..MaxWrites : v \in 0..Garbled /\ v \in 0..MaxWrites /\ v \in 1..MaxWrites + 1
         /\ \A v \in 0..MaxWrites : v \in 0..TornPage
         /\ \A v \in 1..MaxWrites + 1 : v \in 0..Garbled
         /\ 0 \in 0..Garbled /\ Garbled \in 0..Garbled /\ TornPage \in 0..TornPage /\ 0 \in 0..MaxWrites
         /\ 0 \in 0..TornPage
<1>1. MaxWrites \in Nat /\ MaxDisturbances \in Nat
  BY KnowKinds
<1>2. writes \in 0..MaxWrites /\ disturbances \in 0..MaxDisturbances
  BY DEF KnowTypes
<1> QED
  BY ONLY <1>1, <1>2 DEF Write, Disturbance, Garbled, TornPage

\* What a start reads from a file.
LEMMA LoadedTyped == ASSUME KnowTypes, NEW n \in Skills PROVE Loaded(n) \in 0..Garbled
<1>1. files[FileOf[n]] \in {Missing, Torn} \cup Kept
  BY KnowKinds DEF KnowTypes
<1>2. files[FileOf[n]] \in Kept => files[FileOf[n]].version \in 1..MaxWrites + 1
  BY DEF Kept
<1> QED
  BY <1>1, <1>2, KnowCounts DEF Loaded

\* What the stores of knowledge hold stays of its type.
LEMMA KnowTypesStep ==
  ASSUME KnowTypes, [KnowNext]_knowVars PROVE KnowTypes'
<1>1. ASSUME NEW n \in Skills, Create(n) PROVE KnowTypes'
  <2>1. files' \in [Files -> {Missing, Torn} \cup Kept]
    BY <1>1, KnowKinds DEF KnowTypes, Create, Cut
  <2>2. skills' \in [Skills -> 0..Garbled]
    BY <1>1, KnowCounts DEF KnowTypes, Create
  <2>3. torn' \in {Nothing} \cup Cuts
    <3>1. FileOf[n] \in Files /\ skills[n] \in 0..Garbled /\ writes + 1 \in 0..Garbled /\ writes + 1 \in 1..MaxWrites
      BY <1>1, KnowKinds, KnowCounts DEF KnowTypes, Create
    <3> QED
      BY <1>1, <3>1 DEF Create, Cut, Cuts
  <2>4. excused' \subseteq Skills \cup Notes /\ writes' \in 0..MaxWrites
    BY <1>1, KnowCounts DEF KnowTypes, Create, Cut, Neighbours
  <2> QED
    BY <1>1, <2>1, <2>2, <2>3, <2>4 DEF KnowTypes, Create, bookVars
<1>2. ASSUME NEW n \in Skills, Improve(n) PROVE KnowTypes'
  <2>1. files' \in [Files -> {Missing, Torn} \cup Kept]
    BY <1>2, KnowKinds DEF KnowTypes, Improve, Cut
  <2>2. skills' \in [Skills -> 0..Garbled]
    BY <1>2, KnowCounts DEF KnowTypes, Improve
  <2>3. torn' \in {Nothing} \cup Cuts
    <3>1. FileOf[n] \in Files /\ skills[n] \in 0..Garbled /\ writes + 1 \in 0..Garbled /\ writes + 1 \in 1..MaxWrites
      BY <1>2, KnowKinds, KnowCounts DEF KnowTypes, Improve
    <3> QED
      BY <1>2, <3>1 DEF Improve, Cut, Cuts
  <2>4. excused' \subseteq Skills \cup Notes /\ writes' \in 0..MaxWrites
    BY <1>2, KnowCounts DEF KnowTypes, Improve, Cut, Neighbours
  <2> QED
    BY <1>2, <2>1, <2>2, <2>3, <2>4 DEF KnowTypes, Improve, bookVars
<1>3. ASSUME NEW n \in Skills, DeleteSkill(n) PROVE KnowTypes'
  <2>1. excused' \subseteq Skills \cup Notes /\ disturbances' \in 0..MaxDisturbances
    BY <1>3, KnowCounts DEF KnowTypes, DeleteSkill, Neighbours
  <2> QED
    BY <1>3, <2>1, KnowCounts DEF KnowTypes, DeleteSkill, bookVars
<1>4. CASE Filled
  <2>1. torn.file \in Files /\ torn.name \in Skills /\ torn.now \in 1..MaxWrites
    BY <1>4 DEF KnowTypes, Filled, Cuts
  <2>2. [name |-> torn.name, version |-> torn.now] \in Kept /\ torn.now \in 0..Garbled
    BY <2>1, KnowCounts DEF Kept
  <2> QED
    BY <1>4, <2>1, <2>2 DEF KnowTypes, Filled, bookVars
<1>5. CASE Refused
  <2>1. torn.file \in Files /\ torn.name \in Skills /\ torn.was \in 0..Garbled
    BY <1>5 DEF KnowTypes, Refused, Cuts
  <2> QED
    BY <1>5, <2>1, KnowCounts DEF KnowTypes, Refused, bookVars
<1>6. ASSUME NEW n \in Notes, SaveRow(n) PROVE KnowTypes'
  BY <1>6, KnowCounts DEF KnowTypes, SaveRow, skillVars, LinksOf
<1>7. ASSUME NEW n \in Notes, DeleteNote(n) PROVE KnowTypes'
  BY <1>7, KnowCounts DEF KnowTypes, DeleteNote, skillVars, LinksOf
<1>8. CASE DropLinks
  BY <1>8, KnowCounts DEF KnowTypes, DropLinks, skillVars, LinksOf
<1>9. CASE InsertLink
  BY <1>9, KnowCounts DEF KnowTypes, InsertLink, skillVars, LinksOf
<1>10. CASE CutPage
  BY <1>10, KnowCounts DEF KnowTypes, CutPage, skillVars, LinksOf
<1>11. CASE FillPage
  BY <1>11, KnowCounts DEF KnowTypes, FillPage, skillVars, LinksOf
<1>12. CASE SaveFails
  BY <1>12, KnowCounts DEF KnowTypes, SaveFails, skillVars, LinksOf
<1>13. CASE KnowRestart
  <2>1. skills' \in [Skills -> 0..Garbled]
    BY <1>13, LoadedTyped DEF KnowRestart
  <2>2. torn # Nothing => torn.name \in Skills
    BY DEF KnowTypes, Cuts
  <2>3. excused' \subseteq Skills \cup Notes
    BY <1>13, <2>2 DEF KnowTypes, KnowRestart
  <2> QED
    BY <1>13, <2>1, <2>3, KnowCounts DEF KnowTypes, KnowRestart
<1>14. CASE UNCHANGED knowVars
  BY <1>14 DEF KnowTypes, knowVars
<1>15. QED
  BY <1>1, <1>2, <1>3, <1>4, <1>5, <1>6, <1>7, <1>8,
     <1>9, <1>10, <1>11, <1>12, <1>13, <1>14 DEF KnowNext

\* The skill that a start reads from a file, and the ones it does not.
LEMMA LoadedFrom ==
  ASSUME KnowTypes, NEW n \in Skills
  PROVE  /\ files[FileOf[n]] \in {Missing, Torn} => Loaded(n) = 0
         /\ \A k \in Kept : files[FileOf[n]] = k =>
              Loaded(n) = IF k.name # n THEN 0 ELSE IF n \in Dashed THEN Garbled ELSE k.version
  BY KnowKinds DEF Loaded, InFile

\* A skill and its file go on agreeing.
LEMMA SkillsAgreeStep ==
  ASSUME KnowTypes, SkillsAgree, [KnowNext]_knowVars PROVE SkillsAgree'
<1>1. ASSUME NEW n \in Skills, Create(n) PROVE SkillsAgree'
  <2>1. torn = Nothing /\ torn' # Nothing /\ torn'.file = FileOf[n] /\ torn'.name = n
    BY <1>1 DEF Create, Cut, Nothing
  <2>2. files'[FileOf[n]] = Torn /\ \A f \in Files : f # FileOf[n] => files'[f] = files[f]
    BY <1>1, KnowKinds DEF Create, Cut, KnowTypes
  <2>3. \A m \in Skills : m # n => skills'[m] = skills[m]
    BY <1>1 DEF Create, KnowTypes
  <2>4. ASSUME NEW m \in Skills \ (excused' \cup Dashed), m # n PROVE Loaded(m)' = skills'[m]
    <3>1. FileOf[m] \in Files /\ FileOf[n] \in Files /\ m \in Skills
      BY KnowKinds
    <3>2. CASE FileOf[m] = FileOf[n]
      <4>1. Loaded(m)' = 0
        BY <2>2, <3>2 DEF Loaded
      <4>2. CASE InFile(n)
        <5>1. m \in Neighbours(n)
          BY <2>4, <3>2 DEF Neighbours
        <5>2. skills[m] = 0
          BY <2>4, <4>2, <5>1, <1>1 DEF Create, Cut
        <5> QED
          BY <2>3, <2>4, <4>1, <5>2
      <4>3. CASE ~InFile(n)
        <5>1. m \notin excused
          BY <2>4, <4>3, <1>1 DEF Create, Cut
        <5>2. Loaded(m) = skills[m]
          BY <2>1, <2>4, <5>1 DEF SkillsAgree
        <5>3. Loaded(m) = 0
          BY <2>4, <3>2, <4>3 DEF InFile, Loaded
        <5> QED
          BY <2>3, <2>4, <4>1, <5>2, <5>3
      <4> QED
        BY <4>2, <4>3
    <3>3. CASE FileOf[m] # FileOf[n]
      <4>1. m \notin excused
        BY <2>4, <3>3, <1>1 DEF Create, Cut, Neighbours
      <4>2. Loaded(m) = skills[m]
        BY <2>1, <2>4, <4>1 DEF SkillsAgree
      <4>3. Loaded(m)' = Loaded(m)
        BY <2>2, <3>1, <3>3 DEF Loaded, InFile
      <4> QED
        BY <2>3, <2>4, <4>2, <4>3
    <3> QED
      BY <3>2, <3>3
  <2> QED
    BY <2>1, <2>2, <2>4 DEF SkillsAgree
<1>2. ASSUME NEW n \in Skills, Improve(n) PROVE SkillsAgree'
  <2>1. torn = Nothing /\ torn' # Nothing /\ torn'.file = FileOf[n] /\ torn'.name = n
    BY <1>2 DEF Improve, Cut, Nothing
  <2>2. files'[FileOf[n]] = Torn /\ \A f \in Files : f # FileOf[n] => files'[f] = files[f]
    BY <1>2, KnowKinds DEF Improve, Cut, KnowTypes
  <2>3. \A m \in Skills : m # n => skills'[m] = skills[m]
    BY <1>2 DEF Improve, KnowTypes
  <2>4. ASSUME NEW m \in Skills \ (excused' \cup Dashed), m # n PROVE Loaded(m)' = skills'[m]
    <3>1. FileOf[m] \in Files /\ FileOf[n] \in Files /\ m \in Skills
      BY KnowKinds
    <3>2. CASE FileOf[m] = FileOf[n]
      <4>1. Loaded(m)' = 0
        BY <2>2, <3>2 DEF Loaded
      <4>2. CASE InFile(n)
        <5>1. m \in Neighbours(n)
          BY <2>4, <3>2 DEF Neighbours
        <5>2. skills[m] = 0
          BY <2>4, <4>2, <5>1, <1>2 DEF Improve, Cut
        <5> QED
          BY <2>3, <2>4, <4>1, <5>2
      <4>3. CASE ~InFile(n)
        <5>1. m \notin excused
          BY <2>4, <4>3, <1>2 DEF Improve, Cut
        <5>2. Loaded(m) = skills[m]
          BY <2>1, <2>4, <5>1 DEF SkillsAgree
        <5>3. Loaded(m) = 0
          BY <2>4, <3>2, <4>3 DEF InFile, Loaded
        <5> QED
          BY <2>3, <2>4, <4>1, <5>2, <5>3
      <4> QED
        BY <4>2, <4>3
    <3>3. CASE FileOf[m] # FileOf[n]
      <4>1. m \notin excused
        BY <2>4, <3>3, <1>2 DEF Improve, Cut, Neighbours
      <4>2. Loaded(m) = skills[m]
        BY <2>1, <2>4, <4>1 DEF SkillsAgree
      <4>3. Loaded(m)' = Loaded(m)
        BY <2>2, <3>1, <3>3 DEF Loaded, InFile
      <4> QED
        BY <2>3, <2>4, <4>2, <4>3
    <3> QED
      BY <3>2, <3>3
  <2> QED
    BY <2>1, <2>2, <2>4 DEF SkillsAgree
<1>3. ASSUME NEW n \in Skills, DeleteSkill(n) PROVE SkillsAgree'
  <2>1. torn = Nothing /\ torn' = Nothing /\ skills'[n] = 0 /\ (\A m \in Skills : m # n => skills'[m] = skills[m])
    BY <1>3 DEF DeleteSkill, KnowTypes
  <2>2. CASE files' = files /\ excused' = excused \cup {n}
    <3>1. \A m \in Skills : Loaded(m)' = Loaded(m)
      BY <2>2 DEF Loaded, InFile
    <3> QED
      BY <2>1, <2>2, <3>1 DEF SkillsAgree
  <2>3. CASE /\ files' = [files EXCEPT ![FileOf[n]] = Missing]
             /\ excused' = IF InFile(n) THEN excused \cup Neighbours(n) ELSE excused
    <3>1. files'[FileOf[n]] = Missing /\ \A f \in Files : f # FileOf[n] => files'[f] = files[f]
      BY <2>3, KnowKinds DEF KnowTypes
    <3>2. ASSUME NEW m \in Skills \ (excused' \cup Dashed) PROVE Loaded(m)' = skills'[m]
      <4>0. m \notin excused /\ Loaded(m) = skills[m]
        BY <2>1, <2>3, <3>2 DEF SkillsAgree
      <4>1. CASE m = n
        BY <2>1, <3>1, <4>1 DEF Loaded
      <4>2. CASE m # n /\ FileOf[m] = FileOf[n]
        <5>1. Loaded(m)' = 0
          BY <3>1, <4>2 DEF Loaded
        <5>2. ~InFile(n)
          BY <2>3, <3>2, <4>2 DEF Neighbours
        <5>3. Loaded(m) = 0
          BY <4>2, <5>2 DEF Loaded, InFile
        <5> QED
          BY <2>1, <3>2, <4>0, <4>2, <5>1, <5>3
      <4>3. CASE m # n /\ FileOf[m] # FileOf[n]
        <5>1. Loaded(m)' = Loaded(m)
          BY <3>1, <3>2, <4>3, KnowKinds DEF Loaded, InFile
        <5> QED
          BY <2>1, <3>2, <4>0, <4>3, <5>1
      <4> QED
        BY <4>1, <4>2, <4>3
    <3> QED
      BY <2>1, <3>2 DEF SkillsAgree
  <2> QED
    BY <2>2, <2>3, <1>3 DEF DeleteSkill
<1>4. CASE Filled
  <2>1. torn \in Cuts /\ torn.file = FileOf[torn.name] /\ files[torn.file] = Torn /\ torn' = Nothing
    BY <1>4 DEF Filled, KnowTypes, SkillsAgree
  <2> DEFINE n == torn.name
  <2>2. n \in Skills /\ torn.file \in Files /\ torn.now \in 1..MaxWrites
    BY <2>1 DEF Cuts
  <2>3. /\ files'[FileOf[torn.name]].name = torn.name /\ files'[FileOf[torn.name]].version = torn.now
        /\ files'[FileOf[torn.name]] \notin {Missing, Torn}
        /\ skills'[torn.name] = torn.now /\ UNCHANGED excused
    BY <1>4, <2>1, <2>2 DEF Filled, KnowTypes, Missing, Torn
  <2>4. \A m \in Skills : m # torn.name => skills'[m] = skills[m]
    BY <1>4 DEF Filled, KnowTypes
  <2>5. \A f \in Files : f # FileOf[torn.name] => files'[f] = files[f]
    BY <1>4, <2>1 DEF Filled, KnowTypes
  <2>6. ASSUME NEW m \in Skills \ (excused \cup Dashed) PROVE Loaded(m)' = skills'[m]
    <3>1. CASE m = torn.name
      BY <2>3, <2>6, <3>1 DEF Loaded, InFile
    <3>2. CASE m # torn.name /\ FileOf[m] = FileOf[torn.name]
      <4>1. Loaded(m)' = 0
        BY <2>3, <3>2 DEF Loaded, InFile
      <4>2. Loaded(m) = 0
        BY <2>1, <3>2 DEF Loaded
      <4>3. Loaded(m) = skills[m]
        BY <2>6, <3>2 DEF SkillsAgree
      <4> QED
        BY <2>4, <2>6, <3>2, <4>1, <4>2, <4>3
    <3>3. CASE m # torn.name /\ FileOf[m] # FileOf[torn.name]
      <4>1. Loaded(m)' = Loaded(m)
        BY <2>5, <2>6, <3>3, KnowKinds DEF Loaded, InFile
      <4>2. Loaded(m) = skills[m]
        BY <2>6, <3>3 DEF SkillsAgree
      <4> QED
        BY <2>4, <2>6, <3>3, <4>1, <4>2
    <3> QED
      BY <3>1, <3>2, <3>3
  <2> QED
    BY <2>1, <2>3, <2>6 DEF SkillsAgree
<1>5. CASE Refused
  <2>1. torn' = Nothing /\ UNCHANGED files /\ excused' = excused \cup {torn.name}
    BY <1>5 DEF Refused
  <2>2. \A m \in Skills : m # torn.name => skills'[m] = skills[m]
    BY <1>5 DEF Refused, KnowTypes
  <2>3. \A m \in Skills : Loaded(m)' = Loaded(m)
    BY <2>1 DEF Loaded, InFile
  <2> QED
    BY <2>1, <2>2, <2>3 DEF SkillsAgree
<1>6. ASSUME NEW n \in Notes, SaveRow(n) PROVE SkillsAgree'
  <2>1. UNCHANGED <<skills, files, torn>> /\ \A m \in Skills : m \notin excused' => m \notin excused
    BY <1>6, KnowKinds DEF SaveRow, skillVars, KnowTypes
  <2>2. \A m \in Skills : Loaded(m)' = Loaded(m)
    BY <2>1 DEF Loaded, InFile
  <2> QED
    BY <2>1, <2>2 DEF SkillsAgree
<1>7. ASSUME NEW n \in Notes, DeleteNote(n) PROVE SkillsAgree'
  <2>1. UNCHANGED <<skills, files, torn>> /\ \A m \in Skills : m \notin excused' => m \notin excused
    BY <1>7, KnowKinds DEF DeleteNote, skillVars, KnowTypes
  <2>2. \A m \in Skills : Loaded(m)' = Loaded(m)
    BY <2>1 DEF Loaded, InFile
  <2> QED
    BY <2>1, <2>2 DEF SkillsAgree
<1>8. CASE DropLinks
  <2>1. UNCHANGED <<skills, files, torn>> /\ \A m \in Skills : m \notin excused' => m \notin excused
    BY <1>8, KnowKinds DEF DropLinks, skillVars, KnowTypes
  <2>2. \A m \in Skills : Loaded(m)' = Loaded(m)
    BY <2>1 DEF Loaded, InFile
  <2> QED
    BY <2>1, <2>2 DEF SkillsAgree
<1>9. CASE InsertLink
  <2>1. UNCHANGED <<skills, files, torn>> /\ \A m \in Skills : m \notin excused' => m \notin excused
    BY <1>9, KnowKinds DEF InsertLink, skillVars, KnowTypes
  <2>2. \A m \in Skills : Loaded(m)' = Loaded(m)
    BY <2>1 DEF Loaded, InFile
  <2> QED
    BY <2>1, <2>2 DEF SkillsAgree
<1>10. CASE CutPage
  <2>1. UNCHANGED <<skills, files, torn>> /\ \A m \in Skills : m \notin excused' => m \notin excused
    BY <1>10, KnowKinds DEF CutPage, skillVars, KnowTypes
  <2>2. \A m \in Skills : Loaded(m)' = Loaded(m)
    BY <2>1 DEF Loaded, InFile
  <2> QED
    BY <2>1, <2>2 DEF SkillsAgree
<1>11. CASE FillPage
  <2>1. UNCHANGED <<skills, files, torn>> /\ \A m \in Skills : m \notin excused' => m \notin excused
    BY <1>11, KnowKinds DEF FillPage, skillVars, KnowTypes
  <2>2. \A m \in Skills : Loaded(m)' = Loaded(m)
    BY <2>1 DEF Loaded, InFile
  <2> QED
    BY <2>1, <2>2 DEF SkillsAgree
<1>12. CASE SaveFails
  <2>1. UNCHANGED <<skills, files, torn>> /\ \A m \in Skills : m \notin excused' => m \notin excused
    BY <1>12, KnowKinds DEF SaveFails, skillVars, KnowTypes
  <2>2. \A m \in Skills : Loaded(m)' = Loaded(m)
    BY <2>1 DEF Loaded, InFile
  <2> QED
    BY <2>1, <2>2 DEF SkillsAgree
<1>13. CASE KnowRestart
  <2>1. torn' = Nothing /\ UNCHANGED files /\ \A m \in Skills : skills'[m] = Loaded(m)
    BY <1>13 DEF KnowRestart
  <2>2. \A m \in Skills : Loaded(m)' = Loaded(m)
    BY <2>1 DEF Loaded, InFile
  <2> QED
    BY <2>1, <2>2 DEF SkillsAgree
<1>14. CASE UNCHANGED knowVars
  <2>1. UNCHANGED <<skills, files, torn, excused>>
    BY <1>14 DEF knowVars
  <2>2. \A m \in Skills : Loaded(m)' = Loaded(m)
    BY <2>1 DEF Loaded, InFile
  <2> QED
    BY <2>1, <2>2 DEF SkillsAgree
<1>15. QED
  BY <1>1, <1>2, <1>3, <1>4, <1>5, <1>6, <1>7, <1>8,
     <1>9, <1>10, <1>11, <1>12, <1>13, <1>14 DEF KnowNext

\* A note goes on agreeing with its links and its page.
LEMMA NotesAgreeStep ==
  ASSUME KnowTypes, NotesAgree, [KnowNext]_knowVars PROVE NotesAgree'
<1>1. ASSUME NEW n \in Skills, Create(n) PROVE NotesAgree'
  <2>1. UNCHANGED bookVars /\ \A m \in Notes : m \notin excused' => m \notin excused
    BY <1>1, KnowKinds DEF Create, Cut, KnowTypes
  <2> QED
    BY <2>1 DEF NotesAgree, bookVars, LinksOf
<1>2. ASSUME NEW n \in Skills, Improve(n) PROVE NotesAgree'
  <2>1. UNCHANGED bookVars /\ \A m \in Notes : m \notin excused' => m \notin excused
    BY <1>2, KnowKinds DEF Improve, Cut, KnowTypes
  <2> QED
    BY <2>1 DEF NotesAgree, bookVars, LinksOf
<1>3. ASSUME NEW n \in Skills, DeleteSkill(n) PROVE NotesAgree'
  <2>1. UNCHANGED bookVars /\ \A m \in Notes : m \notin excused' => m \notin excused
    BY <1>3, KnowKinds DEF DeleteSkill, Cut, KnowTypes
  <2> QED
    BY <2>1 DEF NotesAgree, bookVars, LinksOf
<1>4. CASE Filled
  <2>1. UNCHANGED bookVars /\ \A m \in Notes : m \notin excused' => m \notin excused
    BY <1>4, KnowKinds DEF Filled, Cut, KnowTypes
  <2> QED
    BY <2>1 DEF NotesAgree, bookVars, LinksOf
<1>5. CASE Refused
  <2>1. UNCHANGED bookVars /\ \A m \in Notes : m \notin excused' => m \notin excused
    BY <1>5, KnowKinds DEF Refused, Cut, KnowTypes
  <2> QED
    BY <2>1 DEF NotesAgree, bookVars, LinksOf
<1>6. ASSUME NEW n \in Notes, SaveRow(n) PROVE NotesAgree'
  <2>1. writes + 1 # 0
    BY <1>6, KnowCounts DEF SaveRow
  <2>2. saving = NoNote /\ saving' = n /\ saveStep' = "links" /\ UNCHANGED <<links, pages, excused>>
    BY <1>6 DEF SaveRow
  <2>3. written'[n] = writes + 1 /\ \A m \in Notes : m # n => written'[m] = written[m]
    BY <1>6 DEF SaveRow, KnowTypes
  <2>4. ASSUME NEW m \in Notes \ excused', m # saving'
        PROVE  /\ pages'[m] = written'[m]
               /\ links'[m] = IF written'[m] = 0 THEN {} ELSE LinksOf(m, written'[m])
    <3>1. m \in Notes \ excused /\ m # saving
      BY <2>2, <2>4, KnowKinds
    <3> QED
      BY <3>1, <2>2, <2>3, <2>4 DEF NotesAgree
  <2>5. saving' # NoNote /\ written'[saving'] # 0 /\ saveStep' \notin {"insert", "page", "fill"}
    BY <2>1, <2>2, <2>3, KnowKinds
  <2> QED
    BY ONLY <2>4, <2>5 DEF NotesAgree, LinksOf
<1>7. ASSUME NEW n \in Notes, DeleteNote(n) PROVE NotesAgree'
  <2>1. saving = NoNote /\ saving' = NoNote /\ links'[n] = {} /\ written'[n] = 0
    BY <1>7 DEF DeleteNote, KnowTypes
  <2>2. \A m \in Notes : m # n => UNCHANGED <<links[m], written[m], pages[m]>>
    BY <1>7 DEF DeleteNote, KnowTypes
  <2>3. pages'[n] = 0 \/ n \in excused'
    BY <1>7 DEF DeleteNote, KnowTypes
  <2>4. \A m \in Notes : m # n /\ m \notin excused' => m \notin excused
    BY <1>7 DEF DeleteNote
  <2>5. \A m \in Notes : m # n => LinksOf(m, written[m])' = LinksOf(m, written[m])
    BY <2>2 DEF LinksOf
  <2>6. ASSUME NEW m \in Notes \ excused'
        PROVE  /\ pages'[m] = written'[m]
               /\ links'[m] = IF written'[m] = 0 THEN {} ELSE LinksOf(m, written[m])'
    <3>1. CASE m = n
      BY <2>1, <2>3, <2>6, <3>1
    <3>2. CASE m # n
      BY <2>1, <2>2, <2>4, <2>5, <2>6, <3>2, KnowKinds DEF NotesAgree
    <3> QED
      BY <3>1, <3>2
  <2> QED
    BY <2>1, <2>6 DEF NotesAgree
<1>8. CASE DropLinks
  <2>1. saving \in Notes
    BY <1>8, KnowKinds DEF DropLinks, KnowTypes
  <2> QED
    BY <1>8, <2>1, KnowKinds DEF NotesAgree, KnowTypes, DropLinks, LinksOf
<1>9. CASE InsertLink
  <2>1. saving \in Notes /\ UNCHANGED <<written, pages, saving, excused>> /\ saveStep = "insert"
    BY <1>9, KnowKinds DEF InsertLink, KnowTypes
  <2>2. LinksOf(saving, written[saving])' = LinksOf(saving, written[saving])
    BY <2>1 DEF LinksOf
  <2>3. links[saving] \subseteq LinksOf(saving, written[saving])
    BY <2>1, KnowKinds DEF NotesAgree
  <2>4. /\ \A m \in Notes : m # saving => links'[m] = links[m] /\ LinksOf(m, written[m])' = LinksOf(m, written[m])
        /\ links'[saving] \subseteq LinksOf(saving, written[saving])
        /\ saveStep' = "insert" \/ (saveStep' = "page" /\ links'[saving] = LinksOf(saving, written[saving]))
    BY <1>9, <2>1, <2>3 DEF InsertLink, KnowTypes, LinksOf
  <2> QED
    BY <2>1, <2>2, <2>4 DEF NotesAgree
<1>10. CASE CutPage
  <2>1. saving \in Notes
    BY <1>10, KnowKinds DEF CutPage, KnowTypes
  <2> QED
    BY <1>10, <2>1, KnowKinds DEF NotesAgree, KnowTypes, CutPage, LinksOf
<1>11. CASE FillPage
  <2>1. saving \in Notes
    BY <1>11, KnowKinds DEF FillPage, KnowTypes
  <2> QED
    BY <1>11, <2>1, KnowKinds DEF NotesAgree, KnowTypes, FillPage, LinksOf
<1>12. CASE SaveFails
  <2>1. saving \in Notes
    BY <1>12, KnowKinds DEF SaveFails, KnowTypes
  <2> QED
    BY <1>12, <2>1, KnowKinds DEF NotesAgree, KnowTypes, SaveFails, LinksOf
<1>13. CASE KnowRestart
  <2>1. saving' = NoNote /\ UNCHANGED <<links, written, pages>>
    BY <1>13 DEF KnowRestart
  <2>2. \A m \in Notes : m \notin excused' => m \notin excused /\ m # saving
    BY <1>13, KnowKinds DEF KnowRestart
  <2> QED
    BY <2>1, <2>2 DEF NotesAgree, LinksOf
<1>14. CASE UNCHANGED knowVars
  BY <1>14 DEF NotesAgree, knowVars, LinksOf
<1>15. QED
  BY <1>1, <1>2, <1>3, <1>4, <1>5, <1>6, <1>7, <1>8,
     <1>9, <1>10, <1>11, <1>12, <1>13, <1>14 DEF KnowNext

\* The inductive invariant of the stores of knowledge.
LEMMA KnowInvAlways == KnowSpec => []KnowInv
<1>1. KnowInit => KnowInv
  <2> SUFFICES ASSUME KnowInit PROVE KnowInv
    OBVIOUS
  <2>1. KnowTypes
    <3>1. MaxWrites \in Nat /\ MaxDisturbances \in Nat
      BY KnowKinds
    <3>2. 0 \in 0..Garbled /\ 0 \in 0..MaxWrites /\ 0 \in 0..TornPage /\ 0 \in 0..MaxDisturbances
      BY ONLY <3>1 DEF Garbled, TornPage
    <3> QED
      BY <3>2 DEF KnowInit, KnowTypes
  <2>2. SkillsAgree
    BY <2>1, LoadedFrom, KnowKinds DEF KnowInit, SkillsAgree
  <2>3. NotesAgree
    BY DEF KnowInit, NotesAgree
  <2> QED
    BY <2>1, <2>2, <2>3 DEF KnowInv
<1>2. KnowInv /\ [KnowNext]_knowVars => KnowInv'
  BY KnowTypesStep, SkillsAgreeStep, NotesAgreeStep DEF KnowInv
<1> QED
  BY <1>1, <1>2, PTL DEF KnowSpec

\* What the stores hold in memory and in files is of its type, whichever write
\* the process dies in.
THEOREM KnowTypeCorrect == KnowSpec => []KnowTypeOK
<1>1. KnowInv => KnowTypeOK
  BY DEF KnowInv, KnowTypes, KnowTypeOK, Kept, Cuts
<1> QED
  BY <1>1, KnowInvAlways, PTL

\* What the next start reads is what was there before: between two operations a
\* skill is in its file as it is in memory, and a note has its links and its
\* page, unless a mishap or a skill of the same file name touched it; although
\* neither store writes in a transaction.
THEOREM StoresStayAgreed == KnowSpec => []StoresAgree
<1>1. KnowInv => StoresAgree
  <2> SUFFICES ASSUME KnowInv PROVE StoresAgree
    OBVIOUS
  <2>1. torn = Nothing => \A n \in Skills \ (excused \cup Dashed) : Loaded(n) = skills[n]
    BY DEF KnowInv, SkillsAgree
  <2>2. saving = NoNote => \A n \in Notes \ excused :
          /\ pages[n] = written[n]
          /\ links[n] = IF written[n] = 0 THEN {} ELSE LinksOf(n, written[n])
    BY KnowKinds DEF KnowInv, NotesAgree
  <2> QED
    BY <2>1, <2>2 DEF StoresAgree
<1> QED
  BY <1>1, KnowInvAlways, PTL

-----------------------------------------------------------------------------
(* The captures and their journal. A row has a number of its own, and the  *)
(* cursor divides those that were read from those that were not, but for   *)
(* the tied; a camera is open for a request or a stream, and a thread that *)
(* ended before it was assigned has its reason.                            *)

Numbered ==
  /\ \A r \in events : r.id <= appended
  /\ \A r, q \in events : r.id = q.id => r = q
  /\ \A i \in Ids : i > appended => got[i] = 0

Divided ==
  /\ \A i \in Ids : got[i] <= 1
  /\ \A r \in events : r.ts <= cursor => got[r.id] = 1 \/ r.id \in tied
  /\ \A r \in events : got[r.id] # 0 => r.ts <= cursor

CameraHeld ==
  /\ device # "camera" => place \in {"idle", "assign"} /\ cam = "closed" /\ ~slot
  /\ device = "camera" => place # "assign"
  /\ slot => place = "idle"
  /\ place = "opening" => cam = "closed"
  /\ cam # "closed" => place # "idle" \/ slot
  /\ (slot \/ place = "posted") /\ ~running => quick

\* Who asked for a camera got it, or waits, or it is one of the late ones.
Opens ==
  /\ orphans + leaked + (IF place = "opening" THEN 1 ELSE 0) <= requests
  /\ frames <= appended

MicHeld ==
  /\ mic <= requests
  /\ \A t \in Threads : t > requests => threads[t] = "none"
  /\ place = "assign" => /\ requests \in Threads /\ mic = 0
                         /\ threads[requests] = "born" \/ requests \in early \cup broken
  /\ \A t \in Threads : mic = t /\ threads[t] = "ended" => t \in early \cup broken

\* A set of numbers has a smallest, and one with a bound a largest.
LEMMA SmallestOf ==
  ASSUME NEW S, S \subseteq Nat, S # {} PROVE \E n \in S : \A m \in S : n <= m
<1> DEFINE R == OpToRel(<, Nat)
<1>1. IsWellFoundedOn(R, Nat)
  BY NatLessThanWellFounded
<1>2. PICK n \in S : \A m \in S : ~(<<m, n>> \in R)
  <2> HIDE DEF R
  <2> QED
    BY <1>1, WFMin
<1>3. \A m \in S : ~(m < n)
  BY <1>2 DEF OpToRel
<1>4. \A m \in S : n <= m
  <2> SUFFICES ASSUME NEW m \in S PROVE n <= m
    OBVIOUS
  <2>1. ~(m < n) /\ m \in Nat /\ n \in Nat
    BY <1>3
  <2> QED
    BY ONLY <2>1
<1> QED
  <2> HIDE DEF R
  <2> QED
    BY <1>4

LEMMA MaxOf ==
  ASSUME NEW S, S \subseteq Int, S # {}, NEW top \in Int, \A x \in S : x <= top
  PROVE  Max(S) \in S /\ \A x \in S : x <= Max(S)
<1> DEFINE T == {top - x : x \in S}
<1>1. T \subseteq Nat
  <2> SUFFICES ASSUME NEW x \in S PROVE top - x \in Nat
    OBVIOUS
  <2>1. x \in Int /\ x <= top
    OBVIOUS
  <2> QED
    BY ONLY <2>1, top \in Int
<1>2. T # {}
  OBVIOUS
<1>3. PICK n \in T : \A m \in T : n <= m
  <2> HIDE DEF T
  <2> QED
    BY <1>1, <1>2, SmallestOf
<1>4. PICK x \in S : n = top - x
  OBVIOUS
<1>5. \A y \in S : x >= y
  <2> SUFFICES ASSUME NEW y \in S PROVE x >= y
    OBVIOUS
  <2>1. n <= top - y
    BY <1>3
  <2> QED
    BY <1>4, <2>1
<1>6. \E m \in S : \A y \in S : m >= y
  BY <1>5
<1>7. Max(S) \in S /\ \A y \in S : Max(S) >= y
  BY <1>6 DEF Max
<1>8. \A y \in S : y <= Max(S)
  <2> SUFFICES ASSUME NEW y \in S PROVE y <= Max(S)
    OBVIOUS
  <2>1. y \in Int /\ Max(S) \in Int /\ Max(S) >= y
    BY <1>7
  <2> QED
    BY ONLY <2>1
<1> QED
  BY <1>7, <1>8

JournalInv == JournalTypeOK /\ Numbered /\ Divided

LEMMA JournalCounts ==
  /\ MaxRows \in Nat /\ LastSecond \in Nat /\ Retention \in Nat /\ Recent \in Nat
  /\ Ids \subseteq Nat \ {0}
  BY JournalAssumption DEF Ids

\* A row is appended: with a number and a time of its own.
LEMMA JournalAppends ==
  ASSUME JournalInv, AppendEvent PROVE JournalInv' /\ appended' = appended + 1
<1>1. appended \in 0..MaxRows /\ appended < MaxRows /\ clock \in 0..LastSecond /\ MaxRows \in Nat
  BY JournalCounts DEF JournalInv, JournalTypeOK, AppendEvent
<1>2. appended + 1 \in Ids /\ appended + 1 \in 0..MaxRows /\ appended + 1 > appended
  BY ONLY <1>1 DEF Ids
<1> DEFINE new == Row(appended + 1, clock)
<1>3. new \in [id : Ids, ts : 0..LastSecond] /\ new.id = appended + 1 /\ new.ts = clock
  BY <1>1, <1>2 DEF Row
<1>4. events' \subseteq events \cup {new}
  BY DEF AppendEvent
<1>5. UNCHANGED <<clock, cursor, got>> /\ appended' = appended + 1
      /\ tied' = IF clock <= cursor THEN tied \cup {appended + 1} ELSE tied
  BY DEF AppendEvent
<1> HIDE DEF new
<1>6. \A r \in events : r.id \in Ids /\ r.ts \in 0..LastSecond /\ r.id <= appended /\ r.id # appended + 1
  <2> SUFFICES ASSUME NEW r \in events
               PROVE r.id \in Ids /\ r.ts \in 0..LastSecond /\ r.id <= appended /\ r.id # appended + 1
    OBVIOUS
  <2>1. r.id \in Ids /\ r.ts \in 0..LastSecond /\ r.id <= appended
    BY DEF JournalInv, JournalTypeOK, Numbered
  <2>2. r.id \in Nat
    BY <2>1, JournalCounts
  <2> QED
    BY <2>1, <2>2, <1>1
<1>7. JournalTypeOK'
  <2>1. events' \subseteq [id : Ids, ts : 0..LastSecond]
    BY <1>3, <1>4 DEF JournalInv, JournalTypeOK
  <2> QED
    BY <1>2, <1>5, <2>1 DEF JournalInv, JournalTypeOK
<1>8. Numbered'
  <2>1. \A r \in events' : r.id <= appended'
    <3> SUFFICES ASSUME NEW r \in events' PROVE r.id <= appended + 1
      BY <1>5
    <3>1. CASE r = new
      BY <1>1, <1>3, <3>1
    <3>2. CASE r \in events
      <4>1. r.id \in Nat /\ r.id <= appended
        BY <3>2, <1>6, JournalCounts
      <4> QED
        BY ONLY <4>1, <1>1
    <3> QED
      BY <1>4, <3>1, <3>2
  <2>2. \A r, q \in events' : r.id = q.id => r = q
    BY <1>3, <1>4, <1>6 DEF JournalInv, Numbered
  <2>3. \A i \in Ids : i > appended + 1 => got[i] = 0
    <3> SUFFICES ASSUME NEW i \in Ids, i > appended + 1 PROVE i > appended
      BY DEF JournalInv, Numbered
    <3>1. i \in Nat
      BY JournalCounts
    <3> QED
      BY ONLY <3>1, i > appended + 1, <1>1
  <2> QED
    BY <1>5, <2>1, <2>2, <2>3 DEF Numbered
<1>9. Divided'
  <2>1. got[appended + 1] = 0
    BY <1>2 DEF JournalInv, Numbered
  <2>2. \A r \in events' : r.ts <= cursor => got[r.id] = 1 \/ r.id \in tied'
    BY <1>3, <1>4, <1>5 DEF JournalInv, Divided
  <2>3. \A r \in events' : got[r.id] # 0 => r.ts <= cursor
    BY <1>3, <1>4, <2>1 DEF JournalInv, Divided
  <2> QED
    BY <1>5, <2>2, <2>3 DEF JournalInv, Divided
<1> QED
  BY <1>5, <1>7, <1>8, <1>9 DEF JournalInv

\* The poller reads: what it gets it had not, and the cursor ends where the page
\* does.
LEMMA JournalCollects ==
  ASSUME JournalInv, CollectEvents PROVE JournalInv' /\ appended' = appended
<1> DEFINE since == IF cursor = -1 THEN clock - Recent ELSE cursor
<1>1. PICK page \in Selections(since) :
         /\ got' = [i \in Ids |-> IF \E r \in page : r.id = i THEN got[i] + 1 ELSE got[i]]
         /\ cursor' = Max({since, 0} \cup {r.ts : r \in page})
         /\ tied' = tied \cup {r.id : r \in {q \in events \ page :
                                               q.ts = Max({since, 0} \cup {p.ts : p \in page}) /\ got[q.id] = 0}}
                         \cup {r.id : r \in {q \in events : cursor = -1 /\ q.ts <= since}}
         /\ UNCHANGED <<clock, events, appended>>
  BY DEF CollectEvents
<1> DEFINE S == {since, 0} \cup {r.ts : r \in page}
           latest == Max(S)
<1>2. /\ page \subseteq events /\ \A r \in page : r.ts > since
      /\ \A r \in page, q \in events : q \notin page /\ q.ts > since => r.ts <= q.ts
  BY <1>1 DEF Selections
<1>3. /\ \A r \in events : r.id \in Ids /\ r.ts \in 0..LastSecond
      /\ LastSecond \in Nat /\ cursor \in -1..LastSecond /\ clock \in 0..LastSecond /\ Recent \in Nat
  BY JournalCounts DEF JournalInv, JournalTypeOK
<1>4. since \in Int /\ since <= LastSecond /\ cursor <= LastSecond /\ (cursor # -1 => since >= 0)
  BY <1>3
<1>5. S \subseteq Int /\ (\A x \in S : x <= LastSecond)
  BY <1>2, <1>3, <1>4
<1>6. latest \in S /\ (\A x \in S : x <= latest)
  <2>1. S # {} /\ LastSecond \in Int
    BY <1>3
  <2> HIDE DEF S
  <2> QED
    BY <2>1, <1>5, MaxOf
<1>7. latest \in 0..LastSecond /\ latest >= since
  <2>1. latest \in Int /\ latest <= LastSecond /\ 0 <= latest /\ since <= latest
    BY <1>5, <1>6
  <2> HIDE DEF latest, since
  <2> QED
    BY ONLY <2>1, <1>3, <1>4
<1>8. cursor' = latest /\ events' = events /\ appended' = appended /\ clock' = clock
  BY <1>1
<1>9. \A r \in page : got[r.id] = 0
  <2> SUFFICES ASSUME NEW r \in page, got[r.id] # 0 PROVE FALSE
    OBVIOUS
  <2>1. r.ts <= cursor /\ r.ts > since /\ r.ts \in 0..LastSecond
    BY <1>2, <1>3 DEF JournalInv, Divided
  <2>2. CASE cursor = -1
    BY <2>1, <2>2, <1>3
  <2>3. CASE cursor # -1
    <3>1. since = cursor
      BY <2>3
    <3> HIDE DEF since
    <3> QED
      BY <2>1, <3>1, <1>3, <1>4
  <2> QED
    BY <2>2, <2>3
<1>10. \A i \in Ids : got'[i] = IF \E r \in page : r.id = i THEN 1 ELSE got[i]
  BY <1>1, <1>9
<1> HIDE DEF S, latest
<1>11. JournalTypeOK'
  <2>1. got' \in [Ids -> Nat]
    BY <1>1, <1>3 DEF JournalInv, JournalTypeOK
  <2>2. tied' \subseteq Ids
    BY <1>1, <1>3 DEF JournalInv, JournalTypeOK
  <2>3. cursor' \in -1..LastSecond
    BY <1>3, <1>7, <1>8
  <2> QED
    BY <1>8, <2>1, <2>2, <2>3 DEF JournalInv, JournalTypeOK
<1>12. Numbered'
  <2>1. ASSUME NEW i \in Ids, i > appended PROVE got'[i] = 0
    <3>1. \A r \in page : r.id # i
      <4> SUFFICES ASSUME NEW r \in page, r.id = i PROVE FALSE
        OBVIOUS
      <4>1. i <= appended /\ i \in Nat /\ appended \in Nat
        BY <1>2, JournalCounts DEF JournalInv, Numbered, JournalTypeOK
      <4> QED
        BY ONLY <4>1, <2>1
    <3> QED
      BY <1>10, <2>1, <3>1 DEF JournalInv, Numbered
  <2> QED
    BY <1>8, <2>1 DEF JournalInv, Numbered
<1>13. Divided'
  <2>1. \A i \in Ids : got'[i] <= 1
    BY <1>10 DEF JournalInv, Divided
  <2>2. ASSUME NEW r \in events, r.ts <= latest PROVE got'[r.id] = 1 \/ r.id \in tied'
    <3>1. CASE r \in page
      BY <1>3, <1>10, <3>1
    <3>2. CASE r \notin page /\ got[r.id] = 1
      BY <1>3, <1>10, <3>2
    <3>3. CASE r \notin page /\ got[r.id] # 1
      <4>1. got[r.id] = 0
        <5>1. r.id \in Ids /\ got[r.id] \in Nat /\ got[r.id] <= 1
          BY <1>3 DEF JournalInv, Divided, JournalTypeOK
        <5> QED
          BY ONLY <5>1, <3>3
      <4>2. CASE r.ts <= since /\ cursor = -1
        BY <1>1, <4>2
      <4>3. CASE r.ts <= since /\ cursor # -1
        BY <3>3, <4>1, <4>3, <1>1 DEF JournalInv, Divided
      <4>4. CASE ~(r.ts <= since)
        <5>1. r.ts \in Int /\ r.ts >= 0 /\ r.ts > since
          <6> HIDE DEF since
          <6> QED
            BY <1>3, <1>4, <4>4
        <5>2. \A x \in S : x <= r.ts
          BY <1>2, <1>4, <3>3, <5>1 DEF S
        <5>3. r.ts = latest
          <6>1. latest <= r.ts /\ latest \in Int
            BY <1>5, <1>6, <5>2
          <6> QED
            BY ONLY <6>1, <5>1, <2>2
        <5> QED
          BY <1>1, <3>3, <4>1, <5>3 DEF latest, S
      <4> QED
        BY <4>2, <4>3, <4>4
    <3> QED
      BY <3>1, <3>2, <3>3
  <2>3. ASSUME NEW r \in events, got'[r.id] # 0 PROVE r.ts <= latest
    <3>1. CASE r \in page
      BY <1>6, <3>1 DEF S
    <3>2. CASE r \notin page
      <4>1. \A q \in page : q.id # r.id
        BY <1>2, <3>2 DEF JournalInv, Numbered
      <4>2. got[r.id] # 0
        BY <1>3, <1>10, <2>3, <4>1
      <4>3. r.ts <= cursor /\ r.ts \in Int /\ r.ts >= 0
        BY <1>3, <4>2 DEF JournalInv, Divided
      <4>4. cursor # -1
        BY <4>3
      <4>5. since = cursor
        BY <4>4
      <4> HIDE DEF since
      <4> QED
        BY <4>3, <4>5, <1>3, <1>4, <1>7
    <3> QED
      BY <3>1, <3>2
  <2> QED
    BY <1>8, <2>1, <2>2, <2>3 DEF Divided
<1> QED
  BY <1>8, <1>11, <1>12, <1>13 DEF JournalInv

\* Whatever happens to the journal, a row is read once and the cursor divides.
LEMMA JournalStep ==
  ASSUME JournalInv, AppendEvent \/ JournalNext \/ UNCHANGED journalVars
  PROVE  JournalInv' /\ appended' \in {appended, appended + 1}
<1>1. CASE AppendEvent
  BY <1>1, JournalAppends
<1>2. CASE CollectEvents
  BY <1>2, JournalCollects
<1>3. CASE ClockAdvances
  <2>1. clock' \in 0..LastSecond
    BY <1>3, JournalCounts DEF ClockAdvances, JournalInv, JournalTypeOK
  <2> QED
    BY <1>3, <2>1 DEF ClockAdvances, JournalInv, JournalTypeOK, Numbered, Divided
<1>4. CASE ClockSetBack
  <2>1. clock' \in 0..LastSecond
    BY <1>4, JournalCounts DEF ClockSetBack, JournalInv, JournalTypeOK
  <2> QED
    BY <1>4, <2>1 DEF ClockSetBack, JournalInv, JournalTypeOK, Numbered, Divided
<1>5. CASE UNCHANGED journalVars
  BY <1>5 DEF journalVars, JournalInv, JournalTypeOK, Numbered, Divided
<1> QED
  BY <1>1, <1>2, <1>3, <1>4, <1>5 DEF JournalNext

CaptureTypes ==
  /\ device \in Devices /\ requests \in 0..MaxRequests
  /\ place \in {"idle", "opening", "session", "posted", "assign"}
  /\ purpose \in {"capture", "stream"} /\ cam \in {"closed", "open", "gone"}
  /\ orphans \in 0..MaxRequests /\ leaked \in 0..MaxRequests
  /\ {slot, running, limited, quick} \subseteq BOOLEAN
  /\ frames \in 0..MaxRows /\ flying \in 0..2
  /\ mic \in Threads \cup {0}
  /\ threads \in [Threads -> {"none", "born", "reading", "ended"}]
  /\ early \subseteq Threads /\ broken \subseteq Threads /\ listening \in BOOLEAN

CapturesInv == JournalInv /\ CaptureTypes /\ CameraHeld /\ Opens /\ MicHeld

LEMMA CaptureCounts ==
  ASSUME CaptureTypes
  PROVE  /\ Request => requests' \in 0..MaxRequests /\ requests' = requests + 1 /\ requests + 1 \in Threads
         /\ MaxRequests \in Nat /\ requests \in Nat /\ orphans \in Nat /\ leaked \in Nat
         /\ frames \in Nat /\ mic \in Nat /\ Threads \subseteq Nat \ {0}
<1>1. MaxRequests \in Nat /\ MaxRows \in Nat
  BY StreamsAssumption, JournalCounts
<1>2. requests \in 0..MaxRequests /\ orphans \in 0..MaxRequests /\ leaked \in 0..MaxRequests
      /\ frames \in 0..MaxRows /\ mic \in Threads \cup {0}
  BY DEF CaptureTypes
<1> QED
  BY ONLY <1>1, <1>2 DEF Request, Threads

\* What a capture does to the journal is what an event or the poller does.
LEMMA JournalOfCaptures ==
  ASSUME [StreamsNext]_streamVars PROVE AppendEvent \/ JournalNext \/ UNCHANGED journalVars
<1>1. CASE CameraNext
  BY <1>1 DEF CameraNext, Image
<1>2. CASE MicNext
  BY <1>2 DEF MicNext, StartAmbient, AssignThread, StopAmbient, ThreadLooks, Window, RecorderFails
<1>3. CASE StartUpdates \/ Position \/ StopUpdates
  BY <1>3 DEF StartUpdates, Position, StopUpdates
<1>4. CASE UNCHANGED streamVars
  BY <1>4 DEF streamVars
<1> QED
  BY <1>1, <1>2, <1>3, <1>4 DEF StreamsNext

\* What the captures hold stays of its type.
LEMMA CaptureTypesStep ==
  ASSUME CapturesInv, [StreamsNext]_streamVars PROVE CaptureTypes'
<1> USE DEF CapturesInv
<1>1. CASE device = "camera" /\ CameraNext /\ UNCHANGED <<device, micVars, listening>>
  <2>1. ASSUME NEW what \in {"capture", "stream"}, OpenCamera(what), UNCHANGED journalVars PROVE CaptureTypes'
    BY <1>1, <2>1, CaptureCounts DEF OpenCamera, CaptureTypes, camVars, micVars
  <2>2. CASE CameraOpened /\ UNCHANGED journalVars
    BY <1>1, <2>2, CaptureCounts DEF CameraOpened, CaptureTypes, camVars, micVars
  <2>3. CASE CameraFails /\ UNCHANGED journalVars
    BY <1>1, <2>3, CaptureCounts DEF CameraFails, CaptureTypes, camVars, micVars
  <2>4. CASE OpenTimesOut /\ UNCHANGED journalVars
    <3>1. orphans + 1 \in 0..MaxRequests
      <4>1. orphans \in Nat /\ leaked \in Nat /\ requests \in Nat /\ requests <= MaxRequests /\ MaxRequests \in Nat
            /\ orphans + leaked + 1 <= requests
        BY <1>1, <2>4, CaptureCounts DEF OpenTimesOut, Opens, CaptureTypes
      <4> QED
        BY ONLY <4>1
    <3> QED
      BY <1>1, <2>4, <3>1 DEF OpenTimesOut, CaptureTypes, micVars
  <2>5. CASE OpenedLate /\ UNCHANGED journalVars
    <3>1. orphans - 1 \in 0..MaxRequests /\ leaked + 1 \in 0..MaxRequests
      <4>1. orphans \in Nat /\ leaked \in Nat /\ requests \in Nat /\ requests <= MaxRequests /\ MaxRequests \in Nat
            /\ orphans + leaked <= requests /\ orphans > 0
        BY <1>1, <2>5, CaptureCounts DEF OpenedLate, Opens, CaptureTypes
      <4> QED
        BY ONLY <4>1
    <3> QED
      BY <1>1, <2>5, <3>1 DEF OpenedLate, CaptureTypes, micVars
  <2>6. CASE SessionFails /\ UNCHANGED journalVars
    BY <1>1, <2>6, CaptureCounts DEF SessionFails, CaptureTypes, camVars, micVars
  <2>7. CASE StillTaken /\ UNCHANGED journalVars
    BY <1>1, <2>7, CaptureCounts DEF StillTaken, CaptureTypes, camVars, micVars
  <2>8. CASE PostTicker /\ UNCHANGED journalVars
    <3>1. 0 \in 0..MaxRows /\ 0 \in 0..2
      BY JournalCounts
    <3> QED
      BY <1>1, <2>8, <3>1 DEF PostTicker, CaptureTypes, micVars
  <2>9. CASE RegisterStream /\ UNCHANGED journalVars
    BY <1>1, <2>9, CaptureCounts DEF RegisterStream, CaptureTypes, camVars, micVars
  <2>10. CASE Tick /\ UNCHANGED journalVars
    <3>1. flying' \in 0..2
      BY <1>1, <2>10 DEF Tick, CaptureTypes
    <3> QED
      BY <1>1, <2>10, <3>1 DEF Tick, CaptureTypes, micVars
  <2>11. CASE StopStream /\ UNCHANGED journalVars
    <3>1. 0 \in 0..2
      OBVIOUS
    <3> QED
      BY <1>1, <2>11, <3>1 DEF StopStream, StopInternal, CaptureTypes, micVars
  <2>12. CASE CameraGone /\ UNCHANGED journalVars
    BY <1>1, <2>12, CaptureCounts DEF CameraGone, CaptureTypes, camVars, micVars
  <2>13. CASE Image
    <3>1. frames' \in 0..MaxRows
      <4>1. frames \in Nat /\ appended \in Nat /\ MaxRows \in Nat /\ frames <= appended /\ frames <= MaxRows
        BY CaptureCounts, JournalCounts DEF Opens, JournalInv, JournalTypeOK, CaptureTypes
      <4>2. running => appended + 1 <= MaxRows
        BY <1>1, <2>13, <4>1 DEF Image, AppendEvent
      <4>3. frames' = IF running THEN frames + 1 ELSE frames
        BY <1>1, <2>13 DEF Image
      <4> QED
        BY ONLY <4>1, <4>2, <4>3
    <3>2. flying' \in 0..2
      BY <1>1, <2>13 DEF Image, StopInternal, CaptureTypes
    <3>3. {slot', running', quick'} \subseteq BOOLEAN /\ cam' \in {"closed", "open", "gone"}
      BY <1>1, <2>13 DEF Image, StopInternal, CaptureTypes
    <3> QED
      BY <1>1, <2>13, <3>1, <3>2, <3>3 DEF Image, CaptureTypes, micVars
  <2> QED
    BY <1>1, <2>1, <2>2, <2>3, <2>4, <2>5, <2>6, <2>7,
       <2>8, <2>9, <2>10, <2>11, <2>12, <2>13 DEF CameraNext
<1>2. CASE device = "mic" /\ MicNext /\ UNCHANGED <<device, camVars, listening>>
  <2>1. CASE StartAmbient
    BY <1>2, <2>1, CaptureCounts DEF StartAmbient, CaptureTypes, camVars
  <2>2. CASE AssignThread
    <3>1. requests \in Threads
      BY <1>2, <2>2 DEF AssignThread, MicHeld
    <3> QED
      BY <1>2, <2>2, <3>1 DEF AssignThread, CaptureTypes, camVars
  <2>3. CASE StopAmbient
    BY <1>2, <2>3, CaptureCounts DEF StopAmbient, CaptureTypes, camVars, micVars
  <2>4. ASSUME NEW t \in Threads, ThreadLooks(t) PROVE CaptureTypes'
    BY <1>2, <2>4, CaptureCounts DEF ThreadLooks, CaptureTypes, camVars, micVars
  <2>5. ASSUME NEW t \in Threads, Window(t) PROVE CaptureTypes'
    BY <1>2, <2>5, CaptureCounts DEF Window, CaptureTypes, camVars, micVars
  <2>6. ASSUME NEW t \in Threads, RecorderFails(t) PROVE CaptureTypes'
    BY <1>2, <2>6, CaptureCounts DEF RecorderFails, CaptureTypes, camVars, micVars
  <2> QED
    BY <1>2, <2>1, <2>2, <2>3, <2>4, <2>5, <2>6 DEF MicNext
<1>3. CASE device = "gps" /\ (StartUpdates \/ Position \/ StopUpdates) /\ UNCHANGED <<device, camVars, micVars>>
  BY <1>3, CaptureCounts DEF StartUpdates, Position, StopUpdates, CaptureTypes, camVars, micVars
<1>4. CASE JournalNext /\ UNCHANGED <<device, requests, place, camVars, micVars, listening>>
  BY <1>4 DEF CaptureTypes, camVars, micVars
<1>5. CASE UNCHANGED streamVars
  BY <1>5 DEF CaptureTypes, streamVars, camVars, micVars
<1> QED
  BY <1>1, <1>2, <1>3, <1>4, <1>5 DEF StreamsNext

\* A camera stays open for somebody.
LEMMA CameraHeldStep ==
  ASSUME CapturesInv, [StreamsNext]_streamVars PROVE CameraHeld'
<1> USE DEF CapturesInv
<1>1. CASE device = "camera" /\ CameraNext /\ UNCHANGED <<device, micVars, listening>>
  <2>1. ASSUME NEW what \in {"capture", "stream"}, OpenCamera(what), UNCHANGED journalVars PROVE CameraHeld'
    BY <1>1, <2>1 DEF OpenCamera, CameraHeld, CaptureTypes, camVars, StopInternal, Streaming
  <2>2. CASE CameraOpened /\ UNCHANGED journalVars
    BY <1>1, <2>2 DEF CameraOpened, CameraHeld, CaptureTypes, camVars, StopInternal, Streaming
  <2>3. CASE CameraFails /\ UNCHANGED journalVars
    BY <1>1, <2>3 DEF CameraFails, CameraHeld, CaptureTypes, camVars, StopInternal, Streaming
  <2>4. CASE OpenTimesOut /\ UNCHANGED journalVars
    BY <1>1, <2>4 DEF OpenTimesOut, CameraHeld, CaptureTypes, camVars, StopInternal, Streaming
  <2>5. CASE OpenedLate /\ UNCHANGED journalVars
    BY <1>1, <2>5 DEF OpenedLate, CameraHeld, CaptureTypes, camVars, StopInternal, Streaming
  <2>6. CASE SessionFails /\ UNCHANGED journalVars
    BY <1>1, <2>6 DEF SessionFails, CameraHeld, CaptureTypes, camVars, StopInternal, Streaming
  <2>7. CASE StillTaken /\ UNCHANGED journalVars
    BY <1>1, <2>7 DEF StillTaken, CameraHeld, CaptureTypes, camVars, StopInternal, Streaming
  <2>8. CASE PostTicker /\ UNCHANGED journalVars
    BY <1>1, <2>8 DEF PostTicker, CameraHeld, CaptureTypes, camVars, StopInternal, Streaming
  <2>9. CASE RegisterStream /\ UNCHANGED journalVars
    BY <1>1, <2>9 DEF RegisterStream, CameraHeld, CaptureTypes, camVars, StopInternal, Streaming
  <2>10. CASE Tick /\ UNCHANGED journalVars
    BY <1>1, <2>10 DEF Tick, CameraHeld, CaptureTypes, camVars, StopInternal, Streaming
  <2>11. CASE StopStream /\ UNCHANGED journalVars
    BY <1>1, <2>11 DEF StopStream, CameraHeld, CaptureTypes, camVars, StopInternal, Streaming
  <2>12. CASE CameraGone /\ UNCHANGED journalVars
    BY <1>1, <2>12 DEF CameraGone, CameraHeld, CaptureTypes, camVars, StopInternal, Streaming
  <2>13. CASE Image
    BY <1>1, <2>13 DEF Image, CameraHeld, CaptureTypes, camVars, StopInternal, Streaming
  <2> QED
    BY <1>1, <2>1, <2>2, <2>3, <2>4, <2>5, <2>6, <2>7,
       <2>8, <2>9, <2>10, <2>11, <2>12, <2>13 DEF CameraNext
<1>2. CASE device = "mic" /\ MicNext /\ UNCHANGED <<device, camVars, listening>>
  <2>1. CASE StartAmbient
    BY <1>2, <2>1 DEF StartAmbient, CameraHeld, camVars
  <2>2. CASE AssignThread
    BY <1>2, <2>2 DEF AssignThread, CameraHeld, camVars
  <2>3. CASE StopAmbient
    BY <1>2, <2>3 DEF StopAmbient, CameraHeld, camVars
  <2>4. ASSUME NEW t \in Threads, ThreadLooks(t) PROVE CameraHeld'
    BY <1>2, <2>4 DEF ThreadLooks, CameraHeld, camVars
  <2>5. ASSUME NEW t \in Threads, Window(t) PROVE CameraHeld'
    BY <1>2, <2>5 DEF Window, CameraHeld, camVars
  <2>6. ASSUME NEW t \in Threads, RecorderFails(t) PROVE CameraHeld'
    BY <1>2, <2>6 DEF RecorderFails, CameraHeld, camVars
  <2> QED
    BY <1>2, <2>1, <2>2, <2>3, <2>4, <2>5, <2>6 DEF MicNext
<1>3. CASE device = "gps" /\ (StartUpdates \/ Position \/ StopUpdates) /\ UNCHANGED <<device, camVars, micVars>>
  BY <1>3 DEF StartUpdates, Position, StopUpdates, CameraHeld, camVars
<1>4. CASE JournalNext /\ UNCHANGED <<device, requests, place, camVars, micVars, listening>>
  BY <1>4 DEF CameraHeld, camVars
<1>5. CASE UNCHANGED streamVars
  BY <1>5 DEF CameraHeld, streamVars, camVars
<1> QED
  BY <1>1, <1>2, <1>3, <1>4, <1>5 DEF StreamsNext

\* No more cameras are opened than were asked for.
LEMMA OpensStep ==
  ASSUME CapturesInv, [StreamsNext]_streamVars PROVE Opens'
<1> USE DEF CapturesInv
<1>1. CASE device = "camera" /\ CameraNext /\ UNCHANGED <<device, micVars, listening>>
  <2>1. ASSUME NEW what \in {"capture", "stream"}, OpenCamera(what), UNCHANGED journalVars PROVE Opens'
    <3>1. UNCHANGED <<frames>> /\ appended' = appended
      BY <1>1, <2>1 DEF OpenCamera, camVars, journalVars
    <3>2. orphans' + leaked' + (IF place' = "opening" THEN 1 ELSE 0) <= requests'
      BY <1>1, <2>1, CaptureCounts DEF OpenCamera, camVars, Request, Opens
    <3> QED
      BY <3>1, <3>2 DEF Opens
  <2>2. CASE CameraOpened /\ UNCHANGED journalVars
    <3>1. UNCHANGED <<frames>> /\ appended' = appended
      BY <1>1, <2>2 DEF CameraOpened, camVars, journalVars
    <3>2. orphans' + leaked' + (IF place' = "opening" THEN 1 ELSE 0) <= requests'
      BY <1>1, <2>2, CaptureCounts DEF CameraOpened, camVars, Request, Opens
    <3> QED
      BY <3>1, <3>2 DEF Opens
  <2>3. CASE CameraFails /\ UNCHANGED journalVars
    <3>1. UNCHANGED <<frames>> /\ appended' = appended
      BY <1>1, <2>3 DEF CameraFails, camVars, journalVars
    <3>2. orphans' + leaked' + (IF place' = "opening" THEN 1 ELSE 0) <= requests'
      BY <1>1, <2>3, CaptureCounts DEF CameraFails, camVars, Request, Opens
    <3> QED
      BY <3>1, <3>2 DEF Opens
  <2>4. CASE OpenTimesOut /\ UNCHANGED journalVars
    <3>1. UNCHANGED <<frames>> /\ appended' = appended
      BY <1>1, <2>4 DEF OpenTimesOut, camVars, journalVars
    <3>2. orphans' + leaked' + (IF place' = "opening" THEN 1 ELSE 0) <= requests'
      BY <1>1, <2>4, CaptureCounts DEF OpenTimesOut, camVars, Request, Opens
    <3> QED
      BY <3>1, <3>2 DEF Opens
  <2>5. CASE OpenedLate /\ UNCHANGED journalVars
    <3>1. UNCHANGED <<frames>> /\ appended' = appended
      BY <1>1, <2>5 DEF OpenedLate, camVars, journalVars
    <3>2. orphans' + leaked' + (IF place' = "opening" THEN 1 ELSE 0) <= requests'
      BY <1>1, <2>5, CaptureCounts DEF OpenedLate, camVars, Request, Opens
    <3> QED
      BY <3>1, <3>2 DEF Opens
  <2>6. CASE SessionFails /\ UNCHANGED journalVars
    <3>1. UNCHANGED <<frames>> /\ appended' = appended
      BY <1>1, <2>6 DEF SessionFails, camVars, journalVars
    <3>2. orphans' + leaked' + (IF place' = "opening" THEN 1 ELSE 0) <= requests'
      BY <1>1, <2>6, CaptureCounts DEF SessionFails, camVars, Request, Opens
    <3> QED
      BY <3>1, <3>2 DEF Opens
  <2>7. CASE StillTaken /\ UNCHANGED journalVars
    <3>1. UNCHANGED <<frames>> /\ appended' = appended
      BY <1>1, <2>7 DEF StillTaken, camVars, journalVars
    <3>2. orphans' + leaked' + (IF place' = "opening" THEN 1 ELSE 0) <= requests'
      BY <1>1, <2>7, CaptureCounts DEF StillTaken, camVars, Request, Opens
    <3> QED
      BY <3>1, <3>2 DEF Opens
  <2>8. CASE PostTicker /\ UNCHANGED journalVars
    <3>1. frames' = 0 /\ appended' = appended /\ appended \in Nat
      BY <1>1, <2>8 DEF PostTicker, journalVars, JournalInv, JournalTypeOK
    <3>2. orphans' + leaked' + (IF place' = "opening" THEN 1 ELSE 0) <= requests'
      BY <1>1, <2>8, CaptureCounts DEF PostTicker, Opens
    <3> QED
      BY <3>1, <3>2 DEF Opens
  <2>9. CASE RegisterStream /\ UNCHANGED journalVars
    <3>1. UNCHANGED <<frames>> /\ appended' = appended
      BY <1>1, <2>9 DEF RegisterStream, camVars, journalVars
    <3>2. orphans' + leaked' + (IF place' = "opening" THEN 1 ELSE 0) <= requests'
      BY <1>1, <2>9, CaptureCounts DEF RegisterStream, camVars, Request, Opens
    <3> QED
      BY <3>1, <3>2 DEF Opens
  <2>10. CASE Tick /\ UNCHANGED journalVars
    <3>1. UNCHANGED <<frames>> /\ appended' = appended
      BY <1>1, <2>10 DEF Tick, camVars, journalVars
    <3>2. orphans' + leaked' + (IF place' = "opening" THEN 1 ELSE 0) <= requests'
      BY <1>1, <2>10, CaptureCounts DEF Tick, camVars, Request, Opens
    <3> QED
      BY <3>1, <3>2 DEF Opens
  <2>11. CASE StopStream /\ UNCHANGED journalVars
    BY <1>1, <2>11 DEF StopStream, Opens, journalVars
  <2>12. CASE CameraGone /\ UNCHANGED journalVars
    <3>1. UNCHANGED <<frames>> /\ appended' = appended
      BY <1>1, <2>12 DEF CameraGone, camVars, journalVars
    <3>2. orphans' + leaked' + (IF place' = "opening" THEN 1 ELSE 0) <= requests'
      BY <1>1, <2>12, CaptureCounts DEF CameraGone, camVars, Request, Opens
    <3> QED
      BY <3>1, <3>2 DEF Opens
  <2>13. CASE Image
    <3>1. frames' <= appended'
      <4>1. frames <= appended /\ frames \in Nat /\ appended \in Nat
        BY CaptureCounts DEF Opens, JournalInv, JournalTypeOK
      <4>2. CASE running
        BY <1>1, <2>13, <4>1, <4>2 DEF Image, AppendEvent
      <4>3. CASE ~running
        BY <1>1, <2>13, <4>1, <4>3 DEF Image, journalVars
      <4> QED
        BY <4>2, <4>3
    <3>2. UNCHANGED <<orphans, leaked, place, requests>>
      BY <1>1, <2>13 DEF Image
    <3> QED
      BY <3>1, <3>2 DEF Opens
  <2> QED
    BY <1>1, <2>1, <2>2, <2>3, <2>4, <2>5, <2>6, <2>7,
       <2>8, <2>9, <2>10, <2>11, <2>12, <2>13 DEF CameraNext
<1>2. CASE device = "mic" /\ MicNext /\ UNCHANGED <<device, camVars, listening>>
  <2>1. CASE StartAmbient
    <3>1. UNCHANGED <<orphans, leaked, frames>> /\ requests' \in {requests, requests + 1}
          /\ (place' = "opening" => place = "opening") /\ appended' \in {appended, appended + 1}
      BY <1>2, <2>1, JournalStep, JournalOfCaptures DEF StartAmbient, camVars, Request
    <3> QED
      BY <3>1, CaptureCounts DEF Opens, JournalInv, JournalTypeOK
  <2>2. CASE AssignThread
    <3>1. UNCHANGED <<orphans, leaked, frames>> /\ requests' \in {requests, requests + 1}
          /\ (place' = "opening" => place = "opening") /\ appended' \in {appended, appended + 1}
      BY <1>2, <2>2, JournalStep, JournalOfCaptures DEF AssignThread, camVars, Request
    <3> QED
      BY <3>1, CaptureCounts DEF Opens, JournalInv, JournalTypeOK
  <2>3. CASE StopAmbient
    <3>1. UNCHANGED <<orphans, leaked, frames>> /\ requests' \in {requests, requests + 1}
          /\ (place' = "opening" => place = "opening") /\ appended' \in {appended, appended + 1}
      BY <1>2, <2>3, JournalStep, JournalOfCaptures DEF StopAmbient, camVars, Request
    <3> QED
      BY <3>1, CaptureCounts DEF Opens, JournalInv, JournalTypeOK
  <2>4. ASSUME NEW t \in Threads, ThreadLooks(t) PROVE Opens'
    <3>1. UNCHANGED <<orphans, leaked, frames>> /\ requests' \in {requests, requests + 1}
          /\ (place' = "opening" => place = "opening") /\ appended' \in {appended, appended + 1}
      BY <1>2, <2>4, JournalStep, JournalOfCaptures DEF ThreadLooks, camVars, Request
    <3> QED
      BY <3>1, CaptureCounts DEF Opens, JournalInv, JournalTypeOK
  <2>5. ASSUME NEW t \in Threads, Window(t) PROVE Opens'
    <3>1. UNCHANGED <<orphans, leaked, frames>> /\ requests' \in {requests, requests + 1}
          /\ (place' = "opening" => place = "opening") /\ appended' \in {appended, appended + 1}
      BY <1>2, <2>5, JournalStep, JournalOfCaptures DEF Window, camVars, Request
    <3> QED
      BY <3>1, CaptureCounts DEF Opens, JournalInv, JournalTypeOK
  <2>6. ASSUME NEW t \in Threads, RecorderFails(t) PROVE Opens'
    <3>1. UNCHANGED <<orphans, leaked, frames>> /\ requests' \in {requests, requests + 1}
          /\ (place' = "opening" => place = "opening") /\ appended' \in {appended, appended + 1}
      BY <1>2, <2>6, JournalStep, JournalOfCaptures DEF RecorderFails, camVars, Request
    <3> QED
      BY <3>1, CaptureCounts DEF Opens, JournalInv, JournalTypeOK
  <2> QED
    BY <1>2, <2>1, <2>2, <2>3, <2>4, <2>5, <2>6 DEF MicNext
<1>3. CASE device = "gps" /\ (StartUpdates \/ Position \/ StopUpdates) /\ UNCHANGED <<device, camVars, micVars>>
  <2>1. UNCHANGED <<orphans, leaked, frames, place>> /\ requests' \in {requests, requests + 1}
        /\ appended' \in {appended, appended + 1}
    BY <1>3, JournalStep, JournalOfCaptures DEF StartUpdates, Position, StopUpdates, camVars, Request
  <2> QED
    BY <2>1, CaptureCounts DEF Opens, JournalInv, JournalTypeOK
<1>4. CASE JournalNext /\ UNCHANGED <<device, requests, place, camVars, micVars, listening>>
  <2>1. UNCHANGED <<orphans, leaked, frames, place>> /\ requests' \in {requests, requests + 1}
        /\ appended' \in {appended, appended + 1}
    BY <1>4, JournalStep, JournalOfCaptures DEF camVars, Request
  <2> QED
    BY <2>1, CaptureCounts DEF Opens, JournalInv, JournalTypeOK
<1>5. CASE UNCHANGED streamVars
  BY <1>5 DEF Opens, streamVars, camVars, journalVars
<1> QED
  BY <1>1, <1>2, <1>3, <1>4, <1>5 DEF StreamsNext

\* A thread that ended keeps its reason.
LEMMA MicHeldStep ==
  ASSUME CapturesInv, [StreamsNext]_streamVars PROVE MicHeld'
<1> USE DEF CapturesInv
<1>1. CASE device = "camera" /\ CameraNext /\ UNCHANGED <<device, micVars, listening>>
  <2>1. ASSUME NEW what \in {"capture", "stream"}, OpenCamera(what), UNCHANGED journalVars PROVE MicHeld'
    <3>1. UNCHANGED <<mic, threads, early, broken>> /\ requests' \in {requests, requests + 1} /\ place' # "assign"
      BY <1>1, <2>1 DEF OpenCamera, micVars, CameraHeld, Request
    <3>2. \A t \in Threads : t > requests' => t > requests
      BY <3>1, CaptureCounts
    <3>3. mic <= requests'
      BY <3>1, CaptureCounts DEF MicHeld
    <3> QED
      BY <3>1, <3>2, <3>3 DEF MicHeld
  <2>2. CASE CameraOpened /\ UNCHANGED journalVars
    <3>1. UNCHANGED <<mic, threads, early, broken>> /\ requests' \in {requests, requests + 1} /\ place' # "assign"
      BY <1>1, <2>2 DEF CameraOpened, micVars, CameraHeld, Request
    <3>2. \A t \in Threads : t > requests' => t > requests
      BY <3>1, CaptureCounts
    <3>3. mic <= requests'
      BY <3>1, CaptureCounts DEF MicHeld
    <3> QED
      BY <3>1, <3>2, <3>3 DEF MicHeld
  <2>3. CASE CameraFails /\ UNCHANGED journalVars
    <3>1. UNCHANGED <<mic, threads, early, broken>> /\ requests' \in {requests, requests + 1} /\ place' # "assign"
      BY <1>1, <2>3 DEF CameraFails, micVars, CameraHeld, Request
    <3>2. \A t \in Threads : t > requests' => t > requests
      BY <3>1, CaptureCounts
    <3>3. mic <= requests'
      BY <3>1, CaptureCounts DEF MicHeld
    <3> QED
      BY <3>1, <3>2, <3>3 DEF MicHeld
  <2>4. CASE OpenTimesOut /\ UNCHANGED journalVars
    <3>1. UNCHANGED <<mic, threads, early, broken>> /\ requests' \in {requests, requests + 1} /\ place' # "assign"
      BY <1>1, <2>4 DEF OpenTimesOut, micVars, CameraHeld, Request
    <3>2. \A t \in Threads : t > requests' => t > requests
      BY <3>1, CaptureCounts
    <3>3. mic <= requests'
      BY <3>1, CaptureCounts DEF MicHeld
    <3> QED
      BY <3>1, <3>2, <3>3 DEF MicHeld
  <2>5. CASE OpenedLate /\ UNCHANGED journalVars
    <3>1. UNCHANGED <<mic, threads, early, broken>> /\ requests' \in {requests, requests + 1} /\ place' # "assign"
      BY <1>1, <2>5 DEF OpenedLate, micVars, CameraHeld, Request
    <3>2. \A t \in Threads : t > requests' => t > requests
      BY <3>1, CaptureCounts
    <3>3. mic <= requests'
      BY <3>1, CaptureCounts DEF MicHeld
    <3> QED
      BY <3>1, <3>2, <3>3 DEF MicHeld
  <2>6. CASE SessionFails /\ UNCHANGED journalVars
    <3>1. UNCHANGED <<mic, threads, early, broken>> /\ requests' \in {requests, requests + 1} /\ place' # "assign"
      BY <1>1, <2>6 DEF SessionFails, micVars, CameraHeld, Request
    <3>2. \A t \in Threads : t > requests' => t > requests
      BY <3>1, CaptureCounts
    <3>3. mic <= requests'
      BY <3>1, CaptureCounts DEF MicHeld
    <3> QED
      BY <3>1, <3>2, <3>3 DEF MicHeld
  <2>7. CASE StillTaken /\ UNCHANGED journalVars
    <3>1. UNCHANGED <<mic, threads, early, broken>> /\ requests' \in {requests, requests + 1} /\ place' # "assign"
      BY <1>1, <2>7 DEF StillTaken, micVars, CameraHeld, Request
    <3>2. \A t \in Threads : t > requests' => t > requests
      BY <3>1, CaptureCounts
    <3>3. mic <= requests'
      BY <3>1, CaptureCounts DEF MicHeld
    <3> QED
      BY <3>1, <3>2, <3>3 DEF MicHeld
  <2>8. CASE PostTicker /\ UNCHANGED journalVars
    <3>1. UNCHANGED <<mic, threads, early, broken>> /\ requests' \in {requests, requests + 1} /\ place' # "assign"
      BY <1>1, <2>8 DEF PostTicker, micVars, CameraHeld, Request
    <3>2. \A t \in Threads : t > requests' => t > requests
      BY <3>1, CaptureCounts
    <3>3. mic <= requests'
      BY <3>1, CaptureCounts DEF MicHeld
    <3> QED
      BY <3>1, <3>2, <3>3 DEF MicHeld
  <2>9. CASE RegisterStream /\ UNCHANGED journalVars
    <3>1. UNCHANGED <<mic, threads, early, broken>> /\ requests' \in {requests, requests + 1} /\ place' # "assign"
      BY <1>1, <2>9 DEF RegisterStream, micVars, CameraHeld, Request
    <3>2. \A t \in Threads : t > requests' => t > requests
      BY <3>1, CaptureCounts
    <3>3. mic <= requests'
      BY <3>1, CaptureCounts DEF MicHeld
    <3> QED
      BY <3>1, <3>2, <3>3 DEF MicHeld
  <2>10. CASE Tick /\ UNCHANGED journalVars
    <3>1. UNCHANGED <<mic, threads, early, broken>> /\ requests' \in {requests, requests + 1} /\ place' # "assign"
      BY <1>1, <2>10 DEF Tick, micVars, CameraHeld, Request
    <3>2. \A t \in Threads : t > requests' => t > requests
      BY <3>1, CaptureCounts
    <3>3. mic <= requests'
      BY <3>1, CaptureCounts DEF MicHeld
    <3> QED
      BY <3>1, <3>2, <3>3 DEF MicHeld
  <2>11. CASE StopStream /\ UNCHANGED journalVars
    <3>1. UNCHANGED <<mic, threads, early, broken>> /\ requests' \in {requests, requests + 1} /\ place' # "assign"
      BY <1>1, <2>11 DEF StopStream, micVars, CameraHeld, Request
    <3>2. \A t \in Threads : t > requests' => t > requests
      BY <3>1, CaptureCounts
    <3>3. mic <= requests'
      BY <3>1, CaptureCounts DEF MicHeld
    <3> QED
      BY <3>1, <3>2, <3>3 DEF MicHeld
  <2>12. CASE CameraGone /\ UNCHANGED journalVars
    <3>1. UNCHANGED <<mic, threads, early, broken>> /\ requests' \in {requests, requests + 1} /\ place' # "assign"
      BY <1>1, <2>12 DEF CameraGone, micVars, CameraHeld, Request
    <3>2. \A t \in Threads : t > requests' => t > requests
      BY <3>1, CaptureCounts
    <3>3. mic <= requests'
      BY <3>1, CaptureCounts DEF MicHeld
    <3> QED
      BY <3>1, <3>2, <3>3 DEF MicHeld
  <2>13. CASE Image
    <3>1. UNCHANGED <<mic, threads, early, broken>> /\ requests' \in {requests, requests + 1} /\ place' # "assign"
      BY <1>1, <2>13 DEF Image, micVars, CameraHeld, Request
    <3>2. \A t \in Threads : t > requests' => t > requests
      BY <3>1, CaptureCounts
    <3>3. mic <= requests'
      BY <3>1, CaptureCounts DEF MicHeld
    <3> QED
      BY <3>1, <3>2, <3>3 DEF MicHeld
  <2> QED
    BY <1>1, <2>1, <2>2, <2>3, <2>4, <2>5, <2>6, <2>7,
       <2>8, <2>9, <2>10, <2>11, <2>12, <2>13 DEF CameraNext
<1>2. CASE device = "mic" /\ MicNext /\ UNCHANGED <<device, camVars, listening>>
  <2>1. CASE StartAmbient
    <3>1. requests' = requests + 1 /\ requests + 1 \in Threads /\ mic' = 0 /\ place' = "assign"
          /\ UNCHANGED <<early, broken>>
      BY <1>2, <2>1, CaptureCounts DEF StartAmbient
    <3>2. threads'[requests + 1] = "born" /\ \A u \in Threads : u # requests + 1 => threads'[u] = threads[u]
      BY <1>2, <2>1, <3>1 DEF StartAmbient, CaptureTypes
    <3>3. \A u \in Threads : u > requests + 1 => u > requests /\ u # requests + 1
      BY CaptureCounts
    <3>4. \A u \in Threads : u # 0
      BY CaptureCounts
    <3>5. 0 <= requests + 1
      BY CaptureCounts
    <3> QED
      BY <3>1, <3>2, <3>3, <3>4, <3>5 DEF MicHeld
  <2>2. CASE AssignThread
    <3>1. mic' = requests /\ place' = "idle" /\ UNCHANGED <<requests, threads, early, broken>> /\ place = "assign"
      BY <1>2, <2>2 DEF AssignThread
    <3>2. requests <= requests
      BY CaptureCounts
    <3> QED
      BY <3>1, <3>2 DEF MicHeld
  <2>3. CASE StopAmbient
    <3>1. mic' = 0 /\ place' = "idle" /\ UNCHANGED <<requests, threads, early, broken>>
      BY <1>2, <2>3 DEF StopAmbient
    <3>2. 0 <= requests /\ \A u \in Threads : u # 0
      BY CaptureCounts
    <3> QED
      BY <3>1, <3>2 DEF MicHeld
  <2>4. ASSUME NEW t \in Threads, ThreadLooks(t) PROVE MicHeld'
    <3>1. UNCHANGED <<requests, place, mic, broken>> /\ early \subseteq early'
          /\ threads[t] \in {"born", "reading"}
      BY <1>2, <2>4 DEF ThreadLooks
    <3>2. threads'[t] = (IF mic = t THEN "reading" ELSE "ended") /\ \A u \in Threads : u # t => threads'[u] = threads[u]
      BY <1>2, <2>4 DEF ThreadLooks, CaptureTypes
    <3>3. place = "assign" /\ t = requests => requests \in early' \cup broken'
      <4> SUFFICES ASSUME place = "assign", t = requests PROVE requests \in early' \cup broken'
        OBVIOUS
      <4>1. mic = 0 /\ t # 0
        BY CaptureCounts DEF MicHeld
      <4>2. CASE threads[t] = "born"
        BY <1>2, <2>4, <4>1, <4>2 DEF ThreadLooks
      <4>3. CASE threads[t] = "reading"
        BY <3>1, <4>3 DEF MicHeld
      <4> QED
        BY <3>1, <4>2, <4>3
    <3> QED
      BY <3>1, <3>2, <3>3 DEF MicHeld
  <2>5. ASSUME NEW t \in Threads, Window(t) PROVE MicHeld'
    BY <1>2, <2>5 DEF Window, MicHeld, micVars
  <2>6. ASSUME NEW t \in Threads, RecorderFails(t) PROVE MicHeld'
    <3>1. UNCHANGED <<requests, place, mic, early>> /\ broken' = broken \cup {t} /\ threads[t] # "none"
      BY <1>2, <2>6 DEF RecorderFails
    <3>2. threads'[t] = "ended" /\ \A u \in Threads : u # t => threads'[u] = threads[u]
      BY <1>2, <2>6 DEF RecorderFails, CaptureTypes
    <3> QED
      BY <3>1, <3>2 DEF MicHeld
  <2> QED
    BY <1>2, <2>1, <2>2, <2>3, <2>4, <2>5, <2>6 DEF MicNext
<1>3. CASE device = "gps" /\ (StartUpdates \/ Position \/ StopUpdates) /\ UNCHANGED <<device, camVars, micVars>>
  <2>1. UNCHANGED <<mic, threads, early, broken, place>> /\ requests' \in {requests, requests + 1}
        /\ (place = "assign" => requests' = requests)
    BY <1>3 DEF StartUpdates, Position, StopUpdates, micVars, Request
  <2>2. \A t \in Threads : t > requests' => t > requests
    BY <2>1, CaptureCounts
  <2>3. mic <= requests'
    BY <2>1, CaptureCounts DEF MicHeld
  <2> QED
    BY <2>1, <2>2, <2>3 DEF MicHeld
<1>4. CASE JournalNext /\ UNCHANGED <<device, requests, place, camVars, micVars, listening>>
  BY <1>4 DEF MicHeld, micVars
<1>5. CASE UNCHANGED streamVars
  BY <1>5 DEF MicHeld, streamVars, micVars
<1> QED
  BY <1>1, <1>2, <1>3, <1>4, <1>5 DEF StreamsNext

\* The inductive invariant of the captures and their journal.
LEMMA CapturesInvAlways == StreamsSpec => []CapturesInv
<1>1. StreamsInit => CapturesInv
  <2> SUFFICES ASSUME StreamsInit PROVE CapturesInv
    OBVIOUS
  <2>1. JournalInv
    <3>1. 0 \in 0..LastSecond /\ 0 \in 0..MaxRows /\ -1 \in -1..LastSecond
      BY JournalCounts
    <3> QED
      BY <3>1, JournalCounts DEF StreamsInit, JournalInit, JournalInv, JournalTypeOK, Numbered, Divided
  <2>2. CaptureTypes
    <3>1. 0 \in 0..MaxRequests /\ 0 \in 0..MaxRows /\ 0 \in 0..2
      BY JournalCounts, StreamsAssumption
    <3> QED
      BY <3>1 DEF StreamsInit, CaptureTypes
  <2>3. CameraHeld /\ Opens /\ MicHeld
    BY <2>2, CaptureCounts DEF StreamsInit, JournalInit, CameraHeld, Opens, MicHeld
  <2> QED
    BY <2>1, <2>2, <2>3 DEF CapturesInv
<1>2. CapturesInv /\ [StreamsNext]_streamVars => CapturesInv'
  <2> SUFFICES ASSUME CapturesInv, [StreamsNext]_streamVars PROVE CapturesInv'
    OBVIOUS
  <2>1. JournalInv'
    BY JournalStep, JournalOfCaptures DEF CapturesInv
  <2> QED
    BY <2>1, CaptureTypesStep, CameraHeldStep, OpensStep, MicHeldStep DEF CapturesInv
<1> QED
  BY <1>1, <1>2, PTL DEF StreamsSpec

\* What the captures and their journal hold is of its type: no more cameras are
\* waited for or left open than were asked for, and no frame is counted that is
\* not in the journal.
THEOREM StreamsTypeCorrect == StreamsSpec => []StreamsTypeOK
<1>1. CapturesInv => StreamsTypeOK
  BY DEF CapturesInv, CaptureTypes, JournalInv, StreamsTypeOK
<1> QED
  BY <1>1, CapturesInvAlways, PTL

\* The poller gets no event twice and leaves none behind its cursor but those of
\* the millisecond a page ended in and those written with the clock set back,
\* whatever the pages hold and whenever rows are pruned.
THEOREM EventsReadOnce == StreamsSpec => []EveryEventOnce
<1>1. CapturesInv => EveryEventOnce
  BY DEF CapturesInv, JournalInv, Divided, EveryEventOnce
<1> QED
  BY <1>1, CapturesInvAlways, PTL

\* No camera stays open that no request can close, and no stream or thread is
\* taken for running that is not, but for the named exceptions, in whatever order
\* the callbacks of the camera, the requests and the threads come.
THEOREM CapturesStayAccounted == StreamsSpec => []CapturesAccounted
<1>1. CapturesInv => CapturesAccounted
  BY DEF CapturesInv, CameraHeld, MicHeld, CapturesAccounted
<1> QED
  BY <1>1, CapturesInvAlways, PTL

-----------------------------------------------------------------------------
(* The pages about the device. Of the list the ages are bounded, and each  *)
(* list found is as new as the ones found before it unless two listings    *)
(* overlapped; a stream's source is the page's, closed, or one that broke. *)

Aged ==
  /\ cache.seen <= cache.at /\ cache.at <= ticks /\ cache.at - cache.seen <= MaxListing
  /\ \A r \in AppAsks :
       /\ found[r] <= ticks
       /\ answer[r] = "listed" => ticks - found[r] <= MaxListing
       /\ answer[r] = "sent" => ticks - found[r] <= Ttl + MaxListing
  /\ allApps.at - allApps.seen <= Ttl + MaxListing

Chosen ==
  /\ \A r \in mine : answer[r] \in {"asked", "listed", "sent"}
  /\ ~overtaken =>
       /\ \A r, q \in mine : r = q
       /\ \A r \in mine : want[r] = appFilter
       /\ mine = {} /\ allApps # NoList => allApps.filter = appFilter

Newer ==
  ~overlap =>
    /\ \A r, q \in AppAsks : answer[r] = "listed" /\ answer[q] = "listed" => r = q
    /\ \A r \in AppAsks : /\ answer[r] = "listed" => found[r] >= cache.seen
                          /\ answer[r] = "sent" => found[r] <= cache.seen
    /\ newest <= cache.seen
    /\ ~overtaken => /\ allApps.seen = newest
                     /\ \A r \in mine : answer[r] = "sent" => found[r] >= newest

One(s) == IF s = NoSource THEN 0 ELSE 1

Sourced ==
  /\ open["log"] \subseteq {logES}
  /\ tab # "monitor" => logES = NoSource
  /\ tab # "messages" => msgES = NoSource
  /\ Cardinality(open["messages"] \ {msgES}) <= lost
  /\ strays + One(msgES) + One(logES) <= used + lost /\ lost <= MaxBreaks

ListTypes ==
  /\ {ticks, newest} \subseteq 0..MaxTicks /\ {cache, allApps} \subseteq AppLists
  /\ answer \in [AppAsks -> {"none", "asked", "listed", "sent", "over"}]
  /\ want \in [AppAsks -> AppFilters] /\ mine \subseteq AppAsks /\ found \in [AppAsks -> 0..MaxTicks]
  /\ appFilter \in AppFilters /\ {overtaken, overlap} \subseteq BOOLEAN

SourceTypes ==
  /\ tab \in {"messages", "monitor", "chat"} /\ {msgES, logES} \subseteq EventSources \cup {NoSource}
  /\ open \in [{"messages", "log"} -> SUBSET EventSources] /\ used \in 0..Cardinality(EventSources)
  /\ strays \in Nat /\ lost \in Nat

ListInv == ListTypes /\ Aged /\ Chosen /\ Newer
SourceInv == SourceTypes /\ Sourced

\* Times and lists are of their numbers.
LEMMA PageTimes ==
  ASSUME ListTypes
  PROVE  /\ ticks \in Nat /\ newest \in Nat /\ cache.seen \in Nat /\ cache.at \in Nat
         /\ allApps.seen \in Nat /\ allApps.at \in Nat /\ \A r \in AppAsks : found[r] \in Nat
         /\ Ttl \in Nat /\ MaxListing \in Nat /\ MaxTicks \in Nat /\ MaxBreaks \in Nat
         /\ ticks \in 0..MaxTicks /\ newest \in 0..MaxTicks /\ 0 \in 0..MaxTicks
         /\ \A r \in AppAsks : found[r] \in 0..MaxTicks
         /\ cache.seen \in 0..MaxTicks /\ cache.at \in 0..MaxTicks
<1>1. Ttl \in Nat /\ MaxListing \in Nat /\ MaxTicks \in Nat /\ MaxBreaks \in Nat
  BY PagesAssumption
<1>2. /\ ticks \in 0..MaxTicks /\ newest \in 0..MaxTicks
      /\ cache.seen \in 0..MaxTicks /\ cache.at \in 0..MaxTicks
      /\ allApps.seen \in 0..MaxTicks /\ allApps.at \in 0..MaxTicks
      /\ \A r \in AppAsks : found[r] \in 0..MaxTicks
  BY DEF ListTypes, AppLists
<1> QED
  BY <1>1, <1>2

\* What the list of apps holds stays of its type.
LEMMA ListTypesStep ==
  ASSUME ListTypes, [AppsNext]_listVars PROVE ListTypes'
<1>1. CASE PagesTick
  <2>1. ticks' \in 0..MaxTicks
    BY <1>1, PageTimes DEF PagesTick
  <2> QED
    BY <1>1, <2>1 DEF PagesTick, ListTypes
<1>2. ASSUME NEW r \in AppAsks, LoadApps(r) PROVE ListTypes'
  BY <1>2, PageTimes DEF ListTypes, LoadApps
<1>3. ASSUME NEW r \in AppAsks, Hit(r) PROVE ListTypes'
  BY <1>3, PageTimes DEF ListTypes, Hit
<1>4. ASSUME NEW r \in AppAsks, ListPackages(r) PROVE ListTypes'
  BY <1>4, PageTimes DEF ListTypes, ListPackages
<1>5. ASSUME NEW r \in AppAsks, StoreList(r) PROVE ListTypes'
  <2>1. cache' \in AppLists
    BY <1>5, PageTimes DEF StoreList, ListTypes, AppLists
  <2> QED
    BY <1>5, <2>1 DEF StoreList, ListTypes
<1>6. ASSUME NEW r \in AppAsks, ShowApps(r) PROVE ListTypes'
  <2>1. allApps' \in AppLists /\ newest' \in 0..MaxTicks
    BY <1>6, PageTimes DEF ShowApps, ListTypes, AppLists
  <2>2. want' \in [AppAsks -> AppFilters] /\ found' \in [AppAsks -> 0..MaxTicks]
    BY <1>6, PageTimes, PagesAssumption DEF ShowApps, ListTypes
  <2> QED
    BY <1>6, <2>1, <2>2 DEF ShowApps, ListTypes
<1>7. CASE UNCHANGED listVars
  BY <1>7 DEF ListTypes, listVars
<1>8. QED
  BY <1>1, <1>2, <1>3, <1>4, <1>5, <1>6, <1>7 DEF AppsNext

\* The ages of the lists stay bounded.
LEMMA AgedStep ==
  ASSUME ListInv, [AppsNext]_listVars PROVE Aged'
<1> USE DEF ListInv
<1>1. CASE PagesTick
  <2>1. ticks' = ticks + 1 /\ UNCHANGED <<cache, allApps, answer, found>>
        /\ \A r \in AppAsks : answer[r] # "sent" /\ (answer[r] = "listed" => ticks - found[r] < MaxListing)
    BY <1>1 DEF PagesTick
  <2> QED
    BY <2>1, PageTimes DEF Aged
<1>2. ASSUME NEW r \in AppAsks, LoadApps(r) PROVE Aged'
  <2>1. UNCHANGED <<ticks, cache, allApps, found>> /\ answer'[r] = "asked"
        /\ \A q \in AppAsks : q # r => answer'[q] = answer[q]
    BY <1>2 DEF LoadApps, ListTypes
  <2> QED
    BY <2>1 DEF Aged
<1>3. ASSUME NEW r \in AppAsks, Hit(r) PROVE Aged'
  <2>1. UNCHANGED <<ticks, cache, allApps>> /\ ticks - cache.at < Ttl /\ found'[r] = cache.seen /\ answer'[r] = "sent"
        /\ \A q \in AppAsks : q # r => answer'[q] = answer[q] /\ found'[q] = found[q]
    BY <1>3 DEF Hit, ListTypes, StillKept
  <2>2. cache.seen <= ticks /\ ticks - cache.seen <= Ttl + MaxListing
    BY <2>1, PageTimes DEF Aged
  <2> QED
    BY <2>1, <2>2 DEF Aged
<1>4. ASSUME NEW r \in AppAsks, ListPackages(r) PROVE Aged'
  <2>1. UNCHANGED <<ticks, cache, allApps>> /\ found'[r] = ticks /\ answer'[r] = "listed"
        /\ \A q \in AppAsks : q # r => answer'[q] = answer[q] /\ found'[q] = found[q]
    BY <1>4 DEF ListPackages, ListTypes
  <2>2. ticks <= ticks /\ ticks - ticks <= MaxListing
    BY PageTimes
  <2> QED
    BY <2>1, <2>2 DEF Aged
<1>5. ASSUME NEW r \in AppAsks, StoreList(r) PROVE Aged'
  <2>1. UNCHANGED <<ticks, allApps, found>> /\ cache'.seen = found[r] /\ cache'.at = ticks /\ answer'[r] = "sent"
        /\ answer[r] = "listed" /\ \A q \in AppAsks : q # r => answer'[q] = answer[q]
    BY <1>5 DEF StoreList, ListTypes
  <2>2. found[r] <= ticks /\ ticks - found[r] <= MaxListing
    BY <2>1 DEF Aged
  <2>3. ticks <= ticks /\ ticks - found[r] <= Ttl + MaxListing
    BY <2>2, PageTimes
  <2> QED
    BY <2>1, <2>2, <2>3 DEF Aged
<1>6. ASSUME NEW r \in AppAsks, ShowApps(r) PROVE Aged'
  <2>1. UNCHANGED <<ticks, cache>> /\ found'[r] = 0 /\ answer'[r] = "over" /\ answer[r] = "sent"
        /\ \A q \in AppAsks : q # r => answer'[q] = answer[q] /\ found'[q] = found[q]
    BY <1>6 DEF ShowApps, ListTypes
  <2>2. allApps'.at - allApps'.seen <= Ttl + MaxListing
    <3>1. CASE r \in mine
      BY <1>6, <2>1, <3>1 DEF ShowApps, Aged
    <3>2. CASE r \notin mine
      BY <1>6, <3>2 DEF ShowApps, Aged
    <3> QED
      BY <3>1, <3>2
  <2>3. 0 <= ticks
    BY PageTimes
  <2> QED
    BY <2>1, <2>2, <2>3 DEF Aged
<1>7. CASE UNCHANGED listVars
  BY <1>7 DEF Aged, listVars
<1>8. QED
  BY <1>1, <1>2, <1>3, <1>4, <1>5, <1>6, <1>7 DEF AppsNext

\* The list asked for last is of the filter that is chosen.
LEMMA ChosenStep ==
  ASSUME ListInv, [AppsNext]_listVars PROVE Chosen'
<1> USE DEF ListInv
<1>1. CASE PagesTick
  BY <1>1 DEF PagesTick, Chosen
<1>2. ASSUME NEW r \in AppAsks, LoadApps(r) PROVE Chosen'
  <2>1. answer[r] = "none" /\ answer'[r] = "asked" /\ allApps' = allApps
        /\ \A q \in AppAsks : q # r => answer'[q] = answer[q]
    BY <1>2 DEF LoadApps, NextAsk, ListTypes
  <2>2. r \notin mine
    BY <2>1 DEF Chosen
  <2>3. PICK f \in AppFilters :
          /\ want' = [want EXCEPT ![r] = f]
          /\ \/ /\ appFilter' = f /\ mine' = mine \cup {r}
                /\ overtaken' = (overtaken \/ mine # {})
             \/ UNCHANGED <<appFilter, mine, overtaken>>
    BY <1>2 DEF LoadApps
  <2>4. want'[r] = f /\ \A q \in AppAsks : q # r => want'[q] = want[q]
    BY <2>3 DEF ListTypes
  <2>5. \/ appFilter' = f /\ mine' = mine \cup {r} /\ (~overtaken' => mine = {})
        \/ UNCHANGED <<appFilter, mine, overtaken>>
    BY <2>3
  <2>6. CASE appFilter' = f /\ mine' = mine \cup {r} /\ (~overtaken' => mine = {})
    BY <2>1, <2>4, <2>6 DEF Chosen, ListTypes
  <2>7. CASE UNCHANGED <<appFilter, mine, overtaken>>
    BY <2>1, <2>2, <2>4, <2>7 DEF Chosen, ListTypes
  <2> QED
    BY <2>5, <2>6, <2>7
<1>3. ASSUME NEW r \in AppAsks, Hit(r) PROVE Chosen'
  <2>1. UNCHANGED <<want, mine, appFilter, allApps, overtaken>> /\ answer'[r] \in {"listed", "sent"}
        /\ \A q \in AppAsks : q # r => answer'[q] = answer[q]
    BY <1>3 DEF Hit, ListTypes
  <2> QED
    BY <2>1 DEF Chosen, ListTypes
<1>4. ASSUME NEW r \in AppAsks, ListPackages(r) PROVE Chosen'
  <2>1. UNCHANGED <<want, mine, appFilter, allApps, overtaken>> /\ answer'[r] \in {"listed", "sent"}
        /\ \A q \in AppAsks : q # r => answer'[q] = answer[q]
    BY <1>4 DEF ListPackages, ListTypes
  <2> QED
    BY <2>1 DEF Chosen, ListTypes
<1>5. ASSUME NEW r \in AppAsks, StoreList(r) PROVE Chosen'
  <2>1. UNCHANGED <<want, mine, appFilter, allApps, overtaken>> /\ answer'[r] \in {"listed", "sent"}
        /\ \A q \in AppAsks : q # r => answer'[q] = answer[q]
    BY <1>5 DEF StoreList, ListTypes
  <2> QED
    BY <2>1 DEF Chosen, ListTypes
<1>6. ASSUME NEW r \in AppAsks, ShowApps(r) PROVE Chosen'
  <2>1. UNCHANGED <<appFilter, overtaken>> /\ mine' = mine \ {r} /\ answer'[r] = "over"
        /\ \A q \in AppAsks : q # r => answer'[q] = answer[q] /\ want'[q] = want[q]
    BY <1>6 DEF ShowApps, ListTypes
  <2>2. CASE r \in mine
    <3>1. allApps'.filter = want[r]
      BY <1>6, <2>2 DEF ShowApps
    <3> QED
      BY <2>1, <2>2, <3>1 DEF Chosen, ListTypes
  <2>3. CASE r \notin mine
    <3>1. allApps' = allApps /\ mine' = mine
      BY <1>6, <2>1, <2>3 DEF ShowApps
    <3> QED
      BY <2>1, <2>3, <3>1 DEF Chosen, ListTypes
  <2> QED
    BY <2>2, <2>3
<1>7. CASE UNCHANGED listVars
  BY <1>7 DEF Chosen, listVars
<1>8. QED
  BY <1>1, <1>2, <1>3, <1>4, <1>5, <1>6, <1>7 DEF AppsNext

\* Lists come in their order unless two listings overlap.
LEMMA NewerStep ==
  ASSUME ListInv, [AppsNext]_listVars PROVE Newer'
<1> USE DEF ListInv
<1>1. CASE PagesTick
  BY <1>1 DEF PagesTick, Newer
<1>2. ASSUME NEW r \in AppAsks, LoadApps(r) PROVE Newer'
  <2>1. UNCHANGED <<cache, found, allApps, newest, overlap>> /\ answer'[r] = "asked"
        /\ (\A q \in AppAsks : q # r => answer'[q] = answer[q]) /\ mine' \subseteq mine \cup {r}
    BY <1>2 DEF LoadApps, ListTypes
  <2>2. ~overtaken' => ~overtaken
    BY <1>2 DEF LoadApps
  <2> QED
    BY <2>1, <2>2 DEF Newer, ListTypes
<1>3. ASSUME NEW r \in AppAsks, Hit(r) PROVE Newer'
  <2>1. UNCHANGED <<cache, allApps, newest, overlap, mine, overtaken>> /\ answer'[r] = "sent" /\ found'[r] = cache.seen
        /\ \A q \in AppAsks : q # r => answer'[q] = answer[q] /\ found'[q] = found[q]
    BY <1>3 DEF Hit, ListTypes
  <2>2. cache.seen <= cache.seen /\ (newest <= cache.seen => cache.seen >= newest)
    BY PageTimes
  <2> QED
    BY <2>1, <2>2 DEF Newer, ListTypes
<1>4. ASSUME NEW r \in AppAsks, ListPackages(r) PROVE Newer'
  <2>1. UNCHANGED <<cache, allApps, newest, mine, overtaken>> /\ answer'[r] = "listed" /\ found'[r] = ticks
        /\ \A q \in AppAsks : q # r => answer'[q] = answer[q] /\ found'[q] = found[q]
    BY <1>4 DEF ListPackages, ListTypes
  <2>2. ~overlap' => ~overlap /\ \A q \in AppAsks : answer[q] # "listed"
    BY <1>4 DEF ListPackages
  <2>3. ticks >= cache.seen
    BY PageTimes DEF Aged
  <2> QED
    BY <2>1, <2>2, <2>3 DEF Newer, ListTypes
<1>5. ASSUME NEW r \in AppAsks, StoreList(r) PROVE Newer'
  <2>1. UNCHANGED <<found, allApps, newest, overlap, mine, overtaken>> /\ answer'[r] = "sent" /\ cache'.seen = found[r]
        /\ answer[r] = "listed" /\ \A q \in AppAsks : q # r => answer'[q] = answer[q]
    BY <1>5 DEF StoreList, ListTypes
  <2>2. ASSUME ~overlap PROVE found[r] >= cache.seen /\ newest <= cache.seen /\ cache.seen <= found[r]
    <3>1. found[r] >= cache.seen /\ newest <= cache.seen
      BY <2>1, <2>2 DEF Newer
    <3> QED
      BY <3>1, PageTimes
  <2>3. ASSUME ~overlap PROVE newest <= found[r] /\ found[r] >= newest /\ found[r] <= found[r]
    BY <2>2, <2>3, PageTimes
  <2>4. ASSUME ~overlap, NEW q \in AppAsks, q # r, answer[q] = "sent" PROVE found[q] <= found[r]
    <3>1. found[q] <= cache.seen
      BY <2>4 DEF Newer
    <3> QED
      BY <2>2, <2>4, <3>1, PageTimes
  <2>5. ASSUME ~overlap, NEW q \in AppAsks, answer'[q] = "listed" PROVE FALSE
    BY <2>1, <2>5 DEF Newer
  <2> QED
    BY <2>1, <2>3, <2>4, <2>5 DEF Newer, ListTypes
<1>6. ASSUME NEW r \in AppAsks, ShowApps(r) PROVE Newer'
  <2>1. UNCHANGED <<cache, overlap, overtaken>> /\ mine' = mine \ {r} /\ answer'[r] = "over" /\ answer[r] = "sent"
        /\ \A q \in AppAsks : q # r => answer'[q] = answer[q] /\ found'[q] = found[q]
    BY <1>6 DEF ShowApps, ListTypes
  <2> SUFFICES ASSUME ~overlap PROVE Newer'
    BY <2>1 DEF Newer
  <2>2. newest' <= cache.seen
    <3>1. newest <= cache.seen /\ found[r] <= cache.seen
      BY <2>1 DEF Newer
    <3>2. newest' \in {newest, found[r]}
      BY <1>6 DEF ShowApps
    <3> QED
      BY <3>1, <3>2
  <2>3. ~overtaken => allApps'.seen = newest' /\ \A q \in mine' : answer'[q] = "sent" => found'[q] >= newest'
    <3> SUFFICES ASSUME ~overtaken PROVE allApps'.seen = newest' /\ \A q \in mine' : answer'[q] = "sent" => found'[q] >= newest'
      OBVIOUS
    <3>1. CASE r \in mine
      <4>1. mine' = {}
        BY <2>1, <3>1 DEF Chosen
      <4>2. found[r] >= newest
        BY <2>1, <3>1 DEF Newer
      <4>3. allApps'.seen = found[r] /\ newest' = IF found[r] > newest THEN found[r] ELSE newest
        BY <1>6, <3>1 DEF ShowApps
      <4>4. newest' = found[r]
        BY <4>2, <4>3, PageTimes
      <4> QED
        BY <4>1, <4>3, <4>4
    <3>2. CASE r \notin mine
      <4>1. UNCHANGED <<allApps, newest>>
        BY <1>6, <3>2 DEF ShowApps
      <4> QED
        BY <2>1, <3>2, <4>1 DEF Newer, ListTypes
    <3> QED
      BY <3>1, <3>2
  <2> QED
    BY <2>1, <2>2, <2>3 DEF Newer
<1>7. CASE UNCHANGED listVars
  BY <1>7 DEF Newer, listVars
<1>8. QED
  BY <1>1, <1>2, <1>3, <1>4, <1>5, <1>6, <1>7 DEF AppsNext


\* Sources are numbered from one, and a new one is the next.
LEMMA SourceFacts ==
  ASSUME SourceTypes
  PROVE  /\ Cardinality(EventSources) \in Nat /\ MaxBreaks \in Nat
         /\ used \in Nat /\ used <= Cardinality(EventSources) /\ strays \in Nat /\ lost \in Nat
         /\ NoSource \notin EventSources /\ NoSource \notin open["messages"]
         /\ open["messages"] \subseteq EventSources /\ open["log"] \subseteq EventSources
         /\ (More => used + 1 \in EventSources /\ used' \in 0..Cardinality(EventSources)
                     /\ used + 1 # NoSource)
         /\ \A s : One(s) \in {0, 1} /\ (s = NoSource <=> One(s) = 0)
<1>1. Cardinality(EventSources) \in Nat /\ EventSources = 1..Cardinality(EventSources) /\ MaxBreaks \in Nat
  BY PagesAssumption, FS_CardinalityType
<1>2. used \in Nat /\ used <= Cardinality(EventSources) /\ strays \in Nat /\ lost \in Nat
  BY <1>1 DEF SourceTypes
<1>3. NoSource \notin EventSources /\ open["messages"] \subseteq EventSources /\ open["log"] \subseteq EventSources
  <2>1. 0 \notin 1..Cardinality(EventSources)
    BY <1>1
  <2> QED
    BY <1>1, <2>1 DEF NoSource, SourceTypes
<1>4. More => /\ used + 1 \in 1..Cardinality(EventSources) /\ used' \in 0..Cardinality(EventSources)
              /\ used + 1 # NoSource
  BY <1>1, <1>2 DEF More, NoSource
<1>5. \A s : One(s) \in {0, 1} /\ (s = NoSource <=> One(s) = 0)
  BY DEF One
<1> QED
  BY <1>1, <1>2, <1>3, <1>4, <1>5

\* Fewer sources without a page's name are no more of them.
LEMMA LostFewer ==
  ASSUME SourceTypes, NEW T, T \subseteq open["messages"] \ {msgES},
         Cardinality(open["messages"] \ {msgES}) <= lost
  PROVE  Cardinality(T) <= lost
<1>1. IsFiniteSet(open["messages"] \ {msgES})
  BY SourceFacts, PagesAssumption, FS_Subset
<1>2. IsFiniteSet(T) /\ Cardinality(T) <= Cardinality(open["messages"] \ {msgES})
  BY <1>1, FS_Subset
<1>3. Cardinality(T) \in Nat /\ Cardinality(open["messages"] \ {msgES}) \in Nat /\ lost \in Nat
  BY <1>1, <1>2, FS_CardinalityType, SourceFacts
<1> QED
  BY <1>2, <1>3

\* A connection more that broke is one source more at most.
LEMMA LostOneMore ==
  ASSUME SourceTypes, NEW T, NEW s, T \subseteq (open["messages"] \ {msgES}) \cup {s},
         Cardinality(open["messages"] \ {msgES}) <= lost
  PROVE  Cardinality(T) <= lost + 1
<1> DEFINE O == open["messages"] \ {msgES}
<1>1. IsFiniteSet(O)
  BY SourceFacts, PagesAssumption, FS_Subset
<1>2. IsFiniteSet(O \cup {s}) /\ Cardinality(O \cup {s}) \in {Cardinality(O), Cardinality(O) + 1}
  BY <1>1, FS_AddElement
<1>3. IsFiniteSet(T) /\ Cardinality(T) <= Cardinality(O \cup {s})
  BY <1>2, FS_Subset
<1>4. Cardinality(T) \in Nat /\ Cardinality(O) \in Nat /\ lost \in Nat
  BY <1>1, <1>3, FS_CardinalityType, SourceFacts
<1>5. Cardinality(O) <= lost
  OBVIOUS
<1> HIDE DEF O
<1> QED
  BY <1>2, <1>3, <1>4, <1>5

\* Of the page's two sources at most as many are closed as there are.
LEMMA ClosedFew ==
  ASSUME NEW a, NEW b, NEW S, S \subseteq {a, b} \ {NoSource}
  PROVE  /\ Cardinality(S) \in Nat /\ Cardinality(S) <= One(a) + One(b)
         /\ (a \notin S => Cardinality(S) <= One(b)) /\ (b \notin S => Cardinality(S) <= One(a))
<1>1. S \in {{}, {a}, {b}, {a, b}}
  <2>1. CASE a \in S /\ b \in S
    BY <2>1
  <2>2. CASE a \in S /\ b \notin S
    BY <2>2
  <2>3. CASE a \notin S /\ b \in S
    BY <2>3
  <2>4. CASE a \notin S /\ b \notin S
    BY <2>4
  <2> QED
    BY <2>1, <2>2, <2>3, <2>4
<1>2. (a \in S => One(a) = 1) /\ (b \in S => One(b) = 1) /\ One(a) \in {0, 1} /\ One(b) \in {0, 1}
  BY DEF One
<1>3. Cardinality({}) = 0 /\ Cardinality({a}) = 1 /\ Cardinality({b}) = 1
  BY FS_EmptySet, FS_Singleton
<1>4. Cardinality({a, b}) \in {1, 2}
  <2>1. {a, b} = {a} \cup {b} /\ IsFiniteSet({a})
    BY FS_Singleton
  <2> QED
    BY <1>3, <2>1, FS_AddElement
<1>5. CASE S = {}
  BY <1>2, <1>3, <1>5
<1>6. CASE S = {a}
  BY <1>2, <1>3, <1>6
<1>7. CASE S = {b}
  BY <1>2, <1>3, <1>7
<1>8. CASE S = {a, b}
  BY <1>2, <1>4, <1>8
<1> QED
  BY <1>1, <1>5, <1>6, <1>7, <1>8

\* What the streams hold stays of its type.
LEMMA SourceTypesStep ==
  ASSUME SourceTypes, [PageStreamsNext]_sourceVars PROVE SourceTypes'
<1>1. CASE StartMsgStream
  BY <1>1, SourceFacts DEF SourceTypes, StartMsgStream, Opened, Shut
<1>2. CASE ToggleLogs
  BY <1>2, SourceFacts DEF SourceTypes, ToggleLogs, Opened, Shut
<1>3. CASE LogLine
  BY <1>3 DEF SourceTypes, LogLine
<1>4. ASSUME NEW t \in {"messages", "monitor", "chat"}, ShowTab(t) PROVE SourceTypes'
  <2> DEFINE closed == {s \in {msgES} : t # "messages"} \cup {s \in {logES} : t # "monitor"}
  <2>1. Cardinality(closed \ {NoSource}) \in Nat
    BY ClosedFew
  <2>2. strays' \in Nat /\ logES' \in EventSources \cup {NoSource} /\ lost' = lost /\ tab' = t
    BY <1>4, <2>1, SourceFacts DEF ShowTab, SourceTypes
  <2>3. /\ msgES' \in EventSources \cup {NoSource} /\ used' \in 0..Cardinality(EventSources)
        /\ open' \in [{"messages", "log"} -> SUBSET EventSources]
    <3> DEFINE rest == [k \in {"messages", "log"} |-> open[k] \ closed]
    <3>1. rest \in [{"messages", "log"} -> SUBSET EventSources]
      BY SourceFacts
    <3>2. \/ /\ More /\ msgES' = used + 1
             /\ open' = [rest EXCEPT !["messages"] = @ \cup {used + 1}]
          \/ msgES' \in {msgES, NoSource} /\ open' = rest /\ used' = used
      BY <1>4 DEF ShowTab
    <3> HIDE DEF rest
    <3>3. CASE More /\ msgES' = used + 1 /\ open' = [rest EXCEPT !["messages"] = @ \cup {used + 1}]
      BY <3>1, <3>3, SourceFacts
    <3>4. CASE msgES' \in {msgES, NoSource} /\ open' = rest /\ used' = used
      BY <3>1, <3>4 DEF SourceTypes
    <3> QED
      BY <3>2, <3>3, <3>4
  <2> QED
    BY <2>2, <2>3 DEF SourceTypes
<1>5. ASSUME NEW k \in {"messages", "log"}, NEW s \in EventSources, Breaks(k,s) PROVE SourceTypes'
  BY <1>5, SourceFacts DEF SourceTypes, Breaks, Shut
<1>6. CASE UNCHANGED sourceVars
  BY <1>6 DEF SourceTypes, sourceVars
<1>7. QED
  BY <1>1, <1>2, <1>3, <1>4, <1>5, <1>6 DEF PageStreamsNext

\* A source open is the page's or one that broke.
LEMMA SourcedStep ==
  ASSUME SourceInv, [PageStreamsNext]_sourceVars PROVE Sourced'
<1> USE DEF SourceInv
<1>1. CASE StartMsgStream
  <2>1. UNCHANGED <<tab, logES, lost>> /\ tab = "messages" /\ open'["log"] = open["log"]
    BY <1>1 DEF StartMsgStream, Opened, Shut, SourceTypes
  <2>2. CASE msgES # NoSource
    <3>1. msgES' = NoSource /\ strays' = strays + 1 /\ used' = used /\ open'["messages"] = open["messages"] \ {msgES}
      BY <1>1, <2>2 DEF StartMsgStream, Shut, SourceTypes
    <3>2. open'["messages"] \ {msgES'} \subseteq open["messages"] \ {msgES}
      BY <3>1
    <3>3. Cardinality(open'["messages"] \ {msgES'}) <= lost
      BY <3>2, LostFewer DEF Sourced
    <3>4. One(msgES) = 1 /\ One(msgES') = 0
      BY <2>2, <3>1 DEF One
    <3>5. strays' + One(msgES') + One(logES') <= used' + lost'
      BY <2>1, <3>1, <3>4, SourceFacts DEF Sourced
    <3> QED
      BY <2>1, <3>3, <3>5 DEF Sourced
  <2>3. CASE msgES = NoSource
    <3>1. /\ msgES' = used + 1 /\ used' = used + 1 /\ strays' = strays /\ More
          /\ open'["messages"] = open["messages"] \cup {used + 1}
      BY <1>1, <2>3 DEF StartMsgStream, Opened, SourceTypes, More
    <3>2. open'["messages"] \ {msgES'} \subseteq open["messages"] \ {msgES}
      BY <2>3, <3>1, SourceFacts
    <3>3. Cardinality(open'["messages"] \ {msgES'}) <= lost
      BY <3>2, LostFewer DEF Sourced
    <3>4. One(msgES) = 0 /\ One(msgES') = 1
      BY <2>3, <3>1, SourceFacts DEF One
    <3>5. strays' + One(msgES') + One(logES') <= used' + lost'
      BY <2>1, <3>1, <3>4, SourceFacts DEF Sourced
    <3> QED
      BY <2>1, <3>3, <3>5 DEF Sourced
  <2> QED
    BY <2>2, <2>3
<1>2. CASE ToggleLogs
  <2>1. UNCHANGED <<tab, msgES, lost>> /\ tab = "monitor" /\ open'["messages"] = open["messages"]
    BY <1>2 DEF ToggleLogs, Opened, Shut, SourceTypes
  <2>2. CASE logES # NoSource
    <3>1. logES' = NoSource /\ strays' = strays + 1 /\ used' = used /\ open'["log"] = open["log"] \ {logES}
      BY <1>2, <2>2 DEF ToggleLogs, Shut, SourceTypes
    <3>2. One(logES) = 1 /\ One(logES') = 0
      BY <2>2, <3>1 DEF One
    <3>3. strays' + One(msgES') + One(logES') <= used' + lost'
      BY <2>1, <3>1, <3>2, SourceFacts DEF Sourced
    <3> QED
      BY <2>1, <3>1, <3>3 DEF Sourced
  <2>3. CASE logES = NoSource
    <3>1. /\ logES' = used + 1 /\ used' = used + 1 /\ strays' = strays /\ More
          /\ open'["log"] = open["log"] \cup {used + 1}
      BY <1>2, <2>3 DEF ToggleLogs, Opened, SourceTypes, More
    <3>2. open["log"] = {}
      BY <2>3, SourceFacts DEF Sourced
    <3>3. One(logES) = 0 /\ One(logES') = 1
      BY <2>3, <3>1, SourceFacts DEF One
    <3>4. strays' + One(msgES') + One(logES') <= used' + lost'
      BY <2>1, <3>1, <3>3, SourceFacts DEF Sourced
    <3> QED
      BY <2>1, <3>1, <3>2, <3>4 DEF Sourced
  <2> QED
    BY <2>2, <2>3
<1>3. CASE LogLine
  <2>1. UNCHANGED <<tab, msgES, logES, open, used, lost>> /\ strays' = 0
    BY <1>3 DEF LogLine
  <2>2. strays' + One(msgES') + One(logES') <= used' + lost'
    BY <2>1, SourceFacts DEF Sourced
  <2> QED
    BY <2>1, <2>2 DEF Sourced
<1>4. ASSUME NEW t \in {"messages", "monitor", "chat"}, ShowTab(t) PROVE Sourced'
  <2> DEFINE closed == {s \in {msgES} : t # "messages"} \cup {s \in {logES} : t # "monitor"}
  <2>1. /\ tab' = t /\ t # tab /\ lost' = lost /\ strays' = strays + Cardinality(closed \ {NoSource})
        /\ logES' = (IF t = "monitor" THEN logES ELSE NoSource)
    BY <1>4 DEF ShowTab
  <2>2. logES' = NoSource
    <3>1. CASE t = "monitor"
      BY <2>1, <3>1 DEF Sourced
    <3>2. CASE t # "monitor"
      BY <2>1, <3>2
    <3> QED
      BY <3>1, <3>2
  <2>3. open'["log"] = {}
    <3>1. open'["log"] = open["log"] \ closed
      BY <1>4 DEF ShowTab
    <3>2. CASE t = "monitor"
      BY <2>1, <3>1, <3>2, SourceFacts DEF Sourced
    <3>3. CASE t # "monitor"
      BY <3>1, <3>3 DEF Sourced
    <3> QED
      BY <3>2, <3>3
  <2>4. Cardinality(closed \ {NoSource}) \in Nat /\ Cardinality(closed \ {NoSource}) <= One(msgES) + One(logES)
    <3>1. closed \ {NoSource} \subseteq {msgES, logES} \ {NoSource}
      OBVIOUS
    <3> QED
      BY <3>1, ClosedFew
  <2> HIDE DEF closed
  <2>5. CASE t = "messages"
    <3>1. msgES = NoSource
      BY <2>1, <2>5 DEF Sourced
    <3>2. /\ More /\ used' = used + 1 /\ msgES' = used + 1
          /\ open'["messages"] = (open["messages"] \ closed) \cup {used + 1}
      BY <1>4, <2>5, <3>1 DEF ShowTab, More, closed
    <3>3. open'["messages"] \ {msgES'} \subseteq open["messages"] \ {msgES}
      BY <3>1, <3>2, SourceFacts
    <3>4. Cardinality(open'["messages"] \ {msgES'}) <= lost
      BY <3>3, LostFewer DEF Sourced
    <3>5. One(msgES) = 0 /\ One(msgES') = 1 /\ One(logES') = 0
      BY <2>2, <3>1, <3>2, SourceFacts DEF One
    <3>6. strays' + One(msgES') + One(logES') <= used' + lost'
      BY <2>1, <2>4, <3>2, <3>5, SourceFacts DEF Sourced
    <3> QED
      BY <2>1, <2>2, <2>3, <2>5, <3>4, <3>6 DEF Sourced
  <2>6. CASE t # "messages"
    <3>1. msgES' = NoSource /\ used' = used /\ open'["messages"] = open["messages"] \ closed
      BY <1>4, <2>6 DEF ShowTab, closed
    <3>2. open'["messages"] \ {msgES'} \subseteq open["messages"] \ {msgES}
      BY <2>6, <3>1 DEF closed
    <3>3. Cardinality(open'["messages"] \ {msgES'}) <= lost
      BY <3>2, LostFewer DEF Sourced
    <3>4. One(msgES') = 0 /\ One(logES') = 0
      BY <2>2, <3>1 DEF One
    <3>5. strays' + One(msgES') + One(logES') <= used' + lost'
      BY <2>1, <2>4, <3>1, <3>4, SourceFacts DEF Sourced
    <3> QED
      BY <2>1, <2>2, <2>3, <2>6, <3>1, <3>3, <3>5 DEF Sourced
  <2> QED
    BY <2>5, <2>6
<1>5. ASSUME NEW k \in {"messages", "log"}, NEW s \in EventSources, Breaks(k,s) PROVE Sourced'
  <2>1. /\ s \in open[k] /\ lost < MaxBreaks /\ lost' = lost + 1 /\ strays' = strays + 1
        /\ UNCHANGED <<tab, used>>
    BY <1>5 DEF Breaks
  <2>2. lost' <= MaxBreaks
    BY <2>1, SourceFacts
  <2>3. CASE k = "log"
    <3>1. /\ logES' = NoSource /\ msgES' = msgES /\ open'["log"] = open["log"] \ {s}
          /\ open'["messages"] = open["messages"]
      BY <1>5, <2>3 DEF Breaks, Shut, SourceTypes
    <3>2. open["log"] = {s} /\ logES = s
      BY <2>1, <2>3 DEF Sourced
    <3>3. Cardinality(open'["messages"] \ {msgES'}) <= lost + 1
      BY <3>1, LostOneMore DEF Sourced
    <3>4. One(logES') = 0
      BY <3>1 DEF One
    <3>5. strays' + One(msgES') + One(logES') <= used' + lost'
      BY <2>1, <3>1, <3>4, SourceFacts DEF Sourced
    <3> QED
      BY <2>1, <2>2, <3>1, <3>2, <3>3, <3>5 DEF Sourced
  <2>4. CASE k # "log"
    <3>1. msgES' = NoSource /\ UNCHANGED <<logES, open>>
      BY <1>5, <2>4 DEF Breaks
    <3>2. open'["messages"] \ {msgES'} \subseteq (open["messages"] \ {msgES}) \cup {msgES}
      BY <3>1
    <3>3. Cardinality(open'["messages"] \ {msgES'}) <= lost + 1
      BY <3>2, LostOneMore DEF Sourced
    <3>4. One(msgES') = 0
      BY <3>1 DEF One
    <3>5. strays' + One(msgES') + One(logES') <= used' + lost'
      BY <2>1, <3>1, <3>4, SourceFacts DEF Sourced
    <3> QED
      BY <2>1, <2>2, <3>1, <3>3, <3>5 DEF Sourced
  <2> QED
    BY <2>3, <2>4
<1>6. CASE UNCHANGED sourceVars
  BY <1>6 DEF Sourced, sourceVars
<1>7. QED
  BY <1>1, <1>2, <1>3, <1>4, <1>5, <1>6 DEF PageStreamsNext

\* Each half of the pages leaves the other's state alone.
LEMMA PagesStep ==
  ASSUME [AppsNext \/ PageStreamsNext]_pagesVars
  PROVE  [AppsNext]_listVars /\ [PageStreamsNext]_sourceVars
<1>1. CASE AppsNext
  BY <1>1 DEF AppsNext, PagesTick, LoadApps, Hit, ListPackages, StoreList, ShowApps, sourceVars
<1>2. CASE PageStreamsNext
  BY <1>2 DEF PageStreamsNext, StartMsgStream, ToggleLogs, LogLine, ShowTab, Breaks, listVars
<1>3. CASE UNCHANGED pagesVars
  BY <1>3 DEF pagesVars, listVars, sourceVars
<1> QED
  BY <1>1, <1>2, <1>3

\* The pages' invariant holds at first.
LEMMA PagesInitInv ==
  ASSUME PagesInit PROVE ListInv /\ SourceInv
<1> USE DEF PagesInit
<1>1. ListTypes
  <2>1. 0 \in 0..MaxTicks /\ "user" \in AppFilters
    BY PagesAssumption
  <2>2. NoList \in AppLists
    BY <2>1 DEF AppLists, NoList
  <2> QED
    BY <2>1, <2>2 DEF ListTypes
<1>2. Aged
  BY PageTimes, <1>1 DEF Aged, NoList
<1>3. Chosen
  BY DEF Chosen
<1>4. Newer
  BY DEF Newer, NoList
<1>5. SourceTypes
  BY PagesAssumption, FS_CardinalityType DEF SourceTypes
<1>6. Sourced
  <2>1. One(NoSource) = 0 /\ open["messages"] = {} /\ open["log"] = {}
    BY DEF One
  <2>2. Cardinality(open["messages"] \ {msgES}) = 0
    BY <2>1, FS_EmptySet
  <2> QED
    BY <2>1, <2>2, PagesAssumption DEF Sourced
<1> QED
  BY <1>1, <1>2, <1>3, <1>4, <1>5, <1>6 DEF ListInv, SourceInv

\* A list shown is of the filter chosen and recent, and the streams are those
\* of the tab.
LEMMA PagesInvShown ==
  ASSUME ListInv, SourceInv PROVE PagesTypeOK /\ DeviceShown
<1> USE DEF ListInv, SourceInv
<1>1. AppsFollow
  BY DEF AppsFollow, Aged, Chosen, Newer
<1>2. StreamsFollow
  <2>1. tab # "monitor" => open["log"] = {}
    BY SourceFacts DEF Sourced
  <2> QED
    BY <2>1 DEF StreamsFollow, Sourced
<1>3. {strays, lost} \subseteq 0..MaxBreaks + Cardinality(EventSources)
  <2>1. strays + One(msgES) + One(logES) <= used + lost /\ lost <= MaxBreaks
    BY DEF Sourced
  <2>2. One(msgES) \in {0, 1} /\ One(logES) \in {0, 1}
    BY SourceFacts
  <2>3. strays <= MaxBreaks + Cardinality(EventSources) /\ lost <= MaxBreaks + Cardinality(EventSources)
    BY <2>1, <2>2, SourceFacts
  <2> QED
    BY <2>3, SourceFacts
<1>4. PagesTypeOK
  BY <1>3 DEF PagesTypeOK, ListTypes, SourceTypes
<1> QED
  BY <1>1, <1>2, <1>4 DEF DeviceShown

\* The invariant of the pages holds in every state.
LEMMA PagesInvAlways == PagesSpec => [](ListInv /\ SourceInv)
<1>1. PagesInit => ListInv /\ SourceInv
  BY PagesInitInv
<1>2. ListInv /\ SourceInv /\ [AppsNext \/ PageStreamsNext]_pagesVars => (ListInv /\ SourceInv)'
  <2> SUFFICES ASSUME ListInv, SourceInv, [AppsNext \/ PageStreamsNext]_pagesVars
               PROVE  (ListInv /\ SourceInv)'
    OBVIOUS
  <2>1. [AppsNext]_listVars /\ [PageStreamsNext]_sourceVars
    BY PagesStep
  <2>2. ListTypes' /\ Aged' /\ Chosen' /\ Newer'
    BY <2>1, ListTypesStep, AgedStep, ChosenStep, NewerStep DEF ListInv
  <2>3. SourceTypes' /\ Sourced'
    BY <2>1, SourceTypesStep, SourcedStep DEF SourceInv
  <2> QED
    BY <2>2, <2>3 DEF ListInv, SourceInv
<1> QED
  BY <1>1, <1>2, PTL DEF PagesSpec

\* What the pages about the device hold stays of its type, and the bounds on
\* logcats that write for nobody hold: as many as sources made and connections
\* broken.
THEOREM PagesTypeCorrect == PagesSpec => []PagesTypeOK
<1>1. ListInv /\ SourceInv => PagesTypeOK
  BY PagesInvShown
<1> QED
  BY <1>1, PagesInvAlways, PTL

\* The page shows the list of the filter chosen, none older than the time it is
\* kept and the time a listing takes, none behind one shown before; every stream
\* open is one the page holds and of its tab, but for those whose connection
\* broke: for any number of requests, filters, sources and breaks.
THEOREM PagesStayShown == PagesSpec => []DeviceShown
<1>1. ListInv /\ SourceInv => DeviceShown
  BY PagesInvShown
<1> QED
  BY <1>1, PagesInvAlways, PTL

-----------------------------------------------------------------------------
(* Texts and calls that leave the phone. Of the quota: an attempt that     *)
(* counts is in the tool's history as long as it matters, and no window    *)
(* of the clock holds more of them than the limit. Of the rest: what a     *)
(* text's file, its lines in the log and what is told of it can be.        *)

\* The attempt a text made or is about to make: <<life, time>>.
Made(t) == IF told[t] = "counted" THEN <<life, msgClock>> ELSE broadcast[t]

MadeIn(p, l, last, w) ==
  {t \in Texts : /\ Made(t) # <<>> /\ Pool(kind[t]) = p
                 /\ Made(t)[1] = l /\ Made(t)[2] \in (last - w)..last}

SentTypes ==
  /\ DOMAIN broadcast = Texts /\ broadcast = [t \in Texts |-> broadcast[t]]
  /\ \A t \in Texts : broadcast[t] # <<>> => broadcast[t] \in Nat \X (0..MaxClock)

\* A text that has not begun has left nothing.
Unbegun ==
  /\ \A t \in Texts : t > begun => told[t] = "new"
  /\ \A t \in Texts :
       /\ told[t] \in {"new", "counted", "refused", "undispatched"} => broadcast[t] = <<>>
       /\ told[t] \in {"new", "counted", "refused", "undispatched", "dialled"} =>
            radio[t] = "none" /\ file[t] = "none" /\ t \notin pending
  /\ \A p \in Pools : \A e \in quota[p] : e[1] <= begun /\ e[2] <= msgClock

Remembered ==
  \A t \in Texts : Made(t) # <<>> =>
    /\ Made(t)[1] <= life /\ Made(t)[2] <= msgClock
    /\ Made(t)[1] = life /\ Made(t)[2] >= msgClock - Day => <<t, Made(t)[2]>> \in quota[Pool(kind[t])]

\* Of a window w and its limit n.
Within(w, n) ==
  /\ \A p \in Pools : Cardinality({e \in quota[p] : e[2] >= msgClock - w}) <= n
  /\ \A p \in Pools, l \in Nat, last \in Nat : Cardinality(MadeIn(p, l, last, w)) <= n

\* A text's file says what the radio did, once the command has reached the
\* shim, and the model is told what the file said.
Reported ==
  \A t \in Texts :
    /\ t \in pending => radio[t] = "none" /\ file[t] = "none" /\ told[t] # "failed"
    /\ file[t] = "queued" => radio[t] # "none"
    /\ file[t] = "sent" => radio[t] \in {"sent", "delivered", "undelivered"}
    /\ file[t] = "delivered" => radio[t] = "delivered"
    /\ file[t] = "error" => radio[t] \in {"none", "error", "undelivered"}
    /\ radio[t] \notin {"none", "accepted"} /\ t \notin stale => file[t] # "queued"

Logged ==
  \A t \in Texts :
    /\ t \in pending \/ radio[t] # "none" => <<t, "attempt">> \in audit
    /\ t \in pending => kind[t] \in {"blank", "plain"}
    /\ radio[t] # "none" => kind[t] = "plain"
    /\ told[t] = "counted" => kind[t] # "bad"
    /\ told[t] \in {"new", "counted", "refused"} => \A x : <<t, x>> \notin audit
    /\ told[t] \notin {"sent", "failed", "unknown"} => \A x : <<t, x>> \in audit => x = "attempt"

\* Of a text's lines in the logs, all but one tell of the attempt.
LoggedTwice ==
  \A t \in Texts : \A x, y :
    <<t, x>> \in audit /\ <<t, y>> \in audit => x = "attempt" \/ y = "attempt" \/ x = y

MsgTypes == MsgTypeOK /\ SentTypes
Quotas == Remembered /\ Within(Hour, PerHour) /\ Within(Day, PerDay)
MsgInv == MsgTypes /\ Unbegun /\ Quotas /\ Reported /\ ToldTrue /\ Logged /\ LoggedTwice

\* The limits and the clock are numbers.
LEMMA MsgNumbers ==
  ASSUME MsgTypeOK
  PROVE  /\ MaxTexts \in Nat /\ PerHour \in Nat /\ PerDay \in Nat /\ Hour \in Nat /\ Day \in Nat
         /\ MaxClock \in Nat /\ MaxMisses \in Nat /\ Hour <= Day
         /\ msgClock \in Nat /\ life \in Nat /\ begun \in Nat /\ misses \in Nat
         /\ IsFiniteSet(Texts) /\ Texts \subseteq Nat /\ \A k : Pool(k) \in Pools
<1>1. /\ MaxTexts \in Nat /\ PerHour \in Nat /\ PerDay \in Nat /\ Hour \in Nat /\ Day \in Nat
      /\ MaxClock \in Nat /\ MaxMisses \in Nat /\ Hour <= Day
  BY MessagesAssumption
<1>2. msgClock \in Nat /\ life \in Nat /\ begun \in Nat /\ misses \in Nat
  BY <1>1 DEF MsgTypeOK
<1>3. IsFiniteSet(Texts) /\ Texts \subseteq Nat
  <2>1. 1 \in Int /\ MaxTexts \in Int
    BY <1>1
  <2> QED
    BY <2>1, FS_Interval DEF Texts
<1>4. \A k : Pool(k) \in Pools
  BY DEF Pool, Pools
<1> QED
  BY <1>1, <1>2, <1>3, <1>4

\* What is known of texts and calls stays of its type.
LEMMA MsgTypesStep ==
  ASSUME MsgTypes, [MsgNext]_msgVars PROVE MsgTypes'
<1> USE DEF MsgTypes
<1>1. ASSUME NEW k \in TextKinds, Begin(k) PROVE MsgTypes'
  <2>1. /\ begun' = begun + 1 /\ begun + 1 \in Texts /\ kind' = [kind EXCEPT ![begun + 1] = k]
        /\ UNCHANGED <<msgClock, life, broadcast, audit, shimSide, misses>>
        /\ told' \in {[told EXCEPT ![begun + 1] = "refused"], [told EXCEPT ![begun + 1] = "counted"]}
    BY <1>1 DEF Begin
  <2>2. begun' \in 0..MaxTexts
    BY <2>1, MsgNumbers DEF Texts
  <2>3. quota' \in [Pools -> SUBSET (Texts \X (0..MaxClock))]
    <3>1. /\ Usage(quota[Pool(k)]) \in SUBSET (Texts \X (0..MaxClock)) /\ msgClock \in 0..MaxClock
          /\ Pool(k) \in Pools
      BY MsgNumbers DEF MsgTypeOK, Usage
    <3>2. quota' \in {quota, [quota EXCEPT ![Pool(k)] = Usage(quota[Pool(k)])],
                      [quota EXCEPT ![Pool(k)] = Usage(quota[Pool(k)]) \cup {<<begun + 1, msgClock>>}]}
      BY <1>1 DEF Begin
    <3> QED
      BY <2>1, <3>1, <3>2 DEF MsgTypeOK
  <2> QED
    BY <2>1, <2>2, <2>3 DEF MsgTypeOK, SentTypes, shimSide
<1>2. ASSUME NEW t \in Texts, Dispatch(t) PROVE MsgTypes'
  <2>1. /\ UNCHANGED <<begun, kind, quota, msgClock, life, file, radio, thread, stale>>
        /\ audit' \in {audit, audit \cup {<<t, "attempt">>}} /\ pending' \in {pending, pending \cup {t}}
        /\ \/ broadcast' = broadcast
           \/ broadcast' = [broadcast EXCEPT ![t] = <<life, msgClock>>]
    BY <1>2 DEF Dispatch
  <2>2. /\ told' \in [Texts -> {"new", "counted", "polling", "sent", "failed", "unknown",
                                 "refused", "undispatched", "dialled", "killed"}]
        /\ misses' \in 0..MaxMisses
    BY <1>2, MsgNumbers DEF Dispatch, Miss, MsgTypeOK
  <2>3. /\ audit' \subseteq Texts \X {"attempt", "timeout", "sent", "delivered", "error"}
        /\ pending' \subseteq Texts
    BY <2>1 DEF MsgTypeOK
  <2>4. SentTypes'
    <3>1. <<life, msgClock>> \in Nat \X (0..MaxClock)
      BY DEF MsgTypeOK
    <3> QED
      BY <2>1, <3>1 DEF SentTypes
  <2> QED
    BY <2>1, <2>2, <2>3, <2>4 DEF MsgTypeOK
<1>3. ASSUME NEW t \in Texts, Look(t) PROVE MsgTypes'
  <2>1. told'[t] \in {"failed", "sent"} /\ told' = [told EXCEPT ![t] = told'[t]]
        /\ audit' = audit \cup {<<t, file[t]>>} /\ file[t] \in {"sent", "delivered", "error"}
        /\ UNCHANGED <<agentVars, msgClock, life, shimSide, misses>>
    BY <1>3 DEF Look, MsgTypeOK
  <2> QED
    BY <2>1 DEF MsgTypeOK, SentTypes, agentVars, shimSide
<1>4. ASSUME NEW t \in Texts, TimeOut(t) PROVE MsgTypes'
  BY <1>4, MsgNumbers, SMTT(30)
    DEF TimeOut, MsgTypeOK, SentTypes, Miss, WriteResult, Accept, agentVars, shimSide
<1>5. ASSUME NEW t \in Texts, OnCommand(t) PROVE MsgTypes'
  <2>1. misses' \in 0..MaxMisses
    BY <1>5, MsgNumbers DEF OnCommand, Miss, WriteResult, Accept, MsgTypeOK
  <2> QED
    BY <1>5, <2>1 DEF OnCommand, MsgTypeOK, SentTypes, WriteResult, Accept, agentVars
<1>6. ASSUME NEW t \in Texts, Lost(t) PROVE MsgTypes'
  <2>1. misses' \in 0..MaxMisses
    BY <1>6, MsgNumbers DEF Lost, Miss, MsgTypeOK
  <2> QED
    BY <1>6, <2>1 DEF Lost, MsgTypeOK, SentTypes, agentVars
<1>7. ASSUME NEW t \in Texts, NEW k \in {"sent", "delivered"}, NEW ok \in BOOLEAN, OnResult(t,k,ok) PROVE MsgTypes'
  <2>1. misses' \in 0..MaxMisses
    BY <1>7, MsgNumbers DEF OnResult, Miss, WriteResult, Accept, MsgTypeOK
  <2> QED
    BY <1>7, <2>1, SMTT(30) DEF OnResult, MsgTypeOK, SentTypes, WriteResult, Accept, agentVars
<1>8. CASE Restart
  <2>1. life' \in Nat /\ misses' \in 0..MaxMisses
    BY <1>8, MsgNumbers DEF Restart, Miss, MsgTypeOK
  <2> QED
    BY <1>8, <2>1 DEF Restart, MsgTypeOK, SentTypes, shimSide
<1>9. CASE MsgTick
  <2>1. msgClock' \in 0..MaxClock
    BY <1>9, MsgNumbers DEF MsgTick, MsgTypeOK
  <2> QED
    BY <1>9, <2>1 DEF MsgTick, MsgTypeOK, SentTypes, agentVars, shimSide
<1>10. CASE UNCHANGED msgVars
  BY <1>10 DEF MsgTypeOK, SentTypes, msgVars
<1>11. QED
  BY <1>1, <1>2, <1>3, <1>4, <1>5, <1>6, <1>7, <1>8,
     <1>9, <1>10 DEF MsgNext

\* A text that has not begun leaves nothing, and one that was refused nothing either.
LEMMA UnbegunStep ==
  ASSUME MsgTypes, Unbegun, [MsgNext]_msgVars PROVE Unbegun'
<1> USE DEF MsgTypes, Unbegun
<1>1. ASSUME NEW k \in TextKinds, Begin(k) PROVE Unbegun'
  <2>1. /\ begun' = begun + 1 /\ begun + 1 \in Texts /\ told[begun + 1] = "new"
        /\ UNCHANGED <<msgClock, broadcast, radio, file, pending>>
        /\ told'[begun + 1] \in {"refused", "counted"} /\ \A t \in Texts : t # begun + 1 => told'[t] = told[t]
    <3>1. begun + 1 > begun
      BY MsgNumbers
    <3> QED
      BY <1>1, <3>1 DEF Begin, MsgTypeOK, shimSide
  <2>2. \A p \in Pools : \A e \in quota'[p] : e \in quota[p] \/ e = <<begun + 1, msgClock>>
    <3>1. quota' \in {quota, [quota EXCEPT ![Pool(k)] = Usage(quota[Pool(k)])],
                      [quota EXCEPT ![Pool(k)] = Usage(quota[Pool(k)]) \cup {<<begun + 1, msgClock>>}]}
      BY <1>1 DEF Begin
    <3> QED
      BY <3>1 DEF MsgTypeOK, Usage
  <2>3. \A t \in Texts : t > begun' => t > begun /\ t # begun + 1
    BY <2>1, MsgNumbers
  <2>4. \A p \in Pools : \A e \in quota'[p] : e[1] <= begun' /\ e[2] <= msgClock'
    <3> SUFFICES ASSUME NEW p \in Pools, NEW e \in quota'[p] PROVE e[1] <= begun + 1 /\ e[2] <= msgClock
      BY <2>1
    <3>1. CASE e \in quota[p]
      <4>1. e[1] <= begun /\ e[2] <= msgClock /\ e[1] \in Texts
        BY <3>1 DEF MsgTypeOK
      <4> QED
        BY <4>1, MsgNumbers, SMTT(30)
    <3>2. CASE e = <<begun + 1, msgClock>>
      BY <3>2, MsgNumbers
    <3> QED
      BY <2>2, <3>1, <3>2
  <2> QED
    BY <2>1, <2>3, <2>4
<1>2. ASSUME NEW t \in Texts, Dispatch(t) PROVE Unbegun'
  <2>1. /\ told[t] = "counted" /\ UNCHANGED <<begun, quota, msgClock, file, radio>>
        /\ \/ told'[t] = "undispatched" /\ UNCHANGED <<broadcast, pending>>
           \/ told'[t] = "polling"
           \/ told'[t] = "dialled" /\ UNCHANGED pending
        /\ \A q \in Texts : q # t => told'[q] = told[q] /\ broadcast'[q] = broadcast[q]
        /\ \A q \in Texts : q # t => (q \in pending' => q \in pending)
    BY <1>2 DEF Dispatch, MsgTypeOK, SentTypes
  <2> QED
    BY <2>1
<1>3. ASSUME NEW t \in Texts, Look(t) PROVE Unbegun'
  <2>1. /\ told[t] = "polling" /\ told'[t] \in {"failed", "sent", "unknown"}
        /\ UNCHANGED <<begun, quota, broadcast, msgClock, file, radio, pending>>
        /\ \A q \in Texts : q # t => told'[q] = told[q]
    BY <1>3 DEF Look, MsgTypeOK, agentVars, shimSide
  <2> QED
    BY <2>1
<1>4. ASSUME NEW t \in Texts, TimeOut(t) PROVE Unbegun'
  <2>1. /\ told[t] = "polling" /\ told'[t] \in {"failed", "sent", "unknown"}
        /\ UNCHANGED <<begun, quota, broadcast, msgClock, file, radio, pending>>
        /\ \A q \in Texts : q # t => told'[q] = told[q]
    BY <1>4 DEF TimeOut, MsgTypeOK, agentVars, shimSide
  <2> QED
    BY <2>1
<1>5. ASSUME NEW t \in Texts, OnCommand(t) PROVE Unbegun'
  <2>1. /\ t \in pending /\ pending' = pending \ {t} /\ UNCHANGED <<begun, quota, broadcast, msgClock, told>>
        /\ \A q \in Texts : q # t => radio'[q] = radio[q] /\ file'[q] = file[q]
    BY <1>5 DEF OnCommand, Accept, WriteResult, MsgTypeOK, agentVars
  <2> QED
    BY <2>1
<1>6. ASSUME NEW t \in Texts, Lost(t) PROVE Unbegun'
  BY <1>6 DEF Lost, agentVars
<1>7. ASSUME NEW t \in Texts, NEW k \in {"sent", "delivered"}, NEW ok \in BOOLEAN, OnResult(t,k,ok) PROVE Unbegun'
  <2>1. /\ radio[t] \in {"accepted", "sent"} /\ UNCHANGED <<begun, quota, broadcast, msgClock, told, pending>>
        /\ \A q \in Texts : q # t => radio'[q] = radio[q] /\ file'[q] = file[q]
    BY <1>7 DEF OnResult, WriteResult, MsgTypeOK, agentVars
  <2> QED
    BY <2>1
<1>8. CASE Restart
  <2>1. UNCHANGED <<begun, msgClock, broadcast, file, radio, pending>> /\ (\A p \in Pools : quota'[p] = {})
        /\ \A t \in Texts : told'[t] = (IF told[t] \in {"counted", "polling"} THEN "killed" ELSE told[t])
    BY <1>8 DEF Restart, shimSide
  <2> QED
    BY <2>1
<1>9. CASE MsgTick
  <2>1. msgClock' = msgClock + 1 /\ UNCHANGED <<begun, quota, broadcast, told, file, radio, pending>>
    BY <1>9 DEF MsgTick, agentVars, shimSide
  <2>2. \A p \in Pools : \A e \in quota[p] : e[2] <= msgClock + 1
    <3> SUFFICES ASSUME NEW p \in Pools, NEW e \in quota[p] PROVE e[2] <= msgClock + 1
      OBVIOUS
    <3>1. e[2] <= msgClock /\ e[2] \in 0..MaxClock
      BY DEF MsgTypeOK
    <3> QED
      BY <3>1, MsgNumbers
  <2> QED
    BY <2>1, <2>2
<1>10. CASE UNCHANGED msgVars
  BY <1>10 DEF msgVars
<1>11. QED
  BY <1>1, <1>2, <1>3, <1>4, <1>5, <1>6, <1>7, <1>8,
     <1>9, <1>10 DEF MsgNext

\* Every attempt of this life that still matters is in the history.
LEMMA RememberedStep ==
  ASSUME MsgTypes, Unbegun, Remembered, [MsgNext]_msgVars PROVE Remembered'
<1> USE DEF MsgTypes
<1>1. ASSUME NEW k \in TextKinds, Begin(k) PROVE Remembered'
  <2>0. PICK n \in Texts : n = begun + 1
    BY <1>1 DEF Begin
  <2>1. /\ told[n] = "new" /\ kind'[n] = k
        /\ UNCHANGED <<msgClock, life, broadcast>>
        /\ \A t \in Texts : t # n => told'[t] = told[t] /\ kind'[t] = kind[t]
    <3>1. n > begun
      BY <2>0, MsgNumbers
    <3> QED
      BY <1>1, <2>0, <3>1 DEF Begin, MsgTypeOK, Unbegun
  <2>2. /\ \A p \in Pools : \A e \in quota[p] : e[2] >= msgClock - Day => e \in quota'[p]
        /\ told'[n] \in {"refused", "counted"}
        /\ told'[n] = "counted" => <<n, msgClock>> \in quota'[Pool(k)]
    BY <1>1, <2>0, MsgNumbers DEF Begin, Usage, MsgTypeOK
  <2>3. \A t \in Texts : t # n => Made(t)' = Made(t)
    BY <2>1 DEF Made
  <2>4. CASE told'[n] = "counted"
    <3>1. Made(n)' = <<life, msgClock>>
      BY <2>1, <2>4 DEF Made
    <3> SUFFICES ASSUME NEW t \in Texts, Made(t)' # <<>>
                 PROVE  /\ Made(t)'[1] <= life /\ Made(t)'[2] <= msgClock
                        /\ Made(t)'[1] = life /\ Made(t)'[2] >= msgClock - Day
                             => <<t, Made(t)'[2]>> \in quota'[Pool(kind'[t])]
      BY <2>1 DEF Remembered
    <3>2. CASE t = n
      BY <2>1, <2>2, <2>4, <3>1, <3>2, MsgNumbers, SMTT(30)
    <3>3. CASE t # n
      BY <2>1, <2>2, <2>3, <3>3, MsgNumbers DEF Remembered
    <3> QED
      BY <3>2, <3>3
  <2>5. CASE told'[n] = "refused"
    <3>1. Made(n)' = <<>>
      BY <2>1, <2>5 DEF Made, Unbegun
    <3> QED
      BY <2>1, <2>2, <2>3, <3>1, MsgNumbers DEF Remembered
  <2> QED
    BY <2>2, <2>4, <2>5
<1>2. ASSUME NEW t \in Texts, Dispatch(t) PROVE Remembered'
  <2>1. /\ told[t] = "counted" /\ UNCHANGED <<kind, quota, msgClock, life>>
        /\ \/ told'[t] = "undispatched" /\ broadcast' = broadcast
           \/ told'[t] \in {"polling", "dialled"} /\ broadcast'[t] = <<life, msgClock>>
        /\ \A q \in Texts : q # t => told'[q] = told[q] /\ broadcast'[q] = broadcast[q]
    BY <1>2 DEF Dispatch, MsgTypeOK, SentTypes
  <2>2. \A q \in Texts : q # t => Made(q)' = Made(q)
    BY <2>1 DEF Made
  <2>3. Made(t)' \in {Made(t), <<>>}
    BY <2>1 DEF Made, Unbegun
  <2> QED
    BY <2>1, <2>2, <2>3 DEF Remembered
<1>3. ASSUME NEW t \in Texts, Look(t) PROVE Remembered'
  <2>1. /\ told[t] = "polling" /\ told'[t] \in {"failed", "sent", "unknown"}
        /\ UNCHANGED <<kind, quota, broadcast, msgClock, life>>
        /\ \A q \in Texts : q # t => told'[q] = told[q]
    BY <1>3 DEF Look, MsgTypeOK, agentVars
  <2>2. \A q \in Texts : Made(q)' = Made(q)
    BY <2>1 DEF Made
  <2> QED
    BY <2>1, <2>2 DEF Remembered
<1>4. ASSUME NEW t \in Texts, TimeOut(t) PROVE Remembered'
  <2>1. /\ told[t] = "polling" /\ told'[t] \in {"failed", "sent", "unknown"}
        /\ UNCHANGED <<kind, quota, broadcast, msgClock, life>>
        /\ \A q \in Texts : q # t => told'[q] = told[q]
    BY <1>4 DEF TimeOut, MsgTypeOK, agentVars
  <2>2. \A q \in Texts : Made(q)' = Made(q)
    BY <2>1 DEF Made
  <2> QED
    BY <2>1, <2>2 DEF Remembered
<1>5. ASSUME NEW t \in Texts, OnCommand(t) PROVE Remembered'
  <2>1. UNCHANGED <<told, kind, quota, broadcast, msgClock, life>>
    BY <1>5 DEF OnCommand, agentVars
  <2>2. \A q \in Texts : Made(q)' = Made(q)
    BY <2>1 DEF Made
  <2> QED
    BY <2>1, <2>2 DEF Remembered
<1>6. ASSUME NEW t \in Texts, Lost(t) PROVE Remembered'
  <2>1. UNCHANGED <<told, kind, quota, broadcast, msgClock, life>>
    BY <1>6 DEF Lost, agentVars
  <2>2. \A q \in Texts : Made(q)' = Made(q)
    BY <2>1 DEF Made
  <2> QED
    BY <2>1, <2>2 DEF Remembered
<1>7. ASSUME NEW t \in Texts, NEW k \in {"sent", "delivered"}, NEW ok \in BOOLEAN, OnResult(t,k,ok) PROVE Remembered'
  <2>1. UNCHANGED <<told, kind, quota, broadcast, msgClock, life>>
    BY <1>7 DEF OnResult, agentVars
  <2>2. \A q \in Texts : Made(q)' = Made(q)
    BY <2>1 DEF Made
  <2> QED
    BY <2>1, <2>2 DEF Remembered
<1>8. CASE Restart
  <2>1. /\ UNCHANGED <<kind, msgClock, broadcast>> /\ life' = life + 1
        /\ \A t \in Texts : told'[t] = (IF told[t] \in {"counted", "polling"} THEN "killed" ELSE told[t])
    BY <1>8 DEF Restart
  <2>2. \A t \in Texts : Made(t)' \in {Made(t), <<>>}
    BY <2>1 DEF Made, Unbegun
  <2>3. \A t \in Texts : Made(t) # <<>> => Made(t)[1] \in Nat
    BY MsgNumbers DEF Made, SentTypes
  <2>4. \A t \in Texts : Made(t)' # <<>> => Made(t)'[1] <= life' /\ Made(t)'[1] # life' /\ Made(t)'[2] <= msgClock'
    <3> SUFFICES ASSUME NEW t \in Texts, Made(t)' # <<>>
                 PROVE  Made(t)'[1] <= life + 1 /\ Made(t)'[1] # life + 1 /\ Made(t)'[2] <= msgClock
      BY <2>1
    <3>1. Made(t)' = Made(t) /\ Made(t) # <<>>
      BY <2>2
    <3>2. Made(t)[1] \in Nat /\ Made(t)[1] <= life /\ Made(t)[2] <= msgClock
      BY <2>3, <3>1 DEF Remembered
    <3>3. Made(t)[1] <= life + 1 /\ Made(t)[1] # life + 1
      BY <3>2, MsgNumbers, SMTT(30)
    <3> QED
      BY <3>1, <3>2, <3>3
  <2> QED
    BY <2>4 DEF Remembered
<1>9. CASE MsgTick
  <2>1. /\ msgClock' = msgClock + 1 /\ UNCHANGED <<kind, quota, broadcast, told, life>>
        /\ \A t \in Texts : told[t] # "counted"
    BY <1>9 DEF MsgTick, agentVars
  <2>2. \A t \in Texts : Made(t)' = Made(t)
    BY <2>1 DEF Made
  <2>3. \A t \in Texts : Made(t) # <<>> => Made(t)[2] \in Nat
    BY <2>1, MsgNumbers DEF Made, SentTypes
  <2>4. ASSUME NEW t \in Texts, Made(t) # <<>>
        PROVE  /\ Made(t)[1] <= life /\ Made(t)[2] <= msgClock'
               /\ Made(t)[1] = life /\ Made(t)[2] >= msgClock' - Day => <<t, Made(t)[2]>> \in quota[Pool(kind[t])]
    <3>1. /\ Made(t)[1] <= life /\ Made(t)[2] <= msgClock
          /\ Made(t)[1] = life /\ Made(t)[2] >= msgClock - Day => <<t, Made(t)[2]>> \in quota[Pool(kind[t])]
      BY <2>4 DEF Remembered
    <3>2. /\ (Made(t)[2] <= msgClock => Made(t)[2] <= msgClock')
          /\ (Made(t)[2] >= msgClock' - Day => Made(t)[2] >= msgClock - Day)
      BY <2>1, <2>3, <2>4, MsgNumbers, SMTT(30)
    <3> QED
      BY <3>1, <3>2
  <2> SUFFICES ASSUME NEW t \in Texts, Made(t)' # <<>>
               PROVE  /\ Made(t)'[1] <= life' /\ Made(t)'[2] <= msgClock'
                      /\ Made(t)'[1] = life' /\ Made(t)'[2] >= msgClock' - Day
                           => <<t, Made(t)'[2]>> \in quota'[Pool(kind'[t])]
    BY DEF Remembered
  <2>5. Made(t)' = Made(t) /\ Made(t) # <<>>
    BY <2>2
  <2>6. kind' = kind /\ quota' = quota /\ life' = life
    BY <2>1
  <2>7. /\ Made(t)[1] <= life /\ Made(t)[2] <= msgClock'
        /\ Made(t)[1] = life /\ Made(t)[2] >= msgClock' - Day => <<t, Made(t)[2]>> \in quota[Pool(kind[t])]
    BY <2>4, <2>5
  <2> QED
    BY ONLY <2>5, <2>6, <2>7
<1>10. CASE UNCHANGED msgVars
  BY <1>10 DEF Remembered, Made, msgVars
<1>11. QED
  BY <1>1, <1>2, <1>3, <1>4, <1>5, <1>6, <1>7, <1>8,
     <1>9, <1>10 DEF MsgNext


AttemptsFinite ==
  /\ \A S : S \subseteq Texts => IsFiniteSet(S) /\ Cardinality(S) \in Nat
  /\ \A p \in Pools : \A S : S \subseteq quota[p] => IsFiniteSet(S) /\ Cardinality(S) \in Nat

\* Of a window that ends now or later.
HistoryCovers ==
  \A w \in Nat, p \in Pools, last \in Nat : w <= Day /\ last >= msgClock =>
    Cardinality(MadeIn(p, life, last, w)) <= Cardinality({e \in quota[p] : e[2] >= msgClock - w})

\* Attempts and texts are finite in number, and fewer of them are no more.
LEMMA MsgFinite == MsgTypes => AttemptsFinite
<1> SUFFICES ASSUME MsgTypes PROVE AttemptsFinite
  OBVIOUS
<1>1. IsFiniteSet(Texts) /\ IsFiniteSet(0..MaxClock)
  <2>1. 0 \in Int /\ MaxClock \in Int
    BY MsgNumbers DEF MsgTypes
  <2> QED
    BY <2>1, MsgNumbers, FS_Interval DEF MsgTypes
<1>2. IsFiniteSet(Texts \X (0..MaxClock))
  BY <1>1, FS_Product
<1>3. \A p \in Pools : quota[p] \subseteq Texts \X (0..MaxClock)
  BY DEF MsgTypes, MsgTypeOK
<1> QED
  BY <1>1, <1>2, <1>3, FS_Subset, FS_CardinalityType DEF AttemptsFinite

\* A window that forgets attempts, or whose texts were not sent after all, stays
\* within its limit.
LEMMA WithinFewer ==
  ASSUME MsgTypes, NEW w \in Nat, NEW n \in Nat, Within(w, n),
         \A p \in Pools : {e \in quota'[p] : e[2] >= msgClock' - w}
                            \subseteq {e \in quota[p] : e[2] >= msgClock - w},
         \A t \in Texts : Made(t)' # <<>> => Made(t)' = Made(t) /\ kind'[t] = kind[t]
  PROVE  Within(w, n)'
<1>1. ASSUME NEW S, NEW T, S \subseteq T, IsFiniteSet(T), Cardinality(T) <= n PROVE Cardinality(S) <= n
  <2>1. Cardinality(S) <= Cardinality(T) /\ IsFiniteSet(S)
    BY <1>1, FS_Subset
  <2>2. Cardinality(S) \in Nat /\ Cardinality(T) \in Nat
    BY <1>1, <2>1, FS_CardinalityType
  <2> QED
    BY <1>1, <2>1, <2>2
<1>2. ASSUME NEW p \in Pools PROVE Cardinality({e \in quota'[p] : e[2] >= msgClock' - w}) <= n
  <2> DEFINE S == {e \in quota'[p] : e[2] >= msgClock' - w}
             T == {e \in quota[p] : e[2] >= msgClock - w}
  <2>1. S \subseteq T
    OBVIOUS
  <2>2. IsFiniteSet(T) /\ Cardinality(T) <= n
    BY MsgFinite DEF AttemptsFinite, Within
  <2> QED
    BY <1>1, <2>1, <2>2
<1>3. ASSUME NEW p \in Pools, NEW l \in Nat, NEW last \in Nat
      PROVE  Cardinality(MadeIn(p, l, last, w)') <= n
  <2>1. MadeIn(p, l, last, w)' \subseteq MadeIn(p, l, last, w)
    BY DEF MadeIn
  <2>2. IsFiniteSet(MadeIn(p, l, last, w)) /\ Cardinality(MadeIn(p, l, last, w)) <= n
    <3>1. MadeIn(p, l, last, w) \subseteq Texts
      BY DEF MadeIn
    <3> QED
      BY <3>1, MsgFinite DEF AttemptsFinite, Within
  <2> QED
    BY <1>1, <2>1, <2>2
<1> QED
  BY <1>2, <1>3 DEF Within

\* The attempts in a window that ends now or later are in the history.
LEMMA MadeRemembered == MsgTypes /\ Remembered => HistoryCovers
<1> SUFFICES ASSUME MsgTypes, Remembered, NEW w \in Nat, w <= Day, NEW p \in Pools, NEW last \in Nat,
                    last >= msgClock
             PROVE  Cardinality(MadeIn(p, life, last, w))
                      <= Cardinality({e \in quota[p] : e[2] >= msgClock - w})
  BY DEF HistoryCovers
<1> DEFINE Q == {e \in quota[p] : e[2] >= msgClock - w}
           M == MadeIn(p, life, last, w)
           f == [t \in M |-> <<t, Made(t)[2]>>]
<1>1. IsFiniteSet(Q)
  BY MsgFinite DEF AttemptsFinite
<1>2. ASSUME NEW t \in M PROVE <<t, Made(t)[2]>> \in Q
  <2>1. /\ t \in Texts /\ Made(t) # <<>> /\ Pool(kind[t]) = p /\ Made(t)[1] = life
        /\ Made(t)[2] \in (last - w)..last
    BY DEF MadeIn
  <2>2. Made(t)[2] \in Int /\ Made(t)[2] >= last - w
    BY <2>1, MsgNumbers, SMTT(30) DEF MsgTypes
  <2>3. Made(t)[2] >= msgClock - w /\ Made(t)[2] >= msgClock - Day
    BY <2>2, MsgNumbers DEF MsgTypes
  <2>4. <<t, Made(t)[2]>> \in quota[p]
    BY <2>1, <2>3 DEF Remembered
  <2> QED
    BY <2>3, <2>4
<1>3. f \in Injection(M, Q)
  BY <1>2 DEF Injection, IsInjective
<1> HIDE DEF f, M, Q
<1>4. Cardinality(M) <= Cardinality(Q)
  BY <1>1, <1>3, FS_Injection
<1> QED
  BY <1>1, <1>4 DEF M, Q

\* The same of the state after a step.
LEMMA MsgCountsNext ==
  (MsgTypes => AttemptsFinite)' /\ (MsgTypes /\ Remembered => HistoryCovers)'
<1>1. (MsgTypes => AttemptsFinite)'
  BY MsgFinite, PTL
<1>2. (MsgTypes /\ Remembered => HistoryCovers)'
  BY MadeRemembered, PTL
<1> QED
  BY <1>1, <1>2

\* A window stays within its limit.
LEMMA WithinStep ==
  ASSUME MsgTypes, MsgTypes', Unbegun, Remembered, Remembered', NEW w \in Nat, NEW n \in Nat, w <= Day,
         \A p \in Pools : Room(Usage(quota[p])) =>
           Cardinality({e \in Usage(quota[p]) : e[2] >= msgClock - w}) < n,
         Within(w, n), [MsgNext]_msgVars PROVE Within(w, n)'
<1> USE DEF MsgTypes
<1>1. ASSUME NEW k \in TextKinds, Begin(k) PROVE Within(w, n)'
  <2>0. PICK i \in Texts : i = begun + 1
    BY <1>1 DEF Begin
  <2>1. /\ told[i] = "new" /\ kind'[i] = k /\ told'[i] \in {"refused", "counted"}
        /\ UNCHANGED <<msgClock, life, broadcast>>
        /\ \A t \in Texts : t # i => told'[t] = told[t] /\ kind'[t] = kind[t]
    <3>1. i > begun
      BY <2>0, MsgNumbers
    <3> QED
      BY <1>1, <2>0, <3>1 DEF Begin, MsgTypeOK, Unbegun
  <2>2. \A t \in Texts : t # i => Made(t)' = Made(t) /\ kind'[t] = kind[t]
    BY <2>1 DEF Made
  <2>3. CASE told'[i] = "refused"
    <3>1. Made(i)' = <<>>
      BY <2>1, <2>3 DEF Made, Unbegun
    <3>2. quota' \in {quota, [quota EXCEPT ![Pool(k)] = Usage(quota[Pool(k)])]}
      BY <1>1, <2>0, <2>3 DEF Begin, MsgTypeOK
    <3>3. \A p \in Pools : quota'[p] \subseteq quota[p]
      BY <3>2 DEF MsgTypeOK, Usage
    <3>4. \A p \in Pools : {e \in quota'[p] : e[2] >= msgClock' - w} \subseteq {e \in quota[p] : e[2] >= msgClock - w}
      BY <2>1, <3>3
    <3>5. \A t \in Texts : Made(t)' # <<>> => Made(t)' = Made(t) /\ kind'[t] = kind[t]
      BY <2>2, <3>1
    <3> QED
      BY <3>4, <3>5, WithinFewer
  <2>4. CASE told'[i] = "counted"
    <3>1. /\ Room(Usage(quota[Pool(k)]))
          /\ quota' = [quota EXCEPT ![Pool(k)] = Usage(quota[Pool(k)]) \cup {<<i, msgClock>>}]
      BY <1>1, <2>0, <2>4 DEF Begin, MsgTypeOK
    <3>2. {e \in quota'[Pool(k)] : e[2] >= msgClock - w}
            \subseteq {e \in Usage(quota[Pool(k)]) : e[2] >= msgClock - w} \cup {<<i, msgClock>>}
      BY <3>1, MsgNumbers DEF MsgTypeOK
    <3>3. Cardinality({e \in quota'[Pool(k)] : e[2] >= msgClock - w}) <= n
      <4> DEFINE R == {e \in Usage(quota[Pool(k)]) : e[2] >= msgClock - w}
                 Q == {e \in quota'[Pool(k)] : e[2] >= msgClock - w}
      <4>1. R \subseteq quota[Pool(k)] /\ Pool(k) \in Pools
        BY MsgNumbers DEF Usage
      <4>2. IsFiniteSet(R) /\ Cardinality(R) \in Nat
        BY <4>1, MsgFinite DEF AttemptsFinite
      <4>3. Cardinality(R) < n
        BY <3>1, <4>1
      <4>4. Q \subseteq R \cup {<<i, msgClock>>}
        BY <3>2
      <4> HIDE DEF R, Q
      <4>5. /\ IsFiniteSet(R \cup {<<i, msgClock>>})
            /\ Cardinality(R \cup {<<i, msgClock>>}) \in {Cardinality(R), Cardinality(R) + 1}
        BY <4>2, FS_AddElement
      <4>6. /\ Cardinality(Q) <= Cardinality(R \cup {<<i, msgClock>>})
            /\ Cardinality(Q) \in Nat
        BY <4>4, <4>5, FS_Subset, FS_CardinalityType
      <4>7. Cardinality(Q) <= n
        BY <4>2, <4>3, <4>5, <4>6
      <4> QED
        BY <4>7 DEF Q
    <3>4. \A p \in Pools : Cardinality({e \in quota'[p] : e[2] >= msgClock' - w}) <= n
      <4> SUFFICES ASSUME NEW p \in Pools PROVE Cardinality({e \in quota'[p] : e[2] >= msgClock - w}) <= n
        BY <2>1
      <4>1. CASE p = Pool(k)
        BY <3>3, <4>1
      <4>2. CASE p # Pool(k)
        <5>1. quota'[p] = quota[p]
          BY <3>1, <4>2 DEF MsgTypeOK
        <5> QED
          BY <5>1 DEF Within
      <4> QED
        BY <4>1, <4>2
    <3>5. \A p \in Pools, l \in Nat, last \in Nat : Cardinality(MadeIn(p, l, last, w)') <= n
      <4> SUFFICES ASSUME NEW p \in Pools, NEW l \in Nat, NEW last \in Nat
                   PROVE  Cardinality(MadeIn(p, l, last, w)') <= n
        OBVIOUS
      <4>1. CASE l = life /\ last >= msgClock
        <5> DEFINE M == MadeIn(p, l, last, w)'
                   Q == {e \in quota'[p] : e[2] >= msgClock' - w}
        <5>1. Cardinality(M) <= Cardinality(Q)
          <6>1. MadeIn(p, l, last, w)' = MadeIn(p, life, last, w)'
            BY <2>1, <4>1 DEF MadeIn
          <6>2. last >= msgClock'
            BY <2>1, <4>1
          <6> QED
            BY MsgCountsNext, <6>1, <6>2 DEF HistoryCovers
        <5>2. M \subseteq Texts /\ Q \subseteq quota'[p]
          BY DEF MadeIn
        <5>3. Cardinality(M) \in Nat /\ Cardinality(Q) \in Nat
          BY MsgCountsNext, <5>2 DEF AttemptsFinite
        <5>4. Cardinality(Q) <= n
          BY <3>4
        <5> HIDE DEF M, Q
        <5>5. Cardinality(M) <= n
          BY <5>1, <5>3, <5>4
        <5> QED
          BY <5>5 DEF M
      <4>2. CASE ~(l = life /\ last >= msgClock)
        <5>1. i \notin MadeIn(p, l, last, w)'
          <6>1. Made(i)' = <<life, msgClock>>
            BY <2>1, <2>4 DEF Made
          <6>2. msgClock \in (last - w)..last => last >= msgClock
            BY MsgNumbers
          <6> QED
            BY <4>2, <6>1, <6>2 DEF MadeIn
        <5>2. MadeIn(p, l, last, w)' \subseteq MadeIn(p, l, last, w)
          BY <2>2, <5>1 DEF MadeIn
        <5>3. MadeIn(p, l, last, w) \subseteq Texts
          BY DEF MadeIn
        <5>4. IsFiniteSet(MadeIn(p, l, last, w))
          BY <5>3, MsgFinite DEF AttemptsFinite
        <5>5. /\ Cardinality(MadeIn(p, l, last, w)') <= Cardinality(MadeIn(p, l, last, w))
              /\ IsFiniteSet(MadeIn(p, l, last, w)')
          BY <5>2, <5>4, FS_Subset
        <5>6. Cardinality(MadeIn(p, l, last, w)') \in Nat /\ Cardinality(MadeIn(p, l, last, w)) \in Nat
          BY <5>4, <5>5, FS_CardinalityType
        <5>7. Cardinality(MadeIn(p, l, last, w)) <= n
          BY DEF Within
        <5> QED
          BY <5>5, <5>6, <5>7
      <4> QED
        BY <4>1, <4>2
    <3> QED
      BY <3>4, <3>5 DEF Within
  <2> QED
    BY <2>1, <2>3, <2>4
<1>2. ASSUME NEW t \in Texts, Dispatch(t) PROVE Within(w, n)'
  <2>1. /\ told[t] = "counted" /\ UNCHANGED <<kind, quota, msgClock, life>>
        /\ \/ told'[t] = "undispatched" /\ broadcast' = broadcast
           \/ told'[t] \in {"polling", "dialled"} /\ broadcast'[t] = <<life, msgClock>>
        /\ \A q \in Texts : q # t => told'[q] = told[q] /\ broadcast'[q] = broadcast[q]
    BY <1>2 DEF Dispatch, MsgTypeOK, SentTypes
  <2>2. \A q \in Texts : q # t => Made(q)' = Made(q)
    BY <2>1 DEF Made
  <2>3. Made(t)' \in {Made(t), <<>>}
    BY <2>1 DEF Made, Unbegun
  <2>4. \A q \in Texts : Made(q)' # <<>> => Made(q)' = Made(q) /\ kind'[q] = kind[q]
    BY <2>1, <2>2, <2>3
  <2>5. \A p \in Pools : {e \in quota'[p] : e[2] >= msgClock' - w} \subseteq {e \in quota[p] : e[2] >= msgClock - w}
    BY <2>1
  <2> QED
    BY <2>4, <2>5, WithinFewer
<1>3. ASSUME NEW t \in Texts, Look(t) PROVE Within(w, n)'
  <2>1. /\ told[t] = "polling" /\ told'[t] \in {"failed", "sent", "unknown"}
        /\ UNCHANGED <<kind, quota, broadcast, msgClock, life>>
        /\ \A q \in Texts : q # t => told'[q] = told[q]
    BY <1>3 DEF Look, MsgTypeOK, agentVars
  <2>2. \A q \in Texts : Made(q)' = Made(q)
    BY <2>1 DEF Made
  <2>3. \A q \in Texts : Made(q)' # <<>> => Made(q)' = Made(q) /\ kind'[q] = kind[q]
    BY <2>1, <2>2
  <2>4. \A p \in Pools : {e \in quota'[p] : e[2] >= msgClock' - w} \subseteq {e \in quota[p] : e[2] >= msgClock - w}
    BY <2>1
  <2> QED
    BY <2>3, <2>4, WithinFewer
<1>4. ASSUME NEW t \in Texts, TimeOut(t) PROVE Within(w, n)'
  <2>1. /\ told[t] = "polling" /\ told'[t] \in {"failed", "sent", "unknown"}
        /\ UNCHANGED <<kind, quota, broadcast, msgClock, life>>
        /\ \A q \in Texts : q # t => told'[q] = told[q]
    BY <1>4 DEF TimeOut, MsgTypeOK, agentVars
  <2>2. \A q \in Texts : Made(q)' = Made(q)
    BY <2>1 DEF Made
  <2>3. \A q \in Texts : Made(q)' # <<>> => Made(q)' = Made(q) /\ kind'[q] = kind[q]
    BY <2>1, <2>2
  <2>4. \A p \in Pools : {e \in quota'[p] : e[2] >= msgClock' - w} \subseteq {e \in quota[p] : e[2] >= msgClock - w}
    BY <2>1
  <2> QED
    BY <2>3, <2>4, WithinFewer
<1>5. ASSUME NEW t \in Texts, OnCommand(t) PROVE Within(w, n)'
  <2>1. UNCHANGED <<told, kind, quota, broadcast, msgClock, life>>
    BY <1>5 DEF OnCommand, agentVars
  <2>2. \A q \in Texts : Made(q)' = Made(q)
    BY <2>1 DEF Made
  <2>3. \A q \in Texts : Made(q)' # <<>> => Made(q)' = Made(q) /\ kind'[q] = kind[q]
    BY <2>1, <2>2
  <2>4. \A p \in Pools : {e \in quota'[p] : e[2] >= msgClock' - w} \subseteq {e \in quota[p] : e[2] >= msgClock - w}
    BY <2>1
  <2> QED
    BY <2>3, <2>4, WithinFewer
<1>6. ASSUME NEW t \in Texts, Lost(t) PROVE Within(w, n)'
  <2>1. UNCHANGED <<told, kind, quota, broadcast, msgClock, life>>
    BY <1>6 DEF Lost, agentVars
  <2>2. \A q \in Texts : Made(q)' = Made(q)
    BY <2>1 DEF Made
  <2>3. \A q \in Texts : Made(q)' # <<>> => Made(q)' = Made(q) /\ kind'[q] = kind[q]
    BY <2>1, <2>2
  <2>4. \A p \in Pools : {e \in quota'[p] : e[2] >= msgClock' - w} \subseteq {e \in quota[p] : e[2] >= msgClock - w}
    BY <2>1
  <2> QED
    BY <2>3, <2>4, WithinFewer
<1>7. ASSUME NEW t \in Texts, NEW k \in {"sent", "delivered"}, NEW ok \in BOOLEAN, OnResult(t,k,ok) PROVE Within(w, n)'
  <2>1. UNCHANGED <<told, kind, quota, broadcast, msgClock, life>>
    BY <1>7 DEF OnResult, agentVars
  <2>2. \A q \in Texts : Made(q)' = Made(q)
    BY <2>1 DEF Made
  <2>3. \A q \in Texts : Made(q)' # <<>> => Made(q)' = Made(q) /\ kind'[q] = kind[q]
    BY <2>1, <2>2
  <2>4. \A p \in Pools : {e \in quota'[p] : e[2] >= msgClock' - w} \subseteq {e \in quota[p] : e[2] >= msgClock - w}
    BY <2>1
  <2> QED
    BY <2>3, <2>4, WithinFewer
<1>8. CASE Restart
  <2>1. /\ UNCHANGED <<kind, msgClock, broadcast>> /\ (\A p \in Pools : quota'[p] = {})
        /\ \A t \in Texts : told'[t] = (IF told[t] \in {"counted", "polling"} THEN "killed" ELSE told[t])
    BY <1>8 DEF Restart
  <2>2. \A t \in Texts : Made(t)' \in {Made(t), <<>>}
    BY <2>1 DEF Made, Unbegun
  <2>3. \A q \in Texts : Made(q)' # <<>> => Made(q)' = Made(q) /\ kind'[q] = kind[q]
    BY <2>1, <2>2
  <2>4. \A p \in Pools : {e \in quota'[p] : e[2] >= msgClock' - w} \subseteq {e \in quota[p] : e[2] >= msgClock - w}
    BY <2>1
  <2> QED
    BY <2>3, <2>4, WithinFewer
<1>9. CASE MsgTick
  <2>1. /\ msgClock' = msgClock + 1 /\ UNCHANGED <<kind, quota, broadcast, told, life>>
        /\ \A t \in Texts : told[t] # "counted"
    BY <1>9 DEF MsgTick, agentVars
  <2>2. \A q \in Texts : Made(q)' = Made(q)
    BY <2>1 DEF Made
  <2>3. \A q \in Texts : Made(q)' # <<>> => Made(q)' = Made(q) /\ kind'[q] = kind[q]
    BY <2>1, <2>2
  <2>4. ASSUME NEW p \in Pools, NEW e \in quota[p], e[2] >= msgClock' - w PROVE e[2] >= msgClock - w
    <3>1. e[2] \in Nat
      BY MsgNumbers DEF MsgTypeOK
    <3> QED
      BY <2>1, <2>4, <3>1, MsgNumbers
  <2>5. \A p \in Pools : {e \in quota'[p] : e[2] >= msgClock' - w} \subseteq {e \in quota[p] : e[2] >= msgClock - w}
    <3>1. quota' = quota
      BY <2>1
    <3> QED
      BY <2>4, <3>1
  <2> QED
    BY <2>3, <2>5, WithinFewer
<1>10. CASE UNCHANGED msgVars
  <2>1. UNCHANGED <<told, kind, quota, broadcast, msgClock, life>>
    BY <1>10 DEF msgVars
  <2>2. \A q \in Texts : Made(q)' = Made(q)
    BY <2>1 DEF Made
  <2>3. \A q \in Texts : Made(q)' # <<>> => Made(q)' = Made(q) /\ kind'[q] = kind[q]
    BY <2>1, <2>2
  <2>4. \A p \in Pools : {e \in quota'[p] : e[2] >= msgClock' - w} \subseteq {e \in quota[p] : e[2] >= msgClock - w}
    BY <2>1
  <2> QED
    BY <2>3, <2>4, WithinFewer
<1>11. QED
  BY <1>1, <1>2, <1>3, <1>4, <1>5, <1>6, <1>7, <1>8,
     <1>9, <1>10 DEF MsgNext

\* What a text's file says stays what the radio did, and what the model is told
\* what the file said.
LEMMA ReportedStep ==
  ASSUME MsgTypes, Unbegun, Reported, ToldTrue, [MsgNext]_msgVars PROVE (Reported /\ ToldTrue)'
<1> USE DEF MsgTypes, Reported, ToldTrue
<1>1. ASSUME NEW k \in TextKinds, Begin(k) PROVE (Reported /\ ToldTrue)'
  <2>1. PICK i \in Texts : i = begun + 1
    BY <1>1 DEF Begin
  <2>2. /\ told'[i] \in {"refused", "counted"} /\ UNCHANGED <<pending, radio, file, stale>>
        /\ \A t \in Texts : t # i => told'[t] = told[t]
    BY <1>1, <2>1 DEF Begin, MsgTypeOK, shimSide
  <2> QED
    BY <2>1, <2>2
<1>2. ASSUME NEW t \in Texts, Dispatch(t) PROVE (Reported /\ ToldTrue)'
  <2>1. /\ told[t] = "counted" /\ UNCHANGED <<radio, file, stale>>
        /\ told'[t] \in {"undispatched", "dialled", "polling"}
        /\ pending' \in {pending, pending \cup {t}}
        /\ \A q \in Texts : q # t => told'[q] = told[q]
    BY <1>2 DEF Dispatch, MsgTypeOK
  <2>2. radio[t] = "none" /\ file[t] = "none"
    BY <2>1 DEF Unbegun
  <2> QED
    BY <2>1, <2>2
<1>3. ASSUME NEW t \in Texts, Look(t) PROVE (Reported /\ ToldTrue)'
  <2>1. /\ told[t] = "polling" /\ UNCHANGED <<pending, radio, file, stale>>
        /\ \/ told'[t] = "failed" /\ file[t] = "error"
           \/ told'[t] = "sent" /\ file[t] \in {"sent", "delivered"}
        /\ \A q \in Texts : q # t => told'[q] = told[q]
    BY <1>3 DEF Look, MsgTypeOK, shimSide
  <2> QED
    BY <2>1
<1>4. ASSUME NEW t \in Texts, TimeOut(t) PROVE (Reported /\ ToldTrue)'
  <2>1. /\ told'[t] = "unknown" /\ UNCHANGED <<pending, radio, file, stale>>
        /\ \A q \in Texts : q # t => told'[q] = told[q]
    BY <1>4 DEF TimeOut, MsgTypeOK, shimSide
  <2> QED
    BY <2>1
<1>5. ASSUME NEW t \in Texts, OnCommand(t) PROVE (Reported /\ ToldTrue)'
  <2>1. /\ t \in pending /\ pending' = pending \ {t} /\ UNCHANGED told
        /\ stale \subseteq stale'
        /\ \A q \in Texts : q # t => radio'[q] = radio[q] /\ file'[q] = file[q]
        /\ \A q \in stale' : q # t => q \in stale
    BY <1>5 DEF OnCommand, Accept, WriteResult, MsgTypeOK
  <2>2. \/ radio'[t] = radio[t] /\ file'[t] \in {file[t], "error"}
        \/ radio'[t] = "accepted" /\ file'[t] \in {file[t], "queued"}
    BY <1>5 DEF OnCommand, Accept, WriteResult, MsgTypeOK
  <2>3. radio[t] = "none" /\ file[t] = "none" /\ told[t] # "failed"
    BY <2>1
  <2>4. told[t] # "sent"
    BY <2>3
  <2> QED
    BY <2>1, <2>2, <2>3, <2>4
<1>6. ASSUME NEW t \in Texts, Lost(t) PROVE (Reported /\ ToldTrue)'
  BY <1>6 DEF Lost
<1>7. ASSUME NEW t \in Texts, NEW k \in {"sent", "delivered"}, NEW ok \in BOOLEAN, OnResult(t,k,ok)
      PROVE  (Reported /\ ToldTrue)'
  <2>1. /\ UNCHANGED <<told, pending>> /\ stale \subseteq stale'
        /\ \A q \in Texts : q # t => radio'[q] = radio[q] /\ file'[q] = file[q]
        /\ \A q \in stale' : q # t => q \in stale
    BY <1>7 DEF OnResult, WriteResult, MsgTypeOK
  <2>2. \/ radio[t] = "accepted" /\ radio'[t] \in {"sent", "error"}
        \/ radio[t] = "sent" /\ radio'[t] \in {"delivered", "undelivered"}
    BY <1>7 DEF OnResult, MsgTypeOK
  <2>3. \/ file'[t] = file[t] /\ t \in stale'
        \/ file'[t] = "sent" /\ radio'[t] = "sent"
        \/ file'[t] = "delivered" /\ radio'[t] = "delivered"
        \/ file'[t] = "error" /\ radio'[t] \in {"error", "undelivered"}
    BY <1>7 DEF OnResult, WriteResult, MsgTypeOK
  <2> QED
    BY <2>1, <2>2, <2>3
<1>8. CASE Restart
  <2>1. /\ UNCHANGED <<pending, radio, file, stale>>
        /\ \A t \in Texts : told'[t] \in {told[t], "killed"}
    BY <1>8 DEF Restart, shimSide
  <2> QED
    BY <2>1
<1>9. CASE MsgTick
  BY <1>9 DEF MsgTick, shimSide
<1>10. CASE UNCHANGED msgVars
  BY <1>10 DEF msgVars
<1>11. QED
  BY <1>1, <1>2, <1>3, <1>4, <1>5, <1>6, <1>7, <1>8, <1>9, <1>10 DEF MsgNext

\* What left the phone keeps its lines in the logs, two of them at most.
LEMMA LoggedStep ==
  ASSUME MsgTypes, Unbegun, Logged, LoggedTwice, [MsgNext]_msgVars PROVE (Logged /\ LoggedTwice)'
<1> USE DEF MsgTypes
<1>1. ASSUME NEW k \in TextKinds, Begin(k) PROVE (Logged /\ LoggedTwice)'
  <2>1. PICK i \in Texts : i = begun + 1
    BY <1>1 DEF Begin
  <2>2. i > begun
    BY <2>1, MsgNumbers
  <2>3. /\ told'[i] \in {"refused", "counted"} /\ UNCHANGED <<pending, radio, audit>>
        /\ \A t \in Texts : t # i => told'[t] = told[t] /\ kind'[t] = kind[t]
        /\ kind'[i] = k /\ (told'[i] = "counted" => k # "bad")
    BY <1>1, <2>1 DEF Begin, MsgTypeOK, shimSide
  <2>4. told[i] = "new" /\ radio[i] = "none" /\ i \notin pending
    BY <2>2 DEF Unbegun
  <2>5. Logged'
    BY <2>3, <2>4 DEF Logged
  <2> QED
    BY <2>3, <2>5 DEF LoggedTwice
<1>2. ASSUME NEW t \in Texts, Dispatch(t) PROVE (Logged /\ LoggedTwice)'
  <2>1. /\ told[t] = "counted" /\ UNCHANGED <<radio, kind>>
        /\ told'[t] \in {"undispatched", "dialled", "polling"}
        /\ audit' \in {audit, audit \cup {<<t, "attempt">>}}
        /\ \/ pending' = pending
           \/ pending' = pending \cup {t} /\ kind[t] # "dial" /\ audit' = audit \cup {<<t, "attempt">>}
        /\ \A q \in Texts : q # t => told'[q] = told[q]
    BY <1>2 DEF Dispatch, MsgTypeOK
  <2>2. radio[t] = "none" /\ kind[t] # "bad" /\ t \notin pending /\ \A x : <<t, x>> \notin audit
    BY <2>1 DEF Unbegun, Logged
  <2>3. kind[t] # "dial" => kind[t] \in {"blank", "plain"}
    BY <2>2 DEF MsgTypeOK, TextKinds
  <2>4. \A q \in Texts : \A x : <<q, x>> \in audit' => <<q, x>> \in audit \/ (q = t /\ x = "attempt")
    BY <2>1
  <2>5. audit \subseteq audit'
    BY <2>1
  <2>6. LoggedTwice'
    BY <2>2, <2>4 DEF LoggedTwice
  <2>7. \A q \in Texts : q # t => (\A x : <<q, x>> \in audit' <=> <<q, x>> \in audit)
    BY <2>4, <2>5
  <2>8. Logged'
    <3> SUFFICES ASSUME NEW q \in Texts
        PROVE  /\ q \in pending' \/ radio[q] # "none" => <<q, "attempt">> \in audit'
               /\ q \in pending' => kind[q] \in {"blank", "plain"}
               /\ radio[q] # "none" => kind[q] = "plain"
               /\ told'[q] = "counted" => kind[q] # "bad"
               /\ told'[q] \in {"new", "counted", "refused"} => \A x : <<q, x>> \notin audit'
               /\ told'[q] \notin {"sent", "failed", "unknown"} => \A x : <<q, x>> \in audit' => x = "attempt"
      BY <2>1 DEF Logged
    <3>1. CASE q = t
      BY <3>1, <2>1, <2>2, <2>3, <2>4
    <3>2. CASE q # t
      BY <3>2, <2>1, <2>7 DEF Logged
    <3> QED
      BY <3>1, <3>2
  <2> QED
    BY <2>6, <2>8
<1>3. ASSUME NEW t \in Texts, Look(t) \/ TimeOut(t) PROVE (Logged /\ LoggedTwice)'
  <2>1. /\ told[t] = "polling" /\ UNCHANGED <<pending, radio, kind>>
        /\ told'[t] \in {"sent", "failed", "unknown"}
        /\ \A q \in Texts : q # t => told'[q] = told[q]
    BY <1>3 DEF Look, TimeOut, MsgTypeOK, agentVars, shimSide
  <2>2. PICK y : audit' = audit \cup {<<t, y>>}
    BY <1>3 DEF Look, TimeOut
  <2>3. \A x : <<t, x>> \in audit => x = "attempt"
    BY <2>1 DEF Logged
  <2>4. \A q \in Texts : \A x : <<q, x>> \in audit' => <<q, x>> \in audit \/ (q = t /\ x = y)
    BY <2>2
  <2>5. audit \subseteq audit'
    BY <2>2
  <2>6. LoggedTwice'
    BY <2>3, <2>4 DEF LoggedTwice
  <2>7. \A q \in Texts : q # t => (\A x : <<q, x>> \in audit' <=> <<q, x>> \in audit)
    BY <2>4, <2>5
  <2>8. Logged'
    <3> SUFFICES ASSUME NEW q \in Texts
        PROVE  /\ q \in pending \/ radio[q] # "none" => <<q, "attempt">> \in audit'
               /\ q \in pending => kind[q] \in {"blank", "plain"}
               /\ radio[q] # "none" => kind[q] = "plain"
               /\ told'[q] = "counted" => kind[q] # "bad"
               /\ told'[q] \in {"new", "counted", "refused"} => \A x : <<q, x>> \notin audit'
               /\ told'[q] \notin {"sent", "failed", "unknown"} => \A x : <<q, x>> \in audit' => x = "attempt"
      BY <2>1 DEF Logged
    <3>1. CASE q = t
      BY <3>1, <2>1, <2>5 DEF Logged
    <3>2. CASE q # t
      BY <3>2, <2>1, <2>7 DEF Logged
    <3> QED
      BY <3>1, <3>2
  <2> QED
    BY <2>6, <2>8
<1>4. ASSUME NEW t \in Texts, OnCommand(t) PROVE (Logged /\ LoggedTwice)'
  <2>1. /\ t \in pending /\ pending' = pending \ {t} /\ UNCHANGED <<told, kind, audit>>
        /\ \A q \in Texts : q # t => radio'[q] = radio[q]
        /\ kind[t] # "blank" \/ radio'[t] = radio[t]
    BY <1>4 DEF OnCommand, Accept, MsgTypeOK, agentVars
  <2>2. <<t, "attempt">> \in audit /\ kind[t] \in {"blank", "plain"}
    BY <2>1 DEF Logged
  <2>3. Logged'
    BY <2>1, <2>2 DEF Logged
  <2> QED
    BY <2>1, <2>3 DEF LoggedTwice
<1>5. ASSUME NEW t \in Texts, Lost(t) PROVE (Logged /\ LoggedTwice)'
  BY <1>5 DEF Lost, agentVars, Logged, LoggedTwice
<1>6. ASSUME NEW t \in Texts, NEW k \in {"sent", "delivered"}, NEW ok \in BOOLEAN, OnResult(t,k,ok)
      PROVE  (Logged /\ LoggedTwice)'
  <2>1. /\ UNCHANGED <<told, pending, kind, audit>> /\ radio[t] # "none"
        /\ \A q \in Texts : q # t => radio'[q] = radio[q]
    BY <1>6 DEF OnResult, MsgTypeOK, agentVars
  <2>2. Logged'
    BY <2>1 DEF Logged
  <2> QED
    BY <2>1, <2>2 DEF LoggedTwice
<1>7. CASE Restart
  <2>1. /\ UNCHANGED <<pending, radio, kind, audit>>
        /\ \A t \in Texts : told'[t] = told[t] \/ (told[t] \in {"counted", "polling"} /\ told'[t] = "killed")
    BY <1>7 DEF Restart, shimSide
  <2>2. Logged'
    BY <2>1 DEF Logged
  <2> QED
    BY <2>1, <2>2 DEF LoggedTwice
<1>8. CASE MsgTick
  BY <1>8 DEF MsgTick, shimSide, agentVars, Logged, LoggedTwice
<1>9. CASE UNCHANGED msgVars
  BY <1>9 DEF msgVars, Logged, LoggedTwice
<1>10. QED
  BY <1>1, <1>2, <1>3, <1>4, <1>5, <1>6, <1>7,
     <1>8, <1>9 DEF MsgNext

\* Before the first text there is nothing to count.
LEMMA MsgInitInv == MsgInit => MsgInv
<1> SUFFICES ASSUME MsgInit PROVE MsgInv
  OBVIOUS
<1>1. MsgTypes
  <2>1. MaxTexts \in Nat /\ MaxClock \in Nat /\ MaxMisses \in Nat
    BY MessagesAssumption
  <2> QED
    BY <2>1 DEF MsgInit, MsgTypes, MsgTypeOK, SentTypes, TextKinds, Pools
<1>2. \A t \in Texts : Made(t) = <<>>
  BY DEF MsgInit, Made
<1>3. Unbegun /\ Remembered /\ Reported /\ ToldTrue /\ Logged /\ LoggedTwice
  BY <1>2 DEF MsgInit, Unbegun, Remembered, Reported, ToldTrue, Logged, LoggedTwice
<1>4. ASSUME NEW w \in Nat, NEW n \in Nat PROVE Within(w, n)
  <2>1. Cardinality({}) = 0
    BY FS_EmptySet
  <2>2. \A p \in Pools : {e \in quota[p] : e[2] >= msgClock - w} = {}
    BY DEF MsgInit
  <2>3. \A p \in Pools, l \in Nat, last \in Nat : MadeIn(p, l, last, w) = {}
    BY <1>2 DEF MadeIn
  <2>4. 0 <= n
    OBVIOUS
  <2>5. \A p \in Pools : Cardinality({e \in quota[p] : e[2] >= msgClock - w}) <= n
    BY <2>1, <2>2, <2>4
  <2>6. \A p \in Pools, l \in Nat, last \in Nat : Cardinality(MadeIn(p, l, last, w)) <= n
    BY <2>1, <2>3, <2>4
  <2> QED
    BY <2>5, <2>6 DEF Within
<1>5. Quotas
  BY <1>1, <1>3, <1>4, MsgNumbers DEF Quotas, MsgTypes
<1> QED
  BY <1>1, <1>3, <1>5 DEF MsgInv

\* Every step keeps the invariant: the quota lets an attempt through only where
\* both windows have room for one more.
LEMMA MsgInvStep == MsgInv /\ [MsgNext]_msgVars => MsgInv'
<1> SUFFICES ASSUME MsgInv, [MsgNext]_msgVars PROVE MsgInv'
  OBVIOUS
<1>1. /\ MsgTypes /\ Unbegun /\ Remembered /\ Reported /\ ToldTrue /\ Logged /\ LoggedTwice
      /\ Within(Hour, PerHour) /\ Within(Day, PerDay)
  BY DEF MsgInv, Quotas
<1>2. MsgTypes' /\ Unbegun'
  BY <1>1, MsgTypesStep, UnbegunStep
<1>3. Remembered'
  BY <1>1, <1>2, RememberedStep
<1>4. Hour \in Nat /\ Day \in Nat /\ PerHour \in Nat /\ PerDay \in Nat /\ Hour <= Day /\ Day <= Day
  BY <1>1, MsgNumbers DEF MsgTypes
<1>5. ASSUME NEW p \in Pools, Room(Usage(quota[p]))
      PROVE  /\ Cardinality({e \in Usage(quota[p]) : e[2] >= msgClock - Hour}) < PerHour
             /\ Cardinality({e \in Usage(quota[p]) : e[2] >= msgClock - Day}) < PerDay
  <2>1. {e \in Usage(quota[p]) : e[2] >= msgClock - Day} = Usage(quota[p])
    BY DEF Usage
  <2> QED
    BY <1>5, <2>1 DEF Room, InHour
<1>6. Within(Hour, PerHour)'
  BY <1>1, <1>2, <1>3, <1>4, <1>5, WithinStep
<1>7. Within(Day, PerDay)'
  BY <1>1, <1>2, <1>3, <1>4, <1>5, WithinStep
<1>8. Reported' /\ ToldTrue' /\ Logged' /\ LoggedTwice'
  BY <1>1, ReportedStep, LoggedStep
<1> QED
  BY <1>2, <1>3, <1>6, <1>7, <1>8 DEF MsgInv, Quotas

\* The invariant gives what the texts and calls are accounted for by.
LEMMA MsgInvAccounts == MsgInv => MsgTypeOK /\ MessagesAccounted
<1> SUFFICES ASSUME MsgInv PROVE MsgTypeOK /\ MessagesAccounted
  OBVIOUS
<1>1. /\ MsgTypes /\ MsgTypeOK /\ SentTypes /\ Unbegun /\ Reported /\ ToldTrue /\ Logged /\ LoggedTwice
      /\ Within(Hour, PerHour) /\ Within(Day, PerDay)
  BY DEF MsgInv, Quotas, MsgTypes
<1>2. WithinQuota
  <2>1. ASSUME NEW t \in Sent, NEW w \in Nat, NEW n \in Nat, Within(w, n)
        PROVE  Cardinality({u \in Sent : /\ broadcast[u][1] = broadcast[t][1] /\ Pool(kind[u]) = Pool(kind[t])
                                         /\ broadcast[u][2] \in (broadcast[t][2] - w)..broadcast[t][2]}) <= n
    <3> DEFINE B == {u \in Sent : /\ broadcast[u][1] = broadcast[t][1] /\ Pool(kind[u]) = Pool(kind[t])
                                  /\ broadcast[u][2] \in (broadcast[t][2] - w)..broadcast[t][2]}
    <3>1. PICK p \in Pools, l \in Nat, last \in Nat : p = Pool(kind[t]) /\ <<l, last>> = broadcast[t]
      <4>1. t \in Texts /\ broadcast[t] \in Nat \X (0..MaxClock)
        BY <1>1 DEF Sent, SentTypes
      <4>2. broadcast[t][1] \in Nat /\ broadcast[t][2] \in Nat /\ broadcast[t] = <<broadcast[t][1], broadcast[t][2]>>
        BY <4>1, <1>1, MsgNumbers
      <4> QED
        BY <4>2, <1>1, MsgNumbers
    <3>2. \A u \in Sent : u \in Texts /\ Made(u) = broadcast[u]
      BY <1>1 DEF Sent, Made, Unbegun
    <3>3. B \subseteq MadeIn(p, l, last, w)
      BY <3>1, <3>2 DEF MadeIn, Sent
    <3>4. MadeIn(p, l, last, w) \subseteq Texts
      BY DEF MadeIn
    <3>5. IsFiniteSet(MadeIn(p, l, last, w)) /\ Cardinality(MadeIn(p, l, last, w)) <= n
      BY <1>1, <2>1, <3>4, MsgFinite DEF AttemptsFinite, Within
    <3> HIDE DEF B
    <3>6. Cardinality(B) <= Cardinality(MadeIn(p, l, last, w)) /\ IsFiniteSet(B)
      BY <3>3, <3>5, FS_Subset
    <3>7. Cardinality(B) \in Nat /\ Cardinality(MadeIn(p, l, last, w)) \in Nat
      BY <3>5, <3>6, FS_CardinalityType
    <3>8. Cardinality(B) <= n
      BY <3>5, <3>6, <3>7
    <3> QED
      BY <3>8 DEF B
  <2>2. Hour \in Nat /\ Day \in Nat /\ PerHour \in Nat /\ PerDay \in Nat
    BY <1>1, MsgNumbers
  <2>3. \A t \in Sent :
          Cardinality({u \in Sent : /\ broadcast[u][1] = broadcast[t][1] /\ Pool(kind[u]) = Pool(kind[t])
                                    /\ broadcast[u][2] \in (broadcast[t][2] - Hour)..broadcast[t][2]}) <= PerHour
    BY <1>1, <2>1, <2>2
  <2>4. \A t \in Sent :
          Cardinality({u \in Sent : /\ broadcast[u][1] = broadcast[t][1] /\ Pool(kind[u]) = Pool(kind[t])
                                    /\ broadcast[u][2] \in (broadcast[t][2] - Day)..broadcast[t][2]}) <= PerDay
    BY <1>1, <2>1, <2>2
  <2> QED
    BY <2>3, <2>4 DEF WithinQuota
<1>3. CostsAudited
  <2> SUFFICES ASSUME NEW t \in Texts
               PROVE  /\ radio[t] # "none" => <<t, "attempt">> \in audit /\ kind[t] = "plain"
                      /\ radio[t] \notin {"none", "accepted"} /\ t \notin stale => file[t] # "queued"
                      /\ Cardinality({e \in audit : e[1] = t}) <= 2
    BY DEF CostsAudited
  <2>1. PICK z : \A x : <<t, x>> \in audit => x \in {"attempt", z}
    BY <1>1 DEF LoggedTwice
  <2>2. {e \in audit : e[1] = t} \subseteq {<<t, "attempt">>, <<t, z>>}
    <3> SUFFICES ASSUME NEW e \in audit, e[1] = t PROVE e \in {<<t, "attempt">>, <<t, z>>}
      OBVIOUS
    <3>1. e = <<t, e[2]>>
      BY <1>1 DEF MsgTypeOK
    <3> QED
      BY <2>1, <3>1
  <2>3. Cardinality({e \in audit : e[1] = t}) <= 2
    <3> DEFINE E == {e \in audit : e[1] = t}
               T == {<<t, "attempt">>}
    <3>1. IsFiniteSet(T) /\ Cardinality(T) = 1
      BY FS_Singleton
    <3>2. /\ IsFiniteSet(T \cup {<<t, z>>})
          /\ Cardinality(T \cup {<<t, z>>}) \in {Cardinality(T), Cardinality(T) + 1}
      BY <3>1, FS_AddElement
    <3>3. E \subseteq T \cup {<<t, z>>}
      BY <2>2
    <3> HIDE DEF E, T
    <3>4. Cardinality(E) <= Cardinality(T \cup {<<t, z>>}) /\ IsFiniteSet(E)
      BY <3>2, <3>3, FS_Subset
    <3>5. Cardinality(E) \in Nat
      BY <3>4, FS_CardinalityType
    <3>6. Cardinality(E) <= 2
      BY <3>1, <3>2, <3>4, <3>5
    <3> QED
      BY <3>6 DEF E
  <2> QED
    BY <1>1, <2>3 DEF Logged, Reported
<1> QED
  BY <1>1, <1>2, <1>3 DEF MessagesAccounted

\* What is known of the texts and calls stays of its type.
THEOREM MsgTypeCorrect == MsgSpec => []MsgTypeOK
<1>1. MsgInv => MsgTypeOK
  BY MsgInvAccounts
<1> QED
  BY <1>1, MsgInitInv, MsgInvStep, PTL DEF MsgSpec

\* No hour and no day of one life of the agent sees more texts or calls leave
\* than the limits allow, whatever the limits and the windows, and however many
\* callers ask at once; what the model is told is what the radio did; and no
\* message reaches the radio without its line in the log.
THEOREM MessagesStayAccounted == MsgSpec => []MessagesAccounted
<1>1. MsgInv => MessagesAccounted
  BY MsgInvAccounts
<1> QED
  BY <1>1, MsgInitInv, MsgInvStep, PTL DEF MsgSpec
-----------------------------------------------------------------------------
(* The scheduler. The minute in which the loop wakes up next is one after  *)
(* the minute it looked at last, and no minute before it is left out; what *)
(* ran is behind that minute, but for what the clock was set back by.      *)

\* A minute the loop looked at, or could not have.
Seen == checked \cup busy

SchedTypes == SchedTypeOK /\ left <= MinuteLen

NoneSkipped ==
  /\ loop = "asleep" => \A m \in Minutes : m < MinuteOf(now + left) => m \in Seen
  /\ loop # "asleep" => \A m \in Minutes : m <= MinuteOf(now) => m \in Seen

\* What last_run says did run.
Ran == \A i \in Entries : lastRun[i] # -1 => started[i][lastRun[i]] > 0

\* The clock was not set back: what ran is behind the minute that comes next.
Ahead ==
  \A i \in Entries, m \in Minutes : started[i][m] > 0 =>
    /\ loop = "asleep" => m < MinuteOf(now + left)
    /\ loop # "asleep" => m <= MinuteOf(now)

\* The process did not end: last_run is the last minute an entry ran in.
Latest == \A i \in Entries, m \in Minutes : started[i][m] > 0 => m <= lastRun[i]

\* The clock was set back once: that minute may be the one that comes next.
Near ==
  \A i \in Entries :
    /\ loop = "asleep" => lastRun[i] <= MinuteOf(now + left)
    /\ loop # "asleep" => lastRun[i] <= MinuteOf(now) + 1

RunOnce ==
  /\ troubles = 0 => Ahead /\ Latest
  /\ troubles = 1 => Ahead \/ (Latest /\ Near)
  /\ troubles <= 1 => \A i \in Entries, m \in Minutes : started[i][m] <= 1

\* An entry that is due in a minute, as check_and_run sees it.
Fires(i, m) == i \in Registered /\ m % MinutesPerHour \in ParseField(Crons[i], 0, MinutesPerHour - 1)

RunsDue ==
  /\ \A i \in Entries, m \in Minutes : started[i][m] > 0 => Fires(i, m)
  /\ \A i \in Entries, m \in Minutes : m \in checked /\ Fires(i, m) =>
       \E j \in Entries : j <= i /\ started[j][m] > 0

SchedInv == SchedTypes /\ NoneSkipped /\ Ran /\ RunOnce /\ RunsDue

-----------------------------------------------------------------------------
\* Minutes are counted: a minute more is the next one, and an end of the
\* arithmetic of minutes is in these facts.
LEMMA MinuteFacts ==
  /\ MinuteLen \in Nat \ {0} /\ MinSleep \in 1..MinuteLen /\ MaxTime \in Nat /\ MaxTroubles \in Nat
  /\ \A a \in Nat : MinuteOf(a) \in Nat /\ SecondOf(a) \in 0..(MinuteLen - 1)
                    /\ a = MinuteLen * MinuteOf(a) + SecondOf(a)
  /\ \A a, b \in Nat : a <= b => MinuteOf(a) <= MinuteOf(b)
  /\ \A a, b \in Nat : b <= a + MinuteLen => MinuteOf(b) <= MinuteOf(a) + 1
  /\ \A a, b \in Nat : MinuteLen - SecondOf(a) <= b => MinuteOf(a) < MinuteOf(a + b)
  /\ \A a \in 0..MaxTime : MinuteOf(a) \in Minutes
<1>1. MinuteLen \in Nat \ {0} /\ MinSleep \in 1..MinuteLen /\ MaxTime \in Nat /\ MaxTroubles \in Nat
  BY SchedulerAssumption
<1>2. ASSUME NEW a \in Nat
      PROVE  /\ MinuteOf(a) \in Nat /\ SecondOf(a) \in 0..(MinuteLen - 1)
             /\ a = MinuteLen * MinuteOf(a) + SecondOf(a)
  BY <1>1 DEF MinuteOf, SecondOf
<1>3. ASSUME NEW a \in Nat, NEW b \in Nat, NEW k \in Nat, MinuteLen * k <= b PROVE k <= MinuteOf(b)
  <2> SUFFICES ASSUME MinuteOf(b) + 1 <= k PROVE FALSE
    BY <1>2
  <2>1. PICK q \in Nat : q = MinuteOf(b)
    BY <1>2
  <2>2. PICK d \in Nat : k = q + 1 + d
    <3>1. k - (q + 1) \in Nat /\ k = q + 1 + (k - (q + 1))
      BY <2>1
    <3> QED
      BY <3>1
  <2>3. MinuteLen * k = MinuteLen * q + MinuteLen + MinuteLen * d
    BY <1>1, <2>2
  <2>4. MinuteLen * d \in Nat /\ MinuteLen * q \in Nat
    BY <1>1
  <2>5. b = MinuteLen * q + SecondOf(b) /\ SecondOf(b) \in 0..(MinuteLen - 1)
    BY <1>2, <2>1
  <2> QED
    BY <1>1, <1>3, <2>3, <2>4, <2>5
<1>4. ASSUME NEW a \in Nat, NEW b \in Nat, a <= b PROVE MinuteOf(a) <= MinuteOf(b)
  <2>1. PICK q \in Nat, r \in 0..(MinuteLen - 1) : q = MinuteOf(a) /\ r = SecondOf(a) /\ a = MinuteLen * q + r
    BY <1>2
  <2>2. MinuteLen * q \in Nat
    BY <1>1
  <2>3. MinuteLen * q <= b
    BY <1>1, <1>4, <2>1, <2>2
  <2>4. q <= MinuteOf(b)
    BY <1>3, <2>3
  <2> QED
    BY <2>1, <2>4
<1>5. ASSUME NEW a \in Nat PROVE MinuteOf(a + MinuteLen) = MinuteOf(a) + 1
  <2>1. PICK q \in Nat, r \in 0..(MinuteLen - 1) : q = MinuteOf(a) /\ r = SecondOf(a) /\ a = MinuteLen * q + r
    BY <1>2
  <2>2. a + MinuteLen = MinuteLen * (q + 1) + r
    BY <1>1, <2>1
  <2>3. MinuteLen * (q + 1) <= a + MinuteLen /\ a + MinuteLen < MinuteLen * (q + 1) + MinuteLen
    <3>1. MinuteLen * (q + 1) \in Nat
      BY <1>1
    <3> QED
      BY <1>1, <2>1, <2>2, <3>1
  <2>4. q + 1 <= MinuteOf(a + MinuteLen)
    BY <1>1, <1>3, <2>3
  <2>5. PICK z \in Nat : z = MinuteOf(a + MinuteLen) /\ MinuteLen * z <= a + MinuteLen
    <3>1. a + MinuteLen \in Nat
      BY <1>1
    <3>2. MinuteOf(a + MinuteLen) \in Nat
      BY <1>2, <3>1
    <3>3. MinuteLen * MinuteOf(a + MinuteLen) \in Nat
      BY <1>1, <3>2
    <3> QED
      BY <1>2, <3>1, <3>2, <3>3
  <2>6. z <= q + 1
    <3> SUFFICES ASSUME q + 2 <= z PROVE FALSE
      OBVIOUS
    <3>1. PICK d \in Nat : z = q + 2 + d
      <4>1. z - (q + 2) \in Nat /\ z = q + 2 + (z - (q + 2))
        OBVIOUS
      <4> QED
        BY <4>1
    <3>2. MinuteLen * z = MinuteLen * (q + 1) + MinuteLen + MinuteLen * d
      BY <1>1, <3>1
    <3>3. MinuteLen * d \in Nat /\ MinuteLen * (q + 1) \in Nat
      BY <1>1
    <3> QED
      BY <1>1, <2>3, <2>5, <3>2, <3>3
  <2> QED
    BY <2>1, <2>4, <2>5, <2>6
<1>6. ASSUME NEW a \in Nat, NEW b \in Nat, b <= a + MinuteLen PROVE MinuteOf(b) <= MinuteOf(a) + 1
  BY <1>1, <1>4, <1>5, <1>6
<1>7. ASSUME NEW a \in Nat, NEW b \in Nat, MinuteLen - SecondOf(a) <= b PROVE MinuteOf(a) < MinuteOf(a + b)
  <2>1. PICK q \in Nat, r \in 0..(MinuteLen - 1) : q = MinuteOf(a) /\ r = SecondOf(a) /\ a = MinuteLen * q + r
    BY <1>2
  <2>2. MinuteLen * (q + 1) = MinuteLen * q + MinuteLen
    BY <1>1
  <2>3. MinuteLen * q \in Nat
    BY <1>1
  <2>4. MinuteLen * (q + 1) <= a + b
    BY <1>1, <1>7, <2>1, <2>2, <2>3
  <2>5. q + 1 <= MinuteOf(a + b)
    BY <1>3, <2>4
  <2>6. MinuteOf(a + b) \in Nat
    BY <1>2
  <2> QED
    BY <2>1, <2>5, <2>6
<1>8. ASSUME NEW a \in 0..MaxTime PROVE MinuteOf(a) \in Minutes
  <2>1. a \in Nat /\ a <= MaxTime
    BY <1>1
  <2>2. MinuteOf(a) <= MinuteOf(MaxTime) /\ MinuteOf(a) \in Nat /\ MinuteOf(MaxTime) \in Nat
    BY <1>1, <1>2, <1>4, <2>1
  <2> QED
    BY <2>2 DEF Minutes, MinuteOf
<1> QED
  BY <1>1, <1>2, <1>4, <1>6, <1>7, <1>8

\* How long the loop sleeps: into the next minute, and not past it.
LEMMA SleepFacts ==
  ASSUME NEW t \in Nat
  PROVE  /\ UntilNextMinute(t) \in 1..MinuteLen /\ SleepAfter(t) \in 1..MinuteLen
         /\ MinuteOf(t + UntilNextMinute(t)) = MinuteOf(t) + 1
         /\ MinuteOf(t + SleepAfter(t)) = MinuteOf(t) + 1
<1>1. SecondOf(t) \in 0..(MinuteLen - 1) /\ MinuteLen \in Nat \ {0} /\ MinSleep \in 1..MinuteLen
  BY MinuteFacts
<1>2. /\ UntilNextMinute(t) \in 1..MinuteLen /\ SleepAfter(t) \in 1..MinuteLen
      /\ MinuteLen - SecondOf(t) <= UntilNextMinute(t) /\ MinuteLen - SecondOf(t) <= SleepAfter(t)
  BY <1>1 DEF UntilNextMinute, SleepAfter
<1>3. ASSUME NEW b \in 1..MinuteLen, MinuteLen - SecondOf(t) <= b PROVE MinuteOf(t + b) = MinuteOf(t) + 1
  <2>1. b \in Nat /\ t + b \in Nat /\ t + b <= t + MinuteLen
    BY <1>1
  <2>2. MinuteOf(t) < MinuteOf(t + b)
    BY <1>3, <2>1, MinuteFacts
  <2>3. MinuteOf(t + b) <= MinuteOf(t) + 1
    BY <2>1, MinuteFacts
  <2>4. MinuteOf(t) \in Nat /\ MinuteOf(t + b) \in Nat
    BY <2>1, MinuteFacts
  <2> QED
    BY <2>2, <2>3, <2>4
<1> QED
  BY <1>2, <1>3

\* The entries are numbered, and the first that is due is one of them.
LEMMA FirstDue ==
  /\ Entries \subseteq Nat /\ Registered \subseteq Entries
  /\ \A t : Due(t) \subseteq Registered
            /\ (Due(t) # {} => First(Due(t)) \in Due(t) /\ \A j \in Due(t) : First(Due(t)) <= j)
<1>1. Entries \subseteq Nat
  BY SchedulerAssumption DEF Entries
<1>2. Registered \subseteq Entries
  BY SchedulerAssumption DEF Registered, Entries
<1>3. ASSUME NEW t PROVE Due(t) \subseteq Registered
  BY DEF Due
<1>4. ASSUME NEW t, Due(t) # {} PROVE First(Due(t)) \in Due(t) /\ \A j \in Due(t) : First(Due(t)) <= j
  <2>1. PICK i \in Due(t) : \A j \in Due(t) : i <= j
    <3>1. Due(t) \subseteq Nat
      BY <1>1, <1>2, <1>3
    <3> QED
      BY <1>4, <3>1, SmallestOf
  <2> QED
    BY <2>1 DEF First
<1> QED
  BY <1>1, <1>2, <1>3, <1>4

\* What the scheduler knows stays of its type.
LEMMA SchedTypesStep ==
  ASSUME SchedTypes, [SchedNext]_schedVars PROVE SchedTypes'
<1> USE DEF SchedTypes
<1>0. /\ now \in Nat /\ now <= MaxTime /\ left \in Nat /\ left <= MinuteLen /\ MinuteLen \in Nat \ {0}
      /\ MinSleep \in 1..MinuteLen /\ MaxTime \in Nat /\ MinuteOf(now) \in Minutes /\ MaxTroubles \in Nat
      /\ troubles \in Nat
  BY MinuteFacts DEF SchedTypeOK
<1>1. CASE Pass
  <2>1. now' \in 0..MaxTime /\ left' \in 0..(MinuteLen + MinSleep) /\ left' <= MinuteLen
    BY <1>0, <1>1 DEF Pass
  <2>2. busy' \subseteq Minutes
    <3>1. MinuteOf(now)' \in Minutes
      BY <2>1, MinuteFacts DEF MinuteOf
    <3>2. busy' \subseteq busy \cup {MinuteOf(now')}
      BY <1>1 DEF Pass
    <3> QED
      BY <3>1, <3>2 DEF SchedTypeOK, MinuteOf
  <2> QED
    BY <1>1, <2>1, <2>2 DEF Pass, SchedTypeOK
<1>2. CASE Suspend
  <2>1. PICK later \in (now + 1)..MaxTime : now' = later /\ busy' = busy \cup (MinuteOf(now)..MinuteOf(later))
    BY <1>2 DEF Suspend
  <2>2. later \in 0..MaxTime
    BY <1>0, <2>1
  <2>3. MinuteOf(now)..MinuteOf(later) \subseteq Minutes
    <3>1. MinuteOf(now) \in Nat /\ MinuteOf(later) \in Minutes
      BY <1>0, <2>2, MinuteFacts
    <3>2. PICK top : Minutes = 0..top /\ top = MinuteOf(MaxTime)
      BY DEF Minutes, MinuteOf
    <3>3. top \in Nat
      BY <1>0, <3>2, MinuteFacts
    <3> QED
      BY <3>1, <3>2, <3>3
  <2> QED
    BY <1>2, <2>1, <2>2, <2>3 DEF Suspend, SchedTypeOK
<1>3. CASE SetBack
  <2>1. now' \in 0..MaxTime /\ troubles' \in 0..MaxTroubles
    BY <1>0, <1>3 DEF SetBack
  <2> QED
    BY <1>3, <2>1 DEF SetBack, SchedTypeOK
<1>4. CASE Check
  <2>1. checked' \subseteq Minutes
    BY <1>0, <1>4 DEF Check, SchedTypeOK
  <2>2. CASE Due(now) # {}
    <3>1. PICK i \in Entries :
            /\ task' = i /\ lastRun' = [lastRun EXCEPT ![i] = MinuteOf(now)]
            /\ started' = [started EXCEPT ![i][MinuteOf(now)] = @ + 1]
            /\ busy' = busy \cup {MinuteOf(now)} /\ loop' = "running" /\ UNCHANGED left
      BY <1>4, <2>2, FirstDue DEF Check
    <3>2. started[i] \in [Minutes -> Nat] /\ started[i][MinuteOf(now)] + 1 \in Nat
      BY <1>0 DEF SchedTypeOK
    <3>3. started' \in [Entries -> [Minutes -> Nat]]
      BY <1>0, <3>1, <3>2 DEF SchedTypeOK
    <3> QED
      BY <1>0, <1>4, <2>1, <3>1, <3>3 DEF Check, SchedTypeOK
  <2>3. CASE Due(now) = {}
    <3>1. left' \in 0..(MinuteLen + MinSleep) /\ left' <= MinuteLen
      BY <1>0, <1>4, <2>3, SleepFacts DEF Check
    <3> QED
      BY <1>4, <2>1, <2>3, <3>1 DEF Check, SchedTypeOK
  <2> QED
    BY <2>2, <2>3
<1>5. CASE Finish
  BY <1>5 DEF Finish, SchedTypeOK
<1>6. CASE Deliver
  <2>1. left' \in 0..(MinuteLen + MinSleep) /\ left' <= MinuteLen
    <3>1. left' = SleepAfter(now) /\ SleepAfter(now) \in 1..MinuteLen
      BY <1>0, <1>6, SleepFacts DEF Deliver
    <3> QED
      BY <1>0, <3>1
  <2> QED
    BY <1>6, <2>1 DEF Deliver, SchedTypeOK
<1>7. CASE Panic \/ Crash
  <2>1. GoDown /\ panicked' \in BOOLEAN
    BY <1>7 DEF Panic, Crash, SchedTypeOK
  <2>2. troubles' \in 0..MaxTroubles /\ left' \in 0..(MinuteLen + MinSleep) /\ left' <= MinuteLen
    BY <1>0, <2>1 DEF GoDown
  <2>3. lastRun' \in [Entries -> Minutes \cup {-1}]
    BY <2>1 DEF GoDown
  <2> QED
    BY <1>0, <2>1, <2>2, <2>3 DEF GoDown, SchedTypeOK
<1>8. CASE Start
  <2>1. left' \in 0..(MinuteLen + MinSleep) /\ left' <= MinuteLen
    BY <1>0, <1>8, SleepFacts DEF Start
  <2> QED
    BY <1>0, <1>8, <2>1 DEF Start, SchedTypeOK
<1>9. CASE UNCHANGED schedVars
  BY <1>9 DEF schedVars, SchedTypeOK
<1> QED
  BY <1>1, <1>2, <1>3, <1>4, <1>5, <1>6, <1>7, <1>8, <1>9 DEF SchedNext

\* How far a step moves the minute of the clock and the one the loop wakes up in.
MinutesMove ==
  /\ MinuteOf(now) \in Nat /\ MinuteOf(now) <= MinuteOf(now + left)
  /\ MinuteOf(now + left) <= MinuteOf(now) + 1
  /\ left = 0 => now + left = now
  /\ loop' = "asleep" => MinuteOf(now') <= MinuteOf(now' + left')

\* Sums of numbers, for the times before and after a step.
LEMMA NatSums ==
  /\ \A x, y \in Nat : x + y \in Nat /\ x <= x + y
  /\ \A x, y, u, v \in Nat : x <= u /\ y <= v => x + y <= u + v
OBVIOUS

LEMMA MinutesMoveStep ==
  ASSUME SchedTypes, SchedTypes' PROVE MinutesMove
<1>1. /\ now \in Nat /\ left \in Nat /\ left <= MinuteLen /\ MinuteLen \in Nat \ {0}
      /\ now' \in Nat /\ left' \in Nat
  BY MinuteFacts DEF SchedTypes, SchedTypeOK
<1>2. /\ now + left \in Nat /\ now <= now + left /\ now + left <= now + MinuteLen
      /\ now' + left' \in Nat /\ now' <= now' + left'
  <2>1. MinuteLen \in Nat /\ now <= now
    BY <1>1
  <2> QED
    BY <1>1, <2>1, NatSums
<1>3. MinuteOf(now) \in Nat
  BY <1>1, MinuteFacts
<1>4. MinuteOf(now) <= MinuteOf(now + left)
  BY <1>1, <1>2, MinuteFacts
<1>5. MinuteOf(now + left) <= MinuteOf(now) + 1
  BY <1>1, <1>2, MinuteFacts
<1>6. MinuteOf(now') <= MinuteOf(now' + left')
  BY <1>1, <1>2, MinuteFacts
<1>7. left = 0 => now + left = now
  BY <1>1
<1> QED
  BY <1>3, <1>4, <1>5, <1>6, <1>7 DEF MinutesMove

\* No minute is skipped: the loop wakes up in the minute after the last it looked
\* at, unless the phone was suspended, and that shows.
LEMMA NoneSkippedStep ==
  ASSUME SchedTypes, SchedTypes', NoneSkipped, [SchedNext]_schedVars PROVE NoneSkipped'
<1>0. /\ now \in Nat /\ left \in Nat /\ now' \in Nat /\ left' \in Nat /\ MinutesMove
      /\ left <= MinuteLen /\ MinuteLen \in Nat \ {0}
      /\ \A m \in Minutes : m \in Nat
      /\ MinuteOf(now) \in Nat /\ MinuteOf(now') \in Nat
      /\ MinuteOf(now + left) \in Nat /\ MinuteOf(now' + left') \in Nat
  <2>1. /\ now \in Nat /\ left \in Nat /\ now' \in Nat /\ left' \in Nat /\ MinutesMove
        /\ left <= MinuteLen /\ MinuteLen \in Nat \ {0}
    <3>1. MinutesMove
      BY MinutesMoveStep
    <3> QED
      BY <3>1, MinuteFacts DEF SchedTypes, SchedTypeOK
  <2>2. now + left \in Nat /\ now' + left' \in Nat
    BY <2>1, NatSums
  <2>3. /\ MinuteOf(now) \in Nat /\ MinuteOf(now') \in Nat
        /\ MinuteOf(now + left) \in Nat /\ MinuteOf(now' + left') \in Nat
    BY <2>1, <2>2, MinuteFacts
  <2>4. \A m \in Minutes : m \in Nat
    BY DEF Minutes
  <2> QED
    BY <2>1, <2>2, <2>3, <2>4
<1>1. \A m \in Minutes : m < MinuteOf(now) => m \in Seen
  BY <1>0 DEF NoneSkipped, MinutesMove
<1>2. ASSUME Seen \subseteq Seen', loop' = "asleep",
             \A m \in Minutes : m = MinuteOf(now) => m \in Seen', MinuteOf(now' + left') <= MinuteOf(now) + 1
      PROVE  NoneSkipped'
  <2>1. ASSUME NEW m \in Minutes, m < MinuteOf(now' + left') PROVE m \in Seen'
    <3>1. m < MinuteOf(now) \/ m = MinuteOf(now)
      BY <1>0, <1>2, <2>1
    <3> QED
      BY <1>1, <1>2, <3>1
  <2> QED
    BY <1>2, <2>1 DEF NoneSkipped, MinuteOf, Minutes
<1>3. ASSUME Seen \subseteq Seen', loop' # "asleep",
             \A m \in Minutes : m \in MinuteOf(now)..MinuteOf(now') => m \in Seen'
      PROVE  NoneSkipped'
  <2>1. ASSUME NEW m \in Minutes, m <= MinuteOf(now') PROVE m \in Seen'
    <3>1. m < MinuteOf(now) \/ m \in MinuteOf(now)..MinuteOf(now')
      BY <1>0, <2>1
    <3> QED
      BY <1>1, <1>3, <3>1
  <2> QED
    BY <1>3, <2>1 DEF NoneSkipped, MinuteOf, Minutes
<1>4. CASE Pass
  <2>1. now' = now + 1 /\ UNCHANGED <<loop, checked>>
    BY <1>4 DEF Pass
  <2>2. CASE loop = "asleep"
    <3>1. left > 0 /\ left' = left - 1 /\ busy' = busy
      BY <1>4, <2>2 DEF Pass
    <3>2. now' + left' = now + left
      BY <1>0, <2>1, <3>1
    <3> QED
      BY <2>1, <2>2, <3>1, <3>2 DEF NoneSkipped, Seen
  <2>3. CASE loop # "asleep"
    <3>1. busy' = busy \cup {MinuteOf(now')}
      BY <1>4, <2>3 DEF Pass
    <3>2. MinuteOf(now') <= MinuteOf(now) + 1
      <4>1. PICK b \in Nat : b = now' /\ b <= now + MinuteLen
        BY <1>0, <2>1
      <4> QED
        BY <1>0, <4>1, MinuteFacts
    <3>3. \A m \in Minutes : m <= MinuteOf(now) => m \in Seen
      BY <2>3 DEF NoneSkipped
    <3>4. ASSUME NEW m \in Minutes, m \in MinuteOf(now)..MinuteOf(now') PROVE m \in Seen'
      <4>1. m = MinuteOf(now) \/ m = MinuteOf(now')
        <5>1. PICK k \in Nat, l \in Nat : k = MinuteOf(now) /\ l = MinuteOf(now')
          BY <1>0
        <5>2. m \in Int /\ k <= m /\ m <= l /\ l <= k + 1
          BY <1>0, <3>2, <3>4, <5>1
        <5> QED
          BY <5>1, <5>2
      <4>2. CASE m = MinuteOf(now)
        BY <1>0, <2>1, <3>1, <3>3, <4>2 DEF Seen
      <4>3. CASE m = MinuteOf(now')
        BY <3>1, <4>3 DEF Seen
      <4> QED
        BY <4>1, <4>2, <4>3
    <3>5. Seen \subseteq Seen'
      BY <2>1, <3>1 DEF Seen
    <3> QED
      BY <1>3, <2>1, <2>3, <3>4, <3>5
  <2> QED
    BY <2>2, <2>3
<1>5. CASE Suspend
  <2>1. /\ busy' = busy \cup (MinuteOf(now)..MinuteOf(now')) /\ now < now'
        /\ UNCHANGED <<left, loop, checked>>
    BY <1>0, <1>5 DEF Suspend
  <2>2. Seen \subseteq Seen' /\ \A m \in Minutes : m \in MinuteOf(now)..MinuteOf(now') => m \in Seen'
    BY <2>1 DEF Seen
  <2>3. CASE loop # "asleep"
    BY <1>3, <2>1, <2>2, <2>3
  <2>4. CASE loop = "asleep"
    <3>1. MinuteOf(now' + left') <= MinuteOf(now') + 1
      <4>1. MinuteLen \in Nat /\ now' <= now' /\ left' <= MinuteLen
        BY <1>0, <2>1
      <4>2. now' + left' \in Nat /\ now' + left' <= now' + MinuteLen
        BY <1>0, <4>1, NatSums
      <4> QED
        BY <1>0, <4>2, MinuteFacts
    <3>2. ASSUME NEW m \in Minutes, m < MinuteOf(now' + left') PROVE m \in Seen'
      <4>1. m < MinuteOf(now) \/ m \in MinuteOf(now)..MinuteOf(now')
        BY <1>0, <3>1, <3>2
      <4> QED
        BY <1>1, <2>2, <4>1
    <3> QED
      BY <2>1, <2>4, <3>2 DEF NoneSkipped, MinuteOf, Minutes
  <2> QED
    BY <2>3, <2>4
<1>6. CASE SetBack
  <2>1. now' < now /\ UNCHANGED <<left, loop, checked, busy>>
    BY <1>0, <1>6 DEF SetBack
  <2>2. MinuteOf(now') <= MinuteOf(now) /\ MinuteOf(now' + left') <= MinuteOf(now + left)
    <3>0. now' <= now /\ left' <= left
      BY <1>0, <2>1
    <3>1. now' + left' \in Nat /\ now + left \in Nat /\ now' + left' <= now + left
      BY <1>0, <3>0, NatSums
    <3>2. MinuteOf(now' + left') <= MinuteOf(now + left)
      BY <3>1, MinuteFacts
    <3> QED
      BY <1>0, <2>1, <3>1, <3>2, MinuteFacts
  <2>3. /\ loop = "asleep" => \A m \in Minutes : m < MinuteOf(now' + left') => m \in Seen
        /\ loop # "asleep" => \A m \in Minutes : m <= MinuteOf(now') => m \in Seen
    BY <1>0, <2>2 DEF NoneSkipped
  <2> QED
    BY <2>1, <2>3 DEF NoneSkipped, MinuteOf, Minutes, Seen
<1>7. CASE Check
  <2>1. left = 0 /\ loop = "asleep" /\ now' = now /\ checked' = checked \cup {MinuteOf(now)} /\ busy \subseteq busy'
    BY <1>7 DEF Check
  <2>2. Seen \subseteq Seen' /\ \A m \in Minutes : m = MinuteOf(now) => m \in Seen'
    BY <2>1 DEF Seen
  <2>3. CASE Due(now) # {}
    <3>1. loop' # "asleep"
      BY <1>7, <2>3 DEF Check
    <3>2. \A m \in Minutes : m \in MinuteOf(now)..MinuteOf(now') => m \in Seen'
      <4>1. ASSUME NEW m \in Minutes, m \in MinuteOf(now)..MinuteOf(now') PROVE m = MinuteOf(now)
        BY <1>0, <2>1, <4>1
      <4> QED
        BY <2>2, <4>1
    <3> QED
      BY <1>3, <2>2, <3>1, <3>2
  <2>4. CASE Due(now) = {}
    <3>1. loop' = "asleep" /\ left' = SleepAfter(now)
      BY <1>7, <2>1, <2>4 DEF Check
    <3>2. MinuteOf(now' + left') = MinuteOf(now) + 1
      BY <1>0, <2>1, <3>1, SleepFacts
    <3> QED
      BY <1>0, <1>2, <2>2, <3>1, <3>2
  <2> QED
    BY <2>3, <2>4
<1>8. CASE Finish
  BY <1>8 DEF Finish, NoneSkipped, Seen
<1>9. CASE Deliver \/ Start
  <2>1. /\ loop # "asleep" /\ loop' = "asleep" /\ now' = now /\ checked' = checked /\ busy \subseteq busy'
        /\ left' \in {SleepAfter(now), UntilNextMinute(now)}
    BY <1>9 DEF Deliver, Start
  <2>2. MinuteOf(now' + left') = MinuteOf(now) + 1
    BY <1>0, <2>1, SleepFacts
  <2>3. Seen \subseteq Seen'
    BY <2>1 DEF Seen
  <2>4. \A m \in Minutes : m = MinuteOf(now) => m \in Seen'
    BY <1>0, <2>1, <2>3 DEF NoneSkipped
  <2> QED
    BY <1>0, <1>2, <2>1, <2>2, <2>3, <2>4
<1>10. CASE Panic \/ Crash
  <2>1. GoDown
    BY <1>10 DEF Panic, Crash
  <2>2. loop' # "asleep" /\ now' = now /\ checked' = checked /\ busy' = busy \cup {MinuteOf(now)}
    BY <2>1 DEF GoDown
  <2>3. ASSUME NEW m \in Minutes, m \in MinuteOf(now)..MinuteOf(now') PROVE m = MinuteOf(now)
    BY <1>0, <2>2, <2>3
  <2>4. Seen \subseteq Seen' /\ MinuteOf(now) \in Seen'
    BY <2>2 DEF Seen
  <2> QED
    BY <1>3, <2>2, <2>3, <2>4
<1>11. CASE UNCHANGED schedVars
  BY <1>11 DEF schedVars, NoneSkipped, Seen
<1> QED
  BY <1>4, <1>5, <1>6, <1>7, <1>8, <1>9, <1>10, <1>11 DEF SchedNext

\* What a check does when an entry is due: it is marked and counted.
RunBegins(i) ==
  /\ i \in Due(now) /\ \A j \in Due(now) : i <= j
  /\ loop' = "running"
  /\ lastRun'[i] = MinuteOf(now) /\ \A j \in Entries : j # i => lastRun'[j] = lastRun[j]
  /\ started'[i][MinuteOf(now)] = started[i][MinuteOf(now)] + 1
  /\ \A j \in Entries, m \in Minutes : j # i \/ m # MinuteOf(now) => started'[j][m] = started[j][m]

LEMMA CheckEffect ==
  ASSUME SchedTypes, Check
  PROVE  /\ loop = "asleep" /\ left = 0 /\ now' = now /\ troubles' = troubles
         /\ checked' = checked \cup {MinuteOf(now)}
         /\ \/ \E i \in Entries : RunBegins(i)
            \/ /\ Due(now) = {} /\ loop' = "asleep" /\ left' = SleepAfter(now)
               /\ UNCHANGED <<lastRun, started>>
<1>1. /\ loop = "asleep" /\ left = 0 /\ now' = now /\ troubles' = troubles
      /\ checked' = checked \cup {MinuteOf(now)}
  BY DEF Check
<1>2. CASE Due(now) = {}
  BY <1>1, <1>2 DEF Check
<1>3. CASE Due(now) # {}
  <2>1. PICK i \in Due(now) :
          /\ i \in Entries /\ \A j \in Due(now) : i <= j
          /\ lastRun' = [lastRun EXCEPT ![i] = MinuteOf(now)]
          /\ started' = [started EXCEPT ![i][MinuteOf(now)] = @ + 1]
          /\ loop' = "running"
    BY <1>3, FirstDue DEF Check
  <2>2. MinuteOf(now) \in Minutes
    BY MinuteFacts DEF SchedTypes, SchedTypeOK
  <2>3. lastRun \in [Entries -> Minutes \cup {-1}] /\ started \in [Entries -> [Minutes -> Nat]]
    BY DEF SchedTypes, SchedTypeOK
  <2>4. RunBegins(i)
    BY <2>1, <2>2, <2>3 DEF RunBegins
  <2> QED
    BY <1>1, <2>1, <2>4
<1> QED
  BY <1>1, <1>2, <1>3

\* The numbers of a step of the scheduler.
SchedNumbers ==
  /\ now \in Nat /\ left \in Nat /\ now' \in Nat /\ left' \in Nat /\ MinutesMove
  /\ left <= MinuteLen /\ MinuteLen \in Nat \ {0} /\ troubles \in Nat
  /\ MinuteOf(now) \in Minutes /\ (\A m \in Minutes : m \in Nat)
  /\ MinuteOf(now) \in Nat /\ MinuteOf(now') \in Nat
  /\ MinuteOf(now + left) \in Nat /\ MinuteOf(now' + left') \in Nat
  /\ now + left \in Nat /\ now' + left' \in Nat
  /\ \A i \in Entries : lastRun[i] \in Minutes \cup {-1} /\ lastRun[i] \in Int
  /\ \A i \in Entries, m \in Minutes : started[i][m] \in Nat

LEMMA SchedNumbersStep ==
  ASSUME SchedTypes, SchedTypes' PROVE SchedNumbers
<1>1. MinutesMove
  BY MinutesMoveStep
<1>2. /\ now \in Nat /\ left \in Nat /\ now' \in Nat /\ left' \in Nat
      /\ left <= MinuteLen /\ MinuteLen \in Nat \ {0} /\ troubles \in Nat
      /\ MinuteOf(now) \in Minutes
  BY MinuteFacts DEF SchedTypes, SchedTypeOK
<1>3. now + left \in Nat /\ now' + left' \in Nat
  BY <1>2, NatSums
<1>4. /\ MinuteOf(now) \in Nat /\ MinuteOf(now') \in Nat
      /\ MinuteOf(now + left) \in Nat /\ MinuteOf(now' + left') \in Nat
  BY <1>2, <1>3, MinuteFacts
<1>5. \A m \in Minutes : m \in Nat
  BY DEF Minutes
<1>6. \A i \in Entries : lastRun[i] \in Minutes \cup {-1} /\ lastRun[i] \in Int
  BY <1>5 DEF SchedTypes, SchedTypeOK
<1>7. \A i \in Entries, m \in Minutes : started[i][m] \in Nat
  BY DEF SchedTypes, SchedTypeOK
<1> QED
  BY <1>1, <1>2, <1>3, <1>4, <1>5, <1>6, <1>7 DEF SchedNumbers

\* last_run tells of runs.
LEMMA RanStep ==
  ASSUME SchedTypes, SchedTypes', Ran, [SchedNext]_schedVars PROVE Ran'
<1>0. SchedNumbers
  BY SchedNumbersStep
<1>1. CASE Check
  <2>1. CASE UNCHANGED <<lastRun, started>>
    BY <2>1 DEF Ran
  <2>2. ASSUME NEW i \in Entries, RunBegins(i) PROVE Ran'
    <3>1. started[i][MinuteOf(now)] + 1 > 0
      BY <1>0 DEF SchedNumbers
    <3>2. ASSUME NEW j \in Entries, lastRun'[j] # -1 PROVE started'[j][lastRun'[j]] > 0
      <4>1. CASE j = i
        BY <2>2, <3>1, <4>1 DEF RunBegins
      <4>2. CASE j # i
        <5>1. lastRun'[j] = lastRun[j] /\ lastRun[j] \in Minutes
          BY <1>0, <2>2, <3>2, <4>2 DEF RunBegins, SchedNumbers
        <5>2. started'[j][lastRun[j]] = started[j][lastRun[j]]
          BY <2>2, <4>2, <5>1 DEF RunBegins
        <5> QED
          BY <3>2, <5>1, <5>2 DEF Ran
      <4> QED
        BY <4>1, <4>2
    <3> QED
      BY <3>2 DEF Ran
  <2> QED
    BY <1>1, <2>1, <2>2, CheckEffect
<1>2. CASE Panic \/ Crash
  BY <1>2 DEF Panic, Crash, GoDown, Ran
<1>3. CASE Pass \/ Suspend \/ SetBack \/ Finish \/ Deliver \/ Start \/ UNCHANGED schedVars
  <2>1. UNCHANGED <<lastRun, started>>
    BY <1>3 DEF Pass, Suspend, SetBack, Finish, Deliver, Start, schedVars
  <2> QED
    BY <2>1 DEF Ran
<1> QED
  BY <1>1, <1>2, <1>3 DEF SchedNext

\* Where the clock and the minute of the next look go in a step that does not set
\* the clock back.
LEMMA ClockGoesOn ==
  ASSUME SchedTypes, SchedTypes', SchedNext, ~SetBack
  PROVE  /\ MinuteOf(now) <= MinuteOf(now')
         /\ Pass \/ Suspend => /\ loop' = loop /\ UNCHANGED <<lastRun, started, troubles, checked>>
                               /\ loop = "asleep" => MinuteOf(now + left) <= MinuteOf(now' + left')
         /\ Deliver \/ Start => /\ loop # "asleep" /\ loop' = "asleep"
                                /\ UNCHANGED <<lastRun, started, troubles, checked>>
                                /\ MinuteOf(now' + left') = MinuteOf(now) + 1
         /\ Panic \/ Crash => /\ loop' # "asleep" /\ now' = now /\ UNCHANGED <<started, checked>>
                              /\ troubles' = troubles + 1
         /\ Finish => /\ loop # "asleep" /\ loop' # "asleep" /\ now' = now
                      /\ UNCHANGED <<lastRun, started, troubles, checked>>
<1>0. SchedNumbers
  BY SchedNumbersStep
<1>1. CASE Pass
  <2>1. now' = now + 1 /\ loop' = loop /\ UNCHANGED <<lastRun, started, troubles, checked>>
    BY <1>1 DEF Pass
  <2>2. now <= now'
    BY <1>0, <2>1 DEF SchedNumbers
  <2>3. MinuteOf(now) <= MinuteOf(now')
    BY <1>0, <2>2, MinuteFacts DEF SchedNumbers
  <2>4. ASSUME loop = "asleep" PROVE MinuteOf(now + left) <= MinuteOf(now' + left')
    <3>1. left > 0 /\ left' = left - 1
      BY <1>1, <2>4 DEF Pass
    <3>2. now' + left' = now + left
      BY <1>0, <2>1, <3>1 DEF SchedNumbers
    <3>3. MinuteOf(now' + left') = MinuteOf(now + left)
      BY <3>2
    <3> QED
      BY <1>0, <3>3 DEF SchedNumbers
  <2> QED
    BY <1>1, <2>1, <2>3, <2>4 DEF Pass, Deliver, Start, Panic, Crash, GoDown, Finish
<1>2. CASE Suspend
  <2>1. now' \in (now + 1)..MaxTime /\ UNCHANGED <<loop, left, lastRun, started, troubles, checked>>
    BY <1>2 DEF Suspend
  <2>2. now <= now' /\ left <= left'
    BY <1>0, <2>1, MinuteFacts, SMTT(30) DEF SchedNumbers
  <2>3. MinuteOf(now) <= MinuteOf(now')
    BY <1>0, <2>2, MinuteFacts DEF SchedNumbers
  <2>4. now + left <= now' + left'
    BY <1>0, <2>2, NatSums DEF SchedNumbers
  <2>5. MinuteOf(now + left) <= MinuteOf(now' + left')
    BY <1>0, <2>4, MinuteFacts DEF SchedNumbers
  <2> QED
    BY <2>1, <2>3, <2>5, <1>2 DEF Suspend, Deliver, Start, Panic, Crash, GoDown, Finish
<1>3. CASE Check
  <2>1. now' = now /\ loop = "asleep"
    BY <1>3, CheckEffect
  <2>2. ~Pass /\ ~Suspend /\ ~Deliver /\ ~Start /\ ~Finish
    <3>1. ~Pass /\ ~Suspend
      <4>1. now' # now + 1 /\ ~\E later \in (now + 1)..MaxTime : now' = later
        BY <1>0, <2>1, MinuteFacts DEF SchedNumbers
      <4> QED
        BY <4>1 DEF Pass, Suspend
    <3> QED
      BY <2>1, <3>1 DEF Deliver, Start, Finish
  <2>3. ~Panic /\ ~Crash
    <3>1. troubles' = troubles
      BY <1>3, CheckEffect
    <3>2. troubles' # troubles + 1
      BY <1>0, <3>1 DEF SchedNumbers
    <3> QED
      BY <3>2 DEF Panic, Crash, GoDown
  <2> QED
    BY <1>0, <2>1, <2>2, <2>3 DEF SchedNumbers
<1>4. CASE Deliver \/ Start
  <2>1. /\ loop # "asleep" /\ loop' = "asleep" /\ now' = now
        /\ left' \in {SleepAfter(now), UntilNextMinute(now)}
        /\ UNCHANGED <<lastRun, started, troubles, checked>>
    BY <1>4 DEF Deliver, Start
  <2>2. MinuteOf(now' + left') = MinuteOf(now) + 1
    BY <1>0, <2>1, SleepFacts DEF SchedNumbers
  <2>3. MinuteOf(now) <= MinuteOf(now')
    BY <1>0, <2>1 DEF SchedNumbers
  <2>4. ~Pass /\ ~Suspend /\ ~Panic /\ ~Crash /\ ~Finish
    BY <2>1 DEF Pass, Suspend, Panic, Crash, GoDown, Finish
  <2> QED
    BY <2>1, <2>2, <2>3, <2>4
<1>5. CASE Panic \/ Crash
  <2>1. /\ loop' = "down" /\ now' = now /\ UNCHANGED <<started, checked>>
        /\ troubles' = troubles + 1
    BY <1>5 DEF Panic, Crash, GoDown
  <2>2. MinuteOf(now) <= MinuteOf(now') /\ troubles' # troubles
    BY <1>0, <2>1 DEF SchedNumbers
  <2> QED
    BY <2>1, <2>2 DEF Pass, Suspend, Deliver, Start, Finish
<1>6. CASE Finish
  <2>1. /\ loop = "running" /\ loop' = "deliver" /\ now' = now
        /\ UNCHANGED <<lastRun, started, troubles, checked>>
    BY <1>6 DEF Finish
  <2>2. MinuteOf(now) <= MinuteOf(now')
    BY <1>0, <2>1 DEF SchedNumbers
  <2> QED
    BY <2>1, <2>2 DEF Pass, Suspend, Deliver, Start, Panic, Crash, GoDown
<1> QED
  BY <1>1, <1>2, <1>3, <1>4, <1>5, <1>6 DEF SchedNext

\* While the clock is not set back, what ran stays behind the minute that comes.
LEMMA AheadStep ==
  ASSUME SchedTypes, SchedTypes', Ahead, SchedNext, ~SetBack PROVE Ahead'
<1>0. SchedNumbers
  BY SchedNumbersStep
<1>1. CASE Check
  <2>1. loop = "asleep" /\ now' = now /\ now + left = now
    BY <1>0, <1>1, CheckEffect DEF SchedNumbers
  <2>2. \A i \in Entries, m \in Minutes : started[i][m] > 0 => m < MinuteOf(now)
    BY <2>1 DEF Ahead
  <2>3. CASE /\ Due(now) = {} /\ loop' = "asleep" /\ left' = SleepAfter(now)
             /\ UNCHANGED <<lastRun, started>>
    <3>1. MinuteOf(now' + left') = MinuteOf(now) + 1
      BY <1>0, <2>1, <2>3, SleepFacts DEF SchedNumbers
    <3>2. \A i \in Entries, m \in Minutes : started'[i][m] > 0 => m < MinuteOf(now' + left')
      BY <1>0, <2>2, <2>3, <3>1 DEF SchedNumbers
    <3> QED
      BY <2>3, <3>2 DEF Ahead, MinuteOf, Minutes, Entries
  <2>4. ASSUME NEW i \in Entries, RunBegins(i) PROVE Ahead'
    <3>1. ASSUME NEW j \in Entries, NEW m \in Minutes, started'[j][m] > 0 PROVE m <= MinuteOf(now')
      <4>1. CASE j = i /\ m = MinuteOf(now)
        BY <1>0, <2>1, <4>1 DEF SchedNumbers
      <4>2. CASE j # i \/ m # MinuteOf(now)
        BY <1>0, <2>1, <2>2, <2>4, <3>1, <4>2 DEF SchedNumbers, RunBegins
      <4> QED
        BY <4>1, <4>2
    <3> QED
      BY <2>4, <3>1 DEF Ahead, RunBegins, MinuteOf, Minutes, Entries
  <2> QED
    BY <1>1, <2>3, <2>4, CheckEffect
<1>2. CASE Pass \/ Suspend
  <2>1. /\ loop' = loop /\ UNCHANGED started /\ MinuteOf(now) <= MinuteOf(now')
        /\ loop = "asleep" => MinuteOf(now + left) <= MinuteOf(now' + left')
    BY <1>2, ClockGoesOn
  <2>2. ASSUME NEW j \in Entries, NEW m \in Minutes, started'[j][m] > 0
        PROVE  /\ loop = "asleep" => m < MinuteOf(now' + left')
               /\ loop # "asleep" => m <= MinuteOf(now')
    BY <1>0, <2>1, <2>2 DEF SchedNumbers, Ahead
  <2> QED
    BY <2>1, <2>2 DEF Ahead, MinuteOf, Minutes, Entries
<1>3. CASE Deliver \/ Start
  <2>1. /\ loop # "asleep" /\ loop' = "asleep" /\ UNCHANGED started
        /\ MinuteOf(now' + left') = MinuteOf(now) + 1
    BY <1>3, ClockGoesOn
  <2>2. \A j \in Entries, m \in Minutes : started'[j][m] > 0 => m < MinuteOf(now' + left')
    BY <1>0, <2>1 DEF SchedNumbers, Ahead
  <2> QED
    BY <2>1, <2>2 DEF Ahead, MinuteOf, Minutes, Entries
<1>4. CASE Panic \/ Crash \/ Finish
  <2>1. loop' # "asleep" /\ now' = now /\ UNCHANGED started
    BY <1>4, ClockGoesOn
  <2>2. \A j \in Entries, m \in Minutes : started'[j][m] > 0 => m <= MinuteOf(now')
    BY <1>0, <2>1 DEF SchedNumbers, Ahead, MinutesMove
  <2> QED
    BY <2>1, <2>2 DEF Ahead, MinuteOf, Minutes, Entries
<1> QED
  BY <1>1, <1>2, <1>3, <1>4 DEF SchedNext

\* While the process does not end, last_run stays the last minute of its entry.
LEMMA LatestStep ==
  ASSUME SchedTypes, SchedTypes', Latest, Near, SchedNext, ~SetBack, ~Panic, ~Crash
  PROVE  (Latest /\ Near)'
<1>0. SchedNumbers
  BY SchedNumbersStep
<1>1. CASE Check
  <2>1. loop = "asleep" /\ now' = now /\ now + left = now
    BY <1>0, <1>1, CheckEffect DEF SchedNumbers
  <2>2. \A i \in Entries : lastRun[i] <= MinuteOf(now)
    BY <2>1 DEF Near
  <2>3. CASE /\ Due(now) = {} /\ loop' = "asleep" /\ left' = SleepAfter(now)
             /\ UNCHANGED <<lastRun, started>>
    <3>1. MinuteOf(now' + left') = MinuteOf(now) + 1
      BY <1>0, <2>1, <2>3, SleepFacts DEF SchedNumbers
    <3>2. \A i \in Entries : lastRun'[i] <= MinuteOf(now' + left')
      BY <1>0, <2>2, <2>3, <3>1 DEF SchedNumbers
    <3>3. Latest'
      BY <2>3 DEF Latest
    <3> QED
      BY <2>3, <3>2, <3>3 DEF Near, MinuteOf, Entries
  <2>4. ASSUME NEW i \in Entries, RunBegins(i) PROVE (Latest /\ Near)'
    <3>1. ASSUME NEW j \in Entries PROVE lastRun[j] <= lastRun'[j] /\ lastRun'[j] <= MinuteOf(now')
      BY <1>0, <2>1, <2>2, <2>4 DEF SchedNumbers, RunBegins
    <3>2. ASSUME NEW j \in Entries, NEW m \in Minutes, started'[j][m] > 0 PROVE m <= lastRun'[j]
      <4>1. CASE j = i /\ m = MinuteOf(now)
        BY <1>0, <2>4, <4>1 DEF SchedNumbers, RunBegins
      <4>2. CASE j # i \/ m # MinuteOf(now)
        <5>1. m <= lastRun[j]
          BY <2>4, <3>2, <4>2 DEF Latest, RunBegins
        <5>2. lastRun'[j] \in Int
          BY <1>0, <2>4 DEF SchedNumbers, RunBegins
        <5> QED
          BY <1>0, <3>1, <5>1, <5>2 DEF SchedNumbers
      <4> QED
        BY <4>1, <4>2
    <3>3. \A j \in Entries : lastRun'[j] <= MinuteOf(now') + 1
      <4> SUFFICES ASSUME NEW j \in Entries PROVE lastRun'[j] <= MinuteOf(now') + 1
        OBVIOUS
      <4>1. lastRun'[j] \in Int /\ lastRun'[j] <= MinuteOf(now) /\ MinuteOf(now') = MinuteOf(now)
        BY <1>0, <2>1, <2>4, <3>1 DEF SchedNumbers, RunBegins
      <4> QED
        BY <1>0, <4>1 DEF SchedNumbers
    <3> QED
      BY <2>4, <3>2, <3>3 DEF Near, Latest, RunBegins, MinuteOf, Entries, Minutes
  <2> QED
    BY <1>1, <2>3, <2>4, CheckEffect
<1>2. CASE Pass \/ Suspend
  <2>1. /\ loop' = loop /\ UNCHANGED <<started, lastRun>> /\ MinuteOf(now) <= MinuteOf(now')
        /\ loop = "asleep" => MinuteOf(now + left) <= MinuteOf(now' + left')
    BY <1>2, ClockGoesOn
  <2>2. PICK k \in Nat : k = MinuteOf(now')
    BY <1>0 DEF SchedNumbers
  <2>3. ASSUME NEW j \in Entries
        PROVE  /\ loop = "asleep" => lastRun[j] <= MinuteOf(now' + left')
               /\ loop # "asleep" => lastRun[j] <= k + 1
    BY <1>0, <2>1, <2>2 DEF SchedNumbers, Near
  <2> QED
    BY <2>1, <2>2, <2>3 DEF Latest, Near, MinuteOf, Entries, Minutes
<1>3. CASE Deliver \/ Start
  <2>1. /\ loop # "asleep" /\ loop' = "asleep" /\ UNCHANGED <<started, lastRun>>
        /\ MinuteOf(now' + left') = MinuteOf(now) + 1
    BY <1>3, ClockGoesOn
  <2> QED
    BY <2>1 DEF Latest, Near, MinuteOf, Entries, Minutes
<1>4. CASE Finish
  <2>1. loop # "asleep" /\ loop' # "asleep" /\ now' = now /\ UNCHANGED <<started, lastRun>>
    BY <1>4, ClockGoesOn
  <2> QED
    BY <2>1 DEF Latest, Near, MinuteOf, Entries, Minutes
<1> QED
  BY <1>1, <1>2, <1>3, <1>4 DEF SchedNext

\* The clock is set back by less than a minute.
LEMMA SetBackStep ==
  ASSUME SchedTypes, SchedTypes', Ahead, Latest, Ran, SetBack PROVE (Latest /\ Near)'
<1>0. SchedNumbers
  BY SchedNumbersStep
<1>1. /\ UNCHANGED <<left, loop, lastRun, started>> /\ now < now' + MinuteLen
  <2>1. PICK earlier \in 0..(now - 1) : now - earlier < MinuteLen /\ now' = earlier
    BY DEF SetBack
  <2>2. earlier \in Nat /\ now < earlier + MinuteLen
    BY <1>0, <2>1 DEF SchedNumbers
  <2> QED
    BY <2>1, <2>2 DEF SetBack
<1>2. PICK a \in Nat, b \in Nat : a = now' /\ b = left'
  BY <1>0 DEF SchedNumbers
<1>3. /\ a + b \in Nat /\ now <= a + MinuteLen /\ now + left <= (a + b) + MinuteLen
      /\ now' + left' = a + b
  <2>1. /\ now' + left' = a + b /\ left = b /\ now \in Nat /\ MinuteLen \in Nat
        /\ now < a + MinuteLen
    BY <1>0, <1>1, <1>2 DEF SchedNumbers
  <2>2. now + b <= (a + b) + MinuteLen
    BY <2>1
  <2> QED
    BY <2>1, <2>2
<1>4. MinuteOf(now) <= MinuteOf(a) + 1 /\ MinuteOf(now + left) <= MinuteOf(a + b) + 1
  BY <1>0, <1>3, MinuteFacts DEF SchedNumbers
<1>5. ASSUME NEW i \in Entries
      PROVE  /\ loop = "asleep" => lastRun[i] <= MinuteOf(a + b)
             /\ loop # "asleep" => lastRun[i] <= MinuteOf(a) + 1
  <2>1. MinuteOf(a + b) \in Nat /\ MinuteOf(a) \in Nat
    BY <1>3, MinuteFacts
  <2>2. CASE lastRun[i] = -1
    BY <2>1, <2>2
  <2>3. CASE lastRun[i] # -1
    <3>1. lastRun[i] \in Minutes /\ started[i][lastRun[i]] > 0
      BY <1>0, <2>3 DEF Ran, SchedNumbers
    <3>2. /\ loop = "asleep" => lastRun[i] < MinuteOf(now + left)
          /\ loop # "asleep" => lastRun[i] <= MinuteOf(now)
      BY <3>1 DEF Ahead
    <3> QED
      BY <1>0, <1>4, <2>1, <3>1, <3>2 DEF SchedNumbers
  <2> QED
    BY <2>2, <2>3
<1>6. Latest'
  BY <1>1 DEF Latest
<1>7. Near'
  BY <1>1, <1>2, <1>3, <1>5 DEF Near, MinuteOf, Entries
<1> QED
  BY <1>6, <1>7

\* As long as there was one crash or one setting back of the clock at most, no
\* entry has run twice in a minute.
LEMMA RunOnceStep ==
  ASSUME SchedTypes, SchedTypes', Ran, RunOnce, [SchedNext]_schedVars PROVE RunOnce'
<1>0. SchedNumbers
  BY SchedNumbersStep
<1>1. Ahead => Near
  <2> SUFFICES ASSUME Ahead, NEW i \in Entries
               PROVE  /\ loop = "asleep" => lastRun[i] <= MinuteOf(now + left)
                      /\ loop # "asleep" => lastRun[i] <= MinuteOf(now) + 1
    BY DEF Near
  <2>1. CASE lastRun[i] = -1
    BY <1>0, <2>1 DEF SchedNumbers
  <2>2. CASE lastRun[i] # -1
    <3>1. lastRun[i] \in Minutes /\ started[i][lastRun[i]] > 0
      BY <1>0, <2>2 DEF Ran, SchedNumbers
    <3>2. /\ loop = "asleep" => lastRun[i] < MinuteOf(now + left)
          /\ loop # "asleep" => lastRun[i] <= MinuteOf(now)
      BY <3>1 DEF Ahead
    <3> QED
      BY <1>0, <3>1, <3>2 DEF SchedNumbers
  <2> QED
    BY <2>1, <2>2
<1>2. CASE SetBack
  <2>1. troubles' = troubles + 1 /\ UNCHANGED started
    BY <1>2 DEF SetBack
  <2>2. troubles = 0 => (Latest /\ Near)'
    BY <1>2, SetBackStep DEF RunOnce
  <2>3. troubles' = 1 \/ troubles' = 0 \/ troubles' <= 1 => troubles = 0 /\ troubles' = 1
    BY <1>0, <2>1 DEF SchedNumbers
  <2> QED
    BY <2>1, <2>2, <2>3 DEF RunOnce
<1>3. CASE (Panic \/ Crash) /\ ~SetBack
  <2>1. troubles' = troubles + 1 /\ UNCHANGED started
    BY <1>3, ClockGoesOn DEF SchedNext
  <2>2. troubles = 0 => Ahead'
    BY <1>3, AheadStep DEF RunOnce, SchedNext
  <2>3. troubles' = 1 \/ troubles' = 0 \/ troubles' <= 1 => troubles = 0 /\ troubles' = 1
    BY <1>0, <2>1 DEF SchedNumbers
  <2> QED
    BY <2>1, <2>2, <2>3 DEF RunOnce
<1>4. CASE SchedNext /\ ~SetBack /\ ~Panic /\ ~Crash
  <2>1. troubles' = troubles
    BY <1>4, ClockGoesOn, CheckEffect DEF SchedNext
  <2>2. troubles = 0 => Ahead' /\ Latest'
    BY <1>1, <1>4, AheadStep, LatestStep DEF RunOnce
  <2>3. troubles = 1 => Ahead' \/ (Latest' /\ Near')
    BY <1>4, AheadStep, LatestStep DEF RunOnce
  <2>4. ASSUME troubles <= 1 PROVE \A i \in Entries, m \in Minutes : started'[i][m] <= 1
    <3>1. \A i \in Entries, m \in Minutes : started[i][m] <= 1
      BY <2>4 DEF RunOnce
    <3>2. CASE UNCHANGED started
      BY <3>1, <3>2
    <3>3. ASSUME Check, NEW i \in Entries, RunBegins(i)
          PROVE  \A j \in Entries, m \in Minutes : started'[j][m] <= 1
      <4>1. loop = "asleep" /\ now + left = now
        BY <1>0, <3>3, CheckEffect DEF SchedNumbers
      <4>2. lastRun[i] # MinuteOf(now)
        BY <3>3 DEF RunBegins, Due
      <4>3. Ahead \/ (Latest /\ Near)
        <5>1. troubles = 0 \/ troubles = 1
          BY <1>0, <2>4 DEF SchedNumbers
        <5> QED
          BY <5>1 DEF RunOnce
      <4>4. ~(started[i][MinuteOf(now)] > 0)
        <5>1. CASE Ahead
          BY <1>0, <4>1, <5>1 DEF SchedNumbers, Ahead
        <5>2. CASE Latest /\ Near
          BY <1>0, <4>1, <4>2, <5>2 DEF SchedNumbers, Latest, Near
        <5> QED
          BY <4>3, <5>1, <5>2
      <4>5. started'[i][MinuteOf(now)] = 1
        BY <1>0, <3>3, <4>4 DEF SchedNumbers, RunBegins
      <4> SUFFICES ASSUME NEW j \in Entries, NEW m \in Minutes PROVE started'[j][m] <= 1
        OBVIOUS
      <4>6. CASE j = i /\ m = MinuteOf(now)
        BY <4>5, <4>6
      <4>7. CASE j # i \/ m # MinuteOf(now)
        BY <3>1, <3>3, <4>7 DEF RunBegins
      <4> QED
        BY <4>6, <4>7
    <3>4. UNCHANGED started \/ (Check /\ \E i \in Entries : RunBegins(i))
      BY <1>4, ClockGoesOn, CheckEffect DEF SchedNext
    <3> QED
      BY <3>2, <3>3, <3>4
  <2> QED
    BY <2>1, <2>2, <2>3, <2>4 DEF RunOnce, Entries, Minutes
<1>5. CASE UNCHANGED schedVars
  BY <1>5 DEF schedVars, RunOnce, Ahead, Latest, Near
<1> QED
  BY <1>2, <1>3, <1>4, <1>5 DEF SchedNext

\* What ran was due, and what was due in a minute the loop looked at ran, or an
\* entry before it.
LEMMA RunsDueStep ==
  ASSUME SchedTypes, SchedTypes', Ran, RunsDue, [SchedNext]_schedVars PROVE RunsDue'
<1>0. SchedNumbers
  BY SchedNumbersStep
<1>1. CASE Check
  <2>1. checked' = checked \cup {MinuteOf(now)} /\ (Due(now) = {} => UNCHANGED started)
    BY <1>1, CheckEffect DEF RunBegins
  <2>2. \A i \in Due(now) : Fires(i, MinuteOf(now))
    BY DEF Due, Matches, Fires
  <2>3. \A i \in Entries : Fires(i, MinuteOf(now)) /\ i \notin Due(now) => started[i][MinuteOf(now)] > 0
    <3> SUFFICES ASSUME NEW i \in Entries, Fires(i, MinuteOf(now)), i \notin Due(now)
                 PROVE  started[i][MinuteOf(now)] > 0
      OBVIOUS
    <3>1. lastRun[i] = MinuteOf(now)
      BY DEF Due, Matches, Fires
    <3>2. MinuteOf(now) # -1
      BY <1>0 DEF SchedNumbers
    <3> QED
      BY <3>1, <3>2 DEF Ran
  <2>4. CASE UNCHANGED started /\ Due(now) = {}
    <3>1. \A i \in Entries, m \in Minutes : m \in checked' /\ Fires(i, m) =>
            \E j \in Entries : j <= i /\ started[j][m] > 0
      <4> SUFFICES ASSUME NEW i \in Entries, NEW m \in Minutes, m \in checked', Fires(i, m)
                   PROVE  \E j \in Entries : j <= i /\ started[j][m] > 0
        OBVIOUS
      <4>1. CASE m \in checked
        BY <4>1 DEF RunsDue
      <4>2. CASE m = MinuteOf(now)
        <5>1. i <= i
          BY FirstDue
        <5> QED
          BY <2>3, <2>4, <4>2, <5>1
      <4> QED
        BY <2>1, <4>1, <4>2
    <3> QED
      BY <2>4, <3>1 DEF RunsDue
  <2>5. ASSUME NEW i \in Entries, RunBegins(i) PROVE RunsDue'
    <3>1. started'[i][MinuteOf(now)] > 0 /\ Fires(i, MinuteOf(now))
      BY <1>0, <2>2, <2>5 DEF RunBegins, SchedNumbers
    <3>2. ASSUME NEW j \in Entries, NEW m \in Minutes
          PROVE  started[j][m] > 0 => started'[j][m] > 0
      <4>1. CASE j = i /\ m = MinuteOf(now)
        BY <3>1, <4>1
      <4>2. CASE j # i \/ m # MinuteOf(now)
        BY <2>5, <4>2 DEF RunBegins
      <4> QED
        BY <4>1, <4>2
    <3>3. ASSUME NEW j \in Entries, NEW m \in Minutes, started'[j][m] > 0 PROVE Fires(j, m)
      <4>1. CASE j = i /\ m = MinuteOf(now)
        BY <3>1, <4>1
      <4>2. CASE j # i \/ m # MinuteOf(now)
        BY <2>5, <3>3, <4>2 DEF RunBegins, RunsDue
      <4> QED
        BY <4>1, <4>2
    <3>4. ASSUME NEW j \in Entries, NEW m \in Minutes, m \in checked', Fires(j, m)
          PROVE  \E k \in Entries : k <= j /\ started'[k][m] > 0
      <4>1. CASE m \in checked
        BY <3>2, <3>4, <4>1 DEF RunsDue
      <4>2. CASE m = MinuteOf(now)
        <5>1. CASE j \in Due(now)
          BY <2>5, <3>1, <4>2, <5>1 DEF RunBegins
        <5>2. CASE j \notin Due(now)
          <6>1. j <= j
            BY FirstDue
          <6> QED
            BY <2>3, <3>2, <3>4, <4>2, <5>2, <6>1
        <5> QED
          BY <5>1, <5>2
      <4> QED
        BY <2>1, <3>4, <4>1, <4>2
    <3> QED
      BY <3>3, <3>4 DEF RunsDue, Fires, Entries, Minutes, Registered
  <2> QED
    BY <1>1, <2>4, <2>5, CheckEffect
<1>2. CASE ~Check
  <2>1. UNCHANGED <<started, checked>>
    BY <1>2 DEF SchedNext, Pass, Suspend, SetBack, Finish, Deliver, Panic, Crash, GoDown, Start, schedVars
  <2> QED
    BY <2>1 DEF RunsDue
<1> QED
  BY <1>1, <1>2

\* What is left over of a multiple is nothing, and conversely.
LEMMA MultipleMeaning ==
  ASSUME NEW x \in Nat, NEW n \in Nat \ {0}
  PROVE  /\ x % n = 0 => \E k \in 0..x : x = k * n
         /\ \A k \in Nat : x = k * n => x % n = 0
<1>1. PICK q \in Nat, r \in 0..(n - 1) : q = x \div n /\ r = x % n /\ x = n * q + r
  OBVIOUS
<1>2. ASSUME r = 0 PROVE \E k \in 0..x : x = k * n
  <2>1. x = q * n
    BY <1>1, <1>2
  <2>2. PICK d \in Nat : n = d + 1
    <3>1. n - 1 \in Nat /\ n = (n - 1) + 1
      OBVIOUS
    <3> QED
      BY <3>1
  <2>3. x = q * d + q /\ q * d \in Nat
    BY <2>1, <2>2
  <2>4. q <= x
    BY <2>3
  <2> QED
    BY <2>1, <2>4
<1>3. ASSUME NEW k \in Nat, x = k * n PROVE r = 0
  <2>1. CASE k < q
    <3>1. PICK d \in Nat : q = k + 1 + d
      <4>1. q - (k + 1) \in Nat /\ q = k + 1 + (q - (k + 1))
        BY <2>1
      <4> QED
        BY <4>1
    <3>2. n * q = k * n + n + n * d /\ n * d \in Nat /\ k * n \in Nat
      BY <3>1
    <3> QED
      BY <1>1, <1>3, <3>2
  <2>2. CASE q < k
    <3>1. PICK d \in Nat : k = q + 1 + d
      <4>1. k - (q + 1) \in Nat /\ k = q + 1 + (k - (q + 1))
        BY <2>2
      <4> QED
        BY <4>1
    <3>2. k * n = n * q + n + n * d /\ n * d \in Nat /\ n * q \in Nat
      BY <3>1
    <3> QED
      BY <1>1, <1>3, <3>2
  <2>3. CASE k = q
    <3>1. n * q = k * n /\ n * q \in Nat
      BY <2>3
    <3> QED
      BY <1>1, <1>3, <3>1
  <2> QED
    BY <2>1, <2>2, <2>3
<1> QED
  BY <1>1, <1>2, <1>3

\* A part is parsed to the values it describes, and to none if it is wrong.
LEMMA PartMeaning ==
  ASSUME NEW part \in Parts, NEW top \in Nat, top + 1 = MinutesPerHour, NEW v \in 0..top
  PROVE  /\ WellFormed(part) <=> ParsePart(part, 0, top) # {}
         /\ WellFormed(part) => (Described(part, v) <=> v \in ParsePart(part, 0, top))
<1>0. /\ v \in Nat /\ v <= top /\ top = MinutesPerHour - 1 /\ MinutesPerHour \in Nat
      /\ \A a, b \in Nat : ParseRange(a, b, 0, top) = IF b > top \/ a > b THEN {} ELSE a..b
  BY DEF ParseRange
<1>1. CASE part.kind = "any"
  <2>1. ParsePart(part, 0, top) = 0..top
    BY <1>1 DEF ParsePart
  <2>2. WellFormed(part) /\ Described(part, v)
    BY <1>1 DEF WellFormed, Described
  <2> QED
    BY <1>0, <2>1, <2>2
<1>2. CASE part.kind = "every"
  <2>1. part.step \in Nat
    BY <1>2 DEF Parts
  <2>2. WellFormed(part) <=> part.step # 0
    BY <1>2, <2>1 DEF WellFormed
  <2>3. Described(part, v) <=> v % part.step = 0
    BY <1>2 DEF Described
  <2>4. ParsePart(part, 0, top) = IF part.step = 0 THEN {}
                                  ELSE {0 + k * part.step : k \in 0..(top - 0)} \cap (0..top)
    BY <1>2 DEF ParsePart
  <2>5. CASE part.step = 0
    BY <2>2, <2>4, <2>5
  <2>6. CASE part.step # 0
    <3>1. PICK n \in Nat \ {0} : n = part.step
      BY <2>1, <2>6
    <3>2. top - 0 = top /\ \A k \in Nat : 0 + k * n = k * n
      OBVIOUS
    <3>3. ParsePart(part, 0, top) = {k * n : k \in 0..top} \cap (0..top)
      <4>1. \A k \in 0..top : 0 + k * n = k * n
        BY <3>2
      <4> QED
        BY <2>4, <3>1, <3>2, <4>1
    <3>4. 0 * n = 0 /\ 0 \in 0..top
      OBVIOUS
    <3>5. ParsePart(part, 0, top) # {}
      BY <3>3, <3>4
    <3>6. v % n = 0 => v \in ParsePart(part, 0, top)
      <4>1. v % n = 0 => \E k \in 0..v : v = k * n
        BY <1>0, MultipleMeaning
      <4>2. \A k \in 0..v : k \in 0..top
        BY <1>0
      <4> QED
        BY <3>3, <4>1, <4>2
    <3>7. v \in ParsePart(part, 0, top) => v % n = 0
      <4>1. v \in ParsePart(part, 0, top) => \E k \in 0..top : v = k * n
        BY <3>3
      <4>2. \A k \in 0..top : k \in Nat
        OBVIOUS
      <4> QED
        BY <1>0, <4>1, <4>2, MultipleMeaning
    <3> QED
      BY <2>2, <2>3, <2>6, <3>1, <3>5, <3>6, <3>7
  <2> QED
    BY <2>5, <2>6
<1>3. CASE part.kind = "stepped"
  <2>1. part.step \in Nat /\ part.a \in Nat /\ part.b \in Nat
    BY <1>3 DEF Parts
  <2>2. PICK a \in Nat, b \in Nat, n \in Nat : a = part.a /\ b = part.b /\ n = part.step
    BY <2>1
  <2>3. WellFormed(part) <=> n # 0 /\ a <= b /\ b <= top
    BY <1>0, <1>3, <2>2 DEF WellFormed
  <2>4. Described(part, v) <=> \E k \in 0..v : v = a + k * n /\ v <= b
    BY <1>3, <2>2 DEF Described
  <2>5. ParsePart(part, 0, top) = IF n = 0 THEN {}
                                  ELSE {x \in ParseRange(a, b, 0, top) : (x - a) % n = 0}
    BY <1>3, <2>2 DEF ParsePart
  <2>6. CASE ~WellFormed(part)
    BY <1>0, <2>3, <2>5, <2>6
  <2>7. CASE WellFormed(part)
    <3>1. n \in Nat \ {0} /\ ParsePart(part, 0, top) = {x \in a..b : (x - a) % n = 0}
      BY <1>0, <2>3, <2>5, <2>7
    <3>2. a \in a..b /\ (a - a) % n = 0
      <4>1. a - a = 0 /\ 0 = 0 * n
        BY <3>1
      <4>2. 0 % n = 0
        BY <3>1, <4>1, MultipleMeaning
      <4> QED
        BY <2>3, <2>7, <4>1, <4>2
    <3>3. ASSUME v \in a..b, (v - a) % n = 0 PROVE \E k \in 0..v : v = a + k * n /\ v <= b
      <4>1. PICK x \in Nat : x = v - a /\ v = a + x /\ x <= v
        BY <1>0, <3>3
      <4>2. PICK k \in 0..x : x = k * n
        BY <3>1, <3>3, <4>1, MultipleMeaning
      <4>3. k \in 0..v /\ v <= b
        BY <1>0, <3>3, <4>1
      <4>4. v = a + k * n
        BY <4>1, <4>2
      <4> QED
        BY <4>3, <4>4
    <3>4. ASSUME NEW k \in 0..v, v = a + k * n, v <= b PROVE v \in a..b /\ (v - a) % n = 0
      <4>1. k * n \in Nat /\ k \in Nat
        BY <3>1, <3>4
      <4>2. PICK x \in Nat : x = k * n /\ v = a + x
        BY <3>4, <4>1
      <4>3. x % n = 0
        BY <3>1, <4>1, <4>2, MultipleMeaning
      <4>4. v - a = x /\ a <= v
        BY <4>2
      <4> QED
        BY <1>0, <3>4, <4>3, <4>4
    <3> QED
      BY <2>4, <2>7, <3>1, <3>2, <3>3, <3>4
  <2> QED
    BY <2>6, <2>7
<1>4. CASE part.kind = "range"
  <2>1. part.a \in Nat /\ part.b \in Nat
    BY <1>4 DEF Parts
  <2>2. WellFormed(part) <=> part.a <= part.b /\ part.b <= top
    BY <1>0, <1>4, <2>1 DEF WellFormed
  <2>3. Described(part, v) <=> part.a <= v /\ v <= part.b
    BY <1>4 DEF Described
  <2>4. ParsePart(part, 0, top) = IF part.b > top \/ part.a > part.b THEN {} ELSE part.a..part.b
    BY <1>0, <1>4, <2>1 DEF ParsePart
  <2>5. PICK a \in Nat, b \in Nat : a = part.a /\ b = part.b
    BY <2>1
  <2>6. CASE a <= b /\ b <= top
    <3>1. ParsePart(part, 0, top) = a..b /\ a \in a..b
      BY <2>4, <2>5, <2>6
    <3>2. v \in a..b <=> a <= v /\ v <= b
      BY <1>0
    <3>3. WellFormed(part) /\ (Described(part, v) <=> a <= v /\ v <= b)
      BY <2>2, <2>3, <2>5, <2>6
    <3>4. ParsePart(part, 0, top) # {}
      BY <3>1
    <3>5. Described(part, v) <=> v \in ParsePart(part, 0, top)
      BY <3>1, <3>2, <3>3
    <3> QED
      BY <3>3, <3>4, <3>5
  <2>7. CASE ~(a <= b /\ b <= top)
    <3>1. ParsePart(part, 0, top) = {}
      BY <2>4, <2>5, <2>7
    <3> QED
      BY <2>2, <2>5, <2>7, <3>1
  <2> QED
    BY <2>6, <2>7
<1>5. CASE part.kind = "value"
  <2>1. part.a \in Nat
    BY <1>5 DEF Parts
  <2>2. WellFormed(part) <=> part.a <= top
    BY <1>0, <1>5, <2>1 DEF WellFormed
  <2>3. Described(part, v) <=> v = part.a
    BY <1>5 DEF Described
  <2>4. ParsePart(part, 0, top) = {part.a} \cap (0..top)
    BY <1>5 DEF ParsePart
  <2>5. PICK a \in Nat : a = part.a
    BY <2>1
  <2>6. a \in ParsePart(part, 0, top) <=> a <= top
    BY <2>4, <2>5
  <2>7. \A x \in ParsePart(part, 0, top) : x = a
    BY <2>4, <2>5
  <2> QED
    BY <1>0, <2>2, <2>3, <2>5, <2>6, <2>7
<1> QED
  BY <1>1, <1>2, <1>3, <1>4, <1>5 DEF Parts

\* The parser and the arithmetic of an expression agree on when an entry is due.
LEMMA CronMeaning ==
  ASSUME NEW i \in Entries, NEW m \in Nat
  PROVE  IsDue(i, m) <=> Fires(i, m)
<1>1. PICK top \in Nat : top + 1 = MinutesPerHour /\ top = MinutesPerHour - 1
  <2>1. MinutesPerHour \in Nat \ {0}
    BY SchedulerAssumption
  <2>2. MinutesPerHour - 1 \in Nat /\ (MinutesPerHour - 1) + 1 = MinutesPerHour
    BY <2>1
  <2> QED
    BY <2>2
<1>2. PICK v \in 0..top : v = m % MinutesPerHour
  <2>1. MinutesPerHour \in Nat \ {0}
    BY SchedulerAssumption
  <2>2. m % MinutesPerHour \in 0..(MinutesPerHour - 1)
    BY <2>1
  <2> QED
    BY <1>1, <2>2
<1>3. \A k \in DOMAIN Crons[i] : Crons[i][k] \in Parts
  BY SchedulerAssumption DEF Entries
<1>4. \A k \in DOMAIN Crons[i] :
        /\ WellFormed(Crons[i][k]) <=> ParsePart(Crons[i][k], 0, top) # {}
        /\ WellFormed(Crons[i][k]) => (Described(Crons[i][k], v) <=> v \in ParsePart(Crons[i][k], 0, top))
  BY <1>1, <1>3, PartMeaning
<1>5. v \in ParseField(Crons[i], 0, top) <=>
        /\ \A k \in DOMAIN Crons[i] : WellFormed(Crons[i][k])
        /\ \E k \in DOMAIN Crons[i] : Described(Crons[i][k], v)
  BY <1>4 DEF ParseField
<1>6. Fires(i, m) <=> i \in Enabled /\ v \in ParseField(Crons[i], 0, top)
  BY <1>1, <1>2 DEF Fires, Registered
<1> QED
  BY <1>2, <1>5, <1>6 DEF IsDue

\* The scheduler begins within a minute, and sleeps to the next.
LEMMA SchedInitInv == SchedInit => SchedInv
<1> SUFFICES ASSUME SchedInit PROVE SchedInv
  OBVIOUS
<1>0. /\ MinuteLen \in Nat \ {0} /\ MinSleep \in 1..MinuteLen /\ MaxTime \in Nat /\ MaxTroubles \in Nat
      /\ now \in Nat /\ now < MinuteLen /\ now \in 0..MaxTime
  <2>1. MinuteLen \in Nat \ {0} /\ MinSleep \in 1..MinuteLen /\ MaxTime \in Nat /\ MaxTroubles \in Nat
        /\ MinuteLen <= MaxTime
    BY MinuteFacts, SchedulerAssumption
  <2> QED
    BY <2>1 DEF SchedInit
<1>1. MinuteOf(now) = 0
  BY <1>0 DEF MinuteOf
<1>2. left \in 1..MinuteLen /\ MinuteOf(now + left) = 1
  <2>1. /\ left = UntilNextMinute(now) /\ UntilNextMinute(now) \in 1..MinuteLen
        /\ MinuteOf(now + UntilNextMinute(now)) = MinuteOf(now) + 1
    BY <1>0, SleepFacts DEF SchedInit
  <2> QED
    BY <1>1, <2>1
<1>3. 0 \in Minutes /\ \A m \in Minutes : m \in Nat
  BY <1>0, <1>1, MinuteFacts DEF Minutes
<1>4. SchedTypes
  <2>1. left \in 0..(MinuteLen + MinSleep) /\ left <= MinuteLen /\ 0 \in 0..MaxTroubles
    BY <1>0, <1>2
  <2>2. /\ lastRun \in [Entries -> Minutes \cup {-1}]
        /\ started \in [Entries -> [Minutes -> Nat]]
    BY DEF SchedInit
  <2> QED
    BY <1>0, <1>3, <2>1, <2>2 DEF SchedInit, SchedTypes, SchedTypeOK
<1>5. NoneSkipped
  BY <1>2, <1>3 DEF SchedInit, NoneSkipped, Seen
<1>6. /\ \A i \in Entries : lastRun[i] = -1
      /\ \A i \in Entries, m \in Minutes : started[i][m] = 0
      /\ checked = {} /\ troubles = 0
  BY DEF SchedInit
<1>7. Ran /\ RunOnce /\ RunsDue
  BY <1>6 DEF Ran, RunOnce, RunsDue, Ahead, Latest
<1> QED
  BY <1>4, <1>5, <1>7 DEF SchedInv

\* Every step keeps the scheduler's invariant.
LEMMA SchedInvStep == SchedInv /\ [SchedNext]_schedVars => SchedInv'
<1> SUFFICES ASSUME SchedInv, [SchedNext]_schedVars PROVE SchedInv'
  OBVIOUS
<1>1. SchedTypes'
  BY SchedTypesStep DEF SchedInv
<1>2. NoneSkipped' /\ Ran' /\ RunOnce' /\ RunsDue'
  BY <1>1, NoneSkippedStep, RanStep, RunOnceStep, RunsDueStep DEF SchedInv
<1> QED
  BY <1>1, <1>2 DEF SchedInv

\* The invariant gives the schedule.
LEMMA SchedInvKeeps == SchedInv => SchedTypeOK /\ ScheduleKept
<1> SUFFICES ASSUME SchedInv PROVE SchedTypeOK /\ ScheduleKept
  OBVIOUS
<1>1. SchedTypes /\ SchedTypeOK /\ NoneSkipped /\ RunOnce /\ RunsDue
  BY DEF SchedInv, SchedTypes
<1>2. \A m \in Minutes : m < MinuteOf(now) => m \in checked \cup busy
  <2>1. /\ now \in Nat /\ left \in Nat /\ \A m \in Minutes : m \in Nat
    BY <1>1, MinuteFacts DEF SchedTypes, SchedTypeOK, Minutes
  <2>2. now + left \in Nat /\ now <= now + left
    BY <2>1, NatSums
  <2>3. MinuteOf(now) \in Nat /\ MinuteOf(now + left) \in Nat /\ MinuteOf(now) <= MinuteOf(now + left)
    BY <2>1, <2>2, MinuteFacts
  <2> QED
    BY <1>1, <2>1, <2>3 DEF NoneSkipped, Seen
<1>3. EachMinuteOnce
  BY <1>1, <1>2 DEF EachMinuteOnce, RunOnce
<1>4. RunsWhatIsDue
  <2>1. \A i \in Entries, m \in Minutes : IsDue(i, m) <=> Fires(i, m)
    BY CronMeaning DEF Minutes
  <2> QED
    BY <1>1, <2>1 DEF RunsWhatIsDue, RunsDue
<1> QED
  BY <1>1, <1>3, <1>4 DEF ScheduleKept

\* What the scheduler knows stays of its type.
THEOREM SchedTypeCorrect == SchedSpec => []SchedTypeOK
<1>1. SchedInv => SchedTypeOK
  BY SchedInvKeeps
<1> QED
  BY <1>1, SchedInitInv, SchedInvStep, PTL DEF SchedSpec

\* What is due runs, and nothing else: the entry its expression describes, or one
\* before it in that minute. No minute is skipped, however long runs take, however
\* often the phone suspends, the clock is set back and the process ends; and no
\* entry runs twice in a minute while at most one crash or setting back happened.
\* For any list of expressions and any length of the minute, of the shortest sleep
\* and of the hour.
THEOREM ScheduleStaysKept == SchedSpec => []ScheduleKept
<1>1. SchedInv => ScheduleKept
  BY SchedInvKeeps
<1> QED
  BY <1>1, SchedInitInv, SchedInvStep, PTL DEF SchedSpec

-----------------------------------------------------------------------------
(* A reply on its way into a run. A parser between two of its turns holds  *)
(* what lies behind whole frames, and the calls of those frames are taken; *)
(* the in-process model has emitted what its own markers let it see.       *)

\* Between two turns of the parser its buffer begins with a frame: m calls are
\* behind it, and k frames of the next one.
FrameNumber(m, k) == m * PerCall + k

TakenAs(name, input) == taking.name = name /\ taking.input = input

\* The pieces of the call in hand, after k frames of it.
InputAfter(k) == IF k <= 1 THEN "none" ELSE IF k = 2 THEN "first" ELSE "whole"

WholeCalls(n) == [c \in 1..n |-> Call(c, "whole")]

\* Anthropic's blocks close: the calls behind are whole.
BlocksTaken(m, k) ==
  /\ taking.calls = WholeCalls(m)
  /\ IF k = 0 \/ m = reply THEN TakenAs(0, "none") ELSE TakenAs(m + 1, InputAfter(k))

\* OpenAI's do not: the latest is in hand until the stream finishes.
LatestTaken(m, k) ==
  IF m = reply /\ k = 1 THEN TakenAs(0, "none") /\ taking.calls = (IF m = 0 THEN <<>> ELSE <<Call(m, "whole")>>)
  ELSE /\ taking.calls = <<>>
       /\ IF k = 0 THEN TakenAs(m, IF m = 0 THEN "none" ELSE "whole")
                   ELSE TakenAs(m + 1, InputAfter(k))

ParsedAt(m, k) ==
  /\ m = reply => k <= 1
  /\ buffer = 2 * FrameNumber(m, k)
  /\ IF style = "anthropic" THEN BlocksTaken(m, k) ELSE LatestTaken(m, k)

Parsed == \E m \in 0..reply, k \in 0..(PerCall - 1) : ParsedAt(m, k)

\* The in-process provider: how many calls are closed, from where its buffer
\* goes, and what it has emitted.
ClosedCalls == (arrived + 1) \div TokensPerCall
FirstSeen == IF split THEN 2 ELSE 1

HeldFrom ==
  IF ClosedCalls >= FirstSeen THEN TokensPerCall * ClosedCalls - 1
  ELSE IF split /\ arrived > 0 THEN 1 ELSE 0

Emits ==
  /\ buffer = HeldFrom /\ (inCall <=> arrived # buffer)
  /\ TakenAs(0, "none")
  /\ ClosedCalls < FirstSeen => taking.calls = <<>>
  /\ ClosedCalls = FirstSeen => taking.calls = WholeCalls(ClosedCalls)
  /\ ClosedCalls >= FirstSeen =>
       /\ taking.calls \in Seq([c : 1..ClosedCalls, input : {"whole"}])
       /\ \A c \in 1..ClosedCalls : \E i \in DOMAIN taking.calls : taking.calls[i].c = c

CallsMade == [c : 1..MaxToolCalls, input : {"whole", "empty", "malformed"}]
Takings == [name : 0..MaxToolCalls, input : {"none", "first", "whole", "other"}, calls : Seq(CallsMade)]

ReplyTypes ==
  /\ style \in Styles /\ entry \in Loops /\ split \in BOOLEAN
  /\ asked \in 1..LastProvider /\ stage \in ReplyStages
  /\ inCall \in BOOLEAN /\ reply \in 0..MaxToolCalls
  /\ arrived \in 0..StreamLength /\ buffer \in 0..arrived
  /\ split => style = "embedded"
  /\ taking \in Takings

\* What has come of the stream, and what was made of it.
Digested == IF style = "embedded" THEN Emits ELSE Parsed

ReplyInv == ReplyTypes /\ (stage # "taken" => Digested) /\ ReplyTaken

\* What the numbers of a stream are.
LEMMA StreamNumbers ==
  ASSUME ReplyTypes
  PROVE  /\ MaxToolCalls \in Nat /\ reply \in Nat /\ PerCall \in {3, 4}
         /\ TokensPerCall \in {4, 5} /\ StreamLength \in Nat /\ arrived \in Nat /\ buffer \in Nat
         /\ style = "anthropic" => PerCall = 4
         /\ style # "anthropic" => PerCall = 3
         /\ style \notin Wired => style = "embedded"
         /\ style \in Wired => style # "embedded" /\ StreamLength = 2 * FrameNumber(reply, 1)
<1>1. MaxToolCalls \in Nat /\ reply \in Nat
  BY StreamAssumption DEF ReplyTypes
<1>2. PerCall \in {3, 4} /\ TokensPerCall \in {4, 5}
  BY DEF PerCall, TokensPerCall
<1>3. StreamLength \in Nat
  BY <1>1, <1>2 DEF StreamLength
<1>4. arrived \in Nat /\ buffer \in Nat
  BY <1>3 DEF ReplyTypes
<1>5. style \in {"anthropic", "openai", "socket", "embedded"}
  BY StreamAssumption DEF ReplyTypes
<1> QED
  BY <1>1, <1>2, <1>3, <1>4, <1>5 DEF PerCall, Wired, StreamLength, FrameNumber

\* A frame by the call it belongs to: the one behind k frames of the call behind
\* m calls.
LEMMA FrameOf ==
  ASSUME reply \in Nat, NEW m \in 0..reply, NEW k \in 0..(PerCall - 1), PerCall \in {3, 4}
  PROVE  /\ m < reply => FrameAt(FrameNumber(m, k) + 1) = CallFrame(m + 1, k)
         /\ FrameAt(FrameNumber(reply, 0) + 1) = Frame("finish", 0, 0)
<1>1. FrameAt(FrameNumber(reply, 0) + 1) = Frame("finish", 0, 0)
  BY DEF FrameAt, FrameNumber
<1>2. ASSUME m < reply PROVE FrameAt(FrameNumber(m, k) + 1) = CallFrame(m + 1, k)
  <2>1. CASE PerCall = 3
    <3>1. m * 3 + k + 1 <= reply * 3 /\ (m * 3 + k + 1) - 1 = m * 3 + k
      BY <1>2, <2>1
    <3>2. (m * 3 + k) \div 3 = m /\ (m * 3 + k) % 3 = k
      BY <2>1
    <3> QED
      BY <2>1, <3>1, <3>2 DEF FrameAt, FrameNumber
  <2>2. CASE PerCall = 4
    <3>1. m * 4 + k + 1 <= reply * 4 /\ (m * 4 + k + 1) - 1 = m * 4 + k
      BY <1>2, <2>2
    <3>2. (m * 4 + k) \div 4 = m /\ (m * 4 + k) % 4 = k
      BY <2>2
    <3> QED
      BY <2>2, <3>1, <3>2 DEF FrameAt, FrameNumber
  <2> QED
    BY <2>1, <2>2
<1> QED
  BY <1>1, <1>2

\* A parser whose buffer begins with a frame takes that one next.
LEMMA NextBlock ==
  ASSUME NEW n \in Nat, buffer = 2 * n
  PROVE  BlockEnd = 2 * n + 2 /\ buffer % 2 = 0 /\ BlockEnd \div 2 = n + 1
BY DEF BlockEnd

\* A call more.
LEMMA OneMoreCall ==
  ASSUME NEW n \in Nat
  PROVE  /\ Append(WholeCalls(n), Call(n + 1, "whole")) = WholeCalls(n + 1)
         /\ WholeCalls(n) \in Seq([c : 1..n, input : {"whole"}]) /\ Len(WholeCalls(n)) = n
         /\ WholeCalls(0) = <<>>
<1>1. WholeCalls(n) \in Seq([c : 1..n, input : {"whole"}]) /\ Len(WholeCalls(n)) = n
  BY DEF WholeCalls, Call
<1>2. WholeCalls(n + 1) \in Seq([c : 1..(n + 1), input : {"whole"}]) /\ Len(WholeCalls(n + 1)) = n + 1
  BY DEF WholeCalls, Call
<1>3. Append(WholeCalls(n), Call(n + 1, "whole")) = WholeCalls(n + 1)
  <2> DEFINE longer == Append(WholeCalls(n), Call(n + 1, "whole"))
  <2>1. longer \in Seq([c : 1..(n + 1), input : {"whole"}]) /\ Len(longer) = n + 1
    <3>1. Call(n + 1, "whole") \in [c : 1..(n + 1), input : {"whole"}]
      BY DEF Call
    <3>2. WholeCalls(n) \in Seq([c : 1..(n + 1), input : {"whole"}])
      BY DEF WholeCalls, Call
    <3> QED
      BY <1>1, <3>1, <3>2
  <2>2. \A i \in 1..(n + 1) : longer[i] = WholeCalls(n + 1)[i]
    BY <1>1 DEF WholeCalls
  <2> QED
    BY <1>2, <2>1, <2>2, SeqEqual
<1>4. WholeCalls(0) = <<>>
  BY DEF WholeCalls
<1> QED
  BY <1>1, <1>3, <1>4

\* A frame taken after k frames of a call, m calls being behind.
LEMMA FrameTaken ==
  ASSUME ReplyTypes, style \in Wired, NEW m \in 0..reply, NEW k \in 0..(PerCall - 1),
         m < reply, ParsedAt(m, k), taking' = Taken(taking, CallFrame(m + 1, k)),
         UNCHANGED <<reply, style, entry, split>>,
         buffer' = 2 * (FrameNumber(m, k) + 1)
  PROVE  IF k + 1 = PerCall THEN ParsedAt(m + 1, 0)' ELSE ParsedAt(m, k + 1)'
<1>0. /\ reply \in Nat /\ m \in Nat /\ k \in Nat /\ PerCall \in {3, 4} /\ m + 1 \in 1..reply
      /\ style = "anthropic" => PerCall = 4
      /\ style # "anthropic" => PerCall = 3
  BY StreamNumbers
<1>1. PerCall' = PerCall
  BY DEF PerCall
<1>2. /\ \A j \in Nat : FrameNumber(m, j)' = FrameNumber(m, j)
      /\ FrameNumber(m, k + 1) = FrameNumber(m, k) + 1
      /\ k + 1 = PerCall => FrameNumber(m + 1, 0)' = FrameNumber(m, k) + 1
  <2>1. CASE PerCall = 3
    BY <2>1, <1>0, <1>1 DEF FrameNumber
  <2>2. CASE PerCall = 4
    BY <2>2, <1>0, <1>1 DEF FrameNumber
  <2> QED
    BY <2>1, <2>2, <1>0
<1>3. CASE k = 0
  <2>1. taking' = [taking EXCEPT !.name = m + 1, !.input = "none"]
    <3>1. CallFrame(m + 1, k).t = "start" /\ CallFrame(m + 1, k).c = m + 1
      BY <1>3 DEF CallFrame, Frame
    <3> QED
      BY <3>1 DEF Taken
  <2>2. taking'.name = m + 1 /\ taking'.input = "none" /\ taking'.calls = taking.calls
    BY <2>1 DEF ReplyTypes, Takings
  <2>3. CASE style = "anthropic"
    BY <1>0, <1>1, <1>2, <1>3, <2>2, <2>3 DEF ParsedAt, BlocksTaken, TakenAs, InputAfter, WholeCalls
  <2>4. CASE style # "anthropic"
    BY <1>0, <1>1, <1>2, <1>3, <2>2, <2>4 DEF ParsedAt, LatestTaken, TakenAs, InputAfter
  <2> QED
    BY <2>3, <2>4
<1>4. CASE k \in {1, 2}
  <2>1. TakenAs(m + 1, InputAfter(k))
    <3>1. CASE style = "anthropic"
      BY <1>0, <1>4, <3>1 DEF ParsedAt, BlocksTaken
    <3>2. CASE style # "anthropic"
      BY <1>0, <1>4, <3>2 DEF ParsedAt, LatestTaken
    <3> QED
      BY <3>1, <3>2
  <2>2. taking' = [taking EXCEPT !.input = Joined(taking.input, k)]
    BY <1>4 DEF CallFrame, Frame, Taken
  <2>3. Joined(taking.input, k) = InputAfter(k + 1)
    BY <1>4, <2>1 DEF TakenAs, InputAfter, Joined
  <2>4. taking'.name = m + 1 /\ taking'.input = InputAfter(k + 1) /\ taking'.calls = taking.calls
    BY <2>1, <2>2, <2>3 DEF ReplyTypes, Takings, TakenAs
  <2>5. CASE style = "anthropic"
    BY <1>0, <1>1, <1>2, <1>4, <2>4, <2>5 DEF ParsedAt, BlocksTaken, TakenAs, InputAfter, WholeCalls
  <2>6. CASE style # "anthropic" /\ k = 1
    BY <1>0, <1>1, <1>2, <1>4, <2>4, <2>6 DEF ParsedAt, LatestTaken, TakenAs, InputAfter
  <2>7. CASE style # "anthropic" /\ k = 2
    <3>1. taking.calls = <<>>
      BY <1>0, <2>7 DEF ParsedAt, LatestTaken
    <3>2. taking'.input = "whole"
      BY <2>4, <2>7 DEF InputAfter
    <3>3. LatestTaken(m + 1, 0)'
      BY <1>0, <2>4, <3>1, <3>2 DEF LatestTaken, TakenAs
    <3> QED
      BY <1>0, <1>1, <1>2, <2>7, <3>3 DEF ParsedAt
  <2> QED
    BY <1>4, <2>5, <2>6, <2>7
<1>5. CASE k = 3
  <2>1. style = "anthropic" /\ PerCall = 4
    BY <1>0, <1>5
  <2>2. TakenAs(m + 1, "whole") /\ taking.calls = WholeCalls(m)
    BY <1>0, <1>5, <2>1 DEF ParsedAt, BlocksTaken, InputAfter
  <2>3. taking' = Finalize(taking)
    BY <1>5 DEF CallFrame, Frame, Taken
  <2>4. taking' = [name |-> 0, input |-> "none", calls |-> Append(WholeCalls(m), Call(m + 1, "whole"))]
    BY <1>0, <2>2, <2>3 DEF Finalize, TakenAs, Arguments
  <2>5. taking'.calls = WholeCalls(m + 1) /\ TakenAs(0, "none")'
    <3>1. Append(WholeCalls(m), Call(m + 1, "whole")) = WholeCalls(m + 1)
      BY <1>0, OneMoreCall
    <3> QED
      BY <2>4, <3>1 DEF TakenAs
  <2> QED
    BY <1>0, <1>1, <1>2, <1>5, <2>1, <2>5 DEF ParsedAt, BlocksTaken, WholeCalls
<1> QED
  BY <1>0, <1>3, <1>4, <1>5

\* The finish taken: what is in hand is a call.
LEMMA FinishTaken ==
  ASSUME ReplyTypes, style \in Wired, NEW m, m = reply, ParsedAt(m, 0),
         taking' = Taken(taking, Frame("finish", 0, 0)),
         UNCHANGED <<reply, style, entry, split>>,
         buffer' = 2 * (FrameNumber(reply, 0) + 1)
  PROVE  ParsedAt(m, 1)'
<1>0. /\ reply \in Nat /\ PerCall \in {3, 4}
      /\ style = "anthropic" => PerCall = 4
      /\ style # "anthropic" => PerCall = 3
  BY StreamNumbers
<1>1. PerCall' = PerCall /\ FrameNumber(reply, 1)' = FrameNumber(reply, 0) + 1
  BY <1>0 DEF PerCall, FrameNumber
<1>2. taking' = Finalize(taking)
  BY DEF Frame, Taken
<1>3. CASE style = "anthropic"
  <2>1. TakenAs(0, "none") /\ taking.calls = WholeCalls(reply)
    BY <1>3 DEF ParsedAt, BlocksTaken
  <2>2. taking' = taking
    BY <1>2, <2>1 DEF Finalize, TakenAs
  <2> QED
    BY <1>0, <1>1, <1>3, <2>1, <2>2 DEF ParsedAt, BlocksTaken, TakenAs, WholeCalls
<1>4. CASE style # "anthropic"
  <2>1. taking.calls = <<>> /\ TakenAs(reply, IF reply = 0 THEN "none" ELSE "whole")
    BY <1>0, <1>4 DEF ParsedAt, LatestTaken
  <2>2. CASE reply = 0
    <3>1. taking' = taking
      BY <1>2, <2>1, <2>2 DEF Finalize, TakenAs
    <3> QED
      BY <1>0, <1>1, <1>4, <2>1, <2>2, <3>1 DEF ParsedAt, LatestTaken, TakenAs
  <2>3. CASE reply # 0
    <3>1. taking' = [name |-> 0, input |-> "none", calls |-> Append(<<>>, Call(reply, "whole"))]
      BY <1>2, <2>1, <2>3 DEF Finalize, TakenAs, Arguments
    <3>2. Append(<<>>, Call(reply, "whole")) = <<Call(reply, "whole")>>
      OBVIOUS
    <3>3. taking'.calls = <<Call(reply, "whole")>> /\ TakenAs(0, "none")'
      BY <3>1, <3>2 DEF TakenAs
    <3> QED
      BY <1>0, <1>1, <1>4, <2>3, <3>3 DEF ParsedAt, LatestTaken, Call
  <2> QED
    BY <2>2, <2>3
<1> QED
  BY <1>3, <1>4

\* A block taken leaves the parser between two frames.
LEMMA ParsedBlock ==
  ASSUME ReplyTypes, Parsed, TakeBlock
  PROVE  /\ Parsed' /\ buffer' <= arrived /\ buffer' \in Nat
         /\ \/ taking' = Taken(taking, Frame("finish", 0, 0))
            \/ \E c \in 1..reply, k \in 0..3 : taking' = Taken(taking, CallFrame(c, k))
<1>0. /\ reply \in Nat /\ PerCall \in {3, 4} /\ style \in Wired /\ buffer \in Nat
      /\ StreamLength = 2 * FrameNumber(reply, 1) /\ arrived \in 0..StreamLength
      /\ UNCHANGED <<reply, style, entry, split>> /\ BlockEnd <= arrived /\ buffer' = BlockEnd
  BY StreamNumbers DEF TakeBlock, Reading, BlockHeld, ReplyTypes
<1>1. PICK m \in 0..reply, k \in 0..(PerCall - 1) : ParsedAt(m, k)
  BY DEF Parsed
<1>2. FrameNumber(m, k) \in Nat /\ buffer = 2 * FrameNumber(m, k) /\ (m = reply => k \in {0, 1})
  BY <1>0, <1>1 DEF ParsedAt, FrameNumber
<1>3. /\ BlockEnd = 2 * FrameNumber(m, k) + 2 /\ buffer % 2 = 0
      /\ BlockEnd \div 2 = FrameNumber(m, k) + 1
  BY <1>2, NextBlock
<1>4. taking' = Taken(taking, FrameAt(FrameNumber(m, k) + 1))
  BY <1>3 DEF TakeBlock
<1>5. buffer' = 2 * (FrameNumber(m, k) + 1)
  BY <1>0, <1>2, <1>3
<1>6. PerCall' = PerCall
  BY <1>0 DEF PerCall
<1>7. buffer' <= arrived /\ buffer' \in Nat
  BY <1>0, <1>2, <1>3
<1>8. CASE m < reply
  <2>1. taking' = Taken(taking, CallFrame(m + 1, k))
    BY <1>0, <1>4, <1>8, FrameOf
  <2>2. IF k + 1 = PerCall THEN ParsedAt(m + 1, 0)' ELSE ParsedAt(m, k + 1)'
    BY <1>0, <1>1, <1>5, <1>8, <2>1, FrameTaken
  <2>3. m + 1 \in 0..reply' /\ m \in 0..reply' /\ 0 \in 0..(PerCall' - 1)
        /\ (k + 1 # PerCall => k + 1 \in 0..(PerCall' - 1))
    BY <1>0, <1>6, <1>8
  <2>4. m + 1 \in 1..reply /\ k \in 0..3
    BY <1>0, <1>8
  <2> QED
    <3>1. CASE k + 1 = PerCall
      BY <1>7, <2>2, <2>3, <2>4, <2>1, <3>1 DEF Parsed
    <3>2. CASE k + 1 # PerCall
      BY <1>7, <2>2, <2>3, <2>4, <2>1, <3>2 DEF Parsed
    <3> QED
      BY <3>1, <3>2
<1>9. CASE m = reply
  <2>1. k = 0
    BY <1>0, <1>2, <1>3, <1>9
  <2>2. taking' = Taken(taking, Frame("finish", 0, 0))
    BY <1>0, <1>4, <1>9, <2>1, FrameOf
  <2>3. ParsedAt(m, 1)'
    BY <1>0, <1>1, <1>5, <1>9, <2>1, <2>2, FinishTaken
  <2>4. m \in 0..reply' /\ 1 \in 0..(PerCall' - 1)
    BY <1>0, <1>6, <1>9
  <2> QED
    BY <1>7, <2>2, <2>3, <2>4 DEF Parsed
<1> QED
  BY <1>0, <1>8, <1>9

\* A token by the call it belongs to.
LEMMA TokenOf ==
  ASSUME split \in BOOLEAN, NEW n \in Nat, NEW r \in 1..TokensPerCall
  PROVE  /\ TokenAt(n * TokensPerCall + r) = CallTokens[r]
         /\ (n * TokensPerCall + r) \div TokensPerCall = IF r < TokensPerCall THEN n ELSE n + 1
         /\ (n * TokensPerCall + r + 1) \div TokensPerCall = IF r < TokensPerCall - 1 THEN n ELSE n + 1
<1>1. CASE split
  <2>1. TokensPerCall = 5
    BY <1>1 DEF TokensPerCall
  <2>2. ((n * 5 + r) - 1) % 5 = r - 1
    BY <2>1
  <2>3. /\ (n * 5 + r) \div 5 = IF r < 5 THEN n ELSE n + 1
        /\ (n * 5 + r + 1) \div 5 = IF r < 4 THEN n ELSE n + 1
    BY <2>1
  <2> QED
    BY <2>1, <2>2, <2>3 DEF TokenAt
<1>2. CASE ~split
  <2>1. TokensPerCall = 4
    BY <1>2 DEF TokensPerCall
  <2>2. ((n * 4 + r) - 1) % 4 = r - 1
    BY <2>1
  <2>3. /\ (n * 4 + r) \div 4 = IF r < 4 THEN n ELSE n + 1
        /\ (n * 4 + r + 1) \div 4 = IF r < 3 THEN n ELSE n + 1
    BY <2>1
  <2> QED
    BY <2>1, <2>2, <2>3 DEF TokenAt
<1> QED
  BY <1>1, <1>2

\* The marker of the first call is there from its last token on; that of a call
\* stands before its close.
LEMMA Markers ==
  ASSUME split \in BOOLEAN
  PROVE  /\ \A g \in Nat : g >= FirstSeen => Marker(0, g)
         /\ split => ~Marker(0, 1) /\ ~Marker(1, 4)
         /\ \A n, from \in Nat :
              from <= n * TokensPerCall => Marker(from, n * TokensPerCall + TokensPerCall - 1)
<1>1. CASE split
  <2>1. TokensPerCall = 5 /\ FirstSeen = 2
    BY <1>1 DEF TokensPerCall, FirstSeen
  <2>2. \A n \in Nat : /\ TokenAt(n * 5 + 1) = "ticks" /\ TokenAt(n * 5 + 2) = "word"
                       /\ TokenAt(n * 5 + 3) = "body" /\ TokenAt(n * 5 + 4) = "close"
    <3> TAKE n \in Nat
    <3> QED
      BY <1>1, <2>1, TokenOf DEF CallTokens
  <2>3. TokenAt(1) = "ticks" /\ TokenAt(2) = "word" /\ TokenAt(3) = "body" /\ TokenAt(4) = "close"
    <3>1. 0 * 5 + 1 = 1 /\ 0 * 5 + 2 = 2 /\ 0 * 5 + 3 = 3 /\ 0 * 5 + 4 = 4 /\ 0 \in Nat
      OBVIOUS
    <3> QED
      BY <2>2, <3>1
  <2>4. \A g \in Nat : g >= 2 => Marker(0, g)
    BY <2>3 DEF Marker
  <2>5. ~Marker(0, 1)
    <3>1. (0 + 1)..1 = {1}
      OBVIOUS
    <3> QED
      BY <2>3, <3>1 DEF Marker
  <2>6. ~Marker(1, 4)
    <3>1. (1 + 1)..4 = {2, 3, 4}
      OBVIOUS
    <3> QED
      BY <2>3, <3>1 DEF Marker
  <2>7. ASSUME NEW n \in Nat, NEW from \in Nat, from <= n * 5 PROVE Marker(from, n * 5 + 5 - 1)
    <3>1. n * 5 + 1 \in (from + 1)..(n * 5 + 5 - 1) /\ n * 5 + 1 < n * 5 + 5 - 1 /\ n * 5 + 1 + 1 = n * 5 + 2
      BY <2>7
    <3> QED
      BY <2>2, <3>1 DEF Marker
  <2> QED
    BY <2>1, <2>4, <2>5, <2>6, <2>7
<1>2. CASE ~split
  <2>1. TokensPerCall = 4 /\ FirstSeen = 1
    BY <1>2 DEF TokensPerCall, FirstSeen
  <2>2. \A n \in Nat : TokenAt(n * 4 + 1) = "mark"
    <3> TAKE n \in Nat
    <3> QED
      BY <1>2, <2>1, TokenOf DEF CallTokens
  <2>3. ASSUME NEW n \in Nat, NEW from \in Nat, from <= n * 4, NEW g \in Nat, n * 4 + 1 <= g PROVE Marker(from, g)
    <3>1. n * 4 + 1 \in (from + 1)..g
      BY <2>3
    <3> QED
      BY <2>2, <3>1 DEF Marker
  <2>4. \A g \in Nat : g >= 1 => Marker(0, g)
    <3>1. 0 \in Nat /\ 0 <= 0 * 4 /\ 0 * 4 + 1 = 1
      OBVIOUS
    <3> QED
      BY <2>3, <3>1
  <2>5. \A n, from \in Nat : from <= n * 4 => Marker(from, n * 4 + 4 - 1)
    <3>1. \A n \in Nat : n * 4 + 4 - 1 \in Nat /\ n * 4 + 1 <= n * 4 + 4 - 1
      OBVIOUS
    <3> QED
      BY <2>3, <3>1
  <2> QED
    BY <1>2, <2>1, <2>4, <2>5
<1> QED
  BY <1>1, <1>2

\* What a close adds to the calls taken.
LEMMA MoreEmitted ==
  ASSUME NEW n \in Nat, NEW s,
         s \in Seq([c : 1..n, input : {"whole"}])
  PROVE  /\ s \o WholeCalls(n + 1) \in Seq([c : 1..(n + 1), input : {"whole"}])
         /\ \A c \in 1..(n + 1) : \E i \in DOMAIN (s \o WholeCalls(n + 1)) : (s \o WholeCalls(n + 1))[i].c = c
<1>1. WholeCalls(n + 1) \in Seq([c : 1..(n + 1), input : {"whole"}]) /\ Len(WholeCalls(n + 1)) = n + 1
  <2>1. n + 1 \in Nat
    OBVIOUS
  <2> QED
    BY <2>1, OneMoreCall
<1>2. s \in Seq([c : 1..(n + 1), input : {"whole"}])
  <2>1. [c : 1..n, input : {"whole"}] \subseteq [c : 1..(n + 1), input : {"whole"}]
    OBVIOUS
  <2> QED
    BY <2>1, SeqMonotonic
<1>3. s \o WholeCalls(n + 1) \in Seq([c : 1..(n + 1), input : {"whole"}]) /\ Len(s \o WholeCalls(n + 1)) = Len(s) + (n + 1) /\ Len(s) \in Nat
  <2>1. Len(s) \in Nat
    BY <1>2, LenProperties
  <2>2. s \o WholeCalls(n + 1) \in Seq([c : 1..(n + 1), input : {"whole"}]) /\ Len(s \o WholeCalls(n + 1)) = Len(s) + Len(WholeCalls(n + 1))
    BY <1>1, <1>2, ConcatProperties
  <2> QED
    BY <1>1, <2>1, <2>2
<1>4. ASSUME NEW c \in 1..(n + 1) PROVE \E i \in DOMAIN (s \o WholeCalls(n + 1)) : (s \o WholeCalls(n + 1))[i].c = c
  <2>1. Len(s) + c \in 1..(Len(s) + (n + 1))
    BY <1>3
  <2>2. (s \o WholeCalls(n + 1))[Len(s) + c] = WholeCalls(n + 1)[c]
    BY <1>1, <1>2, <1>3, <2>1
  <2>3. WholeCalls(n + 1)[c].c = c
    BY DEF WholeCalls, Call
  <2>4. Len(s) + c \in DOMAIN (s \o WholeCalls(n + 1))
    BY <1>3, <2>1
  <2> QED
    BY <2>2, <2>3, <2>4
<1> QED
  BY <1>3, <1>4

\* What generating a token does: its place in its call, what is closed then.
LEMMA TokenPlace ==
  ASSUME ReplyTypes, style = "embedded", arrived < StreamLength
  PROVE  \E n \in 0..(reply - 1), r \in 1..TokensPerCall :
           /\ arrived + 1 = n * TokensPerCall + r
           /\ TokenAt(arrived + 1) = CallTokens[r]
           /\ ClosedCalls = IF r < TokensPerCall THEN n ELSE n + 1
           /\ ((arrived + 1) + 1) \div TokensPerCall = IF r < TokensPerCall - 1 THEN n ELSE n + 1
<1>0. reply \in Nat /\ arrived \in Nat /\ TokensPerCall \in {4, 5} /\ arrived < reply * TokensPerCall
  BY StreamNumbers DEF StreamLength
<1> DEFINE n == arrived \div TokensPerCall
           r == (arrived % TokensPerCall) + 1
<1>1. n \in 0..(reply - 1) /\ r \in 1..TokensPerCall /\ arrived + 1 = n * TokensPerCall + r
  <2>1. CASE TokensPerCall = 4
    BY <1>0, <2>1
  <2>2. CASE TokensPerCall = 5
    BY <1>0, <2>2
  <2> QED
    BY <1>0, <2>1, <2>2
<1>2. n \in Nat /\ split \in BOOLEAN
  BY <1>0, <1>1 DEF ReplyTypes
<1> HIDE DEF n, r
<1>3. /\ TokenAt(n * TokensPerCall + r) = CallTokens[r]
      /\ (n * TokensPerCall + r) \div TokensPerCall = IF r < TokensPerCall THEN n ELSE n + 1
      /\ (n * TokensPerCall + r + 1) \div TokensPerCall = IF r < TokensPerCall - 1 THEN n ELSE n + 1
  BY <1>1, <1>2, TokenOf
<1> QED
  BY <1>1, <1>3 DEF ClosedCalls

\* A token that closes no call goes where the marker seen so far says.
LEMMA TokenKept ==
  ASSUME ReplyTypes, style = "embedded", Emits, Generate,
         ((arrived + 1) + 1) \div TokensPerCall = ClosedCalls,
         TokenAt(arrived + 1) # "close"
  PROVE  Emits' /\ taking' = taking /\ buffer' \in Nat /\ buffer' <= arrived'
<1>0. /\ arrived \in Nat /\ TokensPerCall \in {4, 5} /\ arrived' = arrived + 1 /\ split' = split
      /\ TokensPerCall' = TokensPerCall /\ FirstSeen' = FirstSeen
  BY StreamNumbers DEF Generate, TokensPerCall, FirstSeen
<1>1. ClosedCalls' = ClosedCalls /\ ClosedCalls \in Nat
  <2>1. ClosedCalls' = ClosedCalls
    BY <1>0 DEF ClosedCalls
  <2>2. CASE TokensPerCall = 4
    BY <1>0, <2>1, <2>2 DEF ClosedCalls
  <2>3. CASE TokensPerCall = 5
    BY <1>0, <2>1, <2>3 DEF ClosedCalls
  <2> QED
    BY <1>0, <2>1, <2>2, <2>3
<1>2. ~Complete(buffer, arrived')
  BY <1>0 DEF Complete
<1>3. /\ taking' = taking
      /\ (inCall' <=> inCall \/ Marker(0, arrived'))
      /\ buffer' = IF inCall \/ Marker(0, arrived') THEN buffer ELSE arrived'
  BY <1>2 DEF Generate
<1>4. buffer' = HeldFrom' /\ (inCall' <=> arrived' # buffer') /\ buffer' \in Nat /\ buffer' <= arrived'
  <2>0. buffer \in 0..arrived /\ buffer = HeldFrom /\ (inCall <=> arrived # buffer) /\ split \in BOOLEAN
    BY DEF Emits, ReplyTypes
  <2>1. CASE arrived' >= FirstSeen
    <3>1. Marker(0, arrived')
      BY <1>0, <2>0, <2>1, Markers
    <3>2. buffer' = buffer /\ inCall'
      BY <1>3, <3>1
    <3>3. HeldFrom' = HeldFrom
      BY <1>0, <1>1, <2>1 DEF HeldFrom, FirstSeen
    <3> QED
      BY <1>0, <2>0, <3>2, <3>3
  <2>2. CASE arrived' < FirstSeen
    <3>1. split /\ arrived = 0 /\ arrived' = 1 /\ FirstSeen = 2
      BY <1>0, <2>2 DEF FirstSeen
    <3>2. ClosedCalls = 0
      BY <3>1 DEF ClosedCalls, TokensPerCall
    <3>3. ~Marker(0, 1) /\ ~inCall
      BY <2>0, <3>1, <3>2, Markers DEF HeldFrom
    <3>4. buffer' = 1 /\ ~inCall'
      BY <1>3, <3>1, <3>3
    <3>5. HeldFrom' = 1
      BY <1>0, <1>1, <3>1, <3>2 DEF HeldFrom
    <3> QED
      BY <3>1, <3>4, <3>5
  <2> QED
    BY <1>0, <2>1, <2>2 DEF FirstSeen
<1>5. TakenAs(0, "none")'
  BY <1>3 DEF Emits, TakenAs
<1> QED
  BY <1>0, <1>1, <1>3, <1>4, <1>5 DEF Emits, WholeCalls

\* A close emits every closed call, unless the marker was not seen.
LEMMA CloseEmits ==
  ASSUME ReplyTypes, style = "embedded", Emits, Generate,
         NEW n \in 0..(reply - 1), arrived + 1 = n * TokensPerCall + (TokensPerCall - 1),
         ClosedCalls = n, ((arrived + 1) + 1) \div TokensPerCall = n + 1,
         TokenAt(arrived + 1) = "close"
  PROVE  /\ Emits' /\ buffer' \in Nat /\ buffer' <= arrived'
         /\ \/ taking' = taking
            \/ taking' = [taking EXCEPT !.calls = taking.calls \o WholeCalls(n + 1)]
<1>0. /\ reply \in Nat /\ n \in Nat /\ arrived \in Nat /\ TokensPerCall \in {4, 5}
      /\ arrived' = arrived + 1 /\ arrived + 1 \in Nat /\ split' = split
      /\ TokensPerCall' = TokensPerCall /\ FirstSeen' = FirstSeen /\ FirstSeen \in {1, 2} /\ split \in BOOLEAN
      /\ buffer \in 0..arrived /\ buffer = HeldFrom /\ TakenAs(0, "none")
  <2>1. /\ reply \in Nat /\ arrived \in Nat /\ TokensPerCall \in {4, 5}
        /\ buffer \in 0..arrived /\ split \in BOOLEAN
    BY StreamNumbers DEF ReplyTypes
  <2>2. arrived' = arrived + 1 /\ split' = split
    BY DEF Generate
  <2>3. TokensPerCall' = TokensPerCall /\ FirstSeen' = FirstSeen /\ FirstSeen \in {1, 2}
    BY <2>1, <2>2 DEF TokensPerCall, FirstSeen
  <2> QED
    BY <2>1, <2>2, <2>3 DEF Emits
<1>1. ClosedCalls' = n + 1
  BY <1>0 DEF ClosedCalls
<1>2. inCall \/ Marker(0, arrived')
  <2>1. arrived + 1 >= FirstSeen
    BY <1>0
  <2> QED
    BY <1>0, <2>1, Markers
<1>3. CASE n + 1 < FirstSeen
  <2>1. split /\ n = 0 /\ arrived' = 4 /\ TokensPerCall = 5
    BY <1>0, <1>3 DEF FirstSeen, TokensPerCall
  <2>2. ClosedCalls < FirstSeen /\ buffer = 1 /\ arrived > 0
    BY <1>0, <1>3, <2>1 DEF HeldFrom
  <2>3. ~Complete(buffer, arrived')
    BY <2>1, <2>2, Markers DEF Complete
  <2>4. taking' = taking /\ inCall' /\ buffer' = buffer
    BY <1>2, <2>3 DEF Generate
  <2>5. HeldFrom' = 1
    BY <1>0, <1>1, <1>3, <2>1 DEF HeldFrom
  <2>6. TakenAs(0, "none")' /\ taking'.calls = <<>>
    BY <1>0, <2>2, <2>4 DEF Emits, TakenAs
  <2> QED
    <3>1. buffer' = HeldFrom' /\ (inCall' <=> arrived' # buffer')
      BY <2>1, <2>2, <2>4, <2>5
    <3>2. ClosedCalls' = 1 /\ FirstSeen' = 2
      BY <1>0, <1>1, <1>3, <2>1
    <3>3. buffer' \in Nat /\ buffer' <= arrived'
      BY <2>1, <2>2, <2>4
    <3> QED
      BY <2>4, <2>6, <3>1, <3>2, <3>3 DEF Emits
<1>4. CASE n + 1 >= FirstSeen
  <2>1. buffer <= n * TokensPerCall
    <3>1. CASE n >= FirstSeen
      BY <1>0, <3>1 DEF HeldFrom
    <3>2. CASE n < FirstSeen
      <4>1. n = 0 => ~split
        BY <1>4 DEF FirstSeen
      <4> QED
        BY <1>0, <3>2, <4>1 DEF HeldFrom
    <3> QED
      BY <1>0, <3>1, <3>2
  <2>2. arrived' = n * TokensPerCall + TokensPerCall - 1
    <3>1. CASE TokensPerCall = 4
      BY <1>0, <3>1
    <3>2. CASE TokensPerCall = 5
      BY <1>0, <3>2
    <3> QED
      BY <1>0, <3>1, <3>2
  <2>3. Complete(buffer, arrived')
    BY <1>0, <2>1, <2>2, Markers DEF Complete
  <2>4. ParseToolCalls(arrived') = WholeCalls(n + 1)
    BY <1>0 DEF ParseToolCalls, WholeCalls
  <2>5. /\ taking' = [taking EXCEPT !.calls = taking.calls \o WholeCalls(n + 1)]
        /\ ~inCall' /\ buffer' = arrived'
    BY <1>2, <2>3, <2>4 DEF Generate
  <2>6. TakenAs(0, "none")' /\ taking'.calls = taking.calls \o WholeCalls(n + 1)
    BY <1>0, <2>5 DEF TakenAs, ReplyTypes, Takings
  <2>7. HeldFrom' = arrived'
    <3>1. CASE TokensPerCall = 4
      BY <1>0, <1>1, <1>4, <2>2, <3>1 DEF HeldFrom
    <3>2. CASE TokensPerCall = 5
      BY <1>0, <1>1, <1>4, <2>2, <3>2 DEF HeldFrom
    <3> QED
      BY <1>0, <3>1, <3>2
  <2>8. /\ WholeCalls(n + 1) \in Seq([c : 1..(n + 1), input : {"whole"}])
        /\ Len(WholeCalls(n + 1)) = n + 1
    <3>1. n + 1 \in Nat
      BY <1>0
    <3> QED
      BY <3>1, OneMoreCall
  <2>9. taking.calls \in Seq([c : 1..n, input : {"whole"}]) /\ (n + 1 = FirstSeen => taking.calls = <<>>)
    <3>1. CASE n + 1 = FirstSeen
      <4>1. taking.calls = <<>>
        BY <1>0, <3>1 DEF Emits
      <4> QED
        BY <4>1, EmptySeq
    <3>2. CASE n + 1 # FirstSeen
      <4>1. n >= FirstSeen
        BY <1>0, <1>4, <3>2
      <4> QED
        BY <3>2, <4>1 DEF Emits
    <3> QED
      BY <3>1, <3>2
  <2>10. /\ taking'.calls \in Seq([c : 1..(n + 1), input : {"whole"}])
         /\ \A c \in 1..(n + 1) : \E i \in DOMAIN taking'.calls : taking'.calls[i].c = c
    <3> DEFINE all == taking.calls \o WholeCalls(n + 1)
    <3>1. /\ all \in Seq([c : 1..(n + 1), input : {"whole"}])
          /\ \A c \in 1..(n + 1) : \E i \in DOMAIN all : all[i].c = c
      <4>1. \A s : s \in Seq([c : 1..n, input : {"whole"}]) =>
                /\ s \o WholeCalls(n + 1) \in Seq([c : 1..(n + 1), input : {"whole"}])
                /\ \A c \in 1..(n + 1) :
                     \E i \in DOMAIN (s \o WholeCalls(n + 1)) : (s \o WholeCalls(n + 1))[i].c = c
        BY <1>0, MoreEmitted
      <4> QED
        BY <2>9, <4>1, Zenon
    <3>2. taking'.calls = all
      BY <2>6
    <3> HIDE DEF all
    <3> QED
      BY <3>1, <3>2
  <2>11. n + 1 = FirstSeen => taking'.calls = WholeCalls(n + 1)
    <3>1. <<>> \o WholeCalls(n + 1) = WholeCalls(n + 1)
      BY <2>8, ConcatEmptySeq
    <3> QED
      BY <2>6, <2>9, <3>1
  <2>12. /\ (ClosedCalls = FirstSeen => taking.calls = WholeCalls(ClosedCalls))'
         /\ (ClosedCalls < FirstSeen => taking.calls = <<>>)'
    BY <1>0, <1>1, <1>4, <2>11 DEF WholeCalls
  <2> QED
    <3>1. buffer' = HeldFrom' /\ (inCall' <=> arrived' # buffer')
      BY <2>5, <2>7
    <3>2. /\ (taking.calls \in Seq([c : 1..ClosedCalls, input : {"whole"}]))'
          /\ (\A c \in 1..ClosedCalls : \E i \in DOMAIN taking.calls : taking.calls[i].c = c)'
      BY <1>1, <2>10
    <3>3. buffer' \in Nat /\ buffer' <= arrived'
      BY <1>0, <2>5
    <3> QED
      BY <2>5, <2>6, <2>12, <3>1, <3>2, <3>3 DEF Emits
<1>5. n + 1 < FirstSeen \/ n + 1 >= FirstSeen
  BY <1>0
<1> QED
  BY <1>3, <1>4, <1>5

\* The accumulator keeps its type, whatever frame it takes.
LEMMA FinalizeTyped == ASSUME taking \in Takings, entry \in Loops PROVE Finalize(taking) \in Takings
<1>1. taking.name # 0 => Call(taking.name, Arguments(taking.input)) \in CallsMade
  BY DEF Takings, CallsMade, Call, Arguments
<1>2. CASE taking.name = 0
  BY <1>2 DEF Finalize
<1>3. CASE taking.name # 0
  <2>1. taking.calls \in Seq(CallsMade)
    BY DEF Takings
  <2>2. Append(taking.calls, Call(taking.name, Arguments(taking.input))) \in Seq(CallsMade)
    BY <1>1, <1>3, <2>1, AppendProperties
  <2>3. 0 \in 0..MaxToolCalls
    BY StreamAssumption
  <2> QED
    BY <1>3, <2>2, <2>3 DEF Finalize, Takings
<1> QED
  BY <1>2, <1>3

LEMMA TakenTyped ==
  ASSUME taking \in Takings, entry \in Loops
  PROVE  /\ Taken(taking, Frame("finish", 0, 0)) \in Takings
         /\ \A c \in 1..MaxToolCalls, k \in 0..3 : Taken(taking, CallFrame(c, k)) \in Takings
<1>1. Taken(taking, Frame("finish", 0, 0)) \in Takings
  BY FinalizeTyped DEF Taken, Frame
<1>2. ASSUME NEW c \in 1..MaxToolCalls PROVE Taken(taking, CallFrame(c, 0)) \in Takings
  <2>1. CallFrame(c, 0).t = "start" /\ CallFrame(c, 0).c = c
    BY DEF CallFrame, Frame
  <2>2. Taken(taking, CallFrame(c, 0)) = [taking EXCEPT !.name = c, !.input = "none"]
    BY <2>1 DEF Taken
  <2>3. c \in 0..MaxToolCalls
    OBVIOUS
  <2> QED
    BY <2>2, <2>3 DEF Takings
<1>3. ASSUME NEW c \in 1..MaxToolCalls, NEW k \in {1, 2} PROVE Taken(taking, CallFrame(c, k)) \in Takings
  <2>1. CallFrame(c, k).t = "input" /\ CallFrame(c, k).n = k
    BY DEF CallFrame, Frame
  <2>2. Taken(taking, CallFrame(c, k)) = [taking EXCEPT !.input = Joined(taking.input, k)]
    BY <2>1 DEF Taken
  <2>3. Joined(taking.input, k) \in {"none", "first", "whole", "other"}
    BY DEF Joined
  <2> QED
    BY <2>2, <2>3 DEF Takings
<1>4. ASSUME NEW c \in 1..MaxToolCalls PROVE Taken(taking, CallFrame(c, 3)) \in Takings
  <2>1. CallFrame(c, 3).t = "stop"
    BY DEF CallFrame, Frame
  <2> QED
    BY <2>1, FinalizeTyped DEF Taken
<1> QED
  BY <1>1, <1>2, <1>3, <1>4

LEMMA EmittedTyped ==
  ASSUME taking \in Takings, NEW n \in 1..MaxToolCalls
  PROVE  [taking EXCEPT !.calls = taking.calls \o WholeCalls(n)] \in Takings
<1>1. WholeCalls(n) \in Seq(CallsMade)
  BY StreamAssumption DEF WholeCalls, Call, CallsMade
<1>2. taking.calls \in Seq(CallsMade)
  BY DEF Takings
<1>3. taking.calls \o WholeCalls(n) \in Seq(CallsMade)
  BY <1>1, <1>2, ConcatProperties
<1> QED
  BY <1>3 DEF Takings

\* What a run acts on when its stream is over.
LEMMA OneCallInHand ==
  ASSUME NEW m \in Nat, NEW x, NEW s, s = Append(WholeCalls(m), Call(m + 1, x))
  PROVE  /\ DOMAIN s = 1..(m + 1) /\ Len(s) = m + 1
         /\ \A i \in 1..m : s[i] = Call(i, "whole")
         /\ s[m + 1] = Call(m + 1, x)
<1>1. WholeCalls(m) \in Seq([c : 1..m, input : {"whole"}]) /\ Len(WholeCalls(m)) = m
  BY OneMoreCall
<1>2. WholeCalls(m) \in Seq([c : 1..(m + 1), input : {"whole", x}])
  BY <1>1 DEF WholeCalls, Call
<1>3. Call(m + 1, x) \in [c : 1..(m + 1), input : {"whole", x}]
  BY DEF Call
<1>4. /\ s \in Seq([c : 1..(m + 1), input : {"whole", x}]) /\ Len(s) = m + 1
      /\ \A i \in 1..m : s[i] = WholeCalls(m)[i]
      /\ s[m + 1] = Call(m + 1, x)
  BY <1>1, <1>2, <1>3, AppendProperties
<1>5. DOMAIN s = 1..(m + 1)
  BY <1>4, LenProperties
<1> QED
  BY <1>4, <1>5 DEF WholeCalls

LEMMA ReplyWasTaken ==
  ASSUME ReplyTypes, Digested, NEW how, TakeReply(how),
         how = "end" => arrived = StreamLength /\ ~BlockHeld,
         style = "embedded" => how = "end"
  PROVE  ReplyTaken'
<1>0. /\ reply \in Nat /\ arrived \in Nat /\ PerCall \in {3, 4} /\ TokensPerCall \in {4, 5}
      /\ style = "anthropic" => PerCall = 4
      /\ style # "anthropic" => PerCall = 3
      /\ style \notin Wired => style = "embedded"
      /\ style \in Wired => style # "embedded" /\ StreamLength = 2 * FrameNumber(reply, 1)
  BY StreamNumbers
<1>1. /\ taking' = Finalize(taking) /\ howEnded' = how /\ stage' = "taken"
      /\ UNCHANGED <<reply, style, entry, split, arrived, buffer>>
  BY DEF TakeReply
<1>2. ASSUME style = "embedded" PROVE ReplyTaken'
  <2>1. arrived = reply * TokensPerCall /\ how = "end"
    BY <1>2 DEF StreamLength
  <2>2. ClosedCalls = reply
    <3>1. CASE TokensPerCall = 4
      BY <1>0, <2>1, <3>1 DEF ClosedCalls
    <3>2. CASE TokensPerCall = 5
      BY <1>0, <2>1, <3>2 DEF ClosedCalls
    <3> QED
      BY <1>0, <3>1, <3>2
  <2>3. Emits
    BY <1>2 DEF Digested
  <2>4. taking' = taking
    BY <1>1, <2>3 DEF Emits, TakenAs, Finalize
  <2>5. CASE reply < FirstSeen
    <3>1. taking.calls = <<>> /\ DOMAIN taking.calls = {}
      BY <2>2, <2>3, <2>5 DEF Emits
    <3>2. reply # 0 => Unseen(reply) /\ reply = 1
      BY <1>0, <1>2, <2>5 DEF FirstSeen, Unseen
    <3> QED
      BY <1>0, <1>1, <2>4, <3>1, <3>2 DEF ReplyTaken, Unseen
  <2>6. CASE reply >= FirstSeen
    <3>1. /\ taking.calls \in Seq([c : 1..reply, input : {"whole"}])
          /\ \A c \in 1..reply : \E i \in DOMAIN taking.calls : taking.calls[i].c = c
      BY <2>2, <2>3, <2>6 DEF Emits
    <3>2. \A i \in DOMAIN taking.calls : taking.calls[i].input = "whole"
      <4>1. DOMAIN taking.calls = 1..Len(taking.calls)
        BY <3>1, LenProperties
      <4>2. \A i \in 1..Len(taking.calls) : taking.calls[i] \in [c : 1..reply, input : {"whole"}]
        BY <3>1, ElementOfSeq
      <4> QED
        BY <4>1, <4>2
    <3>3. reply = FirstSeen \/ Repeated
      BY <1>0, <1>2, <2>6 DEF FirstSeen, Repeated
    <3>4. reply = FirstSeen =>
            \A i, j \in DOMAIN taking.calls : i < j => taking.calls[i].c < taking.calls[j].c
      <4>1. reply = FirstSeen => taking.calls = WholeCalls(reply)
        BY <2>2, <2>3 DEF Emits
      <4>2. /\ DOMAIN WholeCalls(reply) = 1..reply
            /\ \A i \in 1..reply : WholeCalls(reply)[i].c = i
        BY DEF WholeCalls, Call
      <4> QED
        BY <4>1, <4>2
    <3> QED
      BY <1>1, <2>4, <3>1, <3>2, <3>3, <3>4 DEF ReplyTaken, Repeated
  <2> QED
    BY <1>0, <2>5, <2>6 DEF FirstSeen
<1>3. ASSUME style \in Wired PROVE ReplyTaken'
  <2>1. PICK m \in 0..reply, k \in 0..(PerCall - 1) : ParsedAt(m, k)
    BY <1>0, <1>3 DEF Digested, Parsed
  <2>2. how = "end" => m = reply /\ k = 1
    <3>1. FrameNumber(m, k) \in Nat /\ buffer = 2 * FrameNumber(m, k) /\ (m = reply => k \in {0, 1})
      BY <1>0, <2>1 DEF ParsedAt, FrameNumber
    <3>2. how = "end" => 2 * FrameNumber(m, k) + 2 > 2 * FrameNumber(reply, 1)
      BY <1>0, <1>3, <3>1, NextBlock DEF BlockHeld
    <3>3. CASE PerCall = 3
      BY <1>0, <3>1, <3>2, <3>3 DEF FrameNumber
    <3>4. CASE PerCall = 4
      BY <1>0, <3>1, <3>2, <3>4 DEF FrameNumber
    <3> QED
      BY <1>0, <3>3, <3>4
  <2>3. CASE style = "anthropic" /\ (k = 0 \/ m = reply)
    <3>1. taking' = taking /\ taking.calls = WholeCalls(m)
      BY <1>1, <2>1, <2>3 DEF ParsedAt, BlocksTaken, TakenAs, Finalize
    <3>2. /\ DOMAIN taking'.calls = 1..m
          /\ \A i \in 1..m : taking'.calls[i].c = i /\ taking'.calls[i].input = "whole"
      BY <3>1 DEF WholeCalls, Call
    <3> QED
      BY <1>0, <1>1, <2>2, <3>2 DEF ReplyTaken
  <2>4. CASE style = "anthropic" /\ ~(k = 0 \/ m = reply)
    <3>1. TakenAs(m + 1, InputAfter(k)) /\ taking.calls = WholeCalls(m) /\ how # "end" /\ m + 1 # 0
      BY <2>1, <2>2, <2>4 DEF ParsedAt, BlocksTaken
    <3>2. taking'.calls = Append(WholeCalls(m), Call(m + 1, Arguments(taking.input)))
      BY <1>1, <3>1 DEF TakenAs, Finalize
    <3>3. /\ DOMAIN taking'.calls = 1..(m + 1) /\ Len(taking'.calls) = m + 1
          /\ \A i \in 1..m : taking'.calls[i] = Call(i, "whole")
          /\ taking'.calls[m + 1].c = m + 1
      BY <1>0, <3>2, OneCallInHand DEF Call
    <3>4. \A i \in 1..(m + 1) : taking'.calls[i].c = i /\ (taking'.calls[i].input # "whole" => i = m + 1)
      <4>1. \A i \in 1..m : taking'.calls[i].c = i /\ taking'.calls[i].input = "whole"
        <5>1. \A i : Call(i, "whole").c = i /\ Call(i, "whole").input = "whole"
          BY DEF Call
        <5> QED
          BY <3>3, <5>1
      <4>2. \A i \in 1..(m + 1) : i = m + 1 \/ i \in 1..m
        BY <1>0
      <4> QED
        BY <3>3, <4>1, <4>2
    <3> QED
      BY <1>1, <3>1, <3>3, <3>4 DEF ReplyTaken
  <2>5. CASE style # "anthropic" /\ m = reply /\ k = 1
    <3>1. taking' = taking /\ taking.calls = (IF m = 0 THEN <<>> ELSE <<Call(m, "whole")>>)
      BY <1>1, <2>1, <2>5 DEF ParsedAt, LatestTaken, TakenAs, Finalize
    <3>2. CASE m = 0
      BY <1>1, <2>5, <3>1, <3>2 DEF ReplyTaken
    <3>3. CASE m # 0
      <4>1. DOMAIN taking'.calls = {1} /\ taking'.calls[1].c = reply /\ taking'.calls[1].input = "whole"
        BY <2>5, <3>1, <3>3 DEF Call
      <4>2. \A c \in 1..reply : c = reply \/ Overwritten(c)'
        BY <1>0, <1>1, <1>3, <2>5 DEF Overwritten, Wired
      <4> QED
        BY <1>1, <4>1, <4>2 DEF ReplyTaken
    <3> QED
      BY <3>2, <3>3
  <2>6. CASE style # "anthropic" /\ ~(m = reply /\ k = 1)
    <3>1. how # "end" /\ taking.calls = <<>>
      BY <2>1, <2>2, <2>6 DEF ParsedAt, LatestTaken
    <3>2. taking'.calls = <<>> \/ taking'.calls = <<Call(taking.name, Arguments(taking.input))>>
      BY <1>1, <3>1 DEF Finalize
    <3>3. DOMAIN taking'.calls \subseteq {1} /\ (DOMAIN taking'.calls = {1} => Len(taking'.calls) = 1)
      <4>1. CASE taking'.calls = <<>>
        BY <4>1
      <4>2. CASE taking'.calls = <<Call(taking.name, Arguments(taking.input))>>
        BY <4>2
      <4> QED
        BY <3>2, <4>1, <4>2
    <3>4. \A i, j \in DOMAIN taking'.calls : ~(i < j) /\ i = Len(taking'.calls)
      <4>1. \A i \in DOMAIN taking'.calls : i = 1 /\ Len(taking'.calls) = 1
        BY <3>3
      <4>2. ~(1 < 1)
        OBVIOUS
      <4> TAKE i, j \in DOMAIN taking'.calls
      <4>3. i = 1 /\ j = 1 /\ Len(taking'.calls) = 1
        BY <4>1
      <4> QED
        BY <4>2, <4>3
    <3>5. howEnded' # "end"
      BY <1>1, <3>1
    <3> QED
      BY <1>1, <3>4, <3>5 DEF ReplyTaken
  <2> QED
    BY <1>3, <2>3, <2>4, <2>5, <2>6
<1> QED
  BY <1>0, <1>2, <1>3

LEMMA ReplyInvInit == ReplyInit => ReplyInv
<1> SUFFICES ASSUME ReplyInit PROVE ReplyInv
  OBVIOUS
<1>1. /\ reply \in Nat /\ StreamLength \in Nat /\ 1 \in 1..LastProvider /\ 0 \in 0..MaxToolCalls
      /\ split \in BOOLEAN /\ (split => style = "embedded")
  <2>1. reply \in Nat /\ 0 \in 0..MaxToolCalls /\ 1 \in 1..LastProvider
    BY StreamAssumption DEF ReplyInit, LastProvider
  <2>2. PerCall \in {3, 4} /\ TokensPerCall \in {4, 5}
    BY DEF PerCall, TokensPerCall
  <2>3. reply * PerCall \in Nat /\ reply * TokensPerCall \in Nat
    BY <2>1, <2>2
  <2>4. StreamLength \in Nat
    BY <2>3 DEF StreamLength
  <2>5. split \in BOOLEAN /\ (split => style = "embedded")
    BY DEF ReplyInit
  <2> QED
    BY <2>1, <2>4, <2>5
<1>2. taking = [name |-> 0, input |-> "none", calls |-> <<>>] /\ taking \in Takings
  BY <1>1, EmptySeq DEF ReplyInit, NothingTaken, Takings
<1>3. ReplyTypes
  <2>1. arrived \in 0..StreamLength /\ buffer \in 0..arrived
    BY <1>1 DEF ReplyInit
  <2> QED
    BY <1>1, <1>2, <2>1 DEF ReplyInit, ReplyTypes, ReplyStages
<1>4. ASSUME style = "embedded" PROVE Emits
  <2>1. ClosedCalls = 0
    BY DEF ClosedCalls, ReplyInit, TokensPerCall
  <2>2. HeldFrom = 0
    BY <2>1 DEF HeldFrom, FirstSeen, ReplyInit
  <2> QED
    BY <1>2, <2>1, <2>2 DEF Emits, FirstSeen, TakenAs, ReplyInit
<1>5. ASSUME style # "embedded" PROVE Parsed
  <2>1. 0 \in 0..reply /\ 0 \in 0..(PerCall - 1) /\ FrameNumber(0, 0) = 0 /\ buffer = 0
    BY <1>1 DEF PerCall, FrameNumber, ReplyInit
  <2>2. WholeCalls(0) = <<>>
    BY OneMoreCall
  <2>3. ParsedAt(0, 0)
    BY <1>2, <2>1, <2>2 DEF ParsedAt, BlocksTaken, LatestTaken, TakenAs
  <2> QED
    BY <2>1, <2>3 DEF Parsed
<1> QED
  BY <1>3, <1>4, <1>5 DEF ReplyInv, Digested, ReplyTaken, ReplyInit

\* Every step keeps the invariant.
LEMMA ReplyInvStep == ReplyInv /\ [ReplyNext]_replyVars => ReplyInv'
<1> SUFFICES ASSUME ReplyInv, [ReplyNext]_replyVars PROVE ReplyInv'
  OBVIOUS
<1>0. ReplyTypes /\ (stage # "taken" => Digested) /\ ReplyTaken
  BY DEF ReplyInv
<1>1. /\ MaxToolCalls \in Nat /\ reply \in Nat /\ arrived \in Nat /\ StreamLength \in Nat
      /\ style \notin Wired => style = "embedded"
      /\ style \in Wired => style # "embedded"
  BY <1>0, StreamNumbers
<1>2. ASSUME UNCHANGED <<reply, style, split>> PROVE StreamLength' = StreamLength
  BY <1>2 DEF StreamLength, PerCall, TokensPerCall
<1>3. ASSUME UNCHANGED <<reply, style, entry, split, arrived, buffer, inCall, taking>>, Digested PROVE Digested'
  BY <1>3, ZenonT(30)
    DEF Digested, Emits, Parsed, ParsedAt, BlocksTaken, LatestTaken, TakenAs, InputAfter, FrameNumber,
       PerCall, ClosedCalls, TokensPerCall, FirstSeen, HeldFrom, WholeCalls, Call
<1>4. ASSUME AskNext \/ AskFails \/ Answers \/ (StreamBreaks /\ stage' = "failed") \/ DaemonGone PROVE ReplyInv'
  <2>1. /\ UNCHANGED <<reply, style, entry, split, arrived, buffer, inCall, taking>>
        /\ stage # "taken" /\ stage' # "taken" /\ stage' \in ReplyStages
    BY <1>0, <1>4 DEF AskNext, AskFails, Answers, StreamBreaks, DaemonGone, TakeReply, ReplyStages, ReplyTypes, Reading
  <2>2. asked' \in 1..LastProvider
    BY <1>0, <1>4 DEF AskNext, AskFails, Answers, StreamBreaks, DaemonGone, TakeReply, ReplyTypes, LastProvider
  <2> QED
    BY <1>0, <1>2, <1>3, <2>1, <2>2 DEF ReplyInv, ReplyTypes, ReplyTaken
<1>5. ASSUME stage = "reading", NEW how, TakeReply(how),
             how = "end" => arrived = StreamLength /\ ~BlockHeld,
             style = "embedded" => how = "end"
      PROVE  ReplyInv'
  <2>1. ReplyTaken'
    BY <1>0, <1>5, ReplyWasTaken
  <2>2. taking' \in Takings
    BY <1>0, <1>5, FinalizeTyped DEF TakeReply, ReplyTypes
  <2> QED
    BY <1>0, <1>2, <1>5, <2>1, <2>2 DEF TakeReply, ReplyInv, ReplyTypes, ReplyStages
<1>6. CASE StreamEnds
  BY <1>5, <1>6 DEF StreamEnds
<1>7. CASE ClosedEarly
  BY <1>1, <1>5, <1>7 DEF ClosedEarly, Reading
<1>8. CASE StreamBreaks
  <2>1. CASE TakeReply("broken")
    BY <1>1, <1>5, <1>8, <2>1 DEF StreamBreaks, Reading
  <2>2. CASE stage' = "failed"
    BY <1>4, <1>8, <2>2
  <2> QED
    BY <1>8, <2>1, <2>2 DEF StreamBreaks
<1>9. CASE ReadChunk
  <2>1. /\ UNCHANGED <<reply, style, entry, split, asked, stage, buffer, inCall, taking, howEnded>>
        /\ arrived' \in (arrived + 1)..StreamLength /\ stage = "reading" /\ style \in Wired
    BY <1>9 DEF ReadChunk, ChunkArrives, Reading
  <2>2. Parsed'
    <3>1. Parsed
      BY <1>0, <1>1, <2>1 DEF Digested
    <3> QED
      BY <2>1, <3>1, ZenonT(30)
        DEF Parsed, ParsedAt, BlocksTaken, LatestTaken, TakenAs, InputAfter, FrameNumber, PerCall, WholeCalls, Call
  <2>3. ReplyTypes'
    BY <1>0, <1>1, <1>2, <2>1 DEF ReplyTypes
  <2> QED
    BY <1>1, <2>1, <2>2, <2>3 DEF ReplyInv, Digested, ReplyTaken
<1>10. CASE TakeBlock
  <2>1. /\ UNCHANGED <<reply, style, entry, split, asked, stage, arrived, inCall, howEnded>>
        /\ stage = "reading" /\ style \in Wired
    BY <1>10 DEF TakeBlock, Reading
  <2>2. /\ Parsed' /\ buffer' <= arrived /\ buffer' \in Nat
        /\ \/ taking' = Taken(taking, Frame("finish", 0, 0))
           \/ \E c \in 1..reply, k \in 0..3 : taking' = Taken(taking, CallFrame(c, k))
    BY <1>0, <1>1, <1>10, <2>1, ParsedBlock DEF Digested
  <2>3. taking' \in Takings
    <3>1. \A c \in 1..reply : c \in 1..MaxToolCalls
      BY <1>0, <1>1 DEF ReplyTypes
    <3> QED
      BY <1>0, <2>2, <3>1, TakenTyped DEF ReplyTypes
  <2>4. ReplyTypes'
    BY <1>0, <1>1, <1>2, <2>1, <2>2, <2>3 DEF ReplyTypes
  <2> QED
    BY <1>1, <2>1, <2>2, <2>4 DEF ReplyInv, Digested, ReplyTaken
<1>11. CASE Generate
  <2>1. /\ UNCHANGED <<reply, style, entry, split, asked, stage, howEnded>>
        /\ stage = "reading" /\ style = "embedded" /\ arrived < StreamLength /\ arrived' = arrived + 1
    BY <1>11 DEF Generate, Reading
  <2>2. Emits
    BY <1>0, <2>1 DEF Digested
  <2>3. PICK n \in 0..(reply - 1), r \in 1..TokensPerCall :
           /\ arrived + 1 = n * TokensPerCall + r
           /\ TokenAt(arrived + 1) = CallTokens[r]
           /\ ClosedCalls = IF r < TokensPerCall THEN n ELSE n + 1
           /\ ((arrived + 1) + 1) \div TokensPerCall = IF r < TokensPerCall - 1 THEN n ELSE n + 1
    BY <1>0, <2>1, TokenPlace
  <2>4. TokensPerCall \in {4, 5} /\ (CallTokens[r] = "close" <=> r = TokensPerCall - 1)
    BY <1>0 DEF TokensPerCall, CallTokens, ReplyTypes
  <2>5. /\ Emits' /\ buffer' \in Nat /\ buffer' <= arrived'
        /\ \/ taking' = taking
           \/ taking' = [taking EXCEPT !.calls = taking.calls \o WholeCalls(n + 1)]
    <3>1. CASE r = TokensPerCall - 1
      <4>1. ClosedCalls = n /\ ((arrived + 1) + 1) \div TokensPerCall = n + 1 /\ TokenAt(arrived + 1) = "close"
        BY <2>3, <2>4, <3>1
      <4> QED
        BY <1>0, <1>11, <2>1, <2>2, <2>3, <3>1, <4>1, CloseEmits
    <3>2. CASE r # TokensPerCall - 1
      <4>1. ((arrived + 1) + 1) \div TokensPerCall = ClosedCalls /\ TokenAt(arrived + 1) # "close"
        BY <2>3, <2>4, <3>2
      <4> QED
        BY <1>0, <1>11, <2>1, <2>2, <4>1, TokenKept
    <3> QED
      BY <3>1, <3>2
  <2>6. taking' \in Takings
    <3>1. n + 1 \in 1..MaxToolCalls
      BY <1>0, <1>1 DEF ReplyTypes
    <3> QED
      BY <1>0, <2>5, <3>1, EmittedTyped DEF ReplyTypes
  <2>7. inCall' \in BOOLEAN
    BY <1>11 DEF Generate
  <2>8. ReplyTypes'
    BY <1>0, <1>1, <1>2, <2>1, <2>5, <2>6, <2>7 DEF ReplyTypes
  <2> QED
    BY <2>1, <2>5, <2>8 DEF ReplyInv, Digested, ReplyTaken
<1>12. CASE UNCHANGED replyVars
  <2>1. UNCHANGED <<reply, style, entry, split, asked, stage, arrived, buffer, inCall, taking, howEnded>>
    BY <1>12 DEF replyVars
  <2>2. ReplyTaken'
    BY <1>0, <2>1 DEF ReplyTaken, Overwritten, Unseen, Repeated
  <2> QED
    BY <1>0, <1>2, <1>3, <2>1, <2>2 DEF ReplyInv, ReplyTypes
<1> QED
  BY <1>4, <1>6, <1>7, <1>8, <1>9, <1>10, <1>11, <1>12 DEF ReplyNext

LEMMA ReplyInvTyped == ReplyInv => ReplyTypeOK
<1> SUFFICES ASSUME ReplyInv PROVE ReplyTypeOK
  OBVIOUS
<1>1. taking \in Takings /\ \A i \in DOMAIN taking.calls : taking.calls[i] \in CallsMade
  <2>1. taking \in Takings /\ taking.calls \in Seq(CallsMade)
    BY DEF ReplyInv, ReplyTypes, Takings
  <2> QED
    BY <2>1, LenProperties, ElementOfSeq
<1> QED
  BY <1>1 DEF ReplyInv, ReplyTypes, ReplyTypeOK, Takings, CallsMade

\* What has come of a reply, what the parser holds and what was made of it keep
\* their types, however the stream is cut.
THEOREM ReplyTypeCorrect == ReplySpec => []ReplyTypeOK
BY ReplyInvInit, ReplyInvStep, ReplyInvTyped, PTL DEF ReplySpec

\* However a reply is cut into chunks and wherever the stream ends, a run acts on
\* the calls the model made, each once, whole and in order, but for the named
\* exceptions of two formats; for any number of calls.
THEOREM RepliesStayTaken == ReplySpec => []ReplyTaken
<1>1. ReplyInv => ReplyTaken
  BY DEF ReplyInv
<1> QED
  BY <1>1, ReplyInvInit, ReplyInvStep, PTL DEF ReplySpec

-----------------------------------------------------------------------------
(* The services together: a behaviour of one of them is, for each service, *)
(* a behaviour of that service alone.                                      *)

\* At the start every service is as its own module says.
LEMMA PartsStart ==
  Init => /\ SchedInit /\ CallsInit /\ StreamsInit /\ KnowInit
          /\ ReplyInit /\ MsgInit /\ McpInit /\ PagesInit
BY DEF Init

\* A step is one of the service a behaviour is about, and none of the others'.
LEMMA PartsStep ==
  [Next]_vars => /\ [SchedNext]_schedVars /\ [CallsNext]_callVars
                 /\ [StreamsNext]_streamVars /\ [KnowNext]_knowVars
                 /\ [ReplyNext]_replyVars /\ [MsgNext]_msgVars
                 /\ [McpNext]_mcpVars /\ [AppsNext \/ PageStreamsNext]_pagesVars
<1>1. CASE UNCHANGED vars
  BY <1>1 DEF vars
<1>2. CASE Next
  BY <1>2 DEF Next, CallsNext
<1> QED
  BY <1>1, <1>2

\* Whatever service runs, each of them keeps to its own specification.
THEOREM PartsRun ==
  Spec => /\ SchedSpec /\ CallsSpec /\ StreamsSpec /\ KnowSpec
          /\ ReplySpec /\ MsgSpec /\ McpSpec /\ PagesSpec
BY PartsStart, PartsStep, PTL
   DEF Spec, SchedSpec, CallsSpec, StreamsSpec, KnowSpec, ReplySpec, MsgSpec, McpSpec, PagesSpec

\* What any of the services knows stays of its type.
THEOREM ServicesTypeCorrect == Spec => []TypeOK
<1>1. ASSUME SchedTypeOK, CallsTypeOK, StreamsTypeOK, KnowTypeOK,
             ReplyTypeOK, MsgTypeOK, McpTypeOK, PagesTypeOK
      PROVE  TypeOK
  BY <1>1 DEF TypeOK
<1> QED
  BY <1>1, PartsRun, SchedTypeCorrect, CallsTypeCorrect, StreamsTypeCorrect, KnowTypeCorrect,
     ReplyTypeCorrect, MsgTypeCorrect, McpTypeCorrect, PagesTypeCorrect, PTL

\* What each of the services promises holds where they are checked together.
THEOREM ServicesStaySafe ==
  Spec => []( /\ ScheduleKept
              /\ CollectedOnce /\ Accounted /\ LineFollowed
              /\ EveryEventOnce /\ CapturesAccounted
              /\ StoresAgree /\ ReplyTaken /\ MessagesAccounted
              /\ AnswersMatched /\ DeviceShown )
BY PartsRun, ScheduleStaysKept, CollectsOnce, NoneUnaccounted, LinesFollowed, EventsReadOnce,
   CapturesStayAccounted, StoresStayAgreed, RepliesStayTaken, MessagesStayAccounted,
   AnswersAreMatched, PagesStayShown, PTL
=============================================================================
