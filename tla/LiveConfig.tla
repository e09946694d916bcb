----------------------------- MODULE LiveConfig -----------------------------
(***************************************************************************)
(* The configuration of the running agent: the copy in memory, config.toml *)
(* and the PIN the unlocking code uses.  A save from the page merges into   *)
(* the copy under its lock, releases the lock, and then writes a temporary *)
(* file, renames it over config.toml and pushes the PIN.  Two saves may    *)
(* run at once, an operation on a file may fail, the process may die.      *)
(*                                                                         *)
(* A configuration is what a save can get wrong: the secrets, of which the *)
(* page only sees a mask, and the data directory, which the page does not  *)
(* show and therefore does not send.                                       *)
(***************************************************************************)
EXTENDS Naturals, FiniteSets

CONSTANTS Savers,      \* the requests that may be under way at once
          Fresh,       \* keys and PINs a user may type
          MaxSaves,
          MaxAccidents \* failures of the file system and deaths together

ASSUME ConfigAssumption ==
  /\ Savers \subseteq Nat /\ IsFiniteSet(Savers) /\ MaxSaves \in Nat /\ MaxAccidents \in Nat
  /\ Fresh \cap {"", "...", "****", "absent", "old", "env"} = {}

Known == "anthropic"     \* a provider the file has an entry for
Custom == "custom"       \* one it has none for
Providers == {Known, Custom}
Blank == ""
Mask == "..."            \* what get_config makes of a key
PinMask == "****"
Absent == "absent"
Typed == Fresh \cup {"old", "env"}

Configs ==
  [keys : [Providers -> Typed \cup {Blank, Mask, Absent}],
   stt  : Typed \cup {Blank}, pin : Typed \cup {Blank},
   dir  : {"own", "env", "unset", "default"}]

Files == [whole : BOOLEAN, of : Configs]
NoFile == <<>>

VARIABLES
  env,        \* PEKO_API_KEY and PEKO_DATA_DIR are set
  up,
  live,       \* AppState.config
  disk, tmp,  \* config.toml and config.toml.tmp: whole or not, and of which
              \* configuration
  pinNow,     \* screen_state's LOCK_PIN
  saver,      \* what each request is about to do, its snapshot and the name
              \* that the file it has open goes by
  saves, accidents,
  acked,      \* what the last save promised to keep
  booted,     \* the process was started after that
  outcome,    \* of the last save
  overlapped  \* two saves ran at once, and none has run alone since

configVars == <<env, up, live, disk, tmp, pinNow, saver, saves, accidents,
                acked, booted, outcome, overlapped>>

-----------------------------------------------------------------------------
(* Merging. *)

\* A slip: a mask is taken for a key.
KeptUnlessBlank(old, posted) ==
  IF posted = Blank /\ old # Absent THEN old ELSE posted

\* A key that is empty or a mask keeps the one that is there.
KeptKey(old, posted) ==
  IF posted \in {Blank, Mask} /\ old # Absent THEN old ELSE posted

KeptStt(old, posted) == IF posted \in {Blank, Mask, PinMask} THEN old ELSE posted

\* An empty PIN clears it.
KeptPin(old, posted) == IF posted = PinMask THEN old ELSE posted

\* The section of the agent is replaced by what was sent, entries of
\* providers one by one.
Merged(c, post) ==
  [keys |-> [c.keys EXCEPT ![post.name] = KeptKey(@, post.key)],
   stt  |-> KeptStt(c.stt, post.stt),
   pin  |-> KeptPin(c.pin, post.pin),
   dir  |-> "unset"]

\* get_config: what the page is given.
Shown(c) ==
  [c EXCEPT !.keys = [n \in Providers |-> IF @[n] \in Typed THEN Mask ELSE @[n]],
            !.stt  = IF @ \in Typed THEN Mask ELSE @,
            !.pin  = IF @ = Blank THEN Blank ELSE PinMask]

\* loadCfg: the form of a page that was loaded from c; the field of the STT key
\* stays empty, or holds a placeholder.
Form(c) == [name |-> Known, key |-> Shown(c).keys[Known], stt |-> PinMask, pin |-> Shown(c).pin]

Retyped(form, name, key) == [form EXCEPT !.name = name, !.key = key]

\* saveCfg: the form as it stands, with one secret retyped or cleared, or with
\* the provider switched while the field of its key is left alone.  The page
\* cannot clear a PIN, another client can; a PIN is of digits.
Posts(c) ==
  {Form(c)}
    \cup { Retyped(Form(c), n, k) : n \in Providers, k \in Fresh \cup {Blank, Form(c).key} }
    \cup { [Form(c) EXCEPT !.stt = k] : k \in Fresh }
    \cup { [Form(c) EXCEPT !.pin = p] : p \in Fresh \cup {Blank} }

\* load: the environment goes before the file, a default fills a gap.
Booted(c) ==
  [c EXCEPT !.keys[Known] = IF env /\ @ # Absent THEN "env" ELSE @,
            !.dir = IF env THEN "env" ELSE IF @ = "unset" THEN "default" ELSE @]

-----------------------------------------------------------------------------
Installed ==
  [keys |-> [n \in Providers |-> IF n = Known THEN "old" ELSE Absent],
   stt |-> "old", pin |-> "old", dir |-> "own"]

Idle == [pc |-> "idle", snap |-> Installed, file |-> "none", alone |-> TRUE]

ConfigInit ==
  /\ env \in BOOLEAN
  /\ up = TRUE
  /\ acked = Installed /\ live = Booted(Installed) /\ pinNow = Installed.pin
  /\ disk = [whole |-> TRUE, of |-> Installed] /\ tmp = NoFile
  /\ saver = [s \in Savers |-> Idle]
  /\ saves = 0 /\ accidents = 0
  /\ booted = TRUE /\ outcome = "ok" /\ overlapped = FALSE

Busy == { s \in Savers : saver[s].pc # "idle" }
At(s, pc) == up /\ saver[s].pc = pc

\* The merge, under the lock; the snapshot is what will be written.
Post(s) ==
  /\ At(s, "idle") /\ saves < MaxSaves
  /\ \A t \in Savers : t < s => t \in Busy   \* a request takes the first name free
  /\ \E p \in Posts(live) : live' = Merged(live, p)
  /\ saver' = [t \in Savers |->
       IF t = s THEN [pc |-> "open", snap |-> live', file |-> "none", alone |-> Busy = {}]
       ELSE [saver[t] EXCEPT !.alone = @ /\ t \notin Busy]]
  /\ overlapped' = (overlapped \/ Busy # {})
  /\ saves' = saves + 1
  /\ UNCHANGED <<env, up, disk, tmp, pinNow, accidents, acked, booted, outcome>>

\* The lock is released: the file is opened and cut first, then filled.
Open(s) ==
  /\ At(s, "open")
  /\ tmp' = <<[whole |-> FALSE, of |-> saver[s].snap]>>
  /\ saver' = [saver EXCEPT ![s].pc = "fill", ![s].file = "tmp"]
  /\ UNCHANGED <<env, up, live, disk, pinNow, saves, accidents, acked, booted, outcome, overlapped>>

\* Into a file that another save has filled meanwhile, a shorter text leaves
\* the end of the longer.
Filled(file, snap, whole) ==
  [whole |-> IF file.whole THEN whole ELSE TRUE, of |-> snap]

\* The file that was opened may be config.toml by now, or replaced.
Fill(s) ==
  /\ At(s, "fill")
  /\ \E whole \in BOOLEAN :
       /\ tmp'  = IF saver[s].file = "tmp" THEN <<Filled(tmp[1], saver[s].snap, whole)>> ELSE tmp
       /\ disk' = IF saver[s].file = "disk" THEN Filled(disk, saver[s].snap, whole) ELSE disk
  /\ saver' = [saver EXCEPT ![s].pc = "rename", ![s].file = "none"]
  /\ UNCHANGED <<env, up, live, pinNow, saves, accidents, acked, booted, outcome, overlapped>>

Answer500(s) ==
  /\ saver' = [saver EXCEPT ![s] = Idle]
  /\ outcome' = "failed"

\* The name may be gone: another save has renamed the file.
Rename(s) ==
  /\ At(s, "rename")
  /\ IF tmp = NoFile
     THEN Answer500(s) /\ UNCHANGED <<disk, tmp>>
     ELSE /\ disk' = tmp[1] /\ tmp' = NoFile
          /\ saver' = [t \in Savers |->
               [saver[t] EXCEPT !.pc = IF t = s THEN "push" ELSE @,
                                !.file = CASE @ = "tmp" -> "disk" [] @ = "disk" -> "lost" [] OTHER -> @]]
          /\ UNCHANGED outcome
  /\ UNCHANGED <<env, up, live, pinNow, saves, accidents, acked, booted, overlapped>>

\* The PIN of the snapshot goes to the unlocking code; the page is told OK.
Push(s) ==
  /\ At(s, "push")
  /\ pinNow' = saver[s].snap.pin
  /\ saver' = [saver EXCEPT ![s] = Idle]
  /\ outcome' = "ok" /\ acked' = saver[s].snap /\ booted' = FALSE
  /\ overlapped' = (overlapped /\ ~saver[s].alone)
  /\ UNCHANGED <<env, up, live, disk, tmp, saves, accidents>>

\* The file system refuses: the merge stays in memory.
Refuse(s) ==
  /\ up /\ saver[s].pc \in {"open", "fill", "rename"} /\ accidents < MaxAccidents
  /\ accidents' = accidents + 1
  /\ Answer500(s)
  /\ UNCHANGED <<env, up, live, disk, tmp, pinNow, saves, acked, booted, overlapped>>

Crash ==
  /\ up /\ accidents < MaxAccidents /\ accidents' = accidents + 1
  /\ up' = FALSE
  /\ saver' = [s \in Savers |-> Idle]
  /\ UNCHANGED <<env, live, disk, tmp, pinNow, saves, acked, booted, outcome, overlapped>>

\* A file that is no TOML ends the start with an error.
Boot ==
  /\ ~up /\ disk.whole
  /\ up' = TRUE
  /\ live' = Booted(disk.of) /\ pinNow' = disk.of.pin
  /\ acked' = disk.of /\ booted' = TRUE /\ outcome' = "ok"
  /\ UNCHANGED <<env, disk, tmp, saver, saves, accidents, overlapped>>

ConfigNext ==
  \/ \E s \in Savers : Post(s) \/ Open(s) \/ Fill(s) \/ Rename(s) \/ Push(s) \/ Refuse(s)
  \/ Crash \/ Boot

ConfigSpec == ConfigInit /\ [][ConfigNext]_configVars

ConfigTypeOK ==
  /\ env \in BOOLEAN /\ up \in BOOLEAN /\ booted \in BOOLEAN /\ overlapped \in BOOLEAN
  /\ live \in Configs /\ acked \in Configs /\ pinNow \in Typed \cup {Blank}
  /\ disk \in Files /\ (tmp = NoFile \/ tmp[1] \in Files)
  /\ \A s \in Savers : saver[s].pc \in {"idle", "open", "fill", "rename", "push"}
  /\ saves \in 0..MaxSaves /\ accidents \in 0..MaxAccidents
  /\ outcome \in {"ok", "failed"}

-----------------------------------------------------------------------------
(* Properties. *)

\* Of a mask, the page's form of a secret, only an entry that had no key can be
\* made: the provider was switched under the old provider's mask.
SecretsKept(c) ==
  /\ c.keys[Known] \notin {Mask, Blank, Absent}
  /\ c.stt # Blank

\* Whatever fails or dies in the middle of it, a save that no other overlaps
\* leaves on the disk either the configuration it was to replace or its own,
\* whole, so that the agent starts again; once the page was told OK, the copy
\* in memory, the file and the PIN in use agree, also after a restart; and no
\* secret is lost to its mask, whether saves overlap or not.
ConfigSaved ==
  /\ SecretsKept(live) /\ SecretsKept(disk.of)
  /\ ~overlapped =>
       /\ disk.whole
       /\ \/ disk.of = acked
          \/ ~up
          \/ \E s \in Savers : saver[s].pc = "push" /\ disk.of = saver[s].snap
       /\ up /\ Busy = {} /\ outcome = "ok" =>
            /\ live = IF booted THEN Booted(acked) ELSE acked
            /\ pinNow = acked.pin
=============================================================================
