------------------------------ MODULE Providers ------------------------------
(***************************************************************************)
(* Which models a configuration gives the agent: the chain of the default  *)
(* provider (build_provider_helper), a provider by its name and the brain  *)
(* of one or two sides that provider.brain describes.  Two functions build *)
(* providers, and they do not build the same.                              *)
(***************************************************************************)
EXTENDS Naturals, Sequences, SequencesExt

\* An entry of [provider]: what of it decides.
Entry == [model : BOOLEAN, key : BOOLEAN, url : {"none", "unix", "localhost", "remote"}]

NoEntry == [model |-> FALSE, key |-> FALSE, url |-> "missing"]

\* Names with an endpoint and an environment variable of their own; any other
\* name ("local", a user's) has neither.
Compat == {"openrouter", "openai", "groq", "deepseek", "mistral", "together"}
Keyed == {"anthropic"} \cup Compat

Provider(n, kind, url) == [name |-> n, kind |-> kind, url |-> url]

\* The endpoint: the entry's, or the one of the name, or Ollama's.
Endpoint(entry, own) == IF entry.url = "none" THEN own ELSE entry.url

HasKey(entry, n, env) == entry.key \/ n \in env

\* build_provider_by_name: <<>> is None.
ByName(cfg, env, n) ==
  LET entry == cfg[n]
  IN IF entry = NoEntry \/ ~entry.model THEN <<>>
     ELSE IF entry.url = "unix" THEN <<Provider(n, "socket", "unix")>>
     ELSE IF n \in Keyed /\ ~HasKey(entry, n, env) THEN <<>>
     ELSE <<Provider(n, IF n = "anthropic" THEN "anthropic" ELSE "openai",
                     Endpoint(entry, IF n \in Keyed THEN "its own" ELSE "localhost"))>>

\* build_provider_chain: what can be built of the names, in their order.
ChainOf(cfg, env, names) ==
  FlattenSeq([i \in DOMAIN names |-> ByName(cfg, env, names[i])])

\* The match of build_provider_helper: two names have an endpoint, every other
\* goes to localhost unless the entry says otherwise, and a socket is no URL.
HelperOne(cfg, env, n) ==
  LET entry == cfg[n]
      special == n \in {"anthropic", "openrouter"}
  IN IF entry = NoEntry \/ ~entry.model \/ (special /\ ~HasKey(entry, n, env)) THEN <<>>
     ELSE <<Provider(n, IF n = "anthropic" THEN "anthropic" ELSE "openai",
                     Endpoint(entry, IF special THEN "its own" ELSE "localhost"))>>

\* NullProvider answers every request with an error.
Null == Provider("null-provider", "null", "none")

Helper(cfg, env, priority) ==
  LET built == FlattenSeq([i \in DOMAIN priority |-> HelperOne(cfg, env, priority[i])])
  IN IF built = <<>> THEN <<Null>> ELSE built

-----------------------------------------------------------------------------
(* The brain. *)

Brain(mode, local, cloud) == <<[mode |-> mode, local |-> local, cloud |-> cloud]>>

LooksLocal(cfg, n) == n \in {"local", "embedded"} \/ cfg[n].url \in {"unix", "localhost"}

\* build_dual_brain: halves is provider.brain split at the colon, each half a
\* list of names.
DualBrain(cfg, env, halves) ==
  IF Len(halves) \notin 1..2 THEN <<>>
  ELSE LET names == Last(halves)
           local == ChainOf(cfg, env, halves[1])
           cloud == ChainOf(cfg, env, names)
           mode  == IF Len(halves) = 2 THEN "dual"
                    ELSE IF LooksLocal(cfg, names[1]) THEN "local" ELSE "cloud"
       IN IF local = <<>> THEN <<>>
          ELSE Brain(mode, local, IF cloud = <<>> THEN local ELSE cloud)

Engine == <<Provider("embedded", "embedded", "none")>>

\* The cloud side of an embedded brain has a match of its own; unlike the
\* other two it takes an entry without a model.
EmbeddedCloud(cfg, env, n) ==
  IF cfg[n] = NoEntry THEN <<>> ELSE HelperOne([cfg EXCEPT ![n].model = TRUE], env, n)

\* build_embedded_brain: cloud is a name, or none after the bare "embedded".
EmbeddedBrain(cfg, env, loads, cloud) ==
  IF ~loads THEN <<>>
  ELSE LET side == FlattenSeq([i \in DOMAIN cloud |-> EmbeddedCloud(cfg, env, cloud[i])])
       IN IF side = <<>> THEN Brain("local", Engine, Engine)
                         ELSE Brain("dual", Engine, side)

\* main: which of the two builds the brain.
BrainOf(cfg, env, loads, halves) ==
  IF halves = <<>> THEN <<>>
  ELSE IF halves[1] = <<"embedded">>
       THEN EmbeddedBrain(cfg, env, loads, IF Len(halves) = 2 THEN halves[2] ELSE <<>>)
       ELSE DualBrain(cfg, env, halves)

\* Who answers a task: the side its brain gives it to, or the default chain.
Answering(cfg, env, loads, halves, priority, simple) ==
  LET brain == BrainOf(cfg, env, loads, halves)
  IN IF brain = <<>> THEN Helper(cfg, env, priority)
     ELSE IF brain[1].mode = "local" \/ (brain[1].mode = "dual" /\ simple)
          THEN brain[1].local ELSE brain[1].cloud

-----------------------------------------------------------------------------
(* What every configuration of three names must give. *)

Named == {"anthropic", "groq", "local"}
Cfgs == [Named -> Entry \cup {NoEntry}]
Lists == {<<"local">>, <<"anthropic">>, <<"groq", "local">>}
SplitBrains == {<<a>> : a \in Lists} \cup { <<a, b>> : a, b \in Lists }
Envs == SUBSET {"anthropic", "groq"}

Usable(cfg, env, n) == ByName(cfg, env, n) # <<>>

\* A brain exists when the first half names something usable; then neither
\* side is empty, so that a task always has somebody to ask, and each side
\* asks the usable names in the order they were given.
BrainComplete ==
  \A cfg \in Cfgs, env \in Envs, halves \in SplitBrains :
    LET brain == DualBrain(cfg, env, halves)
    IN /\ brain = <<>> <=> \A i \in DOMAIN halves[1] : ~Usable(cfg, env, halves[1][i])
       /\ brain # <<>> =>
            /\ brain[1].local # <<>> /\ brain[1].cloud # <<>>
            /\ [i \in DOMAIN brain[1].local |-> brain[1].local[i].name] =
                 SelectSeq(halves[1], LAMBDA n : Usable(cfg, env, n))

\* The two builders agree on Anthropic.  Of the other names the helper sends
\* those with an endpoint of their own to localhost, without a key if there is
\* none, and takes a socket for a URL.
BuildersAgree ==
  \A cfg \in Cfgs, env \in Envs, n \in Named :
    LET named  == ByName(cfg, env, n)
        helped == HelperOne(cfg, env, n)
    IN \/ named = helped
       \/ cfg[n].url = "unix" /\ helped # named
       \/ /\ n \in Keyed \ {"anthropic"} /\ helped # <<>>
          /\ named = <<>> \/ (cfg[n].url = "none" /\ helped[1].url = "localhost")

ASSUME BrainCompleteAssumption == BrainComplete
ASSUME BuildersAgreeAssumption == BuildersAgree
=============================================================================
