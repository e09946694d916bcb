------------------------------ MODULE StartUp ------------------------------
(***************************************************************************)
(* The start of the agent: which tools its configuration and its device    *)
(* give it, which of them each way into the agent reaches, in what order   *)
(* the parts are opened and started, and what a part that fails takes with *)
(* it.                                                                     *)
(***************************************************************************)
EXTENDS Naturals, Sequences, SequencesExt, FiniteSets

(* Tools. *)

Backends == {"framework", "modem", "off"}
Devices == {"touchscreen", "uinput"}

\* resolve_modem: the modem and what the cache holds afterwards.  A path that
\* is configured is not probed; "none" forbids looking; a cached device that is
\* gone is forgotten.  The probe takes the first candidate that answers, and
\* the cache is only written if the data directory is there already: the first
\* start creates it later.
Candidates == <<"smd11", "smd1", "ttyUSB2">>

Probe(answering) ==
  LET found == SelectSeq(Candidates, LAMBDA d : d \in answering)
  IN IF found = <<>> THEN "none" ELSE Head(found)

ResolveModem(configured, cached, present, answering, dirThere) ==
  IF configured # "auto" THEN [modem |-> configured, cache |-> cached]
  ELSE IF cached \in present THEN [modem |-> cached, cache |-> cached]
  ELSE LET found == Probe(answering)
       IN [modem |-> found,
           cache |-> IF found # "none" /\ dirThere THEN found ELSE cached]

\* register_tools: switched tools need what they drive, the two of telephony a
\* backend; the rest is always there.
Switched == {"screenshot", "shell", "filesystem", "ui_inspect"}
Drives == [t \in {"touch", "key_event", "text_input"} |->
             IF t = "text_input" THEN "uinput" ELSE "touchscreen"]
Telephony == {"sms", "call"}
AlwaysThere == {"unlock_device", "package_manager", "sensors", "wifi", "audio", "draw",
                "web", "ocr", "audio_pcm", "stt", "gps", "telephony", "camera", "events"}

Registered(on, backend, modemOpens, devices) ==
  (Switched \cap on)
    \cup { t \in DOMAIN Drives : t \in on /\ Drives[t] \in devices }
    \cup { t \in Telephony : t \in on /\ (backend = "framework" \/ (backend = "modem" /\ modemOpens)) }
    \cup AlwaysThere

\* register_mcp_tools: the servers of the configuration one after the other; one
\* that does not connect is left out, and a name two of them offer is the later
\* one's.  A client lives as long as a tool of its is registered: main drops its
\* own reference at once, and the last one dropped kills the server.
Offering(servers, tool) ==
  { i \in DOMAIN servers : servers[i].connects /\ tool \in servers[i].tools }

McpTools(servers) ==
  LET offered == UNION { servers[i].tools : i \in { i \in DOMAIN servers : servers[i].connects } }
  IN [t \in offered |->
        CHOOSE i \in Offering(servers, t) : \A j \in Offering(servers, t) : j <= i]

McpAlive(servers) == { McpTools(servers)[t] : t \in DOMAIN McpTools(servers) }

\* The registry maps a name to the tool registered last: those of the stores,
\* then those of MCP servers, then bg.
OfStores == {"memory", "brain", "research", "plan", "skills"}

Registry(builtin, mcp) ==
  [t \in builtin \cup OfStores \cup mcp \cup {"bg"} |->
     IF t = "bg" THEN "own" ELSE IF t \in mcp THEN "mcp" ELSE "own"]

\* narrow_to: what the bot of Telegram is given; no list, or an empty one, is
\* everything.
NarrowTo(tools, allowed) == IF allowed = {} THEN tools ELSE tools \cap allowed

\* A job that bg starts works with the whole registry: its handle was set to it.
Reach(given, tools) == IF "bg" \in given THEN tools ELSE given

-----------------------------------------------------------------------------
(* Parts. *)

Step(part, uses, fails) == [part |-> part, uses |-> uses, fails |-> fails]

\* main, in order: a part that fails ends the start, or is left out, or the
\* step cannot fail.
Order ==
  << Step("config",     {},                                          "end"),
     Step("tools",      {"config"},                                  "no"),
     Step("data_dir",   {"config"},                                  "end"),
     Step("memory",     {"data_dir"},                                "end"),
     Step("brain_db",   {"data_dir"},                                "end"),
     Step("skills",     {"data_dir"},                                "end"),
     Step("user_model", {"data_dir"},                                "no"),
     Step("motivation", {"data_dir"},                                "no"),
     Step("mcp",        {"tools"},                                   "out"),
     Step("brain",      {"config"},                                  "out"),
     Step("bg_db",      {"data_dir"},                                "end"),
     Step("registry",   {"tools", "memory", "skills", "bg_db"},      "no"),
     Step("bg_resume",  {"registry", "bg_db", "memory", "skills"},   "no"),
     Step("reflector",  {"memory"},                                  "out"),
     Step("queue",      {"registry", "memory", "skills", "user_model", "motivation"}, "no"),
     Step("gardener",   {"memory", "bg_db"},                         "no"),
     Step("calls",      {"memory"},                                  "out"),
     Step("life_loop",  {"queue", "memory", "motivation"},           "no"),
     Step("bot",        {"registry", "brain_db", "bg_db"},           "no"),
     Step("scheduler",  {"registry", "memory"},                      "no"),
     Step("port",       {"queue", "life_loop"},                      "end") >>

\* What has been started when the parts of failing fail.
Ends(failing) == { i \in DOMAIN Order : Order[i].fails = "end" /\ Order[i].part \in failing }

Reached(failing) ==
  IF Ends(failing) = {} THEN Order
  ELSE SubSeq(Order, 1, (CHOOSE i \in Ends(failing) : \A j \in Ends(failing) : i <= j) - 1)

Started(failing) ==
  { s.part : s \in { s \in ToSet(Reached(failing)) : s.fails = "no" \/ s.part \notin failing } }

Serves(failing) == "port" \in Started(failing)

\* [telegram]: the bot and the notifier of bg ask for a token and for users,
\* the sender of the scheduler does not.
Telegram == [token : BOOLEAN, users : BOOLEAN]
BotStarts(tg) == tg.token /\ tg.users
BgNotifies(tg) == tg.token /\ tg.users
ScheduleSends(tg) == tg \in Telegram

-----------------------------------------------------------------------------
(* What every start must give. *)

Fallible == { s.part : s \in { s \in ToSet(Order) : s.fails # "no" } }

\* Nothing runs without what it uses, whatever else failed; a start that ends
\* with an error has nothing at work, except that the port is bound last: jobs
\* and loops that run already then end with the process.
Working == {"bg_resume", "life_loop", "bot", "scheduler", "gardener", "calls"}

StartsInOrder ==
  \A failing \in SUBSET Fallible :
    /\ \A s \in ToSet(Order) : s.part \in Started(failing) => s.uses \subseteq Started(failing)
    /\ Started(failing) \cap Working # {} => Serves(failing) \/ "port" \in failing
    /\ Serves(failing) <=> \A s \in ToSet(Order) : s.fails = "end" => s.part \notin failing

Tools == {"shell", "sms", "web", "bg", "memory"}

\* A bot that is given a list reaches no more than the list, unless bg is on
\* it; a name on the list may be an MCP server's tool that took it over.
ListHolds ==
  \A on \in SUBSET {"shell", "sms"}, mcp \in SUBSET {"shell", "web"}, allowed \in SUBSET Tools :
    LET tools == Registry(Registered(on, "framework", FALSE, {}), mcp)
        bot   == NarrowTo(DOMAIN tools, allowed)
    IN allowed # {} =>
         /\ Reach(bot, DOMAIN tools) \subseteq allowed \/ "bg" \in allowed
         /\ \A t \in Tools \cap bot : tools[t] = "mcp" => t \in mcp
         /\ "sms" \in Reach(bot, DOMAIN tools) => "sms" \in on

\* A server that fails takes nothing with it but its own tools: the others offer
\* what they would without it, each tool by a server that connected and is alive.
Servers == [connects : BOOLEAN, tools : SUBSET {"web", "shell"}]
Failing(server) == [server EXCEPT !.connects = FALSE]

ServersIndependent ==
  \A servers \in BoundedSeq(Servers, 3) :
    LET tools == McpTools(servers)
    IN /\ \A t \in DOMAIN tools :
            servers[tools[t]].connects /\ tools[t] \in McpAlive(servers)
       /\ \A i \in DOMAIN servers :
            LET without == McpTools([servers EXCEPT ![i] = Failing(@)])
            IN /\ \A t \in DOMAIN without : without[t] = tools[t] \/ tools[t] = i
               /\ \A t \in DOMAIN tools \ DOMAIN without : tools[t] = i

\* A modem is only used if it is configured, or was there when it was cached,
\* or answers; one that answers is found again at the next start without a
\* probe, unless this start was the first.
ModemResolved ==
  \A configured \in {"auto", "none", "smd1"}, cached \in ToSet(Candidates) \cup {"none"},
     present \in SUBSET ToSet(Candidates), dirThere \in BOOLEAN :
    \A answering \in SUBSET present :
      LET now  == ResolveModem(configured, cached, present, answering, dirThere)
          next == ResolveModem(configured, now.cache, present, {}, TRUE)
      IN /\ now.modem \in {configured, "none"} \cup answering \cup (present \cap {cached})
         /\ next.modem = now.modem \/ ~dirThere

ASSUME StartsInOrderAssumption == StartsInOrder
ASSUME ListHoldsAssumption == ListHolds
ASSUME ServersIndependentAssumption == ServersIndependent
ASSUME ModemResolvedAssumption == ModemResolved
=============================================================================
