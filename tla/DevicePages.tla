---------------------------- MODULE DevicePages ----------------------------
(***************************************************************************)
(* The pages about the device: the list of its apps, which the server      *)
(* keeps for a while, and the streams of its log and its messages, each    *)
(* fed by a logcat of its own.                                             *)
(*                                                                         *)
(* A list is known by the filter it was asked with and by when the package *)
(* manager was asked; the time it takes, and how long it is kept, are      *)
(* counted in ticks. Other browsers may ask as well.                          *)
(***************************************************************************)
EXTENDS Naturals, FiniteSets

CONSTANTS
  AppFilters,   \* "user", "system", "all"
  AppAsks,         \* requests for the list, in the order they are made
  Ttl,          \* APPS_CACHE_TTL
  MaxListing,   \* bound: how long a listing takes
  MaxTicks,     \* bound: of the clock
  EventSources,      \* the event sources the page opens, in order
  MaxBreaks     \* bound: connections that break

ASSUME PagesAssumption ==
  /\ "user" \in AppFilters /\ AppAsks \subseteq Nat \ {0}
  /\ IsFiniteSet(EventSources) /\ EventSources = 1..Cardinality(EventSources)
  /\ {Ttl, MaxListing, MaxTicks, MaxBreaks} \subseteq Nat

NoSource == 0
NoList    == [filter |-> "none", seen |-> 0, at |-> 0]

VARIABLES
  ticks,
  cache,      \* APPS_CACHE: the filter of the list, when it was seen and when stored
  answer,     \* [AppAsks]: "none", "asked", "listed", "sent" or "over"
  want,       \* [AppAsks]: its filter
  mine,       \* those of this page that are under way
  found,      \* [AppAsks]: when the list it gets was seen
  appFilter,  \* the page's
  allApps,    \* the list the page shows: filter, when seen and when shown
  newest,     \* history: the newest list it has shown
  overtaken,  \* history: one request of the page was made before an earlier one was over
  overlap,    \* history: two listings were under way at a time
  tab,        \* the page's tab
  msgES, logES,  \* the page's event sources
  open,       \* the event sources with a connection, of messages and of the log
  used,       \* the number of sources made
  strays,     \* logcats that write for nobody
  lost        \* history: a connection of messages broke

listVars   == <<ticks, cache, answer, want, mine, found, appFilter, allApps, newest, overtaken,
                overlap>>
sourceVars == <<tab, msgES, logES, open, used, strays, lost>>
pagesVars  == <<listVars, sourceVars>>

AppLists == [filter : AppFilters \cup {"none"}, seen : 0..MaxTicks, at : 0..MaxTicks]

PagesTypeOK ==
  /\ {ticks, newest} \subseteq 0..MaxTicks /\ {cache, allApps} \subseteq AppLists
  /\ answer \in [AppAsks -> {"none", "asked", "listed", "sent", "over"}]
  /\ want \in [AppAsks -> AppFilters] /\ mine \subseteq AppAsks /\ found \in [AppAsks -> 0..MaxTicks]
  /\ appFilter \in AppFilters /\ {overtaken, overlap} \subseteq BOOLEAN
  /\ tab \in {"messages", "monitor", "chat"} /\ {msgES, logES} \subseteq EventSources \cup {NoSource}
  /\ open \in [{"messages", "log"} -> SUBSET EventSources] /\ used \in 0..Cardinality(EventSources)
  /\ {strays, lost} \subseteq 0..MaxBreaks + Cardinality(EventSources)

PagesInit ==
  /\ ticks = 0 /\ cache = NoList /\ allApps = NoList /\ newest = 0
  /\ answer = [r \in AppAsks |-> "none"] /\ mine = {} /\ found = [r \in AppAsks |-> 0]
  /\ appFilter = "user" /\ want = [r \in AppAsks |-> "user"]
  /\ overtaken = FALSE /\ overlap = FALSE
  /\ tab = "chat" /\ msgES = NoSource /\ logES = NoSource
  /\ open = [k \in {"messages", "log"} |-> {}] /\ used = 0 /\ strays = 0 /\ lost = 0

-----------------------------------------------------------------------------
(* The list of apps.                                                       *)

NextAsk(r) == answer[r] = "none" /\ \A q \in AppAsks : q < r => answer[q] # "none"

\* loadApps, for the tab, for another filter or after an uninstall; or another
\* browser's.
LoadApps(r) ==
  /\ NextAsk(r) /\ answer' = [answer EXCEPT ![r] = "asked"]
  /\ \E f \in AppFilters :
       /\ want' = [want EXCEPT ![r] = f]
       /\ \/ /\ appFilter' = f /\ mine' = mine \cup {r}
             /\ overtaken' = (overtaken \/ mine # {})
          \/ UNCHANGED <<appFilter, mine, overtaken>>
  /\ UNCHANGED <<ticks, cache, found, allApps, newest, overlap, sourceVars>>

StillKept(f) == cache.filter = f /\ ticks - cache.at < Ttl

\* A slip of Hit: the list is kept whatever its age.
HitOld(r) ==
  /\ answer[r] = "asked" /\ cache.filter = want[r]
  /\ answer' = [answer EXCEPT ![r] = "sent"] /\ found' = [found EXCEPT ![r] = cache.seen]
  /\ UNCHANGED <<ticks, cache, want, mine, appFilter, allApps, newest, overtaken, overlap,
                 sourceVars>>

Hit(r) ==
  /\ answer[r] = "asked" /\ StillKept(want[r])
  /\ answer' = [answer EXCEPT ![r] = "sent"] /\ found' = [found EXCEPT ![r] = cache.seen]
  /\ UNCHANGED <<ticks, cache, want, mine, appFilter, allApps, newest, overtaken, overlap,
                 sourceVars>>

\* The lock is given back before the package manager is asked: nothing keeps a
\* second request from asking too.
ListPackages(r) ==
  /\ answer[r] = "asked" /\ ~StillKept(want[r])
  /\ answer' = [answer EXCEPT ![r] = "listed"] /\ found' = [found EXCEPT ![r] = ticks]
  /\ overlap' = (overlap \/ \E q \in AppAsks : answer[q] = "listed")
  /\ UNCHANGED <<ticks, cache, want, mine, appFilter, allApps, newest, overtaken, sourceVars>>

\* Labels, versions and icons are looked up, app by app; what is stored then is
\* as fresh as the moment.
StoreList(r) ==
  /\ answer[r] = "listed" /\ answer' = [answer EXCEPT ![r] = "sent"]
  /\ cache' = [filter |-> want[r], seen |-> found[r], at |-> ticks]
  /\ UNCHANGED <<ticks, want, mine, found, appFilter, allApps, newest, overtaken, overlap,
                 sourceVars>>

\* The page shows what comes, whichever filter is chosen by then.
ShowApps(r) ==
  /\ answer[r] = "sent" /\ answer' = [answer EXCEPT ![r] = "over"]
  /\ IF r \in mine
     THEN /\ allApps' = [filter |-> want[r], seen |-> found[r], at |-> ticks]
          /\ newest' = IF found[r] > newest THEN found[r] ELSE newest
     ELSE UNCHANGED <<allApps, newest>>
  /\ mine' = mine \ {r} /\ want' = [want EXCEPT ![r] = "user"] /\ found' = [found EXCEPT ![r] = 0]
  /\ UNCHANGED <<ticks, cache, appFilter, overtaken, overlap, sourceVars>>

\* Answers travel in no time, and a listing takes no longer than MaxListing.
PagesTick ==
  /\ ticks < MaxTicks /\ ticks' = ticks + 1
  /\ \A r \in AppAsks : answer[r] # "sent" /\ (answer[r] = "listed" => ticks - found[r] < MaxListing)
  /\ UNCHANGED <<cache, answer, want, mine, found, appFilter, allApps, newest, overtaken, overlap,
                 sourceVars>>

-----------------------------------------------------------------------------
(* The streams.                                                            *)

More == used < Cardinality(EventSources) /\ used' = used + 1
Opened(k) == [open EXCEPT ![k] = @ \cup {used + 1}]
Shut(k, s) == [open EXCEPT ![k] = @ \ {s}]

\* startMsgStream and toggleLogs: one button each, to open and to close.
StartMsgStream ==
  /\ tab = "messages"
  /\ IF msgES # NoSource
     THEN /\ msgES' = NoSource /\ open' = Shut("messages", msgES)
          /\ strays' = strays + 1 /\ UNCHANGED used
     ELSE More /\ msgES' = used + 1 /\ open' = Opened("messages") /\ UNCHANGED strays
  /\ UNCHANGED <<listVars, tab, logES, lost>>

ToggleLogs ==
  /\ tab = "monitor"
  /\ IF logES # NoSource
     THEN /\ logES' = NoSource /\ open' = Shut("log", logES)
          /\ strays' = strays + 1 /\ UNCHANGED used
     ELSE More /\ logES' = used + 1 /\ open' = Opened("log") /\ UNCHANGED strays
  /\ UNCHANGED <<listVars, tab, msgES, lost>>

\* showTab: the messages' stream starts with its tab, and both end with theirs.
ShowTab(t) ==
  /\ tab' = t /\ t # tab
  /\ LET closed == {s \in {msgES} : t # "messages"} \cup {s \in {logES} : t # "monitor"}
         rest   == [k \in {"messages", "log"} |-> open[k] \ closed]
     IN /\ strays' = strays + Cardinality(closed \ {NoSource})
        /\ logES' = IF t = "monitor" THEN logES ELSE NoSource
        /\ IF t = "messages" /\ msgES = NoSource
           THEN More /\ msgES' = used + 1 /\ open' = [rest EXCEPT !["messages"] = @ \cup {used + 1}]
           ELSE /\ msgES' = IF t = "messages" THEN msgES ELSE NoSource
                /\ open' = rest /\ UNCHANGED used
  /\ UNCHANGED <<listVars, lost>>

\* A connection breaks, or its logcat ends: the log is toggled; the messages'
\* source is only forgotten, and the browser connects it again.
Breaks(k, s) ==
  /\ s \in open[k] /\ lost < MaxBreaks /\ lost' = lost + 1 /\ strays' = strays + 1
  /\ IF k = "log"
     THEN logES' = NoSource /\ open' = Shut(k, s) /\ UNCHANGED msgES
     ELSE msgES' = NoSource /\ UNCHANGED <<logES, open>>
  /\ UNCHANGED <<listVars, tab, used>>

\* A logcat without a reader ends when it next has a line to write.
LogLine ==
  /\ strays > 0 /\ strays' = 0
  /\ UNCHANGED <<listVars, tab, msgES, logES, open, used, lost>>

AppsNext ==
  \/ PagesTick
  \/ \E r \in AppAsks : LoadApps(r) \/ Hit(r) \/ ListPackages(r) \/ StoreList(r) \/ ShowApps(r)

PageStreamsNext ==
  \/ StartMsgStream \/ ToggleLogs \/ LogLine
  \/ \E t \in {"messages", "monitor", "chat"} : ShowTab(t)
  \/ \E k \in {"messages", "log"} : \E s \in EventSources : Breaks(k, s)

PagesSpec == PagesInit /\ [][AppsNext \/ PageStreamsNext]_pagesVars

-----------------------------------------------------------------------------
\* The page shows the list of the filter that is chosen, unless it was asked
\* for another before the first came; no list is older when shown than the time
\* it is kept and the time a listing takes, and none goes back behind one shown
\* before, unless two listings overlapped ("on app install/uninstall the user
\* will see stale data for up to 30s", device.rs:501).
AppsFollow ==
  /\ mine = {} /\ ~overtaken /\ allApps # NoList => allApps.filter = appFilter
  /\ allApps.at - allApps.seen <= Ttl + MaxListing
  /\ ~overlap /\ ~overtaken => allApps.seen = newest

\* The page holds every stream it has open and none is open on another tab
\* ("Stop streams when leaving tabs", ui.rs:773), except for one of messages
\* for each connection that broke.
StreamsFollow ==
  /\ open["log"] \subseteq {logES} /\ (tab # "monitor" => open["log"] = {})
  /\ Cardinality(open["messages"] \ {msgES}) <= lost

\* What the device's pages show is what is chosen and open.
DeviceShown == AppsFollow /\ StreamsFollow
=============================================================================
