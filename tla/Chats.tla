------------------------------- MODULE Chats -------------------------------
(***************************************************************************)
(* The two chats with the agent: the page of the web interface, and the    *)
(* overlay app. Both post a prompt, listen to the events of its run, and   *)
(* continue the session that the run names at its end; the runs wait for   *)
(* each other in the task queue, and the sessions are rows of one store.   *)
(*                                                                         *)
(* A run is a number, and so is the session it opens. Of what a chat shows *)
(* only the runs it comes from are kept. An event is handled as it is      *)
(* sent; one the overlay has no room for is lost.                          *)
(***************************************************************************)
EXTENDS Naturals, FiniteSets, FiniteSetsExt

CONSTANTS
  Runs,         \* in the order of their prompts
  MaxVisits,    \* bound: sessions opened, left or deleted on the page
  MaxMishapsOfChats   \* bound: failed posts, streams and runs, lost events

ASSUME ChatsAssumption == Runs \subseteq Nat \ {0} /\ {MaxVisits, MaxMishapsOfChats} \subseteq Nat

NoRun == 0

VARIABLES
  runs,       \* [Runs]: "none", "queued", "running" or "ended"
  sender,     \* [Runs]: "page" or "overlay"
  session,    \* [Runs]: the session it is to continue, then the one it has
  told,       \* runs whose "done" reached the sender
  store,      \* the sessions with a row
  rows,       \* [Runs]: the runs with messages in the session
  deleting,   \* the session whose messages are deleted, and its row not yet
  active,     \* the page: activeSessionId
  reading,    \* the run whose events it reads; busy if there is one
  shown,      \* the runs of which the list shows something
  cur,        \* the element of the text: "none", "here", or of an older list
  loads,      \* sessions asked for and not there yet
  crossed,    \* history: the user did not wait for the page
  sessionId,  \* the overlay's
  listens,    \* the runs whose events the overlay reads
  pose,       \* mascotPose; the blinking of an idle one is left out
  early,      \* history: a prompt was sent before an earlier one was answered
  visits, mishaps   \* bounds

serverVars  == <<runs, sender, session, told, store, rows, deleting>>
pageVars    == <<active, reading, shown, cur, loads, crossed, visits>>
overlayVars == <<sessionId, listens, pose, early>>
chatVars    == <<serverVars, pageVars, overlayVars, mishaps>>

ChatsTypeOK ==
  /\ runs \in [Runs -> {"none", "queued", "running", "ended"}]
  /\ sender \in [Runs -> {"page", "overlay"}] /\ session \in [Runs -> Runs \cup {NoRun}]
  /\ told \subseteq Runs /\ store \subseteq Runs /\ rows \in [Runs -> SUBSET Runs]
  /\ {deleting, active, reading, sessionId} \subseteq Runs \cup {NoRun}
  /\ shown \subseteq Runs /\ cur \in {"none", "here", "older"} /\ loads \subseteq Runs
  /\ {crossed, early} \subseteq BOOLEAN /\ listens \subseteq Runs
  /\ pose \in {"Idle", "Thinking"}
  /\ visits \in 0..MaxVisits /\ mishaps \in 0..MaxMishapsOfChats

ChatsInit ==
  /\ runs = [r \in Runs |-> "none"] /\ sender = [r \in Runs |-> "page"]
  /\ session = [r \in Runs |-> NoRun] /\ told = {} /\ store = {}
  /\ rows = [r \in Runs |-> {}] /\ deleting = NoRun
  /\ active = NoRun /\ reading = NoRun /\ shown = {} /\ cur = "none" /\ loads = {}
  /\ crossed = FALSE /\ visits = 0
  /\ sessionId = NoRun /\ listens = {}
  /\ pose = "Idle" /\ early = FALSE /\ mishaps = 0

Mishap == mishaps < MaxMishapsOfChats /\ mishaps' = mishaps + 1
Fresh(r) == runs[r] = "none" /\ \A q \in Runs : q < r => runs[q] # "none"

-----------------------------------------------------------------------------
(* The page.                                                               *)

\* send: the prompt is shown and posted with the active session; a post that
\* fails is shown too.
PageSend(r) ==
  /\ reading = NoRun /\ Fresh(r)
  /\ sender' = [sender EXCEPT ![r] = "page"] /\ session' = [session EXCEPT ![r] = active]
  /\ shown' = shown \cup {r} /\ cur' = "none"
  /\ crossed' = (crossed \/ loads # {})
  /\ \/ runs' = [runs EXCEPT ![r] = "queued"] /\ reading' = r /\ UNCHANGED mishaps
     \/ runs' = [runs EXCEPT ![r] = "ended"] /\ Mishap /\ UNCHANGED reading
  /\ UNCHANGED <<told, store, rows, deleting, active, loads, visits, overlayVars>>

Visit ==
  /\ visits < MaxVisits /\ visits' = visits + 1
  /\ cur' = IF cur = "here" THEN "older" ELSE cur

Waiting == reading # NoRun \/ loads # {}

\* loadSession: the session is active from now on, its messages come later.
LoadSession(s) ==
  /\ s \in store /\ Visit
  /\ active' = s /\ shown' = {} /\ loads' = loads \cup {s} /\ crossed' = Waiting
  /\ UNCHANGED <<serverVars, reading, overlayVars, mishaps>>

\* ... and take the place of whatever the list holds by then.
Loaded(s) ==
  /\ s \in loads /\ loads' = loads \ {s}
  /\ shown' = rows[s] /\ cur' = IF cur = "here" THEN "older" ELSE cur
  /\ UNCHANGED <<serverVars, active, reading, crossed, visits, overlayVars, mishaps>>

NewChat ==
  /\ Visit /\ active' = NoRun /\ shown' = {} /\ crossed' = Waiting
  /\ UNCHANGED <<serverVars, reading, loads, overlayVars, mishaps>>

\* delete_session: first the messages, then the row.
DeleteMessages(s) ==
  /\ s \in store /\ deleting = NoRun /\ visits < MaxVisits
  /\ deleting' = s /\ rows' = [rows EXCEPT ![s] = {}] /\ crossed' = (crossed \/ Waiting)
  /\ UNCHANGED <<runs, sender, session, told, store, active, reading, shown, cur, loads, visits,
                 overlayVars, mishaps>>

\* The row stays if a message refers to it again; delSession looks at no status.
DeleteRow ==
  /\ deleting # NoRun /\ deleting' = NoRun
  /\ store' = IF rows[deleting] = {} THEN store \ {deleting} ELSE store
  /\ IF active = deleting THEN Visit /\ active' = NoRun /\ shown' = {}
     ELSE UNCHANGED <<active, shown, cur, visits>>
  /\ crossed' = (crossed \/ Waiting)
  /\ UNCHANGED <<runs, sender, session, told, rows, reading, loads, overlayVars, mishaps>>

-----------------------------------------------------------------------------
(* The overlay.                                                            *)

\* ChatController.send: it waits for no earlier reply.
OverlaySend(r) ==
  /\ Fresh(r) /\ runs' = [runs EXCEPT ![r] = "queued"]
  /\ sender' = [sender EXCEPT ![r] = "overlay"] /\ session' = [session EXCEPT ![r] = sessionId]
  /\ listens' = listens \cup {r} /\ pose' = "Thinking" /\ early' = (early \/ listens # {})
  /\ UNCHANGED <<told, store, rows, deleting, pageVars, sessionId, mishaps>>

-----------------------------------------------------------------------------
(* The events of a run: run_task of the API, processSSE of the page,       *)
(* PekoClient and the collector of the overlay.                            *)

Heard(r) == reading = r \/ r \in listens

\* text_delta: into the element of the text, or into a new one.
PageText(r) ==
  IF cur = "none" THEN shown' = shown \cup {r} /\ cur' = "here" ELSE UNCHANGED <<shown, cur>>

\* tool_start, tool_result, error, and the badge of done: a new element.
PageElement(r) == shown' = shown \cup {r} /\ cur' = "none"

Text(r) ==
  /\ runs[r] = "running" /\ reading = r /\ PageText(r)
  /\ UNCHANGED <<serverVars, active, reading, loads, crossed, visits, overlayVars, mishaps>>

\* The end of the events, with or without a "done" before it.
Closed(r) ==
  /\ runs' = [runs EXCEPT ![r] = "ended"] /\ listens' = listens \ {r}
  /\ reading' = IF reading = r THEN NoRun ELSE reading

\* A reply or a result is stored before what follows is sent: a run whose
\* session was deleted ends.
ToolEvent(r) ==
  /\ runs[r] = "running"
  /\ IF session[r] \in store
     THEN /\ rows' = [rows EXCEPT ![session[r]] = @ \cup {r}]
          /\ IF reading = r THEN PageElement(r) ELSE UNCHANGED <<shown, cur>>
          /\ UNCHANGED <<runs, listens, reading>>
     ELSE Closed(r) /\ UNCHANGED <<rows, shown, cur>>
  /\ UNCHANGED <<sender, session, told, store, deleting, active, loads, crossed, visits, sessionId,
                 pose, early, mishaps>>

\* A slip of RunDone: the page does not take the session over.
DoneOnce(r) ==
  /\ runs[r] = "running" /\ Closed(r) /\ told' = told \cup {r}
  /\ IF reading = r THEN PageElement(r) /\ UNCHANGED active ELSE UNCHANGED <<shown, cur, active>>
  /\ IF r \in listens THEN sessionId' = session[r] /\ pose' = "Idle" ELSE UNCHANGED <<sessionId, pose>>
  /\ UNCHANGED <<sender, session, store, rows, deleting, loads, crossed, visits, early, mishaps>>

\* done: the session to continue, and the mascot at rest, unless it is lost.
RunDone(r) ==
  /\ runs[r] = "running" /\ Closed(r)
  /\ IF reading = r THEN PageElement(r) /\ active' = session[r] ELSE UNCHANGED <<shown, cur, active>>
  /\ \/ /\ told' = IF Heard(r) THEN told \cup {r} ELSE told
        /\ IF r \in listens THEN sessionId' = session[r] /\ pose' = "Idle"
           ELSE UNCHANGED <<sessionId, pose>>
        /\ UNCHANGED mishaps
     \/ r \in listens /\ Mishap /\ UNCHANGED <<told, sessionId, pose>>
  /\ UNCHANGED <<sender, session, store, rows, deleting, loads, crossed, visits, early>>

\* execute_task returns an error: the events end without a word.
RunFails(r) ==
  /\ runs[r] = "running" /\ Mishap /\ Closed(r)
  /\ UNCHANGED <<sender, session, told, store, rows, deleting, active, shown, cur, loads, crossed, visits,
                 sessionId, pose, early>>

\* The stream breaks: the reader says so; the run goes on.
Broken(r) ==
  /\ Heard(r) /\ Mishap
  /\ IF reading = r THEN shown' = shown \cup {r} /\ reading' = NoRun ELSE UNCHANGED <<shown, reading>>
  /\ IF r \in listens
     THEN listens' = listens \ {r} /\ pose' = "Idle"
     ELSE UNCHANGED <<listens, pose>>
  /\ UNCHANGED <<serverVars, active, cur, loads, crossed, visits, sessionId, early>>

\* The executor takes the next task: a session of its own, or the one it was
\* given; without a row for it the first message cannot be stored.
Execute(r) ==
  /\ runs[r] = "queued" /\ \A q \in Runs : runs[q] # "running" /\ (runs[q] = "queued" => r <= q)
  /\ LET s == IF session[r] = NoRun THEN r ELSE session[r]
     IN /\ session' = [session EXCEPT ![r] = s]
        /\ store' = IF session[r] = NoRun THEN store \cup {s} ELSE store
        /\ IF s \in store'
           THEN /\ runs' = [runs EXCEPT ![r] = "running"] /\ rows' = [rows EXCEPT ![s] = @ \cup {r}]
                /\ UNCHANGED <<listens, reading>>
           ELSE Closed(r) /\ UNCHANGED rows
  /\ UNCHANGED <<sender, told, deleting, active, shown, cur, loads, crossed, visits, sessionId, pose,
                 early, mishaps>>

ChatsNext ==
  \/ NewChat \/ DeleteRow
  \/ \E s \in Runs : LoadSession(s) \/ Loaded(s) \/ DeleteMessages(s)
  \/ \E r \in Runs : \/ PageSend(r) \/ OverlaySend(r) \/ Execute(r) \/ Text(r) \/ ToolEvent(r)
                     \/ RunDone(r) \/ RunFails(r) \/ Broken(r)

ChatsSpec == ChatsInit /\ [][ChatsNext]_chatVars

-----------------------------------------------------------------------------
\* At rest the page shows what belongs to the session the next prompt goes to,
\* and all it sent there itself, as long as the user waited for replies and
\* for sessions; a run that never said which session it has may be among it.
PageFollows ==
  ~Waiting /\ ~crossed /\ deleting = NoRun =>
    /\ \A r \in shown \cap told : session[r] = active
    /\ active # NoRun => {r \in rows[active] \cap told : sender[r] = "page"} \subseteq shown

\* The overlay's prompts are of one session, unless one was sent before an
\* earlier one was answered; and the mascot thinks only as long as a run does,
\* or for ever after one that ended without a word ("stick to one so the agent
\* keeps context", ChatController.kt:61).
OverlayFollows ==
  LET own == {r \in Runs : sender[r] = "overlay" /\ runs[r] # "none"}
  IN /\ ~early => \A r, q \in own \cap told : session[r] = session[q]
     /\ pose = "Thinking" => listens # {} \/ own \ told # {}

\* Both chats go on where the user left off, whatever runs in between.
ChatsFollow == PageFollows /\ OverlayFollows
=============================================================================
