------------------------------- MODULE Screen -------------------------------
(***************************************************************************)
(* One display and several agent runs that use it at the same time: tasks  *)
(* of the queue, background jobs, chats. Every UI tool first wakes the     *)
(* phone (ensure_awake); touch then makes a gesture, unlock_device types   *)
(* the PIN once more. The other tools go on with a single command.         *)
(*                                                                         *)
(* The touch tool keeps its input device behind a mutex; the swipe that    *)
(* dismisses the keyguard opens a device of its own. Both write to slot 0  *)
(* of the same panel. The PIN is typed like any text: where it ends up is  *)
(* for the phone to say.                                                   *)
(***************************************************************************)
EXTENDS Naturals

CONSTANTS
  Hands,        \* the agent runs
  MaxUses,      \* bound: tools called
  MaxTouches    \* bound: what the user or the phone does, and what fails

ASSUME ScreenAssumption == Hands \subseteq Nat \ {0} /\ {MaxUses, MaxTouches} \subseteq Nat

NoHand == 0

VARIABLES
  secure,     \* the phone has a credential
  pin,        \* LOCK_PIN
  awake,      \* mWakefulness
  keyguard,   \* "up", "pad" (it asks for the PIN) or "gone"
  pad,        \* how often the PIN stands on the pad
  finger,     \* whose contact slot 0 has
  device,     \* who holds the touch tool's device
  prober,     \* who holds display_probed
  probed,     \* display_probed
  scaled,     \* display_size of the touch tool's device
  tool, step, \* [Hands]: the tool in use, and where it is
  typed,      \* history: typed the PIN into an app while waking the phone
  met,        \* history: another came between, or a step failed, since it looked
  unprobed,   \* history: the display's size could not be told
  stuck,      \* history: a gesture failed with the finger down
  uses, troublesome   \* bounds

phone      == <<secure, awake, keyguard, pad>>
touchTool  == <<device, prober, probed, scaled, unprobed>>
bounds     == <<uses, troublesome>>
screenVars == <<phone, touchTool, pin, finger, tool, step, typed, met, stuck, bounds>>

Steps == {"none", "look", "wake", "swipe", "lift", "digits", "enter", "probe", "probing", "gesture",
          "touched", "again", "submit", "focus"}

ScreenTypeOK ==
  /\ {secure, pin, awake, probed, scaled, unprobed, stuck} \subseteq BOOLEAN
  /\ keyguard \in {"up", "pad", "gone"} /\ pad \in 0..MaxUses * 2
  /\ {finger, device, prober} \subseteq Hands \cup {NoHand}
  /\ tool \in [Hands -> {"touch", "unlock"}] /\ step \in [Hands -> Steps]
  /\ typed \subseteq Hands /\ met \subseteq Hands
  /\ uses \in 0..MaxUses /\ troublesome \in 0..MaxTouches

ScreenInit ==
  /\ secure \in BOOLEAN /\ pin \in BOOLEAN
  /\ \/ awake = FALSE /\ keyguard = "up"
     \/ awake = TRUE /\ keyguard \in {"up", "gone"}
  /\ pad = 0 /\ finger = NoHand /\ device = NoHand /\ prober = NoHand
  /\ probed = FALSE /\ scaled = FALSE /\ unprobed = FALSE /\ stuck = FALSE
  /\ tool = [h \in Hands |-> "touch"] /\ step = [h \in Hands |-> "none"]
  /\ typed = {} /\ met = {} /\ uses = 0 /\ troublesome = 0

Trouble == troublesome < MaxTouches /\ troublesome' = troublesome + 1
GoTo(h, s) == step' = [step EXCEPT ![h] = s]

\* What h does comes between the steps of others: a gesture between the two
\* halves of another, keys anywhere between a look and the last key.
Waking   == {"wake", "swipe", "lift", "digits", "enter"}
Meets(h, S) == met' = met \cup {g \in Hands \ {h} : step[g] \in S}

-----------------------------------------------------------------------------
(* ensure_awake.                                                           *)

Call(h) ==
  /\ step[h] = "none" /\ uses < MaxUses /\ uses' = uses + 1
  /\ \E t \in {"touch", "unlock"} : tool' = [tool EXCEPT ![h] = t]
  /\ GoTo(h, "look") /\ typed' = typed \ {h} /\ met' = met \ {h}
  /\ UNCHANGED <<phone, touchTool, pin, finger, stuck, troublesome>>

\* After waking, or at once on a phone that is awake, locked or not.
Woken(h) == GoTo(h, IF tool[h] = "touch" THEN "probe" ELSE "again")

Look(h) ==
  /\ step[h] = "look"
  /\ IF awake THEN Woken(h) ELSE GoTo(h, "wake")
  /\ UNCHANGED <<phone, touchTool, pin, finger, tool, typed, met, stuck, bounds>>

\* The poll for Awake ends with its time, if not before.
Wake(h) ==
  /\ step[h] = "wake" /\ GoTo(h, "swipe")
  /\ \/ awake' = TRUE /\ UNCHANGED <<met, troublesome>>
     \/ Trouble /\ met' = met \cup {h} /\ UNCHANGED awake
  /\ UNCHANGED <<secure, keyguard, pad, touchTool, pin, finger, tool, typed, stuck, uses>>

\* raw_unlock_swipe: its result is not looked at.
SwipeDown(h) ==
  /\ step[h] = "swipe"
  /\ \/ finger' = h /\ GoTo(h, "lift") /\ Meets(h, {"lift"}) /\ UNCHANGED troublesome
     \/ Trouble /\ met' = met \cup {h} /\ GoTo(h, "digits") /\ UNCHANGED finger
  /\ UNCHANGED <<phone, touchTool, pin, tool, typed, stuck, uses>>

\* The slot's contact ends, whoever's it is by then; two gestures that were
\* mixed may or may not make a swipe. A write that fails leaves it there.
SwipeUp(h) ==
  /\ step[h] = "lift" /\ GoTo(h, "digits")
  /\ \/ /\ finger' = NoHand /\ stuck' = FALSE /\ Meets(h, {"lift"}) /\ UNCHANGED troublesome
        /\ \/ awake /\ keyguard = "up" /\ keyguard' = IF secure THEN "pad" ELSE "gone"
           \/ (awake /\ keyguard = "up" => finger # h) /\ UNCHANGED keyguard
     \/ /\ Trouble /\ stuck' = (finger # NoHand) /\ met' = met \cup {h}
        /\ UNCHANGED <<finger, keyguard>>
  /\ UNCHANGED <<secure, awake, pad, touchTool, pin, tool, typed, uses>>

\* input text: on the pad, into the app in front, or nowhere.
TypePin ==
  pad' = IF awake /\ keyguard = "pad" THEN pad + 1 ELSE pad

\* ... and KEYCODE_ENTER: the pad is cleared, and open if the PIN stood there
\* once.
PressEnter ==
  /\ keyguard' = IF awake /\ keyguard = "pad" /\ pad = 1 THEN "gone" ELSE keyguard
  /\ pad' = IF awake THEN 0 ELSE pad

Digits(h) ==
  /\ step[h] = "digits"
  /\ IF pin THEN /\ TypePin /\ GoTo(h, "enter") /\ Meets(h, Waking)
                 /\ typed' = IF awake /\ keyguard = "gone" THEN typed \cup {h} ELSE typed
     ELSE Woken(h) /\ UNCHANGED <<pad, typed, met>>
  /\ UNCHANGED <<secure, awake, keyguard, touchTool, pin, finger, tool, stuck, bounds>>

Enter(h) ==
  /\ step[h] = "enter" /\ PressEnter /\ Woken(h) /\ Meets(h, Waking)
  /\ UNCHANGED <<secure, awake, touchTool, pin, finger, tool, typed, stuck, bounds>>

-----------------------------------------------------------------------------
(* The touch tool.                                                         *)

\* A slip of Probe: the lock is given back before the size is known.
ProbeUnlocked(h) ==
  /\ step[h] = "probe" /\ probed' = TRUE
  /\ GoTo(h, IF probed THEN "gesture" ELSE "probing")
  /\ UNCHANGED <<phone, device, prober, scaled, unprobed, pin, finger, tool, typed, met, stuck, bounds>>

\* wm size is asked once: the next caller waits for the answer.
Probe(h) ==
  /\ step[h] = "probe" /\ prober = NoHand
  /\ IF probed THEN GoTo(h, "gesture") /\ UNCHANGED <<prober, probed>>
     ELSE GoTo(h, "probing") /\ prober' = h /\ probed' = TRUE
  /\ UNCHANGED <<phone, device, scaled, unprobed, pin, finger, tool, typed, met, stuck, bounds>>

\* Without an answer taps are never scaled.
ProbeEnds(h) ==
  /\ step[h] = "probing" /\ GoTo(h, "gesture") /\ prober' = NoHand
  /\ \/ device = NoHand /\ scaled' = TRUE /\ UNCHANGED <<unprobed, troublesome>>
     \/ Trouble /\ unprobed' = TRUE /\ UNCHANGED scaled
  /\ UNCHANGED <<phone, device, probed, pin, finger, tool, typed, met, stuck, uses>>

\* tap, long_press and swipe: the finger goes down ...
TouchDown(h) ==
  /\ step[h] = "gesture" /\ device = NoHand
  /\ device' = h /\ finger' = h /\ GoTo(h, "touched") /\ Meets(h, {"lift"})
  /\ UNCHANGED <<phone, prober, probed, scaled, unprobed, pin, tool, typed, stuck, bounds>>

\* ... and up. A write that fails on the way ends the tool with an error.
TouchUp(h) ==
  /\ step[h] = "touched" /\ GoTo(h, "none") /\ device' = NoHand /\ Meets(h, {"lift"})
  /\ \/ finger' = NoHand /\ stuck' = FALSE /\ UNCHANGED troublesome
     \/ Trouble /\ stuck' = (finger # NoHand) /\ UNCHANGED finger
  /\ UNCHANGED <<phone, prober, probed, scaled, unprobed, pin, tool, typed, uses>>

-----------------------------------------------------------------------------
(* unlock_device: enter_pin_now after ensure_awake, then a look at what    *)
(* has the focus.                                                          *)

Again(h) ==
  /\ step[h] = "again"
  /\ IF pin THEN TypePin /\ GoTo(h, "submit") /\ Meets(h, Waking)
     ELSE GoTo(h, "focus") /\ UNCHANGED <<pad, met>>
  /\ UNCHANGED <<secure, awake, keyguard, touchTool, pin, finger, tool, typed, stuck, bounds>>

Submit(h) ==
  /\ step[h] = "submit" /\ PressEnter /\ GoTo(h, "focus") /\ Meets(h, Waking)
  /\ UNCHANGED <<secure, awake, touchTool, pin, finger, tool, typed, stuck, bounds>>

Focus(h) ==
  /\ step[h] = "focus" /\ GoTo(h, "none")
  /\ UNCHANGED <<phone, touchTool, pin, finger, tool, typed, met, stuck, bounds>>

-----------------------------------------------------------------------------
(* The phone and its user.                                                 *)

Disturbed == met' = met \cup {h \in Hands : step[h] # "none"}

UserOpens ==
  /\ Trouble /\ Disturbed /\ awake' = TRUE /\ keyguard' = "gone" /\ pad' = 0
  /\ UNCHANGED <<secure, touchTool, pin, finger, tool, step, typed, stuck, uses>>

FallsAsleep ==
  /\ Trouble /\ Disturbed /\ awake' = FALSE /\ keyguard' = "up" /\ pad' = 0
  /\ UNCHANGED <<secure, touchTool, pin, finger, tool, step, typed, stuck, uses>>

\* set_lock_pin, from the configuration page.
SetLockPin ==
  /\ Trouble /\ Disturbed /\ pin' = ~pin
  /\ UNCHANGED <<phone, touchTool, finger, tool, step, typed, stuck, uses>>

ScreenNext ==
  \/ UserOpens \/ FallsAsleep \/ SetLockPin
  \/ \E h \in Hands : \/ Call(h) \/ Look(h) \/ Wake(h) \/ SwipeDown(h) \/ SwipeUp(h) \/ Digits(h)
                      \/ Enter(h) \/ Probe(h) \/ ProbeEnds(h) \/ TouchDown(h) \/ TouchUp(h)
                      \/ Again(h) \/ Submit(h) \/ Focus(h)

ScreenSpec == ScreenInit /\ [][ScreenNext]_screenVars

-----------------------------------------------------------------------------
\* A run that wakes the phone opens it, if it can be opened, and types the PIN
\* into no app ("avoids typing into a focused TextField", screen_state.rs:208)
\* unless there is no credential: however many runs use the phone, as long as
\* no key of another and no gesture comes between its own.
WakesCleanly ==
  \A h \in Hands \ met :
    /\ h \in typed => ~secure
    /\ step[h] = "enter" => awake /\ keyguard # "up" /\ (secure => pad = 1)

\* No gesture is made before the display's size is known, unless it cannot be
\* told; and none leaves the finger on the glass, unless a write failed.
GesturesSound ==
  /\ \A h \in Hands : step[h] = "touched" => scaled \/ unprobed
  /\ (\A h \in Hands : step[h] \notin {"lift", "touched"}) => finger = NoHand \/ stuck

\* One display serves several runs.
DisplayShared == WakesCleanly /\ GesturesSound
=============================================================================
