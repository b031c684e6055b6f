------------------------------- MODULE HeldKeys -------------------------------
(***************************************************************************)
(* A key's way from the finger to the PC: the on-screen keyboard that adds *)
(* the latched and the held modifiers to each key (KeyboardSession.kt),    *)
(* the messages it sends, each of which the network may lose, the server's *)
(* record of what is held (HeldInputs in sessions.rs), and the Linux       *)
(* backend that presses the modifiers before the key and releases them     *)
(* after it (os/linux/mod.rs, key_events).                                 *)
(*                                                                         *)
(* The server and the PC follow the messages that arrive one by one, so a  *)
(* message is handled when it is sent or never.  Time is a choice: a tap   *)
(* on a modifier is long, or a quick or a slow second one.  A chord of the *)
(* shortcut bar and text typed under a modifier are taps.                  *)
(***************************************************************************)
EXTENDS Naturals, FiniteSets

CONSTANTS
  Keys,       \* ordinary keys
  Mods,       \* modifier keys: ModifierKey on the phone, a bit in a message
  MaxLosses   \* bound: messages lost

ASSUME HeldKeysAssumption ==
  /\ Keys \cap Mods = {}
  /\ MaxLosses \in Nat

VARIABLES
  states,         \* KeyboardSession::states, how each modifier is latched
  held,           \* KeyboardSession::held, modifiers under a finger
  usedWhileHeld,  \* those a key has been pressed under
  fingers,        \* keys under a finger
  pc,             \* the server's record and the PC, see below
  losses,         \* messages lost so far
  gone,           \* the phone has vanished and the server has let go for it
  \* history, read by the properties only
  rolled,         \* a modifier was touched while a finger was on a key
  mismatch        \* the record of a key was dropped with modifiers not named

vars == <<states, held, usedWhileHeld, fingers, pc, losses, gone, rolled,
          mismatch>>

Usages == Keys \cup Mods

\* pc.keys and pc.mods are HeldInputs::keys: the usages recorded as held, and
\* the modifiers of the message that pressed each (none, when it is not held).
\* pc.down is what is down on the PC.
PCStates == [keys : SUBSET Usages, mods : [Usages -> SUBSET Mods],
             down : SUBSET Usages]

TypeOK ==
  /\ states \in [Mods -> {"OFF", "ARMED", "LOCKED"}]
  /\ held \subseteq Mods
  /\ usedWhileHeld \subseteq held
  /\ fingers \subseteq Keys
  /\ pc \in PCStates
  /\ losses \in 0..MaxLosses
  /\ gone \in BOOLEAN
  /\ rolled \in BOOLEAN
  /\ mismatch \in BOOLEAN

Init ==
  /\ states = [m \in Mods |-> "OFF"]
  /\ held = {}
  /\ usedWhileHeld = {}
  /\ fingers = {}
  /\ pc = [keys |-> {}, mods |-> [u \in Usages |-> {}], down |-> {}]
  /\ losses = 0
  /\ gone = FALSE
  /\ rolled = FALSE
  /\ mismatch = FALSE

-----------------------------------------------------------------------------
(* The PC: HeldInputs::observe, then the backend's key(). *)

\* A second press of the same key takes the place of the first.
ObservePress(s, usage, mods) ==
  [keys |-> s.keys \cup {usage}, mods |-> [s.mods EXCEPT ![usage] = mods], down |-> s.down]

\* Mutated form: only a release with the modifiers of the press counts.
ObserveExactRelease(s, usage, mods) ==
  IF s.mods[usage] = mods
  THEN [s EXCEPT !.keys = @ \ {usage}, !.mods[usage] = {}] ELSE s

\* The modifiers of a release do not matter to the record.
ObserveRelease(s, usage, mods) ==
  [keys |-> s.keys \ {usage}, mods |-> [s.mods EXCEPT ![usage] = {}], down |-> s.down]

KeyPress(s, usage, mods) ==
  [ObservePress(s, usage, mods) EXCEPT !.down = @ \cup mods \cup {usage}]

\* Mutated form: the backend releases the key and leaves its modifiers.
KeyReleaseBare(s, usage, mods) ==
  [ObserveRelease(s, usage, mods) EXCEPT !.down = @ \ {usage}]

KeyRelease(s, usage, mods) ==
  [ObserveRelease(s, usage, mods) EXCEPT !.down = @ \ (mods \cup {usage})]

\* Mutated form: the server lets go of the keys and forgets their modifiers.
LetGoOfKeys(s) ==
  [s EXCEPT !.keys = {}, !.mods = [u \in Usages |-> {}], !.down = @ \ s.keys]

\* take_release_messages, applied: every recorded key with its modifiers.
LetGo(s) ==
  [s EXCEPT !.keys = {}, !.mods = [u \in Usages |-> {}],
            !.down = @ \ (s.keys \cup UNION {s.mods[u] : u \in s.keys})]

-----------------------------------------------------------------------------
(* The phone: KeyboardSession. *)

\* The modifiers that apply right now.
modifiers == {m \in Mods : states[m] # "OFF" \/ m \in held}

\* One message is handled, or lost.
Send(handled) ==
  \/ pc' = handled /\ UNCHANGED losses
  \/ losses < MaxLosses /\ losses' = losses + 1 /\ UNCHANGED pc

\* History: what has arrived names the modifiers the key was recorded with, or
\* drops some of them from the record.
Compared(usage, mods) ==
  mismatch' = (mismatch \/ (pc' # pc /\ ~(pc.mods[usage] \subseteq mods)))

\* A press and a release, two messages with the same modifiers.  Either message
\* counts as lost when it makes no difference: a tap changes pc.down only by
\* what it presses, so this is the case only when it is lost or idle.
Tap(usage, mods) ==
  \E pressed \in {pc, KeyPress(pc, usage, mods)} :
    \E released \in {pressed, KeyRelease(pressed, usage, mods)} :
      LET lost == (IF pressed = pc THEN 1 ELSE 0)
                    + (IF released = pressed THEN 1 ELSE 0)
      IN /\ losses + lost <= MaxLosses
         /\ losses' = losses + lost
         /\ pc' = released

\* One-shot modifiers are used up by the key they applied to.
consumeArmed ==
  states' = [m \in Mods |-> IF states[m] = "ARMED" THEN "OFF" ELSE states[m]]

\* A modifier of the key bar is touched, as any other key is at the same time.
TouchModifiers ==
  /\ ~gone
  /\ rolled' = (rolled \/ fingers # {})

HoldModifier(m) ==
  /\ TouchModifiers /\ m \notin held
  /\ held' = held \cup {m}
  /\ usedWhileHeld' = usedWhileHeld \ {m}
  /\ UNCHANGED <<states, fingers, pc, losses, gone, mismatch>>

\* A quick second tap locks; a slow one is a change of mind.
tapModifier(m, quick) ==
  states' = [states EXCEPT ![m] =
    CASE @ = "OFF" -> "ARMED"
      [] @ = "ARMED" -> IF quick THEN "LOCKED" ELSE "OFF"
      [] @ = "LOCKED" -> "OFF"]

\* The finger lifts from a modifier: after a chord nothing more happens, after
\* a long hold the key is pressed by itself, after a short one it is latched.
ReleaseModifier(m, long, quick) ==
  /\ TouchModifiers /\ m \in held
  /\ held' = held \ {m}
  /\ \/ /\ m \in usedWhileHeld
        /\ usedWhileHeld' = usedWhileHeld \ {m}
        /\ UNCHANGED <<states, pc, losses>>
     \/ /\ m \notin usedWhileHeld /\ long
        /\ usedWhileHeld' = held \ {m}
        /\ Tap(m, {})
        /\ UNCHANGED states
     \/ /\ m \notin usedWhileHeld /\ ~long
        /\ usedWhileHeld' = usedWhileHeld \ {m}
        /\ tapModifier(m, quick)
        /\ UNCHANGED <<pc, losses>>
  /\ UNCHANGED <<fingers, gone, mismatch>>

\* The latch display is tapped: everything is switched off, held or not.  The
\* finger that was on a modifier then lifts without effect.
ReleaseModifiers ==
  /\ TouchModifiers /\ modifiers # {}
  /\ states' = [m \in Mods |-> "OFF"]
  /\ held' = {}
  /\ usedWhileHeld' = {}
  /\ UNCHANGED <<fingers, pc, losses, gone, mismatch>>

\* A key goes down and stays down, so that it repeats on the PC.
PressKey(k) ==
  /\ ~gone /\ k \notin fingers
  /\ fingers' = fingers \cup {k}
  /\ usedWhileHeld' = held
  /\ Send(KeyPress(pc, k, modifiers))
  /\ Compared(k, modifiers)
  /\ UNCHANGED <<states, held, gone, rolled>>

\* The finger lifts: the release carries the modifiers that apply now.
ReleaseKey(k) ==
  /\ ~gone /\ k \in fingers
  /\ fingers' = fingers \ {k}
  /\ Send(KeyRelease(pc, k, modifiers))
  /\ Compared(k, modifiers)
  /\ consumeArmed
  /\ UNCHANGED <<held, usedWhileHeld, gone, rolled>>

\* tapKey, one backspace or character of type with a modifier latched (text
\* typed with none presses no key), and shortcut, whose chord adds modifiers.
TapKey(k, chord) ==
  /\ ~gone /\ k \notin fingers
  /\ usedWhileHeld' = held
  /\ Tap(k, modifiers \cup chord)
  /\ Compared(k, modifiers \cup chord)
  /\ consumeArmed
  /\ UNCHANGED <<held, fingers, gone, rolled>>

\* The phone drops off, with fingers on keys or without, and the server lets go
\* of what its session holds (stale hold, expiry, replacement or shutdown).
Vanish ==
  /\ ~gone
  /\ gone' = TRUE
  /\ pc' = LetGo(pc)
  /\ UNCHANGED <<states, held, usedWhileHeld, fingers, losses, rolled, mismatch>>

Next ==
  \/ \E m \in Mods : HoldModifier(m)
  \/ \E m \in Mods, long, quick \in BOOLEAN : ReleaseModifier(m, long, quick)
  \/ ReleaseModifiers
  \/ \E k \in Keys : PressKey(k)
  \/ \E k \in Keys : ReleaseKey(k)
  \/ \E k \in Keys, chord \in SUBSET Mods : TapKey(k, chord)
  \/ Vanish

Spec == Init /\ [][Next]_vars

-----------------------------------------------------------------------------
(* Properties. *)

\* The server's record of ordinary keys is what is down on the PC, whatever is
\* lost and in whatever order fingers move.
RecordMatchesKeys == pc.keys \cap Keys = pc.down \cap Keys

\* When every finger is up, no message has been lost and no modifier was touched
\* while a finger was on a key, nothing at all is down on the PC.
NothingDownAtRest ==
  (fingers = {} /\ held = {} /\ losses = 0 /\ ~rolled) => pc.down = {}

\* What the keyboard promises ("the modifier applies to every key pressed until
\* the finger lifts, like holding the key on a real keyboard"), in whatever order
\* the fingers lift.
NothingDownWithoutFingers ==
  (fingers = {} /\ held = {} /\ losses = 0) => pc.down = {}

\* Once the server has let go for a phone that vanished, nothing is down: "so
\* that no mouse button or modifier is left stuck down on the PC".  It holds in
\* spite of lost messages, as long as those that arrive name the modifiers that
\* their key was recorded with.
VanishedPhoneHoldsNothing == (gone /\ ~mismatch) => pc.down = {}
=============================================================================
