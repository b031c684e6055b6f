--------------------------- MODULE PhoneProofs ----------------------------
(***************************************************************************)
(* Theorems about the phone: HeldKeys, for any keys, any modifiers and any *)
(* number of lost messages; NoiseSession, for every width of a word and    *)
(* any number of packets; WifiDispatcher, for any PCs and any number of    *)
(* requests and links.                                                     *)
(***************************************************************************)
EXTENDS HeldKeys, NoiseSession, WifiDispatcher, SequenceTheorems, FiniteSetTheorems, TLAPS

---------------------------------------------------------------------------
(***************************************************************************)
(* HeldKeys: what the phone lets go of.                                    *)
(***************************************************************************)

\* The record names what it is asked for: the keys that are down, and no modifier of a modifier.
Faithful(s) ==
  /\ s.keys \cap Keys = s.down \cap Keys
  /\ \A m \in Mods : s.mods[m] = {}

\* The record accounts for whatever is down.
Covered(s) == \A d \in s.down : d \in s.keys \/ \E u \in s.keys : d \in s.mods[u]

\* While nothing was lost and no modifier touched under a finger, what is down is under a finger
\* or a modifier that applies, so that the next release names it.
RestInv ==
  losses = 0 /\ ~rolled => /\ pc.down \subseteq fingers \cup modifiers
                           /\ fingers = {} => pc.down = {}

HeldInv ==
  /\ TypeOK
  /\ Faithful(pc)
  /\ ~mismatch => Covered(pc)
  /\ gone /\ ~mismatch => pc.down = {}
  /\ RestInv

-----------------------------------------------------------------------------
(* What the messages do to the record and the PC. *)

LEMMA Pressed ==
  ASSUME NEW s \in PCStates, NEW usage \in Usages, NEW mods \in SUBSET Mods
  PROVE  /\ KeyPress(s, usage, mods) \in PCStates
         /\ KeyPress(s, usage, mods).keys = s.keys \cup {usage}
         /\ KeyPress(s, usage, mods).mods = [s.mods EXCEPT ![usage] = mods]
         /\ KeyPress(s, usage, mods).down = s.down \cup mods \cup {usage}
<1>1. ObservePress(s, usage, mods) = [keys |-> s.keys \cup {usage}, mods |-> [s.mods EXCEPT ![usage] = mods],
                                      down |-> s.down]
  BY DEF ObservePress
<1>2. KeyPress(s, usage, mods) = [keys |-> s.keys \cup {usage}, mods |-> [s.mods EXCEPT ![usage] = mods],
                                  down |-> s.down \cup mods \cup {usage}]
  BY <1>1, SMTT(30) DEF KeyPress
<1>3. s.keys \cup {usage} \in SUBSET Usages /\ s.down \cup mods \cup {usage} \in SUBSET Usages
      /\ [s.mods EXCEPT ![usage] = mods] \in [Usages -> SUBSET Mods]
  BY DEF PCStates, Usages
<1> QED
  BY <1>2, <1>3 DEF PCStates

LEMMA Released ==
  ASSUME NEW s \in PCStates, NEW usage \in Usages, NEW mods \in SUBSET Mods
  PROVE  /\ KeyRelease(s, usage, mods) \in PCStates
         /\ KeyRelease(s, usage, mods).keys = s.keys \ {usage}
         /\ KeyRelease(s, usage, mods).mods = [s.mods EXCEPT ![usage] = {}]
         /\ KeyRelease(s, usage, mods).down = s.down \ (mods \cup {usage})
<1> DEFINE keys == s.keys \ {usage}
           record == [s.mods EXCEPT ![usage] = {}]
           down == s.down \ (mods \cup {usage})
<1>1. keys \in SUBSET Usages /\ down \in SUBSET Usages /\ record \in [Usages -> SUBSET Mods]
  BY DEF PCStates
<1>2. ObserveRelease(s, usage, mods) = [keys |-> keys, mods |-> record, down |-> s.down]
  BY DEF ObserveRelease
<1>3. ObserveRelease(s, usage, mods).down \ (mods \cup {usage}) = down
  BY <1>2
<1> HIDE DEF keys, record, down
<1>4. KeyRelease(s, usage, mods) = [keys |-> keys, mods |-> record, down |-> down]
  BY <1>2, <1>3 DEF KeyRelease
<1>5. KeyRelease(s, usage, mods) \in PCStates
  BY <1>1, <1>4 DEF PCStates
<1> QED
  BY <1>4, <1>5 DEF keys, record, down

\* A press or a release of a key, or of a modifier by itself, keeps the record faithful.
LEMMA StaysFaithful ==
  ASSUME NEW s \in PCStates, Faithful(s), NEW usage \in Usages, NEW mods \in SUBSET Mods,
         usage \in Mods => mods = {}
  PROVE  Faithful(KeyPress(s, usage, mods)) /\ Faithful(KeyRelease(s, usage, mods))
<1>1. s.mods \in [Usages -> SUBSET Mods] /\ Mods \subseteq Usages /\ Keys \cap Mods = {}
  BY HeldKeysAssumption DEF PCStates, Usages
<1>2. \A m \in Mods : [s.mods EXCEPT ![usage] = mods][m] = {} /\ [s.mods EXCEPT ![usage] = {}][m] = {}
  BY <1>1 DEF Faithful
<1>3. Faithful(KeyPress(s, usage, mods))
  <2> DEFINE t == KeyPress(s, usage, mods)
  <2>1. /\ t.keys = s.keys \cup {usage} /\ t.mods = [s.mods EXCEPT ![usage] = mods]
        /\ t.down = s.down \cup mods \cup {usage}
    BY Pressed
  <2> HIDE DEF t
  <2>2. t.keys \cap Keys = t.down \cap Keys
    BY <1>1, <2>1 DEF Faithful
  <2> QED
    BY <1>2, <2>1, <2>2 DEF Faithful, t
<1>4. Faithful(KeyRelease(s, usage, mods))
  <2> DEFINE t == KeyRelease(s, usage, mods)
  <2>1. /\ t.keys = s.keys \ {usage} /\ t.mods = [s.mods EXCEPT ![usage] = {}]
        /\ t.down = s.down \ (mods \cup {usage})
    BY Released
  <2> HIDE DEF t
  <2>2. t.keys \cap Keys = t.down \cap Keys
    BY <1>1, <2>1 DEF Faithful
  <2> QED
    BY <1>2, <2>1, <2>2 DEF Faithful, t
<1> QED
  BY <1>3, <1>4

\* A message that names the modifiers its key was recorded with leaves nothing unaccounted for.
LEMMA StaysCovered ==
  ASSUME NEW s \in PCStates, Covered(s), NEW usage \in Usages, NEW mods \in SUBSET Mods,
         s.mods[usage] \subseteq mods
  PROVE  Covered(KeyPress(s, usage, mods)) /\ Covered(KeyRelease(s, usage, mods))
<1>1. s.mods \in [Usages -> SUBSET Mods] /\ s.keys \subseteq Usages
  BY DEF PCStates
<1>2. Covered(KeyPress(s, usage, mods))
  <2> SUFFICES ASSUME NEW d \in s.down \cup mods \cup {usage}
               PROVE  d \in s.keys \cup {usage}
                      \/ \E u \in s.keys \cup {usage} : d \in [s.mods EXCEPT ![usage] = mods][u]
    <3> DEFINE t == KeyPress(s, usage, mods)
    <3>1. /\ t.keys = s.keys \cup {usage} /\ t.mods = [s.mods EXCEPT ![usage] = mods]
          /\ t.down = s.down \cup mods \cup {usage}
      BY Pressed
    <3> QED
      BY <3>1 DEF Covered
  <2>1. CASE d \in mods
    BY <1>1, <2>1
  <2>2. CASE d \in s.down
    BY <1>1, <2>2 DEF Covered
  <2> QED
    BY <2>1, <2>2
<1>3. Covered(KeyRelease(s, usage, mods))
  <2> SUFFICES ASSUME NEW d \in s.down \ (mods \cup {usage})
               PROVE  d \in s.keys \ {usage}
                      \/ \E u \in s.keys \ {usage} : d \in [s.mods EXCEPT ![usage] = {}][u]
    <3> DEFINE t == KeyRelease(s, usage, mods)
    <3>1. /\ t.keys = s.keys \ {usage} /\ t.mods = [s.mods EXCEPT ![usage] = {}]
          /\ t.down = s.down \ (mods \cup {usage})
      BY Released
    <3> QED
      BY <3>1 DEF Covered
  <2> QED
    BY <1>1 DEF Covered
<1> QED
  BY <1>2, <1>3

\* A tap is any of its two messages, both or none.
LEMMA Taps ==
  ASSUME NEW usage, NEW mods, Tap(usage, mods), losses \in Nat
  PROVE  LET pressed == KeyPress(pc, usage, mods)
         IN /\ pc' \in {pc, pressed, KeyRelease(pc, usage, mods), KeyRelease(pressed, usage, mods)}
            /\ losses' \in Nat /\ losses' <= MaxLosses /\ losses' >= losses
            /\ losses' = 0 => pc' = KeyRelease(pressed, usage, mods)
BY HeldKeysAssumption DEF Tap

-----------------------------------------------------------------------------
(* Every step. *)

LEMMA InitHeld == Init => HeldInv
<1> SUFFICES ASSUME Init PROVE HeldInv
  OBVIOUS
<1>1. /\ states \in [Mods -> {"OFF", "ARMED", "LOCKED"}] /\ held = {} /\ usedWhileHeld = {} /\ fingers = {}
      /\ losses = 0 /\ gone = FALSE /\ rolled = FALSE /\ mismatch = FALSE
  BY DEF Init
<1>2. pc.keys = {} /\ pc.mods = [u \in Usages |-> {}] /\ pc.down = {} /\ pc \in PCStates
  BY DEF Init, PCStates
<1>z. 0 \in 0..MaxLosses
  BY HeldKeysAssumption
<1>3. TypeOK
  BY <1>1, <1>2, <1>z DEF TypeOK
<1>4. Faithful(pc) /\ Covered(pc)
  BY <1>2 DEF Faithful, Covered, Usages
<1> QED
  BY <1>1, <1>2, <1>3, <1>4 DEF HeldInv, RestInv

\* What Compared notes: an arrival that does not name what its key was recorded with.
LEMMA Noted ==
  ASSUME NEW usage, NEW mods, Compared(usage, mods), mismatch \in BOOLEAN, ~mismatch'
  PROVE  ~mismatch /\ (pc' = pc \/ pc.mods[usage] \subseteq mods)
BY DEF Compared

LEMMA NextHeld == HeldInv /\ [Next]_vars => HeldInv'
<1> SUFFICES ASSUME HeldInv, [Next]_vars PROVE HeldInv'
  OBVIOUS
<1>a. /\ states \in [Mods -> {"OFF", "ARMED", "LOCKED"}] /\ held \subseteq Mods
      /\ usedWhileHeld \subseteq held /\ fingers \subseteq Keys /\ pc \in PCStates /\ losses \in Nat
      /\ losses <= MaxLosses /\ gone \in BOOLEAN /\ rolled \in BOOLEAN /\ mismatch \in BOOLEAN
      /\ MaxLosses \in Nat
  BY HeldKeysAssumption DEF HeldInv, TypeOK
<1>b. /\ Faithful(pc) /\ (~mismatch => Covered(pc)) /\ (gone /\ ~mismatch => pc.down = {}) /\ RestInv
      /\ TypeOK
  BY DEF HeldInv
<1>c. modifiers \in SUBSET Mods /\ Keys \subseteq Usages /\ Mods \subseteq Usages /\ Keys \cap Mods = {}
  BY HeldKeysAssumption DEF modifiers, Usages
\* The phone's own bookkeeping, where no message is sent.
<1>q. ASSUME TypeOK', UNCHANGED <<pc, losses, mismatch, gone, fingers>>,
             rolled' = (rolled \/ fingers # {})
      PROVE  HeldInv'
  <2>1. RestInv'
    BY <1>a, <1>b, <1>q DEF RestInv
  <2> QED
    BY <1>b, <1>q, <2>1 DEF HeldInv, Faithful, Covered
\* One message is handled or lost.
<1>s. ASSUME NEW handled \in PCStates, Send(handled)
      PROVE  pc' \in {pc, handled} /\ pc' \in PCStates /\ losses' \in 0..MaxLosses /\ (losses' = 0 => losses = 0 /\ pc' = handled)
  BY <1>a, <1>s DEF Send
<1>t. ASSUME NEW usage \in Usages, NEW mods \in SUBSET Mods, Tap(usage, mods), usage \in Mods => mods = {},
             ~mismatch' => ~mismatch /\ (pc' = pc \/ pc.mods[usage] \subseteq mods)
      PROVE  /\ pc' \in PCStates /\ losses' \in 0..MaxLosses /\ Faithful(pc)'
             /\ ~mismatch' => Covered(pc)'
             /\ losses' = 0 => losses = 0 /\ pc'.down = pc.down \ (mods \cup {usage})
  <2> DEFINE pressed == KeyPress(pc, usage, mods)
             released == KeyRelease(pc, usage, mods)
             tapped == KeyRelease(pressed, usage, mods)
  <2>1. pc' \in {pc, pressed, released, tapped} /\ losses' \in 0..MaxLosses /\ losses' >= losses
        /\ (losses' = 0 => pc' = tapped)
    BY <1>a, <1>t, Taps
  <2>2. pressed \in PCStates /\ released \in PCStates
    BY <1>a, Pressed, Released
  <2>3. tapped \in PCStates
    BY <2>2, Released
  <2>4. Faithful(pressed) /\ Faithful(released)
    BY <1>a, <1>b, <1>t, StaysFaithful
  <2>5. Faithful(tapped)
    BY <1>t, <2>2, <2>4, StaysFaithful
  <2>6. pc.mods \in [Usages -> SUBSET Mods]
    BY <1>a DEF PCStates
  <2>a. pressed.mods = [pc.mods EXCEPT ![usage] = mods] /\ pressed.down = pc.down \cup mods \cup {usage}
    BY <1>a, <1>t, Pressed
  <2>b. tapped.down = pressed.down \ (mods \cup {usage})
    <3>1. \A s \in PCStates : KeyRelease(s, usage, mods).down = s.down \ (mods \cup {usage})
      BY Released
    <3> QED
      BY <2>2, <3>1, Zenon
  <2>7. pressed.mods[usage] = mods /\ tapped.down = pc.down \ (mods \cup {usage})
    BY <1>t, <2>6, <2>a, <2>b
  <2> HIDE DEF pressed, released, tapped
  <2>8. Faithful(pc')
    BY <1>b, <2>1, <2>4, <2>5
  <2>9. ASSUME ~mismatch' PROVE Covered(pc')
    <3>1. Covered(pc)
      BY <1>b, <1>t, <2>9
    <3>2. CASE pc' = pc
      BY <3>1, <3>2
    <3>3. CASE pc' # pc
      <4>1. pc.mods[usage] \subseteq mods
        BY <1>t, <2>9, <3>3
      <4>2. Covered(pressed) /\ Covered(released)
        BY <1>a, <3>1, <4>1, StaysCovered DEF pressed, released
      <4>3. Covered(tapped)
        BY <2>2, <2>7, <4>2, StaysCovered DEF tapped
      <4> QED
        BY <2>1, <3>1, <4>2, <4>3
    <3> QED
      BY <3>2, <3>3
  <2>10. losses' = 0 => losses = 0 /\ pc'.down = pc.down \ (mods \cup {usage})
    BY <1>a, <2>1, <2>7
  <2>11. pc' \in PCStates
    BY <1>a, <2>1, <2>2, <2>3
  <2> QED
    BY <2>1, <2>8, <2>9, <2>10, <2>11 DEF Faithful, Covered
<1>1. ASSUME NEW m \in Mods, HoldModifier(m) PROVE HeldInv'
  <2>1. TypeOK'
    BY <1>1, <1>a, <1>b DEF HoldModifier, TouchModifiers, TypeOK
  <2> QED
    BY <1>1, <1>q, <2>1 DEF HoldModifier, TouchModifiers
<1>2. ASSUME NEW m \in Mods, NEW long \in BOOLEAN, NEW quick \in BOOLEAN, ReleaseModifier(m, long, quick)
      PROVE  HeldInv'
  <2>1. /\ ~gone /\ held' = held \ {m} /\ rolled' = (rolled \/ fingers # {}) /\ m \in held
        /\ UNCHANGED <<fingers, gone, mismatch>>
    BY <1>2 DEF ReleaseModifier, TouchModifiers
  <2>2. CASE m \in usedWhileHeld \/ ~long
    <3>1. /\ UNCHANGED <<pc, losses>> /\ usedWhileHeld' = usedWhileHeld \ {m}
          /\ UNCHANGED states \/ tapModifier(m, quick)
      BY <1>2, <2>2 DEF ReleaseModifier
    <3>2. states' \in [Mods -> {"OFF", "ARMED", "LOCKED"}]
      BY <1>a, <3>1 DEF tapModifier
    <3>3. TypeOK'
      BY <1>a, <1>b, <2>1, <3>1, <3>2 DEF TypeOK
    <3> QED
      BY <1>q, <2>1, <3>1, <3>3
  <2>3. CASE m \notin usedWhileHeld /\ long
    <3>1. Tap(m, {}) /\ usedWhileHeld' = held \ {m} /\ UNCHANGED states
      BY <1>2, <2>3 DEF ReleaseModifier
    <3>2. pc.mods[m] = {}
      BY <1>b DEF Faithful
    <3>3. /\ pc' \in PCStates /\ losses' \in 0..MaxLosses /\ Faithful(pc)'
          /\ ~mismatch' => Covered(pc)'
          /\ losses' = 0 => losses = 0 /\ pc'.down = pc.down \ ({} \cup {m})
      BY <1>c, <1>t, <2>1, <3>1, <3>2
    <3>4. TypeOK'
      BY <1>a, <1>b, <2>1, <3>1, <3>3 DEF TypeOK
    <3>5. RestInv'
      BY <1>a, <1>b, <2>1, <3>3 DEF RestInv
    <3> QED
      BY <2>1, <3>3, <3>4, <3>5 DEF HeldInv
  <2> QED
    BY <2>2, <2>3
<1>3. CASE ReleaseModifiers
  <2>1. TypeOK'
    BY <1>3, <1>a, <1>b DEF ReleaseModifiers, TouchModifiers, TypeOK
  <2> QED
    BY <1>3, <1>q, <2>1 DEF ReleaseModifiers, TouchModifiers
<1>4. ASSUME NEW k \in Keys, PressKey(k) PROVE HeldInv'
  <2>1. /\ ~gone /\ fingers' = fingers \cup {k} /\ usedWhileHeld' = held /\ Send(KeyPress(pc, k, modifiers))
        /\ Compared(k, modifiers) /\ UNCHANGED <<states, held, gone, rolled>>
    BY <1>4 DEF PressKey
  <2> DEFINE pressed == KeyPress(pc, k, modifiers)
  <2>2. pressed \in PCStates /\ pressed.down = pc.down \cup modifiers \cup {k}
    <3>1. k \in Usages /\ modifiers \in SUBSET Mods /\ pc \in PCStates
      BY <1>a, <1>c
    <3> QED
      BY <3>1, Pressed, Zenon
  <2>3. Faithful(pressed)
    BY <1>a, <1>b, <1>c, StaysFaithful
  <2>4. pc' \in {pc, pressed} /\ pc' \in PCStates /\ losses' \in 0..MaxLosses /\ (losses' = 0 => losses = 0 /\ pc' = pressed)
    BY <1>s, <2>1, <2>2
  <2>5. ASSUME ~mismatch' PROVE Covered(pc')
    <3>1. ~mismatch /\ (pc' = pc \/ pc.mods[k] \subseteq modifiers)
      BY <1>a, <2>1, <2>5, Noted
    <3>2. Covered(pc)
      BY <1>b, <3>1
    <3>3. pc.mods[k] \subseteq modifiers => Covered(pressed)
      BY <1>a, <1>c, <3>2, StaysCovered
    <3> QED
      BY <2>4, <3>1, <3>2, <3>3
  <2> HIDE DEF pressed
  <2>6. Faithful(pc')
    BY <1>b, <2>3, <2>4
  <2>7. modifiers' = modifiers
    BY <2>1 DEF modifiers
  <2>8. RestInv'
    BY <1>b, <2>1, <2>2, <2>4, <2>7 DEF RestInv
  <2>9. TypeOK'
    BY <1>a, <1>b, <2>1, <2>4 DEF TypeOK, Compared
  <2> QED
    BY <2>1, <2>5, <2>6, <2>8, <2>9 DEF HeldInv, Faithful, Covered
<1>m. consumeArmed => states' \in [Mods -> {"OFF", "ARMED", "LOCKED"}]
  BY <1>a DEF consumeArmed
<1>5. ASSUME NEW k \in Keys, ReleaseKey(k) PROVE HeldInv'
  <2>1. /\ ~gone /\ fingers' = fingers \ {k} /\ Send(KeyRelease(pc, k, modifiers)) /\ consumeArmed
        /\ Compared(k, modifiers) /\ UNCHANGED <<held, usedWhileHeld, gone, rolled>>
    BY <1>5 DEF ReleaseKey
  <2> DEFINE released == KeyRelease(pc, k, modifiers)
  <2>2. released \in PCStates /\ released.down = pc.down \ (modifiers \cup {k})
    <3>1. k \in Usages /\ modifiers \in SUBSET Mods /\ pc \in PCStates
      BY <1>a, <1>c
    <3> QED
      BY <3>1, Released, Zenon
  <2>3. Faithful(released)
    BY <1>a, <1>b, <1>c, StaysFaithful
  <2>4. pc' \in {pc, released} /\ pc' \in PCStates /\ losses' \in 0..MaxLosses /\ (losses' = 0 => losses = 0 /\ pc' = released)
    BY <1>s, <2>1, <2>2
  <2>5. ASSUME ~mismatch' PROVE Covered(pc')
    <3>1. ~mismatch /\ (pc' = pc \/ pc.mods[k] \subseteq modifiers)
      BY <1>a, <2>1, <2>5, Noted
    <3>2. Covered(pc)
      BY <1>b, <3>1
    <3>3. pc.mods[k] \subseteq modifiers => Covered(released)
      BY <1>a, <1>c, <3>2, StaysCovered
    <3> QED
      BY <2>4, <3>1, <3>2, <3>3
  <2> HIDE DEF released
  <2>6. Faithful(pc')
    BY <1>b, <2>3, <2>4
  <2>8. RestInv'
    BY <1>b, <2>1, <2>2, <2>4 DEF RestInv
  <2>9. TypeOK'
    BY <1>a, <1>b, <1>m, <2>1, <2>4 DEF TypeOK, Compared
  <2> QED
    BY <2>1, <2>5, <2>6, <2>8, <2>9 DEF HeldInv, Faithful, Covered
<1>6. ASSUME NEW k \in Keys, NEW chord \in SUBSET Mods, TapKey(k, chord) PROVE HeldInv'
  <2>1. /\ ~gone /\ k \notin fingers /\ usedWhileHeld' = held /\ Tap(k, modifiers \cup chord) /\ consumeArmed
        /\ Compared(k, modifiers \cup chord) /\ UNCHANGED <<held, fingers, gone, rolled>>
    BY <1>6 DEF TapKey
  <2>2. ~mismatch' => ~mismatch /\ (pc' = pc \/ pc.mods[k] \subseteq modifiers \cup chord)
    BY <1>a, <2>1, Noted
  <2>3. k \in Usages /\ modifiers \cup chord \in SUBSET Mods /\ k \notin Mods
    BY <1>c
  <2>4. /\ pc' \in PCStates /\ losses' \in 0..MaxLosses /\ Faithful(pc)'
        /\ ~mismatch' => Covered(pc)'
        /\ losses' = 0 => losses = 0 /\ pc'.down = pc.down \ (modifiers \cup chord \cup {k})
    BY <1>t, <2>1, <2>2, <2>3
  <2>5. RestInv'
    BY <1>b, <2>1, <2>4 DEF RestInv
  <2>6. TypeOK'
    BY <1>a, <1>b, <1>m, <2>1, <2>4 DEF TypeOK, Compared
  <2> QED
    BY <2>1, <2>4, <2>5, <2>6 DEF HeldInv
<1>7. CASE Vanish
  <2>1. gone' = TRUE /\ pc' = LetGo(pc)
        /\ UNCHANGED <<states, held, usedWhileHeld, fingers, losses, rolled, mismatch>>
    BY <1>7 DEF Vanish
  <2>2. pc' = [keys |-> {}, mods |-> [u \in Usages |-> {}],
               down |-> pc.down \ (pc.keys \cup UNION {pc.mods[u] : u \in pc.keys})]
    BY <1>a, <2>1 DEF LetGo, PCStates
  <2>3. pc'.keys = {} /\ pc'.mods = [u \in Usages |-> {}] /\ pc'.down \subseteq pc.down
        /\ pc'.down = pc.down \ (pc.keys \cup UNION {pc.mods[u] : u \in pc.keys})
    BY <2>2
  <2>4. pc' \in PCStates
    BY <1>a, <2>2 DEF PCStates
  <2>5. Faithful(pc')
    BY <1>b, <1>c, <2>3 DEF Faithful
  <2>6. ~mismatch => pc'.down = {}
    BY <1>b, <2>3 DEF Covered
  <2>7. RestInv'
    <3>1. modifiers' = modifiers
      BY <2>1 DEF modifiers
    <3> QED
      BY <1>b, <2>1, <2>3, <3>1 DEF RestInv
  <2>8. TypeOK'
    BY <1>a, <1>b, <2>1, <2>4 DEF TypeOK
  <2> QED
    BY <2>1, <2>5, <2>6, <2>7, <2>8 DEF HeldInv, Faithful, Covered
<1>8. CASE UNCHANGED vars
  BY <1>8 DEF vars, HeldInv, TypeOK, Faithful, Covered, RestInv, modifiers
<1> QED
  BY <1>1, <1>2, <1>3, <1>4, <1>5, <1>6, <1>7, <1>8 DEF Next

-----------------------------------------------------------------------------
(* Theorems. *)

\* The invariant the theorems below rest on: KeyboardSession, HeldInputs and the packets between them.
THEOREM HeldInvariant == Spec => []HeldInv
BY InitHeld, NextHeld, PTL DEF Spec

\* The keyboard's and the server's variables keep their types.
THEOREM HeldTyped == Spec => []TypeOK
<1>1. HeldInv => TypeOK
  BY DEF HeldInv
<1> QED
  BY <1>1, HeldInvariant, PTL

\* HeldInputs::observe records the ordinary keys that are down, and no others, whatever is lost.
THEOREM RecordIsRight == Spec => []RecordMatchesKeys
<1>1. HeldInv => RecordMatchesKeys
  BY DEF HeldInv, Faithful, RecordMatchesKeys
<1> QED
  BY <1>1, HeldInvariant, PTL

\* With all fingers up, no message lost and no modifier touched during a key, nothing is down
\* (KeyboardSession's press, release and consumeArmed).
THEOREM RestIsFree == Spec => []NothingDownAtRest
<1>1. HeldInv => NothingDownAtRest
  BY DEF HeldInv, RestInv, NothingDownAtRest
<1> QED
  BY <1>1, HeldInvariant, PTL

\* take_release_messages lets go of all that is down for a phone that vanished, whatever was lost,
\* if what arrived named the modifiers its key was recorded with.
THEOREM VanishedIsFree == Spec => []VanishedPhoneHoldsNothing
<1>1. HeldInv => VanishedPhoneHoldsNothing
  BY DEF HeldInv, VanishedPhoneHoldsNothing
<1> QED
  BY <1>1, HeldInvariant, PTL

---------------------------------------------------------------------------
(***************************************************************************)
(* NoiseSession: the two words of the window are one exact memory, and so  *)
(* the phone accepts exactly the packets the abstract guard accepts.       *)
(***************************************************************************)

WindowInv == SessionTypeOK /\ WordsAreMemory

\* The packet k places behind the newest has been accepted.
Remembered(newest, memory, k) == k <= newest /\ (newest - k) \in memory

LowIsRight(low, newest, memory) ==
  \A d \in Bits : d \in low <=> Remembered(newest, memory, d)

HighIsRight(high, newest, memory) ==
  \A d \in Bits : d \in high <=> Remembered(newest, memory, d + Word)

LEMMA WordFacts ==
  /\ Word \in Nat /\ Word > 0 /\ Bits \subseteq Nat /\ 0 \in Bits
  /\ \A d \in Int : d \in Bits <=> 0 <= d /\ d < Word
BY NoiseSessionAssumption DEF Bits

\* The count of a shift by less than a word is what it says.
LEMMA ShortCount == \A n \in Bits : n % Word = n
BY WordFacts, SMT

LEMMA LowBitByBit ==
  ASSUME NEW low \in SUBSET Bits, NEW newest \in Nat, NEW memory
  PROVE  LowIsRight(low, newest, memory) <=>
           low = {d \in Bits : d <= newest /\ (newest - d) \in memory}
BY DEF LowIsRight, Remembered

LEMMA HighBitByBit ==
  ASSUME NEW high \in SUBSET Bits, NEW newest \in Nat, NEW memory
  PROVE  HighIsRight(high, newest, memory) <=>
           high = {d \in Bits :
                     d + Word <= newest /\ (newest - d - Word) \in memory}
<1>1. \A d \in Bits : newest - (d + Word) = newest - d - Word
  BY WordFacts
<1> QED
  BY <1>1 DEF HighIsRight, Remembered

\* Seen from a newer packet, what was k places behind is further behind.
LEMMA FurtherBehind ==
  ASSUME NEW old \in Nat, NEW new \in Nat, old < new,
         NEW memory \in SUBSET (0..old), NEW k \in Nat
  PROVE  /\ Remembered(new, memory, k) <=>
              k >= new - old /\ Remembered(old, memory, k - (new - old))
         /\ Remembered(new, memory \cup {new}, k) <=>
              k = 0 \/ Remembered(new, memory, k)
<1>1. old - (k - (new - old)) = new - k
  OBVIOUS
<1>2. (new - k) \in memory => k >= new - old /\ k <= new
  OBVIOUS
<1>3. new - k = new <=> k = 0
  OBVIOUS
<1> QED
  BY <1>1, <1>2, <1>3 DEF Remembered

\* Moving the window keeps every bit at its packet, across the two words.
LEMMA SlideKeepsMemory ==
  ASSUME NEW old \in Nat, NEW new \in Nat, old < new,
         NEW memory \in SUBSET (0..old),
         bitmapLow \in SUBSET Bits, bitmapHigh \in SUBSET Bits,
         LowIsRight(bitmapLow, old, memory), HighIsRight(bitmapHigh, old, memory),
         Slide(new - old)
  PROVE  /\ LowIsRight(bitmapLow', new, memory \cup {new})
         /\ HighIsRight(bitmapHigh', new, memory \cup {new})
<1> DEFINE D == new - old
           M == memory \cup {new}
<1>1. D \in Nat /\ D > 0 /\ Slide(D)
  OBVIOUS
<1>2. \A k \in Nat : Remembered(new, M, k) <=>
        k = 0 \/ (k >= D /\ Remembered(old, memory, k - D))
  BY FurtherBehind
<1> HIDE DEF D, M
<1>3. \A d \in Bits : /\ d \in Nat /\ d < Word
                      /\ d \in bitmapLow <=> Remembered(old, memory, d)
                      /\ d \in bitmapHigh <=> Remembered(old, memory, d + Word)
  BY WordFacts DEF LowIsRight, HighIsRight
<1>4. ASSUME NEW d \in Bits
      PROVE  /\ d \in bitmapLow' <=> Remembered(new, M, d)
             /\ d \in bitmapHigh' <=> Remembered(new, M, d + Word)
  <2>1. d \in Nat /\ d < Word /\ d + Word \in Nat /\ Word \in Nat /\ d + Word # 0
    BY <1>3, WordFacts
  <2>2. CASE D >= 2 * Word
    <3>1. bitmapLow' = {0} /\ bitmapHigh' = {}
      BY <1>1, <2>2 DEF Slide
    <3>2. d < D /\ d + Word < D
      BY <1>1, <2>1, <2>2
    <3> QED
      BY <1>1, <1>2, <2>1, <3>1, <3>2
  <2>3. CASE Word <= D /\ D < 2 * Word
    <3>1. D - Word \in Bits
      BY <1>1, <2>1, <2>3, WordFacts
    <3>2. bitmapLow' = {0} /\ bitmapHigh' = shl(bitmapLow, D - Word)
      BY <1>1, <2>1, <2>3 DEF Slide
    <3>3. d \in bitmapLow' <=> Remembered(new, M, d)
      BY <1>1, <1>2, <2>1, <2>3, <3>2
    <3>4. bitmapHigh' = {b + (D - Word) : b \in bitmapLow} \cap Bits
      BY <3>1, <3>2, ShortCount DEF shl
    <3>5. ASSUME d + Word >= D PROVE d + Word - D \in Bits
      BY <1>1, <2>1, <2>3, <3>5, WordFacts
    <3>6. \A b \in bitmapLow : d = b + (D - Word) <=> b = d + Word - D
      BY <1>1, <2>1, WordFacts
    <3>7. d \in bitmapHigh' <=> (d + Word - D) \in bitmapLow
      BY <3>4, <3>6
    <3>8. (d + Word - D) \in bitmapLow =>
            d + Word >= D /\ Remembered(old, memory, d + Word - D)
      BY <1>1, <1>3, <2>1, WordFacts
    <3>9. d + Word >= D /\ Remembered(old, memory, d + Word - D)
            => (d + Word - D) \in bitmapLow
      BY <1>3, <3>5
    <3> QED
      BY <1>1, <1>2, <2>1, <3>3, <3>7, <3>8, <3>9
  <2>4. CASE D < Word
    <3>1. D \in Bits /\ Word - D \in Bits
      BY <1>1, <2>1, <2>4, WordFacts
    <3>2. /\ bitmapLow' = ({b + D : b \in bitmapLow} \cap Bits) \cup {0}
          /\ bitmapHigh' = ({b + D : b \in bitmapHigh} \cap Bits)
                             \cup {b \in Bits : b + (Word - D) \in bitmapLow}
      <4>1. ~(D >= Word) /\ ~(D >= 2 * Word)
        BY <1>1, <2>1, <2>4
      <4>2. /\ bitmapLow' = shl(bitmapLow, D) \cup {0}
            /\ bitmapHigh' = shl(bitmapHigh, D) \cup ushr(bitmapLow, Word - D)
        BY <1>1, <4>1, Zenon DEF Slide
      <4>3. D % Word = D /\ (Word - D) % Word = Word - D
        BY <3>1, ShortCount
      <4>4. /\ shl(bitmapLow, D) = {b + D : b \in bitmapLow} \cap Bits
            /\ shl(bitmapHigh, D) = {b + D : b \in bitmapHigh} \cap Bits
            /\ ushr(bitmapLow, Word - D) =
                 {b \in Bits : b + (Word - D) \in bitmapLow}
        BY <4>3, Zenon DEF shl, ushr
      <4> QED
        BY <4>2, <4>4, Zenon
    <3>3. \A b \in Nat : d = b + D <=> b = d - D
      BY <1>1, <2>1
    <3>4. bitmapLow \subseteq Nat /\ bitmapHigh \subseteq Nat
      BY WordFacts
    <3>5. d >= D => d - D \in Bits
      BY <1>1, <2>1, WordFacts
    <3>6. d \in bitmapLow' <=> Remembered(new, M, d)
      <4>1. d \in bitmapLow' <=> d = 0 \/ (d - D) \in bitmapLow
        BY <3>2, <3>3, <3>4
      <4>2. (d - D) \in bitmapLow <=> d >= D /\ Remembered(old, memory, d - D)
        BY <1>1, <1>3, <2>1, <3>4, <3>5
      <4> QED
        BY <1>2, <2>1, <4>1, <4>2
    <3>7. d \in bitmapHigh' <=> Remembered(new, M, d + Word)
      <4>1. d \in bitmapHigh' <=> (d - D) \in bitmapHigh \/ (d + (Word - D)) \in bitmapLow
        BY <3>2, <3>3, <3>4
      <4>2. d + Word >= D /\ d + Word - D = d + (Word - D)
        BY <1>1, <2>1, <2>4
      <4>3. CASE d >= D
        <5>1. (d + (Word - D)) \notin bitmapLow
          BY <1>1, <1>3, <2>1, <4>3, WordFacts
        <5>2. (d - D) + Word = d + (Word - D)
          BY <1>1, <2>1
        <5> QED
          <6>1. (d - D) \in bitmapHigh <=> Remembered(old, memory, d + Word - D)
            BY <1>3, <3>5, <4>2, <4>3, <5>2
          <6> QED
            BY <1>1, <1>2, <2>1, <4>1, <4>2, <5>1, <6>1
      <4>4. CASE d < D
        <5>1. (d - D) \notin bitmapHigh
          BY <1>1, <2>1, <3>4, <4>4
        <5>2. d + (Word - D) \in Bits
          BY <1>1, <2>1, <2>4, <4>4, WordFacts
        <5> QED
          <6>1. (d + (Word - D)) \in bitmapLow <=> Remembered(old, memory, d + Word - D)
            BY <1>3, <4>2, <5>2
          <6> QED
            BY <1>1, <1>2, <2>1, <4>1, <4>2, <5>1, <6>1
      <4> QED
        BY <1>1, <2>1, <4>3, <4>4
    <3> QED
      BY <3>6, <3>7
  <2> QED
    BY <1>1, <2>1, <2>2, <2>3, <2>4
<1> QED
  BY <1>4 DEF LowIsRight, HighIsRight, M

LEMMA SlideStaysInWords ==
  ASSUME NEW diff \in Nat, diff > 0, bitmapLow \in SUBSET Bits, Slide(diff)
  PROVE  bitmapLow' \subseteq Bits /\ bitmapHigh' \subseteq Bits
BY WordFacts DEF Slide, shl, ushr

\* What update() does to the words is what accepting the packet does to memory.
LEMMA UpdateRemembers ==
  ASSUME WindowInv, NEW nonce \in 0..MaxNonce, update(nonce),
         accepted' = accepted \cup {nonce}
  PROVE  /\ WordsAreMemory' /\ maxNonce' \in 0..MaxNonce
         /\ bitmapLow' \subseteq Bits /\ bitmapHigh' \subseteq Bits
<1>1. /\ initialized' /\ MaxNonce \in Nat /\ nonce \in Nat
      /\ maxNonce \in 0..MaxNonce /\ maxNonce \in Nat
      /\ accepted \subseteq 0..MaxNonce /\ accepted \subseteq Nat
      /\ bitmapLow \in SUBSET Bits /\ bitmapHigh \in SUBSET Bits
  BY NoiseSessionAssumption DEF WindowInv, SessionTypeOK, update
<1>2. /\ initialized <=> accepted # {}
      /\ initialized => maxNonce \in accepted
      /\ \A n \in accepted : n <= maxNonce
  BY DEF WindowInv, WordsAreMemory
<1>3. /\ LowIsRight(bitmapLow, maxNonce, accepted)
      /\ HighIsRight(bitmapHigh, maxNonce, accepted)
  BY <1>1, LowBitByBit, HighBitByBit DEF WindowInv, WordsAreMemory
<1>4. /\ maxNonce' \in accepted' /\ maxNonce' \in 0..MaxNonce
      /\ \A n \in accepted' : n <= maxNonce'
      /\ bitmapLow' \subseteq Bits /\ bitmapHigh' \subseteq Bits
      /\ LowIsRight(bitmapLow', maxNonce', accepted')
      /\ HighIsRight(bitmapHigh', maxNonce', accepted')
  <2>1. CASE ~initialized
    <3>1. /\ maxNonce' = nonce /\ bitmapLow' = {0} /\ bitmapHigh' = {}
          /\ accepted' = {nonce}
      BY <1>2, <2>1 DEF update
    <3>2. \A d \in Bits : nonce - d = nonce <=> d = 0
      BY <1>1, WordFacts
    <3>3. \A d \in Bits : nonce - (d + Word) # nonce
      BY <1>1, WordFacts
    <3> QED
      BY <1>1, <3>1, <3>2, <3>3, WordFacts DEF LowIsRight, HighIsRight, Remembered
  <2>2. CASE initialized /\ nonce > maxNonce
    <3>1. maxNonce' = nonce /\ Slide(nonce - maxNonce)
      BY <1>1, <2>2 DEF update
    <3>2. \A n \in accepted' : n <= nonce
      BY <1>1, <1>2, <2>2
    <3>3. accepted \in SUBSET (0..maxNonce)
      BY <1>1, <1>2
    <3>4. /\ LowIsRight(bitmapLow', nonce, accepted \cup {nonce})
          /\ HighIsRight(bitmapHigh', nonce, accepted \cup {nonce})
      BY <1>1, <1>3, <2>2, <3>1, <3>3, SlideKeepsMemory
    <3>5. nonce - maxNonce \in Nat /\ nonce - maxNonce > 0
      BY <1>1, <2>2
    <3>6. bitmapLow' \subseteq Bits /\ bitmapHigh' \subseteq Bits
      BY <1>1, <3>1, <3>5, SlideStaysInWords
    <3> QED
      BY <1>1, <3>1, <3>2, <3>4, <3>6
  <2>3. CASE initialized /\ nonce <= maxNonce
    <3> DEFINE D == maxNonce - nonce
    <3>1. maxNonce' = maxNonce /\ Mark(D) /\ D \in Nat /\ nonce = maxNonce - D
      BY <1>1, <2>3 DEF update
    <3>2. /\ bitmapLow' = IF D < Word THEN bitmapLow \cup {D} ELSE bitmapLow
          /\ bitmapHigh' = IF D >= Word /\ D < 2 * Word
                           THEN bitmapHigh \cup {D - Word} ELSE bitmapHigh
      BY <3>1 DEF Mark
    <3>3. ASSUME NEW k \in Nat
          PROVE  Remembered(maxNonce, accepted', k) <=>
                   k = D \/ Remembered(maxNonce, accepted, k)
      <4>1. maxNonce - k = nonce <=> k = D
        BY <1>1, <3>1
      <4>2. k = D => k <= maxNonce
        BY <1>1
      <4> QED
        BY <4>1, <4>2 DEF Remembered
    <3> HIDE DEF D
    <3>4. ASSUME NEW d \in Bits
          PROVE  /\ d \in bitmapLow' <=> Remembered(maxNonce, accepted', d)
                 /\ d \in bitmapHigh' <=> Remembered(maxNonce, accepted', d + Word)
      <4>1. d \in Nat /\ d < Word /\ d + Word \in Nat /\ Word \in Nat
        BY WordFacts
      <4>2. d \in bitmapLow' <=> d = D \/ d \in bitmapLow
        BY <3>1, <3>2, <4>1
      <4>3. d \in bitmapHigh' <=> d + Word = D \/ d \in bitmapHigh
        <5>1. d + Word = D <=> d = D - Word
          BY <3>1, <4>1
        <5>2. d + Word = D => D >= Word /\ D < 2 * Word
          BY <3>1, <4>1
        <5> QED
          BY <3>2, <5>1, <5>2
      <4> QED
        BY <1>3, <3>3, <4>1, <4>2, <4>3 DEF LowIsRight, HighIsRight
    <3>5. bitmapLow' \subseteq Bits /\ bitmapHigh' \subseteq Bits
      BY <1>1, <3>1, <3>2, WordFacts
    <3>6. /\ LowIsRight(bitmapLow', maxNonce, accepted')
          /\ HighIsRight(bitmapHigh', maxNonce, accepted')
      BY <3>4 DEF LowIsRight, HighIsRight
    <3>7. maxNonce' \in accepted' /\ \A n \in accepted' : n <= maxNonce'
      BY <1>2, <2>3, <3>1
    <3> QED
      BY <1>1, <3>1, <3>5, <3>6, <3>7
  <2> QED
    BY <1>1, <2>1, <2>2, <2>3
<1>5. maxNonce' \in Nat /\ accepted' \in SUBSET Nat
  BY <1>1, <1>4
<1>6. bitmapLow' \in SUBSET Bits /\ bitmapHigh' \in SUBSET Bits
  BY <1>4
<1>7. bitmapLow' = {d \in Bits : d <= maxNonce' /\ (maxNonce' - d) \in accepted'}
  BY <1>4, <1>6 DEF LowIsRight, Remembered
<1>8. bitmapHigh' = {d \in Bits :
        d + Word <= maxNonce' /\ (maxNonce' - d - Word) \in accepted'}
  BY <1>4, <1>5, <1>6, HighBitByBit
<1> QED
  BY <1>1, <1>4, <1>7, <1>8 DEF WordsAreMemory

LEMMA InitInv == SessionInit => WindowInv
<1> SUFFICES ASSUME SessionInit PROVE WindowInv
  OBVIOUS
<1>1. 0 \in 0..(MaxNonce + 1) /\ 0 \in 0..MaxNonce
  BY NoiseSessionAssumption
<1> QED
  BY <1>1 DEF SessionInit, WindowInv, SessionTypeOK, WordsAreMemory

LEMMA NextInv == WindowInv /\ [SessionNext]_session_vars => WindowInv'
<1> SUFFICES ASSUME WindowInv, [SessionNext]_session_vars PROVE WindowInv'
  OBVIOUS
<1> USE NoiseSessionAssumption
<1>1. CASE Sent
  BY <1>1 DEF Sent, window, WindowInv, SessionTypeOK, WordsAreMemory
<1>2. ASSUME NEW nonce \in 0..MaxNonce, Decrypt(nonce) PROVE WindowInv'
  <2>1. CASE ~closed /\ check(nonce)
    <3>1. update(nonce) /\ accepted' = accepted \cup {nonce} /\ answer' = "accepted"
          /\ sent' = sent /\ closed' = closed
      BY <1>2, <2>1 DEF Decrypt
    <3>2. initialized' \in BOOLEAN
      BY <3>1, Zenon DEF update
    <3>3. /\ WordsAreMemory' /\ maxNonce' \in 0..MaxNonce
          /\ bitmapLow' \subseteq Bits /\ bitmapHigh' \subseteq Bits
      BY <3>1, UpdateRemembers
    <3> QED
      BY <3>1, <3>2, <3>3 DEF WindowInv, SessionTypeOK
  <2>2. CASE closed \/ ~check(nonce)
    <3>1. /\ UNCHANGED <<initialized, maxNonce, bitmapLow, bitmapHigh, accepted, sent>>
          /\ closed' = closed /\ answer' = "refused"
      BY <1>2, <2>2 DEF Decrypt, window
    <3> QED
      BY <3>1 DEF WindowInv, SessionTypeOK, WordsAreMemory
  <2> QED
    BY <2>1, <2>2
<1>3. CASE DecryptBad
  BY <1>3 DEF DecryptBad, window, WindowInv, SessionTypeOK, WordsAreMemory
<1>4. CASE reset
  BY <1>4 DEF reset, window, WindowInv, SessionTypeOK, WordsAreMemory
<1>5. CASE UNCHANGED session_vars
  BY <1>5 DEF session_vars, window, WindowInv, SessionTypeOK, WordsAreMemory
<1> QED
  BY <1>1, <1>2, <1>3, <1>4, <1>5 DEF SessionNext

LEMMA Invariance == SessionSpec => []WindowInv
BY InitInv, NextInv, PTL DEF SessionSpec

\* The two words remember exactly the packets accepted within the window.
THEOREM Memory == SessionSpec => []WordsAreMemory
<1>1. WindowInv => WordsAreMemory
  BY DEF WindowInv
<1> QED
  BY <1>1, Invariance, PTL

\* check() lets a packet through when, and only when, the guard accepts it.
LEMMA CheckIsAcceptable ==
  ASSUME WindowInv, NEW nonce \in 0..MaxNonce
  PROVE  check(nonce) <=> Guard!Acceptable(nonce)
<1>1. /\ WordsAreMemory /\ Word \in Nat /\ Word > 0
      /\ maxNonce \in Nat /\ nonce \in Nat /\ accepted \subseteq Nat
  BY NoiseSessionAssumption DEF WindowInv, SessionTypeOK
<1>2. CASE ~initialized
  BY <1>1, <1>2 DEF WordsAreMemory, check, Guard!Acceptable
<1>3. CASE initialized /\ nonce > maxNonce
  BY <1>1, <1>3 DEF WordsAreMemory, check, Guard!Acceptable
<1>4. CASE initialized /\ nonce <= maxNonce
  <2> DEFINE D == maxNonce - nonce
  <2>1. maxNonce \in accepted /\ \A n \in accepted : n <= maxNonce
    BY <1>1, <1>4 DEF WordsAreMemory
  <2>2. D \in Nat /\ maxNonce - D = nonce /\ D <= maxNonce
    BY <1>1, <1>4
  <2>3. (\A m \in accepted : m < nonce + 2 * Word) <=> D < 2 * Word
    BY <1>1, <1>4, <2>1
  <2>4. D < Word => (D \in bitmapLow <=> nonce \in accepted)
    BY <1>1, <2>2, WordFacts DEF WordsAreMemory
  <2>5. D >= Word /\ D < 2 * Word => (D - Word \in bitmapHigh <=> nonce \in accepted)
    <3>1. ASSUME D >= Word, D < 2 * Word
          PROVE  /\ D - Word \in Bits /\ (D - Word) + Word <= maxNonce
                 /\ maxNonce - (D - Word) - Word = nonce
      BY <1>1, <2>2, <3>1, WordFacts
    <3> QED
      BY <1>1, <3>1 DEF WordsAreMemory
  <2>6. check(nonce) <=> \/ D < Word /\ D \notin bitmapLow
                         \/ D >= Word /\ D < 2 * Word /\ (D - Word) \notin bitmapHigh
    BY <1>1, <1>4 DEF check
  <2>7. Guard!Acceptable(nonce) <=> nonce \notin accepted /\ D < 2 * Word
    BY <2>3 DEF Guard!Acceptable
  <2> QED
    BY <1>1, <2>2, <2>4, <2>5, <2>6, <2>7
<1> QED
  BY <1>1, <1>2, <1>3, <1>4

\* For every width of a word, decryption implements the guard, and after reset()
\* every packet is refused.
THEOREM Refinement == SessionSpec => ImplementsGuard
<1>1. SessionInit => Guard!Init
  BY DEF SessionInit, Guard!Init
<1>2. WindowInv /\ [SessionNext]_session_vars => [Guard!Next]_(Guard!vars)
  <2> SUFFICES ASSUME WindowInv, [SessionNext]_session_vars PROVE [Guard!Next]_(Guard!vars)
    OBVIOUS
  <2>1. CASE Sent
    BY <2>1 DEF Sent, Guard!Next, Guard!Send
  <2>2. ASSUME NEW nonce \in 0..MaxNonce, Decrypt(nonce) PROVE Guard!Next
    <3>1. CASE ~closed
      <4>1. Guard!Deliver(nonce)
        BY <2>2, <3>1, CheckIsAcceptable DEF Decrypt, Guard!Deliver
      <4> QED
        BY <4>1 DEF Guard!Next
    <3>2. CASE closed
      BY <2>2, <3>2 DEF Decrypt, Guard!Next, Guard!DeliverBad
    <3> QED
      BY <3>1, <3>2
  <2>3. CASE DecryptBad
    BY <2>3 DEF DecryptBad, Guard!Next, Guard!DeliverBad
  <2>4. CASE reset
    BY <2>4 DEF reset, Guard!vars
  <2>5. CASE UNCHANGED session_vars
    BY <2>5 DEF session_vars, Guard!vars
  <2> QED
    BY <2>1, <2>2, <2>3, <2>4, <2>5 DEF SessionNext
<1> QED
  BY <1>1, <1>2, Invariance, PTL DEF SessionSpec, ImplementsGuard, Guard!Spec

---------------------------------------------------------------------------
(***************************************************************************)
(* WifiDispatcher: the live link is the one that is wanted, and alone.     *)
(***************************************************************************)
\* Who holds a link holds one of its own request, to its own PC.
HoldsOwn(w) ==
  /\ w.mine <= generation
  /\ w.step # "established" => w.link = 0
  /\ w.step = "established" =>
       /\ w.link \in Links
       /\ links[w.link].mine = w.mine /\ links[w.link].pc = w.pc
       /\ w.mine = generation => links[w.link].open

\* One worker at most is there for the request that is wanted, and none when its link is live.
OneInv ==
  /\ \A c \in connects : c.mine = generation =>
       /\ c.pc = target /\ link = 0
       /\ \A d \in connects : d.mine = generation => d = c
       /\ \A r \in reconnects : r.mine # generation
  /\ \A r \in reconnects : r.mine = generation =>
       /\ r.pc = target /\ link = 0 /\ r.cancelled = FALSE
       /\ \A s \in reconnects : s.mine = generation => s = r

\* The sockets of the wanted request that are open: the live one, or the one its worker holds.
OpenInv ==
  /\ \A l \in Links : links[l].mine <= generation
  /\ LiveLinkIsWanted
  /\ \A l \in Links : links[l].open /\ links[l].mine = generation =>
       \/ l = link
       \/ /\ link = 0
          /\ \A c \in connects : c.mine = generation => c.link = l
          /\ \A r \in reconnects : r.mine = generation => r.link = l

WifiInv ==
  /\ WifiTypeOK
  /\ \A w \in connects \cup reconnects : HoldsOwn(w)
  /\ OneInv
  /\ OpenInv

-----------------------------------------------------------------------------
(* Typing. *)

Sockets == [pc : PCs, mine : 1..MaxRequests, open : BOOLEAN]

\* What becomes of the links when one of them is closed, and when another one comes up.
LEMMA ClosedLinks ==
  ASSUME links \in Seq(Sockets), NEW l
  PROVE  /\ Closed(l) \in Seq(Sockets) /\ Len(Closed(l)) = Len(links) /\ DOMAIN Closed(l) = Links
         /\ \A k \in Links : /\ Closed(l)[k].pc = links[k].pc /\ Closed(l)[k].mine = links[k].mine
                             /\ k # l => Closed(l)[k] = links[k]
                             /\ k = l => Closed(l)[k].open = FALSE
<1>1. Links = 1..Len(links) /\ Len(links) \in Nat
  BY DEF Links
<1>2. \A k \in Links : links[k] \in Sockets
  BY <1>1
<1>3. \A k \in Links : [links[k] EXCEPT !.open = FALSE] \in Sockets
  BY <1>2 DEF Sockets
<1>4. Closed(l) \in [1..Len(links) -> Sockets]
  BY <1>1, <1>2, <1>3 DEF Closed
<1>5. Closed(l) \in Seq(Sockets)
  BY <1>1, <1>4, SeqDef
<1> QED
  BY <1>1, <1>2, <1>4, <1>5 DEF Closed, Sockets

LEMMA OpenedLinks ==
  ASSUME links \in Seq(Sockets), NEW p \in PCs, NEW mine \in 1..MaxRequests
  PROVE  /\ Opened(p, mine) \in Seq(Sockets) /\ DOMAIN Opened(p, mine) = Links \cup {NewLink}
         /\ Len(Opened(p, mine)) = NewLink /\ NewLink \notin Links
         /\ Opened(p, mine)[NewLink] = [pc |-> p, mine |-> mine, open |-> TRUE]
         /\ \A k \in Links : Opened(p, mine)[k] = links[k]
BY DEF Opened, Sockets, NewLink, Links

LEMMA InitTyped == WifiInit => WifiTypeOK
<1> SUFFICES ASSUME WifiInit PROVE WifiTypeOK
  OBVIOUS
<1>1. links \in Seq([pc : PCs, mine : 1..MaxRequests, open : BOOLEAN]) /\ Len(links) <= MaxLinks
  BY WifiDispatcherAssumption DEF WifiInit
<1>2. generation \in 0..MaxRequests
  BY WifiDispatcherAssumption DEF WifiInit
<1> QED
  BY <1>1, <1>2 DEF WifiInit, WifiTypeOK

LEMMA NextTyped == WifiInv /\ [WifiNext]_wifi_vars => WifiTypeOK'
<1> SUFFICES ASSUME WifiInv, WifiTypeOK, [WifiNext]_wifi_vars PROVE WifiTypeOK'
  BY DEF WifiInv
<1>a. /\ links \in Seq(Sockets) /\ Len(links) \in Nat /\ Links = 1..Len(links) /\ Len(links) <= MaxLinks
      /\ connects \subseteq Connects /\ reconnects \subseteq Reconnects /\ generation \in 0..MaxRequests
      /\ link \in {0} \cup Links /\ MaxRequests \in Nat /\ MaxLinks \in Nat /\ established \subseteq PCs
      /\ reported \subseteq PCs /\ main \in {Idle, Disconnected} \cup Shown /\ target \in PCs \cup {NoPC}
      /\ publishing \subseteq Links
  BY WifiDispatcherAssumption DEF WifiTypeOK, Sockets, Links
<1>b. \A l : Closed(l) \in Seq(Sockets) /\ Len(Closed(l)) = Len(links) /\ DOMAIN Closed(l) = Links
  BY <1>a, ClosedLinks
<1>zero. 0 \in 0..MaxLinks /\ FALSE \in BOOLEAN
  BY <1>a
<1>c. ASSUME NEW c \in connects, NEW step \in {"established", "notPaired", "silent"},
             step = "established" => NewLink <= MaxLinks
      PROVE  Ended(c, step) \in Connects
  BY <1>a, <1>c DEF Connects, Ended, NewLink
<1>r. ASSUME NEW r \in reconnects, NEW step \in {"established", "notPaired", "top"},
             step = "established" => NewLink <= MaxLinks
      PROVE  Ended(r, step) \in Reconnects
  BY <1>a, <1>r DEF Reconnects, Ended, NewLink
<1>rs. ASSUME NEW r \in reconnects, NEW step \in {"top", "wanted", "delay", "attempting"}
       PROVE  [r EXCEPT !.step = step] \in Reconnects
  BY <1>a DEF Reconnects
<1>l. \A l \in Links : links[l] \in Sockets
  BY <1>a
<1>o. ASSUME NEW p \in PCs, NEW mine \in 1..MaxRequests, links' = Opened(p, mine), NewLink <= MaxLinks
      PROVE  links' \in Seq(Sockets) /\ Links' = Links \cup {NewLink} /\ Len(links') <= MaxLinks
  BY <1>a, <1>o, OpenedLinks DEF Links
<1> USE DEF Links, Sockets
<1>1. ASSUME NEW asked \in PCs, connectTo(asked) PROVE WifiTypeOK'
  <2>1. /\ generation' \in 0..MaxRequests /\ generation' \in 1..MaxRequests /\ link' = 0 /\ links' = Closed(link)
        /\ reconnects' = {[r EXCEPT !.cancelled = TRUE] : r \in reconnects}
        /\ target' \in PCs \cup {NoPC} /\ abandoned' = FALSE
    BY <1>1, <1>a DEF connectTo, Teardown, WifiTypeOK
  <2>2. reconnects' \subseteq Reconnects
    BY <1>a, <2>1 DEF Reconnects
  <2> DEFINE new == [mine |-> generation', pc |-> asked, cancelled |-> FALSE, link |-> 0,
                     step |-> "attempting"]
  <2>n. new \in Connects
    BY <1>zero, <2>1 DEF Connects
  <2>c. connects' = connects \cup {new}
    BY <1>1 DEF connectTo, begin
  <2> HIDE DEF new
  <2>3. connects' \subseteq Connects
    BY <1>a, <2>n, <2>c
  <2>4. /\ main' \in Shown
        /\ UNCHANGED <<publishing, state, established, reported>>
    BY <1>1 DEF connectTo, Shown
  <2> QED
    BY <1>a, <1>b, <2>1, <2>2, <2>3, <2>4 DEF WifiTypeOK
<1>2. ASSUME NEW asked \in PCs, connectToSame(asked) PROVE WifiTypeOK'
  BY <1>2, <1>a, <1>b DEF connectToSame, under_lock, WifiTypeOK, Shown, Connects, Reconnects, Disconnected, Idle
<1>3. CASE disconnect
  <2>1. /\ generation' \in 0..MaxRequests /\ generation' \in 1..MaxRequests /\ link' = 0 /\ links' = Closed(link)
        /\ reconnects' = {[r EXCEPT !.cancelled = TRUE] : r \in reconnects}
        /\ target' \in PCs \cup {NoPC} /\ abandoned' = FALSE
    BY <1>3, <1>a DEF disconnect, Teardown, WifiTypeOK
  <2>2. reconnects' \subseteq Reconnects
    BY <1>a, <2>1 DEF Reconnects
  <2>3. main' = Disconnected /\ UNCHANGED <<connects, publishing, state, established, reported>>
    BY <1>3 DEF disconnect
  <2> QED
    BY <1>a, <1>b, <2>1, <2>2, <2>3 DEF WifiTypeOK
<1>4. CASE Show
  BY <1>4, <1>a, <1>b DEF Show, under_lock, WifiTypeOK, Shown, Connects, Reconnects, Disconnected, Idle
<1>5. ASSUME NEW c \in connects, CallerCancelled(c) PROVE WifiTypeOK'
  <2>1. [c EXCEPT !.cancelled = TRUE] \in Connects
    BY <1>a DEF Connects
  <2> QED
    BY <1>5, <2>1 DEF CallerCancelled, under_lock, WifiTypeOK, Links
<1>6. ASSUME NEW c \in connects, NEW step \in {"established", "notPaired", "silent"}, AttemptEnds(c, step) PROVE WifiTypeOK'
  <2>1. CASE step # "established"
    <3>1. links' = links /\ established' = established
      BY <1>6, <2>1 DEF AttemptEnds
    <3>2. connects' \subseteq Connects
      BY <1>6, <1>a, <1>c, <2>1 DEF AttemptEnds
    <3> QED
      BY <1>6, <3>1, <3>2 DEF AttemptEnds, under_lock, WifiTypeOK, Links
  <2>2. CASE step = "established"
    <3>1. links' = Opened(c.pc, c.mine) /\ NewLink \in 1..MaxLinks /\ c \in Connects
          /\ established' = established \cup {c.pc}
      BY <1>6, <1>a, <2>2 DEF AttemptEnds, NewLink
    <3>2. c.pc \in PCs /\ c.mine \in 1..MaxRequests
      BY <3>1 DEF Connects
    <3>3. connects' \subseteq Connects
      BY <1>6, <1>a, <1>c, <2>2, <3>1 DEF AttemptEnds
    <3>m. NewLink <= MaxLinks
      BY <1>a, <3>1 DEF NewLink
    <3>4. links' \in Seq(Sockets) /\ Links' = Links \cup {NewLink} /\ Len(links') <= MaxLinks
      BY <1>o, <3>1, <3>2, <3>m
    <3> QED
      BY <1>6, <1>a, <3>1, <3>2, <3>3, <3>4 DEF AttemptEnds, under_lock, WifiTypeOK
  <2> QED
    BY <2>1, <2>2
<1>7. ASSUME NEW c \in connects, ResumesCancelled(c) PROVE WifiTypeOK'
  BY <1>7, <1>a, <1>b DEF ResumesCancelled, under_lock, WifiTypeOK, Shown, Connects, Reconnects, Disconnected, Idle
<1>8. ASSUME NEW c \in connects, Resumes(c) PROVE WifiTypeOK'
  <2>1. links' = links \/ links' = Closed(c.link)
    BY <1>8 DEF Resumes, onEstablished
  <2>2. c.pc \in PCs
    BY <1>a DEF Connects
  <2>3. link' = link \/ (link' = c.link /\ c.step = "established")
    BY <1>8 DEF Resumes, onEstablished
  <2>4. link' \in {0} \cup Links
    BY <1>a, <1>8, <2>3 DEF WifiInv, HoldsOwn
  <2>5. connects' \subseteq Connects /\ reported' \subseteq PCs /\ main' \in {Idle, Disconnected} \cup Shown
    BY <1>8, <1>a, <2>2 DEF Resumes, fail, Shown
  <2> QED
    BY <1>8, <1>a, <1>b, <2>1, <2>4, <2>5 DEF Resumes, WifiTypeOK
<1>9. ASSUME NEW l \in Links, MayPublish(l) PROVE WifiTypeOK'
  BY <1>9, <1>a, <1>b DEF MayPublish, Live, under_lock, WifiTypeOK, Shown, Connects, Reconnects, Disconnected, Idle
<1>10. ASSUME NEW l \in Links, Publish(l) PROVE WifiTypeOK'
  <2>1. links[l] \in Sockets
    BY <1>l
  <2>2. state' \in Shown
    BY <1>10, <2>1 DEF Publish, Shown, Sockets
  <2> QED
    BY <1>10, <1>a, <2>2 DEF Publish, under_lock, WifiTypeOK, Links
<1>11. ASSUME NEW l \in Links, onLost(l) PROVE WifiTypeOK'
  <2>1. links' = Closed(l) /\ link' = 0 /\ link # 0
    BY <1>11, <1>a DEF onLost, Live, Links
  <2>2. links[l] \in Sockets
    BY <1>l
  <2>3. generation \in 1..MaxRequests /\ links[l].pc \in PCs
    BY <1>11, <1>a, <2>2 DEF onLost, stillWanted, Sockets
  <2> DEFINE new == [mine |-> generation, pc |-> links[l].pc, cancelled |-> FALSE, link |-> 0,
                     step |-> "top"]
  <2>n. new \in Reconnects
    BY <1>zero, <2>3 DEF Reconnects
  <2>c. reconnects' = reconnects \cup {new}
    BY <1>11 DEF onLost
  <2> HIDE DEF new
  <2>4. reconnects' \subseteq Reconnects
    BY <1>a, <2>n, <2>c
  <2> QED
    BY <1>11, <1>a, <1>b, <2>1, <2>4 DEF onLost, WifiTypeOK
<1>12. ASSUME NEW r \in reconnects, ReconnectLoop(r) PROVE WifiTypeOK'
  <2>1. reconnects' \subseteq Reconnects
    BY <1>12, <1>a, <1>rs DEF ReconnectLoop, Becomes, Ends
  <2> QED
    BY <1>12, <2>1 DEF ReconnectLoop, under_lock, WifiTypeOK
<1>13. ASSUME NEW r \in reconnects, GiveUp(r) PROVE WifiTypeOK'
  BY <1>13, <1>a, <1>b DEF GiveUp, Ends, under_lock, WifiTypeOK, Shown, Connects, Reconnects, Disconnected, Idle
<1>14. ASSUME NEW r \in reconnects, ShowReconnecting(r) PROVE WifiTypeOK'
  <2>1. reconnects' \subseteq Reconnects
    BY <1>14, <1>a, <1>rs DEF ShowReconnecting, Becomes
  <2>2. r.pc \in PCs
    BY <1>a DEF Reconnects
  <2> QED
    BY <1>14, <2>1, <2>2 DEF ShowReconnecting, under_lock, WifiTypeOK, Shown
<1>15. ASSUME NEW r \in reconnects, DelayEnds(r) PROVE WifiTypeOK'
  <2>1. reconnects' \subseteq Reconnects
    BY <1>15, <1>a, <1>rs DEF DelayEnds, Becomes, Ends
  <2> QED
    BY <1>15, <2>1 DEF DelayEnds, under_lock, WifiTypeOK
<1>16. ASSUME NEW r \in reconnects, NEW step \in {"established", "notPaired", "top"}, ReattemptEnds(r, step) PROVE WifiTypeOK'
  <2>1. CASE step # "established"
    <3>1. links' = links /\ established' = established
      BY <1>16, <2>1 DEF ReattemptEnds
    <3>2. reconnects' \subseteq Reconnects
      BY <1>16, <1>a, <1>r, <2>1 DEF ReattemptEnds, Ends
    <3> QED
      BY <1>16, <3>1, <3>2 DEF ReattemptEnds, under_lock, WifiTypeOK, Links
  <2>2. CASE step = "established"
    <3>1. links' = Opened(r.pc, r.mine) /\ NewLink \in 1..MaxLinks /\ r \in Reconnects
          /\ established' = established \cup {r.pc}
      BY <1>16, <1>a, <2>2 DEF ReattemptEnds, NewLink
    <3>2. r.pc \in PCs /\ r.mine \in 1..MaxRequests
      BY <3>1 DEF Reconnects
    <3>3. reconnects' \subseteq Reconnects
      BY <1>16, <1>a, <1>r, <2>2, <3>1 DEF ReattemptEnds, Ends
    <3>m. NewLink <= MaxLinks
      BY <1>a, <3>1 DEF NewLink
    <3>4. links' \in Seq(Sockets) /\ Links' = Links \cup {NewLink} /\ Len(links') <= MaxLinks
      BY <1>o, <3>1, <3>2, <3>m
    <3> QED
      BY <1>16, <1>a, <3>1, <3>2, <3>3, <3>4 DEF ReattemptEnds, under_lock, WifiTypeOK
  <2> QED
    BY <2>1, <2>2
<1>17. ASSUME NEW r \in reconnects, Reconnected(r) PROVE WifiTypeOK'
  <2>1. links' = links \/ links' = Closed(r.link)
    BY <1>17 DEF Reconnected, onEstablished
  <2>3. link' = link \/ (link' = r.link /\ r.step = "established")
    BY <1>17 DEF Reconnected, onEstablished
  <2>4. link' \in {0} \cup Links
    BY <1>a, <1>17, <2>3 DEF WifiInv, HoldsOwn
  <2>5. reconnects' \subseteq Reconnects
    BY <1>17, <1>a DEF Reconnected, Ends
  <2> QED
    BY <1>17, <1>a, <1>b, <2>1, <2>4, <2>5 DEF Reconnected, WifiTypeOK
<1>18. ASSUME NEW r \in reconnects, Refused(r) PROVE WifiTypeOK'
  BY <1>18, <1>a, <1>b DEF Refused, Ends, under_lock, WifiTypeOK, Shown, Connects, Reconnects, Disconnected, Idle
<1>19. CASE UNCHANGED wifi_vars
  BY <1>19 DEF wifi_vars, under_lock, WifiTypeOK
<1> QED
  BY <1>1, <1>2, <1>3, <1>4, <1>5, <1>6, <1>7, <1>8, <1>9, <1>10, <1>11, <1>12, <1>13, <1>14, <1>15, <1>16, <1>17, <1>18, <1>19 DEF WifiNext

-----------------------------------------------------------------------------
(* Workers and the links they hold. *)

\* What the invariant says, with the types spelt out.
LEMMA Facts ==
  WifiInv => /\ links \in Seq(Sockets) /\ Len(links) \in Nat /\ Links = 1..Len(links)
             /\ 0 \notin Links /\ NewLink \notin Links /\ generation \in Nat /\ link \in {0} \cup Links
             /\ \A l \in Links : links[l] \in Sockets /\ links[l].mine \in Nat
             /\ \A c \in connects : c \in Connects /\ c.mine \in Nat /\ HoldsOwn(c)
             /\ \A r \in reconnects : r \in Reconnects /\ r.mine \in Nat /\ HoldsOwn(r)
             /\ OneInv /\ OpenInv
<1> SUFFICES ASSUME WifiInv PROVE Facts!2
  OBVIOUS
<1>1. /\ links \in Seq(Sockets) /\ generation \in 0..MaxRequests /\ link \in {0} \cup Links
      /\ connects \subseteq Connects /\ reconnects \subseteq Reconnects /\ MaxRequests \in Nat
  BY WifiDispatcherAssumption DEF WifiInv, WifiTypeOK, Sockets
<1>2. Len(links) \in Nat /\ Links = 1..Len(links)
  BY <1>1 DEF Links
<1>3. 0 \notin Links /\ NewLink \notin Links /\ generation \in Nat
  BY <1>1, <1>2 DEF NewLink
<1>4. \A l \in Links : links[l] \in Sockets
  BY <1>1, <1>2
<1>5. \A s \in Sockets : s.mine \in Nat
  BY <1>1 DEF Sockets
<1>6. \A c \in Connects : c.mine \in Nat
  BY <1>1 DEF Connects
<1>7. \A r \in Reconnects : r.mine \in Nat
  BY <1>1 DEF Reconnects
<1> QED
  BY <1>1, <1>2, <1>3, <1>4, <1>5, <1>6, <1>7 DEF WifiInv

\* A worker keeps what it holds as long as its link is not closed under it.
LEMMA Kept ==
  ASSUME NEW w, HoldsOwn(w), w.mine \in Nat, generation \in Nat, generation' \in Nat,
         generation' >= generation, Links \subseteq Links',
         \A l \in Links : links'[l].pc = links[l].pc /\ links'[l].mine = links[l].mine,
         w.mine = generation' /\ w.step = "established" => links'[w.link].open = links[w.link].open
  PROVE  HoldsOwn(w)'
BY DEF HoldsOwn

\* Where no link changes and no generation begins, only what changes hands matters.
LEMMA KeptStill ==
  ASSUME NEW w, HoldsOwn(w), UNCHANGED <<generation, links>>
  PROVE  HoldsOwn(w)'
BY DEF HoldsOwn, Links

LEMMA NextOwn == WifiInv /\ [WifiNext]_wifi_vars => \A w \in (connects \cup reconnects)' : HoldsOwn(w)'
<1> SUFFICES ASSUME WifiInv, [WifiNext]_wifi_vars PROVE \A w \in (connects \cup reconnects)' : HoldsOwn(w)'
  OBVIOUS
<1>a. /\ links \in Seq(Sockets) /\ Len(links) \in Nat /\ Links = 1..Len(links)
      /\ 0 \notin Links /\ NewLink \notin Links /\ generation \in Nat /\ link \in {0} \cup Links
      /\ \A l \in Links : links[l] \in Sockets /\ links[l].mine \in Nat
  BY Facts
<1>c. \A c \in connects : c \in Connects /\ c.mine \in Nat /\ HoldsOwn(c)
  BY Facts
<1>r. \A r \in reconnects : r \in Reconnects /\ r.mine \in Nat /\ HoldsOwn(r)
  BY Facts
<1>w. OneInv /\ OpenInv
  BY Facts
<1>s. UNCHANGED <<generation, links>> => \A w \in connects \cup reconnects : HoldsOwn(w)'
  BY <1>c, <1>r, KeptStill
<1>x. ASSUME NEW l, NEW mine, links' = Closed(l), UNCHANGED generation,
             l \in Links => links[l].mine # generation \/ \A w \in connects \cup reconnects : w.mine # generation
      PROVE  \A w \in connects \cup reconnects : HoldsOwn(w)'
  <2>1. /\ Links' = Links
        /\ \A k \in Links : /\ links'[k].pc = links[k].pc /\ links'[k].mine = links[k].mine
                            /\ k # l => links'[k].open = links[k].open
    BY <1>a, <1>x, ClosedLinks DEF Links
  <2> TAKE w \in connects \cup reconnects
  <2>2. HoldsOwn(w) /\ w.mine \in Nat
    BY <1>c, <1>r
  <2>3. w.mine = generation' /\ w.step = "established" => links'[w.link].open = links[w.link].open
    BY <1>x, <2>1, <2>2 DEF HoldsOwn
  <2> QED
    BY <1>a, <1>x, <2>1, <2>2, <2>3, Kept
<1>o. ASSUME NEW p \in PCs, NEW mine \in 1..MaxRequests, links' = Opened(p, mine), UNCHANGED generation
      PROVE  /\ \A w \in connects \cup reconnects : HoldsOwn(w)'
             /\ NewLink \in Links' /\ links'[NewLink] = [pc |-> p, mine |-> mine, open |-> TRUE]
  <2>1. /\ Links' = Links \cup {NewLink} /\ \A k \in Links : links'[k] = links[k]
        /\ links'[NewLink] = [pc |-> p, mine |-> mine, open |-> TRUE]
    BY <1>a, <1>o, OpenedLinks DEF Links
  <2>2. ASSUME NEW w \in connects \cup reconnects PROVE HoldsOwn(w)'
    <3>1. HoldsOwn(w) /\ w.mine \in Nat
      BY <1>c, <1>r
    <3>2. w.mine = generation' /\ w.step = "established" => links'[w.link].open = links[w.link].open
      BY <2>1, <3>1 DEF HoldsOwn
    <3> QED
      BY <1>a, <1>o, <2>1, <3>1, <3>2, Kept
  <2> QED
    BY <2>1, <2>2
<1>1. ASSUME NEW asked \in PCs, connectTo(asked) PROVE \A w \in (connects \cup reconnects)' : HoldsOwn(w)'
  <2>1. generation' = generation + 1 /\ links' = Closed(link)
        /\ reconnects' = {[r EXCEPT !.cancelled = TRUE] : r \in reconnects}
    BY <1>1 DEF connectTo, Teardown
  <2>2. Links' = Links /\ \A k \in Links : links'[k].pc = links[k].pc /\ links'[k].mine = links[k].mine
    BY <1>a, <2>1, ClosedLinks DEF Links
  <2>3. ASSUME NEW w \in connects \cup reconnects PROVE HoldsOwn(w)' /\ w.mine # generation'
    <3>1. HoldsOwn(w) /\ w.mine \in Nat /\ w.mine # generation'
      BY <1>a, <1>c, <1>r, <2>1 DEF HoldsOwn
    <3> QED
      BY <1>a, <2>1, <2>2, <3>1, Kept
  <2>4. ASSUME NEW r \in reconnects PROVE HoldsOwn([r EXCEPT !.cancelled = TRUE])'
    <3>1. r \in Reconnects /\ HoldsOwn(r)'
      BY <1>r, <2>3
    <3>2. /\ [r EXCEPT !.cancelled = TRUE].mine = r.mine /\ [r EXCEPT !.cancelled = TRUE].link = r.link
          /\ [r EXCEPT !.cancelled = TRUE].step = r.step /\ [r EXCEPT !.cancelled = TRUE].pc = r.pc
      BY <3>1 DEF Reconnects
    <3> QED
      BY <3>1, <3>2 DEF HoldsOwn
  <2> DEFINE new == [mine |-> generation', pc |-> asked, cancelled |-> FALSE, link |-> 0,
                     step |-> "attempting"]
  <2>5. connects' = connects \cup {new} /\ \A w : w = new => HoldsOwn(w)'
    BY <1>1, <1>a, <2>1 DEF connectTo, begin, HoldsOwn
  <2> HIDE DEF new
  <2> QED
    BY <2>1, <2>3, <2>4, <2>5
<1>2. ASSUME NEW asked \in PCs, connectToSame(asked) PROVE \A w \in (connects \cup reconnects)' : HoldsOwn(w)'
  BY <1>2, <1>s DEF connectToSame, under_lock
<1>3. CASE disconnect
  <2>1. generation' = generation + 1 /\ links' = Closed(link)
        /\ reconnects' = {[r EXCEPT !.cancelled = TRUE] : r \in reconnects}
    BY <1>3 DEF disconnect, Teardown
  <2>2. Links' = Links /\ \A k \in Links : links'[k].pc = links[k].pc /\ links'[k].mine = links[k].mine
    BY <1>a, <2>1, ClosedLinks DEF Links
  <2>3. ASSUME NEW w \in connects \cup reconnects PROVE HoldsOwn(w)' /\ w.mine # generation'
    <3>1. HoldsOwn(w) /\ w.mine \in Nat /\ w.mine # generation'
      BY <1>a, <1>c, <1>r, <2>1 DEF HoldsOwn
    <3> QED
      BY <1>a, <2>1, <2>2, <3>1, Kept
  <2>4. ASSUME NEW r \in reconnects PROVE HoldsOwn([r EXCEPT !.cancelled = TRUE])'
    <3>1. r \in Reconnects /\ HoldsOwn(r)'
      BY <1>r, <2>3
    <3>2. /\ [r EXCEPT !.cancelled = TRUE].mine = r.mine /\ [r EXCEPT !.cancelled = TRUE].link = r.link
          /\ [r EXCEPT !.cancelled = TRUE].step = r.step /\ [r EXCEPT !.cancelled = TRUE].pc = r.pc
      BY <3>1 DEF Reconnects
    <3> QED
      BY <3>1, <3>2 DEF HoldsOwn
  <2> QED
    BY <1>3, <2>1, <2>3, <2>4 DEF disconnect
<1>4. CASE Show
  BY <1>4, <1>s DEF Show, under_lock
<1>5. ASSUME NEW c \in connects, CallerCancelled(c) PROVE \A w \in (connects \cup reconnects)' : HoldsOwn(w)'
  <2>1. c \in Connects /\ HoldsOwn(c)' /\ UNCHANGED <<generation, links, reconnects>>
    BY <1>5, <1>c, <1>s DEF CallerCancelled, under_lock
  <2>2. HoldsOwn([c EXCEPT !.cancelled = TRUE])'
    BY <2>1 DEF Connects, HoldsOwn
  <2> QED
    BY <1>5, <1>s, <2>1, <2>2 DEF CallerCancelled
<1>6. ASSUME NEW c \in connects, NEW step \in {"established", "notPaired", "silent"}, AttemptEnds(c, step) PROVE \A w \in (connects \cup reconnects)' : HoldsOwn(w)'
  <2>1. c \in Connects /\ c.mine \in Nat /\ HoldsOwn(c) /\ c.pc \in PCs /\ c.mine \in 1..MaxRequests
        /\ UNCHANGED <<generation, reconnects>>
    BY <1>6, <1>c DEF AttemptEnds, under_lock, Connects
  <2>2. c.mine <= generation
    BY <2>1 DEF HoldsOwn
  <2>3. CASE step = "established"
    <3>1. links' = Opened(c.pc, c.mine)
      BY <1>6, <2>3 DEF AttemptEnds
    <3>2. /\ \A w \in connects \cup reconnects : HoldsOwn(w)'
          /\ NewLink \in Links' /\ links'[NewLink] = [pc |-> c.pc, mine |-> c.mine, open |-> TRUE]
      BY <1>o, <2>1, <3>1
    <3>3. \A w : w = Ended(c, step) => HoldsOwn(w)'
      BY <2>1, <2>2, <2>3, <3>2 DEF HoldsOwn, Ended
    <3> QED
      BY <1>6, <2>1, <3>2, <3>3 DEF AttemptEnds
  <2>4. CASE step # "established"
    <3>1. UNCHANGED links
      BY <1>6, <2>4 DEF AttemptEnds
    <3>2. \A w : w = Ended(c, step) => HoldsOwn(w)'
      BY <2>1, <2>2, <2>4 DEF HoldsOwn, Ended
    <3> QED
      BY <1>6, <1>s, <2>1, <3>1, <3>2 DEF AttemptEnds
  <2> QED
    BY <2>3, <2>4
<1>7. ASSUME NEW c \in connects, ResumesCancelled(c) PROVE \A w \in (connects \cup reconnects)' : HoldsOwn(w)'
  BY <1>7, <1>s DEF ResumesCancelled, under_lock
<1>8. ASSUME NEW c \in connects, Resumes(c) PROVE \A w \in (connects \cup reconnects)' : HoldsOwn(w)'
  <2>1. /\ UNCHANGED <<generation, reconnects>> /\ connects' = connects \ {c}
        /\ links' = links \/ (links' = Closed(c.link) /\ c.mine # generation)
    BY <1>8 DEF Resumes, onEstablished, stillWanted
  <2>2. c.link \in Links => links[c.link].mine = c.mine
    BY <1>8, <1>a, <1>c DEF HoldsOwn
  <2> QED
    BY <1>s, <1>x, <2>1, <2>2
<1>9. ASSUME NEW l \in Links, MayPublish(l) PROVE \A w \in (connects \cup reconnects)' : HoldsOwn(w)'
  BY <1>9, <1>s DEF MayPublish, Live, under_lock
<1>10. ASSUME NEW l \in Links, Publish(l) PROVE \A w \in (connects \cup reconnects)' : HoldsOwn(w)'
  BY <1>10, <1>s DEF Publish, under_lock
<1>11. ASSUME NEW l \in Links, onLost(l) PROVE \A w \in (connects \cup reconnects)' : HoldsOwn(w)'
  <2>1. l = link /\ link # 0 /\ UNCHANGED <<generation, connects>> /\ links' = Closed(l)
    BY <1>11, <1>a DEF onLost, Live
  <2>2. \A w \in connects \cup reconnects : w.mine # generation
    BY <1>w, <2>1 DEF OneInv
  <2> DEFINE new == [mine |-> generation, pc |-> links[l].pc, cancelled |-> FALSE, link |-> 0,
                     step |-> "top"]
  <2>3. reconnects' = reconnects \cup {new} /\ \A w : w = new => HoldsOwn(w)'
    BY <1>11, <1>a, <2>1 DEF onLost, HoldsOwn
  <2> HIDE DEF new
  <2> QED
    BY <1>x, <2>1, <2>2, <2>3
<1>12. ASSUME NEW r \in reconnects, ReconnectLoop(r) PROVE \A w \in (connects \cup reconnects)' : HoldsOwn(w)'
  <2>1. r \in Reconnects /\ HoldsOwn(r) /\ r.step # "established" /\ UNCHANGED <<generation, links, connects>>
    BY <1>12, <1>r DEF ReconnectLoop, under_lock
  <2>2. \A step \in {"wanted", "delay", "attempting"} : HoldsOwn([r EXCEPT !.step = step])'
    BY <2>1 DEF Reconnects, HoldsOwn
  <2> QED
    BY <1>12, <1>s, <2>1, <2>2 DEF ReconnectLoop, Becomes, Ends
<1>13. ASSUME NEW r \in reconnects, GiveUp(r) PROVE \A w \in (connects \cup reconnects)' : HoldsOwn(w)'
  BY <1>13, <1>s DEF GiveUp, Ends, under_lock
<1>14. ASSUME NEW r \in reconnects, ShowReconnecting(r) PROVE \A w \in (connects \cup reconnects)' : HoldsOwn(w)'
  <2>1. r \in Reconnects /\ HoldsOwn(r) /\ r.step # "established" /\ UNCHANGED <<generation, links, connects>>
    BY <1>14, <1>r DEF ShowReconnecting, under_lock
  <2>2. \A step \in {"wanted", "delay", "attempting"} : HoldsOwn([r EXCEPT !.step = step])'
    BY <2>1 DEF Reconnects, HoldsOwn
  <2> QED
    BY <1>14, <1>s, <2>1, <2>2 DEF ShowReconnecting, Becomes
<1>15. ASSUME NEW r \in reconnects, DelayEnds(r) PROVE \A w \in (connects \cup reconnects)' : HoldsOwn(w)'
  <2>1. r \in Reconnects /\ HoldsOwn(r) /\ r.step # "established" /\ UNCHANGED <<generation, links, connects>>
    BY <1>15, <1>r DEF DelayEnds, under_lock
  <2>2. \A step \in {"wanted", "delay", "attempting"} : HoldsOwn([r EXCEPT !.step = step])'
    BY <2>1 DEF Reconnects, HoldsOwn
  <2> QED
    BY <1>15, <1>s, <2>1, <2>2 DEF DelayEnds, Becomes, Ends
<1>16. ASSUME NEW r \in reconnects, NEW step \in {"established", "notPaired", "top"}, ReattemptEnds(r, step) PROVE \A w \in (connects \cup reconnects)' : HoldsOwn(w)'
  <2>1. r \in Reconnects /\ r.mine \in Nat /\ HoldsOwn(r) /\ r.pc \in PCs /\ r.mine \in 1..MaxRequests
        /\ UNCHANGED <<generation, connects>>
    BY <1>16, <1>r DEF ReattemptEnds, under_lock, Reconnects
  <2>2. r.mine <= generation
    BY <2>1 DEF HoldsOwn
  <2>3. CASE step = "established"
    <3>1. links' = Opened(r.pc, r.mine)
      BY <1>16, <2>3 DEF ReattemptEnds
    <3>2. /\ \A w \in connects \cup reconnects : HoldsOwn(w)'
          /\ NewLink \in Links' /\ links'[NewLink] = [pc |-> r.pc, mine |-> r.mine, open |-> TRUE]
      BY <1>o, <2>1, <3>1
    <3>3. \A w : w = Ended(r, step) => HoldsOwn(w)'
      BY <2>1, <2>2, <2>3, <3>2 DEF HoldsOwn, Ended
    <3> QED
      BY <1>16, <2>1, <3>2, <3>3 DEF ReattemptEnds, Ends
  <2>4. CASE step # "established"
    <3>1. UNCHANGED links
      BY <1>16, <2>4 DEF ReattemptEnds
    <3>2. \A w : w = Ended(r, step) => HoldsOwn(w)'
      BY <2>1, <2>2, <2>4 DEF HoldsOwn, Ended
    <3> QED
      BY <1>16, <1>s, <2>1, <3>1, <3>2 DEF ReattemptEnds, Ends
  <2> QED
    BY <2>3, <2>4
<1>17. ASSUME NEW r \in reconnects, Reconnected(r) PROVE \A w \in (connects \cup reconnects)' : HoldsOwn(w)'
  <2>1. /\ UNCHANGED <<generation, connects>> /\ reconnects' = reconnects \ {r}
        /\ links' = links \/ (links' = Closed(r.link) /\ r.mine # generation)
    BY <1>17 DEF Reconnected, onEstablished, stillWanted, Ends
  <2>2. r.link \in Links => links[r.link].mine = r.mine
    BY <1>17, <1>a, <1>r DEF HoldsOwn
  <2> QED
    BY <1>s, <1>x, <2>1, <2>2
<1>18. ASSUME NEW r \in reconnects, Refused(r) PROVE \A w \in (connects \cup reconnects)' : HoldsOwn(w)'
  BY <1>18, <1>s DEF Refused, Ends, under_lock
<1>19. CASE UNCHANGED wifi_vars
  BY <1>19, <1>s DEF wifi_vars, under_lock
<1> QED
  BY <1>1, <1>2, <1>3, <1>4, <1>5, <1>6, <1>7, <1>8, <1>9, <1>10, <1>11, <1>12, <1>13, <1>14, <1>15, <1>16, <1>17, <1>18, <1>19 DEF WifiNext

-----------------------------------------------------------------------------
(* One worker for the wanted request. *)

LEMMA NextOne == WifiInv /\ [WifiNext]_wifi_vars => OneInv'
<1> SUFFICES ASSUME WifiInv, [WifiNext]_wifi_vars PROVE OneInv'
  OBVIOUS
<1>a. /\ 0 \notin Links /\ generation \in Nat /\ link \in {0} \cup Links /\ OneInv /\ OpenInv
      /\ \A w \in connects \cup reconnects : w.mine \in Nat /\ w.mine <= generation
  BY Facts DEF HoldsOwn
<1>c. \A c \in connects : c \in Connects
  BY Facts
<1>r. \A r \in reconnects : r \in Reconnects
  BY Facts
<1>s. UNCHANGED <<under_lock, connects, reconnects>> => OneInv'
  BY <1>a DEF OneInv, under_lock
<1>f. ASSUME connects' \subseteq connects, reconnects' \subseteq reconnects, UNCHANGED under_lock
      PROVE  OneInv'
  BY <1>a, <1>f DEF OneInv, under_lock
<1>d. ASSUME NEW c \in connects, NEW e, e.mine = c.mine, e.pc = c.pc,
             connects' = (connects \ {c}) \cup {e}, UNCHANGED <<under_lock, reconnects>>
      PROVE  OneInv'
  BY <1>a, <1>d DEF OneInv, under_lock
<1>e. ASSUME NEW r \in reconnects, NEW e, e.mine = r.mine, e.pc = r.pc, e.cancelled = r.cancelled,
             reconnects' = (reconnects \ {r}) \cup {e}, UNCHANGED <<under_lock, connects>>
      PROVE  OneInv'
  BY <1>a, <1>e DEF OneInv, under_lock
<1>g. ASSUME NEW r \in reconnects, NEW step
      PROVE  LET e == [r EXCEPT !.step = step]
             IN e.mine = r.mine /\ e.pc = r.pc /\ e.cancelled = r.cancelled
  BY <1>r DEF Reconnects
<1>1. ASSUME NEW asked \in PCs, connectTo(asked) PROVE OneInv'
  <2>1. /\ generation' = generation + 1 /\ link' = 0 /\ target' = asked
        /\ reconnects' = {[r EXCEPT !.cancelled = TRUE] : r \in reconnects}
    BY <1>1 DEF connectTo, Teardown
  <2>2. \A r \in reconnects : [r EXCEPT !.cancelled = TRUE].mine = r.mine
    BY <1>r DEF Reconnects
  <2>3. \A w \in connects \cup reconnects : w.mine # generation'
    BY <1>a, <2>1
  <2>4. \A r \in reconnects' : r.mine # generation'
    BY <2>1, <2>2, <2>3
  <2> DEFINE new == [mine |-> generation', pc |-> asked, cancelled |-> FALSE, link |-> 0,
                     step |-> "attempting"]
  <2>5. connects' = connects \cup {new} /\ new.pc = asked
    BY <1>1 DEF connectTo, begin
  <2> HIDE DEF new
  <2> QED
    BY <2>1, <2>3, <2>4, <2>5 DEF OneInv
<1>2. ASSUME NEW asked \in PCs, connectToSame(asked) PROVE OneInv'
  BY <1>2, <1>s DEF connectToSame, under_lock
<1>3. CASE disconnect
  <2>1. /\ generation' = generation + 1 /\ link' = 0 /\ target' = NoPC
        /\ reconnects' = {[r EXCEPT !.cancelled = TRUE] : r \in reconnects}
    BY <1>3 DEF disconnect, Teardown
  <2>2. \A r \in reconnects : [r EXCEPT !.cancelled = TRUE].mine = r.mine
    BY <1>r DEF Reconnects
  <2>3. \A w \in connects \cup reconnects : w.mine # generation'
    BY <1>a, <2>1
  <2>4. \A r \in reconnects' : r.mine # generation'
    BY <2>1, <2>2, <2>3
  <2> QED
    BY <1>3, <2>1, <2>3, <2>4 DEF disconnect, OneInv
<1>4. CASE Show
  BY <1>4, <1>s DEF Show, under_lock
<1>5. ASSUME NEW c \in connects, CallerCancelled(c) PROVE OneInv'
  <2>1. [c EXCEPT !.cancelled = TRUE].mine = c.mine /\ [c EXCEPT !.cancelled = TRUE].pc = c.pc
    BY <1>c DEF Connects
  <2> QED
    BY <1>5, <1>d, <2>1 DEF CallerCancelled
<1>6. ASSUME NEW c \in connects, NEW step \in {"established", "notPaired", "silent"}, AttemptEnds(c, step) PROVE OneInv'
  BY <1>6, <1>d DEF AttemptEnds, Ended
<1>7. ASSUME NEW c \in connects, ResumesCancelled(c) PROVE OneInv'
  BY <1>7, <1>f DEF ResumesCancelled
<1>8. ASSUME NEW c \in connects, Resumes(c) PROVE OneInv'
  <2>1. connects' = connects \ {c} /\ UNCHANGED <<generation, target, reconnects>>
        /\ (link' = link \/ c.mine = generation)
    BY <1>8 DEF Resumes, onEstablished, stillWanted
  <2> QED
    BY <1>a, <2>1 DEF OneInv
<1>9. ASSUME NEW l \in Links, MayPublish(l) PROVE OneInv'
  BY <1>9, <1>s DEF MayPublish, Live, under_lock
<1>10. ASSUME NEW l \in Links, Publish(l) PROVE OneInv'
  BY <1>10, <1>s DEF Publish, under_lock
<1>11. ASSUME NEW l \in Links, onLost(l) PROVE OneInv'
  <2>1. l = link /\ link # 0 /\ link' = 0 /\ UNCHANGED <<generation, target, connects>>
    BY <1>11, <1>a DEF onLost, Live
  <2>2. \A w \in connects \cup reconnects : w.mine # generation
    BY <1>a, <2>1 DEF OneInv
  <2>3. links[l].pc = target
    BY <1>a, <2>1 DEF OpenInv, LiveLinkIsWanted
  <2> DEFINE new == [mine |-> generation, pc |-> links[l].pc, cancelled |-> FALSE, link |-> 0,
                     step |-> "top"]
  <2>4. reconnects' = reconnects \cup {new} /\ new.mine = generation /\ new.pc = target /\ new.cancelled = FALSE
    BY <1>11, <2>3 DEF onLost
  <2> HIDE DEF new
  <2> QED
    BY <2>1, <2>2, <2>4 DEF OneInv
<1>12. ASSUME NEW r \in reconnects, ReconnectLoop(r) PROVE OneInv'
  BY <1>12, <1>e, <1>f, <1>g DEF ReconnectLoop, Becomes, Ends, stillWanted
<1>13. ASSUME NEW r \in reconnects, GiveUp(r) PROVE OneInv'
  BY <1>13, <1>f DEF GiveUp, Ends
<1>14. ASSUME NEW r \in reconnects, ShowReconnecting(r) PROVE OneInv'
  BY <1>14, <1>e, <1>f, <1>g DEF ShowReconnecting, Becomes
<1>15. ASSUME NEW r \in reconnects, DelayEnds(r) PROVE OneInv'
  BY <1>15, <1>e, <1>f, <1>g DEF DelayEnds, Becomes, Ends, stillWanted
<1>16. ASSUME NEW r \in reconnects, NEW step \in {"established", "notPaired", "top"}, ReattemptEnds(r, step) PROVE OneInv'
  <2>1. CASE r.cancelled
    BY <1>16, <1>f, <2>1 DEF ReattemptEnds, Ends
  <2>2. CASE ~r.cancelled
    BY <1>16, <1>e, <2>2 DEF ReattemptEnds, Ended
  <2> QED
    BY <2>1, <2>2
<1>17. ASSUME NEW r \in reconnects, Reconnected(r) PROVE OneInv'
  <2>1. reconnects' = reconnects \ {r} /\ UNCHANGED <<generation, target, connects>>
        /\ (link' = link \/ r.mine = generation)
    BY <1>17 DEF Reconnected, onEstablished, stillWanted, Ends
  <2> QED
    BY <1>a, <2>1 DEF OneInv
<1>18. ASSUME NEW r \in reconnects, Refused(r) PROVE OneInv'
  BY <1>18, <1>f DEF Refused, Ends
<1>19. CASE UNCHANGED wifi_vars
  BY <1>19, <1>s DEF wifi_vars, under_lock
<1> QED
  BY <1>1, <1>2, <1>3, <1>4, <1>5, <1>6, <1>7, <1>8, <1>9, <1>10, <1>11, <1>12, <1>13, <1>14, <1>15, <1>16, <1>17, <1>18, <1>19 DEF WifiNext

-----------------------------------------------------------------------------
(* The open sockets of the wanted request. *)

LEMMA NextOpen == WifiInv /\ [WifiNext]_wifi_vars => OpenInv'
<1> SUFFICES ASSUME WifiInv, [WifiNext]_wifi_vars PROVE OpenInv'
  OBVIOUS
<1>a. /\ links \in Seq(Sockets) /\ 0 \notin Links /\ NewLink \notin Links /\ generation \in Nat
      /\ link \in {0} \cup Links /\ \A l \in Links : links[l].mine \in Nat
  BY Facts
<1>c. \A c \in connects : c \in Connects /\ c.mine \in Nat /\ HoldsOwn(c)
  BY Facts
<1>r. \A r \in reconnects : r \in Reconnects /\ r.mine \in Nat /\ HoldsOwn(r)
  BY Facts
<1>w. OneInv /\ OpenInv
  BY Facts
<1>s. UNCHANGED <<under_lock, links, connects, reconnects>> => OpenInv'
  BY <1>w DEF OpenInv, LiveLinkIsWanted, stillWanted, under_lock, Links
<1>f. ASSUME UNCHANGED <<under_lock, links>>,
             \A c \in connects' : \E d \in connects : d.mine = c.mine /\ d.link = c.link,
             \A r \in reconnects' : \E d \in reconnects : d.mine = r.mine /\ d.link = r.link
      PROVE  OpenInv'
  BY <1>w, <1>f DEF OpenInv, LiveLinkIsWanted, stillWanted, under_lock, Links
<1>g. ASSUME NEW r \in reconnects, NEW step
      PROVE  [r EXCEPT !.step = step].mine = r.mine /\ [r EXCEPT !.step = step].link = r.link
  BY <1>r DEF Reconnects
<1>b. ASSUME NEW r \in reconnects, UNCHANGED <<under_lock, links, connects>>,
             Ends(r) \/ \E step \in {"wanted", "delay", "attempting"} : Becomes(r, step)
      PROVE  OpenInv'
  BY <1>b, <1>f, <1>g, ZenonT(40) DEF Ends, Becomes
<1>x. ASSUME NEW l, links' = Closed(l)
      PROVE  /\ Links' = Links
             /\ \A k \in Links : /\ links'[k].pc = links[k].pc /\ links'[k].mine = links[k].mine
                                 /\ k # l => links'[k].open = links[k].open
                                 /\ k = l => links'[k].open = FALSE
  BY <1>a, <1>x, ClosedLinks DEF Links
<1>1. ASSUME NEW asked \in PCs, connectTo(asked) PROVE OpenInv'
  <2>1. generation' = generation + 1 /\ link' = 0 /\ links' = Closed(link)
    BY <1>1 DEF connectTo, Teardown
  <2>2. \A k \in Links : links[k].mine <= generation
    BY <1>w DEF OpenInv
  <2>4. Links' = Links /\ \A k \in Links : links'[k].mine = links[k].mine
    BY <1>x, <2>1
  <2>5. ASSUME NEW k \in Links PROVE links[k].mine <= generation' /\ links[k].mine # generation'
    BY <1>a, <2>1, <2>2
  <2>3. \A k \in Links' : links'[k].mine <= generation' /\ links'[k].mine # generation'
    BY <2>4, <2>5
  <2> QED
    BY <2>1, <2>3 DEF OpenInv, LiveLinkIsWanted
<1>2. ASSUME NEW asked \in PCs, connectToSame(asked) PROVE OpenInv'
  BY <1>2, <1>s DEF connectToSame, under_lock
<1>3. CASE disconnect
  <2>1. generation' = generation + 1 /\ link' = 0 /\ links' = Closed(link)
    BY <1>3 DEF disconnect, Teardown
  <2>2. \A k \in Links : links[k].mine <= generation
    BY <1>w DEF OpenInv
  <2>4. Links' = Links /\ \A k \in Links : links'[k].mine = links[k].mine
    BY <1>x, <2>1
  <2>5. ASSUME NEW k \in Links PROVE links[k].mine <= generation' /\ links[k].mine # generation'
    BY <1>a, <2>1, <2>2
  <2>3. \A k \in Links' : links'[k].mine <= generation' /\ links'[k].mine # generation'
    BY <2>4, <2>5
  <2> QED
    BY <2>1, <2>3 DEF OpenInv, LiveLinkIsWanted
<1>4. CASE Show
  BY <1>4, <1>s DEF Show, under_lock
<1>5. ASSUME NEW c \in connects, CallerCancelled(c) PROVE OpenInv'
  <2>1. [c EXCEPT !.cancelled = TRUE].mine = c.mine /\ [c EXCEPT !.cancelled = TRUE].link = c.link
    BY <1>c DEF Connects
  <2> QED
    BY <1>5, <1>f, <2>1 DEF CallerCancelled
<1>6. ASSUME NEW c \in connects, NEW step \in {"established", "notPaired", "silent"}, AttemptEnds(c, step) PROVE OpenInv'
  <2>1. /\ c.pc \in PCs /\ c.mine \in 1..MaxRequests /\ c.mine <= generation /\ c.link = 0
        /\ UNCHANGED <<under_lock, generation, target, link, reconnects>>
    BY <1>6, <1>c DEF AttemptEnds, under_lock, Connects, HoldsOwn
  <2>2. Ended(c, step).mine = c.mine /\ Ended(c, step).link = IF step = "established" THEN NewLink ELSE 0
    BY DEF Ended
  <2>3. step = "established" =>
          /\ Links' = Links \cup {NewLink} /\ \A k \in Links : links'[k] = links[k]
          /\ links'[NewLink].mine = c.mine
    <3> SUFFICES ASSUME step = "established" PROVE <2>3!2
      OBVIOUS
    <3>1. links' = Opened(c.pc, c.mine)
      BY <1>6 DEF AttemptEnds
    <3>2. LET new == Opened(c.pc, c.mine)
          IN /\ DOMAIN new = Links \cup {NewLink} /\ \A k \in Links : new[k] = links[k]
             /\ new[NewLink] = [pc |-> c.pc, mine |-> c.mine, open |-> TRUE]
      BY <1>a, <2>1, OpenedLinks
    <3>3. Links' = DOMAIN links'
      BY DEF Links
    <3> QED
      BY <3>1, <3>2, <3>3
  <2>4. connects' = (connects \ {c}) \cup {Ended(c, step)}
    BY <1>6 DEF AttemptEnds
  <2> DEFINE e == Ended(c, step)
  <2> HIDE DEF e
  <2>5. e.mine = c.mine /\ e.link = (IF step = "established" THEN NewLink ELSE 0)
        /\ connects' = (connects \ {c}) \cup {e}
    BY <2>2, <2>4 DEF e
  <2>6. CASE step # "established"
    BY <1>6, <1>f, <2>1, <2>5, <2>6 DEF AttemptEnds
  <2>7. CASE step = "established"
    BY <1>a, <1>w, <2>1, <2>3, <2>5, <2>7 DEF OpenInv, OneInv, LiveLinkIsWanted, stillWanted
  <2> QED
    BY <2>6, <2>7
<1>7. ASSUME NEW c \in connects, ResumesCancelled(c) PROVE OpenInv'
  BY <1>7, <1>f DEF ResumesCancelled
<1>8. ASSUME NEW c \in connects, Resumes(c) PROVE OpenInv'
  <2>1. UNCHANGED <<generation, target, reconnects>> /\ connects' = connects \ {c} /\ HoldsOwn(c)
    BY <1>8, <1>c DEF Resumes
  <2>2. CASE c.mine # generation
    <3>1. UNCHANGED link /\ links' = Closed(c.link)
      BY <1>8, <2>2 DEF Resumes, onEstablished, stillWanted
    <3>2. c.link \in Links => links[c.link].mine # generation
      BY <1>a, <2>1, <2>2 DEF HoldsOwn
    <3> QED
      BY <1>a, <1>w, <1>x, <2>1, <3>1, <3>2, ZenonT(40) DEF OpenInv, LiveLinkIsWanted, stillWanted
  <2>3. CASE c.mine = generation /\ c.step = "established"
    <3>1. UNCHANGED links /\ link' = c.link
      BY <1>8, <2>3 DEF Resumes, onEstablished, stillWanted
    <3>2. c.link \in Links /\ links[c.link].open /\ links[c.link].mine = generation /\ links[c.link].pc = target
          /\ link = 0
      BY <1>w, <2>1, <2>3 DEF HoldsOwn, OneInv
    <3> QED
      BY <1>a, <1>w, <2>1, <2>3, <3>1, <3>2 DEF OpenInv, LiveLinkIsWanted, stillWanted, Links
  <2>4. CASE c.mine = generation /\ c.step # "established"
    <3>1. UNCHANGED <<under_lock, links>>
      BY <1>8, <2>1, <2>4 DEF Resumes, stillWanted, under_lock
    <3> QED
      BY <1>f, <2>1, <3>1
  <2> QED
    BY <2>2, <2>3, <2>4
<1>9. ASSUME NEW l \in Links, MayPublish(l) PROVE OpenInv'
  BY <1>9, <1>s DEF MayPublish, Live, under_lock
<1>10. ASSUME NEW l \in Links, Publish(l) PROVE OpenInv'
  BY <1>10, <1>s DEF Publish, under_lock
<1>11. ASSUME NEW l \in Links, onLost(l) PROVE OpenInv'
  <2>1. l = link /\ link # 0 /\ link' = 0 /\ UNCHANGED generation /\ links' = Closed(l)
    BY <1>11, <1>a DEF onLost, Live
  <2> QED
    BY <1>w, <1>x, <2>1 DEF OpenInv, LiveLinkIsWanted
<1>12. ASSUME NEW r \in reconnects, ReconnectLoop(r) PROVE OpenInv'
  BY <1>12, <1>b DEF ReconnectLoop
<1>13. ASSUME NEW r \in reconnects, GiveUp(r) PROVE OpenInv'
  BY <1>13, <1>f DEF GiveUp, Ends
<1>14. ASSUME NEW r \in reconnects, ShowReconnecting(r) PROVE OpenInv'
  BY <1>14, <1>b DEF ShowReconnecting
<1>15. ASSUME NEW r \in reconnects, DelayEnds(r) PROVE OpenInv'
  BY <1>15, <1>b DEF DelayEnds
<1>16. ASSUME NEW r \in reconnects, NEW step \in {"established", "notPaired", "top"}, ReattemptEnds(r, step) PROVE OpenInv'
  <2>1. /\ r.pc \in PCs /\ r.mine \in 1..MaxRequests /\ r.mine <= generation /\ r.link = 0
        /\ UNCHANGED <<under_lock, generation, target, link, connects>>
    BY <1>16, <1>r DEF ReattemptEnds, under_lock, Reconnects, HoldsOwn
  <2>2. Ended(r, step).mine = r.mine /\ Ended(r, step).link = IF step = "established" THEN NewLink ELSE 0
    BY DEF Ended
  <2>3. step = "established" =>
          /\ Links' = Links \cup {NewLink} /\ \A k \in Links : links'[k] = links[k]
          /\ links'[NewLink].mine = r.mine
    <3> SUFFICES ASSUME step = "established" PROVE <2>3!2
      OBVIOUS
    <3>1. links' = Opened(r.pc, r.mine)
      BY <1>16 DEF ReattemptEnds
    <3>2. LET new == Opened(r.pc, r.mine)
          IN /\ DOMAIN new = Links \cup {NewLink} /\ \A k \in Links : new[k] = links[k]
             /\ new[NewLink] = [pc |-> r.pc, mine |-> r.mine, open |-> TRUE]
      BY <1>a, <2>1, OpenedLinks
    <3>3. Links' = DOMAIN links'
      BY DEF Links
    <3> QED
      BY <3>1, <3>2, <3>3
  <2>5. CASE r.cancelled
    <3>1. r.mine # generation /\ reconnects' = reconnects \ {r}
      BY <1>16, <1>w, <2>5 DEF ReattemptEnds, Ends, OneInv
    <3>2. CASE step # "established"
      BY <1>16, <1>f, <2>1, <3>1, <3>2 DEF ReattemptEnds
    <3>3. CASE step = "established"
      BY <1>a, <1>w, <2>1, <2>3, <3>1, <3>3 DEF OpenInv, LiveLinkIsWanted, stillWanted
    <3> QED
      BY <3>2, <3>3
  <2>6. CASE ~r.cancelled
    <3> DEFINE e == Ended(r, step)
    <3>1. e.mine = r.mine /\ e.link = (IF step = "established" THEN NewLink ELSE 0)
          /\ reconnects' = (reconnects \ {r}) \cup {e}
      BY <1>16, <2>2, <2>6 DEF ReattemptEnds
    <3> HIDE DEF e
    <3>2. CASE step # "established"
      BY <1>16, <1>f, <2>1, <3>1, <3>2 DEF ReattemptEnds
    <3>3. CASE step = "established"
      BY <1>a, <1>w, <2>1, <2>3, <3>1, <3>3 DEF OpenInv, OneInv, LiveLinkIsWanted, stillWanted
    <3> QED
      BY <3>2, <3>3
  <2> QED
    BY <2>5, <2>6
<1>17. ASSUME NEW r \in reconnects, Reconnected(r) PROVE OpenInv'
  <2>1. UNCHANGED <<generation, target, connects>> /\ reconnects' = reconnects \ {r} /\ HoldsOwn(r)
    BY <1>17, <1>r DEF Reconnected, Ends
  <2>2. CASE r.mine # generation
    <3>1. UNCHANGED link /\ links' = Closed(r.link)
      BY <1>17, <2>2 DEF Reconnected, onEstablished, stillWanted
    <3>2. r.link \in Links => links[r.link].mine # generation
      BY <1>a, <2>1, <2>2 DEF HoldsOwn
    <3> QED
      BY <1>a, <1>w, <1>x, <2>1, <3>1, <3>2, ZenonT(40) DEF OpenInv, LiveLinkIsWanted, stillWanted
  <2>3. CASE r.mine = generation /\ r.step = "established"
    <3>1. UNCHANGED links /\ link' = r.link
      BY <1>17, <2>3 DEF Reconnected, onEstablished, stillWanted
    <3>2. r.link \in Links /\ links[r.link].open /\ links[r.link].mine = generation /\ links[r.link].pc = target
          /\ link = 0
      BY <1>w, <2>1, <2>3 DEF HoldsOwn, OneInv
    <3> QED
      BY <1>a, <1>w, <2>1, <2>3, <3>1, <3>2 DEF OpenInv, LiveLinkIsWanted, stillWanted, Links
  <2> QED
    BY <1>17, <2>2, <2>3 DEF Reconnected
<1>18. ASSUME NEW r \in reconnects, Refused(r) PROVE OpenInv'
  BY <1>18, <1>f DEF Refused, Ends
<1>19. CASE UNCHANGED wifi_vars
  BY <1>19, <1>s DEF wifi_vars, under_lock
<1> QED
  BY <1>1, <1>2, <1>3, <1>4, <1>5, <1>6, <1>7, <1>8, <1>9, <1>10, <1>11, <1>12, <1>13, <1>14, <1>15, <1>16, <1>17, <1>18, <1>19 DEF WifiNext

-----------------------------------------------------------------------------
(* Theorems. *)

LEMMA WifiInitInv == WifiInit => WifiInv
<1> SUFFICES ASSUME WifiInit PROVE WifiInv
  OBVIOUS
<1>1. Links = {} /\ connects = {} /\ reconnects = {} /\ link = 0
  BY DEF WifiInit, Links
<1> QED
  BY <1>1, InitTyped DEF WifiInv, OneInv, OpenInv, LiveLinkIsWanted

THEOREM WifiInvariant == WifiSpec => []WifiInv
<1>1. WifiInv /\ [WifiNext]_wifi_vars => WifiInv'
  BY NextTyped, NextOwn, NextOne, NextOpen DEF WifiInv
<1> QED
  BY <1>1, WifiInitInv, PTL DEF WifiSpec

\* A request, a retry and a link never hold anything but what is written of them.
THEOREM WifiTyped == WifiSpec => []WifiTypeOK
<1>1. WifiInv => WifiTypeOK
  BY DEF WifiInv
<1> QED
  BY <1>1, WifiInvariant, PTL

\* The live link is open and is the wanted one (onEstablished and teardownLocked): no
\* handshake that an older request began ever takes over from a newer one.
THEOREM LiveIsWanted == WifiSpec => []LiveLinkIsWanted
<1>1. WifiInv => LiveLinkIsWanted
  BY DEF WifiInv, OpenInv
<1> QED
  BY <1>1, WifiInvariant, PTL

\* While a link is live, the request it serves has no other socket open (connectTo,
\* onLost and reconnectLoop): the PC never hears the phone twice.
THEOREM OneConversation == WifiSpec => []NoSecondConversation
<1>1. WifiInv => NoSecondConversation
  BY DEF WifiInv, OpenInv, NoSecondConversation, stillWanted
<1> QED
  BY <1>1, WifiInvariant, PTL

\* One reconnectLoop at most works for the wanted request, towards the wanted PC, and
\* none beside a live link (onLost begins one only for the link it takes down).
THEOREM OneLoop == WifiSpec => []OneRetryLoop
<1>1. ASSUME WifiInv PROVE OneRetryLoop
  <2> DEFINE wanted == {r \in reconnects : stillWanted(r.mine)}
  <2>1. /\ \A r \in wanted : r.pc = target /\ link = 0
        /\ \A r, s \in wanted : s = r
    BY <1>1 DEF WifiInv, OneInv, stillWanted
  <2>2. CASE wanted = {}
    BY <2>2, FS_EmptySet DEF OneRetryLoop
  <2>3. CASE wanted # {}
    <3>1. PICK r : r \in wanted
      BY <2>3
    <3>2. wanted = {r}
      BY <2>1, <3>1
    <3>3. Cardinality(wanted) = 1
      BY <3>2, FS_Singleton
    <3> QED
      BY <2>1, <3>3 DEF OneRetryLoop
  <2> QED
    BY <2>2, <2>3
<1> QED
  BY <1>1, WifiInvariant, PTL

===========================================================================
