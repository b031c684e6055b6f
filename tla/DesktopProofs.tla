-------------------------- MODULE DesktopProofs ---------------------------
(***************************************************************************)
(* Theorems about the desktop: NoiseTransport, for every width of the      *)
(* window and any number of packets; Panel and the entry at login it works *)
(* at, for whatever the program finds and however much happens; Backends,  *)
(* for every system, whatever the phone sends it.                          *)
(***************************************************************************)
EXTENDS NoiseTransport, Panel, Backends, SequenceLemmas, FiniteSetTheorems

---------------------------------------------------------------------------
(***************************************************************************)
(* NoiseTransport: the bitmap is an exact memory, so decryption accepts    *)
(* exactly the packets the abstract guard accepts.                         *)
(***************************************************************************)

WindowInv == TransportTypeOK /\ BitmapIsMemory

\* Whether the bit d places behind the newest packet is set as it should be.
BitIsRight(word, newest, memory, d) ==
  d \in word <=> d <= newest /\ (newest - d) \in memory

LEMMA BitByBit ==
  ASSUME NEW word \in SUBSET Bits, NEW newest, NEW memory
  PROVE  (\A d \in Bits : BitIsRight(word, newest, memory, d))
           <=> word = {d \in Bits : d <= newest /\ (newest - d) \in memory}
BY DEF BitIsRight

LEMMA TransportInitInv == TransportInit => WindowInv
<1> SUFFICES ASSUME TransportInit PROVE WindowInv
  OBVIOUS
<1>1. TransportTypeOK
  <2>1. 0 \in 0..(MaxNonce + 1) /\ 0 \in 0..MaxNonce
    BY NoiseTransportAssumption
  <2> QED
    BY <2>1 DEF TransportInit, TransportTypeOK
<1>2. bitmap = {} /\ accepted = {} /\ initialized = FALSE
  BY DEF TransportInit
<1>3. BitmapIsMemory
  BY <1>2 DEF BitmapIsMemory
<1> QED
  BY <1>1, <1>3 DEF WindowInv

\* Shifting the bitmap by as much as the newest number grows keeps every bit at
\* its packet, and drops those that fall out of the window.
LEMMA ShiftKeepsMemory ==
  ASSUME NEW old \in Nat, NEW new \in Nat, old < new, NEW memory \in SUBSET (0..old),
         NEW word \in SUBSET Bits, \A d \in Bits : BitIsRight(word, old, memory, d),
         NEW d \in Bits
  PROVE  BitIsRight(Shift(word, new - old), new, memory, d)
<1>1. Bits \subseteq Nat /\ \A c \in 0..d : c \in Bits
  BY NoiseTransportAssumption DEF Bits
<1>2. ASSUME d \in Shift(word, new - old) PROVE d <= new /\ (new - d) \in memory
  <2>1. PICK b \in word : d = b + (new - old)
    BY <1>2 DEF Shift
  <2>2. b \in Nat /\ b <= old /\ (old - b) \in memory
    BY <1>1, <2>1 DEF BitIsRight
  <2>3. new - d = old - b /\ d <= new
    BY <2>1, <2>2
  <2> QED
    BY <2>2, <2>3
<1>3. ASSUME d <= new, (new - d) \in memory PROVE d \in Shift(word, new - old)
  <2> DEFINE b == d - (new - old)
  <2>1. d \in Nat /\ new - d \in 0..old
    BY <1>1, <1>3
  <2>2. b \in 0..d /\ b <= old /\ old - b = new - d /\ d = b + (new - old)
    BY <2>1
  <2>3. b \in word
    BY <1>1, <1>3, <2>2 DEF BitIsRight
  <2> QED
    BY <2>2, <2>3 DEF Shift
<1> QED
  BY <1>2, <1>3 DEF BitIsRight

\* What update() does to the bitmap is what accepting the packet does to memory.
LEMMA UpdateRemembers ==
  ASSUME WindowInv, NEW nonce \in 0..MaxNonce, window_update(nonce),
         accepted' = accepted \cup {nonce}
  PROVE  BitmapIsMemory' /\ bitmap' \subseteq Bits /\ max_nonce' \in 0..MaxNonce
<1>1. /\ initialized' /\ MaxNonce \in Nat /\ WINDOW_SIZE \in Nat /\ WINDOW_SIZE > 0
      /\ max_nonce \in 0..MaxNonce /\ max_nonce \in Nat /\ nonce \in Nat
      /\ accepted \subseteq 0..MaxNonce /\ bitmap \in SUBSET Bits
  BY NoiseTransportAssumption DEF WindowInv, TransportTypeOK, window_update
<1>2. 0 \in Bits /\ Bits \subseteq Nat /\ \A d \in Nat : d < WINDOW_SIZE <=> d \in Bits
  BY <1>1 DEF Bits
<1>3. /\ initialized <=> accepted # {}
      /\ initialized => max_nonce \in accepted
      /\ \A n \in accepted : n <= max_nonce /\ n \in Nat
  BY <1>1 DEF WindowInv, BitmapIsMemory
<1>4. \A d \in Bits : BitIsRight(bitmap, max_nonce, accepted, d)
  BY <1>1, BitByBit DEF WindowInv, BitmapIsMemory
<1>5. /\ max_nonce' \in accepted' /\ max_nonce' \in 0..MaxNonce
      /\ \A n \in accepted' : n <= max_nonce'
      /\ bitmap' \subseteq Bits
      /\ \A d \in Bits : BitIsRight(bitmap', max_nonce', accepted', d)
  <2>1. CASE ~initialized
    <3>1. max_nonce' = nonce /\ bitmap' = {0} /\ accepted' = {nonce}
      BY <1>3, <2>1 DEF window_update
    <3> QED
      BY <1>1, <1>2, <3>1 DEF BitIsRight
  <2>2. CASE initialized /\ nonce > max_nonce
    <3>1. max_nonce' = nonce /\ \A n \in accepted' : n <= nonce
      BY <1>1, <1>3, <2>2 DEF window_update
    <3>2. ASSUME nonce - max_nonce >= WINDOW_SIZE, NEW d \in Bits
          PROVE  BitIsRight(bitmap', nonce, accepted', d)
      <4>1. bitmap' = {0} /\ d \in Nat
        BY <1>1, <1>2, <2>2, <3>2 DEF window_update
      <4>2. nonce - d > max_nonce
        <5>1. d < WINDOW_SIZE
          BY <1>2, <4>1
        <5> QED
          BY <1>1, <3>2, <4>1, <5>1
      <4>3. (nonce - d) \notin accepted
        BY <1>1, <1>3, <4>1, <4>2
      <4>4. nonce - d = nonce <=> d = 0
        BY <1>1, <4>1
      <4> QED
        BY <1>1, <4>1, <4>3, <4>4 DEF BitIsRight
    <3>3. ASSUME nonce - max_nonce < WINDOW_SIZE, NEW d \in Bits
          PROVE  BitIsRight(bitmap', nonce, accepted', d)
      <4>1. bitmap' = Shift(bitmap, nonce - max_nonce) \cup {0}
        BY <1>1, <2>2, <3>3 DEF window_update
      <4>2. accepted \in SUBSET (0..max_nonce)
        BY <1>1, <1>3
      <4>3. BitIsRight(Shift(bitmap, nonce - max_nonce), nonce, accepted, d)
        BY <1>1, <1>4, <2>2, <4>2, ShiftKeepsMemory
      <4>4. d \in Nat /\ (nonce - d = nonce <=> d = 0)
        BY <1>1, <1>2
      <4> QED
        BY <1>1, <4>1, <4>3, <4>4 DEF BitIsRight
    <3>4. bitmap' \subseteq Bits
      BY <1>1, <1>2, <2>2 DEF window_update, Shift
    <3>5. nonce - max_nonce >= WINDOW_SIZE \/ nonce - max_nonce < WINDOW_SIZE
      BY <1>1
    <3>6. \A d \in Bits : BitIsRight(bitmap', max_nonce', accepted', d)
      BY <3>1, <3>2, <3>3, <3>5
    <3> QED
      BY <3>1, <3>4, <3>6
  <2>3. CASE initialized /\ nonce <= max_nonce
    <3>1. /\ max_nonce' = max_nonce
          /\ bitmap' = IF max_nonce - nonce < WINDOW_SIZE
                       THEN bitmap \cup {max_nonce - nonce} ELSE bitmap
      BY <1>1, <2>3 DEF window_update
    <3>2. ASSUME NEW d \in Bits PROVE BitIsRight(bitmap', max_nonce, accepted', d)
      <4>1. d \in Nat /\ d < WINDOW_SIZE
        BY <1>2
      <4>2. (max_nonce - d) \in {nonce} <=> d = max_nonce - nonce
        BY <1>1, <4>1
      <4>3. d = max_nonce - nonce => d <= max_nonce
        BY <1>1
      <4> QED
        BY <1>4, <3>1, <4>1, <4>2, <4>3 DEF BitIsRight
    <3>3. bitmap' \subseteq Bits
      BY <1>1, <1>2, <2>3, <3>1
    <3> QED
      BY <1>1, <1>3, <2>3, <3>1, <3>2, <3>3
  <2> QED
    BY <1>1, <2>1, <2>2, <2>3
<1>6. bitmap' = {d \in Bits : d <= max_nonce' /\ (max_nonce' - d) \in accepted'}
  BY <1>5, BitByBit
<1> QED
  BY <1>1, <1>5, <1>6 DEF BitmapIsMemory

LEMMA NextInv == WindowInv /\ [TransportNext]_transport_vars => WindowInv'
<1> SUFFICES ASSUME WindowInv, [TransportNext]_transport_vars PROVE WindowInv'
  OBVIOUS
<1> USE NoiseTransportAssumption
<1>1. CASE Encrypt
  BY <1>1 DEF Encrypt, window, WindowInv, TransportTypeOK, BitmapIsMemory
<1>2. ASSUME NEW nonce \in 0..MaxNonce, Decrypt(nonce) PROVE WindowInv'
  <2>1. CASE check(nonce)
    <3>1. window_update(nonce) /\ accepted' = accepted \cup {nonce} /\ answer' = "accepted"
          /\ send_nonce' = send_nonce
      BY <1>2, <2>1 DEF Decrypt
    <3>2. initialized' \in BOOLEAN
      BY <3>1, Zenon DEF window_update
    <3>3. BitmapIsMemory' /\ bitmap' \subseteq Bits /\ max_nonce' \in 0..MaxNonce
      BY <3>1, UpdateRemembers
    <3> QED
      BY <3>1, <3>2, <3>3 DEF WindowInv, TransportTypeOK
  <2>2. CASE ~check(nonce)
    <3>1. UNCHANGED <<initialized, max_nonce, bitmap, accepted, send_nonce>>
          /\ answer' = "refused"
      BY <1>2, <2>2 DEF Decrypt, window
    <3> QED
      BY <3>1 DEF WindowInv, TransportTypeOK, BitmapIsMemory
  <2> QED
    BY <2>1, <2>2
<1>3. ASSUME NEW nonce \in 0..MaxNonce, DecryptBad(nonce) PROVE WindowInv'
  BY <1>3 DEF DecryptBad, window, WindowInv, TransportTypeOK, BitmapIsMemory
<1>4. CASE UNCHANGED transport_vars
  BY <1>4 DEF transport_vars, window, WindowInv, TransportTypeOK, BitmapIsMemory
<1> QED
  BY <1>1, <1>2, <1>3, <1>4 DEF TransportNext

LEMMA TransportInvariance == TransportSpec => []WindowInv
BY TransportInitInv, NextInv, PTL DEF TransportSpec

\* The bitmap remembers exactly the packets accepted within the window.
THEOREM Memory == TransportSpec => []BitmapIsMemory
<1>1. WindowInv => BitmapIsMemory
  BY DEF WindowInv
<1> QED
  BY <1>1, TransportInvariance, PTL

\* check() lets a packet through when, and only when, the guard accepts it.
LEMMA CheckIsAcceptable ==
  ASSUME WindowInv, NEW nonce \in 0..MaxNonce
  PROVE  check(nonce) <=> Guard!Acceptable(nonce)
<1>1. /\ BitmapIsMemory /\ WINDOW_SIZE \in Nat /\ WINDOW_SIZE > 0
      /\ max_nonce \in Nat /\ nonce \in Nat /\ accepted \subseteq Nat
  BY NoiseTransportAssumption DEF WindowInv, TransportTypeOK
<1>2. CASE ~initialized
  BY <1>1, <1>2 DEF BitmapIsMemory, check, Guard!Acceptable
<1>3. CASE initialized /\ nonce > max_nonce
  BY <1>1, <1>3 DEF BitmapIsMemory, check, Guard!Acceptable
<1>4. CASE initialized /\ nonce <= max_nonce
  <2>1. max_nonce \in accepted /\ \A n \in accepted : n <= max_nonce
    BY <1>1, <1>4 DEF BitmapIsMemory
  <2>2. (\A m \in accepted : m < nonce + WINDOW_SIZE)
          <=> max_nonce - nonce < WINDOW_SIZE
    BY <1>1, <1>4, <2>1
  <2>3. max_nonce - nonce < WINDOW_SIZE =>
          ((max_nonce - nonce) \in bitmap <=> nonce \in accepted)
    BY <1>1, <1>4 DEF BitmapIsMemory, Bits
  <2> QED
    BY <1>1, <1>4, <2>2, <2>3 DEF check, Guard!Acceptable
<1> QED
  BY <1>1, <1>2, <1>3, <1>4

\* For every width of the window, decryption implements the guard: each packet is
\* accepted once, in any order of arrival, unless it is a window late.
THEOREM Refinement == TransportSpec => ImplementsGuard
<1>1. TransportInit => Guard!Init
  BY DEF TransportInit, Guard!Init
<1>2. WindowInv /\ [TransportNext]_transport_vars => [Guard!Next]_(Guard!vars)
  <2> SUFFICES ASSUME WindowInv, [TransportNext]_transport_vars PROVE [Guard!Next]_(Guard!vars)
    OBVIOUS
  <2>1. CASE Encrypt
    BY <2>1 DEF Encrypt, Guard!Next, Guard!Send
  <2>2. ASSUME NEW nonce \in 0..MaxNonce, Decrypt(nonce) PROVE Guard!Next
    <3>1. Guard!Deliver(nonce)
      BY <2>2, CheckIsAcceptable DEF Decrypt, Guard!Deliver
    <3> QED
      BY <3>1 DEF Guard!Next
  <2>3. ASSUME NEW nonce \in 0..MaxNonce, DecryptBad(nonce) PROVE Guard!Next
    BY <2>3 DEF DecryptBad, Guard!Next, Guard!DeliverBad
  <2>4. CASE UNCHANGED transport_vars
    BY <2>4 DEF transport_vars, Guard!vars
  <2> QED
    BY <2>1, <2>2, <2>3, <2>4 DEF TransportNext
<1> QED
  BY <1>1, <1>2, TransportInvariance, PTL DEF TransportSpec, ImplementsGuard, Guard!Spec

---------------------------------------------------------------------------
(***************************************************************************)
(* Panel: what the panel has running, and the entry it leaves.             *)
(***************************************************************************)

Callers == {"menu", "page"}
Outcomes == {"Ok", "Declined", "NotGranted", "Failed"}

Typed ==
    /\ TypeOK
    /\ allowing \in [working : BOOLEAN, note : Outcomes \cup {Nothing}, terminal : BOOLEAN]
    /\ prompts \in [Callers -> Outcomes \cup {"none", "open"}]

\* Whoever is about to start the prompt has none yet, nobody else has one or is about to, and `working' says so.
AskInv ==
    /\ \A w \in Callers : at[w] = "asking" => prompts[w] = "none"
    /\ \A v, w \in HasPrompt : v = w
    /\ allowing.working <=> HasPrompt # {}

\* While nobody has opened the neighbour under another's hands, one thread at most has it, none has lost it, and
\* what is about to take the entry's name is whole.
EntryInv ==
    ~overlapped =>
        /\ entry # "half"
        /\ \A w \in Writers : at[w] \notin {"moved", "lost"}
        /\ \A v, w \in Writers : at[v] \in {"open", "written"} /\ at[w] \in {"open", "written"} => v = w
        /\ \A w \in Writers : at[w] = "written" => tmp = "whole"

PanelInv == Typed /\ AskInv /\ EntryInv

-----------------------------------------------------------------------------
\* A thread that was idle begins: to ask for the permission, or to change the entry.
Begun(w) ==
    /\ Idle(w) /\ \E there \in {"idle", "blocked", "on", "off"} : Goto(w, there)
    /\ UNCHANGED <<entry, tmp, overlapped, asking>>

\* What a step may do to the entry and to the asking.
Kinds ==
    \/ UNCHANGED <<file, asking>>
    \/ \E w \in Callers : Begun(w)
    \/ refresh /\ UNCHANGED asking
    \/ Settings /\ UNCHANGED asking
    \/ \E w \in Writers : (enable(w) \/ disable(w) \/ Fails(w)) /\ UNCHANGED asking
    \/ \E w \in Callers : TakesTurn(w) \/ Spawns(w) \/ Hears(w) \/ Tells(w)

LEMMA Steps == ASSUME DOMAIN prompts = Callers, [Next]_vars PROVE Kinds
<1> USE DEF Kinds
<1>1. CASE World
  BY <1>1 DEF World
<1>2. CASE SettingsChange
  BY <1>2 DEF SettingsChange
<1>3. CASE Person
  <2>1. CASE MenuAllow
    BY <2>1 DEF MenuAllow, Chooses, allow, Begun, Goto, Callers
  <2>2. CASE MenuToggle
    BY <2>2 DEF MenuToggle, Chooses, Turn, Begun, Goto, Callers
  <2>3. CASE PageAllow
    BY <2>3 DEF PageAllow, Presses, Asked, Panel, allow, Begun, Goto, Callers
  <2>4. CASE PageToggle
    BY <2>4 DEF PageToggle, Presses, Asked, Panel, Turn, Begun, Goto, Callers
  <2>5. CASE MenuUpdate \/ MenuQuit
    BY <2>5 DEF MenuUpdate, MenuQuit
  <2>6. CASE Visit \/ status_json \/ Close
    BY <2>6 DEF Visit, status_json, Close
  <2>7. CASE PageCheck \/ PageInstall \/ PageQuit
    BY <2>7 DEF PageCheck, PageInstall, PageQuit
  <2> QED
    BY <1>3, <2>1, <2>2, <2>3, <2>4, <2>5, <2>6, <2>7 DEF Person
<1>4. CASE Start
  BY <1>4 DEF Start
<1>5. CASE tray_is_up \/ LoopReads \/ LoopSends
  BY <1>5 DEF tray_is_up, LoopReads, LoopSends
<1>6. CASE Refreshing \/ Delivering
  BY <1>6 DEF Refreshing, RefreshReads, RefreshEnds, Delivering, Deliver
<1>7. ASSUME NEW w \in Writers, set_autostart(w)
      PROVE  (enable(w) \/ disable(w) \/ Fails(w)) /\ UNCHANGED asking
  BY <1>7 DEF set_autostart
<1>8. ASSUME NEW w \in Callers, Asking(w) \/ Hears(w) \/ Tells(w)
      PROVE  TakesTurn(w) \/ Spawns(w) \/ Hears(w) \/ Tells(w)
  BY <1>8 DEF Asking
<1>9. CASE UNCHANGED vars
  BY <1>9 DEF vars
<1> QED
  BY <1>1, <1>2, <1>3, <1>4, <1>5, <1>6, <1>7, <1>8, <1>9 DEF Next

\* A step counts at most one act, and none beyond the bound; the permission is there or not.
LEMMA Rest ==
    ASSUME [Next]_vars
    PROVE  /\ changes' = changes \/ (changes < MaxChanges /\ changes' = changes + 1)
           /\ blocked \in BOOLEAN => blocked' \in BOOLEAN
<1>1. CASE World
  BY <1>1 DEF World, Permission, Phones, Releases, Counted
<1>2. CASE SettingsChange
  BY <1>2 DEF SettingsChange, Counted, facts
<1>3. CASE Person
  <2>1. CASE MenuAllow \/ MenuToggle \/ PageAllow \/ PageToggle
    BY <2>1 DEF MenuAllow, MenuToggle, PageAllow, PageToggle, Counted, allow, facts
  <2>2. CASE MenuUpdate \/ PageCheck \/ PageInstall
    BY <2>2 DEF MenuUpdate, PageCheck, PageInstall, Counted
  <2>3. CASE MenuQuit \/ PageQuit \/ Visit \/ status_json \/ Close
    BY <2>3 DEF MenuQuit, PageQuit, Visit, status_json, Close, facts
  <2> QED
    BY <1>3, <2>1, <2>2, <2>3 DEF Person
<1>4. CASE Start \/ tray_is_up \/ LoopReads \/ LoopSends \/ Refreshing \/ Delivering
  BY <1>4 DEF Start, tray_is_up, LoopReads, LoopSends, Refreshing, RefreshReads, RefreshEnds,
              Delivering, Deliver, facts
<1>5. ASSUME NEW w \in Writers, set_autostart(w)
      PROVE  UNCHANGED <<changes, blocked>>
  BY <1>5 DEF set_autostart, facts
<1>6. ASSUME NEW w \in DOMAIN prompts, Asking(w) \/ Hears(w) \/ Tells(w)
      PROVE  changes' = changes /\ (blocked \in BOOLEAN => blocked' \in BOOLEAN)
  BY <1>6 DEF Asking, TakesTurn, Spawns, Hears, Tells, facts
<1>7. CASE UNCHANGED vars
  BY <1>7 DEF vars, facts
<1> QED
  BY <1>1, <1>2, <1>3, <1>4, <1>5, <1>6, <1>7 DEF Next

\* Where the threads at the entry may be, and what may come of it.
Places == {"look", "idle", "on", "off", "open", "moved", "lost", "written", "blocked", "asking"}
Entries == {"none", "here", "elsewhere", "hidden", "half"}
FileTyped == /\ entry \in Entries /\ tmp \in {"none", "half", "whole"} /\ at \in [Writers -> Places]

LEMMA FileStaysTyped == ASSUME FileTyped, Kinds PROVE FileTyped'
<1> USE DEF FileTyped, Places
<1>0. Callers \subseteq Writers
  BY DEF Callers, Writers
<1>1. ASSUME UNCHANGED file PROVE FileTyped'
  BY <1>1 DEF file
<1>2. ASSUME NEW w \in Callers, Begun(w) PROVE FileTyped'
  BY <1>0, <1>2 DEF Begun, Goto
<1>3. CASE refresh
  BY <1>3 DEF refresh, Goto, Writers
<1>4. CASE Settings
  BY <1>4 DEF Settings, Entries
<1>5. ASSUME NEW w \in Writers, enable(w) PROVE FileTyped'
  <2>1. CASE SetsValue(w) \/ Begins(w)
    BY <2>1 DEF SetsValue, Begins, Opens, Goto, Entries
  <2>2. CASE Writes(w)
    BY <2>2 DEF Writes, Goto, Entries
  <2>3. CASE Renames(w)
    BY <2>3 DEF Renames, Goto, Unnamed, Entries
  <2> QED
    BY <1>5, <2>1, <2>2, <2>3 DEF enable
<1>6. ASSUME NEW w \in Writers, disable(w) \/ Fails(w) PROVE FileTyped'
  BY <1>6 DEF disable, Unnamed, Fails, Goto, Entries
<1>7. ASSUME NEW w \in Callers, TakesTurn(w) \/ Spawns(w) PROVE FileTyped'
  BY <1>0, <1>7 DEF TakesTurn, Spawns, Goto
<1>8. ASSUME NEW w \in Callers, Hears(w) \/ Tells(w) PROVE UNCHANGED file
  BY <1>8 DEF Hears, Tells
<1> QED
  BY <1>1, <1>2, <1>3, <1>4, <1>5, <1>6, <1>7, <1>8 DEF Kinds

LEMMA NextTyped == Typed /\ [Next]_vars => Typed'
<1> SUFFICES ASSUME Typed, [Next]_vars PROVE Typed'
  OBVIOUS
<1>1. FileTyped /\ allowing \in [working : BOOLEAN, note : Outcomes \cup {Nothing}, terminal : BOOLEAN]
      /\ prompts \in [Callers -> Outcomes \cup {"none", "open"}] /\ DOMAIN prompts = Callers
  BY DEF Typed, TypeOK, FileTyped, Places, Entries
<1>2. Kinds /\ FileTyped'
  BY <1>1, Steps, FileStaysTyped
<1>3. allowing' \in [working : BOOLEAN, note : Outcomes \cup {Nothing}, terminal : BOOLEAN]
      /\ prompts' \in [Callers -> Outcomes \cup {"none", "open"}]
  <2>1. CASE UNCHANGED asking
    BY <1>1, <2>1 DEF asking
  <2>2. ASSUME NEW w \in Callers, Begun(w) PROVE UNCHANGED asking
    BY <2>2 DEF Begun
  <2>3. ASSUME NEW w \in Callers, TakesTurn(w) \/ Spawns(w) PROVE <1>3
    <3>1. CASE TakesTurn(w)
      <4>1. prompts' = prompts /\ (allowing' = allowing \/ allowing' = [working |-> TRUE, note |-> Nothing, terminal |-> FALSE])
        BY <3>1 DEF TakesTurn
      <4>2. [working |-> TRUE, note |-> Nothing, terminal |-> FALSE]
              \in [working : BOOLEAN, note : Outcomes \cup {Nothing}, terminal : BOOLEAN]
        OBVIOUS
      <4> QED
        BY <1>1, <4>1, <4>2, Zenon
    <3>2. CASE Spawns(w)
      BY <1>1, <3>2 DEF Spawns
    <3> QED
      BY <2>3, <3>1, <3>2
  <2>4. ASSUME NEW w \in Callers, Hears(w) PROVE <1>3
    <3>1. allowing' = allowing
      BY <2>4 DEF Hears
    <3>2. PICK heard \in Outcomes : prompts' = [prompts EXCEPT ![w] = heard]
      <4>1. ASSUME NEW said \in {"cannot run", "success", "dismissed", "not authorized", "other"}, NEW still \in BOOLEAN
            PROVE  PkexecEnds(said, still) \in Outcomes
        BY <4>1 DEF PkexecEnds, Outcomes
      <4>2. \A opened \in BOOLEAN : SettingsOpens(opened) \in Outcomes
        BY DEF SettingsOpens, Outcomes
      <4>3. blocked' \in BOOLEAN
        BY Rest DEF Typed, TypeOK
      <4> QED
        BY <2>4, <4>1, <4>2, <4>3 DEF Hears
    <3> QED
      BY <1>1, <3>1, <3>2
  <2>5. ASSUME NEW w \in Callers, Tells(w) PROVE <1>3
    <3>1. prompts[w] \in Outcomes /\ allowing' = after(prompts[w]) /\ prompts' = [prompts EXCEPT ![w] = "none"]
      BY <1>1, <2>5 DEF Tells
    <3>2. after(prompts[w]) \in [working : BOOLEAN, note : Outcomes \cup {Nothing}, terminal : BOOLEAN]
      BY <3>1 DEF after
    <3> QED
      BY <1>1, <3>1, <3>2
  <2> QED
    BY <1>2, <2>1, <2>2, <2>3, <2>4, <2>5 DEF Kinds
<1>4. changes' \in 0 .. MaxChanges /\ blocked' \in BOOLEAN
  BY Rest, PanelAssumption DEF Typed, TypeOK
<1> QED
  BY <1>2, <1>3, <1>4 DEF Typed, TypeOK, FileTyped, Places, Entries

-----------------------------------------------------------------------------
(* Asking. *)

\* Only the place of the thread that asks, its prompt and `working' matter.
Same(w) == (at'[w] = "asking" <=> at[w] = "asking") /\ prompts'[w] = prompts[w]

LEMMA SameAsking ==
    ASSUME Typed, AskInv, Typed', allowing' = allowing, \A w \in Callers : Same(w)
    PROVE  AskInv'
<1>1. HasPrompt' = HasPrompt
  BY DEF HasPrompt, Same, Typed
<1> QED
  BY <1>1 DEF AskInv, Same

LEMMA NextAsk == Typed /\ AskInv /\ [Next]_vars => AskInv'
<1> SUFFICES ASSUME Typed, AskInv, [Next]_vars PROVE AskInv'
  OBVIOUS
<1>1. /\ prompts \in [Callers -> Outcomes \cup {"none", "open"}] /\ DOMAIN prompts = Callers
      /\ at \in [Writers -> Places] /\ Callers \subseteq Writers /\ Typed' /\ Kinds
      /\ allowing \in [working : BOOLEAN, note : Outcomes \cup {Nothing}, terminal : BOOLEAN]
      /\ prompts' \in [Callers -> Outcomes \cup {"none", "open"}] /\ DOMAIN prompts' = Callers
      /\ at' \in [Writers -> Places]
  BY NextTyped, Steps DEF Typed, TypeOK, Places, Callers, Writers
<1>2. ASSUME UNCHANGED asking,
             \A w \in Callers : at'[w] = "asking" <=> at[w] = "asking"
      PROVE  AskInv'
  BY <1>1, <1>2, SameAsking DEF asking, Same
<1>3. CASE UNCHANGED <<file, asking>>
  BY <1>2, <1>3 DEF file
<1>4. ASSUME NEW w \in Callers, Begun(w) PROVE AskInv'
  BY <1>1, <1>2, <1>4 DEF Begun, Idle, Goto
<1>5. CASE refresh /\ UNCHANGED asking
  BY <1>1, <1>2, <1>5 DEF refresh, Goto, Callers
<1>6. CASE Settings /\ UNCHANGED asking
  BY <1>1, <1>2, <1>6 DEF Settings
<1>7. ASSUME NEW w \in Writers, enable(w) \/ disable(w) \/ Fails(w), UNCHANGED asking PROVE AskInv'
  <2>1. CASE SetsValue(w) \/ Begins(w)
    BY <1>1, <1>2, <1>7, <2>1 DEF SetsValue, Begins, Opens, Goto
  <2>2. CASE Writes(w)
    BY <1>1, <1>2, <1>7, <2>2 DEF Writes, Holding, Goto
  <2>3. CASE Renames(w)
    BY <1>1, <1>2, <1>7, <2>3 DEF Renames, Unnamed, Goto
  <2>4. CASE disable(w)
    BY <1>1, <1>2, <1>7, <2>4 DEF disable, Unnamed
  <2>5. CASE Fails(w)
    BY <1>1, <1>2, <1>7, <2>5 DEF Fails, Goto
  <2> QED
    BY <1>7, <2>1, <2>2, <2>3, <2>4, <2>5 DEF enable
<1>8. ASSUME NEW w \in Callers, TakesTurn(w) PROVE AskInv'
  <2>1. prompts' = prompts /\ at[w] = "blocked"
    BY <1>8 DEF TakesTurn
  <2>2. CASE NobodyAsks
    <3>1. HasPrompt = {} /\ at' = [at EXCEPT ![w] = "asking"] /\ allowing'.working = TRUE
      BY <1>8, <2>2 DEF TakesTurn, NobodyAsks, AskInv, Goto
    <3>2. \A v \in Callers : prompts[v] = "none" /\ at[v] # "asking"
      BY <1>1, <3>1 DEF HasPrompt
    <3>3. HasPrompt' = {w}
      BY <1>1, <2>1, <3>1, <3>2 DEF HasPrompt
    <3>4. \A v \in Callers : prompts'[v] = "none"
      BY <2>1, <3>2
    <3> QED
      BY <3>1, <3>3, <3>4 DEF AskInv
  <2>3. CASE ~NobodyAsks
    <3>1. at' = [at EXCEPT ![w] = "idle"] /\ allowing' = allowing
      BY <1>8, <2>3 DEF TakesTurn, Goto
    <3> QED
      BY <1>1, <2>1, <3>1, SameAsking DEF Same
  <2> QED
    BY <2>2, <2>3
<1>9. ASSUME NEW w \in Callers, Spawns(w) PROVE AskInv'
  <2>1. at[w] = "asking" /\ at' = [at EXCEPT ![w] = "idle"] /\ prompts[w] = "none"
    BY <1>9 DEF Spawns, Goto, AskInv
  <2>2. HasPrompt = {w}
    BY <1>1, <2>1 DEF HasPrompt, AskInv
  <2>3. \A v \in Callers \ {w} : prompts[v] = "none" /\ at[v] # "asking" /\ at'[v] = at[v]
    BY <1>1, <2>1, <2>2 DEF HasPrompt
  <2>4. at'[w] = "idle"
    BY <1>1, <2>1
  <2>5. CASE prompts' = [prompts EXCEPT ![w] = "open"] /\ UNCHANGED allowing
    <3>1. HasPrompt' = {w} /\ \A v \in Callers : at'[v] # "asking"
      BY <1>1, <2>3, <2>4, <2>5 DEF HasPrompt
    <3> QED
      BY <2>2, <2>5, <3>1 DEF AskInv
  <2>6. CASE allowing' = [allowing EXCEPT !.working = FALSE] /\ UNCHANGED prompts
    <3>1. HasPrompt' = {} /\ \A v \in Callers : at'[v] # "asking"
      BY <1>1, <2>1, <2>3, <2>4, <2>6 DEF HasPrompt
    <3>2. ~allowing'.working
      BY <1>1, <2>6
    <3> QED
      BY <3>1, <3>2 DEF AskInv
  <2> QED
    BY <1>9, <2>5, <2>6 DEF Spawns
<1>10. ASSUME NEW w \in Callers, Hears(w) PROVE AskInv'
  <2>1. prompts[w] = "open" /\ UNCHANGED <<at, allowing>> /\ \E heard : prompts' = [prompts EXCEPT ![w] = heard]
    BY <1>10 DEF Hears, file
  <2>2. prompts'[w] # "none"
    <3>1. \A said \in {"cannot run", "success", "dismissed", "not authorized", "other"} : \A still \in BOOLEAN :
             PkexecEnds(said, still) # "none"
      BY DEF PkexecEnds
    <3>2. \A opened \in BOOLEAN : SettingsOpens(opened) # "none"
      BY DEF SettingsOpens
    <3>3. blocked' \in BOOLEAN
      BY <1>1 DEF Typed, TypeOK
    <3> QED
      BY <1>1, <1>10, <3>1, <3>2, <3>3 DEF Hears
  <2>3. HasPrompt' = HasPrompt
    BY <1>1, <2>1, <2>2 DEF HasPrompt
  <2>4. \A v \in Callers : at'[v] = "asking" => v # w /\ prompts'[v] = "none"
    BY <1>1, <2>1 DEF AskInv
  <2> QED
    BY <2>1, <2>3, <2>4 DEF AskInv
<1>11. ASSUME NEW w \in Callers, Tells(w) PROVE AskInv'
  <2>1. prompts[w] # "none" /\ prompts' = [prompts EXCEPT ![w] = "none"] /\ at' = at /\ ~allowing'.working
    BY <1>11 DEF Tells, after, file
  <2>2. HasPrompt = {w} /\ at[w] # "asking"
    BY <1>1, <2>1 DEF HasPrompt, AskInv
  <2>3. HasPrompt' = {}
    BY <1>1, <2>1, <2>2 DEF HasPrompt
  <2>4. \A v \in Callers : at'[v] = "asking" => prompts'[v] = "none"
    BY <1>1, <2>1 DEF AskInv
  <2> QED
    BY <2>1, <2>3, <2>4 DEF AskInv
<1> QED
  BY <1>1, <1>3, <1>4, <1>5, <1>6, <1>7, <1>8, <1>9, <1>10, <1>11 DEF Kinds

-----------------------------------------------------------------------------
(* The entry at login. *)

LEMMA NextEntry == Typed /\ EntryInv /\ [Next]_vars => EntryInv'
<1> SUFFICES ASSUME Typed, EntryInv, [Next]_vars, ~overlapped' PROVE EntryInv'
  BY DEF EntryInv
<1>1. at \in [Writers -> Places] /\ Callers \subseteq Writers /\ Kinds
  BY Steps DEF Typed, TypeOK, Places, Callers, Writers
<1>2. ASSUME ~overlapped, \A w \in Writers : at'[w] = at[w] \/ at'[w] \notin {"moved", "lost", "open", "written"},
             entry' # "half", tmp' = tmp
      PROVE  EntryInv'
  BY <1>2 DEF EntryInv
<1>3. CASE UNCHANGED <<file, asking>>
  BY <1>2, <1>3 DEF file, EntryInv
<1>4. ASSUME NEW w \in Callers, Begun(w) PROVE EntryInv'
  BY <1>1, <1>2, <1>4 DEF Begun, Goto, EntryInv
<1>5. CASE refresh
  BY <1>1, <1>2, <1>5 DEF refresh, Goto, EntryInv
<1>6. CASE Settings
  BY <1>1, <1>2, <1>6 DEF Settings, EntryInv
<1>7. ASSUME NEW w \in Writers, enable(w) \/ disable(w) \/ Fails(w) PROVE EntryInv'
  <2>1. CASE SetsValue(w)
    BY <1>1, <1>2, <2>1 DEF SetsValue, Goto
  <2>2. CASE Begins(w)
    <3>1. /\ ~overlapped /\ entry' = entry /\ at' = [at EXCEPT ![w] = "open"]
          /\ \A x \in Writers \ {w} : at[x] \notin {"open", "moved", "written"}
      BY <2>2 DEF Begins, Opens, Goto
    <3> QED
      BY <1>1, <1>7, <3>1 DEF EntryInv
  <2>3. CASE Writes(w)
    <3>1. ~overlapped /\ at[w] = "open" /\ entry' = entry /\ tmp' = "whole" /\ at' = [at EXCEPT ![w] = "written"]
      BY <1>7, <2>3 DEF Writes, Holding, Goto, EntryInv
    <3> QED
      BY <1>1, <1>7, <3>1 DEF EntryInv
  <2>4. CASE Renames(w)
    <3>1. ~overlapped /\ at[w] = "written" /\ tmp = "whole"
      BY <1>7, <2>4 DEF Renames, EntryInv
    <3>2. \A x \in Writers \ {w} : at[x] \notin {"open", "moved", "lost", "written"}
      BY <1>7, <3>1 DEF EntryInv
    <3>3. entry' = "here" /\ \A x \in Writers : at'[x] = IF x = w THEN "idle" ELSE at[x]
      BY <2>4, <3>1, <3>2 DEF Renames, Unnamed
    <3> QED
      BY <3>2, <3>3 DEF EntryInv
  <2>5. CASE disable(w)
    BY <1>1, <1>2, <2>5 DEF disable, Unnamed, EntryInv
  <2>6. CASE Fails(w)
    BY <1>1, <1>2, <2>6 DEF Fails, Goto, EntryInv
  <2> QED
    BY <1>7, <2>1, <2>2, <2>3, <2>4, <2>5, <2>6 DEF enable
<1>8. ASSUME NEW w \in Callers, TakesTurn(w) \/ Spawns(w) PROVE EntryInv'
  BY <1>1, <1>2, <1>8 DEF TakesTurn, Spawns, Goto, EntryInv
<1>9. ASSUME NEW w \in Callers, Hears(w) \/ Tells(w) PROVE EntryInv'
  BY <1>2, <1>9 DEF Hears, Tells, file, EntryInv
<1> QED
  BY <1>1, <1>3, <1>4, <1>5, <1>6, <1>7, <1>8, <1>9 DEF Kinds

-----------------------------------------------------------------------------
LEMMA InitInv == Init => PanelInv
<1> SUFFICES ASSUME Init PROVE PanelInv
  OBVIOUS
<1>1. Typed
  <2>1. allowing = [working |-> FALSE, note |-> Nothing, terminal |-> FALSE]
        /\ allowing \in [working : BOOLEAN, note : Outcomes \cup {Nothing}, terminal : BOOLEAN]
    BY DEF Init
  <2>2. /\ entry \in {"none", "here", "elsewhere", "hidden", "half"} /\ tmp \in {"none", "half", "whole"}
        /\ at \in [Writers -> Places] /\ prompts \in [Callers -> Outcomes \cup {"none", "open"}]
        /\ changes \in 0 .. MaxChanges
    BY PanelAssumption DEF Init, Callers, Places
  <2>3. blocked \in BOOLEAN
    BY Zenon DEF Init
  <2> QED
    BY <2>1, <2>2, <2>3 DEF Typed, TypeOK, Places
<1>2. HasPrompt = {} /\ ~allowing.working
  BY DEF Init, HasPrompt, Writers
<1>3. AskInv
  BY <1>2 DEF Init, AskInv, Callers
<1>4. EntryInv
  BY DEF Init, EntryInv, Writers
<1> QED
  BY <1>1, <1>3, <1>4 DEF PanelInv

LEMMA Invariance == Spec => []PanelInv
<1>1. PanelInv /\ [Next]_vars => PanelInv'
  BY NextTyped, NextAsk, NextEntry DEF PanelInv
<1> QED
  BY <1>1, InitInv, PTL DEF Spec

\* The entry, the neighbour, the threads and the asking stay what they may be.
THEOREM PanelTyped == Spec => []TypeOK
<1>1. PanelInv => TypeOK
  BY DEF PanelInv, Typed
<1> QED
  BY <1>1, Invariance, PTL

\* However the menu's thread, the page's and those they start take turns, one password prompt at most is there or
\* about to be, and `working' says exactly when (Shared::allow).
THEOREM OnlyOnePrompt == Spec => []OnePrompt
<1>1. ASSUME PanelInv PROVE OnePrompt
  <2>1. \A v, w \in HasPrompt : v = w
    BY <1>1 DEF PanelInv, AskInv
  <2>2. Cardinality(HasPrompt) <= 1
    <3>1. CASE HasPrompt = {}
      BY <3>1, FS_EmptySet
    <3>2. ASSUME NEW w \in HasPrompt PROVE Cardinality(HasPrompt) <= 1
      <4>1. HasPrompt = {w}
        BY <2>1
      <4> QED
        BY <4>1, FS_Singleton, SMTT(30)
    <3> QED
      BY <3>1, <3>2
  <2> QED
    BY <1>1, <2>2 DEF OnePrompt, PanelInv, AskInv
<1> QED
  BY <1>1, Invariance, PTL

\* The entry is cut off only if two threads wrote the neighbour at the same time (write_replacing).
THEOREM WholeEntry == Spec => []EntryIsWhole
<1>1. PanelInv => EntryIsWhole
  BY DEF PanelInv, EntryInv, EntryIsWhole
<1> QED
  BY <1>1, Invariance, PTL

---------------------------------------------------------------------------
(***************************************************************************)
(* Backends: nothing stays down, on any of the systems, for any keys,      *)
(* modifiers, texts and commands, and however often the system takes only  *)
(* some of the events.  What follows goes from an event up to a message    *)
(* (it leaves down what it pressed and did not release), and then to the   *)
(* invariant: whatever is down has somebody who will release it.           *)
(***************************************************************************)

\* What the events of a message leave down.

IsState(pc) == pc = [down |-> pc.down, text |-> pc.text, hex |-> pc.hex]
Known == all_supported_keys \cup Buttons
OnLinux(d) == system.os = "Linux" => d \subseteq Known

Alike(new, pc) == IsState(new) /\ new.down = pc.down

LEMMA Changed ==
  ASSUME NEW pc, IsState(pc), NEW t, NEW h
  PROVE  /\ Alike([pc EXCEPT !.text = t], pc) /\ Alike([pc EXCEPT !.hex = h], pc)
         /\ Alike([down |-> pc.down, text |-> t, hex |-> h], pc)
<1> DEFINE d == pc.down
           t0 == pc.text
           h0 == pc.hex
<1>1. pc = [down |-> d, text |-> t0, hex |-> h0]
  BY DEF IsState
<1> HIDE DEF d, t0, h0
<1>2. /\ [pc EXCEPT !.text = t] = [down |-> d, text |-> t, hex |-> h0]
      /\ [pc EXCEPT !.hex = h] = [down |-> d, text |-> t0, hex |-> h]
  <2> DEFINE q == [down |-> d, text |-> t0, hex |-> h0]
  <2>1. [q EXCEPT !.text = t] = [down |-> d, text |-> t, hex |-> h0]
    OBVIOUS
  <2>2. [q EXCEPT !.hex = h] = [down |-> d, text |-> t0, hex |-> h]
    OBVIOUS
  <2> QED
    BY <1>1, <2>1, <2>2, Zenon
<1>3. \A x, y : IsState([down |-> d, text |-> x, hex |-> y]) /\ [down |-> d, text |-> x, hex |-> y].down = d
  BY DEF IsState
<1> QED
  BY <1>2, <1>3 DEF d, Alike

LEMMA LinuxTypes == ASSUME NEW pc, IsState(pc), NEW k PROVE Alike(PressedOnLinux(pc, k), pc)
<1>1. Alike(pc, pc)
  BY DEF Alike
<1> QED
  BY <1>1, Changed, Zenon DEF PressedOnLinux

LEMMA MacTypes == ASSUME NEW pc, IsState(pc), NEW e PROVE Alike(PressedOnMac(pc, e), pc)
<1>1. Alike(pc, pc)
  BY DEF Alike
<1> QED
  BY <1>1, Changed, Zenon DEF PressedOnMac

LEMMA Felt ==
  ASSUME NEW pc, IsState(pc), NEW e, OnLinux(pc.down)
  PROVE  /\ IsState(Feels(pc, e)) /\ OnLinux(Feels(pc, e).down)
         /\ \A k \in Feels(pc, e).down :
              \/ e.isDown /\ k = e.key
              \/ k \in pc.down /\ (k = e.key => e.isDown)
<1>1. CASE system.os = "Linux" /\ e.key \notin Known
  BY <1>1 DEF Feels, OnLinux, Known
<1>2. CASE ~(system.os = "Linux" /\ e.key \notin Known)
  <2> DEFINE typed == IF system.os = "Linux" THEN PressedOnLinux(pc, e.key)
                      ELSE IF system.os = "macOS" THEN PressedOnMac(pc, e) ELSE [pc EXCEPT !.text = @ \o e.units]
             felt == IF ~e.isDown THEN pc ELSE typed
  <2>1. IsState(felt) /\ felt.down = pc.down
    <3>1. Alike([pc EXCEPT !.text = @ \o e.units], pc) /\ Alike(pc, pc)
      BY Changed DEF Alike
    <3> QED
      BY <3>1, LinuxTypes, MacTypes DEF Alike
  <2>2. Feels(pc, e) = [felt EXCEPT !.down = IF e.isDown THEN @ \cup {e.key} ELSE @ \ {e.key}]
    BY <1>2 DEF Feels, Known
  <2> HIDE DEF felt
  <2>3. IsState(Feels(pc, e)) /\ Feels(pc, e).down = IF e.isDown THEN pc.down \cup {e.key} ELSE pc.down \ {e.key}
    BY <2>1, <2>2 DEF IsState
  <2> QED
    BY <1>2, <2>3 DEF OnLinux
<1> QED
  BY <1>1, <1>2

\* Whether it is down because of an event and no later one ended it, or was down before and no event is about it.
Since(events, k, i) ==
    \E a \in 1 .. i : /\ events[a].isDown /\ events[a].key = k
                      /\ \A b \in a + 1 .. i : events[b].key = k => events[b].isDown
Untouched(events, k, i) == k \in down /\ \A b \in 1 .. i : events[b].key # k

Feeling(events, pc, n) ==
    pc = [i \in 0 .. n |-> IF i = 0 THEN [down |-> down, text |-> <<>>, hex |-> NotEntering]
                           ELSE Feels(pc[i - 1], events[i])]

LEMMA FeelingExists ==
  ASSUME NEW events, NEW n \in Nat PROVE \E pc : Feeling(events, pc, n)
<1> DEFINE start == [down |-> down, text |-> <<>>, hex |-> NotEntering]
           K == {k \in Nat : \E pc : Feeling(events, pc, k)}
<1>1. 0 \in K
  <2> DEFINE pc == [i \in 0 .. 0 |-> start]
  <2>1. pc = [i \in 0 .. 0 |-> IF i = 0 THEN start ELSE Feels(pc[i - 1], events[i])]
    OBVIOUS
  <2> QED
    BY <2>1 DEF Feeling
<1>2. ASSUME NEW k \in K PROVE k + 1 \in K
  <2>1. PICK pc : Feeling(events, pc, k)
    OBVIOUS
  <2> DEFINE f == [i \in 0 .. k + 1 |-> IF i = k + 1 THEN Feels(pc[k], events[k + 1]) ELSE pc[i]]
  <2>2. k \in Nat /\ pc[0] = start /\ \A i \in 0 .. k : i # 0 => pc[i] = Feels(pc[i - 1], events[i])
    BY <2>1 DEF Feeling
  <2> HIDE DEF start
  <2>3. f[0] = start /\ \A i \in 0 .. k + 1 : i # 0 => f[i] = Feels(f[i - 1], events[i])
    <3>1. f[0] = start
      BY <2>2
    <3>2. ASSUME NEW i \in 0 .. k + 1, i # 0 PROVE f[i] = Feels(f[i - 1], events[i])
      <4>1. CASE i = k + 1
        <5>1. i - 1 = k /\ f[k] = pc[k] /\ f[i] = Feels(pc[k], events[k + 1])
          BY <2>2, <4>1
        <5> HIDE DEF f
        <5> QED
          BY <4>1, <5>1
      <4>2. CASE i # k + 1
        <5>1. i \in 0 .. k /\ f[i] = pc[i] /\ f[i - 1] = pc[i - 1]
          BY <2>2, <3>2, <4>2
        <5> HIDE DEF f
        <5> QED
          BY <2>2, <3>2, <5>1
      <4> QED
        BY <4>1, <4>2
    <3> QED
      BY <3>1, <3>2
  <2>4. f = [i \in 0 .. k + 1 |-> f[i]]
    OBVIOUS
  <2> HIDE DEF f
  <2>5. Feeling(events, f, k + 1)
    BY <2>3, <2>4 DEF Feeling, start
  <2> QED
    BY <2>2, <2>5
<1>3. K = Nat
  <2>1. K \in SUBSET Nat
    OBVIOUS
  <2> HIDE DEF K
  <2> QED
    BY <1>1, <1>2, <2>1, NatSetInduction
<1> QED
  BY <1>3

LEMMA TakenLeaves ==
  ASSUME NEW events, Len(events) \in Nat, OnLinux(down)
  PROVE  /\ OnLinux(Taken(events).down)
         /\ \A k \in Taken(events).down : Untouched(events, k, Len(events)) \/ Since(events, k, Len(events))
<1> DEFINE n == Len(events)
           start == [down |-> down, text |-> <<>>, hex |-> NotEntering]
           J == CHOOSE pc : Feeling(events, pc, n)
           Good(i) == /\ IsState(J[i]) /\ OnLinux(J[i].down)
                      /\ \A k \in J[i].down : Untouched(events, k, i) \/ Since(events, k, i)
           K == {i \in Nat : i =< n => Good(i)}
<1>1. Taken(events) = J[n]
  BY DEF Taken, Feeling
<1>2. Feeling(events, J, n)
  BY FeelingExists
<1> HIDE DEF J, n
<1>3. J[0] = start /\ \A i \in 0 .. n : i # 0 => J[i] = Feels(J[i - 1], events[i])
  BY <1>2 DEF Feeling, n
<1>4. 0 \in K
  <2>1. IsState(start) /\ start.down = down /\ \A k \in down : Untouched(events, k, 0)
    BY DEF IsState, Untouched
  <2> QED
    BY <1>3, <2>1
<1>5. ASSUME NEW i \in K PROVE i + 1 \in K
  <2> SUFFICES ASSUME i + 1 =< n PROVE Good(i + 1)
    OBVIOUS
  <2>1. i \in Nat /\ n \in Nat /\ i + 1 \in 0 .. n /\ i + 1 # 0 /\ (i + 1) - 1 = i
    BY DEF n
  <2>2. Good(i)
    BY <2>1
  <2>3. J[i + 1] = Feels(J[i], events[i + 1])
    BY <1>3, <2>1
  <2>4. /\ IsState(J[i + 1]) /\ OnLinux(J[i + 1].down)
        /\ \A k \in J[i + 1].down :
             \/ events[i + 1].isDown /\ k = events[i + 1].key
             \/ k \in J[i].down /\ (k = events[i + 1].key => events[i + 1].isDown)
    BY <2>2, <2>3, Felt
  <2>5. ASSUME NEW k \in J[i + 1].down PROVE Untouched(events, k, i + 1) \/ Since(events, k, i + 1)
    <3>1. CASE events[i + 1].isDown /\ k = events[i + 1].key
      <4>1. i + 1 \in 1 .. i + 1 /\ (i + 1) + 1 .. i + 1 = {}
        BY <2>1
      <4> QED
        BY <3>1, <4>1 DEF Since
    <3>2. CASE k \in J[i].down /\ k # events[i + 1].key
      <4>1. \A b \in 1 .. i + 1 : b \in 1 .. i \/ b = i + 1
        BY <2>1
      <4>2. CASE Untouched(events, k, i)
        BY <3>2, <4>1, <4>2 DEF Untouched
      <4>3. CASE Since(events, k, i)
        <5>1. PICK a \in 1 .. i : /\ events[a].isDown /\ events[a].key = k
                                  /\ \A b \in a + 1 .. i : events[b].key = k => events[b].isDown
          BY <4>3 DEF Since
        <5>2. a \in 1 .. i + 1 /\ \A b \in a + 1 .. i + 1 : b \in a + 1 .. i \/ b = i + 1
          BY <2>1
        <5> QED
          BY <3>2, <5>1, <5>2 DEF Since
      <4> QED
        BY <2>2, <3>2, <4>2, <4>3
    <3> QED
      BY <2>4, <3>1, <3>2
  <2> QED
    BY <2>4, <2>5
<1>6. K = Nat
  <2>1. K \in SUBSET Nat
    OBVIOUS
  <2> HIDE DEF K
  <2> QED
    BY <1>4, <1>5, <2>1, NatSetInduction
<1>7. Good(n)
  <2>1. n \in Nat
    BY DEF n
  <2> QED
    BY <1>6, <2>1
<1> QED
  BY <1>1, <1>7 DEF n

LEMMA Sending ==
  ASSUME NEW c \in Nat, NEW sent \in send_inputs(c)
  PROVE  sent.n \in 0 .. c /\ (sent.n # c => sent.fault)
<1>1. ASSUME NEW s \in emit(c) PROVE s.n \in 0 .. c /\ (s.n # c => s.fault)
  <2>1. CASE s = [n |-> c, fault |-> FALSE]
    BY <2>1
  <2>2. CASE s \in [n : IF faults < MaxFaults THEN 0 .. (c - 1) ELSE {}, fault : {TRUE}]
    <3>1. s.n \in 0 .. (c - 1) /\ s.fault \in {TRUE}
      BY <2>2
    <3>2. s.n \in 0 .. c
      BY <3>1
    <3>3. s.fault
      BY <3>1, Zenon
    <3> QED
      BY <3>2, <3>3, Zenon
  <2> QED
    BY <2>1, <2>2 DEF emit
<1>2. sent \in emit(c) \/ (sent \in SendInput(c) /\ ~(sent.n = 0 /\ c > 0))
  BY DEF send_inputs
<1>3. sent \in emit(c) \/ (sent = [n |-> 0, fault |-> FALSE] /\ ~(c > 0))
  BY <1>2 DEF SendInput
<1> QED
  BY <1>1, <1>3

\* What a call leaves down: what was down, if no event was about it, and what an event pressed; but what was
\* offered the end of, and did not take it, is lost.
Ended(events, k, i) == \A j \in DOMAIN events : j > i /\ events[j].key = k /\ ~events[j].isDown => k \in lost'
Fate(events, k) ==
    \/ k \in down /\ (k \in lost => k \in lost') /\ Ended(events, k, 0)
    \/ \E i \in DOMAIN events : events[i].isDown /\ events[i].key = k /\ Ended(events, k, i)

\* What the backend notes of itself changes with the events or, where they are not all taken, not at all.
LastEnded(events) ==
    Len(events) \in DOMAIN events /\ (~events[Len(events)].isDown => events[Len(events)].key \in lost')

LEMMA CallMade ==
  ASSUME NEW events, IsSequence(events), NEW notes, NEW text, OnLinux(down), faults \in Nat, backend.ready,
         Inject(events, notes, text)
  PROVE  /\ OnLinux(down') /\ \A k \in down' : Fate(events, k)
         /\ faults' \in Nat /\ (faults' = 0 => faults = 0)
         /\ \A b \in lost : (\A i \in DOMAIN events : events[i].key # b) => b \in lost'
         /\ mac' = notes \/ (mac' = mac /\ faults' # 0 /\ LastEnded(events))
<1> DEFINE c == Len(events)
<1>1. c \in Nat /\ DOMAIN events = 1 .. c
  BY SequenceFacts
<1>2. PICK sent \in send_inputs(c) : LET o == Outcome(events, notes, text, sent)
                                     IN down' = o.down /\ lost' = o.lost /\ mac' = o.mac /\ faults' = o.faults
  BY DEF Inject, Results
<1> DEFINE n == sent.n
<1>3. n \in 0 .. c /\ (n # c => sent.fault)
  BY <1>1, Sending
<1>4. /\ down' = Taken(SubSeq(events, 1, n)).down
      /\ lost' = (lost \ {events[i].key : i \in 1 .. n})
                 \cup (IF sent.fault THEN {events[i].key : i \in {j \in (n + 1) .. c : ~events[j].isDown}} ELSE {})
      /\ mac' = IF n = c THEN notes ELSE mac
      /\ faults' = faults + (IF sent.fault THEN 1 ELSE 0)
  BY <1>2 DEF Outcome
<1> HIDE DEF n, c
<1>5. Len(SubSeq(events, 1, n)) = n /\ (\A i \in 1 .. n : SubSeq(events, 1, n)[i] = events[i]) /\ n \in Nat
  <2>1. n \in 0 .. Len(events)
    BY <1>3 DEF c
  <2>2. n \in Nat
    BY <1>1, <1>3
  <2> QED
    BY <2>1, <2>2, PrefixSequence, Zenon
<1>6. /\ OnLinux(down')
      /\ \A k \in down' : Untouched(SubSeq(events, 1, n), k, n) \/ Since(SubSeq(events, 1, n), k, n)
  BY <1>4, <1>5, TakenLeaves, Zenon
<1>7. \A j \in 1 .. c : j \notin 1 .. n => sent.fault /\ j \in n + 1 .. c /\ j > n
  BY <1>1, <1>3, <1>5
<1>8. \A j \in 1 .. c : j \notin 1 .. n /\ ~events[j].isDown => events[j].key \in lost'
  BY <1>4, <1>7
<1>9. \A b \in lost : (\A i \in 1 .. n : events[i].key # b) => b \in lost'
  BY <1>4
<1>10. ASSUME NEW k \in down' PROVE Fate(events, k)
  <2>1. CASE Untouched(SubSeq(events, 1, n), k, n)
    <3>1. k \in down /\ \A b \in 1 .. n : events[b].key # k
      BY <1>5, <2>1 DEF Untouched
    <3> QED
      BY <1>1, <1>8, <1>9, <3>1 DEF Fate, Ended
  <2>2. CASE Since(SubSeq(events, 1, n), k, n)
    <3>1. PICK a \in 1 .. n :
            /\ SubSeq(events, 1, n)[a].isDown /\ SubSeq(events, 1, n)[a].key = k
            /\ \A b \in a + 1 .. n : SubSeq(events, 1, n)[b].key = k => SubSeq(events, 1, n)[b].isDown
      BY <2>2 DEF Since
    <3>2. \A b \in a + 1 .. n : b \in 1 .. n
      BY <1>5
    <3>3. events[a].isDown /\ events[a].key = k /\ \A b \in a + 1 .. n : events[b].key = k => events[b].isDown
      BY <1>5, <3>1, <3>2
    <3>4. \A j \in 1 .. c : j > a /\ j \in 1 .. n => j \in a + 1 .. n
      BY <1>5
    <3>5. a \in 1 .. c
      BY <1>1, <1>3
    <3>6. Ended(events, k, a)
      BY <1>1, <1>8, <3>3, <3>4 DEF Ended
    <3> QED
      BY <1>1, <3>3, <3>5, <3>6 DEF Fate
  <2> QED
    BY <1>6, <2>1, <2>2
<1>11. \A b \in lost : (\A i \in DOMAIN events : events[i].key # b) => b \in lost'
  <2>1. \A i \in 1 .. n : i \in DOMAIN events
    BY <1>1, <1>3
  <2> QED
    BY <1>9, <2>1
<1>12. faults' \in Nat /\ (faults' = 0 => faults = 0) /\ (sent.fault => faults' # 0)
  BY <1>4
<1>13. mac' = notes \/ (mac' = mac /\ faults' # 0 /\ LastEnded(events))
  <2>1. CASE n = c
    BY <1>4, <2>1
  <2>2. CASE n # c
    <3>1. c \in 1 .. c /\ c \notin 1 .. n
      BY <1>1, <1>3, <1>5, <2>2
    <3>2. LastEnded(events)
      BY <1>1, <1>8, <3>1 DEF LastEnded, c
    <3> QED
      BY <1>3, <1>4, <1>12, <2>2, <3>2
  <2> QED
    BY <2>1, <2>2
<1> QED
  BY <1>6, <1>10, <1>11, <1>12, <1>13

-----------------------------------------------------------------------------
(* Messages that leave no key down: each key that goes down comes up later *)
(* in the same message.  On macOS they are also about keys only, none of   *)
(* them numbered as a button.                                              *)

Clear(events, F) ==
    /\ IsSequence(events)
    /\ \A i \in DOMAIN events : /\ events[i].key \notin F
                                /\ events[i].isDown => \E j \in DOMAIN events : /\ j > i /\ ~events[j].isDown
                                                                                /\ events[j].key = events[i].key

\* Keys that go down, and the same keys coming up in the opposite order.
Mirrored(d, u, n, F) ==
    /\ d = [i \in 1 .. n |-> d[i]] /\ u = [i \in 1 .. n |-> u[i]]
    /\ \A i \in 1 .. n : /\ d[i].key \notin F /\ u[i].key \notin F /\ ~u[i].isDown
                         /\ u[(n - i) + 1].key = d[i].key

LEMMA ClearNothing == ASSUME NEW F PROVE Clear(<<>>, F)
<1>1. IsSequence(<<>>)
  <2>1. <<>> \in Seq({})
    OBVIOUS
  <2> QED
    BY <2>1, SeqIsSequence, Zenon
<1>2. DOMAIN <<>> = {}
  OBVIOUS
<1> QED
  BY <1>1, <1>2 DEF Clear

LEMMA ClearConcat ==
  ASSUME NEW s, NEW t, NEW F, Clear(s, F), Clear(t, F) PROVE Clear(s \o t, F)
<1> DEFINE m == Len(s)
           n == Len(t)
           q == s \o t
<1>1. IsSequence(s) /\ IsSequence(t)
  BY DEF Clear
<1>2. m \in Nat /\ n \in Nat /\ DOMAIN s = 1 .. m /\ DOMAIN t = 1 .. n
  BY <1>1, SequenceFacts
<1>3. IsSequence(q) /\ Len(q) = m + n /\ (\A i \in 1 .. m : q[i] = s[i]) /\ \A i \in 1 .. n : q[m + i] = t[i]
  BY <1>1, ConcatSequence
<1>4. DOMAIN q = 1 .. m + n
  BY <1>3, SequenceFacts
<1>5. /\ \A i \in 1 .. m : /\ s[i].key \notin F
                           /\ s[i].isDown => \E j \in 1 .. m : j > i /\ ~s[j].isDown /\ s[j].key = s[i].key
      /\ \A i \in 1 .. n : /\ t[i].key \notin F
                           /\ t[i].isDown => \E j \in 1 .. n : j > i /\ ~t[j].isDown /\ t[j].key = t[i].key
  BY <1>2 DEF Clear
<1> HIDE DEF m, n, q
<1>6. ASSUME NEW i \in 1 .. m + n
      PROVE  q[i].key \notin F /\ (q[i].isDown => \E j \in 1 .. m + n : j > i /\ ~q[j].isDown /\ q[j].key = q[i].key)
  <2>1. CASE i \in 1 .. m
    <3>1. \A j \in 1 .. m : j \in 1 .. m + n
      BY <1>2
    <3> QED
      BY <1>3, <1>5, <2>1, <3>1
  <2>2. CASE i \notin 1 .. m
    <3>1. PICK k \in 1 .. n : i = m + k
      <4>1. i - m \in 1 .. n /\ i = m + (i - m)
        BY <1>2, <2>2
      <4> QED
        BY <4>1
    <3>2. \A j \in 1 .. n : m + j \in 1 .. m + n /\ (j > k => m + j > i)
      BY <1>2, <3>1
    <3> QED
      BY <1>3, <1>5, <3>1, <3>2
  <2> QED
    BY <2>1, <2>2
<1> QED
  BY <1>3, <1>4, <1>6 DEF Clear, q

LEMMA ClearAround ==
  ASSUME NEW n \in Nat, NEW F, NEW d, NEW u, NEW t, Mirrored(d, u, n, F), Clear(t, F)
  PROVE  Clear((d \o t) \o u, F)
<1> DEFINE m == Len(t)
           p == d \o t
           q == p \o u
<1>1. IsSequence(d) /\ IsSequence(u) /\ Len(d) = n /\ Len(u) = n /\ IsSequence(t)
  BY FunctionIsSequence DEF Mirrored, Clear
<1>2. m \in Nat /\ DOMAIN t = 1 .. m
  BY <1>1, SequenceFacts
<1>3. IsSequence(p) /\ Len(p) = n + m /\ (\A i \in 1 .. n : p[i] = d[i]) /\ \A i \in 1 .. m : p[n + i] = t[i]
  BY <1>1, ConcatSequence
<1>4. /\ IsSequence(q) /\ Len(q) = (n + m) + n
      /\ (\A i \in 1 .. n + m : q[i] = p[i]) /\ \A i \in 1 .. n : q[(n + m) + i] = u[i]
  BY <1>1, <1>3, ConcatSequence
<1>5. DOMAIN q = 1 .. (n + m) + n
  BY <1>4, SequenceFacts
<1>6. /\ \A i \in 1 .. n : q[i] = d[i] /\ q[(n + m) + i] = u[i]
      /\ \A i \in 1 .. m : q[n + i] = t[i]
  <2>1. \A i \in 1 .. n : i \in 1 .. n + m
    BY <1>2
  <2>2. \A i \in 1 .. m : n + i \in 1 .. n + m
    BY <1>2
  <2> QED
    BY <1>3, <1>4, <2>1, <2>2
<1>7. \A i \in 1 .. m : /\ t[i].key \notin F
                        /\ t[i].isDown => \E j \in 1 .. m : j > i /\ ~t[j].isDown /\ t[j].key = t[i].key
  BY <1>2 DEF Clear
<1>8. \A i \in 1 .. n : /\ d[i].key \notin F /\ u[i].key \notin F /\ ~u[i].isDown
                        /\ u[(n - i) + 1].key = d[i].key
  BY DEF Mirrored
<1> HIDE DEF m, p, q
<1> DEFINE Up(i) == \E j \in 1 .. (n + m) + n : j > i /\ ~q[j].isDown /\ q[j].key = q[i].key
<1>9. ASSUME NEW i \in 1 .. (n + m) + n PROVE q[i].key \notin F /\ (q[i].isDown => Up(i))
  <2>1. CASE i \in 1 .. n
    <3> DEFINE k == (n - i) + 1
    <3>1. k \in 1 .. n
      BY <2>1
    <3>2. (n + m) + k \in 1 .. (n + m) + n /\ (n + m) + k > i
      BY <1>2, <2>1, <3>1
    <3>3. q[(n + m) + k] = u[k] /\ q[i] = d[i]
      BY <1>6, <2>1, <3>1
    <3>4. ~u[k].isDown /\ u[k].key = d[i].key /\ d[i].key \notin F
      BY <1>8, <2>1, <3>1
    <3> HIDE DEF k
    <3> QED
      BY <3>2, <3>3, <3>4
  <2>2. CASE i \in n + 1 .. n + m
    <3>1. PICK k \in 1 .. m : i = n + k
      <4>1. i - n \in 1 .. m /\ i = n + (i - n)
        BY <1>2, <2>2
      <4> QED
        BY <4>1
    <3>2. \A j \in 1 .. m : n + j \in 1 .. (n + m) + n /\ (j > k => n + j > i)
      BY <1>2, <3>1
    <3>3. q[i] = t[k]
      BY <1>6, <3>1
    <3>4. ASSUME t[k].isDown PROVE Up(i)
      <4>1. PICK j \in 1 .. m : j > k /\ ~t[j].isDown /\ t[j].key = t[k].key
        BY <1>7, <3>4
      <4> QED
        BY <1>6, <3>2, <3>3, <4>1
    <3> QED
      BY <1>7, <3>3, <3>4
  <2>3. CASE i \in (n + m) + 1 .. (n + m) + n
    <3>1. PICK k \in 1 .. n : i = (n + m) + k
      <4>1. i - (n + m) \in 1 .. n /\ i = (n + m) + (i - (n + m))
        BY <1>2, <2>3
      <4> QED
        BY <4>1
    <3> QED
      BY <1>6, <1>8, <3>1
  <2> QED
    BY <1>2, <2>1, <2>2, <2>3
<1>10. Clear(q, F)
  BY <1>4, <1>5, <1>9 DEF Clear
<1> QED
  BY <1>10 DEF p, q

Codes(codes, F) == IsSequence(codes) /\ \A i \in DOMAIN codes : codes[i] \notin F

LEMMA ChordMirrored ==
  ASSUME NEW codes, NEW F, Codes(codes, F)
  PROVE  Mirrored(Downs(codes), Ups(Reverse(codes)), Len(codes), F)
<1> DEFINE n == Len(codes)
           r == Reverse(codes)
<1>1. n \in Nat /\ DOMAIN codes = 1 .. n
  BY SequenceFacts DEF Codes
<1>2. IsSequence(r) /\ Len(r) = n /\ \A i \in 1 .. n : r[i] = codes[(n - i) + 1]
  BY ReverseSequence DEF Codes
<1>3. DOMAIN r = 1 .. n
  BY <1>2, SequenceFacts
<1>4. /\ Downs(codes) = [i \in 1 .. n |-> Event(codes[i], TRUE, {}, <<>>)]
      /\ Ups(r) = [i \in 1 .. n |-> Event(r[i], FALSE, {}, <<>>)]
  BY <1>1, <1>3 DEF Downs, Ups, key_event
<1> HIDE DEF n, r
<1>5. \A k : Event(k, TRUE, {}, <<>>).key = k /\ Event(k, FALSE, {}, <<>>).key = k /\ ~Event(k, FALSE, {}, <<>>).isDown
  BY DEF Event
<1>6. \A i \in 1 .. n : (n - i) + 1 \in 1 .. n /\ (n - ((n - i) + 1)) + 1 = i
  BY <1>1
<1>7. \A i \in 1 .. n : codes[i] \notin F
  BY <1>1 DEF Codes
<1> DEFINE d == Downs(codes)
           u == Ups(r)
<1>8. d = [i \in 1 .. n |-> d[i]] /\ u = [i \in 1 .. n |-> u[i]]
  BY <1>4
<1>9. \A i \in 1 .. n : d[i].key = codes[i] /\ u[i].key = r[i] /\ ~u[i].isDown
  <2>1. \A i \in 1 .. n : d[i] = Event(codes[i], TRUE, {}, <<>>) /\ u[i] = Event(r[i], FALSE, {}, <<>>)
    BY <1>4
  <2> HIDE DEF d, u
  <2> QED
    BY <1>5, <2>1, Zenon
<1> HIDE DEF d, u
<1>10. \A i \in 1 .. n : /\ d[i].key \notin F /\ u[i].key \notin F /\ ~u[i].isDown
                         /\ u[(n - i) + 1].key = d[i].key
  <2> TAKE i \in 1 .. n
  <2> DEFINE j == (n - i) + 1
  <2>1. j \in 1 .. n /\ (n - j) + 1 = i
    BY <1>6
  <2> HIDE DEF j
  <2>2. r[i] = codes[j] /\ r[j] = codes[i]
    <3>1. r[i] = codes[j]
      BY <1>2 DEF j
    <3>2. r[j] = codes[(n - j) + 1]
      BY <1>2, <2>1
    <3> QED
      BY <2>1, <3>1, <3>2
  <2>3. d[i].key \notin F /\ u[i].key \notin F /\ ~u[i].isDown /\ u[j].key = d[i].key
    BY <1>7, <1>9, <2>1, <2>2
  <2> QED
    BY <2>3 DEF j
<1>11. Mirrored(d, u, n, F)
  BY <1>8, <1>10 DEF Mirrored
<1> QED
  BY <1>11 DEF d, u, n, r

LEMMA ClearChord == ASSUME NEW codes, NEW F, Codes(codes, F) PROVE Clear(chord_events(codes), F)
<1> DEFINE n == Len(codes)
           d == Downs(codes)
           u == Ups(Reverse(codes))
<1>1. n \in Nat
  BY SequenceFacts DEF Codes
<1>2. Mirrored(d, u, n, F)
  BY ChordMirrored
<1> HIDE DEF n, d, u
<1>3. Clear((d \o <<>>) \o u, F)
  BY <1>1, <1>2, ClearNothing, ClearAround
<1>4. d \o <<>> = d
  <2>1. d \in Seq(Elements(d))
    BY <1>1, <1>2, FunctionIsSequence DEF Mirrored, IsSequence
  <2> QED
    BY <2>1, ConcatEmptySeq
<1> QED
  BY <1>3, <1>4 DEF chord_events, d, u

LEMMA ClearPlanChord ==
  ASSUME NEW vks, NEW F, Codes(vks, F) PROVE Clear(plan_chord(vks), F)
<1> DEFINE n == Len(vks)
           d == [i \in DOMAIN vks |-> Event(vks[i], TRUE, FlagsOf(SubSeq(vks, 1, i)), <<>>)]
           u == [i \in DOMAIN vks |-> LET j == Len(vks) + 1 - i
                                      IN Event(vks[j], FALSE, FlagsOf(SubSeq(vks, 1, j)), <<>>)]
<1>1. n \in Nat /\ DOMAIN vks = 1 .. n
  BY SequenceFacts DEF Codes
<1>2. \A k, f : Event(k, TRUE, f, <<>>).key = k /\ Event(k, FALSE, f, <<>>).key = k /\ ~Event(k, FALSE, f, <<>>).isDown
  BY DEF Event
<1>3. plan_chord(vks) = d \o u
  BY DEF plan_chord
<1>4. DOMAIN d = 1 .. n /\ DOMAIN u = 1 .. n /\ d = [i \in DOMAIN d |-> d[i]] /\ u = [i \in DOMAIN u |-> u[i]]
  BY <1>1
<1>5. \A i \in 1 .. n : d[i].key = vks[i]
  BY <1>1, <1>2
<1>6. \A i \in 1 .. n : u[i].key = vks[(n + 1) - i] /\ ~u[i].isDown
  <2>1. \A i \in 1 .. n : u[i] = Event(vks[(n + 1) - i], FALSE, FlagsOf(SubSeq(vks, 1, (n + 1) - i)), <<>>)
    BY <1>1
  <2> HIDE DEF u, n
  <2> TAKE i \in 1 .. n
  <2> DEFINE j == (n + 1) - i
             g == FlagsOf(SubSeq(vks, 1, j))
             e == Event(vks[j], FALSE, g, <<>>)
  <2>2. u[i] = e
    BY <2>1
  <2>3. e.key = vks[j] /\ ~e.isDown
    BY <1>2
  <2> HIDE DEF e
  <2>4. u[i].key = vks[j] /\ ~u[i].isDown
    BY <2>2, <2>3
  <2> QED
    BY <2>4
<1>7. \A i \in 1 .. n : vks[i] \notin F
  BY <1>1 DEF Codes
<1> HIDE DEF n, d, u
<1>8. \A i \in 1 .. n : (n + 1) - i \in 1 .. n /\ (n + 1) - ((n - i) + 1) = i /\ (n - i) + 1 \in 1 .. n
  BY <1>1
<1>9. Mirrored(d, u, n, F)
  BY <1>4, <1>5, <1>6, <1>7, <1>8 DEF Mirrored
<1>10. Clear((d \o <<>>) \o u, F)
  BY <1>1, <1>9, ClearNothing, ClearAround
<1>11. d \o <<>> = d
  <2>1. d \in Seq(Elements(d))
    BY <1>1, <1>9, FunctionIsSequence DEF Mirrored, IsSequence
  <2> QED
    BY <2>1, ConcatEmptySeq
<1> QED
  BY <1>3, <1>10, <1>11

\* Pairs of events: a key goes down and comes up at once.
LEMMA ClearPairs ==
  ASSUME NEW n \in Nat, NEW F, NEW events, events = [i \in 1 .. 2 * n |-> events[i]],
         \A i \in 1 .. n : /\ events[2 * i - 1].key \notin F /\ events[2 * i].key = events[2 * i - 1].key
                           /\ ~events[2 * i].isDown
  PROVE  Clear(events, F)
<1>1. 2 * n \in Nat
  OBVIOUS
<1>2. IsSequence(events) /\ Len(events) = 2 * n
  BY <1>1, FunctionIsSequence
<1>3. DOMAIN events = 1 .. 2 * n
  BY <1>2, SequenceFacts
<1>4. ASSUME NEW i \in 1 .. 2 * n
      PROVE  /\ events[i].key \notin F
             /\ events[i].isDown => \E j \in 1 .. 2 * n : j > i /\ ~events[j].isDown /\ events[j].key = events[i].key
  <2>1. PICK k \in 1 .. n : i = 2 * k - 1 \/ i = 2 * k
    <3>1. (i + 1) \div 2 \in 1 .. n /\ (i = 2 * ((i + 1) \div 2) - 1 \/ i = 2 * ((i + 1) \div 2))
      OBVIOUS
    <3> QED
      BY <3>1
  <2>2. 2 * k \in 1 .. 2 * n /\ 2 * k > 2 * k - 1
    OBVIOUS
  <2>3. CASE i = 2 * k - 1
    BY <2>2, <2>3
  <2>4. CASE i = 2 * k
    BY <2>2, <2>4
  <2> QED
    BY <2>1, <2>3, <2>4
<1> QED
  BY <1>2, <1>3, <1>4 DEF Clear

LEMMA ClearTap == ASSUME NEW codes, NEW F, Codes(codes, F) PROVE Clear(tap_codes(codes), F)
<1> DEFINE n == Len(codes)
           t == tap_codes(codes)
<1>1. n \in Nat /\ DOMAIN codes = 1 .. n
  BY SequenceFacts DEF Codes
<1>2. t = [i \in 1 .. 2 * n |-> Event(codes[(i + 1) \div 2], i % 2 = 1, {}, <<>>)]
  BY DEF tap_codes, key_event
<1>3. \A k, b : Event(k, b, {}, <<>>).key = k /\ Event(k, b, {}, <<>>).isDown = b
  BY DEF Event
<1>4. t = [i \in 1 .. 2 * n |-> t[i]]
  BY <1>2
<1>5. ASSUME NEW i \in 1 .. n
      PROVE  t[2 * i - 1].key \notin F /\ t[2 * i].key = t[2 * i - 1].key /\ ~t[2 * i].isDown
  <2>1. /\ 2 * i - 1 \in 1 .. 2 * n /\ ((2 * i - 1) + 1) \div 2 = i
        /\ 2 * i \in 1 .. 2 * n /\ ((2 * i) + 1) \div 2 = i /\ (2 * i) % 2 = 0
    BY <1>1
  <2>2. codes[i] \notin F
    BY <1>1 DEF Codes
  <2> HIDE DEF t, n
  <2>3. t[2 * i - 1].key = codes[i] /\ t[2 * i].key = codes[i]
    <3>1. \A j \in 1 .. 2 * n : t[j].key = codes[(j + 1) \div 2]
      BY <1>2, <1>3
    <3> QED
      BY <2>1, <3>1, Zenon
  <2>4. t[2 * i].isDown = ((2 * i) % 2 = 1)
    BY <1>2, <1>3, <2>1
  <2>5. ~((2 * i) % 2 = 1)
    BY <2>1
  <2> QED
    BY <2>2, <2>3, <2>4, <2>5
<1> HIDE DEF t, n
<1>6. Clear(t, F)
  BY <1>1, <1>4, <1>5, ClearPairs
<1> QED
  BY <1>6 DEF t

\* What no event of a message other than a button's is about: on macOS, a button.
Buttonless == IF system.os = "macOS" THEN Buttons ELSE {}
Numbers == Int \ Buttons

LEMMA CodesIn ==
  ASSUME NEW S, NEW codes \in Seq(S), NEW F, \A k \in S : k \notin F PROVE Codes(codes, F)
<1>1. IsSequence(codes)
  BY SeqIsSequence
<1>2. \A i \in DOMAIN codes : codes[i] \in S
  OBVIOUS
<1> QED
  BY <1>1, <1>2 DEF Codes

LEMMA OneCode == ASSUME NEW k, NEW F, k \notin F PROVE Codes(<<k>>, F)
<1> DEFINE S == {k}
<1>1. <<k>> \in Seq(S) /\ \A e \in S : e \notin F
  OBVIOUS
<1> HIDE DEF S
<1> QED
  BY <1>1, CodesIn

LEMMA NumberCodes == ASSUME NEW codes \in Seq(Numbers) PROVE Codes(codes, Buttonless)
<1>1. \A k \in Numbers : k \notin Buttonless
  BY DEF Numbers, Buttonless
<1> QED
  BY <1>1, CodesIn

LEMMA ClearCommand == ASSUME NEW c \in Commands PROVE Clear(CommandEvents(c), Buttonless)
<1>1. \A s \in Seq(Numbers) :
        Clear(chord_events(s), Buttonless) /\ Clear(tap_codes(s), Buttonless) /\ Clear(plan_chord(s), Buttonless)
  BY NumberCodes, ClearChord, ClearTap, ClearPlanChord
<1>2. Clear(<<>>, Buttonless)
  BY ClearNothing
<1>3. \A n \in Int : n < 272 \/ n > 274 => n \in Numbers
  BY DEF Numbers, Buttons
<1>4. system.os # "macOS" =>
        \A k : Clear(chord_events(<<k>>), Buttonless) /\ Clear(tap_codes(<<k>>), Buttonless)
  BY OneCode, ClearChord, ClearTap DEF Buttonless
<1>5. CASE system.os = "Linux"
  <2>1. /\ <<125, 32>> \in Seq(Numbers) /\ <<125, 17>> \in Seq(Numbers)
        /\ <<125>> \in Seq(Numbers) /\ <<99>> \in Seq(Numbers)
    BY <1>3
  <2>2. Clear(LinuxCommand(c), Buttonless)
    BY <1>1, <1>2, <1>4, <1>5, <2>1 DEF LinuxCommand
  <2> QED
    BY <1>5, <2>2 DEF CommandEvents
<1>6. CASE system.os = "macOS"
  <2>1. /\ <<1016>> \in Seq(Numbers) /\ <<1017>> \in Seq(Numbers) /\ <<1018>> \in Seq(Numbers)
        /\ <<59, 55, 12>> \in Seq(Numbers) /\ <<103>> \in Seq(Numbers) /\ <<55, 56, 23>> \in Seq(Numbers)
    BY <1>3
  <2>2. ASSUME Is("volume", c)
        PROVE  <<MacVolume[c.volume]>> \in Seq(Numbers)
    <3>1. c.volume \in {"Up", "Down", "Mute"}
      BY <2>2 DEF Is, Commands, EvdevVolume
    <3>2. MacVolume[c.volume] \in {1000, 1001, 1007}
      BY <3>1 DEF MacVolume
    <3> QED
      BY <1>3, <3>2
  <2>3. Clear(MacCommand(c), Buttonless)
    <3>1. CASE Is("media", c)
      <4>1. /\ Clear(tap_codes(<<1016>>), Buttonless) /\ Clear(tap_codes(<<1017>>), Buttonless)
            /\ Clear(tap_codes(<<1018>>), Buttonless)
        <5>1. \A k \in Numbers : Clear(tap_codes(<<k>>), Buttonless)
          <6> TAKE k \in Numbers
          <6>1. k \notin Buttonless
            BY DEF Numbers, Buttonless
          <6> QED
            BY <6>1, OneCode, ClearTap
        <5>2. 1016 \in Numbers /\ 1017 \in Numbers /\ 1018 \in Numbers
          BY <1>3
        <5> HIDE DEF Numbers
        <5> QED
          BY <5>1, <5>2
      <4> QED
        BY <1>2, <3>1, <4>1 DEF MacCommand
    <3>2. CASE ~Is("media", c) /\ Is("volume", c)
      BY <1>1, <2>2, <3>2 DEF MacCommand
    <3>3. CASE ~Is("media", c) /\ ~Is("volume", c)
      BY <1>1, <1>2, <2>1, <3>3, ZenonT(30) DEF MacCommand
    <3> QED
      BY <3>1, <3>2, <3>3
  <2> QED
    BY <1>6, <2>3 DEF CommandEvents
<1>7. CASE system.os = "Windows"
  <2>1. /\ <<91, 68>> \in Seq(Numbers) /\ <<91, 9>> \in Seq(Numbers) /\ <<91, 69>> \in Seq(Numbers)
        /\ <<162, 160, 27>> \in Seq(Numbers) /\ <<91, 160, 83>> \in Seq(Numbers) /\ <<>> \in Seq(Numbers)
    BY <1>3
  <2>2. Clear(WindowsCommand(c), Buttonless)
    BY <1>1, <1>2, <1>4, <1>7, <2>1, ZenonT(30) DEF WindowsCommand
  <2> QED
    BY <1>7, <2>2 DEF CommandEvents
<1>8. CASE system.os \notin {"Linux", "macOS", "Windows"}
  BY <1>2, <1>8 DEF CommandEvents
<1> QED
  BY <1>5, <1>6, <1>7, <1>8

\* Text on Linux: a code point has between one and six digits.
Width(n) == Max({1} \cup {i \in DOMAIN SixteenTo : SixteenTo[i] =< n})

LEMMA WidthIs ==
  ASSUME NEW n
  PROVE  /\ Width(n) \in 1 .. 6 /\ (Width(n) # 1 => SixteenTo[Width(n)] =< n)
         /\ \A i \in 1 .. 6 : i > Width(n) => ~(SixteenTo[i] =< n)
<1> DEFINE S == {1} \cup {i \in DOMAIN SixteenTo : SixteenTo[i] =< n}
<1>1. DOMAIN SixteenTo = 1 .. 6
  <2>1. SixteenTo \in Seq(Nat) /\ Len(SixteenTo) = 6
    BY DEF SixteenTo
  <2> QED
    BY <2>1
<1>2. S \subseteq 1 .. 6 /\ 1 \in S
  BY <1>1
<1>3. \A i \in 1 .. 6 : i \in S <=> i = 1 \/ SixteenTo[i] =< n
  BY <1>1
<1>4. Width(n) = CHOOSE x \in S : \A y \in S : x >= y
  BY DEF Width, Max
<1> HIDE DEF S
<1>5. \E x \in S : \A y \in S : x >= y
  <2>1. \A y \in S : y = 1 \/ y = 2 \/ y = 3 \/ y = 4 \/ y = 5 \/ y = 6
    BY <1>2
  <2> QED
    BY <1>2, <2>1
<1>6. Width(n) \in S /\ \A y \in S : Width(n) >= y
  BY <1>4, <1>5, Zenon
<1>7. Width(n) \in 1 .. 6
  BY <1>2, <1>6
<1>8. Width(n) # 1 => SixteenTo[Width(n)] =< n
  BY <1>3, <1>6, <1>7, Zenon
<1>9. ASSUME NEW i \in 1 .. 6, i > Width(n) PROVE ~(SixteenTo[i] =< n)
  <2>1. i \notin S
    BY <1>6, <1>7, <1>9
  <2> QED
    BY <1>3, <2>1
<1> QED
  BY <1>7, <1>8, <1>9

LEMMA ClearStep == ASSUME NEW way, NEW c PROVE Clear(step_events(way, c), {})
<1>1. \A k : Codes(<<k>>, {}) /\ Clear(tap_codes(<<k>>), {})
  BY OneCode, ClearTap
<1>2. \A t : Clear(t, {}) => Clear((Downs(<<42>>) \o t) \o Ups(<<42>>), {})
  <2>1. Reverse(<<42>>) = <<42>> /\ Len(<<42>>) = 1
    BY DEF Reverse
  <2>2. Codes(<<42>>, {})
    BY <1>1
  <2>3. Mirrored(Downs(<<42>>), Ups(<<42>>), 1, {})
    BY <2>1, <2>2, ChordMirrored
  <2>4. 1 \in Nat
    OBVIOUS
  <2> QED
    BY <2>3, <2>4, ClearAround
<1> DEFINE digits == [i \in DOMAIN HexDigits(c) |-> DigitKey(HexDigits(c)[i])]
           entered == chord_events(<<29, 42, 22>>) \o tap_codes(digits) \o tap_codes(<<57>>)
<1>3. Clear(entered, {})
  <2>1. Codes(digits, {})
    <3> DEFINE w == Width(c)
    <3>1. w \in Nat
      BY WidthIs
    <3>2. HexDigits(c) = [i \in 1 .. w |-> (c \div SixteenTo[w + 1 - i]) % 16]
      BY DEF HexDigits, Width
    <3> HIDE DEF w
    <3>3. DOMAIN HexDigits(c) = 1 .. w
      BY <3>2
    <3>4. digits = [i \in 1 .. w |-> digits[i]]
      BY <3>3
    <3>5. IsSequence(digits)
      BY <3>1, <3>4, FunctionIsSequence
    <3> QED
      BY <3>5 DEF Codes
  <2>2. Codes(<<29, 42, 22>>, {})
    <3> DEFINE codes == <<29, 42, 22>>
    <3>1. codes \in Seq(Int) /\ \A k \in Int : k \notin {}
      OBVIOUS
    <3> HIDE DEF codes
    <3>2. Codes(codes, {})
      BY <3>1, CodesIn
    <3> QED
      BY <3>2 DEF codes
  <2> HIDE DEF digits
  <2> QED
    BY <1>1, <2>1, <2>2, ClearChord, ClearTap, ClearConcat
<1> HIDE DEF entered
<1> QED
  BY <1>1, <1>2, <1>3 DEF step_events, entered

LinuxTyping(way, text, events, n) ==
    events = [i \in 0 .. n |->
                IF i = 0 THEN <<>>
                ELSE IF text[i] \in DOMAIN ascii_to_hid \/ text[i] > 127
                  THEN events[i - 1] \o step_events(way, text[i]) ELSE events[i - 1]]

LEMMA LinuxTypingExists ==
  ASSUME NEW way, NEW text, NEW n \in Nat PROVE \E events : LinuxTyping(way, text, events, n)
<1> DEFINE S(i, x) == IF text[i] \in DOMAIN ascii_to_hid \/ text[i] > 127 THEN x \o step_events(way, text[i]) ELSE x
           Good(g, k) == g = [i \in 0 .. k |-> IF i = 0 THEN <<>> ELSE S(i, g[i - 1])]
           K == {k \in Nat : \E g : Good(g, k)}
<1>0. \A g, k : LinuxTyping(way, text, g, k) <=> Good(g, k)
  BY DEF LinuxTyping
<1> HIDE DEF S
<1>1. 0 \in K
  <2> DEFINE g == [i \in 0 .. 0 |-> <<>>]
  <2>1. g = [i \in 0 .. 0 |-> IF i = 0 THEN <<>> ELSE S(i, g[i - 1])]
    OBVIOUS
  <2> QED
    BY <2>1
<1>2. ASSUME NEW k \in K PROVE k + 1 \in K
  <2>1. PICK g : Good(g, k)
    OBVIOUS
  <2> DEFINE f == [i \in 0 .. k + 1 |-> IF i = k + 1 THEN S(k + 1, g[k]) ELSE g[i]]
  <2>2. k \in Nat /\ g[0] = <<>> /\ \A i \in 0 .. k : i # 0 => g[i] = S(i, g[i - 1])
    BY <2>1
  <2>3. f[0] = <<>> /\ \A i \in 0 .. k + 1 : i # 0 => f[i] = S(i, f[i - 1])
    <3>1. f[0] = <<>>
      BY <2>2
    <3>2. ASSUME NEW i \in 0 .. k + 1, i # 0 PROVE f[i] = S(i, f[i - 1])
      <4>1. CASE i = k + 1
        <5>1. i - 1 = k /\ f[k] = g[k] /\ f[i] = S(k + 1, g[k])
          BY <2>2, <4>1
        <5> HIDE DEF f
        <5> QED
          BY <4>1, <5>1
      <4>2. CASE i # k + 1
        <5>1. i \in 0 .. k /\ f[i] = g[i] /\ f[i - 1] = g[i - 1]
          BY <2>2, <3>2, <4>2
        <5> HIDE DEF f
        <5> QED
          BY <2>2, <3>2, <5>1
      <4> QED
        BY <4>1, <4>2
    <3> QED
      BY <3>1, <3>2
  <2>4. f = [i \in 0 .. k + 1 |-> f[i]]
    OBVIOUS
  <2> HIDE DEF f
  <2>5. Good(f, k + 1)
    BY <2>3, <2>4
  <2> QED
    BY <2>2, <2>5
<1>3. K = Nat
  <2>1. K \in SUBSET Nat
    OBVIOUS
  <2> HIDE DEF K
  <2> QED
    BY <1>1, <1>2, <2>1, NatSetInduction
<1> QED
  BY <1>0, <1>3

LEMMA ClearLinuxText ==
  ASSUME NEW way, NEW text, Len(text) \in Nat PROVE Clear(LinuxText(way, text), {})
<1> DEFINE n == Len(text)
           J == CHOOSE events : LinuxTyping(way, text, events, n)
           K == {i \in Nat : i =< n => Clear(J[i], {})}
<1>1. LinuxText(way, text) = J[n]
  BY DEF LinuxText, LinuxTyping
<1>2. LinuxTyping(way, text, J, n)
  BY LinuxTypingExists
<1> HIDE DEF J, n
<1>3. /\ J[0] = <<>>
      /\ \A i \in 0 .. n : i # 0 => J[i] \in {J[i - 1] \o step_events(way, text[i]), J[i - 1]}
  BY <1>2 DEF LinuxTyping, n
<1>4. 0 \in K
  BY <1>3, ClearNothing
<1>5. ASSUME NEW i \in K PROVE i + 1 \in K
  <2> SUFFICES ASSUME i + 1 =< n PROVE Clear(J[i + 1], {})
    OBVIOUS
  <2>1. i \in Nat /\ n \in Nat /\ i + 1 \in 0 .. n /\ i + 1 # 0 /\ (i + 1) - 1 = i
    BY DEF n
  <2>2. Clear(J[i], {})
    BY <2>1
  <2>3. J[i + 1] \in {J[i] \o step_events(way, text[i + 1]), J[i]}
    BY <1>3, <2>1
  <2>4. Clear(J[i] \o step_events(way, text[i + 1]), {})
    BY <2>2, ClearStep, ClearConcat
  <2> QED
    BY <2>2, <2>3, <2>4
<1>6. K = Nat
  <2>1. K \in SUBSET Nat
    OBVIOUS
  <2> HIDE DEF K
  <2> QED
    BY <1>4, <1>5, <2>1, NatSetInduction
<1>7. Clear(J[n], {})
  <2>1. n \in Nat
    BY DEF n
  <2> QED
    BY <1>6, <2>1
<1> QED
  BY <1>1, <1>7

\* Text on macOS.
LEMMA ClearCarrier == ASSUME NEW units PROVE Clear(Carrier(units), Buttons)
<1> DEFINE a == Event(0, TRUE, {}, units)
           b == Event(0, FALSE, {}, units)
           e == <<a, b>>
<1>1. a.key = 0 /\ b.key = 0 /\ ~b.isDown
  BY DEF Event
<1> HIDE DEF a, b
<1>2. e = [i \in 1 .. 2 * 1 |-> e[i]] /\ e[1] = a /\ e[2] = b
  OBVIOUS
<1> HIDE DEF e
<1>3. \A i \in 1 .. 1 : e[2 * i - 1].key \notin Buttons /\ e[2 * i].key = e[2 * i - 1].key /\ ~e[2 * i].isDown
  <2>1. \A i \in 1 .. 1 : 2 * i - 1 = 1 /\ 2 * i = 2
    OBVIOUS
  <2>2. 0 \notin Buttons
    BY DEF Buttons
  <2> QED
    BY <1>1, <1>2, <2>1, <2>2
<1>4. Clear(e, Buttons)
  <2>1. 1 \in Nat
    OBVIOUS
  <2> QED
    BY <1>2, <1>3, <2>1, ClearPairs
<1> QED
  BY <1>4 DEF Carrier, e, a, b

LEMMA ClearFlushed ==
  ASSUME NEW plan, Clear(plan.events, Buttons) PROVE Clear(Flushed(plan), Buttons)
BY ClearCarrier, ClearConcat DEF Flushed

LEMMA ClearMacKey == ASSUME NEW c PROVE Clear(chord_events(MacKey(c)), Buttons)
<1>1. MacKey(c) \in {<<36>>, <<48>>, <<51>>, <<>>}
  BY DEF MacKey
<1>2. /\ <<36>> \in Seq(Numbers) /\ <<48>> \in Seq(Numbers)
      /\ <<51>> \in Seq(Numbers) /\ <<>> \in Seq(Numbers)
  BY DEF Numbers, Buttons
<1>3. \A k \in Numbers : k \notin Buttons
  BY DEF Numbers
<1>4. MacKey(c) \in Seq(Numbers)
  BY <1>1, <1>2
<1> HIDE DEF Numbers
<1> QED
  BY <1>3, <1>4, CodesIn, ClearChord

LEMMA ClearChar ==
  ASSUME NEW plan, NEW c, Clear(plan.events, Buttons) PROVE Clear(PlanChar(plan, c).events, Buttons)
<1> DEFINE Planned(events, chunk) == [events |-> events, chunk |-> chunk, was_cr |-> c = 13]
<1>1. \A events, chunk : Planned(events, chunk).events = events
  OBVIOUS
<1>2. \E chunk : PlanChar(plan, c) \in {Planned(plan.events, chunk), Planned(Flushed(plan), chunk),
                                         Planned(Flushed(plan) \o chord_events(MacKey(c)), chunk)}
  BY DEF PlanChar
<1>3. Clear(Flushed(plan), Buttons) /\ Clear(Flushed(plan) \o chord_events(MacKey(c)), Buttons)
  BY ClearFlushed, ClearMacKey, ClearConcat
<1> HIDE DEF Planned
<1> QED
  BY <1>1, <1>2, <1>3

MacTyping(text, plan, n) ==
    plan = [i \in 0 .. n |-> IF i = 0 THEN [events |-> <<>>, chunk |-> <<>>, was_cr |-> FALSE]
                             ELSE PlanChar(plan[i - 1], text[i])]

LEMMA MacTypingExists ==
  ASSUME NEW text, NEW n \in Nat PROVE \E plan : MacTyping(text, plan, n)
<1> DEFINE S(i, x) == PlanChar(x, text[i])
           start == [events |-> <<>>, chunk |-> <<>>, was_cr |-> FALSE]
           Good(g, k) == g = [i \in 0 .. k |-> IF i = 0 THEN start ELSE S(i, g[i - 1])]
           K == {k \in Nat : \E g : Good(g, k)}
<1>0. \A g, k : MacTyping(text, g, k) <=> Good(g, k)
  BY DEF MacTyping
<1> HIDE DEF S, start
<1>1. 0 \in K
  <2> DEFINE g == [i \in 0 .. 0 |-> start]
  <2>1. g = [i \in 0 .. 0 |-> IF i = 0 THEN start ELSE S(i, g[i - 1])]
    OBVIOUS
  <2> QED
    BY <2>1
<1>2. ASSUME NEW k \in K PROVE k + 1 \in K
  <2>1. PICK g : Good(g, k)
    OBVIOUS
  <2> DEFINE f == [i \in 0 .. k + 1 |-> IF i = k + 1 THEN S(k + 1, g[k]) ELSE g[i]]
  <2>2. k \in Nat /\ g[0] = start /\ \A i \in 0 .. k : i # 0 => g[i] = S(i, g[i - 1])
    BY <2>1
  <2>3. f[0] = start /\ \A i \in 0 .. k + 1 : i # 0 => f[i] = S(i, f[i - 1])
    <3>1. f[0] = start
      BY <2>2
    <3>2. ASSUME NEW i \in 0 .. k + 1, i # 0 PROVE f[i] = S(i, f[i - 1])
      <4>1. CASE i = k + 1
        <5>1. i - 1 = k /\ f[k] = g[k] /\ f[i] = S(k + 1, g[k])
          BY <2>2, <4>1
        <5> HIDE DEF f
        <5> QED
          BY <4>1, <5>1
      <4>2. CASE i # k + 1
        <5>1. i \in 0 .. k /\ f[i] = g[i] /\ f[i - 1] = g[i - 1]
          BY <2>2, <3>2, <4>2
        <5> HIDE DEF f
        <5> QED
          BY <2>2, <3>2, <5>1
      <4> QED
        BY <4>1, <4>2
    <3> QED
      BY <3>1, <3>2
  <2>4. f = [i \in 0 .. k + 1 |-> f[i]]
    OBVIOUS
  <2> HIDE DEF f
  <2>5. Good(f, k + 1)
    BY <2>3, <2>4
  <2> QED
    BY <2>2, <2>5
<1>3. K = Nat
  <2>1. K \in SUBSET Nat
    OBVIOUS
  <2> HIDE DEF K
  <2> QED
    BY <1>1, <1>2, <2>1, NatSetInduction
<1> QED
  BY <1>0, <1>3

LEMMA ClearMacText == ASSUME NEW text, Len(text) \in Nat PROVE Clear(plan_text(text), Buttons)
<1> DEFINE n == Len(text)
           J == CHOOSE plan : MacTyping(text, plan, n)
           K == {i \in Nat : i =< n => Clear(J[i].events, Buttons)}
<1>1. plan_text(text) = Flushed(J[n])
  BY DEF plan_text, MacTyping
<1>2. MacTyping(text, J, n)
  BY MacTypingExists
<1> HIDE DEF J, n
<1>3. J[0].events = <<>> /\ \A i \in 0 .. n : i # 0 => J[i] = PlanChar(J[i - 1], text[i])
  <2>1. J[0] = [events |-> <<>>, chunk |-> <<>>, was_cr |-> FALSE]
    BY <1>2 DEF MacTyping, n
  <2>2. \A i \in 0 .. n : i # 0 => J[i] = PlanChar(J[i - 1], text[i])
    BY <1>2 DEF MacTyping
  <2> QED
    BY <2>1, <2>2
<1>4. 0 \in K
  BY <1>3, ClearNothing
<1>5. ASSUME NEW i \in K PROVE i + 1 \in K
  <2> SUFFICES ASSUME i + 1 =< n PROVE Clear(J[i + 1].events, Buttons)
    OBVIOUS
  <2>1. i \in Nat /\ n \in Nat /\ i + 1 \in 0 .. n /\ i + 1 # 0 /\ (i + 1) - 1 = i
    BY DEF n
  <2>2. Clear(J[i].events, Buttons)
    BY <2>1
  <2>3. J[i + 1] = PlanChar(J[i], text[i + 1])
    BY <1>3, <2>1
  <2> QED
    BY <2>2, <2>3, ClearChar
<1>6. K = Nat
  <2>1. K \in SUBSET Nat
    OBVIOUS
  <2> HIDE DEF K
  <2> QED
    BY <1>4, <1>5, <2>1, NatSetInduction
<1>7. Clear(J[n].events, Buttons)
  <2>1. n \in Nat
    BY DEF n
  <2> QED
    BY <1>6, <2>1
<1> QED
  BY <1>1, <1>7, ClearFlushed

\* Text on Windows, and of a message.
LEMMA ClearWindowsText == ASSUME NEW text \in Seq(Nat) PROVE Clear(WindowsText(text), {})
<1> DEFINE seqs == [i \in DOMAIN text |-> utf16(text[i])]
           n == Len(Units(text))
           e == WindowsText(text)
<1>1. n \in Nat
  <2>1. \A c \in Nat : utf16(c) \in Seq(Int)
    BY DEF utf16
  <2>2. seqs \in Seq(Seq(Int))
    <3>1. Len(text) \in Nat /\ DOMAIN text = 1 .. Len(text) /\ \A i \in 1 .. Len(text) : text[i] \in Nat
      OBVIOUS
    <3>2. seqs \in [1 .. Len(text) -> Seq(Int)]
      BY <2>1, <3>1
    <3> HIDE DEF seqs
    <3> QED
      BY <3>1, <3>2, FunctionSeq
  <2> HIDE DEF seqs
  <2>3. FlattenSeq(seqs) \in Seq(Int)
    <3>1. CASE Len(seqs) = 0
      <4>1. seqs = <<>> /\ <<>> \in Seq(Int)
        BY <2>2, <3>1
      <4> QED
        BY <4>1, FlattenEmpty
    <3>2. CASE Len(seqs) # 0
      <4>1. PICK f \in [1 .. Len(seqs) -> Seq(Int)] : FlattenSeq(seqs) = f[Len(seqs)]
        BY <2>2, <3>2, FlattenIs
      <4>2. Len(seqs) \in 1 .. Len(seqs)
        BY <2>2, <3>2
      <4> QED
        BY <4>1, <4>2
    <3> QED
      BY <3>1, <3>2
  <2> QED
    BY <2>3 DEF Units, seqs
<1>2. e = [i \in 1 .. 2 * n |-> Event(0, i % 2 = 1, {}, <<Units(text)[(i + 1) \div 2]>>)]
  BY DEF WindowsText
<1>3. \A u : Event(0, TRUE, {}, u).key = 0 /\ Event(0, FALSE, {}, u).key = 0 /\ ~Event(0, FALSE, {}, u).isDown
  BY DEF Event
<1>4. e = [i \in 1 .. 2 * n |-> e[i]]
  BY <1>2
<1> HIDE DEF e, n
<1>5. ASSUME NEW i \in 1 .. n
      PROVE  e[2 * i - 1].key \notin {} /\ e[2 * i].key = e[2 * i - 1].key /\ ~e[2 * i].isDown
  <2> DEFINE a == 2 * i - 1
             b == 2 * i
  <2>1. a \in 1 .. 2 * n /\ a % 2 = 1 /\ b \in 1 .. 2 * n /\ b % 2 # 1
    BY <1>1
  <2> HIDE DEF a, b
  <2>2. /\ e[a] = Event(0, a % 2 = 1, {}, <<Units(text)[(a + 1) \div 2]>>)
        /\ e[b] = Event(0, b % 2 = 1, {}, <<Units(text)[(b + 1) \div 2]>>)
    BY <1>2, <2>1
  <2>3. (a % 2 = 1) = TRUE /\ (b % 2 = 1) = FALSE
    BY <2>1
  <2>4. e[a].key = 0 /\ e[b].key = 0 /\ ~e[b].isDown
    BY <1>3, <2>2, <2>3, ZenonT(30)
  <2> QED
    BY <2>4 DEF a, b
<1>6. Clear(e, {})
  <2> DEFINE F == {}
  <2>1. \A i \in 1 .. n : e[2 * i - 1].key \notin F /\ e[2 * i].key = e[2 * i - 1].key /\ ~e[2 * i].isDown
    BY <1>5
  <2> HIDE DEF F
  <2>2. Clear(e, F)
    BY <1>1, <1>4, <2>1, ClearPairs
  <2> QED
    BY <2>2 DEF F
<1> QED
  BY <1>6 DEF e

\* What a text is made of are numbers.
LEMMA TextsAre ==
  ASSUME NEW text \in RestTexts \cup HeldTexts
  PROVE  text \in Seq(Characters) /\ text \in Seq(Nat) /\ Len(text) \in Nat
<1>1. text \in Seq(Characters)
  BY BackendsAssumption
<1>2. Characters \subseteq Nat
  BY DEF Characters
<1>3. Len(text) \in Nat /\ text \in [1 .. Len(text) -> Characters]
  BY <1>1
<1>4. text \in [1 .. Len(text) -> Nat]
  BY <1>2, <1>3
<1> QED
  BY <1>1, <1>3, <1>4, FunctionSeq

LEMMA ClearText ==
  ASSUME NEW text \in RestTexts \cup HeldTexts, system \in Systems PROVE Clear(Text[system][text], Buttonless)
<1>1. text \in Seq(Nat) /\ Len(text) \in Nat
  BY TextsAre
<1>2. Text[system][text] = CASE system.os = "Linux" -> LinuxText(system.entry, text)
                             [] system.os = "macOS" -> plan_text(text)
                             [] system.os = "Windows" -> WindowsText(text)
                             [] OTHER -> <<>>
  BY DEF Text
<1>3. system.os # "macOS" => Clear(LinuxText(system.entry, text), Buttonless) /\ Clear(WindowsText(text), Buttonless)
  BY <1>1, ClearLinuxText, ClearWindowsText DEF Buttonless
<1>4. system.os = "macOS" => Clear(plan_text(text), Buttonless)
  BY <1>1, ClearMacText DEF Buttonless
<1>5. Clear(<<>>, Buttonless)
  BY ClearNothing
<1> QED
  BY <1>2, <1>3, <1>4, <1>5

-----------------------------------------------------------------------------
(* A key with its modifiers: what its press puts down its release ends.    *)

Table(s) == IF s.os = "Linux" THEN hid_to_evdev ELSE IF s.os = "macOS" THEN hid_to_mac_vk ELSE hid_to_vk
Policy(s) == IF s.os = "macOS" THEN s.policy ELSE "Native"
Own(s, u) == policy_apply(Policy(s), u)
ModifierCodes(s, m) == modifier_codes(Table(s), Policy(s), m)
Ends(s, u, m) ==
    IF s.os \in {"Linux", "macOS", "Windows"} /\ Own(s, u) \in DOMAIN Table(s)
      THEN Elements(ModifierCodes(s, m)) \cup {Table(s)[Own(s, u)]} ELSE {}
Flag(s, u) == IF Own(s, u) \in DOMAIN Table(s) THEN modifier_flag(Table(s)[Own(s, u)]) ELSE {}

LEMMA ModifierCodesTyped ==
  ASSUME NEW table, NEW policy, NEW mods
  PROVE  modifier_codes(table, policy, mods) \in Seq({table[x] : x \in DOMAIN table})
<1> DEFINE A == Seq({table[x] : x \in DOMAIN table})
           usage(bit) == policy_apply(policy, 223 + bit)
           Has(bit) == 223 + bit \in mods /\ usage(bit) \in DOMAIN table
           Good(codes) == codes = [bit \in 0 .. 8 |->
                                     IF bit = 0 THEN <<>>
                                     ELSE IF Has(bit) THEN Append(codes[bit - 1], table[usage(bit)])
                                     ELSE codes[bit - 1]]
           J == CHOOSE codes : Good(codes)
           step == [p \in Nat \X A |-> IF Has(p[1]) THEN Append(p[2], table[usage(p[1])]) ELSE p[2]]
<1>1. modifier_codes(table, policy, mods) = J[8]
  BY DEF modifier_codes
<1>2. \A s \in A : \A bit : Has(bit) => Append(s, table[usage(bit)]) \in A
  OBVIOUS
<1>3. <<>> \in A
  OBVIOUS
<1> HIDE DEF A, Has, usage, J
<1>4. step \in [Nat \X A -> A]
  BY <1>2
<1>5. step = [p \in Nat \X A |-> step[p]] /\ \A i \in Nat, x \in A :
        step[<<i, x>>] = IF Has(i) THEN Append(x, table[usage(i)]) ELSE x
  OBVIOUS
<1> HIDE DEF step
<1>6. \E codes : Good(codes)
  <2>1. 0 \in Nat /\ 8 \in Nat
    OBVIOUS
  <2>2. PICK g \in [0 .. 8 -> A] : Recursive(g, 0, 8, <<>>, step)
    BY <1>3, <1>4, <2>1, RecursionExists
  <2>3. ASSUME NEW i \in 0 .. 8
        PROVE  g[i] = IF i = 0 THEN <<>> ELSE IF Has(i) THEN Append(g[i - 1], table[usage(i)]) ELSE g[i - 1]
    <3>1. g[i] = IF i = 0 THEN <<>> ELSE step[<<i, g[i - 1]>>]
      BY <2>2 DEF Recursive
    <3>2. i # 0 => i \in Nat /\ i - 1 \in 0 .. 8
      OBVIOUS
    <3>3. i # 0 => g[i - 1] \in A
      BY <2>2, <3>2
    <3>4. i # 0 => step[<<i, g[i - 1]>>] = IF Has(i) THEN Append(g[i - 1], table[usage(i)]) ELSE g[i - 1]
      BY <1>5, <3>2, <3>3
    <3> QED
      BY <3>1, <3>4
  <2>4. g = [i \in 0 .. 8 |-> g[i]]
    BY <2>2
  <2>5. Good(g)
    BY <2>3, <2>4
  <2> QED
    BY <2>5
<1>7. Good(J)
  BY <1>6 DEF J
<1>8. J[0] = <<>> /\ \A i \in 1 .. 8 : J[i] = IF Has(i) THEN Append(J[i - 1], table[usage(i)]) ELSE J[i - 1]
  <2>1. \A i \in 0 .. 8 : J[i] = IF i = 0 THEN <<>> ELSE IF Has(i) THEN Append(J[i - 1], table[usage(i)]) ELSE J[i - 1]
    <3> DEFINE n == 8
    <3>1. J = [bit \in 0 .. n |-> IF bit = 0 THEN <<>>
                                  ELSE IF Has(bit) THEN Append(J[bit - 1], table[usage(bit)]) ELSE J[bit - 1]]
      BY <1>7, Zenon
    <3> HIDE DEF n
    <3>2. \A i \in 0 .. n : J[i] = IF i = 0 THEN <<>>
                                   ELSE IF Has(i) THEN Append(J[i - 1], table[usage(i)]) ELSE J[i - 1]
      BY <3>1
    <3> QED
      BY <3>2 DEF n
  <2>2. 0 \in 0 .. 8 /\ \A i \in 1 .. 8 : i \in 0 .. 8 /\ i # 0
    OBVIOUS
  <2> QED
    BY <2>1, <2>2
<1> DEFINE K == {i \in Nat : i =< 8 => J[i] \in A}
<1>9. 0 \in K
  BY <1>3, <1>8
<1>10. ASSUME NEW i \in K PROVE i + 1 \in K
  <2> SUFFICES ASSUME i + 1 =< 8 PROVE J[i + 1] \in A
    OBVIOUS
  <2>1. i \in Nat /\ i + 1 \in 1 .. 8 /\ (i + 1) - 1 = i
    OBVIOUS
  <2>2. J[i] \in A
    BY <2>1
  <2>3. J[i + 1] = IF Has(i + 1) THEN Append(J[i], table[usage(i + 1)]) ELSE J[i]
    BY <1>8, <2>1
  <2> QED
    BY <1>2, <2>2, <2>3
<1>11. K = Nat
  <2>1. K \in SUBSET Nat
    OBVIOUS
  <2> HIDE DEF K
  <2> QED
    BY <1>9, <1>10, <2>1, NatSetInduction
<1>12. J[8] \in A
  <2>1. 8 \in Nat
    OBVIOUS
  <2> QED
    BY <1>11, <2>1
<1> QED
  BY <1>1, <1>12 DEF A

\* Events that are all presses, or all releases, and of these keys.
Keyed(events, E, pressed) ==
    /\ IsSequence(events)
    /\ \A i \in DOMAIN events : events[i].key \in E /\ events[i].isDown = pressed
    /\ \A k \in E : \E i \in DOMAIN events : events[i].key = k

LEMMA KeyedConcat ==
  ASSUME NEW s, NEW t, NEW D, NEW E, NEW p, Keyed(s, D, p), Keyed(t, E, p) PROVE Keyed(s \o t, D \cup E, p)
<1> DEFINE m == Len(s)
           n == Len(t)
           q == s \o t
<1>1. IsSequence(s) /\ IsSequence(t)
  BY DEF Keyed
<1>2. m \in Nat /\ n \in Nat /\ DOMAIN s = 1 .. m /\ DOMAIN t = 1 .. n
  BY <1>1, SequenceFacts
<1>3. IsSequence(q) /\ Len(q) = m + n /\ (\A i \in 1 .. m : q[i] = s[i]) /\ \A i \in 1 .. n : q[m + i] = t[i]
  BY <1>1, ConcatSequence
<1>4. DOMAIN q = 1 .. m + n
  BY <1>3, SequenceFacts
<1>5. /\ \A i \in 1 .. m : s[i].key \in D /\ s[i].isDown = p
      /\ \A i \in 1 .. n : t[i].key \in E /\ t[i].isDown = p
      /\ \A k \in D : \E i \in 1 .. m : s[i].key = k
      /\ \A k \in E : \E i \in 1 .. n : t[i].key = k
  BY <1>2 DEF Keyed
<1> HIDE DEF m, n, q
<1>6. ASSUME NEW i \in 1 .. m + n PROVE q[i].key \in D \cup E /\ q[i].isDown = p
  <2>1. CASE i \in 1 .. m
    BY <1>3, <1>5, <2>1
  <2>2. CASE i \notin 1 .. m
    <3>1. i - m \in 1 .. n /\ i = m + (i - m)
      BY <1>2, <2>2
    <3>2. q[i] = t[i - m]
      BY <1>3, <3>1
    <3> QED
      BY <1>5, <3>1, <3>2
  <2> QED
    BY <2>1, <2>2
<1>7. ASSUME NEW k \in D \cup E PROVE \E i \in 1 .. m + n : q[i].key = k
  <2>1. CASE k \in D
    <3>1. PICK i \in 1 .. m : s[i].key = k
      BY <1>5, <2>1
    <3>2. i \in 1 .. m + n /\ q[i] = s[i]
      BY <1>2, <1>3
    <3> QED
      BY <3>1, <3>2
  <2>2. CASE k \in E
    <3>1. PICK i \in 1 .. n : t[i].key = k
      BY <1>5, <2>2
    <3>2. m + i \in 1 .. m + n /\ q[m + i] = t[i]
      BY <1>2, <1>3
    <3> QED
      BY <3>1, <3>2
  <2> QED
    BY <2>1, <2>2
<1>8. Keyed(q, D \cup E, p)
  BY <1>3, <1>4, <1>6, <1>7 DEF Keyed
<1> QED
  BY <1>8 DEF q

LEMMA KeyedOne == ASSUME NEW x, NEW k, NEW p, x.key = k, x.isDown = p PROVE Keyed(<<x>>, {k}, p)
<1> DEFINE s == <<x>>
<1>1. s \in Seq({x})
  OBVIOUS
<1>2. DOMAIN s = {1} /\ s[1] = x
  OBVIOUS
<1> HIDE DEF s
<1>3. IsSequence(s)
  BY <1>1, SeqIsSequence
<1>4. Keyed(s, {k}, p)
  BY <1>2, <1>3 DEF Keyed
<1> QED
  BY <1>4 DEF s

LEMMA KeyedAll ==
  ASSUME NEW codes, IsSequence(codes), NEW p, NEW d, DOMAIN d = DOMAIN codes, d = [i \in DOMAIN d |-> d[i]],
         \A i \in DOMAIN codes : d[i].key = codes[i] /\ d[i].isDown = p
  PROVE  Keyed(d, Elements(codes), p)
<1>1. Len(codes) \in Nat /\ DOMAIN codes = 1 .. Len(codes)
  BY SequenceFacts
<1>2. IsSequence(d)
  BY <1>1, FunctionIsSequence
<1> QED
  BY <1>2 DEF Keyed, Elements

LEMMA ReverseElements ==
  ASSUME NEW s, IsSequence(s) PROVE IsSequence(Reverse(s)) /\ Elements(Reverse(s)) = Elements(s)
<1>1. Len(s) \in Nat /\ DOMAIN s = 1 .. Len(s)
  BY SequenceFacts
<1>2. /\ IsSequence(Reverse(s)) /\ Len(Reverse(s)) = Len(s)
      /\ \A i \in 1 .. Len(s) : Reverse(s)[i] = s[(Len(s) - i) + 1]
  BY ReverseSequence
<1>3. DOMAIN Reverse(s) = 1 .. Len(s)
  BY <1>2, SequenceFacts
<1>4. \A i \in 1 .. Len(s) : (Len(s) - i) + 1 \in 1 .. Len(s) /\ (Len(s) - ((Len(s) - i) + 1)) + 1 = i
  BY <1>1
<1>5. \A i \in 1 .. Len(s) : \E j \in 1 .. Len(s) : Reverse(s)[j] = s[i] /\ s[j] = Reverse(s)[i]
  <2> TAKE i \in 1 .. Len(s)
  <2> DEFINE j == (Len(s) - i) + 1
  <2>1. j \in 1 .. Len(s) /\ (Len(s) - j) + 1 = i
    BY <1>4
  <2>2. Reverse(s)[i] = s[j]
    BY <1>2
  <2> HIDE DEF j
  <2>3. Reverse(s)[j] = s[i]
    BY <1>2, <2>1
  <2> QED
    BY <2>1, <2>2, <2>3
<1>6. \A x : x \in Elements(s) <=> x \in Elements(Reverse(s))
  BY <1>1, <1>3, <1>5 DEF Elements
<1> QED
  BY <1>2, <1>6

LEMMA KeyedNothing == ASSUME NEW p PROVE Keyed(<<>>, {}, p)
<1>1. IsSequence(<<>>)
  <2>1. <<>> \in Seq({})
    OBVIOUS
  <2> QED
    BY <2>1, SeqIsSequence, Zenon
<1>2. DOMAIN <<>> = {}
  OBVIOUS
<1> QED
  BY <1>1, <1>2 DEF Keyed

LEMMA KeyEventsKeyed ==
  ASSUME NEW table, NEW u \in DOMAIN table, NEW m, NEW p \in BOOLEAN
  PROVE  Keyed(key_events(table, u, m, p), Elements(modifier_codes(table, "Native", m)) \cup {table[u]}, p)
<1> DEFINE codes == modifier_codes(table, "Native", m)
           k == table[u]
           back == Reverse(codes)
<1>1. IsSequence(codes)
  BY ModifierCodesTyped, SeqIsSequence
<1>2. IsSequence(back) /\ Elements(back) = Elements(codes)
  BY <1>1, ReverseElements
<1>3. \A c : /\ key_event(c, TRUE).key = c /\ key_event(c, TRUE).isDown = TRUE
             /\ key_event(c, FALSE).key = c /\ key_event(c, FALSE).isDown = FALSE
  BY DEF key_event, Event
<1>4. /\ key_events(table, u, m, TRUE) = Downs(codes) \o <<key_event(k, TRUE)>>
      /\ key_events(table, u, m, FALSE) = <<key_event(k, FALSE)>> \o Ups(back)
  BY DEF key_events
<1> HIDE DEF codes, k, back
<1>5. Keyed(<<key_event(k, TRUE)>>, {k}, TRUE) /\ Keyed(<<key_event(k, FALSE)>>, {k}, FALSE)
  BY <1>3, KeyedOne
<1>6. Keyed(Downs(codes), Elements(codes), TRUE)
  <2> DEFINE d == Downs(codes)
  <2>1. DOMAIN d = DOMAIN codes /\ d = [i \in DOMAIN d |-> d[i]]
    BY DEF Downs
  <2>2. \A i \in DOMAIN codes : d[i] = key_event(codes[i], TRUE)
    BY DEF Downs
  <2> HIDE DEF d
  <2>3. \A i \in DOMAIN codes : d[i].key = codes[i] /\ d[i].isDown = TRUE
    BY <1>3, <2>2
  <2>4. Keyed(d, Elements(codes), TRUE)
    BY <1>1, <2>1, <2>3, KeyedAll
  <2> QED
    BY <2>4 DEF d
<1>7. Keyed(Ups(back), Elements(back), FALSE)
  <2> DEFINE d == Ups(back)
  <2>1. DOMAIN d = DOMAIN back /\ d = [i \in DOMAIN d |-> d[i]]
    BY DEF Ups
  <2>2. \A i \in DOMAIN back : d[i] = key_event(back[i], FALSE)
    BY DEF Ups
  <2> HIDE DEF d
  <2>3. ASSUME NEW i \in DOMAIN back PROVE d[i].key = back[i] /\ d[i].isDown = FALSE
    <3> DEFINE c == back[i]
               e == key_event(c, FALSE)
    <3>1. e.key = c /\ e.isDown = FALSE
      BY <1>3
    <3>2. d[i] = e
      BY <2>2
    <3> HIDE DEF e
    <3> QED
      BY <3>1, <3>2
  <2>4. Keyed(d, Elements(back), FALSE)
    BY <1>2, <2>1, <2>3, KeyedAll
  <2> QED
    BY <2>4 DEF d
<1>8. Keyed(key_events(table, u, m, TRUE), Elements(codes) \cup {k}, TRUE)
  <2>1. Keyed(Downs(codes) \o <<key_event(k, TRUE)>>, Elements(codes) \cup {k}, TRUE)
    BY <1>5, <1>6, KeyedConcat, Zenon
  <2> QED
    BY <1>4, <2>1, Zenon
<1>9. Keyed(key_events(table, u, m, FALSE), {k} \cup Elements(codes), FALSE)
  <2>1. Keyed(<<key_event(k, FALSE)>> \o Ups(back), {k} \cup Elements(back), FALSE)
    BY <1>5, <1>7, KeyedConcat, Zenon
  <2> QED
    BY <1>2, <1>4, <2>1, Zenon
<1>10. {k} \cup Elements(codes) = Elements(codes) \cup {k}
  OBVIOUS
<1>11. p = TRUE \/ p = FALSE
  OBVIOUS
<1>12. Keyed(key_events(table, u, m, p), Elements(codes) \cup {k}, p)
  BY <1>8, <1>9, <1>10, <1>11
<1> QED
  BY <1>12 DEF codes, k

LEMMA PlanKeyKeyed ==
  ASSUME NEW u, NEW m, NEW p \in BOOLEAN, NEW held, policy_apply(system.policy, u) \in DOMAIN hid_to_mac_vk
  PROVE  Keyed(plan_key(u, m, p, held),
               Elements(modifier_codes(hid_to_mac_vk, system.policy, m))
                 \cup {hid_to_mac_vk[policy_apply(system.policy, u)]}, p)
<1> DEFINE ms == modifier_codes(hid_to_mac_vk, system.policy, m)
           back == Reverse(ms)
           vk == hid_to_mac_vk[policy_apply(system.policy, u)]
           all == held \cup FlagsOf(ms)
           up(i) == all \ FlagsOf(SubSeq(back, 1, i))
           over(i) == held \cup FlagsOf(SubSeq(ms, 1, i))
           press == [i \in DOMAIN ms |-> Event(ms[i], TRUE, over(i), <<>>)]
           release == [i \in DOMAIN back |-> Event(back[i], FALSE, up(i), <<>>)]
           x == Event(vk, TRUE, all \cup modifier_flag(vk), <<>>)
           y == Event(vk, FALSE, all \ modifier_flag(vk), <<>>)
<1>1. IsSequence(ms)
  BY ModifierCodesTyped, SeqIsSequence
<1>2. IsSequence(back) /\ Elements(back) = Elements(ms)
  BY <1>1, ReverseElements
<1>3. \A c, f : /\ Event(c, TRUE, f, <<>>).key = c /\ Event(c, TRUE, f, <<>>).isDown = TRUE
                /\ Event(c, FALSE, f, <<>>).key = c /\ Event(c, FALSE, f, <<>>).isDown = FALSE
  BY DEF Event
<1>4. /\ plan_key(u, m, TRUE, held) = press \o <<x>>
      /\ plan_key(u, m, FALSE, held) = <<y>> \o release
  BY DEF plan_key
<1>5. x.key = vk /\ x.isDown = TRUE /\ y.key = vk /\ y.isDown = FALSE
  BY <1>3
<1> HIDE DEF ms, back, vk, x, y, up, over
<1>6. DOMAIN press = DOMAIN ms /\ press = [i \in DOMAIN press |-> press[i]]
  OBVIOUS
<1>7. DOMAIN release = DOMAIN back /\ release = [i \in DOMAIN release |-> release[i]]
  OBVIOUS
<1>8. \A i \in DOMAIN ms : press[i].key = ms[i] /\ press[i].isDown = TRUE
  BY <1>3
<1>9. \A i \in DOMAIN back : release[i].key = back[i] /\ release[i].isDown = FALSE
  BY <1>3
<1> HIDE DEF press, release
<1>10. Keyed(<<x>>, {vk}, TRUE) /\ Keyed(<<y>>, {vk}, FALSE)
  BY <1>5, KeyedOne
<1>11. Keyed(press, Elements(ms), TRUE) /\ Keyed(release, Elements(ms), FALSE)
  BY <1>1, <1>2, <1>6, <1>7, <1>8, <1>9, KeyedAll
<1>12. Keyed(press \o <<x>>, Elements(ms) \cup {vk}, TRUE)
  BY <1>10, <1>11, KeyedConcat
<1>13. Keyed(<<y>> \o release, {vk} \cup Elements(ms), FALSE)
  BY <1>10, <1>11, KeyedConcat
<1>14. {vk} \cup Elements(ms) = Elements(ms) \cup {vk}
  OBVIOUS
<1>15. p = TRUE \/ p = FALSE
  OBVIOUS
<1>16. Keyed(plan_key(u, m, p, held), Elements(ms) \cup {vk}, p)
  BY <1>4, <1>12, <1>13, <1>14, <1>15
<1> QED
  BY <1>16 DEF ms, vk

LEMMA KeyKeyed ==
  ASSUME NEW u, NEW m, NEW p \in BOOLEAN PROVE Keyed(KeyEvents(u, m, p), Ends(system, u, m), p)
<1>0. \A v : policy_apply("Native", v) = v
  BY DEF policy_apply
<1>1. CASE system.os \in {"Linux", "Windows"}
  <2>1. Own(system, u) = u /\ ModifierCodes(system, m) = modifier_codes(Table(system), "Native", m)
    BY <1>0, <1>1 DEF Own, Policy, ModifierCodes
  <2>2. KeyEvents(u, m, p) = key_events(Table(system), u, m, p)
    BY <1>1 DEF KeyEvents, Table
  <2>3. CASE u \in DOMAIN Table(system)
    BY <1>1, <2>1, <2>2, <2>3, KeyEventsKeyed DEF Ends
  <2>4. CASE u \notin DOMAIN Table(system)
    <3>1. KeyEvents(u, m, p) = <<>>
      BY <2>2, <2>4 DEF key_events
    <3>2. Ends(system, u, m) = {}
      BY <2>1, <2>4 DEF Ends
    <3> QED
      BY <3>1, <3>2, KeyedNothing
  <2> QED
    BY <2>3, <2>4
<1>2. CASE system.os = "macOS"
  <2>1. /\ Own(system, u) = policy_apply(system.policy, u) /\ Table(system) = hid_to_mac_vk
        /\ ModifierCodes(system, m) = modifier_codes(hid_to_mac_vk, system.policy, m)
    BY <1>2 DEF Own, Policy, ModifierCodes, Table
  <2>2. KeyEvents(u, m, p) = plan_key(u, m, p, mac.held)
    BY <1>2 DEF KeyEvents
  <2>3. CASE policy_apply(system.policy, u) \in DOMAIN hid_to_mac_vk
    BY <1>2, <2>1, <2>2, <2>3, PlanKeyKeyed DEF Ends
  <2>4. CASE policy_apply(system.policy, u) \notin DOMAIN hid_to_mac_vk
    <3>1. KeyEvents(u, m, p) = <<>>
      BY <2>2, <2>4 DEF plan_key
    <3>2. Ends(system, u, m) = {}
      BY <2>1, <2>4 DEF Ends
    <3> QED
      BY <3>1, <3>2, KeyedNothing
  <2> QED
    BY <2>3, <2>4
<1>3. CASE system.os \notin {"Linux", "macOS", "Windows"}
  <2>1. KeyEvents(u, m, p) = <<>> /\ Ends(system, u, m) = {}
    BY <1>3 DEF KeyEvents, Ends
  <2> QED
    BY <2>1, KeyedNothing
<1> QED
  BY <1>1, <1>2, <1>3

\* No key of macOS has the number of a button.
LEMMA LaidIn ==
  ASSUME NEW S, NEW codes \in Seq(S), NEW first \in Int
  PROVE  \A u \in DOMAIN Laid(first, codes) : Laid(first, codes)[u] \in S
<1> SUFFICES ASSUME NEW u \in DOMAIN Laid(first, codes) PROVE Laid(first, codes)[u] \in S
  OBVIOUS
<1>1. u \in first .. (first + Len(codes) - 1) /\ Len(codes) \in Nat
  BY DEF Laid
<1>2. (u - first) + 1 \in 1 .. Len(codes)
  BY <1>1
<1> QED
  BY <1>1, <1>2 DEF Laid

LEMMA MacNumbers == \A u \in DOMAIN hid_to_mac_vk : hid_to_mac_vk[u] \notin Buttons
<1> DEFINE Small == {n \in Int : n < 272}
           a == <<0,11,8,2,14,3,5,4,34,38,40,37,46,45,31,35,12,15,1,17,32,9,13,7,16,6,
                  18,19,20,21,23,22,26,28,25,29, 36,53,51,48,49,27,24,33,30,42,42,41,39,50,43,47,44,57,
                  122,120,99,118,96,97,98,100,101,109,103,111, 105,107,113,114,115,116,117,119,121,124,123,125,126,
                  71,75,67,78,69,76, 83,84,85,86,87,88,89,91,92,82, 65,10,110>>
           b == <<105,107,113,106,64,79,80,90>>
           c == <<59,56,58,55,62,60,61,54>>
<1>1. a \in Seq(Small)
  OBVIOUS
<1>2. b \in Seq(Small) /\ c \in Seq(Small)
  OBVIOUS
<1>3. hid_to_mac_vk = Joined(Laid(4, a), Joined(Laid(104, b), Laid(224, c)))
  BY DEF hid_to_mac_vk
<1>4. \A n \in Small : n \notin Buttons
  BY DEF Buttons
<1> HIDE DEF a, b, c, Small
<1>5. /\ \A u \in DOMAIN Laid(4, a) : Laid(4, a)[u] \in Small
      /\ \A u \in DOMAIN Laid(104, b) : Laid(104, b)[u] \in Small
      /\ \A u \in DOMAIN Laid(224, c) : Laid(224, c)[u] \in Small
  <2>1. 4 \in Int /\ 104 \in Int /\ 224 \in Int
    OBVIOUS
  <2> QED
    BY <1>1, <1>2, <2>1, LaidIn
<1>6. \A f, g : (\A u \in DOMAIN f : f[u] \in Small) /\ (\A u \in DOMAIN g : g[u] \in Small)
                  => \A u \in DOMAIN Joined(f, g) : Joined(f, g)[u] \in Small
  BY DEF Joined
<1>7. \A u \in DOMAIN hid_to_mac_vk : hid_to_mac_vk[u] \in Small
  <2> DEFINE f == Laid(4, a)
             g == Laid(104, b)
             h == Laid(224, c)
  <2>1. /\ \A u \in DOMAIN f : f[u] \in Small
        /\ \A u \in DOMAIN g : g[u] \in Small
        /\ \A u \in DOMAIN h : h[u] \in Small
    BY <1>5
  <2>2. hid_to_mac_vk = Joined(f, Joined(g, h))
    BY <1>3
  <2> HIDE DEF f, g, h
  <2>3. \A u \in DOMAIN Joined(g, h) : Joined(g, h)[u] \in Small
    BY <1>6, <2>1
  <2> QED
    BY <1>6, <2>1, <2>2, <2>3
<1> QED
  BY <1>4, <1>7

LEMMA MacEnds == ASSUME NEW u, NEW m, system.os = "macOS" PROVE Ends(system, u, m) \cap Buttons = {}
<1>1. Table(system) = hid_to_mac_vk
  BY DEF Table
<1>2. ModifierCodes(system, m) \in Seq({hid_to_mac_vk[x] : x \in DOMAIN hid_to_mac_vk})
  BY <1>1, ModifierCodesTyped DEF ModifierCodes
<1>3. \A i \in DOMAIN ModifierCodes(system, m) :
        ModifierCodes(system, m)[i] \in {hid_to_mac_vk[x] : x \in DOMAIN hid_to_mac_vk}
  BY <1>2
<1>4. \A k \in Ends(system, u, m) : k \in {hid_to_mac_vk[x] : x \in DOMAIN hid_to_mac_vk}
  BY <1>1, <1>3 DEF Ends, Elements
<1> QED
  BY <1>4, MacNumbers

-----------------------------------------------------------------------------
(* The invariant: whoever has put something down will release it still, or *)
(* the system has not taken the release.                                   *)

ButtonEnds(s, b) == IF s.os = "none" THEN {} ELSE {b}
QueueEnds(s, q) == IF q[1] = "button" THEN ButtonEnds(s, q[2]) ELSE Ends(s, q[2], q[3])
QueueButtons(q) == IF q[1] = "button" THEN {q[2]} ELSE {}
QueueFlags(s, q) == IF q[1] = "button" THEN {} ELSE Flag(s, q[2])

\* What the phone holds and what is queued for it will release.
Owed == (UNION {Ends(system, keys[i][1], keys[i][2]) : i \in DOMAIN keys})
        \cup (UNION {QueueEnds(system, queue[i]) : i \in DOMAIN queue})
        \cup (UNION {ButtonEnds(system, b) : b \in buttons})
OwedButtons == buttons \cup (UNION {QueueButtons(queue[i]) : i \in DOMAIN queue})
OwedFlags == (UNION {Flag(system, keys[i][1]) : i \in DOMAIN keys})
             \cup (UNION {QueueFlags(system, queue[i]) : i \in DOMAIN queue})

QueueOk == IsSequence(queue) /\ \A i \in DOMAIN queue : queue[i][1] = "button" => queue[i][2] \in Buttons
Shapes ==
    /\ system \in Systems /\ IsSequence(keys) /\ QueueOk /\ buttons \subseteq Buttons /\ faults \in Nat
    /\ DOMAIN input = {"ready", "allowed", "since"} /\ DOMAIN mac = {"held", "buttons"}

DownInv == OnLinux(down) /\ down \subseteq lost \cup Owed
MacInv == system.os = "macOS" => /\ mac.buttons \subseteq Buttons /\ mac.buttons \subseteq lost \cup OwedButtons
                                 /\ faults = 0 => mac.held \subseteq OwedFlags
RestInv == ~input.ready => down = {} /\ mac.held = {} /\ mac.buttons = {}

BackendsInv == Shapes /\ DownInv /\ MacInv /\ RestInv

LEMMA IsOwed ==
  ASSUME NEW x
  PROVE  /\ x \in Owed <=> \/ \E i \in DOMAIN keys : x \in Ends(system, keys[i][1], keys[i][2])
                           \/ \E i \in DOMAIN queue : x \in QueueEnds(system, queue[i])
                           \/ \E b \in buttons : x \in ButtonEnds(system, b)
         /\ x \in Owed' <=> \/ \E i \in DOMAIN keys' : x \in Ends(system', keys'[i][1], keys'[i][2])
                            \/ \E i \in DOMAIN queue' : x \in QueueEnds(system', queue'[i])
                            \/ \E b \in buttons' : x \in ButtonEnds(system', b)
<1>1. \A s, ks : x \in UNION {Ends(s, ks[i][1], ks[i][2]) : i \in DOMAIN ks}
                  <=> \E i \in DOMAIN ks : x \in Ends(s, ks[i][1], ks[i][2])
  BY Zenon
<1>2. \A s, qs : x \in UNION {QueueEnds(s, qs[i]) : i \in DOMAIN qs} <=> \E i \in DOMAIN qs : x \in QueueEnds(s, qs[i])
  BY Zenon
<1>3. \A s, bs : x \in UNION {ButtonEnds(s, b) : b \in bs} <=> \E b \in bs : x \in ButtonEnds(s, b)
  BY Zenon
<1> QED
  BY <1>1, <1>2, <1>3 DEF Owed

LEMMA IsOwedButton ==
  ASSUME NEW x
  PROVE  /\ x \in OwedButtons <=> x \in buttons \/ \E i \in DOMAIN queue : x \in QueueButtons(queue[i])
         /\ x \in OwedButtons' <=> x \in buttons' \/ \E i \in DOMAIN queue' : x \in QueueButtons(queue'[i])
<1>1. \A qs : x \in UNION {QueueButtons(qs[i]) : i \in DOMAIN qs} <=> \E i \in DOMAIN qs : x \in QueueButtons(qs[i])
  BY Zenon
<1> QED
  BY <1>1, Zenon DEF OwedButtons

LEMMA IsOwedFlag ==
  ASSUME NEW x
  PROVE  /\ x \in OwedFlags <=> \/ \E i \in DOMAIN keys : x \in Flag(system, keys[i][1])
                                \/ \E i \in DOMAIN queue : x \in QueueFlags(system, queue[i])
         /\ x \in OwedFlags' <=> \/ \E i \in DOMAIN keys' : x \in Flag(system', keys'[i][1])
                                 \/ \E i \in DOMAIN queue' : x \in QueueFlags(system', queue'[i])
<1>1. \A s, ks : x \in UNION {Flag(s, ks[i][1]) : i \in DOMAIN ks} <=> \E i \in DOMAIN ks : x \in Flag(s, ks[i][1])
  BY Zenon
<1>2. \A s, qs : x \in UNION {QueueFlags(s, qs[i]) : i \in DOMAIN qs} <=> \E i \in DOMAIN qs : x \in QueueFlags(s, qs[i])
  BY Zenon
<1> QED
  BY <1>1, <1>2, Zenon DEF OwedFlags

\* What a call does, for its events and for what will be owed after it.
Settles(events, owed) ==
    /\ IsSequence(events)
    /\ \A k \in down : k \in lost \/ k \in owed \/ \E j \in DOMAIN events : events[j].key = k /\ ~events[j].isDown
    /\ \A i \in DOMAIN events :
         events[i].isDown => \/ events[i].key \in owed
                             \/ \E j \in DOMAIN events : j > i /\ events[j].key = events[i].key /\ ~events[j].isDown

LEMMA Called ==
  ASSUME NEW events, NEW notes, NEW text, NEW owed, BackendsInv, Settles(events, owed), Inject(events, notes, text)
  PROVE  /\ OnLinux(down') /\ down' \subseteq lost' \cup owed
         /\ faults' \in Nat /\ (faults' = 0 => faults = 0)
         /\ DOMAIN input' = {"ready", "allowed", "since"}
         /\ \A b \in lost : (\A i \in DOMAIN events : events[i].key # b) => b \in lost'
         /\ \/ input'.ready /\ (mac' = notes \/ (mac' = mac /\ faults' # 0 /\ LastEnded(events)))
            \/ ~input.ready /\ ~input'.ready /\ down' = {} /\ mac' = mac
<1>1. IsSequence(events) /\ OnLinux(down) /\ faults \in Nat
  BY DEF Settles, BackendsInv, DownInv, Shapes
<1>2. input' = backend /\ (~backend.ready => ~input.ready) /\ DOMAIN backend = {"ready", "allowed", "since"}
  BY DEF backend, Inject, BackendsInv, Shapes
<1>3. CASE backend.ready
  <2>1. /\ OnLinux(down') /\ \A k \in down' : Fate(events, k)
        /\ faults' \in Nat /\ (faults' = 0 => faults = 0)
        /\ \A b \in lost : (\A i \in DOMAIN events : events[i].key # b) => b \in lost'
        /\ mac' = notes \/ (mac' = mac /\ faults' # 0 /\ LastEnded(events))
    BY <1>1, <1>3, CallMade
  <2>2. ASSUME NEW k \in down' PROVE k \in lost' \cup owed
    <3>1. \A i \in DOMAIN events : i > 0
      BY <1>1, SequenceFacts
    <3>2. CASE k \in down /\ (k \in lost => k \in lost') /\ Ended(events, k, 0)
      BY <3>1, <3>2 DEF Settles, Ended
    <3>3. CASE \E i \in DOMAIN events : events[i].isDown /\ events[i].key = k /\ Ended(events, k, i)
      BY <3>3 DEF Settles, Ended
    <3> QED
      BY <2>1, <3>2, <3>3 DEF Fate
  <2> QED
    BY <1>2, <1>3, <2>1, <2>2
<1>4. CASE ~backend.ready
  <2>1. UNCHANGED <<down, lost, faults, mac>>
    BY <1>4 DEF Inject, pcvars
  <2>2. down = {}
    BY <1>2, <1>4 DEF BackendsInv, RestInv
  <2> QED
    BY <1>1, <1>2, <1>4, <2>1, <2>2
<1> QED
  BY <1>3, <1>4

\* A message that leaves no key down, as long as what is owed stays.
LEMMA SettlesClear ==
  ASSUME NEW events, BackendsInv, Clear(events, Buttonless) PROVE Settles(events, Owed)
BY DEF Clear, Settles, BackendsInv, DownInv


LEMMA ClearCall ==
  ASSUME BackendsInv, NEW events, Clear(events, Buttonless), NEW text, Inject(events, mac, text),
         UNCHANGED <<system, keys, buttons, queue>>
  PROVE  BackendsInv'
<1>1. Settles(events, Owed)
  BY SettlesClear
<1>2. /\ OnLinux(down') /\ down' \subseteq lost' \cup Owed
      /\ faults' \in Nat /\ (faults' = 0 => faults = 0)
      /\ DOMAIN input' = {"ready", "allowed", "since"}
      /\ \A b \in lost : (\A i \in DOMAIN events : events[i].key # b) => b \in lost'
      /\ mac' = mac /\ (~input'.ready => ~input.ready /\ down' = {})
  BY <1>1, Called
<1>3. Owed' = Owed /\ OwedButtons' = OwedButtons /\ OwedFlags' = OwedFlags
  BY DEF Owed, OwedButtons, OwedFlags
<1>4. Shapes' /\ DownInv'
  BY <1>2, <1>3 DEF BackendsInv, Shapes, DownInv, OnLinux, QueueOk
<1>5. MacInv'
  <2> SUFFICES ASSUME system.os = "macOS"
               PROVE  /\ mac.buttons \subseteq Buttons /\ mac.buttons \subseteq lost' \cup OwedButtons
                      /\ faults' = 0 => mac.held \subseteq OwedFlags
    BY <1>2, <1>3 DEF MacInv
  <2>1. \A b \in Buttons : \A i \in DOMAIN events : events[i].key # b
    BY DEF Clear, Buttonless
  <2> QED
    BY <1>2, <2>1 DEF BackendsInv, MacInv
<1>6. RestInv'
  BY <1>2 DEF BackendsInv, RestInv
<1> QED
  BY <1>4, <1>5, <1>6 DEF BackendsInv

LEMMA MovesClear == Clear(<<key_event(-1, FALSE)>>, Buttonless)
<1> DEFINE e == key_event(-1, FALSE)
           s == <<e>>
<1>1. e.key = -1 /\ ~e.isDown
  BY DEF key_event, Event
<1>2. -1 \notin Buttonless
  BY DEF Buttonless, Buttons
<1> HIDE DEF e
<1>3. s \in Seq({e}) /\ DOMAIN s = {1} /\ s[1] = e
  OBVIOUS
<1> HIDE DEF s
<1>4. IsSequence(s)
  BY <1>3, SeqIsSequence
<1>5. Clear(s, Buttonless)
  BY <1>1, <1>2, <1>3, <1>4 DEF Clear
<1> QED
  BY <1>5 DEF s, e

\* A key goes down: it and its modifiers are owed from now on.
LEMMA PressStep ==
  ASSUME BackendsInv, NEW u \in Usages, NEW m \in KeyMods, KeyPress(u, m) PROVE BackendsInv'
<1> DEFINE e == KeyEvents(u, m, TRUE)
           E == Ends(system, u, m)
           notes == IF system.os = "macOS" THEN [mac EXCEPT !.held = new_held(u, TRUE, @)] ELSE mac
<1>1. keys' = Append(keys, <<u, m>>) /\ UNCHANGED <<system, buttons, queue>> /\ Inject(e, notes, <<>>)
  BY DEF KeyPress, InjectKey
<1>2. Keyed(e, E, TRUE)
  BY KeyKeyed
<1>3. /\ IsSequence(keys') /\ DOMAIN keys \subseteq DOMAIN keys'
      /\ (\A i \in DOMAIN keys : keys'[i] = keys[i]) /\ \E i \in DOMAIN keys' : keys'[i] = <<u, m>>
  <2> DEFINE S == Elements(keys) \cup {<<u, m>>}
  <2>1. keys \in Seq(Elements(keys))
    BY DEF BackendsInv, Shapes, IsSequence
  <2>2. Elements(keys) \subseteq S /\ <<u, m>> \in S
    OBVIOUS
  <2> HIDE DEF S
  <2>3. keys \in Seq(S)
    BY <2>1, <2>2
  <2>4. keys' \in Seq(S) /\ Len(keys') = Len(keys) + 1 /\ Len(keys) \in Nat
        /\ DOMAIN keys = 1 .. Len(keys) /\ DOMAIN keys' = 1 .. Len(keys) + 1
        /\ (\A i \in 1 .. Len(keys) : keys'[i] = keys[i]) /\ keys'[Len(keys) + 1] = <<u, m>>
    BY <1>1, <2>2, <2>3
  <2>5. IsSequence(keys')
    BY <2>4, SeqIsSequence
  <2>6. Len(keys) + 1 \in 1 .. Len(keys) + 1 /\ \A i \in 1 .. Len(keys) : i \in 1 .. Len(keys) + 1
    BY <2>4
  <2> QED
    BY <2>4, <2>5, <2>6
<1>4. Owed \cup E \subseteq Owed'
  <2>1. PICK i \in DOMAIN keys' : keys'[i] = <<u, m>>
    BY <1>3
  <2>2. Ends(system, keys'[i][1], keys'[i][2]) = E
    BY <2>1
  <2> HIDE DEF E
  <2> QED
    BY <1>1, <1>3, <2>2 DEF Owed
<1>5. OwedButtons' = OwedButtons
  BY <1>1 DEF OwedButtons
<1>6. OwedFlags \cup Flag(system, u) \subseteq OwedFlags'
  <2>1. PICK i \in DOMAIN keys' : keys'[i] = <<u, m>>
    BY <1>3
  <2>2. Flag(system, keys'[i][1]) = Flag(system, u)
    BY <2>1
  <2> QED
    BY <1>1, <1>3, <2>2 DEF OwedFlags
<1> HIDE DEF e, E
<1>7. Settles(e, Owed')
  BY <1>2, <1>4 DEF Keyed, Settles, BackendsInv, DownInv
<1>8. /\ OnLinux(down') /\ down' \subseteq lost' \cup Owed'
      /\ faults' \in Nat /\ (faults' = 0 => faults = 0)
      /\ DOMAIN input' = {"ready", "allowed", "since"}
      /\ \A b \in lost : (\A i \in DOMAIN e : e[i].key # b) => b \in lost'
      /\ \/ input'.ready /\ (mac' = notes \/ (mac' = mac /\ faults' # 0 /\ LastEnded(e)))
         \/ ~input.ready /\ ~input'.ready /\ down' = {} /\ mac' = mac
  BY <1>1, <1>7, Called
<1>9. DOMAIN notes = DOMAIN mac /\ notes.buttons = mac.buttons
      /\ (system.os = "macOS" => notes.held \subseteq mac.held \cup Flag(system, u))
  <2>1. system.os = "macOS" => new_held(u, TRUE, mac.held) \subseteq mac.held \cup Flag(system, u)
    BY DEF new_held, Flag, Own, Policy, Table
  <2>2. DOMAIN mac = {"held", "buttons"}
    BY DEF BackendsInv, Shapes
  <2>3. \A h : /\ DOMAIN [mac EXCEPT !.held = h] = DOMAIN mac /\ [mac EXCEPT !.held = h].buttons = mac.buttons
               /\ [mac EXCEPT !.held = h].held = h
    BY <2>2
  <2> QED
    BY <2>1, <2>3
<1> HIDE DEF notes
<1>10. DOMAIN mac' = {"held", "buttons"} /\ mac'.buttons = mac.buttons
  BY <1>8, <1>9 DEF BackendsInv, Shapes
<1>11. Shapes'
  BY <1>1, <1>3, <1>8, <1>10 DEF BackendsInv, Shapes, QueueOk
<1>12. DownInv'
  BY <1>1, <1>8 DEF DownInv, OnLinux
<1>13. MacInv'
  <2> SUFFICES ASSUME system.os = "macOS"
               PROVE  /\ mac.buttons \subseteq Buttons /\ mac.buttons \subseteq lost' \cup OwedButtons
                      /\ faults' = 0 => mac'.held \subseteq OwedFlags'
    BY <1>1, <1>5, <1>10 DEF MacInv
  <2>1. \A b \in Buttons : \A i \in DOMAIN e : e[i].key # b
    BY <1>2, MacEnds DEF Keyed, E
  <2>2. mac.buttons \subseteq Buttons /\ mac.buttons \subseteq lost' \cup OwedButtons
    BY <1>8, <2>1 DEF BackendsInv, MacInv
  <2>3. ASSUME faults' = 0 PROVE mac'.held \subseteq OwedFlags'
    <3>1. mac.held \subseteq OwedFlags
      BY <1>8, <2>3 DEF BackendsInv, MacInv
    <3>2. mac' = notes \/ mac' = mac
      BY <1>8
    <3> QED
      BY <1>6, <1>9, <3>1, <3>2
  <2> QED
    BY <2>2, <2>3
<1>14. RestInv'
  BY <1>8 DEF BackendsInv, RestInv
<1> QED
  BY <1>11, <1>12, <1>13, <1>14 DEF BackendsInv


\* A key's release, of the phone or for it: it and its modifiers are up then, or what is not is owed to another.
LEMMA ReleaseCall ==
  ASSUME BackendsInv, NEW u, NEW m, InjectKey(u, m, FALSE), system' = system,
         IsSequence(keys'), QueueOk', buttons' \subseteq Buttons,
         Owed \subseteq Owed' \cup Ends(system, u, m), OwedButtons \subseteq OwedButtons',
         OwedFlags \subseteq OwedFlags' \cup Flag(system, u)
  PROVE  BackendsInv'
<1> DEFINE e == KeyEvents(u, m, FALSE)
           E == Ends(system, u, m)
           notes == IF system.os = "macOS" THEN [mac EXCEPT !.held = new_held(u, FALSE, @)] ELSE mac
<1>1. Inject(e, notes, <<>>)
  BY DEF InjectKey
<1>2. Keyed(e, E, FALSE)
  BY KeyKeyed
<1>3. Owed \subseteq Owed' \cup E
  OBVIOUS
<1>4. system.os = "macOS" => E \cap Buttons = {}
  BY MacEnds
<1> HIDE DEF e, E
<1>5. Settles(e, Owed')
  <2>1. \A i \in DOMAIN e : ~e[i].isDown
    BY <1>2 DEF Keyed
  <2>2. \A k \in E : \E i \in DOMAIN e : e[i].key = k /\ ~e[i].isDown
    BY <1>2, <2>1 DEF Keyed
  <2>3. IsSequence(e)
    BY <1>2 DEF Keyed
  <2> QED
    BY <1>3, <2>1, <2>2, <2>3 DEF Settles, BackendsInv, DownInv
<1>6. /\ OnLinux(down') /\ down' \subseteq lost' \cup Owed'
      /\ faults' \in Nat /\ (faults' = 0 => faults = 0)
      /\ DOMAIN input' = {"ready", "allowed", "since"}
      /\ \A b \in lost : (\A i \in DOMAIN e : e[i].key # b) => b \in lost'
      /\ \/ input'.ready /\ (mac' = notes \/ (mac' = mac /\ faults' # 0 /\ LastEnded(e)))
         \/ ~input.ready /\ ~input'.ready /\ down' = {} /\ mac' = mac
  BY <1>1, <1>5, Called
<1>7. DOMAIN notes = DOMAIN mac /\ notes.buttons = mac.buttons
      /\ (system.os = "macOS" => notes.held \subseteq mac.held \ Flag(system, u))
  <2>1. system.os = "macOS" => new_held(u, FALSE, mac.held) \subseteq mac.held \ Flag(system, u)
    BY DEF new_held, Flag, Own, Policy, Table
  <2>2. DOMAIN mac = {"held", "buttons"}
    BY DEF BackendsInv, Shapes
  <2>3. \A h : /\ DOMAIN [mac EXCEPT !.held = h] = DOMAIN mac /\ [mac EXCEPT !.held = h].buttons = mac.buttons
               /\ [mac EXCEPT !.held = h].held = h
    BY <2>2
  <2> QED
    BY <2>1, <2>3
<1> HIDE DEF notes
<1>8. DOMAIN mac' = {"held", "buttons"} /\ mac'.buttons = mac.buttons
  BY <1>6, <1>7 DEF BackendsInv, Shapes
<1>9. Shapes'
  BY <1>6, <1>8 DEF BackendsInv, Shapes
<1>10. DownInv'
  BY <1>6 DEF DownInv, OnLinux
<1>11. MacInv'
  <2> SUFFICES ASSUME system.os = "macOS"
               PROVE  /\ mac.buttons \subseteq Buttons /\ mac.buttons \subseteq lost' \cup OwedButtons'
                      /\ faults' = 0 => mac'.held \subseteq OwedFlags'
    BY <1>8 DEF MacInv
  <2>1. \A b \in Buttons : \A i \in DOMAIN e : e[i].key # b
    BY <1>2, <1>4 DEF Keyed
  <2>2. mac.buttons \subseteq Buttons /\ mac.buttons \subseteq lost' \cup OwedButtons'
    BY <1>6, <2>1 DEF BackendsInv, MacInv
  <2>3. ASSUME faults' = 0 PROVE mac'.held \subseteq OwedFlags'
    <3>1. mac.held \subseteq OwedFlags
      BY <1>6, <2>3 DEF BackendsInv, MacInv
    <3>2. mac' = notes \/ (mac' = mac /\ ~input.ready)
      BY <1>6, <2>3
    <3> QED
      BY <1>7, <3>1, <3>2 DEF BackendsInv, RestInv
  <2> QED
    BY <2>2, <2>3
<1>12. RestInv'
  BY <1>6 DEF BackendsInv, RestInv
<1> QED
  BY <1>9, <1>10, <1>11, <1>12 DEF BackendsInv

\* The same of a button, for its press too.
LEMMA ButtonCall ==
  ASSUME BackendsInv, NEW b \in Buttons, NEW p \in BOOLEAN, InjectButton(b, p), system' = system,
         IsSequence(keys'), QueueOk', buttons' \subseteq Buttons,
         Owed \cup ButtonEnds(system, b) \subseteq Owed' \cup (IF p THEN {} ELSE ButtonEnds(system, b)),
         OwedButtons \cup {b} \subseteq OwedButtons' \cup (IF p THEN {} ELSE {b}),
         OwedFlags \subseteq OwedFlags'
  PROVE  BackendsInv'
<1> DEFINE e == button_events(b, p)
           E == ButtonEnds(system, b)
           notes == IF system.os # "macOS" THEN mac
                    ELSE [mac EXCEPT !.buttons = IF p THEN @ \cup {b} ELSE @ \ {b}]
<1>1. Inject(e, notes, <<>>)
  BY DEF InjectButton
<1>2. Keyed(e, E, p)
  <2>1. key_event(b, p).key = b /\ key_event(b, p).isDown = p
    BY DEF key_event, Event
  <2> QED
    BY <2>1, KeyedOne, KeyedNothing DEF button_events, ButtonEnds
<1>3. Owed \cup E \subseteq Owed' \cup (IF p THEN {} ELSE E)
  OBVIOUS
<1>4. system.os = "macOS" => e = <<key_event(b, p)>>
  BY DEF button_events
<1>5. E \subseteq {b}
  BY DEF ButtonEnds
<1> HIDE DEF e, E
<1>6. Settles(e, Owed')
  <2>1. IsSequence(e) /\ \A i \in DOMAIN e : e[i].key \in E /\ e[i].isDown = p
    BY <1>2 DEF Keyed
  <2>2. CASE p = TRUE
    <3>1. Owed \subseteq Owed' /\ E \subseteq Owed'
      BY <1>3, <2>2
    <3> QED
      BY <2>1, <3>1 DEF Settles, BackendsInv, DownInv
  <2>3. CASE p = FALSE
    <3>1. Owed \subseteq Owed' \cup E
      BY <1>3, <2>3
    <3>2. \A i \in DOMAIN e : ~e[i].isDown
      BY <2>1, <2>3
    <3>3. \A k \in E : \E i \in DOMAIN e : e[i].key = k /\ ~e[i].isDown
      BY <1>2, <3>2 DEF Keyed
    <3> QED
      BY <2>1, <3>1, <3>2, <3>3 DEF Settles, BackendsInv, DownInv
  <2> QED
    BY <2>2, <2>3
<1>7. /\ OnLinux(down') /\ down' \subseteq lost' \cup Owed'
      /\ faults' \in Nat /\ (faults' = 0 => faults = 0)
      /\ DOMAIN input' = {"ready", "allowed", "since"}
      /\ \A k \in lost : (\A i \in DOMAIN e : e[i].key # k) => k \in lost'
      /\ \/ input'.ready /\ (mac' = notes \/ (mac' = mac /\ faults' # 0 /\ LastEnded(e)))
         \/ ~input.ready /\ ~input'.ready /\ down' = {} /\ mac' = mac
  BY <1>1, <1>6, Called
<1>8. /\ DOMAIN notes = DOMAIN mac /\ notes.held = mac.held
      /\ system.os = "macOS" => notes.buttons = IF p THEN mac.buttons \cup {b} ELSE mac.buttons \ {b}
  <2>1. DOMAIN mac = {"held", "buttons"}
    BY DEF BackendsInv, Shapes
  <2>2. \A h : /\ DOMAIN [mac EXCEPT !.buttons = h] = DOMAIN mac /\ [mac EXCEPT !.buttons = h].held = mac.held
               /\ [mac EXCEPT !.buttons = h].buttons = h
    BY <2>1
  <2> QED
    BY <2>2
<1> HIDE DEF notes
<1>9. DOMAIN mac' = {"held", "buttons"} /\ mac'.held = mac.held
  BY <1>7, <1>8 DEF BackendsInv, Shapes
<1>10. Shapes'
  BY <1>7, <1>9 DEF BackendsInv, Shapes
<1>11. DownInv'
  BY <1>7 DEF DownInv, OnLinux
<1>12. MacInv'
  <2> SUFFICES ASSUME system.os = "macOS"
               PROVE  /\ mac'.buttons \subseteq Buttons /\ mac'.buttons \subseteq lost' \cup OwedButtons'
                      /\ faults' = 0 => mac.held \subseteq OwedFlags'
    BY <1>9 DEF MacInv
  <2>1. \A k \in Buttons : k # b => \A i \in DOMAIN e : e[i].key # k
    BY <1>2, <1>5 DEF Keyed
  <2>2. mac.buttons \subseteq Buttons /\ mac.buttons \subseteq lost \cup OwedButtons
    BY DEF BackendsInv, MacInv
  <2>3. \A k \in mac.buttons : k # b => k \in lost' \cup OwedButtons'
    BY <1>7, <2>1, <2>2
  <2>4. CASE mac' = notes
    <3>1. mac'.buttons \subseteq mac.buttons \cup {b} /\ (~p => b \notin mac'.buttons) /\ (p => b \in OwedButtons')
      BY <1>8, <2>4
    <3> QED
      BY <1>7, <2>2, <2>3, <3>1 DEF BackendsInv, MacInv
  <2>5. CASE mac' = mac /\ LastEnded(e)
    <3>1. e = <<key_event(b, p)>> /\ key_event(b, p).key = b /\ key_event(b, p).isDown = p
      BY <1>4 DEF key_event, Event
    <3>2. Len(e) = 1 /\ e[1] = key_event(b, p)
      BY <3>1
    <3>3. ~p => b \in lost'
      BY <2>5, <3>1, <3>2 DEF LastEnded
    <3>4. p => b \in OwedButtons'
      OBVIOUS
    <3> QED
      BY <1>7, <2>2, <2>3, <2>5, <3>3, <3>4 DEF BackendsInv, MacInv
  <2>6. CASE mac' = mac /\ ~input.ready
    BY <1>7, <2>6 DEF BackendsInv, MacInv, RestInv
  <2> QED
    BY <1>7, <2>4, <2>5, <2>6
<1>13. RestInv'
  BY <1>7 DEF BackendsInv, RestInv
<1> QED
  BY <1>10, <1>11, <1>12, <1>13 DEF BackendsInv


LEMMA RemovedSequence ==
  ASSUME NEW s, IsSequence(s), NEW i \in DOMAIN s
  PROVE  /\ IsSequence(RemoveAt(s, i))
         /\ \A j \in DOMAIN s : j # i => \E k \in DOMAIN RemoveAt(s, i) : RemoveAt(s, i)[k] = s[j]
<1> DEFINE S == Elements(s)
           n == Len(s)
           r == RemoveAt(s, i)
           a == SubSeq(s, 1, i - 1)
           b == SubSeq(s, i + 1, n)
<1>1. s \in Seq(S) /\ n \in Nat /\ DOMAIN s = 1 .. n
  BY SequenceFacts DEF IsSequence
<1>2. r = a \o b
  BY DEF RemoveAt
<1> HIDE DEF S, r, a, b, n
<1>3. /\ a \in Seq(S) /\ Len(a) = i - 1 /\ \A j \in 1 .. i - 1 : a[j] = s[j]
      /\ b \in Seq(S) /\ Len(b) = n - i /\ \A j \in 1 .. n - i : b[j] = s[i + j]
  BY <1>1, SMTT(30) DEF a, b, n
<1>4. /\ r \in Seq(S) /\ Len(r) = (i - 1) + (n - i)
      /\ \A j \in 1 .. i - 1 : r[j] = a[j]
      /\ \A j \in 1 .. n - i : r[(i - 1) + j] = b[j]
  <2>0. IsSequence(a) /\ IsSequence(b)
    BY <1>3, SeqIsSequence
  <2>1. /\ Len(a \o b) = Len(a) + Len(b)
        /\ \A j \in 1 .. Len(a) : (a \o b)[j] = a[j]
        /\ \A j \in 1 .. Len(b) : (a \o b)[Len(a) + j] = b[j]
    BY <2>0, ConcatSequence
  <2>2. a \o b \in Seq(S)
    BY <1>3
  <2> QED
    BY <1>2, <1>3, <2>1, <2>2
<1>5. DOMAIN r = 1 .. n - 1
  BY <1>1, <1>4
<1>6. ASSUME NEW j \in 1 .. n, j # i PROVE \E k \in 1 .. n - 1 : r[k] = s[j]
  <2>1. CASE j < i
    <3>1. j \in 1 .. i - 1 /\ j \in 1 .. n - 1
      BY <1>1, <2>1
    <3> QED
      BY <1>3, <1>4, <3>1
  <2>2. CASE j > i
    <3>1. j - i \in 1 .. n - i /\ (i - 1) + (j - i) \in 1 .. n - 1 /\ i + (j - i) = j
      BY <1>1, <2>2
    <3>2. r[(i - 1) + (j - i)] = s[j]
      BY <1>3, <1>4, <3>1
    <3> QED
      BY <3>1, <3>2
  <2> QED
    BY <1>1, <1>6, <2>1, <2>2
<1>7. IsSequence(r)
  BY <1>4, SeqIsSequence
<1> QED
  BY <1>1, <1>5, <1>6, <1>7 DEF r

LEMMA TailSequence ==
  ASSUME NEW s, IsSequence(s), s # <<>>
  PROVE  /\ IsSequence(Tail(s)) /\ 1 \in DOMAIN s /\ Head(s) = s[1]
         /\ \A j \in DOMAIN s : j # 1 => \E k \in DOMAIN Tail(s) : Tail(s)[k] = s[j]
         /\ \A k \in DOMAIN Tail(s) : \E j \in DOMAIN s : Tail(s)[k] = s[j]
<1> DEFINE S == Elements(s)
           n == Len(s)
           r == Tail(s)
<1>1. s \in Seq(S)
  BY DEF IsSequence
<1> HIDE DEF S
<1>2. n \in Nat /\ n # 0 /\ DOMAIN s = 1 .. n /\ Head(s) = s[1]
  BY <1>1
<1>3. r \in Seq(S) /\ Len(r) = n - 1 /\ DOMAIN r = 1 .. n - 1 /\ \A k \in 1 .. n - 1 : r[k] = s[k + 1]
  BY <1>1, <1>2
<1>4. IsSequence(r)
  BY <1>3, SeqIsSequence
<1> HIDE DEF r, n
<1>5. \A j \in 1 .. n : j # 1 => j - 1 \in 1 .. n - 1 /\ (j - 1) + 1 = j
  BY <1>2
<1>6. \A k \in 1 .. n - 1 : k + 1 \in 1 .. n
  BY <1>2
<1>7. 1 \in 1 .. n
  BY <1>2
<1> QED
  BY <1>2, <1>3, <1>4, <1>5, <1>6, <1>7 DEF r

LEMMA ReleaseStep == ASSUME BackendsInv, NEW i \in DOMAIN keys, KeyRelease(i) PROVE BackendsInv'
<1> DEFINE u == keys[i][1]
           m == keys[i][2]
           E == Ends(system, u, m)
           F == Flag(system, u)
<1>1. keys' = RemoveAt(keys, i) /\ UNCHANGED <<system, buttons, queue>> /\ InjectKey(u, m, FALSE)
  BY DEF KeyRelease
<1>2. IsSequence(keys') /\ \A j \in DOMAIN keys : j # i => \E k \in DOMAIN keys' : keys'[k] = keys[j]
  BY <1>1, RemovedSequence DEF BackendsInv, Shapes
<1>3. Owed \subseteq Owed' \cup E
  <2> SUFFICES ASSUME NEW x \in Owed, x \notin E PROVE x \in Owed'
    OBVIOUS
  <2>1. CASE \E j \in DOMAIN keys : x \in Ends(system, keys[j][1], keys[j][2])
    <3>1. PICK j \in DOMAIN keys : x \in Ends(system, keys[j][1], keys[j][2])
      BY <2>1
    <3>2. j # i
      BY <3>1
    <3>3. PICK k \in DOMAIN keys' : keys'[k] = keys[j]
      BY <1>2, <3>2
    <3>4. x \in Ends(system, keys'[k][1], keys'[k][2])
      BY <3>1, <3>3
    <3> QED
      BY <1>1, <3>4, IsOwed
  <2>2. CASE ~ \E j \in DOMAIN keys : x \in Ends(system, keys[j][1], keys[j][2])
    BY <1>1, <2>2, IsOwed
  <2> QED
    BY <2>1, <2>2
<1>4. OwedFlags \subseteq OwedFlags' \cup F
  <2> SUFFICES ASSUME NEW x \in OwedFlags, x \notin F PROVE x \in OwedFlags'
    OBVIOUS
  <2>1. CASE \E j \in DOMAIN keys : x \in Flag(system, keys[j][1])
    <3>1. PICK j \in DOMAIN keys : x \in Flag(system, keys[j][1])
      BY <2>1
    <3>2. j # i
      BY <3>1
    <3>3. PICK k \in DOMAIN keys' : keys'[k] = keys[j]
      BY <1>2, <3>2
    <3>4. x \in Flag(system, keys'[k][1])
      BY <3>1, <3>3
    <3> QED
      BY <1>1, <3>4, IsOwedFlag
  <2>2. CASE ~ \E j \in DOMAIN keys : x \in Flag(system, keys[j][1])
    BY <1>1, <2>2, IsOwedFlag
  <2> QED
    BY <2>1, <2>2
<1>5. OwedButtons' = OwedButtons
  BY <1>1 DEF OwedButtons
<1>6. QueueOk' /\ buttons' \subseteq Buttons
  BY <1>1 DEF BackendsInv, Shapes, QueueOk
<1> HIDE DEF u, m
<1> QED
  BY <1>1, <1>2, <1>3, <1>4, <1>5, <1>6, ReleaseCall

LEMMA ButtonStep ==
  ASSUME BackendsInv, NEW b \in UsedButtons, NEW p \in BOOLEAN, MouseButton(b, p) PROVE BackendsInv'
<1>1. /\ buttons' = (IF p THEN buttons \cup {b} ELSE buttons \ {b})
      /\ UNCHANGED <<system, keys, queue>> /\ InjectButton(b, p)
  BY DEF MouseButton
<1>2. b \in Buttons
  BY BackendsAssumption
<1>3. IsSequence(keys') /\ QueueOk' /\ buttons' \subseteq Buttons
  BY <1>1, <1>2 DEF BackendsInv, Shapes, QueueOk
<1>4. Owed \cup ButtonEnds(system, b) \subseteq Owed' \cup (IF p THEN {} ELSE ButtonEnds(system, b))
  <2> SUFFICES ASSUME NEW x \in Owed \cup ButtonEnds(system, b), p \/ x \notin ButtonEnds(system, b) PROVE x \in Owed'
    OBVIOUS
  <2>1. CASE \E c \in buttons : x \in ButtonEnds(system, c)
    <3>1. PICK c \in buttons : x \in ButtonEnds(system, c)
      BY <2>1
    <3>2. c \in buttons'
      BY <1>1, <3>1
    <3> QED
      BY <1>1, <3>1, <3>2, IsOwed
  <2>2. CASE p /\ x \in ButtonEnds(system, b)
    BY <1>1, <2>2, IsOwed
  <2>3. CASE x \in Owed /\ ~ \E c \in buttons : x \in ButtonEnds(system, c)
    BY <1>1, <2>3, IsOwed
  <2> QED
    BY <2>1, <2>2, <2>3
<1>5. OwedButtons \cup {b} \subseteq OwedButtons' \cup (IF p THEN {} ELSE {b})
  BY <1>1, IsOwedButton
<1>6. OwedFlags' = OwedFlags
  BY <1>1 DEF OwedFlags
<1> QED
  BY <1>1, <1>2, <1>3, <1>4, <1>5, <1>6, ButtonCall

LEMMA ReleasedStep == ASSUME BackendsInv, Released PROVE BackendsInv'
<1> DEFINE q == queue[1]
<1>1. /\ queue # <<>> /\ queue' = Tail(queue) /\ UNCHANGED <<system, keys, buttons>>
      /\ IF Head(queue)[1] = "button" THEN InjectButton(Head(queue)[2], FALSE)
         ELSE InjectKey(Head(queue)[2], Head(queue)[3], FALSE)
  BY DEF Released
<1>2. /\ IsSequence(queue') /\ 1 \in DOMAIN queue /\ Head(queue) = q
      /\ \A j \in DOMAIN queue : j # 1 => \E k \in DOMAIN queue' : queue'[k] = queue[j]
      /\ \A k \in DOMAIN queue' : \E j \in DOMAIN queue : queue'[k] = queue[j]
  BY <1>1, TailSequence DEF BackendsInv, Shapes, QueueOk
<1>3. IsSequence(keys') /\ QueueOk' /\ buttons' \subseteq Buttons
  BY <1>1, <1>2 DEF BackendsInv, Shapes, QueueOk
<1>4. \A j \in DOMAIN queue : queue[j] = q \/ \E k \in DOMAIN queue' : queue'[k] = queue[j]
  BY <1>2
<1> HIDE DEF q
<1>5. Owed \subseteq Owed' \cup QueueEnds(system, q)
  <2> SUFFICES ASSUME NEW x \in Owed, x \notin QueueEnds(system, q) PROVE x \in Owed'
    OBVIOUS
  <2>1. CASE \E j \in DOMAIN queue : x \in QueueEnds(system, queue[j])
    <3>1. PICK j \in DOMAIN queue : x \in QueueEnds(system, queue[j])
      BY <2>1
    <3>2. PICK k \in DOMAIN queue' : queue'[k] = queue[j]
      BY <1>4, <3>1
    <3>3. x \in QueueEnds(system, queue'[k])
      BY <3>1, <3>2
    <3> QED
      BY <1>1, <3>3, IsOwed
  <2>2. CASE ~ \E j \in DOMAIN queue : x \in QueueEnds(system, queue[j])
    BY <1>1, <2>2, IsOwed
  <2> QED
    BY <2>1, <2>2
<1>6. OwedButtons \subseteq OwedButtons' \cup QueueButtons(q)
  <2> SUFFICES ASSUME NEW x \in OwedButtons, x \notin QueueButtons(q) PROVE x \in OwedButtons'
    OBVIOUS
  <2>1. CASE \E j \in DOMAIN queue : x \in QueueButtons(queue[j])
    <3>1. PICK j \in DOMAIN queue : x \in QueueButtons(queue[j])
      BY <2>1
    <3>2. PICK k \in DOMAIN queue' : queue'[k] = queue[j]
      BY <1>4, <3>1
    <3>3. x \in QueueButtons(queue'[k])
      BY <3>1, <3>2
    <3> QED
      BY <1>1, <3>3, IsOwedButton
  <2>2. CASE ~ \E j \in DOMAIN queue : x \in QueueButtons(queue[j])
    BY <1>1, <2>2, IsOwedButton
  <2> QED
    BY <2>1, <2>2
<1>7. OwedFlags \subseteq OwedFlags' \cup QueueFlags(system, q)
  <2> SUFFICES ASSUME NEW x \in OwedFlags, x \notin QueueFlags(system, q) PROVE x \in OwedFlags'
    OBVIOUS
  <2>1. CASE \E j \in DOMAIN queue : x \in QueueFlags(system, queue[j])
    <3>1. PICK j \in DOMAIN queue : x \in QueueFlags(system, queue[j])
      BY <2>1
    <3>2. PICK k \in DOMAIN queue' : queue'[k] = queue[j]
      BY <1>4, <3>1
    <3>3. x \in QueueFlags(system, queue'[k])
      BY <3>1, <3>2
    <3> QED
      BY <1>1, <3>3, IsOwedFlag
  <2>2. CASE ~ \E j \in DOMAIN queue : x \in QueueFlags(system, queue[j])
    BY <1>1, <2>2, IsOwedFlag
  <2> QED
    BY <2>1, <2>2
<1>8. CASE q[1] = "button"
  <2>1. /\ QueueEnds(system, q) = ButtonEnds(system, q[2]) /\ QueueButtons(q) = {q[2]} /\ QueueFlags(system, q) = {}
    BY <1>8 DEF QueueEnds, QueueButtons, QueueFlags
  <2>2. q[2] \in Buttons
    BY <1>2, <1>8 DEF BackendsInv, Shapes, QueueOk, q
  <2>3. InjectButton(q[2], FALSE)
    BY <1>1, <1>2, <1>8
  <2> QED
    BY <1>1, <1>2, <1>3, <1>5, <1>6, <1>7, <2>1, <2>2, <2>3, ButtonCall
<1>9. CASE q[1] # "button"
  <2>1. /\ QueueEnds(system, q) = Ends(system, q[2], q[3]) /\ QueueButtons(q) = {}
        /\ QueueFlags(system, q) = Flag(system, q[2])
    BY <1>9 DEF QueueEnds, QueueButtons, QueueFlags
  <2>2. InjectKey(q[2], q[3], FALSE)
    BY <1>1, <1>2, <1>9
  <2> QED
    BY <1>1, <1>2, <1>3, <1>5, <1>6, <1>7, <2>1, <2>2, ReleaseCall
<1> QED
  BY <1>8, <1>9

LEMMA ConcatElements ==
  ASSUME NEW s, NEW t, IsSequence(s), IsSequence(t)
  PROVE  IsSequence(s \o t) /\ Elements(s \o t) = Elements(s) \cup Elements(t)
<1> DEFINE m == Len(s)
           n == Len(t)
           r == s \o t
<1>1. m \in Nat /\ n \in Nat /\ DOMAIN s = 1 .. m /\ DOMAIN t = 1 .. n
  BY SequenceFacts
<1>2. /\ IsSequence(r) /\ Len(r) = m + n
      /\ (\A i \in 1 .. m : r[i] = s[i]) /\ \A i \in 1 .. n : r[m + i] = t[i]
  BY ConcatSequence
<1>3. DOMAIN r = 1 .. m + n
  BY <1>2, SequenceFacts
<1> HIDE DEF m, n, r
<1>4. /\ \A i \in 1 .. m : i \in 1 .. m + n
      /\ \A i \in 1 .. n : m + i \in 1 .. m + n
      /\ \A k \in 1 .. m + n : k \in 1 .. m \/ (k - m \in 1 .. n /\ m + (k - m) = k)
  BY <1>1
<1>5. \A k \in 1 .. m + n : r[k] \in Elements(s) \cup Elements(t)
  BY <1>1, <1>2, <1>4 DEF Elements
<1>6. (\A i \in 1 .. m : s[i] \in Elements(r)) /\ \A i \in 1 .. n : t[i] \in Elements(r)
  <2> USE DEF Elements
  <2>1. \A i \in 1 .. m : s[i] \in Elements(r)
    <3> TAKE i \in 1 .. m
    <3> QED
      BY <1>2, <1>3, <1>4, Zenon
  <2>2. \A i \in 1 .. n : t[i] \in Elements(r)
    <3> TAKE i \in 1 .. n
    <3>1. m + i \in DOMAIN r /\ r[m + i] = t[i]
      BY <1>2, <1>3, <1>4
    <3> QED
      BY <3>1, Zenon
  <2> QED
    BY <2>1, <2>2
<1>7. Elements(r) \subseteq Elements(s) \cup Elements(t)
  BY <1>3, <1>5 DEF Elements
<1>8. Elements(s) \subseteq Elements(r) /\ Elements(t) \subseteq Elements(r)
  BY <1>1, <1>6 DEF Elements
<1>9. Elements(r) = Elements(s) \cup Elements(t)
  BY <1>7, <1>8
<1> QED
  BY <1>2, <1>9 DEF r

\* The phone is gone: what it held is queued, and owed as before.
LEMMA VanishStep == ASSUME BackendsInv, Vanish PROVE BackendsInv'
<1> DEFINE K == [i \in DOMAIN keys |-> <<"key", Reverse(keys)[i][1], Reverse(keys)[i][2]>>]
           Of(b) == IF b \in buttons THEN {<<"button", b, {}>>} ELSE {}
<1>1. /\ queue = <<>> /\ keys' = <<>> /\ buttons' = {}
      /\ queue' = K \o (ButtonRelease(272) \o (ButtonRelease(273) \o ButtonRelease(274)))
      /\ UNCHANGED <<system, input, mac, down, lost, faults>>
  BY DEF Vanish, pcvars
<1>2. /\ IsSequence(keys) /\ IsSequence(Reverse(keys)) /\ Elements(Reverse(keys)) = Elements(keys)
      /\ DOMAIN keys = 1 .. Len(keys) /\ DOMAIN Reverse(keys) = DOMAIN keys /\ Len(keys) \in Nat
  BY ReverseElements, ReverseSequence, SequenceFacts DEF BackendsInv, Shapes
<1>3. IsSequence(K)
  <2>1. K = [i \in 1 .. Len(keys) |-> K[i]]
    BY <1>2
  <2> HIDE DEF K
  <2> QED
    BY <1>2, <2>1, FunctionIsSequence
<1>4. /\ \A i \in DOMAIN keys : <<"key", keys[i][1], keys[i][2]>> \in Elements(K)
      /\ \A q \in Elements(K) : q[1] = "key"
  <2>1. \A i \in DOMAIN keys : \E j \in DOMAIN keys : Reverse(keys)[j] = keys[i]
    BY <1>2 DEF Elements
  <2>2. DOMAIN K = DOMAIN keys /\ \A j \in DOMAIN keys : K[j] = <<"key", Reverse(keys)[j][1], Reverse(keys)[j][2]>>
    OBVIOUS
  <2> HIDE DEF K
  <2>3. ASSUME NEW i \in DOMAIN keys PROVE <<"key", keys[i][1], keys[i][2]>> \in Elements(K)
    <3>1. PICK j \in DOMAIN keys : Reverse(keys)[j] = keys[i]
      BY <2>1
    <3>2. K[j] = <<"key", keys[i][1], keys[i][2]>>
      BY <2>2, <3>1, Zenon
    <3> QED
      BY <2>2, <3>2 DEF Elements
  <2>4. ASSUME NEW q \in Elements(K) PROVE q[1] = "key"
    <3>1. PICK j \in DOMAIN K : q = K[j]
      BY DEF Elements
    <3>2. q = <<"key", Reverse(keys)[j][1], Reverse(keys)[j][2]>>
      BY <2>2, <3>1
    <3> QED
      BY <3>2
  <2> QED
    BY <2>3, <2>4
<1>5. ASSUME NEW b PROVE IsSequence(ButtonRelease(b)) /\ Elements(ButtonRelease(b)) = Of(b)
  <2> DEFINE x == <<"button", b, {}>>
  <2>1. \A y : IsSequence(<<y>>) /\ Elements(<<y>>) = {y}
    <3> TAKE y
    <3>1. <<y>> \in Seq({y}) /\ DOMAIN <<y>> = {1} /\ <<y>>[1] = y
      OBVIOUS
    <3>2. Elements(<<y>>) = {y}
      BY <3>1 DEF Elements
    <3> QED
      BY <3>1, <3>2 DEF IsSequence
  <2>2. IsSequence(<<>>) /\ Elements(<<>>) = {}
    <3>1. Elements(<<>>) = {}
      BY DEF Elements
    <3> QED
      BY <3>1 DEF IsSequence
  <2> HIDE DEF x
  <2>3. ButtonRelease(b) = IF b \in buttons THEN <<x>> ELSE <<>>
    BY DEF ButtonRelease, x
  <2>4. Of(b) = IF b \in buttons THEN {x} ELSE {}
    BY DEF x
  <2> HIDE DEF Of
  <2> QED
    BY <2>1, <2>2, <2>3, <2>4
<1>6. IsSequence(queue') /\ Elements(queue') = Elements(K) \cup (Of(272) \cup (Of(273) \cup Of(274)))
  <2> DEFINE r2 == ButtonRelease(272)
             r3 == ButtonRelease(273)
             r4 == ButtonRelease(274)
  <2>1. /\ IsSequence(r2) /\ Elements(r2) = Of(272) /\ IsSequence(r3) /\ Elements(r3) = Of(273)
        /\ IsSequence(r4) /\ Elements(r4) = Of(274)
    BY <1>5
  <2> HIDE DEF K, Of, r2, r3, r4
  <2>2. IsSequence(r3 \o r4) /\ Elements(r3 \o r4) = Of(273) \cup Of(274)
    BY <2>1, ConcatElements
  <2> DEFINE t == r3 \o r4
  <2> HIDE DEF t
  <2>3. IsSequence(r2 \o t) /\ Elements(r2 \o t) = Of(272) \cup (Of(273) \cup Of(274))
    <3>1. IsSequence(t) /\ Elements(t) = Of(273) \cup Of(274)
      BY <2>2 DEF t
    <3> QED
      BY <2>1, <3>1, ConcatElements
  <2>4. queue' = K \o (r2 \o t)
    BY <1>1 DEF r2, r3, r4, t
  <2> DEFINE r == r2 \o t
  <2> HIDE DEF r
  <2>5. IsSequence(K \o r) /\ Elements(K \o r) = Elements(K) \cup Elements(r)
    BY <1>3, <2>3, ConcatElements DEF r
  <2> QED
    BY <2>3, <2>4, <2>5 DEF r
<1> HIDE DEF K
<1>7. buttons \subseteq Buttons /\ \A b \in Buttons : b = 272 \/ b = 273 \/ b = 274
  BY DEF BackendsInv, Shapes, Buttons
<1>8. \A b \in buttons : <<"button", b, {}>> \in Elements(queue')
  BY <1>6, <1>7
<1>9. \A i \in DOMAIN keys : <<"key", keys[i][1], keys[i][2]>> \in Elements(queue')
  BY <1>4, <1>6
<1>10. \A q \in Elements(queue') : q[1] = "button" => q[2] \in Buttons
  <2> SUFFICES ASSUME NEW q \in Elements(queue'), q[1] = "button" PROVE q[2] \in Buttons
    OBVIOUS
  <2>1. q \notin Elements(K)
    BY <1>4
  <2>2. \E b \in buttons : q = <<"button", b, {}>>
    BY <1>6, <2>1
  <2> QED
    BY <1>7, <2>2
<1> HIDE DEF Of
<1>11. QueueOk'
  BY <1>6, <1>10 DEF QueueOk, Elements
<1>12. /\ Owed \subseteq Owed' /\ OwedButtons \subseteq OwedButtons' /\ OwedFlags \subseteq OwedFlags'
  <2>1. \A b \in buttons : \E k \in DOMAIN queue' : queue'[k] = <<"button", b, {}>>
    BY <1>8 DEF Elements
  <2>2. \A i \in DOMAIN keys : \E k \in DOMAIN queue' : queue'[k] = <<"key", keys[i][1], keys[i][2]>>
    BY <1>9 DEF Elements
  <2>3. \A b : /\ QueueEnds(system, <<"button", b, {}>>) = ButtonEnds(system, b)
               /\ QueueButtons(<<"button", b, {}>>) = {b}
    BY DEF QueueEnds, QueueButtons
  <2>4. \A u, m : QueueEnds(system, <<"key", u, m>>) = Ends(system, u, m) /\ QueueFlags(system, <<"key", u, m>>) = Flag(system, u)
    BY DEF QueueEnds, QueueFlags
  <2>5. DOMAIN queue = {}
    BY <1>1
  <2>6. ASSUME NEW x \in Owed PROVE x \in Owed'
    <3>1. CASE \E i \in DOMAIN keys : x \in Ends(system, keys[i][1], keys[i][2])
      <4>1. PICK i \in DOMAIN keys : x \in Ends(system, keys[i][1], keys[i][2])
        BY <3>1
      <4>2. PICK k \in DOMAIN queue' : queue'[k] = <<"key", keys[i][1], keys[i][2]>>
        BY <2>2
      <4>3. x \in QueueEnds(system, queue'[k])
        BY <2>4, <4>1, <4>2
      <4> QED
        BY <1>1, <4>3, IsOwed, SMTT(30)
    <3>2. CASE \E b \in buttons : x \in ButtonEnds(system, b)
      <4>1. PICK b \in buttons : x \in ButtonEnds(system, b)
        BY <3>2
      <4>2. PICK k \in DOMAIN queue' : queue'[k] = <<"button", b, {}>>
        BY <2>1
      <4>3. x \in QueueEnds(system, queue'[k])
        BY <2>3, <4>1, <4>2
      <4> QED
        BY <1>1, <4>3, IsOwed, SMTT(30)
    <3> QED
      BY <2>5, <3>1, <3>2, IsOwed
  <2>7. ASSUME NEW x \in OwedButtons PROVE x \in OwedButtons'
    <3>1. x \in buttons
      BY <2>5, IsOwedButton
    <3>2. PICK k \in DOMAIN queue' : queue'[k] = <<"button", x, {}>>
      BY <2>1, <3>1
    <3>3. x \in QueueButtons(queue'[k])
      BY <2>3, <3>2
    <3> QED
      BY <3>3, IsOwedButton
  <2>8. ASSUME NEW x \in OwedFlags PROVE x \in OwedFlags'
    <3>1. PICK i \in DOMAIN keys : x \in Flag(system, keys[i][1])
      BY <2>5, IsOwedFlag
    <3>2. PICK k \in DOMAIN queue' : queue'[k] = <<"key", keys[i][1], keys[i][2]>>
      BY <2>2
    <3>3. x \in QueueFlags(system, queue'[k])
      BY <2>4, <3>1, <3>2
    <3> QED
      BY <1>1, <3>3, IsOwedFlag, SMTT(30)
  <2> QED
    BY <2>6, <2>7, <2>8
<1>13. IsSequence(keys')
  BY <1>1 DEF IsSequence, Elements
<1>14. Shapes'
  BY <1>1, <1>11, <1>13 DEF BackendsInv, Shapes
<1>15. DownInv' /\ RestInv'
  BY <1>1, <1>12 DEF BackendsInv, DownInv, RestInv, OnLinux
<1>16. MacInv'
  BY <1>1, <1>12 DEF BackendsInv, MacInv
<1> QED
  BY <1>14, <1>15, <1>16 DEF BackendsInv

\* What is not of the phone leaves everything down as it is.
LEMMA AroundStep ==
  ASSUME BackendsInv, UNCHANGED <<system, keys, buttons, queue, mac, down, lost, faults>>,
         DOMAIN input' = DOMAIN input, ~input'.ready => ~input.ready
  PROVE  BackendsInv'
<1>1. Owed' = Owed /\ OwedButtons' = OwedButtons /\ OwedFlags' = OwedFlags
  BY DEF Owed, OwedButtons, OwedFlags
<1>2. Shapes'
  BY DEF BackendsInv, Shapes, QueueOk
<1>3. DownInv' /\ RestInv'
  BY <1>1 DEF BackendsInv, DownInv, RestInv, OnLinux
<1>4. MacInv'
  BY <1>1 DEF BackendsInv, MacInv
<1> QED
  BY <1>2, <1>3, <1>4 DEF BackendsInv

LEMMA BackendsInitInv == ASSUME BackendsInit PROVE BackendsInv
<1>1. IsSequence(<<>>) /\ DOMAIN <<>> = {}
  BY DEF IsSequence, Elements
<1>2. DOMAIN input = {"ready", "allowed", "since"}
  BY DEF BackendsInit
<1>3. DOMAIN mac = {"held", "buttons"} /\ mac.held = {} /\ mac.buttons = {}
  BY DEF BackendsInit
<1>4. Shapes
  BY <1>1, <1>2, <1>3 DEF BackendsInit, Shapes, QueueOk
<1>5. DownInv /\ RestInv /\ MacInv
  BY <1>3 DEF BackendsInit, DownInv, RestInv, MacInv, OnLinux
<1> QED
  BY <1>4, <1>5 DEF BackendsInv

LEMMA BackendsNextInv == ASSUME BackendsInv, [BackendsNext]_backends_vars PROVE BackendsInv'
<1>1. ASSUME NEW u \in Usages, NEW m \in KeyMods, KeyPress(u, m) PROVE BackendsInv'
  BY <1>1, PressStep
<1>2. ASSUME NEW i \in DOMAIN keys, KeyRelease(i) PROVE BackendsInv'
  BY <1>2, ReleaseStep
<1>3. ASSUME NEW b \in UsedButtons, NEW p \in BOOLEAN, MouseButton(b, p) PROVE BackendsInv'
  BY <1>3, ButtonStep
<1>4. ASSUME NEW t \in RestTexts \cup HeldTexts, TextInput(t) PROVE BackendsInv'
  <2>1. Clear(Text[system][t], Buttonless)
    BY ClearText DEF BackendsInv, Shapes
  <2>2. Inject(Text[system][t], mac, t) /\ UNCHANGED <<system, keys, buttons, queue>>
    BY <1>4 DEF TextInput
  <2> QED
    BY <2>1, <2>2, ClearCall
<1>5. ASSUME NEW c \in Commands, Command(c) PROVE BackendsInv'
  <2>1. Clear(CommandEvents(c), Buttonless)
    BY ClearCommand
  <2>2. Inject(CommandEvents(c), mac, <<>>) /\ UNCHANGED <<system, keys, buttons, queue>>
    BY <1>5 DEF Command
  <2> QED
    BY <2>1, <2>2, ClearCall
<1>6. CASE MouseMove
  <2>1. Inject(<<key_event(-1, FALSE)>>, mac, <<>>) /\ UNCHANGED <<system, keys, buttons, queue>>
    BY <1>6 DEF MouseMove
  <2> QED
    BY <2>1, MovesClear, ClearCall, Zenon
<1>7. CASE Released
  BY <1>7, ReleasedStep
<1>8. CASE Vanish
  BY <1>8, VanishStep
<1>9. CASE Tick
  <2>1. DOMAIN input' = DOMAIN input /\ input'.ready = input.ready
    BY <1>9 DEF Tick, BackendsInv, Shapes
  <2> QED
    BY <1>9, <2>1, AroundStep DEF Tick, pcvars
<1>10. CASE Allow
  <2>1. DOMAIN input' = DOMAIN input /\ input'.ready = input.ready
    BY <1>10 DEF Allow, BackendsInv, Shapes
  <2> QED
    BY <1>10, <2>1, AroundStep DEF Allow, pcvars
<1>11. CASE DesktopChanges
  BY <1>11, AroundStep DEF DesktopChanges, pcvars
<1>12. CASE UNCHANGED backends_vars
  BY <1>12, AroundStep DEF backends_vars
<1> QED
  BY <1>1, <1>2, <1>3, <1>4, <1>5, <1>6, <1>7, <1>8, <1>9, <1>10, <1>11, <1>12 DEF BackendsNext, Message

\* A phone that has let go of everything leaves nothing down on any of the three systems: at every step,
\* what is down is what the phone, or the queue of releases made for it, will release, or what the system
\* did not take the release of; and so it is with what the macOS backend notes of its own keys and buttons.
THEOREM AllComesUp == BackendsSpec => []NothingStaysDown
<1>1. ASSUME BackendsInv PROVE NothingStaysDown
  <2> SUFFICES ASSUME ~Held, queue = <<>>
               PROVE  /\ down \subseteq lost
                      /\ system.os = "macOS" => mac.buttons \subseteq lost /\ (faults = 0 => mac.held = {})
    BY DEF NothingStaysDown
  <2>1. DOMAIN keys = {} /\ DOMAIN queue = {} /\ buttons = {}
    BY DEF Held
  <2>2. Owed = {}
    BY <2>1, IsOwed
  <2>3. OwedButtons = {}
    BY <2>1, IsOwedButton
  <2>4. OwedFlags = {}
    BY <2>1, IsOwedFlag
  <2> QED
    BY <1>1, <2>2, <2>3, <2>4 DEF BackendsInv, DownInv, MacInv
<1> QED
  BY <1>1, BackendsInitInv, BackendsNextInv, PTL DEF BackendsSpec

-----------------------------------------------------------------------------
(* A text, from here on: its events type its characters, on each of the    *)
(* three systems, and TextArrives follows.  What Linux prints depends on   *)
(* the US layout (UsKeys, Evdev), the tables the provers are shown once.   *)

\* The Linux key of a character on the US layout, and the modifiers there: Control and Shift, left and right.
KeyOf(c) == hid_to_evdev[us_keys[c]]
Mods == {29, 97, 42, 54}

\* The US layout: which characters have keys, and that a key prints one character with Shift and one without.
LEMMA UsKeys ==
  /\ DOMAIN us_keys = {8, 9, 10, 13} \cup (32 .. 126)
  /\ us_keys[8] = 42 /\ us_keys[9] = 43 /\ us_keys[10] = 40 /\ us_keys[13] = 40
  /\ \A c \in 32 .. 126 : us_keys[c] \in (4 .. 56) \ {40, 41, 42, 43, 50}
  /\ \A c, d \in 32 .. 126 : us_keys[c] = us_keys[d] /\ (c \in Shifted <=> d \in Shifted) => c = d
<1> DEFINE a == <<44,30,52,32,33,34,36,52,38,39,37,46,54,45,55,56, 39,30,31,32,33,34,35,36,37,38,
              51,51,54,46,55,56,31, 4,5,6,7,8,9,10,11,12,13,14,15,16,17,18,19,20,21,22,23,24,25,26,27,28,29,
              47,49,48,35,45,53, 4,5,6,7,8,9,10,11,12,13,14,15,16,17,18,19,20,21,22,23,24,25,26,27,28,29,
              47,49,48,53>>
           b == <<42, 43, 40>>
           c == <<40>>
<1>1. us_keys = Joined(Laid(32, a), Joined(Laid(8, b), Laid(13, c)))
  BY DEF us_keys
<1>2. Len(a) = 95 /\ Len(b) = 3 /\ Len(c) = 1
  OBVIOUS
<1>3. \A i \in 1 .. 95 : a[i] \in (4 .. 56) \ {40, 41, 42, 43, 50}
  OBVIOUS
<1>4. \A i, j \in 1 .. 95 : a[i] = a[j] /\ (i + 31 \in Shifted <=> j + 31 \in Shifted) => i = j
  BY DEF Shifted
<1>5. b[1] = 42 /\ b[2] = 43 /\ b[3] = 40 /\ c[1] = 40
  OBVIOUS
<1> HIDE DEF a, b, c
<1>6. DOMAIN Laid(32, a) = 32 .. 126 /\ \A x \in 32 .. 126 : Laid(32, a)[x] = a[x - 31]
  BY <1>2 DEF Laid
<1>7. DOMAIN Laid(8, b) = 8 .. 10 /\ \A x \in 8 .. 10 : Laid(8, b)[x] = b[x - 7]
  BY <1>2 DEF Laid
<1>8. DOMAIN Laid(13, c) = {13} /\ Laid(13, c)[13] = c[1]
  BY <1>2 DEF Laid
<1>9. DOMAIN us_keys = {8, 9, 10, 13} \cup (32 .. 126)
  BY <1>1, <1>6, <1>7, <1>8 DEF Joined
<1>10. us_keys[8] = 42 /\ us_keys[9] = 43 /\ us_keys[10] = 40 /\ us_keys[13] = 40
  BY <1>1, <1>5, <1>6, <1>7, <1>8 DEF Joined
<1>11. \A x \in 32 .. 126 : us_keys[x] = a[x - 31] /\ x - 31 \in 1 .. 95 /\ (x - 31) + 31 = x
  BY <1>1, <1>6 DEF Joined
<1>12. \A x \in 32 .. 126 : us_keys[x] \in (4 .. 56) \ {40, 41, 42, 43, 50}
  <2> SUFFICES ASSUME NEW x \in 32 .. 126 PROVE us_keys[x] \in (4 .. 56) \ {40, 41, 42, 43, 50}
    OBVIOUS
  <2> DEFINE i == x - 31
  <2>1. us_keys[x] = a[i] /\ i \in 1 .. 95
    BY <1>11
  <2> HIDE DEF i
  <2> QED
    BY <1>3, <2>1
<1>13. ASSUME NEW x \in 32 .. 126, NEW y \in 32 .. 126, us_keys[x] = us_keys[y], x \in Shifted <=> y \in Shifted
       PROVE  x = y
  <2> DEFINE i == x - 31
             j == y - 31
  <2>1. us_keys[x] = a[i] /\ i \in 1 .. 95 /\ i + 31 = x /\ us_keys[y] = a[j] /\ j \in 1 .. 95 /\ j + 31 = y
    BY <1>11
  <2>2. a[i] = a[j] /\ (i + 31 \in Shifted <=> j + 31 \in Shifted)
    BY <1>13, <2>1
  <2> HIDE DEF i, j
  <2>3. i = j
    BY <1>4, <2>1, <2>2
  <2> QED
    BY <2>1, <2>3
<1> QED
  BY <1>9, <1>10, <1>12, <1>13

\* The keys of the HID usages that print are different, are none of the modifiers, and Linux has them.
LEMMA Evdev ==
  /\ \A u \in 4 .. 101 : u \in DOMAIN hid_to_evdev
  /\ \A u \in (4 .. 56) \ {50} : hid_to_evdev[u] \in (1 .. 57) \ Mods
  /\ \A u, v \in (4 .. 56) \ {50} : hid_to_evdev[u] = hid_to_evdev[v] => u = v
  /\ hid_to_evdev[44] = 57 /\ hid_to_evdev[24] = 22
  /\ \A u \in 4 .. 101 : hid_to_evdev[u] \in all_supported_keys
<1> DEFINE a == <<30,48,46,32,18,33,34,35,23,36,37,38,50,49,24,25,16,19,31,20,22,47,17,45,21,44,
              2,3,4,5,6,7,8,9,10,11, 28,1,14,15,57,12,13,26,27,43,43,39,40,41,51,52,53,58,
              59,60,61,62,63,64,65,66,67,68,87,88, 99,70,119,110,102,104,111,107,109,106,105,108,103,
              69,98,55,74,78,96, 79,80,81,75,76,77,71,72,73,82, 83,86,127>>
           f == Joined(Laid(104, Span(183, 194)), Laid(224, <<29,42,56,125,97,54,100,126>>))
<1>1. hid_to_evdev = Joined(Laid(4, a), f)
  BY DEF hid_to_evdev
<1>2. Len(a) = 98
  OBVIOUS
<1>3. \A i \in 1 .. 53 : i # 47 => a[i] \in (1 .. 57) \ {29, 97, 42, 54}
  OBVIOUS
<1>4. \A i, j \in 1 .. 53 : i # 47 /\ j # 47 /\ a[i] = a[j] => i = j
  OBVIOUS
<1>5. a[41] = 57 /\ a[21] = 22
  OBVIOUS
<1> HIDE DEF a, f
<1>6. DOMAIN Laid(4, a) = 4 .. 101 /\ \A x \in 4 .. 101 : Laid(4, a)[x] = a[x - 3]
  BY <1>2 DEF Laid
<1>7. \A u \in 4 .. 101 : u \in DOMAIN hid_to_evdev /\ hid_to_evdev[u] = a[u - 3]
  BY <1>1, <1>6 DEF Joined
<1>8. \A u \in (4 .. 56) \ {50} : u \in 4 .. 101 /\ u - 3 \in 1 .. 53 /\ u - 3 # 47
  OBVIOUS
<1>9. \A u \in (4 .. 56) \ {50} : hid_to_evdev[u] \in (1 .. 57) \ Mods
  BY <1>3, <1>7, <1>8 DEF Mods
<1>10. \A u, v \in (4 .. 56) \ {50} : hid_to_evdev[u] = hid_to_evdev[v] => u = v
  BY <1>4, <1>7, <1>8
<1>11. hid_to_evdev[44] = 57 /\ hid_to_evdev[24] = 22
  BY <1>5, <1>7
<1>12. \A u \in 4 .. 101 : hid_to_evdev[u] \in all_supported_keys
  BY <1>7 DEF all_supported_keys, SupportedBelow
<1> QED
  BY <1>7, <1>9, <1>10, <1>11, <1>12

-----------------------------------------------------------------------------
(* What events do to the text at the system: they are felt one by one, and *)
(* messages in a row add up.                                               *)

\* What is felt of some events in a row, whatever the state before them.
Fed(p, events, q) ==
    \E f : f[0] = p /\ f[Len(events)] = q /\ \A i \in 1 .. Len(events) : f[i] = Feels(f[i - 1], events[i])

\* What a system takes of a message is what it feels event by event.
LEMMA FedTaken ==
  ASSUME NEW events, Len(events) \in Nat, NEW q, Fed([down |-> down, text |-> <<>>, hex |-> NotEntering], events, q)
  PROVE  Taken(events) = q
<1> DEFINE n == Len(events)
           start == [down |-> down, text |-> <<>>, hex |-> NotEntering]
           J == CHOOSE pc : Feeling(events, pc, n)
<1>1. Taken(events) = J[n]
  BY DEF Taken, Feeling
<1>2. Feeling(events, J, n)
  BY FeelingExists
<1> HIDE DEF J
<1>3. J[0] = start /\ \A i \in 1 .. n : J[i] = Feels(J[i - 1], events[i])
  BY <1>2 DEF Feeling
<1>4. PICK f : f[0] = start /\ f[n] = q /\ \A i \in 1 .. n : f[i] = Feels(f[i - 1], events[i])
  BY DEF Fed
<1> HIDE DEF n, start
<1> DEFINE K == {i \in Nat : i =< n => J[i] = f[i]}
<1>5. 0 \in K
  BY <1>3, <1>4
<1>6. ASSUME NEW i \in K PROVE i + 1 \in K
  <2> SUFFICES ASSUME i + 1 =< n PROVE J[i + 1] = f[i + 1]
    OBVIOUS
  <2>1. n \in Nat /\ i \in Nat /\ i + 1 \in 1 .. n /\ (i + 1) - 1 = i
    BY DEF n
  <2>2. J[i] = f[i]
    BY <2>1
  <2> HIDE DEF K
  <2> QED
    BY <1>3, <1>4, <2>1, <2>2
<1>7. K = Nat
  <2>1. K \in SUBSET Nat
    OBVIOUS
  <2> HIDE DEF K
  <2> QED
    BY <1>5, <1>6, <2>1, NatSetInduction
<1>8. n \in K
  BY <1>7 DEF n
<1>9. n \in Nat
  BY DEF n
<1> QED
  BY <1>1, <1>4, <1>8, <1>9

LEMMA FedNone == ASSUME NEW p PROVE Fed(p, <<>>, p)
<1> DEFINE f == [i \in {0} |-> p]
<1>1. Len(<<>>) = 0 /\ 1 .. 0 = {} /\ f[0] = p
  OBVIOUS
<1> QED
  BY <1>1 DEF Fed

LEMMA FedOne == ASSUME NEW p, NEW e PROVE Fed(p, <<e>>, Feels(p, e))
<1> DEFINE q == Feels(p, e)
           f == [i \in {0, 1} |-> IF i = 0 THEN p ELSE q]
<1> HIDE DEF q
<1>1. Len(<<e>>) = 1 /\ <<e>>[1] = e /\ 1 .. 1 = {1} /\ 1 - 1 = 0
  OBVIOUS
<1>2. f[0] = p /\ f[1] = q
  OBVIOUS
<1> HIDE DEF f
<1> QED
  BY <1>1, <1>2 DEF Fed, q

\* Events in a row, and more after them.
LEMMA FedConcat ==
  ASSUME NEW p, NEW q, NEW r, NEW s, NEW t, IsSequence(s), IsSequence(t), Fed(p, s, q), Fed(q, t, r)
  PROVE  Fed(p, s \o t, r)
<1> DEFINE m == Len(s)
           n == Len(t)
           st == s \o t
<1>1. m \in Nat /\ n \in Nat
  BY SequenceFacts
<1>2. Len(st) = m + n /\ (\A i \in 1 .. m : st[i] = s[i]) /\ \A i \in 1 .. n : st[m + i] = t[i]
  BY ConcatSequence
<1>3. PICK f : f[0] = p /\ f[m] = q /\ \A i \in 1 .. m : f[i] = Feels(f[i - 1], s[i])
  BY DEF Fed
<1>4. PICK g : g[0] = q /\ g[n] = r /\ \A i \in 1 .. n : g[i] = Feels(g[i - 1], t[i])
  BY DEF Fed
<1> HIDE DEF m, n, st
<1> DEFINE h == [i \in 0 .. m + n |-> IF i =< m THEN f[i] ELSE g[i - m]]
<1>5. (\A i \in 0 .. m : h[i] = f[i]) /\ \A i \in 0 .. n : h[m + i] = g[i]
  <2>1. ASSUME NEW i \in 0 .. n PROVE h[m + i] = g[i]
    <3>1. m + i \in 0 .. m + n /\ (m + i) - m = i
      BY <1>1
    <3>2. CASE i = 0
      BY <1>1, <1>3, <1>4, <3>1, <3>2
    <3>3. CASE i # 0
      <4>1. ~(m + i =< m)
        BY <1>1, <3>3
      <4> QED
        BY <3>1, <4>1
    <3> QED
      BY <3>2, <3>3
  <2> QED
    BY <1>1, <2>1
<1> HIDE DEF h
<1>6. ASSUME NEW i \in 1 .. m + n PROVE h[i] = Feels(h[i - 1], st[i])
  <2>1. CASE i =< m
    <3>1. i \in 1 .. m /\ i \in 0 .. m /\ i - 1 \in 0 .. m
      BY <1>1, <2>1
    <3> QED
      BY <1>2, <1>3, <1>5, <3>1
  <2>2. CASE ~(i =< m)
    <3> DEFINE j == i - m
    <3>1. j \in 1 .. n /\ j \in 0 .. n /\ j - 1 \in 0 .. n /\ i = m + j /\ i - 1 = m + (j - 1)
      BY <1>1, <2>2
    <3> HIDE DEF j
    <3>2. h[i] = g[j] /\ h[i - 1] = g[j - 1] /\ st[i] = t[j] /\ g[j] = Feels(g[j - 1], t[j])
      BY <1>2, <1>4, <1>5, <3>1
    <3> QED
      BY <3>2
  <2> QED
    BY <2>1, <2>2
<1>7. h[0] = p /\ h[m + n] = r
  <2>1. 0 \in 0 .. m /\ n \in 0 .. n
    BY <1>1
  <2> QED
    BY <1>3, <1>4, <1>5, <2>1
<1>8. Fed(p, st, r)
  BY <1>2, <1>6, <1>7 DEF Fed
<1> QED
  BY <1>8 DEF st

\* A state in which nothing is being entered, with some text typed so far; what events add to the text.
AtRest(p, t) == IsState(p) /\ p.text = t /\ (system.os = "Linux" => p.hex = NotEntering /\ p.down \cap Mods = {})
Types(events, t) ==
    IsSequence(events) /\ t \in Seq(Nat)
    /\ \A s \in Seq(Nat) : \A p : AtRest(p, s) => \E q : Fed(p, events, q) /\ AtRest(q, s \o t)

LEMMA TypesNothing == Types(<<>>, <<>>)
<1>1. IsSequence(<<>>) /\ <<>> \in Seq(Nat)
  BY ClearNothing DEF Clear
<1>2. \A s \in Seq(Nat) : s \o <<>> = s
  OBVIOUS
<1> QED
  BY <1>1, <1>2, FedNone, Zenon DEF Types

\* What two messages type is what they type together.
LEMMA TypesConcat ==
  ASSUME NEW a, NEW b, NEW s, NEW t, Types(a, s), Types(b, t) PROVE Types(a \o b, s \o t)
<1>1. IsSequence(a \o b) /\ s \o t \in Seq(Nat)
  BY ConcatSequence, ConcatProperties DEF Types
<1>2. ASSUME NEW x \in Seq(Nat), NEW p, AtRest(p, x) PROVE \E q : Fed(p, a \o b, q) /\ AtRest(q, x \o (s \o t))
  <2>1. PICK q : Fed(p, a, q) /\ AtRest(q, x \o s)
    BY <1>2 DEF Types
  <2>2. x \o s \in Seq(Nat) /\ (x \o s) \o t = x \o (s \o t)
    BY DEF Types
  <2>3. PICK r : Fed(q, b, r) /\ AtRest(r, (x \o s) \o t)
    BY <2>1, <2>2 DEF Types
  <2>4. Fed(p, a \o b, r)
    BY <2>1, <2>3, FedConcat DEF Types
  <2> QED
    BY <2>2, <2>3, <2>4
<1> QED
  BY <1>1, <1>2 DEF Types

-----------------------------------------------------------------------------
(* Windows: each UTF-16 unit is an event of its own, carried by no key.    *)

\* Windows: a Return is the one character that is typed as it is sent.
LEMMA Rewritten ==
  ASSUME NEW pc, IsState(pc), NEW t, NEW h
  PROVE  /\ [pc EXCEPT !.text = t] = [down |-> pc.down, text |-> t, hex |-> pc.hex]
         /\ [pc EXCEPT !.hex = h] = [down |-> pc.down, text |-> pc.text, hex |-> h]
<1> DEFINE d == pc.down
           t0 == pc.text
           h0 == pc.hex
           q == [down |-> d, text |-> t0, hex |-> h0]
<1>1. pc = q
  BY DEF IsState
<1> HIDE DEF d, t0, h0
<1>2. [q EXCEPT !.text = t] = [down |-> d, text |-> t, hex |-> h0]
  OBVIOUS
<1>3. [q EXCEPT !.hex = h] = [down |-> d, text |-> t0, hex |-> h]
  OBVIOUS
<1> HIDE DEF q
<1>4. [pc EXCEPT !.text = t] = [down |-> d, text |-> t, hex |-> h0] /\ [pc EXCEPT !.hex = h] = [down |-> d, text |-> t0, hex |-> h]
  BY <1>1, <1>2, <1>3, Zenon
<1> QED
  BY <1>4 DEF d, t0, h0

\* On Windows and macOS nothing is entered in hexadecimal.
LEMMA FeltElsewhere ==
  ASSUME NEW p, IsState(p), NEW e, system.os # "Linux"
  PROVE  /\ IsState(Feels(p, e))
         /\ Feels(p, e).text = IF ~e.isDown THEN p.text
                               ELSE IF system.os = "macOS" THEN PressedOnMac(p, e).text ELSE p.text \o e.units
<1> DEFINE typed == IF system.os = "macOS" THEN PressedOnMac(p, e) ELSE [p EXCEPT !.text = @ \o e.units]
           felt == IF ~e.isDown THEN p ELSE typed
<1>1. IsState([p EXCEPT !.text = @ \o e.units]) /\ [p EXCEPT !.text = @ \o e.units].text = p.text \o e.units
  <2> DEFINE t == p.text \o e.units
  <2>1. [p EXCEPT !.text = @ \o e.units] = [p EXCEPT !.text = t]
    OBVIOUS
  <2> HIDE DEF t
  <2>2. [p EXCEPT !.text = t] = [down |-> p.down, text |-> t, hex |-> p.hex]
    BY Rewritten
  <2>3. IsState([p EXCEPT !.text = t]) /\ [p EXCEPT !.text = t].text = t
    BY <2>2 DEF IsState
  <2> QED
    BY <2>1, <2>3 DEF t
<1>2. IsState(felt)
  BY <1>1, MacTypes DEF Alike
<1>3. felt.text = IF ~e.isDown THEN p.text
                  ELSE IF system.os = "macOS" THEN PressedOnMac(p, e).text ELSE p.text \o e.units
  BY <1>1
<1>4. Feels(p, e) = [felt EXCEPT !.down = IF e.isDown THEN @ \cup {e.key} ELSE @ \ {e.key}]
  BY DEF Feels
<1> HIDE DEF felt
<1>5. IsState(Feels(p, e)) /\ Feels(p, e).text = felt.text
  BY <1>2, <1>4 DEF IsState
<1> QED
  BY <1>3, <1>5

\* A key that goes down and up types what it carries.
LEMMA PairTypes ==
  ASSUME NEW a, NEW b, NEW t \in Seq(Nat), a.isDown = TRUE, b.isDown = FALSE, system.os # "Linux",
         \A p, s : IsState(p) /\ p.text = s => Feels(p, a).text = s \o t
  PROVE  Types(<<a, b>>, t)
<1>1. IsSequence(<<a>>) /\ IsSequence(<<b>>) /\ IsSequence(<<a, b>>) /\ <<a>> \o <<b>> = <<a, b>>
  BY Single, TwoOnes
<1>2. ASSUME NEW s \in Seq(Nat), NEW p, AtRest(p, s) PROVE \E q : Fed(p, <<a, b>>, q) /\ AtRest(q, s \o t)
  <2> DEFINE q == Feels(p, a)
             r == Feels(q, b)
  <2>1. IsState(q) /\ q.text = s \o t
    BY <1>2, FeltElsewhere DEF AtRest
  <2>2. IsState(r) /\ r.text = q.text
    BY <2>1, FeltElsewhere
  <2>3. Fed(p, <<a>>, q) /\ Fed(q, <<b>>, r)
    BY FedOne
  <2> HIDE DEF q, r
  <2>4. Fed(p, <<a, b>>, r)
    BY <1>1, <2>3, FedConcat, Zenon
  <2> QED
    BY <2>1, <2>2, <2>4 DEF AtRest
<1> QED
  BY <1>1, <1>2 DEF Types

\* The two events of each UTF-16 unit.
UnitEvents(us) == [i \in 1 .. 2 * Len(us) |-> Event(0, i % 2 = 1, {}, <<us[(i + 1) \div 2]>>)]

\* Such events type the units, each once.
LEMMA UnitsType == ASSUME NEW us \in Seq(Nat), system.os = "Windows" PROVE Types(UnitEvents(us), us)
<1> DEFINE T == {x \in Seq(Nat) : Types(UnitEvents(x), x)}
<1>1. <<>> \in T
  <2>1. UnitEvents(<<>>) = <<>>
    BY DEF UnitEvents
  <2> QED
    BY <2>1, TypesNothing
<1>2. ASSUME NEW x \in T, NEW e \in Nat PROVE Append(x, e) \in T
  <2> DEFINE n == Len(x)
             y == Append(x, e)
             a == Event(0, TRUE, {}, <<e>>)
             b == Event(0, FALSE, {}, <<e>>)
  <2>1. n \in Nat /\ y \in Seq(Nat) /\ Len(y) = n + 1 /\ y[n + 1] = e /\ \A i \in 1 .. n : y[i] = x[i]
    OBVIOUS
  <2>2. y = x \o <<e>>
    OBVIOUS
  <2> HIDE DEF n, y
  <2>3. Types(<<a, b>>, <<e>>)
    <3>1. a.isDown = TRUE /\ b.isDown = FALSE /\ a.units = <<e>> /\ <<e>> \in Seq(Nat)
      BY DEF Event
    <3> HIDE DEF a, b
    <3>2. \A p, s : IsState(p) /\ p.text = s => Feels(p, a).text = s \o <<e>>
      BY <3>1, FeltElsewhere
    <3> QED
      BY <3>1, <3>2, PairTypes
  <2> DEFINE s == UnitEvents(x)
             t == UnitEvents(y)
  <2>4. s = [i \in 1 .. 2 * n |-> Event(0, i % 2 = 1, {}, <<x[(i + 1) \div 2]>>)]
    BY DEF UnitEvents, n
  <2>5. t = [i \in 1 .. 2 * (n + 1) |-> Event(0, i % 2 = 1, {}, <<y[(i + 1) \div 2]>>)]
    BY <2>1 DEF UnitEvents
  <2> HIDE DEF s, t
  <2>6. \A i \in 1 .. 2 * n : t[i] = s[i]
    <3> TAKE i \in 1 .. 2 * n
    <3>1. (i + 1) \div 2 \in 1 .. n /\ i \in 1 .. 2 * (n + 1)
      BY <2>1
    <3>2. y[(i + 1) \div 2] = x[(i + 1) \div 2]
      BY <2>1, <3>1
    <3> QED
      BY <2>4, <2>5, <3>1, <3>2
  <2>7. t[2 * n + 1] = a /\ t[2 * n + 2] = b
    <3> DEFINE i == 2 * n + 1
               j == 2 * n + 2
    <3>1. /\ i \in 1 .. 2 * (n + 1) /\ (i + 1) \div 2 = n + 1 /\ (i % 2 = 1) = TRUE
          /\ j \in 1 .. 2 * (n + 1) /\ (j + 1) \div 2 = n + 1 /\ (j % 2 = 1) = FALSE
      BY <2>1
    <3> HIDE DEF i, j
    <3>2. t[i] = Event(0, i % 2 = 1, {}, <<y[(i + 1) \div 2]>>) /\ t[j] = Event(0, j % 2 = 1, {}, <<y[(j + 1) \div 2]>>)
      BY <2>5, <3>1
    <3>3. t[i] = a /\ t[j] = b
      BY <2>1, <3>1, <3>2, Zenon
    <3> QED
      BY <3>3 DEF i, j
  <2>8. s = [i \in 1 .. 2 * n |-> s[i]] /\ t = [i \in 1 .. 2 * (n + 1) |-> t[i]]
    BY <2>4, <2>5
  <2> HIDE DEF a, b
  <2>9. t = s \o <<a, b>>
    <3> DEFINE w == <<a, b>>
    <3>1. IsTwo(w, a, b)
      BY IsTwoOf
    <3>2. IsSequence(s) /\ Len(s) = 2 * n /\ IsSequence(t) /\ Len(t) = 2 * (n + 1)
      <4>1. 2 * n \in Nat /\ 2 * (n + 1) \in Nat
        BY <2>1
      <4> QED
        BY <2>8, <4>1, FunctionIsSequence
    <3>3. PairAfter(t, s, a, b)
      BY <2>1, <2>6, <2>7, <3>2 DEF PairAfter
    <3> HIDE DEF w
    <3>4. t = s \o w
      BY <3>1, <3>3, PairMore
    <3> QED
      BY <3>4 DEF w
  <2>10. Types(t, x \o <<e>>)
    BY <2>3, <2>9, TypesConcat DEF s
  <2> QED
    BY <2>1, <2>2, <2>10 DEF t, y
<1>3. T = Seq(Nat)
  <2>1. T \in SUBSET Seq(Nat)
    OBVIOUS
  <2> HIDE DEF T
  <2> QED
    BY <1>1, <1>2, <2>1, SeqSetInduction
<1> QED
  BY <1>3

LEMMA UtfTyped == \A c \in Nat : utf16(c) \in Seq(Nat)
BY DEF utf16

\* A text on Windows.
LEMMA WindowsTextTypes ==
  ASSUME NEW text \in Seq(Nat), system.os = "Windows" PROVE Types(WindowsText(text), Meant(text))
<1> DEFINE n == Len(text)
           g == [i \in DOMAIN text |-> utf16(text[i])]
<1>1. n \in Nat /\ DOMAIN text = 1 .. n /\ \A i \in 1 .. n : text[i] \in Nat
  OBVIOUS
<1>2. Units(text) = FlattenSeq(g) /\ Meant(text) = FlattenSeq(g)
  BY DEF Units, Meant
<1>3. FlattenSeq(g) \in Seq(Nat)
  <2>1. g \in [1 .. n -> Seq(Nat)]
    BY <1>1, UtfTyped
  <2> HIDE DEF g, n
  <2>2. g \in Seq(Seq(Nat))
    BY <1>1, <2>1, FunctionSeq
  <2>3. <<>> \in Seq(Nat)
    OBVIOUS
  <2> QED
    BY <2>2, <2>3, FlattenAppend
<1>4. WindowsText(text) = UnitEvents(Units(text))
  BY DEF WindowsText, UnitEvents
<1> QED
  BY <1>2, <1>3, <1>4, UnitsType

-----------------------------------------------------------------------------
(* macOS: units are carried in chunks, and a character that is two units   *)
(* stays whole; Return, Tab and Backspace are keys.                        *)

Chunk(units) == units \in Seq(Nat) /\ Len(units) =< MAX_UNICODE_UNITS_PER_EVENT /\ Whole(units)

\* An event types all it can carry, since no surrogate is at an end of it.
LEMMA CarriedWhole == ASSUME NEW units, Chunk(units) PROVE Carried(units) = units
<1> DEFINE n == Len(units)
           m == Min({n, MAX_UNICODE_UNITS_PER_EVENT})
           taken == SubSeq(units, 1, m)
<1>1. n \in Nat /\ n =< MAX_UNICODE_UNITS_PER_EVENT
  BY DEF Chunk
<1>2. m = n
  <2>1. MAX_UNICODE_UNITS_PER_EVENT \in Nat
    BY BackendsAssumption
  <2> HIDE DEF n
  <2> QED
    BY <1>1, <2>1 DEF Min
<1>3. SubSeq(units, 1, n) = units
  BY DEF Chunk
<1>4. Carried(units) = IF Whole(taken) THEN taken ELSE <<65533>>
  BY DEF Carried
<1> HIDE DEF n, m
<1>5. taken = units
  BY <1>2, <1>3
<1> HIDE DEF taken
<1>6. Whole(taken)
  BY <1>5 DEF Chunk
<1> QED
  BY <1>4, <1>5, <1>6

\* The two events of a chunk type it.
LEMMA CarrierTypes ==
  ASSUME NEW units, Chunk(units), units # <<>>, system.os = "macOS" PROVE Types(Carrier(units), units)
<1> DEFINE a == Event(0, TRUE, {}, units)
           b == Event(0, FALSE, {}, units)
<1>1. a.isDown = TRUE /\ b.isDown = FALSE /\ a.units = units
  BY DEF Event
<1>2. Carrier(units) = <<a, b>>
  BY DEF Carrier
<1> HIDE DEF a, b
<1>3. ASSUME NEW p, NEW s, IsState(p), p.text = s PROVE Feels(p, a).text = s \o units
  <2>1. PressedOnMac(p, a) = [p EXCEPT !.text = @ \o Carried(units)]
    BY <1>1 DEF PressedOnMac
  <2>2. PressedOnMac(p, a) = [p EXCEPT !.text = p.text \o units]
    BY <2>1, CarriedWhole
  <2>3. PressedOnMac(p, a).text = p.text \o units
    BY <1>3, <2>2, Rewritten
  <2> QED
    BY <1>1, <1>3, <2>3, FeltElsewhere
<1>4. units \in Seq(Nat)
  BY DEF Chunk
<1>5. Types(<<a, b>>, units)
  BY <1>1, <1>3, <1>4, PairTypes
<1> QED
  BY <1>2, <1>5

\* A key and nothing with it.
LEMMA ChordOfOne == ASSUME NEW k PROVE chord_events(<<k>>) = <<key_event(k, TRUE), key_event(k, FALSE)>>
<1> DEFINE a == key_event(k, TRUE)
           b == key_event(k, FALSE)
<1>1. Reverse(<<k>>) = <<k>>
  BY DEF Reverse
<1>2. Downs(<<k>>) = <<a>> /\ Ups(<<k>>) = <<b>>
  <2>1. DOMAIN <<k>> = 1 .. 1 /\ <<k>>[1] = k /\ 1 .. 1 = {1}
    OBVIOUS
  <2>2. Downs(<<k>>) = [i \in {1} |-> a] /\ Ups(<<k>>) = [i \in {1} |-> b]
    BY <2>1 DEF Downs, Ups
  <2>3. \A x : [i \in {1} |-> x] = <<x>>
    OBVIOUS
  <2> QED
    BY <2>2, <2>3
<1>3. chord_events(<<k>>) = <<a>> \o <<b>>
  BY <1>1, <1>2 DEF chord_events
<1> HIDE DEF a, b
<1>4. <<a>> \o <<b>> = <<a, b>>
  BY TwoOnes
<1>5. chord_events(<<k>>) = <<a, b>>
  BY <1>3, <1>4, Zenon
<1> QED
  BY <1>5 DEF a, b

\* Return, Tab and Backspace type themselves on macOS.
LEMMA MacKeyTypes ==
  ASSUME NEW c \in {8, 9, 10, 13}, system.os = "macOS"
  PROVE  Types(chord_events(MacKey(c)), IF c = 13 THEN <<10>> ELSE <<c>>)
<1> DEFINE k == CASE c \in {10, 13} -> 36 [] c = 9 -> 48 [] OTHER -> 51
           t == IF c = 13 THEN 10 ELSE c
           a == key_event(k, TRUE)
           b == key_event(k, FALSE)
<1>1. MacKey(c) = <<k>>
  BY DEF MacKey
<1>2. k \in {36, 48, 51} /\ t \in Nat /\ t = CASE k = 36 -> 10 [] k = 48 -> 9 [] OTHER -> 8
  OBVIOUS
<1> HIDE DEF k, t
<1>3. a.isDown = TRUE /\ b.isDown = FALSE /\ a.units = <<>> /\ a.flags = {} /\ a.key = k
  BY DEF key_event, Event
<1> HIDE DEF a, b
<1>4. ASSUME NEW p, NEW s, IsState(p), p.text = s PROVE Feels(p, a).text = s \o <<t>>
  <2>1. PressedOnMac(p, a) = [p EXCEPT !.text = Append(p.text, t)]
    BY <1>2, <1>3 DEF PressedOnMac
  <2>2. PressedOnMac(p, a).text = Append(p.text, t)
    BY <1>4, <2>1, Rewritten
  <2>3. Feels(p, a).text = Append(s, t)
    BY <1>3, <1>4, <2>2, FeltElsewhere
  <2> QED
    BY <2>3
<1>5. <<t>> \in Seq(Nat)
  BY <1>2
<1>6. Types(<<a, b>>, <<t>>)
  BY <1>3, <1>4, <1>5, PairTypes
<1>7. chord_events(MacKey(c)) = <<a, b>>
  BY <1>1, ChordOfOne DEF a, b
<1> QED
  BY <1>6, <1>7 DEF t

\* One character is at most two units, and whole.
LEMMA UtfChunk == ASSUME NEW c \in Characters PROVE Chunk(utf16(c))
<1>1. c \in Nat /\ (c < 55296 \/ (c > 57343 /\ c < 1114112))
  BY DEF Characters
<1>2. MAX_UNICODE_UNITS_PER_EVENT \in Nat /\ MAX_UNICODE_UNITS_PER_EVENT >= 2
  BY BackendsAssumption
<1>3. CASE c < 65536
  <2> DEFINE u == <<c>>
  <2>1. utf16(c) = u
    BY <1>3 DEF utf16
  <2>2. u \in Seq(Nat) /\ Len(u) = 1 /\ DOMAIN u = {1} /\ u[1] = c
    BY <1>1
  <2> HIDE DEF u
  <2>3. Whole(u)
    BY <1>1, <2>2 DEF Whole, IsHighSurrogate, IsLowSurrogate
  <2> QED
    BY <1>2, <2>1, <2>2, <2>3 DEF Chunk
<1>4. CASE ~(c < 65536)
  <2> DEFINE a == 55296 + (c - 65536) \div 1024
             b == 56320 + ((c - 65536) % 1024)
             u == <<a, b>>
  <2>1. utf16(c) = u
    BY <1>4 DEF utf16
  <2>2. a \in Nat /\ b \in Nat /\ IsHighSurrogate(a) /\ IsLowSurrogate(b) /\ ~IsHighSurrogate(b) /\ ~IsLowSurrogate(a)
    <3> DEFINE d == c - 65536
    <3>1. d \in Nat /\ d < 1048576
      BY <1>1, <1>4
    <3> HIDE DEF d
    <3>2. d \div 1024 \in Nat /\ d \div 1024 < 1024 /\ d % 1024 \in Nat /\ d % 1024 < 1024
      BY <3>1
    <3> DEFINE e == d \div 1024
               f == d % 1024
    <3>3. a = 55296 + e /\ b = 56320 + f
      BY DEF d
    <3> HIDE DEF e, f, a, b
    <3>4. e \in Nat /\ e < 1024 /\ f \in Nat /\ f < 1024
      BY <3>2 DEF e, f
    <3> QED
      BY <3>3, <3>4 DEF IsHighSurrogate, IsLowSurrogate
  <2> HIDE DEF a, b
  <2>3. u \in Seq(Nat) /\ Len(u) = 2 /\ DOMAIN u = {1, 2} /\ u[1] = a /\ u[2] = b
    BY <2>2
  <2> HIDE DEF u
  <2>4. Whole(u)
    BY <2>2, <2>3 DEF Whole
  <2> QED
    BY <1>2, <2>1, <2>3, <2>4 DEF Chunk
<1> QED
  BY <1>3, <1>4

\* Whole units and a whole character after them have no lone surrogate.
LEMMA WholeTogether ==
  ASSUME NEW s \in Seq(Nat), NEW t \in Seq(Nat), Whole(s), Whole(t) PROVE Whole(s \o t)
<1> DEFINE m == Len(s)
           n == Len(t)
           u == s \o t
<1>1. m \in Nat /\ n \in Nat /\ DOMAIN s = 1 .. m /\ DOMAIN t = 1 .. n /\ DOMAIN u = 1 .. m + n /\ Len(u) = m + n
  OBVIOUS
<1>2. (\A i \in 1 .. m : u[i] = s[i]) /\ \A i \in 1 .. n : u[m + i] = t[i]
  OBVIOUS
<1>3. \A i \in 1 .. m : /\ IsHighSurrogate(s[i]) => i < m /\ IsLowSurrogate(s[i + 1])
                        /\ IsLowSurrogate(s[i]) => i > 1 /\ IsHighSurrogate(s[i - 1])
  BY <1>1 DEF Whole
<1>4. \A i \in 1 .. n : /\ IsHighSurrogate(t[i]) => i < n /\ IsLowSurrogate(t[i + 1])
                        /\ IsLowSurrogate(t[i]) => i > 1 /\ IsHighSurrogate(t[i - 1])
  BY <1>1 DEF Whole
<1> HIDE DEF m, n, u
<1>5. ASSUME NEW i \in 1 .. m + n
      PROVE  /\ IsHighSurrogate(u[i]) => i < m + n /\ IsLowSurrogate(u[i + 1])
             /\ IsLowSurrogate(u[i]) => i > 1 /\ IsHighSurrogate(u[i - 1])
  <2>1. CASE i =< m
    <3>1. i \in 1 .. m /\ u[i] = s[i]
      BY <1>1, <1>2, <2>1
    <3>2. i < m => u[i + 1] = s[i + 1] /\ i < m + n
      BY <1>1, <1>2, <2>1
    <3>3. i > 1 => u[i - 1] = s[i - 1]
      BY <1>1, <1>2, <2>1
    <3> QED
      BY <1>3, <3>1, <3>2, <3>3
  <2>2. CASE ~(i =< m)
    <3> DEFINE j == i - m
    <3>1. j \in 1 .. n /\ i = m + j
      BY <1>1, <2>2
    <3> HIDE DEF j
    <3>2. u[i] = t[j]
      BY <1>2, <3>1
    <3>3. j < n => u[i + 1] = t[j + 1] /\ i < m + n
      <4>1. j < n => j + 1 \in 1 .. n /\ i + 1 = m + (j + 1) /\ i < m + n
        BY <1>1, <3>1
      <4> QED
        BY <1>2, <4>1
    <3>4. j > 1 => u[i - 1] = t[j - 1] /\ i > 1
      <4>1. j > 1 => j - 1 \in 1 .. n /\ i - 1 = m + (j - 1) /\ i > 1
        BY <1>1, <3>1
      <4> QED
        BY <1>2, <4>1
    <3> QED
      BY <1>4, <3>1, <3>2, <3>3, <3>4
  <2> QED
    BY <2>1, <2>2
<1>6. Whole(u)
  BY <1>1, <1>5 DEF Whole
<1> QED
  BY <1>6 DEF u

\* Flushing types what is pending, and leaves nothing pending.
LEMMA FlushedTypes ==
  ASSUME NEW plan, NEW x, Types(plan.events, x), Chunk(plan.chunk), system.os = "macOS"
  PROVE  Types(Flushed(plan), x \o plan.chunk)
<1>1. CASE plan.chunk = <<>>
  <2>1. Flushed(plan) = plan.events
    BY <1>1 DEF Flushed
  <2>2. x \o <<>> = x
    BY DEF Types
  <2> QED
    BY <1>1, <2>1, <2>2
<1>2. CASE plan.chunk # <<>>
  BY <1>2, CarrierTypes, TypesConcat DEF Flushed
<1> QED
  BY <1>1, <1>2

\* What a character adds to the text, after a Return or not.
Adds(c, afterReturn) ==
    IF c = 13 THEN <<10>>
    ELSE IF (IsControl(c) /\ c \notin {8, 9, 10}) \/ (c = 10 /\ afterReturn) THEN <<>> ELSE utf16(c)

\* One step of the loop over the characters: what was typed and what is pending grow by that character.
LEMMA MacChar ==
  ASSUME NEW plan, NEW x, NEW c \in Characters, Types(plan.events, x), Chunk(plan.chunk), system.os = "macOS"
  PROVE  \E z : /\ Types(PlanChar(plan, c).events, z) /\ Chunk(PlanChar(plan, c).chunk)
               /\ z \o PlanChar(plan, c).chunk = (x \o plan.chunk) \o Adds(c, plan.was_cr)
               /\ PlanChar(plan, c).was_cr = (c = 13)
<1> DEFINE Planned(events, chunk) == [events |-> events, chunk |-> chunk, was_cr |-> c = 13]
           k == plan.chunk
           e == chord_events(MacKey(c))
           planned == PlanChar(plan, c)
<1>1. \A events, chunk : Planned(events, chunk).events = events /\ Planned(events, chunk).chunk = chunk
  OBVIOUS
<1>9. \A events, chunk : Planned(events, chunk).was_cr = (c = 13)
  OBVIOUS
<1>2. planned = IF (c = 10 /\ plan.was_cr) \/ (IsControl(c) /\ MacKey(c) = <<>>) THEN Planned(plan.events, k)
              ELSE IF MacKey(c) # <<>> THEN Planned(Flushed(plan) \o e, <<>>)
              ELSE IF Fits(k, utf16(c)) THEN Planned(plan.events, k \o utf16(c))
              ELSE Planned(Flushed(plan), utf16(c))
  BY DEF PlanChar
<1>3. c \in Nat /\ Chunk(utf16(c)) /\ Types(Flushed(plan), x \o k) /\ Chunk(<<>>)
  <2>1. c \in Nat
    BY DEF Characters
  <2>2. <<>> \in Seq(Nat) /\ Len(<<>>) = 0 /\ DOMAIN <<>> = {}
    OBVIOUS
  <2>3. Chunk(<<>>)
    BY <2>2, BackendsAssumption DEF Chunk, Whole
  <2> QED
    BY <2>1, <2>3, UtfChunk, FlushedTypes
<1>4. x \in Seq(Nat) /\ k \in Seq(Nat) /\ utf16(c) \in Seq(Nat) /\ x \o k \in Seq(Nat)
  BY <1>3 DEF Types, Chunk
<1>5. MacKey(c) = <<>> <=> c \notin {8, 9, 10, 13}
  BY DEF MacKey
<1> HIDE DEF Planned, e, planned, k
<1>6. CASE (c = 10 /\ plan.was_cr) \/ (IsControl(c) /\ MacKey(c) = <<>>)
  <2>1. Adds(c, plan.was_cr) = <<>>
    BY <1>5, <1>6 DEF Adds
  <2>2. planned = Planned(plan.events, k)
    BY <1>2, <1>6
  <2>3. (x \o k) \o <<>> = x \o k
    BY <1>4
  <2>4. planned.events = plan.events /\ planned.chunk = k /\ planned.was_cr = (c = 13)
    BY <1>1, <1>9, <2>2
  <2>5. Types(planned.events, x) /\ Chunk(planned.chunk) /\ x \o planned.chunk = (x \o k) \o Adds(c, plan.was_cr)
    BY <2>1, <2>3, <2>4 DEF k
  <2> QED
    BY <2>4, <2>5 DEF planned, k
<1>7. CASE ~((c = 10 /\ plan.was_cr) \/ (IsControl(c) /\ MacKey(c) = <<>>)) /\ MacKey(c) # <<>>
  <2> DEFINE t == IF c = 13 THEN <<10>> ELSE <<c>>
             z == (x \o k) \o t
  <2>1. c \in {8, 9, 10, 13} /\ Adds(c, plan.was_cr) = t
    BY <1>5, <1>7 DEF Adds, utf16
  <2>2. Types(e, t)
    BY <2>1, MacKeyTypes DEF e
  <2> HIDE DEF t
  <2>3. planned = Planned(Flushed(plan) \o e, <<>>)
    BY <1>2, <1>7
  <2>4. planned.events = Flushed(plan) \o e /\ planned.chunk = <<>> /\ planned.was_cr = (c = 13)
    BY <1>1, <1>9, <2>3
  <2>5. Types(planned.events, z)
    BY <1>3, <2>2, <2>4, TypesConcat
  <2>6. z \o <<>> = z
    BY <2>5 DEF Types
  <2>7. Chunk(planned.chunk) /\ z \o planned.chunk = (x \o k) \o Adds(c, plan.was_cr)
    BY <1>3, <2>1, <2>4, <2>6
  <2> QED
    BY <2>4, <2>5, <2>7 DEF planned, k
<1>8. CASE ~((c = 10 /\ plan.was_cr) \/ (IsControl(c) /\ MacKey(c) = <<>>)) /\ MacKey(c) = <<>>
  <2> DEFINE t == utf16(c)
  <2>1. Adds(c, plan.was_cr) = t
    BY <1>5, <1>8 DEF Adds
  <2>2. t \in Seq(Nat) /\ Chunk(t)
    BY <1>3, <1>4
  <2>3. CASE Fits(k, t)
    <3>1. planned = Planned(plan.events, k \o t)
      BY <1>2, <1>8, <2>3
    <3> HIDE DEF t
    <3>2. planned.events = plan.events /\ planned.chunk = k \o t /\ planned.was_cr = (c = 13)
      BY <1>1, <1>9, <3>1
    <3>3. x \o (k \o t) = (x \o k) \o t
      BY <1>4, <2>2, SMTT(30)
    <3>4. Chunk(k \o t)
      <4>1. k \o t \in Seq(Nat) /\ Len(k \o t) = Len(k) + Len(t)
        BY <1>4, <2>2
      <4>2. Len(k) + Len(t) =< MAX_UNICODE_UNITS_PER_EVENT
        BY <2>3 DEF Fits
      <4>3. Whole(k \o t)
        BY <1>4, <2>2, WholeTogether DEF Chunk, k
      <4> QED
        BY <4>1, <4>2, <4>3 DEF Chunk
    <3>5. Types(planned.events, x) /\ Chunk(planned.chunk) /\ x \o planned.chunk = (x \o k) \o Adds(c, plan.was_cr)
      BY <2>1, <3>2, <3>3, <3>4
    <3> QED
      BY <3>2, <3>5 DEF planned, k
  <2>4. CASE ~Fits(k, t)
    <3>1. planned = Planned(Flushed(plan), t)
      BY <1>2, <1>8, <2>4
    <3> HIDE DEF t
    <3>2. planned.events = Flushed(plan) /\ planned.chunk = t /\ planned.was_cr = (c = 13)
      BY <1>1, <1>9, <3>1
    <3>3. Types(planned.events, x \o k) /\ Chunk(planned.chunk) /\ (x \o k) \o planned.chunk = (x \o k) \o Adds(c, plan.was_cr)
      BY <1>3, <2>1, <2>2, <3>2
    <3> QED
      BY <3>2, <3>3 DEF planned, k
  <2> QED
    BY <2>3, <2>4
<1> QED
  BY <1>6, <1>7, <1>8

LEMMA AddsTyped == \A c \in Nat : \A b : Adds(c, b) \in Seq(Nat)
BY UtfTyped DEF Adds

\* A text on macOS, by induction over its characters.
LEMMA MacTextTypes ==
  ASSUME NEW text \in Seq(Characters), system.os = "macOS" PROVE Types(plan_text(text), Meant(text))
<1> DEFINE n == Len(text)
           J == CHOOSE plan : MacTyping(text, plan, n)
           g == [i \in 1 .. n |-> IF i > 1 /\ text[i - 1] = 13 THEN Adds(text[i], TRUE) ELSE Adds(text[i], FALSE)]
           meant(i) == FlattenSeq([j \in 1 .. i |-> g[j]])
           P(i) == \E x : /\ Types(J[i].events, x) /\ Chunk(J[i].chunk) /\ x \o J[i].chunk = meant(i)
                          /\ IF i = 0 THEN J[i].was_cr = FALSE ELSE J[i].was_cr = (text[i] = 13)
           K == {i \in Nat : i =< n => P(i)}
<1>1. plan_text(text) = Flushed(J[n])
  BY DEF plan_text, MacTyping
<1>2. n \in Nat /\ DOMAIN text = 1 .. n /\ \A i \in 1 .. n : text[i] \in Characters /\ text[i] \in Nat
  BY DEF Characters
<1>3. MacTyping(text, J, n)
  BY <1>2, MacTypingExists
<1> HIDE DEF J
<1>4. /\ J[0] = [events |-> <<>>, chunk |-> <<>>, was_cr |-> FALSE]
      /\ \A i \in 0 .. n : i # 0 => J[i] = PlanChar(J[i - 1], text[i])
  <2>1. J[0] = [events |-> <<>>, chunk |-> <<>>, was_cr |-> FALSE]
    BY <1>3 DEF MacTyping
  <2>2. \A i \in 0 .. n : i # 0 => J[i] = PlanChar(J[i - 1], text[i])
    BY <1>3 DEF MacTyping
  <2> QED
    BY <2>1, <2>2
<1>5. Meant(text) = meant(n)
  <2>1. ASSUME NEW i \in 1 .. n
        PROVE  g[i] = IF text[i] = 13 THEN <<10>>
                      ELSE IF (IsControl(text[i]) /\ text[i] \notin {8, 9, 10}) \/ (text[i] = 10 /\ i > 1 /\ text[i - 1] = 13)
                        THEN <<>> ELSE utf16(text[i])
    <3> HIDE DEF n
    <3> QED
      BY DEF Adds
  <2>2. Meant(text) = FlattenSeq([i \in 1 .. n |->
                         IF text[i] = 13 THEN <<10>>
                         ELSE IF (IsControl(text[i]) /\ text[i] \notin {8, 9, 10}) \/ (text[i] = 10 /\ i > 1 /\ text[i - 1] = 13)
                           THEN <<>> ELSE utf16(text[i])])
    BY <1>2 DEF Meant
  <2> HIDE DEF n, g
  <2> QED
    BY <2>1, <2>2
<1>6. \A i \in 1 .. n : g[i] \in Seq(Nat)
  <2> HIDE DEF n
  <2> QED
    BY <1>2, AddsTyped
<1>7. \A i \in 1 .. n : g[i] = IF i > 1 /\ text[i - 1] = 13 THEN Adds(text[i], TRUE) ELSE Adds(text[i], FALSE)
  OBVIOUS
<1> HIDE DEF n, g, P
<1>8. 0 \in K
  <2>1. Types(<<>>, <<>>) /\ Chunk(<<>>)
    <3>1. <<>> \in Seq(Nat) /\ Len(<<>>) = 0 /\ DOMAIN <<>> = {}
      OBVIOUS
    <3>2. Chunk(<<>>)
      BY <3>1, BackendsAssumption DEF Chunk, Whole
    <3> QED
      BY <3>2, TypesNothing
  <2>2. meant(0) = <<>> /\ <<>> \o <<>> = <<>>
    BY FlattenNothing
  <2>3. J[0].events = <<>> /\ J[0].chunk = <<>> /\ J[0].was_cr = FALSE
    BY <1>4
  <2> HIDE DEF meant
  <2>4. P(0)
    BY <2>1, <2>2, <2>3 DEF P
  <2> QED
    BY <2>4
<1>9. ASSUME NEW i \in K PROVE i + 1 \in K
  <2> SUFFICES ASSUME i + 1 =< n PROVE P(i + 1)
    OBVIOUS
  <2>1. i \in Nat /\ i + 1 \in 0 .. n /\ i + 1 \in 1 .. n /\ i + 1 # 0 /\ (i + 1) - 1 = i /\ P(i)
    BY <1>2
  <2> DEFINE c == text[i + 1]
             b == J[i].was_cr
             next == J[i + 1]
  <2>2. PICK x : Types(J[i].events, x) /\ Chunk(J[i].chunk) /\ x \o J[i].chunk = meant(i)
                 /\ IF i = 0 THEN b = FALSE ELSE b = (text[i] = 13)
    BY <2>1 DEF P
  <2>4. next = PlanChar(J[i], c) /\ c \in Characters
    BY <1>2, <1>4, <2>1
  <2>5. g[i + 1] = Adds(c, b)
    <3>1. g[i + 1] = IF i + 1 > 1 /\ text[i] = 13 THEN Adds(c, TRUE) ELSE Adds(c, FALSE)
      BY <1>7, <2>1
    <3>2. i + 1 > 1 <=> i # 0
      BY <2>1
    <3> HIDE DEF b, c
    <3>3. CASE i = 0
      BY <2>2, <3>1, <3>2, <3>3
    <3>4. CASE i # 0 /\ text[i] = 13
      BY <2>2, <3>1, <3>2, <3>4
    <3>5. CASE i # 0 /\ text[i] # 13
      BY <2>2, <3>1, <3>2, <3>5
    <3> QED
      BY <3>3, <3>4, <3>5
  <2> HIDE DEF c
  <2>6. PICK z : /\ Types(next.events, z) /\ Chunk(next.chunk)
                 /\ z \o next.chunk = (x \o J[i].chunk) \o Adds(c, b)
                 /\ next.was_cr = (c = 13)
    <3> DEFINE plan == J[i]
    <3>1. Types(plan.events, x) /\ Chunk(plan.chunk) /\ c \in Characters
      BY <2>2, <2>4
    <3>2. next = PlanChar(plan, c)
      BY <2>4
    <3> HIDE DEF plan, next
    <3>3. \E z : /\ Types(PlanChar(plan, c).events, z) /\ Chunk(PlanChar(plan, c).chunk)
                /\ z \o PlanChar(plan, c).chunk = (x \o plan.chunk) \o Adds(c, plan.was_cr)
                /\ PlanChar(plan, c).was_cr = (c = 13)
      BY <3>1, MacChar, ZenonT(30)
    <3> QED
      BY <3>2, <3>3 DEF plan
  <2>7. meant(i + 1) = meant(i) \o g[i + 1]
    <3>1. \A j \in 1 .. i + 1 : g[j] \in Seq(Nat)
      BY <1>2, <1>6, <2>1
    <3> QED
      BY <2>1, <3>1, FlattenMore
  <2> HIDE DEF next, meant, c, b, K
  <2>8. Types(next.events, z) /\ Chunk(next.chunk) /\ z \o next.chunk = meant(i + 1) /\ next.was_cr = (c = 13)
    BY <2>2, <2>4, <2>5, <2>6, <2>7
  <2> QED
    BY <2>1, <2>8 DEF P, next, c
<1>10. K = Nat
  <2>1. K \in SUBSET Nat
    OBVIOUS
  <2> HIDE DEF K
  <2> QED
    BY <1>8, <1>9, <2>1, NatSetInduction
<1>11. P(n)
  BY <1>2, <1>10
<1> HIDE DEF meant
<1>12. PICK x : Types(J[n].events, x) /\ Chunk(J[n].chunk) /\ x \o J[n].chunk = meant(n)
  BY <1>11 DEF P
<1>13. Types(Flushed(J[n]), x \o J[n].chunk)
  BY <1>12, FlushedTypes
<1>14. x \o J[n].chunk = Meant(text)
  BY <1>5, <1>12, Zenon
<1> QED
  BY <1>1, <1>13, <1>14

-----------------------------------------------------------------------------
(* Linux: a character of the US layout is its key, any other is entered in *)
(* hexadecimal, which the desktop reads back.                              *)

\* The keys of the hexadecimal entry are there.
LEMMA EntryKeys == 29 \in all_supported_keys /\ 42 \in all_supported_keys
<1> DEFINE a == <<30,48,46,32,18,33,34,35,23,36,37,38,50,49,24,25,16,19,31,20,22,47,17,45,21,44,
              2,3,4,5,6,7,8,9,10,11, 28,1,14,15,57,12,13,26,27,43,43,39,40,41,51,52,53,58,
              59,60,61,62,63,64,65,66,67,68,87,88, 99,70,119,110,102,104,111,107,109,106,105,108,103,
              69,98,55,74,78,96, 79,80,81,75,76,77,71,72,73,82, 83,86,127>>
           b == Span(183, 194)
           c == <<29,42,56,125,97,54,100,126>>
<1>1. hid_to_evdev = Joined(Laid(4, a), Joined(Laid(104, b), Laid(224, c)))
  BY DEF hid_to_evdev
<1>2. Len(a) = 98 /\ Len(c) = 8 /\ c[1] = 29 /\ c[2] = 42
  OBVIOUS
<1>3. Len(b) = 12
  <2>1. b = [i \in 1 .. 12 |-> 183 + i - 1]
    BY DEF Span
  <2>2. b \in [1 .. 12 -> Int]
    BY <2>1
  <2> HIDE DEF b
  <2> QED
    BY <2>2, FunctionSeq
<1> HIDE DEF a, b, c
<1>4. DOMAIN Laid(4, a) = 4 .. 101 /\ DOMAIN Laid(104, b) = 104 .. 115
  BY <1>2, <1>3 DEF Laid
<1>5. DOMAIN Laid(224, c) = 224 .. 231 /\ Laid(224, c)[224] = 29 /\ Laid(224, c)[225] = 42
  BY <1>2 DEF Laid
<1>6. \A u \in {224, 225} : u \notin 4 .. 101 /\ u \notin 104 .. 115 /\ u \in 224 .. 231 /\ u < 256
  OBVIOUS
<1>7. \A u \in {224, 225} : u \in DOMAIN hid_to_evdev /\ hid_to_evdev[u] = Laid(224, c)[u]
  BY <1>1, <1>4, <1>5, <1>6 DEF Joined
<1> QED
  BY <1>5, <1>6, <1>7 DEF all_supported_keys, SupportedBelow

Printed(c) == <<KeyOf(c), c \in Shifted>>

LEMMA AsciiIs ==
  /\ DOMAIN ascii_to_hid = DOMAIN us_keys
  /\ \A c \in DOMAIN us_keys : ascii_to_hid[c].usage = us_keys[c] /\ ascii_to_hid[c].shift = (c \in Shifted)
BY DEF ascii_to_hid

\* A key and Shift or not print exactly one character.
LEMMA KeysPrint ==
  /\ \A c \in DOMAIN us_keys : KeyOf(c) \in (1 .. 57) \ Mods /\ KeyOf(c) \in all_supported_keys
  /\ \A c, d \in DOMAIN us_keys : Printed(c) = Printed(d) /\ c # 13 /\ d # 13 => c = d
  /\ Printed(13) = Printed(10)
<1>1. \A c \in DOMAIN us_keys : us_keys[c] \in (4 .. 56) \ {50} /\ us_keys[c] \in 4 .. 101
  <2> TAKE c \in DOMAIN us_keys
  <2>1. c = 8 \/ c = 9 \/ c = 10 \/ c = 13 \/ c \in 32 .. 126
    BY UsKeys
  <2>2. us_keys[8] = 42 /\ us_keys[9] = 43 /\ us_keys[10] = 40 /\ us_keys[13] = 40
    BY UsKeys
  <2>3. CASE c \in 32 .. 126
    <3>1. us_keys[c] \in (4 .. 56) \ {40, 41, 42, 43, 50}
      BY <2>3, UsKeys
    <3> QED
      BY <3>1
  <2> QED
    BY <2>1, <2>2, <2>3
<1>2. \A c \in DOMAIN us_keys : KeyOf(c) \in (1 .. 57) \ Mods /\ KeyOf(c) \in all_supported_keys
  BY <1>1, Evdev DEF KeyOf
<1>3. ASSUME NEW c \in DOMAIN us_keys, NEW d \in DOMAIN us_keys, Printed(c) = Printed(d), c # 13, d # 13 PROVE c = d
  <2>1. KeyOf(c) = KeyOf(d) /\ (c \in Shifted <=> d \in Shifted)
    BY <1>3 DEF Printed
  <2>2. us_keys[c] = us_keys[d]
    BY <1>1, <2>1, Evdev DEF KeyOf
  <2>3. c \in {8, 9, 10} \/ c \in 32 .. 126
    BY <1>3, UsKeys
  <2>4. d \in {8, 9, 10} \/ d \in 32 .. 126
    BY <1>3, UsKeys
  <2>5. CASE c \in 32 .. 126 /\ d \in 32 .. 126
    BY <2>1, <2>2, <2>5, UsKeys
  <2>6. us_keys[8] = 42 /\ us_keys[9] = 43 /\ us_keys[10] = 40
    BY UsKeys
  <2>7. \A e \in 32 .. 126 : us_keys[e] # 42 /\ us_keys[e] # 43 /\ us_keys[e] # 40
    BY UsKeys, ZenonT(30)
  <2>8. CASE c \in {8, 9, 10}
    BY <2>2, <2>4, <2>6, <2>7, <2>8
  <2>9. CASE d \in {8, 9, 10}
    BY <2>2, <2>3, <2>6, <2>7, <2>9
  <2> QED
    BY <2>3, <2>4, <2>5, <2>8, <2>9
<1>4. Printed(13) = Printed(10)
  <2>1. KeyOf(13) = KeyOf(10)
    BY UsKeys DEF KeyOf
  <2>2. 13 \notin Shifted /\ 10 \notin Shifted
    BY DEF Shifted
  <2> QED
    BY <2>1, <2>2 DEF Printed
<1> QED
  BY <1>2, <1>3, <1>4

\* What a character's key types, with Shift where the layout wants it.
LEMMA UsTypes ==
  /\ \A c \in DOMAIN us_keys : Printed(c) \in DOMAIN US /\ US[Printed(c)] = IF c = 13 THEN 10 ELSE c
  /\ \A k \in Mods : \A b : <<k, b>> \notin DOMAIN US
<1> DEFINE A == DOMAIN us_keys
<1>1. US = [k \in {Printed(c) : c \in A} |-> CHOOSE c \in A : k = Printed(c) /\ c # 13]
  <2>1. \A c \in A : <<hid_to_evdev[ascii_to_hid[c].usage], ascii_to_hid[c].shift>> = Printed(c)
    BY AsciiIs DEF Printed, KeyOf
  <2>2. DOMAIN ascii_to_hid = A
    BY AsciiIs
  <2> HIDE DEF A
  <2>3. US = [k \in {<<hid_to_evdev[ascii_to_hid[c].usage], ascii_to_hid[c].shift>> : c \in A} |->
                CHOOSE c \in A : k = <<hid_to_evdev[ascii_to_hid[c].usage], ascii_to_hid[c].shift>> /\ c # 13]
    BY <2>2 DEF US
  <2> QED
    BY <2>1, <2>3
<1>2. 10 \in A /\ 13 \in A
  BY UsKeys
<1> HIDE DEF A
<1>3. ASSUME NEW c \in A PROVE Printed(c) \in DOMAIN US /\ US[Printed(c)] = IF c = 13 THEN 10 ELSE c
  <2> DEFINE k == Printed(c)
             d == IF c = 13 THEN 10 ELSE c
  <2>1. d \in A /\ k = Printed(d) /\ d # 13
    BY <1>2, <1>3, KeysPrint
  <2>2. \A e \in A : k = Printed(e) /\ e # 13 => e = d
    BY <2>1, KeysPrint DEF A
  <2> HIDE DEF k, d
  <2>3. (CHOOSE e \in A : k = Printed(e) /\ e # 13) = d
    BY <2>1, <2>2
  <2>4. k \in {Printed(e) : e \in A}
    BY <2>1
  <2> QED
    BY <1>1, <2>3, <2>4 DEF k, d
<1>4. ASSUME NEW k \in Mods, NEW b PROVE <<k, b>> \notin DOMAIN US
  <2> SUFFICES ASSUME NEW c \in A, <<k, b>> = Printed(c) PROVE FALSE
    BY <1>1
  <2>1. k = KeyOf(c)
    BY DEF Printed
  <2> QED
    BY <1>4, <2>1, KeysPrint DEF A
<1> QED
  BY <1>3, <1>4 DEF A

\* The state at the system while a text is typed on Linux: which modifiers are down, and what is being entered.
Lin(p, m, t, h) == IsState(p) /\ p.text = t /\ p.hex = h /\ p.down \cap Mods = m
Leads(events, m, h, n, k, t) ==
    IsSequence(events) /\ t \in Seq(Nat)
    /\ \A s \in Seq(Nat) : \A p : Lin(p, m, s, h) => \E q : Fed(p, events, q) /\ Lin(q, n, s \o t, k)

\* Events that lead from a state to the next, and from there on.
LEMMA LeadsConcat ==
  ASSUME NEW a, NEW b, NEW s, NEW t, NEW m, NEW n, NEW o, NEW h, NEW k, NEW l, Leads(a, m, h, n, k, s), Leads(b, n, k, o, l, t)
  PROVE  Leads(a \o b, m, h, o, l, s \o t)
<1>1. IsSequence(a \o b) /\ s \o t \in Seq(Nat)
  BY ConcatSequence, ConcatProperties DEF Leads
<1>2. ASSUME NEW x \in Seq(Nat), NEW p, Lin(p, m, x, h) PROVE \E q : Fed(p, a \o b, q) /\ Lin(q, o, x \o (s \o t), l)
  <2>1. PICK q : Fed(p, a, q) /\ Lin(q, n, x \o s, k)
    BY <1>2 DEF Leads
  <2>2. x \o s \in Seq(Nat) /\ (x \o s) \o t = x \o (s \o t)
    BY DEF Leads
  <2>3. PICK r : Fed(q, b, r) /\ Lin(r, o, (x \o s) \o t, l)
    BY <2>1, <2>2 DEF Leads
  <2>4. Fed(p, a \o b, r)
    BY <2>1, <2>3, FedConcat DEF Leads
  <2> QED
    BY <2>2, <2>3, <2>4
<1> QED
  BY <1>1, <1>2 DEF Leads

LEMMA LeadsOn ==
  ASSUME NEW a, NEW b, NEW t, NEW m, NEW n, NEW o, NEW h, NEW k, NEW l, Leads(a, m, h, n, k, <<>>), Leads(b, n, k, o, l, t)
  PROVE  Leads(a \o b, m, h, o, l, t)
<1>1. <<>> \o t = t
  BY DEF Leads
<1>2. Leads(a \o b, m, h, o, l, <<>> \o t)
  BY LeadsConcat
<1> QED
  BY <1>1, <1>2

\* Events that lead from rest to rest type what they add.
LEMMA LeadsTypes ==
  ASSUME NEW a, NEW t, system.os = "Linux", Leads(a, {}, NotEntering, {}, NotEntering, t) PROVE Types(a, t)
<1>1. \A p, s : AtRest(p, s) <=> Lin(p, {}, s, NotEntering)
  BY DEF AtRest, Lin
<1> QED
  BY <1>1 DEF Leads, Types

\* A key that comes up types nothing.
LEMMA LeadsUp ==
  ASSUME NEW k \in all_supported_keys, NEW m, NEW h, system.os = "Linux"
  PROVE  Leads(<<key_event(k, FALSE)>>, m, h, m \ {k}, h, <<>>)
<1> DEFINE e == key_event(k, FALSE)
<1>1. e.key = k /\ e.isDown = FALSE
  BY DEF key_event, Event
<1> HIDE DEF e
<1>2. ASSUME NEW s \in Seq(Nat), NEW p, Lin(p, m, s, h) PROVE \E q : Fed(p, <<e>>, q) /\ Lin(q, m \ {k}, s \o <<>>, h)
  <2>1. Feels(p, e) = [p EXCEPT !.down = p.down \ {k}]
    BY <1>1 DEF Feels
  <2>2. Lin(Feels(p, e), m \ {k}, s, h)
    BY <1>2, <2>1 DEF Lin, IsState
  <2>3. Fed(p, <<e>>, Feels(p, e)) /\ s \o <<>> = s
    BY FedOne
  <2> QED
    BY <2>2, <2>3
<1>3. IsSequence(<<e>>) /\ <<>> \in Seq(Nat)
  BY Single
<1>4. Leads(<<e>>, m, h, m \ {k}, h, <<>>)
  BY <1>2, <1>3 DEF Leads
<1> QED
  BY <1>4 DEF e

\* A key that goes down does what the modifiers make of it.
LEMMA LeadsDown ==
  ASSUME NEW k \in all_supported_keys, NEW m, NEW h, NEW l, NEW t \in Seq(Nat), system.os = "Linux",
         \A s \in Seq(Nat) : \A p : Lin(p, m, s, h) => PressedOnLinux(p, k).text = s \o t /\ PressedOnLinux(p, k).hex = l
  PROVE  Leads(<<key_event(k, TRUE)>>, m, h, m \cup ({k} \cap Mods), l, t)
<1> DEFINE e == key_event(k, TRUE)
           n == m \cup ({k} \cap Mods)
<1>1. e.key = k /\ e.isDown = TRUE
  BY DEF key_event, Event
<1> HIDE DEF e
<1>2. ASSUME NEW s \in Seq(Nat), NEW p, Lin(p, m, s, h) PROVE \E q : Fed(p, <<e>>, q) /\ Lin(q, n, s \o t, l)
  <2> DEFINE felt == PressedOnLinux(p, k)
  <2>1. Alike(felt, p) /\ felt.text = s \o t /\ felt.hex = l
    BY <1>2, LinuxTypes DEF Lin
  <2>2. Feels(p, e) = [felt EXCEPT !.down = felt.down \cup {k}]
    BY <1>1 DEF Feels
  <2> HIDE DEF felt
  <2>3. Lin(Feels(p, e), n, s \o t, l)
    BY <1>2, <2>1, <2>2 DEF Lin, IsState, Alike
  <2>4. Fed(p, <<e>>, Feels(p, e))
    BY FedOne
  <2> QED
    BY <2>3, <2>4
<1>3. IsSequence(<<e>>)
  BY Single
<1>4. Leads(<<e>>, m, h, n, l, t)
  BY <1>2, <1>3 DEF Leads
<1> QED
  BY <1>4 DEF e

\* What a key yields with some modifiers down, Control not among them.
Yields(m, k, c) ==
    m \cap {29, 97} = {}
    /\ c = IF <<k, m \cap {42, 54} # {}>> \in DOMAIN US THEN US[<<k, m \cap {42, 54} # {}>>] ELSE 0

\* Without Control and outside an entry a key that yields a character types it.
LEMMA PressedPlain ==
  ASSUME NEW p, NEW m, NEW s, NEW h, NEW k, NEW c, Lin(p, m, s, h), Yields(m, k, c)
  PROVE  /\ c = 0 => PressedOnLinux(p, k).text = s /\ PressedOnLinux(p, k).hex = h
         /\ c # 0 /\ h = NotEntering => PressedOnLinux(p, k).text = Append(s, c) /\ PressedOnLinux(p, k).hex = h
         /\ c # 0 /\ h # NotEntering /\ Hex(c) < 16 => PressedOnLinux(p, k).text = s /\ PressedOnLinux(p, k).hex = Append(h, Hex(c))
         /\ c # 0 /\ h # NotEntering /\ ~(Hex(c) < 16) =>
              PressedOnLinux(p, k).text = Append(s, Number(h)) /\ PressedOnLinux(p, k).hex = NotEntering
<1> DEFINE shift == p.down \cap {42, 54} # {}
           b == m \cap {42, 54} # {}
           pressed == PressedOnLinux(p, k)
           append == Append(p.text, c)
           digits == Append(p.hex, Hex(c))
<1>1. p.text = s /\ p.hex = h /\ IsState(p)
  BY DEF Lin
<1>2. p.down \cap {29, 97} = {} /\ (p.down \cap {42, 54} # {} <=> m \cap {42, 54} # {})
  BY DEF Lin, Mods, Yields
<1>3. shift = b
  BY <1>2
<1>4. pressed = LET d == IF <<k, shift>> \in DOMAIN US THEN US[<<k, shift>>] ELSE 0
                IN IF d = 0 THEN p
                   ELSE IF p.hex = NotEntering THEN [p EXCEPT !.text = Append(p.text, d)]
                   ELSE IF Hex(d) < 16 THEN [p EXCEPT !.hex = Append(p.hex, Hex(d))]
                   ELSE [down |-> p.down, text |-> Append(p.text, Number(p.hex)), hex |-> NotEntering]
  BY <1>2 DEF PressedOnLinux
<1>5. c = IF <<k, shift>> \in DOMAIN US THEN US[<<k, shift>>] ELSE 0
  <2>1. c = IF <<k, b>> \in DOMAIN US THEN US[<<k, b>>] ELSE 0
    BY DEF Yields
  <2> QED
    BY <1>3, <2>1
<1> HIDE DEF shift, pressed
<1>6. pressed = IF c = 0 THEN p
                ELSE IF p.hex = NotEntering THEN [p EXCEPT !.text = append]
                ELSE IF Hex(c) < 16 THEN [p EXCEPT !.hex = digits]
                ELSE [down |-> p.down, text |-> Append(p.text, Number(p.hex)), hex |-> NotEntering]
  BY <1>4, <1>5
<1> HIDE DEF append, digits
<1>7. /\ [p EXCEPT !.text = append] = [down |-> p.down, text |-> append, hex |-> p.hex]
      /\ [p EXCEPT !.hex = digits] = [down |-> p.down, text |-> p.text, hex |-> digits]
  BY <1>1, Rewritten
<1>8. append = Append(s, c) /\ digits = Append(h, Hex(c))
  BY <1>1 DEF append, digits
<1>9. /\ c = 0 => pressed.text = s /\ pressed.hex = h
      /\ c # 0 /\ h = NotEntering => pressed.text = append /\ pressed.hex = h
      /\ c # 0 /\ h # NotEntering /\ Hex(c) < 16 => pressed.text = s /\ pressed.hex = digits
      /\ c # 0 /\ h # NotEntering /\ ~(Hex(c) < 16) => pressed.text = Append(s, Number(h)) /\ pressed.hex = NotEntering
  BY <1>1, <1>6, <1>7
<1> QED
  BY <1>8, <1>9 DEF pressed

\* Shift goes down and up.
LEMMA LeadsModifier ==
  ASSUME NEW k \in {29, 42}, system.os = "Linux"
  PROVE  Leads(<<key_event(k, TRUE)>>, {}, NotEntering, {k}, NotEntering, <<>>)
<1>1. k \in all_supported_keys /\ {} \cup ({k} \cap Mods) = {k}
  BY EntryKeys DEF Mods
<1>5. Yields({}, k, 0)
  <2>1. {} \cap {29, 97} = {} /\ ({} \cap {42, 54} # {}) = FALSE
    OBVIOUS
  <2>2. <<k, FALSE>> \notin DOMAIN US
    BY UsTypes DEF Mods
  <2> QED
    BY <2>1, <2>2 DEF Yields
<1>2. ASSUME NEW s \in Seq(Nat), NEW p, Lin(p, {}, s, NotEntering)
      PROVE  PressedOnLinux(p, k).text = s \o <<>> /\ PressedOnLinux(p, k).hex = NotEntering
  <2>4. PressedOnLinux(p, k).text = s /\ PressedOnLinux(p, k).hex = NotEntering
    BY <1>2, <1>5, PressedPlain
  <2>5. s \o <<>> = s
    OBVIOUS
  <2> QED
    BY <2>4, <2>5
<1>3. <<>> \in Seq(Nat)
  OBVIOUS
<1>4. Leads(<<key_event(k, TRUE)>>, {}, NotEntering, {} \cup ({k} \cap Mods), NotEntering, <<>>)
  BY <1>1, <1>2, <1>3, LeadsDown
<1> QED
  BY <1>1, <1>4

\* Control goes down and up outside an entry.
LEMMA LeadsControl ==
  ASSUME system.os = "Linux"
  PROVE  /\ Leads(<<key_event(42, TRUE)>>, {29}, NotEntering, {29, 42}, NotEntering, <<>>)
         /\ Leads(<<key_event(22, TRUE)>>, {29, 42}, NotEntering, {29, 42}, <<>>, <<>>)
<1>1. 42 \in all_supported_keys /\ 22 \in all_supported_keys
  BY EntryKeys, Evdev
<1>2. {29} \cup ({42} \cap Mods) = {29, 42} /\ {29, 42} \cup ({22} \cap Mods) = {29, 42}
  BY DEF Mods
<1>3. <<>> \in Seq(Nat) /\ \A s \in Seq(Nat) : s \o <<>> = s
  OBVIOUS
<1>4. ASSUME NEW s \in Seq(Nat), NEW p, Lin(p, {29}, s, NotEntering)
      PROVE  PressedOnLinux(p, 42).text = s \o <<>> /\ PressedOnLinux(p, 42).hex = NotEntering
  <2>1. p.down \cap {29, 97} # {} /\ p.text = s /\ p.hex = NotEntering
    BY <1>4 DEF Lin, Mods
  <2>2. PressedOnLinux(p, 42) = p
    BY <2>1 DEF PressedOnLinux
  <2> QED
    BY <1>3, <2>1, <2>2
<1>5. ASSUME NEW s \in Seq(Nat), NEW p, Lin(p, {29, 42}, s, NotEntering)
      PROVE  PressedOnLinux(p, 22).text = s \o <<>> /\ PressedOnLinux(p, 22).hex = <<>>
  <2> DEFINE none == <<>>
  <2>1. p.down \cap {29, 97} # {} /\ p.down \cap {42, 54} # {} /\ p.text = s /\ IsState(p)
    BY <1>5 DEF Lin, Mods
  <2>2. PressedOnLinux(p, 22) = [p EXCEPT !.hex = none]
    BY <2>1 DEF PressedOnLinux
  <2> HIDE DEF none
  <2>3. [p EXCEPT !.hex = none] = [down |-> p.down, text |-> p.text, hex |-> none]
    BY <2>1, Rewritten
  <2>4. PressedOnLinux(p, 22).text = s /\ PressedOnLinux(p, 22).hex = none
    BY <2>1, <2>2, <2>3
  <2> QED
    BY <1>3, <2>4 DEF none
<1>6. Leads(<<key_event(42, TRUE)>>, {29}, NotEntering, {29} \cup ({42} \cap Mods), NotEntering, <<>>)
  BY <1>1, <1>3, <1>4, LeadsDown
<1>7. Leads(<<key_event(22, TRUE)>>, {29, 42}, NotEntering, {29, 42} \cup ({22} \cap Mods), <<>>, <<>>)
  BY <1>1, <1>3, <1>5, LeadsDown
<1> QED
  BY <1>2, <1>6, <1>7

ShiftFor(c) == IF c \in Shifted THEN {42} ELSE {}

\* With its Shift a key yields its character.
LEMMA KeyDown ==
  ASSUME NEW c \in DOMAIN us_keys
  PROVE  /\ KeyOf(c) \in all_supported_keys /\ ShiftFor(c) \cup ({KeyOf(c)} \cap Mods) = ShiftFor(c)
         /\ c \in Nat /\ c # 0 /\ Yields(ShiftFor(c), KeyOf(c), IF c = 13 THEN 10 ELSE c)
<1>1. KeyOf(c) \in all_supported_keys /\ KeyOf(c) \notin Mods
  BY KeysPrint
<1>2. c \in Nat /\ c # 0
  <2>1. DOMAIN us_keys = {8, 9, 10, 13} \cup (32 .. 126)
    BY UsKeys
  <2> QED
    BY <2>1
<1> DEFINE b == c \in Shifted
           d == ShiftFor(c) \cap {42, 54} # {}
           t == IF c = 13 THEN 10 ELSE c
           k == KeyOf(c)
<1>3. b = d /\ ShiftFor(c) \cap {29, 97} = {}
  BY DEF ShiftFor
<1>4. <<k, b>> \in DOMAIN US /\ US[<<k, b>>] = t
  BY UsTypes DEF Printed
<1> HIDE DEF b, d, t, k
<1>5. t = IF <<k, d>> \in DOMAIN US THEN US[<<k, d>>] ELSE 0
  BY <1>3, <1>4
<1>6. Yields(ShiftFor(c), k, t)
  BY <1>3, <1>5 DEF Yields, d
<1> QED
  BY <1>1, <1>2, <1>6 DEF ShiftFor, k, t

\* What a key does when no code point is being entered, and what it does when one is.
LEMMA LeadsKey ==
  ASSUME NEW c \in DOMAIN us_keys, system.os = "Linux"
  PROVE  Leads(<<key_event(KeyOf(c), TRUE)>>, ShiftFor(c), NotEntering, ShiftFor(c), NotEntering, <<IF c = 13 THEN 10 ELSE c>>)
<1> DEFINE k == KeyOf(c)
           m == ShiftFor(c)
           t == IF c = 13 THEN 10 ELSE c
<1>1. k \in all_supported_keys /\ m \cup ({k} \cap Mods) = m /\ t \in Nat /\ t # 0 /\ Yields(m, k, t)
  BY KeyDown
<1> HIDE DEF k, m, t
<1>2. ASSUME NEW s \in Seq(Nat), NEW p, Lin(p, m, s, NotEntering)
      PROVE  PressedOnLinux(p, k).text = s \o <<t>> /\ PressedOnLinux(p, k).hex = NotEntering
  <2>1. PressedOnLinux(p, k).text = Append(s, t) /\ PressedOnLinux(p, k).hex = NotEntering
    BY <1>1, <1>2, PressedPlain
  <2>2. Append(s, t) = s \o <<t>>
    BY <1>1
  <2> QED
    BY <2>1, <2>2
<1>3. <<t>> \in Seq(Nat)
  BY <1>1
<1>4. Leads(<<key_event(k, TRUE)>>, m, NotEntering, m \cup ({k} \cap Mods), NotEntering, <<t>>)
  BY <1>1, <1>2, <1>3, LeadsDown
<1> QED
  BY <1>1, <1>4 DEF k, m, t

\* Within an entry a digit is one more digit.
LEMMA LeadsDigit ==
  ASSUME NEW c \in DOMAIN us_keys, c \notin Shifted, c # 13, Hex(c) < 16, NEW x, x # NotEntering, system.os = "Linux"
  PROVE  Leads(<<key_event(KeyOf(c), TRUE)>>, {}, x, {}, Append(x, Hex(c)), <<>>)
<1> DEFINE k == KeyOf(c)
           m == {}
           y == Append(x, Hex(c))
<1>1. k \in all_supported_keys /\ m \cup ({k} \cap Mods) = m /\ c # 0 /\ Yields(m, k, c)
  BY KeyDown DEF ShiftFor
<1> HIDE DEF k, m
<1>2. ASSUME NEW s \in Seq(Nat), NEW p, Lin(p, m, s, x)
      PROVE  PressedOnLinux(p, k).text = s \o <<>> /\ PressedOnLinux(p, k).hex = y
  <2>1. PressedOnLinux(p, k).text = s /\ PressedOnLinux(p, k).hex = Append(x, Hex(c))
    BY <1>1, <1>2, PressedPlain
  <2>2. s \o <<>> = s
    OBVIOUS
  <2> QED
    BY <2>1, <2>2
<1> HIDE DEF y
<1>3. <<>> \in Seq(Nat)
  OBVIOUS
<1>4. Leads(<<key_event(k, TRUE)>>, m, x, m \cup ({k} \cap Mods), y, <<>>)
  BY <1>1, <1>2, <1>3, LeadsDown
<1> QED
  BY <1>1, <1>4 DEF k, y, m

\* Space needs no Shift and is no digit.
LEMMA SpaceKey == 32 \in DOMAIN us_keys /\ KeyOf(32) = 57 /\ ShiftFor(32) = {} /\ ~(Hex(32) < 16)
<1> DEFINE a == <<44,30,52,32,33,34,36,52,38,39,37,46,54,45,55,56, 39,30,31,32,33,34,35,36,37,38,
              51,51,54,46,55,56,31, 4,5,6,7,8,9,10,11,12,13,14,15,16,17,18,19,20,21,22,23,24,25,26,27,28,29,
              47,49,48,35,45,53, 4,5,6,7,8,9,10,11,12,13,14,15,16,17,18,19,20,21,22,23,24,25,26,27,28,29,
              47,49,48,53>>
           f == Joined(Laid(8, <<42,43,40>>), Laid(13, <<40>>))
<1>1. us_keys = Joined(Laid(32, a), f)
  BY DEF us_keys
<1>2. Len(a) = 95 /\ a[1] = 44
  OBVIOUS
<1> HIDE DEF a, f
<1>3. DOMAIN Laid(32, a) = 32 .. 126 /\ Laid(32, a)[32] = a[1]
  BY <1>2 DEF Laid
<1>4. us_keys[32] = 44 /\ 32 \in DOMAIN us_keys
  BY <1>1, <1>2, <1>3 DEF Joined
<1> QED
  BY <1>4, Evdev DEF KeyOf, ShiftFor, Shifted, Hex

\* Space ends the entry, and the code point is typed.
LEMMA LeadsSpace ==
  ASSUME NEW x, x # NotEntering, Number(x) \in Nat, system.os = "Linux"
  PROVE  Leads(<<key_event(57, TRUE)>>, {}, x, {}, NotEntering, <<Number(x)>>)
<1> DEFINE c == 32
           m == {}
           t == Number(x)
<1>1. 57 \in all_supported_keys /\ m \cup ({57} \cap Mods) = m /\ c # 0 /\ Yields(m, 57, c) /\ ~(Hex(c) < 16)
  BY SpaceKey, KeyDown
<1> HIDE DEF c, m, t
<1>2. ASSUME NEW s \in Seq(Nat), NEW p, Lin(p, m, s, x)
      PROVE  PressedOnLinux(p, 57).text = s \o <<t>> /\ PressedOnLinux(p, 57).hex = NotEntering
  <2>1. PressedOnLinux(p, 57).text = Append(s, Number(x)) /\ PressedOnLinux(p, 57).hex = NotEntering
    BY <1>1, <1>2, PressedPlain
  <2>2. Append(s, t) = s \o <<t>>
    BY DEF t
  <2> QED
    BY <2>1, <2>2 DEF t
<1>3. <<t>> \in Seq(Nat)
  BY DEF t
<1>4. Leads(<<key_event(57, TRUE)>>, m, x, m \cup ({57} \cap Mods), NotEntering, <<t>>)
  BY <1>1, <1>2, <1>3, LeadsDown
<1> QED
  BY <1>1, <1>4 DEF t, m

\* Keys tapped one after the other.
KeyAfter(more, codes, k) ==
    /\ IsSequence(codes) /\ IsSequence(more) /\ Len(more) = Len(codes) + 1
    /\ (\A i \in 1 .. Len(codes) : more[i] = codes[i]) /\ more[Len(codes) + 1] = k

\* One key more is tapped after the others.
LEMMA TapMore ==
  ASSUME NEW more, NEW codes, NEW k, KeyAfter(more, codes, k)
  PROVE  tap_codes(more) = tap_codes(codes) \o (<<key_event(k, TRUE)>> \o <<key_event(k, FALSE)>>)
<1> DEFINE n == Len(codes)
           a == key_event(k, TRUE)
           b == key_event(k, FALSE)
           s == tap_codes(codes)
           t == tap_codes(more)
           w == <<a>> \o <<b>>
<1>1. n \in Nat /\ Len(more) = n + 1 /\ (\A i \in 1 .. n : more[i] = codes[i]) /\ more[n + 1] = k
  BY SequenceFacts DEF KeyAfter
<1>2. s = [i \in 1 .. 2 * n |-> key_event(codes[(i + 1) \div 2], i % 2 = 1)]
  BY DEF tap_codes
<1>3. t = [i \in 1 .. 2 * (n + 1) |-> key_event(more[(i + 1) \div 2], i % 2 = 1)]
  BY <1>1 DEF tap_codes
<1>4. IsTwo(w, a, b)
  <2> DEFINE v == <<a, b>>
  <2>1. w = v /\ IsTwo(v, a, b)
    BY TwoOnes, IsTwoOf
  <2> HIDE DEF v, w
  <2> QED
    BY <2>1
<1> HIDE DEF n, s, t, w
<1>5. \A i \in 1 .. 2 * n : t[i] = s[i]
  <2> TAKE i \in 1 .. 2 * n
  <2>1. (i + 1) \div 2 \in 1 .. n /\ i \in 1 .. 2 * (n + 1)
    BY <1>1
  <2>2. more[(i + 1) \div 2] = codes[(i + 1) \div 2]
    BY <1>1, <2>1
  <2> QED
    BY <1>2, <1>3, <2>1, <2>2
<1>6. t[2 * n + 1] = a /\ t[2 * n + 2] = b
  <2> DEFINE i == 2 * n + 1
             j == 2 * n + 2
  <2>1. /\ i \in 1 .. 2 * (n + 1) /\ (i + 1) \div 2 = n + 1 /\ (i % 2 = 1) = TRUE
        /\ j \in 1 .. 2 * (n + 1) /\ (j + 1) \div 2 = n + 1 /\ (j % 2 = 1) = FALSE
    BY <1>1
  <2> HIDE DEF i, j
  <2>2. t[i] = key_event(more[(i + 1) \div 2], i % 2 = 1) /\ t[j] = key_event(more[(j + 1) \div 2], j % 2 = 1)
    BY <1>3, <2>1
  <2>3. t[i] = a /\ t[j] = b
    BY <1>1, <2>1, <2>2, Zenon
  <2> QED
    BY <2>3 DEF i, j
<1> HIDE DEF a, b
<1>7. s = [i \in 1 .. 2 * n |-> s[i]] /\ t = [i \in 1 .. 2 * (n + 1) |-> t[i]]
  BY <1>2, <1>3
<1>8. IsSequence(s) /\ Len(s) = 2 * n /\ IsSequence(t) /\ Len(t) = 2 * (n + 1)
  <2>1. 2 * n \in Nat /\ 2 * (n + 1) \in Nat
    BY <1>1
  <2> QED
    BY <1>7, <2>1, FunctionIsSequence
<1>9. PairAfter(t, s, a, b)
  BY <1>1, <1>5, <1>6, <1>8 DEF PairAfter
<1>10. t = s \o w
  BY <1>4, <1>9, PairMore
<1> QED
  BY <1>10 DEF t, s, w, a, b

LEMMA TapNothing == tap_codes(<<>>) = <<>>
<1>1. Len(<<>>) = 0 /\ 1 .. 2 * 0 = {}
  OBVIOUS
<1> QED
  BY <1>1 DEF tap_codes

LEMMA TapOne == ASSUME NEW k PROVE tap_codes(<<k>>) = <<key_event(k, TRUE)>> \o <<key_event(k, FALSE)>>
<1> DEFINE w == <<key_event(k, TRUE)>> \o <<key_event(k, FALSE)>>
           none == <<>>
           one == <<k>>
<1>1. Len(none) = 0 /\ 1 .. 0 = {} /\ Len(one) = 1 /\ one[1] = k
  OBVIOUS
<1>2. IsSequence(none) /\ IsSequence(one)
  BY Single, TypesNothing DEF Types
<1>3. IsSequence(w)
  <2> DEFINE u == key_event(k, TRUE)
             v == key_event(k, FALSE)
  <2> HIDE DEF u, v
  <2>1. IsSequence(<<u>>) /\ IsSequence(<<v>>)
    BY Single
  <2>2. IsSequence(<<u>> \o <<v>>)
    BY <2>1, ConcatSequence, Zenon
  <2> QED
    BY <2>2 DEF u, v
<1>4. tap_codes(none) = none
  BY TapNothing
<1> HIDE DEF none, one, w
<1>5. KeyAfter(one, none, k)
  BY <1>1, <1>2 DEF KeyAfter
<1>6. tap_codes(one) = tap_codes(none) \o w
  BY <1>5, TapMore DEF w
<1>7. none \o w = w
  <2>1. w \in Seq(Elements(w))
    BY <1>3 DEF IsSequence
  <2> QED
    BY <2>1, ConcatEmptySeq DEF none
<1> QED
  BY <1>4, <1>6, <1>7 DEF w, one

\* A key that is tapped.
LEMMA LeadsTap ==
  ASSUME NEW k \in all_supported_keys, NEW m, NEW h, NEW l, NEW t, k \notin m, system.os = "Linux",
         Leads(<<key_event(k, TRUE)>>, m, h, m, l, t)
  PROVE  Leads(<<key_event(k, TRUE)>> \o <<key_event(k, FALSE)>>, m, h, m, l, t)
<1>1. m \ {k} = m
  OBVIOUS
<1>2. Leads(<<key_event(k, FALSE)>>, m, l, m, l, <<>>)
  BY <1>1, LeadsUp
<1>3. Leads(<<key_event(k, TRUE)>> \o <<key_event(k, FALSE)>>, m, h, m, l, t \o <<>>)
  BY <1>2, LeadsConcat
<1>4. t \o <<>> = t
  BY DEF Leads
<1> QED
  BY <1>3, <1>4

\* A character as a key.
LEMMA KeyTypes ==
  ASSUME NEW c \in DOMAIN us_keys, system.os = "Linux"
  PROVE  Types(IF c \in Shifted THEN Downs(<<42>>) \o tap_codes(<<KeyOf(c)>>) \o Ups(<<42>>) ELSE tap_codes(<<KeyOf(c)>>),
               <<IF c = 13 THEN 10 ELSE c>>)
<1> DEFINE k == KeyOf(c)
           t == <<IF c = 13 THEN 10 ELSE c>>
           m == ShiftFor(c)
           tap == tap_codes(<<k>>)
<1>1. k \in all_supported_keys /\ k \notin m
  BY KeysPrint DEF ShiftFor, Mods
<1>2. Leads(<<key_event(k, TRUE)>>, m, NotEntering, m, NotEntering, t)
  BY LeadsKey
<1> HIDE DEF k, t
<1>3. tap = <<key_event(k, TRUE)>> \o <<key_event(k, FALSE)>>
  BY TapOne
<1>4. Leads(tap, m, NotEntering, m, NotEntering, t)
  BY <1>1, <1>2, <1>3, LeadsTap
<1> HIDE DEF tap, m
<1>5. CASE c \notin Shifted
  <2>1. m = {}
    BY <1>5 DEF m, ShiftFor
  <2>2. Types(tap, t)
    BY <1>4, <2>1, LeadsTypes
  <2> QED
    BY <1>5, <2>2 DEF tap, k, t
<1>6. CASE c \in Shifted
  <2> DEFINE d == Downs(<<42>>)
             u == Ups(<<42>>)
  <2>1. m = {42}
    BY <1>6 DEF m, ShiftFor
  <2>2. d = <<key_event(42, TRUE)>> /\ u = <<key_event(42, FALSE)>>
    <3>1. DOMAIN <<42>> = 1 .. 1 /\ <<42>>[1] = 42 /\ 1 .. 1 = {1}
      OBVIOUS
    <3>2. d = [i \in {1} |-> key_event(42, TRUE)] /\ u = [i \in {1} |-> key_event(42, FALSE)]
      BY <3>1 DEF Downs, Ups
    <3>3. \A x : [i \in {1} |-> x] = <<x>>
      OBVIOUS
    <3> QED
      BY <3>2, <3>3
  <2> HIDE DEF d, u
  <2>3. Leads(d, {}, NotEntering, m, NotEntering, <<>>)
    BY <2>1, <2>2, LeadsModifier
  <2>4. Leads(u, m, NotEntering, {}, NotEntering, <<>>)
    <3>1. {42} \ {42} = {}
      OBVIOUS
    <3>2. 42 \in all_supported_keys
      BY EntryKeys
    <3>3. Leads(<<key_event(42, FALSE)>>, {42}, NotEntering, {42} \ {42}, NotEntering, <<>>)
      BY <3>2, LeadsUp
    <3> QED
      BY <2>1, <2>2, <3>1, <3>3
  <2>5. Leads(d \o tap, {}, NotEntering, m, NotEntering, t)
    BY <1>4, <2>3, LeadsOn
  <2>6. Leads((d \o tap) \o u, {}, NotEntering, {}, NotEntering, t \o <<>>)
    BY <2>4, <2>5, LeadsConcat
  <2>7. t \o <<>> = t
    BY <1>4 DEF Leads
  <2>8. Types((d \o tap) \o u, t)
    BY <2>6, <2>7, LeadsTypes
  <2> QED
    BY <1>6, <2>8 DEF d, u, tap, k, t
<1> QED
  BY <1>5, <1>6

\* Three keys down, and up in the opposite order.
LEMMA ChordOfThree ==
  ASSUME NEW a, NEW b, NEW c
  PROVE  chord_events(<<a, b, c>>) =
           ((<<key_event(a, TRUE)>> \o <<key_event(b, TRUE)>>) \o <<key_event(c, TRUE)>>)
           \o ((<<key_event(c, FALSE)>> \o <<key_event(b, FALSE)>>) \o <<key_event(a, FALSE)>>)
<1> DEFINE codes == <<a, b, c>>
           back == Reverse(codes)
           d == Downs(codes)
           u == Ups(back)
<1>1. codes \in Seq({a, b, c}) /\ DOMAIN codes = 1 .. 3 /\ Len(codes) = 3 /\ codes[1] = a /\ codes[2] = b /\ codes[3] = c
  OBVIOUS
<1>2. back = [i \in 1 .. 3 |-> codes[(3 - i) + 1]]
  BY <1>1 DEF Reverse
<1> HIDE DEF codes
<1>3. DOMAIN back = 1 .. 3 /\ back[1] = c /\ back[2] = b /\ back[3] = a
  BY <1>1, <1>2
<1> HIDE DEF back
<1>4. d = [i \in 1 .. 3 |-> key_event(codes[i], TRUE)] /\ u = [i \in 1 .. 3 |-> key_event(back[i], FALSE)]
  BY <1>1, <1>3 DEF Downs, Ups
<1> HIDE DEF d, u
<1>5. d = [i \in 1 .. 3 |-> d[i]] /\ u = [i \in 1 .. 3 |-> u[i]] /\ 3 \in Nat
  BY <1>4
<1>6. IsSequence(d) /\ Len(d) = 3 /\ IsSequence(u) /\ Len(u) = 3
  BY <1>5, FunctionIsSequence
<1>7. 1 \in 1 .. 3 /\ 2 \in 1 .. 3 /\ 3 \in 1 .. 3
  OBVIOUS
<1>8. /\ d[1] = key_event(a, TRUE) /\ d[2] = key_event(b, TRUE) /\ d[3] = key_event(c, TRUE)
      /\ u[1] = key_event(c, FALSE) /\ u[2] = key_event(b, FALSE) /\ u[3] = key_event(a, FALSE)
  <2>1. d[1] = key_event(codes[1], TRUE) /\ d[2] = key_event(codes[2], TRUE) /\ d[3] = key_event(codes[3], TRUE)
    BY <1>4, <1>7
  <2>2. u[1] = key_event(back[1], FALSE) /\ u[2] = key_event(back[2], FALSE) /\ u[3] = key_event(back[3], FALSE)
    BY <1>4, <1>7
  <2> QED
    BY <1>1, <1>3, <2>1, <2>2
<1>9. IsThree(d, key_event(a, TRUE), key_event(b, TRUE), key_event(c, TRUE))
      /\ IsThree(u, key_event(c, FALSE), key_event(b, FALSE), key_event(a, FALSE))
  BY <1>6, <1>8 DEF IsThree
<1>10. d = (<<key_event(a, TRUE)>> \o <<key_event(b, TRUE)>>) \o <<key_event(c, TRUE)>>
  BY <1>9, ThreeOnes
<1>11. u = (<<key_event(c, FALSE)>> \o <<key_event(b, FALSE)>>) \o <<key_event(a, FALSE)>>
  BY <1>9, ThreeOnes
<1>12. chord_events(codes) = d \o u
  BY DEF chord_events, d, u, back
<1> QED
  BY <1>10, <1>11, <1>12 DEF codes

\* Ctrl+Shift+U begins an entry.
LEMMA LeadsEntry == ASSUME system.os = "Linux" PROVE Leads(chord_events(<<29, 42, 22>>), {}, NotEntering, {}, <<>>, <<>>)
<1>1. 29 \in all_supported_keys /\ 42 \in all_supported_keys /\ 22 \in all_supported_keys
  BY EntryKeys, Evdev
<1>2. {29, 42} \ {22} = {29, 42} /\ {29, 42} \ {42} = {29} /\ {29} \ {29} = {}
  OBVIOUS
<1> DEFINE d29 == <<key_event(29, TRUE)>>
           d42 == <<key_event(42, TRUE)>>
           d22 == <<key_event(22, TRUE)>>
           u29 == <<key_event(29, FALSE)>>
           u42 == <<key_event(42, FALSE)>>
           u22 == <<key_event(22, FALSE)>>
           none == <<>>
<1>3. Leads(d29, {}, NotEntering, {29}, NotEntering, none)
  BY LeadsModifier
<1>4. Leads(d42, {29}, NotEntering, {29, 42}, NotEntering, none) /\ Leads(d22, {29, 42}, NotEntering, {29, 42}, none, none)
  BY LeadsControl
<1>5. /\ Leads(u22, {29, 42}, none, {29, 42}, none, none)
      /\ Leads(u42, {29, 42}, none, {29}, none, none)
      /\ Leads(u29, {29}, none, {}, none, none)
  <2>1. /\ Leads(u22, {29, 42}, none, {29, 42} \ {22}, none, none)
        /\ Leads(u42, {29, 42}, none, {29, 42} \ {42}, none, none)
        /\ Leads(u29, {29}, none, {29} \ {29}, none, none)
    BY <1>1, LeadsUp
  <2> HIDE DEF u29, u42, u22, none
  <2> QED
    BY <1>2, <2>1
<1>6. chord_events(<<29, 42, 22>>) = ((d29 \o d42) \o d22) \o ((u22 \o u42) \o u29)
  BY ChordOfThree
<1> HIDE DEF d29, d42, d22, u29, u42, u22
<1>7. Leads(d29 \o d42, {}, NotEntering, {29, 42}, NotEntering, none)
  BY <1>3, <1>4, LeadsOn
<1>8. Leads((d29 \o d42) \o d22, {}, NotEntering, {29, 42}, none, none)
  BY <1>4, <1>7, LeadsOn
<1>9. Leads(u22 \o u42, {29, 42}, none, {29}, none, none)
  BY <1>5, LeadsOn
<1>10. Leads((u22 \o u42) \o u29, {29, 42}, none, {}, none, none)
  BY <1>5, <1>9, LeadsOn
<1>11. Leads(((d29 \o d42) \o d22) \o ((u22 \o u42) \o u29), {}, NotEntering, {}, none, none)
  BY <1>8, <1>10, LeadsOn
<1> QED
  BY <1>6, <1>11

\* The key of a digit yields it.
LEMMA DigitIs ==
  ASSUME NEW d \in 0 .. 15
  PROVE  \E c \in DOMAIN us_keys : DigitKey(d) = KeyOf(c) /\ c \notin Shifted /\ c # 13 /\ Hex(c) = d
<1> DEFINE c == IF d < 10 THEN 48 + d ELSE 87 + d
<1>1. c \in 32 .. 126 /\ c # 13 /\ ((c > 47 /\ c < 58) \/ (c > 96 /\ c < 103)) /\ c \in Int
  OBVIOUS
<1>2. Hex(c) = d
  BY DEF Hex
<1>3. DigitKey(d) = hid_to_evdev[ascii_to_hid[c].usage]
  BY DEF DigitKey
<1> HIDE DEF c
<1>4. c \in DOMAIN us_keys
  BY <1>1, UsKeys, ZenonT(30)
<1>5. c \notin Shifted
  BY <1>1 DEF Shifted
<1>6. DigitKey(d) = KeyOf(c)
  BY <1>3, <1>4, AsciiIs DEF KeyOf
<1> QED
  BY <1>1, <1>2, <1>4, <1>5, <1>6

DigitKeys(digits) == [i \in DOMAIN digits |-> DigitKey(digits[i])]

\* The keys of some digits add them to the entry, by induction over the digits.
LEMMA LeadsDigits ==
  ASSUME NEW digits \in Seq(0 .. 15), system.os = "Linux"
  PROVE  Leads(tap_codes(DigitKeys(digits)), {}, <<>>, {}, digits, <<>>)
<1> DEFINE D == 0 .. 15
           T == {x \in Seq(D) : Leads(tap_codes(DigitKeys(x)), {}, <<>>, {}, x, <<>>)}
<1>1. <<>> \in T
  <2>1. DigitKeys(<<>>) = <<>>
    BY DEF DigitKeys
  <2>2. Leads(<<>>, {}, <<>>, {}, <<>>, <<>>)
    <3>1. IsSequence(<<>>) /\ <<>> \in Seq(Nat) /\ \A s \in Seq(Nat) : s \o <<>> = s
      BY TypesNothing DEF Types
    <3> QED
      BY <3>1, FedNone, Zenon DEF Leads
  <2>3. <<>> \in Seq(D)
    OBVIOUS
  <2> QED
    BY <2>1, <2>2, <2>3, TapNothing
<1>2. ASSUME NEW x \in T, NEW e \in D PROVE Append(x, e) \in T
  <2> DEFINE n == Len(x)
             y == Append(x, e)
  <2>1. n \in Nat /\ y \in Seq(D) /\ DOMAIN x = 1 .. n /\ DOMAIN y = 1 .. n + 1 /\ y[n + 1] = e /\ \A i \in 1 .. n : y[i] = x[i]
    OBVIOUS
  <2>2. x # NotEntering
    <3> SUFFICES ASSUME x = NotEntering PROVE FALSE
      OBVIOUS
    <3>1. Len(x) = 1 => x[1] \in D
      BY <2>1, SMTT(30)
    <3>2. Len(NotEntering) = 1 /\ NotEntering[1] = -1
      BY DEF NotEntering
    <3>3. -1 \notin D
      OBVIOUS
    <3> QED
      BY <3>1, <3>2, <3>3
  <2>3. PICK c \in DOMAIN us_keys : DigitKey(e) = KeyOf(c) /\ c \notin Shifted /\ c # 13 /\ Hex(c) = e
    BY DigitIs
  <2> DEFINE k == DigitKey(e)
             s == DigitKeys(x)
             t == DigitKeys(y)
  <2>4. Leads(tap_codes(s), {}, <<>>, {}, x, <<>>)
    OBVIOUS
  <2>5. Hex(c) < 16
    BY <2>3
  <2>6. k \in all_supported_keys
    BY <2>3, KeysPrint
  <2>7. s = [i \in 1 .. n |-> DigitKey(x[i])] /\ t = [i \in 1 .. n + 1 |-> DigitKey(y[i])]
    BY <2>1 DEF DigitKeys
  <2> HIDE DEF n, y, T
  <2>8. KeyAfter(t, s, k)
    <3> HIDE DEF s, t
    <3>1. s = [i \in 1 .. n |-> s[i]] /\ t = [i \in 1 .. n + 1 |-> t[i]] /\ n + 1 \in Nat
      BY <2>1, <2>7
    <3>2. IsSequence(s) /\ Len(s) = n /\ IsSequence(t) /\ Len(t) = n + 1
      BY <2>1, <3>1, FunctionIsSequence
    <3>3. t[n + 1] = k /\ \A i \in 1 .. n : t[i] = s[i]
      BY <2>1, <2>7
    <3> QED
      BY <3>2, <3>3 DEF KeyAfter
  <2> HIDE DEF s, t, D
  <2>9. Leads(<<key_event(k, TRUE)>>, {}, x, {}, y, <<>>)
    <3>1. Leads(<<key_event(KeyOf(c), TRUE)>>, {}, x, {}, Append(x, Hex(c)), <<>>)
      BY <2>2, <2>3, <2>5, LeadsDigit
    <3> QED
      BY <2>3, <3>1 DEF y
  <2> HIDE DEF k
  <2>10. Leads(<<key_event(k, TRUE)>> \o <<key_event(k, FALSE)>>, {}, x, {}, y, <<>>)
    BY <2>6, <2>9, LeadsTap
  <2>11. Leads(tap_codes(t), {}, <<>>, {}, y, <<>>)
    <3>1. tap_codes(t) = tap_codes(s) \o (<<key_event(k, TRUE)>> \o <<key_event(k, FALSE)>>)
      BY <2>8, TapMore
    <3> QED
      BY <2>4, <2>10, <3>1, LeadsOn
  <2> QED
    BY <2>1, <2>11 DEF T, t, y
<1>3. T = Seq(D)
  <2>1. T \in SUBSET Seq(D)
    OBVIOUS
  <2> HIDE DEF T, D
  <2> QED
    BY <1>1, <1>2, <2>1, SeqSetInduction
<1> QED
  BY <1>3

\* Arithmetic of hexadecimal digits.
LEMMA Divided ==
  ASSUME NEW c \in Nat
  PROVE  /\ c \div 16 = (c \div 1) \div 16 /\ c \div 256 = (c \div 16) \div 16 /\ c \div 4096 = (c \div 256) \div 16
         /\ c \div 65536 = (c \div 4096) \div 16 /\ c \div 1048576 = (c \div 65536) \div 16 /\ c \div 1 = c
<1>1. c \div 1 = c /\ c \div 16 = (c \div 1) \div 16
  BY SMT
<1>2. c \div 256 = (c \div 16) \div 16
  BY SMT
<1>3. c \div 4096 = (c \div 256) \div 16
  BY SMT
<1>4. c \div 65536 = (c \div 4096) \div 16
  BY SMT
<1>5. c \div 1048576 = (c \div 65536) \div 16
  BY SMT
<1> QED
  BY <1>1, <1>2, <1>3, <1>4, <1>5, SMT

LEMMA Sixteenfold ==
  ASSUME NEW c \in Nat
  PROVE  /\ \A i \in 1 .. 5 : c \div SixteenTo[i + 1] = (c \div SixteenTo[i]) \div 16
         /\ \A i \in 1 .. 6 : SixteenTo[i] \in Nat /\ c \div SixteenTo[i] \in Nat
         /\ \A i \in 1 .. 5 : c < SixteenTo[i + 1] => (c \div SixteenTo[i]) < 16
         /\ c \div SixteenTo[1] = c
<1>1. /\ SixteenTo[1] = 1 /\ SixteenTo[2] = 16 /\ SixteenTo[3] = 256
      /\ SixteenTo[4] = 4096 /\ SixteenTo[5] = 65536 /\ SixteenTo[6] = 1048576
  BY SMT DEF SixteenTo
<1>2. (\A i \in 1 .. 6 : i = 1 \/ i = 2 \/ i = 3 \/ i = 4 \/ i = 5 \/ i = 6)
  OBVIOUS
<1>3. ASSUME NEW i \in 1 .. 6 PROVE SixteenTo[i] \in Nat /\ c \div SixteenTo[i] \in Nat
  <2>1. \A m \in Nat : m > 0 => c \div m \in Nat
    OBVIOUS
  <2>2. SixteenTo[i] \in Nat /\ SixteenTo[i] > 0
    BY <1>1, <1>2, SMT
  <2> QED
    BY <2>1, <2>2
<1>4. /\ (c < 16 => c \div 1 < 16) /\ (c < 256 => c \div 16 < 16) /\ (c < 4096 => c \div 256 < 16)
      /\ (c < 65536 => c \div 4096 < 16) /\ (c < 1048576 => c \div 65536 < 16)
  BY SMT
<1>5. ASSUME NEW i \in 1 .. 5
      PROVE  c \div SixteenTo[i + 1] = (c \div SixteenTo[i]) \div 16 /\ (c < SixteenTo[i + 1] => (c \div SixteenTo[i]) < 16)
  <2>1. \/ i = 1 /\ i + 1 = 2
        \/ i = 2 /\ i + 1 = 3
        \/ i = 3 /\ i + 1 = 4
        \/ i = 4 /\ i + 1 = 5
        \/ i = 5 /\ i + 1 = 6
    OBVIOUS
  <2>2. CASE i = 1 /\ i + 1 = 2
    BY <1>1, <1>4, <2>2, Divided, SMT
  <2>3. CASE i = 2 /\ i + 1 = 3
    BY <1>1, <1>4, <2>3, Divided, SMT
  <2>4. CASE i = 3 /\ i + 1 = 4
    BY <1>1, <1>4, <2>4, Divided, SMT
  <2>5. CASE i = 4 /\ i + 1 = 5
    BY <1>1, <1>4, <2>5, Divided, SMT
  <2>6. CASE i = 5 /\ i + 1 = 6
    BY <1>1, <1>4, <2>6, Divided, SMT
  <2> QED
    BY <2>1, <2>2, <2>3, <2>4, <2>5, <2>6
<1> QED
  BY <1>1, <1>3, <1>4, <1>5, Divided, SMT

\* Six digits are enough for every character.
LEMMA SixDigits == ASSUME NEW c \in Characters PROVE c \in Nat /\ (c \div SixteenTo[6]) < 16
<1>1. c \in Nat /\ c < 1114112
  BY SMT DEF Characters
<1>2. SixteenTo[6] = 1048576
  BY SMT DEF SixteenTo
<1> QED
  BY <1>1, <1>2, SMT

\* The digits of a number are those of it, and read back they are the number.
LEMMA DigitsAreNumber ==
  ASSUME NEW c \in Characters
  PROVE  HexDigits(c) \in Seq(0 .. 15) /\ Number(HexDigits(c)) = c
<1> DEFINE w == Width(c)
           digits == HexDigits(c)
           S(i) == SixteenTo[w + 1 - i]
           g == [i \in 0 .. w |-> IF i = 0 THEN 0 ELSE c \div S(i)]
           Good(n) == n = [i \in 0 .. w |-> IF i = 0 THEN 0 ELSE 16 * n[i - 1] + digits[i]]
           J == CHOOSE n : Good(n)
<1>0. c \in Nat /\ (c \div SixteenTo[6]) < 16
  BY SixDigits
<1>1. w \in 1 .. 6 /\ \A i \in 1 .. 6 : i > w => ~(SixteenTo[i] =< c)
  BY WidthIs
<1>2. digits = [i \in 1 .. w |-> (c \div S(i)) % 16]
  <2>1. digits = [i \in 1 .. w |-> (c \div SixteenTo[w + 1 - i]) % 16]
    BY DEF HexDigits, Width
  <2> QED
    BY <2>1
<1> HIDE DEF w, digits
<1>3. \A i \in 1 .. w : w + 1 - i \in 1 .. 6
  BY <1>1
<1>4. \A i \in 1 .. w : S(i) \in Nat /\ c \div S(i) \in Nat
  <2> TAKE i \in 1 .. w
  <2> DEFINE j == w + 1 - i
  <2>1. j \in 1 .. 6
    BY <1>3
  <2> HIDE DEF j
  <2>2. SixteenTo[j] \in Nat /\ c \div SixteenTo[j] \in Nat
    BY <1>0, <2>1, Sixteenfold
  <2> QED
    BY <2>2 DEF j
<1>5. digits \in [1 .. w -> 0 .. 15]
  <2>1. \A x \in Nat : x % 16 \in 0 .. 15
    OBVIOUS
  <2> HIDE DEF S
  <2> QED
    BY <1>2, <1>4, <2>1
<1>6. digits \in Seq(0 .. 15) /\ Len(digits) = w
  BY <1>1, <1>5, FunctionSeq
<1>7. ASSUME NEW i \in 1 .. w PROVE g[i] = 16 * g[i - 1] + digits[i]
  <2> DEFINE x == c \div S(i)
  <2>1. x \in Nat /\ digits[i] = x % 16 /\ g[i] = x
    BY <1>1, <1>2, <1>4
  <2>2. g[i - 1] = x \div 16
    <3>1. CASE i = 1
      <4>1. S(i) = SixteenTo[w] /\ g[i - 1] = 0
        BY <1>1, <3>1
      <4>2. x < 16
        <5>1. CASE w = 6
          BY <1>0, <4>1, <5>1
        <5>2. CASE w # 6
          <6>1. w \in 1 .. 5 /\ w + 1 \in 1 .. 6 /\ w + 1 > w
            BY <1>1, <5>2
          <6>2. ~(SixteenTo[w + 1] =< c) /\ SixteenTo[w + 1] \in Nat
            BY <1>0, <1>1, <6>1, Sixteenfold
          <6>3. c < SixteenTo[w + 1]
            BY <1>0, <6>2
          <6> QED
            BY <1>0, <4>1, <6>1, <6>3, Sixteenfold
        <5> QED
          BY <5>1, <5>2
      <4> HIDE DEF x
      <4>3. x \div 16 = 0
        BY <2>1, <4>2
      <4> QED
        BY <4>1, <4>3
    <3>2. CASE i # 1
      <4> DEFINE j == w + 1 - i
      <4>1. j \in 1 .. 5 /\ w + 1 - (i - 1) = j + 1 /\ i - 1 \in 0 .. w /\ i - 1 # 0
        BY <1>1, <3>2
      <4>2. g[i - 1] = c \div SixteenTo[j + 1]
        BY <4>1
      <4>3. x = c \div SixteenTo[j]
        OBVIOUS
      <4> HIDE DEF j, x
      <4> QED
        BY <1>0, <4>1, <4>2, <4>3, Sixteenfold
    <3> QED
      BY <3>1, <3>2
  <2> HIDE DEF x, g
  <2>3. x = 16 * (x \div 16) + (x % 16)
    BY <2>1
  <2> QED
    BY <2>1, <2>2, <2>3
<1>8. g[0] = 0 /\ g[w] = c
  <2>1. S(w) = SixteenTo[1] /\ w \in 0 .. w /\ w # 0 /\ 0 \in 0 .. w
    BY <1>1
  <2> QED
    BY <1>0, <2>1, Sixteenfold
<1>9. g = [i \in 0 .. w |-> g[i]]
  OBVIOUS
<1> HIDE DEF g, S
<1>10. Good(g)
  <2>1. \A i \in 0 .. w : g[i] = IF i = 0 THEN 0 ELSE 16 * g[i - 1] + digits[i]
    BY <1>1, <1>7, <1>8
  <2> QED
    BY <1>9, <2>1
<1>11. Good(J)
  BY <1>10
<1>12. Number(digits) = J[w]
  BY <1>6 DEF Number
<1> HIDE DEF J
<1>13. J[0] = 0 /\ \A i \in 1 .. w : J[i] = 16 * J[i - 1] + digits[i]
  BY <1>1, <1>11
<1> HIDE DEF Good
<1> DEFINE K == {i \in Nat : i =< w => J[i] = g[i]}
<1>14. 0 \in K
  BY <1>8, <1>13
<1>15. ASSUME NEW i \in K PROVE i + 1 \in K
  <2> SUFFICES ASSUME i + 1 =< w PROVE J[i + 1] = g[i + 1]
    OBVIOUS
  <2>1. i + 1 \in 1 .. w /\ (i + 1) - 1 = i /\ J[i] = g[i]
    BY <1>1
  <2> QED
    BY <1>7, <1>13, <2>1
<1>16. K = Nat
  <2>1. K \in SUBSET Nat
    OBVIOUS
  <2> HIDE DEF K
  <2> QED
    BY <1>14, <1>15, <2>1, NatSetInduction
<1>17. J[w] = g[w]
  BY <1>1, <1>16
<1> QED
  BY <1>6, <1>8, <1>12, <1>17 DEF digits

\* Ctrl+Shift+U, the digits and Space type the character.
LEMMA EnteredTypes ==
  ASSUME NEW c \in Characters, system.os = "Linux"
  PROVE  Types(chord_events(<<29, 42, 22>>) \o tap_codes(DigitKeys(HexDigits(c))) \o tap_codes(<<57>>), <<c>>)
<1> DEFINE x == HexDigits(c)
           a == chord_events(<<29, 42, 22>>)
           b == tap_codes(DigitKeys(x))
           d == tap_codes(<<57>>)
<1>1. x \in Seq(0 .. 15) /\ Number(x) = c
  BY DigitsAreNumber
<1>2. c \in Nat
  BY SixDigits
<1>3. x # NotEntering
  <2> SUFFICES ASSUME x = NotEntering PROVE FALSE
    OBVIOUS
  <2> DEFINE D == 0 .. 15
  <2>0. x \in Seq(D) /\ -1 \notin D
    BY <1>1
  <2> HIDE DEF x, D
  <2>1. Len(x) = 1 => x[1] \in D
    BY <2>0
  <2>2. Len(NotEntering) = 1 /\ NotEntering[1] = -1
    BY DEF NotEntering
  <2> QED
    BY <2>0, <2>1, <2>2
<1>4. Leads(a, {}, NotEntering, {}, <<>>, <<>>)
  BY LeadsEntry
<1>5. Leads(b, {}, <<>>, {}, x, <<>>)
  BY <1>1, LeadsDigits
<1> HIDE DEF a, b, x
<1>6. Leads(<<key_event(57, TRUE)>>, {}, x, {}, NotEntering, <<c>>)
  <2>1. Number(x) \in Nat
    BY <1>1, <1>2
  <2>2. Leads(<<key_event(57, TRUE)>>, {}, x, {}, NotEntering, <<Number(x)>>)
    BY <1>3, <2>1, LeadsSpace
  <2> QED
    BY <1>1, <2>2
<1>7. Leads(d, {}, x, {}, NotEntering, <<c>>)
  <2>1. 57 \in all_supported_keys /\ 57 \notin {}
    BY SpaceKey, KeysPrint
  <2>2. Leads(<<key_event(57, TRUE)>> \o <<key_event(57, FALSE)>>, {}, x, {}, NotEntering, <<c>>)
    BY <1>6, <2>1, LeadsTap
  <2>3. d = <<key_event(57, TRUE)>> \o <<key_event(57, FALSE)>>
    BY TapOne
  <2> QED
    BY <2>2, <2>3
<1> HIDE DEF d
<1>8. Leads(a \o b, {}, NotEntering, {}, x, <<>>)
  BY <1>4, <1>5, LeadsOn
<1>9. Leads((a \o b) \o d, {}, NotEntering, {}, NotEntering, <<c>>)
  BY <1>7, <1>8, LeadsOn
<1>10. Types((a \o b) \o d, <<c>>)
  BY <1>9, LeadsTypes
<1> QED
  BY <1>10 DEF a, b, d, x

\* What is done for one character types it.
LEMMA StepTypes ==
  ASSUME NEW way, NEW c \in Characters, system.os = "Linux"
  PROVE  Types(step_events(way, c), IF c = 13 THEN <<10>> ELSE <<c>>)
<1> DEFINE key == IF c \in Shifted THEN Downs(<<42>>) \o tap_codes(<<KeyOf(c)>>) \o Ups(<<42>>) ELSE tap_codes(<<KeyOf(c)>>)
           entered == chord_events(<<29, 42, 22>>) \o tap_codes(DigitKeys(HexDigits(c))) \o tap_codes(<<57>>)
<1>1. DOMAIN ascii_to_hid = DOMAIN us_keys
  BY AsciiIs
<1>2. CASE AsKey(way, c)
  <2>1. c \in DOMAIN us_keys
    BY <1>1, <1>2 DEF AsKey
  <2>2. ascii_to_hid[c].usage = us_keys[c] /\ ascii_to_hid[c].shift = (c \in Shifted)
    BY <2>1, AsciiIs
  <2>3. step_events(way, c) =
          IF ascii_to_hid[c].shift THEN Downs(<<42>>) \o tap_codes(<<hid_to_evdev[ascii_to_hid[c].usage]>>) \o Ups(<<42>>)
          ELSE tap_codes(<<hid_to_evdev[ascii_to_hid[c].usage]>>)
    BY <1>2 DEF step_events
  <2>4. step_events(way, c) = key
    BY <2>2, <2>3 DEF KeyOf
  <2>5. Types(key, <<IF c = 13 THEN 10 ELSE c>>)
    BY <2>1, KeyTypes
  <2> HIDE DEF key
  <2>6. <<IF c = 13 THEN 10 ELSE c>> = IF c = 13 THEN <<10>> ELSE <<c>>
    OBVIOUS
  <2> QED
    BY <2>4, <2>5, <2>6
<1>3. CASE ~AsKey(way, c)
  <2>1. c # 13
    <3>1. 13 \in DOMAIN us_keys /\ ~is_layout_dependent(13)
      BY UsKeys DEF is_layout_dependent
    <3> QED
      BY <1>1, <1>3, <3>1 DEF AsKey
  <2>2. step_events(way, c) = entered
    BY <1>3 DEF step_events, DigitKeys
  <2>3. Types(entered, <<c>>)
    BY EnteredTypes
  <2> HIDE DEF entered
  <2> QED
    BY <2>1, <2>2, <2>3
<1> QED
  BY <1>2, <1>3

\* A text on Linux, by induction over its characters.
LEMMA LinuxTextTypes ==
  ASSUME NEW way, NEW text \in Seq(Characters), system.os = "Linux" PROVE Types(LinuxText(way, text), Meant(text))
<1> DEFINE n == Len(text)
           J == CHOOSE events : LinuxTyping(way, text, events, n)
           typed(c) == c \in DOMAIN ascii_to_hid \/ c > 127
           g == [i \in 1 .. n |-> IF text[i] = 13 THEN <<10>> ELSE IF typed(text[i]) THEN <<text[i]>> ELSE <<>>]
           meant(i) == FlattenSeq([j \in 1 .. i |-> g[j]])
           K == {i \in Nat : i =< n => Types(J[i], meant(i))}
<1>1. LinuxText(way, text) = J[n]
  BY DEF LinuxText, LinuxTyping
<1>2. n \in Nat /\ DOMAIN text = 1 .. n /\ \A i \in 1 .. n : text[i] \in Characters /\ text[i] \in Nat
  BY DEF Characters
<1>3. LinuxTyping(way, text, J, n)
  BY <1>2, LinuxTypingExists
<1> HIDE DEF J
<1>4. /\ J[0] = <<>>
      /\ \A i \in 0 .. n : i # 0 => J[i] = IF typed(text[i]) THEN J[i - 1] \o step_events(way, text[i]) ELSE J[i - 1]
  <2>1. J[0] = <<>>
    BY <1>3 DEF LinuxTyping
  <2>2. \A i \in 0 .. n : i # 0 => J[i] = IF typed(text[i]) THEN J[i - 1] \o step_events(way, text[i]) ELSE J[i - 1]
    BY <1>3 DEF LinuxTyping
  <2> QED
    BY <2>1, <2>2
<1>5. Meant(text) = meant(n)
  <2>1. Meant(text) = FlattenSeq([i \in 1 .. n |-> IF text[i] = 13 THEN <<10>>
                                                   ELSE IF text[i] \in DOMAIN ascii_to_hid \/ text[i] > 127 THEN <<text[i]>> ELSE <<>>])
    BY <1>2 DEF Meant
  <2> HIDE DEF n
  <2> QED
    BY <2>1
<1>6. \A i \in 1 .. n : g[i] \in Seq(Nat)
  <2> HIDE DEF n, typed
  <2> QED
    BY <1>2
<1>7. \A i \in 1 .. n : g[i] = IF text[i] = 13 THEN <<10>> ELSE IF typed(text[i]) THEN <<text[i]>> ELSE <<>>
  OBVIOUS
<1>8. typed(13)
  BY UsKeys, AsciiIs
<1> HIDE DEF n, g, typed
<1>9. 0 \in K
  <2>1. meant(0) = <<>>
    BY FlattenNothing
  <2> HIDE DEF meant
  <2> QED
    BY <1>4, <2>1, TypesNothing
<1>10. ASSUME NEW i \in K PROVE i + 1 \in K
  <2> SUFFICES ASSUME i + 1 =< n PROVE Types(J[i + 1], meant(i + 1))
    OBVIOUS
  <2>1. i \in Nat /\ i + 1 \in 0 .. n /\ i + 1 \in 1 .. n /\ i + 1 # 0 /\ (i + 1) - 1 = i /\ Types(J[i], meant(i))
    BY <1>2
  <2> DEFINE c == text[i + 1]
  <2>2. meant(i + 1) = meant(i) \o g[i + 1] /\ meant(i) \in Seq(Nat)
    <3>1. \A j \in 1 .. i + 1 : g[j] \in Seq(Nat)
      BY <1>2, <1>6, <2>1
    <3> QED
      BY <2>1, <3>1, FlattenMore
  <2>3. /\ J[i + 1] = IF typed(c) THEN J[i] \o step_events(way, c) ELSE J[i]
        /\ g[i + 1] = IF c = 13 THEN <<10>> ELSE IF typed(c) THEN <<c>> ELSE <<>>
        /\ c \in Characters
    BY <1>2, <1>4, <1>7, <2>1
  <2> HIDE DEF meant, c, K
  <2>4. CASE typed(c)
    <3>1. g[i + 1] = IF c = 13 THEN <<10>> ELSE <<c>>
      BY <2>3, <2>4
    <3>2. Types(step_events(way, c), g[i + 1])
      BY <2>3, <3>1, StepTypes
    <3> QED
      BY <2>1, <2>2, <2>3, <2>4, <3>2, TypesConcat
  <2>5. CASE ~typed(c)
    <3>1. g[i + 1] = <<>> /\ J[i + 1] = J[i]
      BY <1>8, <2>3, <2>5
    <3>2. meant(i) \o <<>> = meant(i)
      BY <2>2
    <3> QED
      BY <2>1, <2>2, <3>1, <3>2
  <2> QED
    BY <2>4, <2>5
<1>11. K = Nat
  <2>1. K \in SUBSET Nat
    OBVIOUS
  <2> HIDE DEF K
  <2> QED
    BY <1>9, <1>10, <2>1, NatSetInduction
<1> HIDE DEF meant
<1>12. Types(J[n], meant(n))
  BY <1>2, <1>11
<1> QED
  BY <1>1, <1>5, <1>12, Zenon

-----------------------------------------------------------------------------
(* A text of a phone that holds nothing is taken from a state at rest, as  *)
(* long as the system takes everything: the invariant, and every step.     *)

NothingLost == faults = 0 => lost = {}

\* After an injection: nothing that is owed was lost, and a text was taken as a whole, or is not spoken of.
LEMMA LastText ==
  ASSUME NothingLost, faults \in Nat, NEW events, NEW notes, NEW text, Inject(events, notes, text)
  PROVE  /\ NothingLost'
         /\ \/ last' = NoText
            \/ text # <<>> /\ ~Held /\ faults = 0
               /\ (IsSequence(events) => last' = [sent |-> text, arrived |-> Taken(events).text])
<1>1. CASE ~backend.ready
  BY <1>1 DEF Inject, pcvars, NothingLost
<1>2. CASE backend.ready
  <2> DEFINE c == Len(events)
  <2>1. PICK sent \in send_inputs(c) : LET o == Outcome(events, notes, text, sent)
                                       IN lost' = o.lost /\ last' = o.last /\ faults' = o.faults
    BY <1>2 DEF Inject, Results
  <2> DEFINE n == sent.n
  <2>2. /\ lost' = (lost \ {events[i].key : i \in 1 .. n})
                   \cup (IF sent.fault THEN {events[i].key : i \in {j \in (n + 1) .. c : ~events[j].isDown}} ELSE {})
        /\ last' = IF text # <<>> /\ ~Held /\ faults = 0 /\ ~sent.fault
                     THEN [sent |-> text, arrived |-> Taken(SubSeq(events, 1, n)).text] ELSE NoText
        /\ faults' = faults + (IF sent.fault THEN 1 ELSE 0)
    BY <2>1 DEF Outcome
  <2>3. NothingLost'
    <3>1. CASE sent.fault
      <4>1. faults' # 0
        BY <2>2, <3>1
      <4> QED
        BY <4>1 DEF NothingLost
    <3>2. CASE ~sent.fault
      <4> HIDE DEF n, c
      <4>1. lost' = lost \ {events[i].key : i \in 1 .. n} /\ faults' = faults
        BY <2>2, <3>2
      <4> QED
        BY <4>1 DEF NothingLost
    <3> QED
      BY <3>1, <3>2
  <2>4. ASSUME IsSequence(events), ~sent.fault PROVE SubSeq(events, 1, n) = events
    <3>1. c \in Nat
      BY <2>4, SequenceFacts
    <3>2. n = c
      <4>1. n \in 0 .. c /\ (n # c => sent.fault)
        BY <3>1, Sending
      <4> QED
        BY <2>4, <4>1
    <3>3. events \in Seq(Elements(events))
      BY <2>4 DEF IsSequence
    <3>4. SubSeq(events, 1, Len(events)) = events
      BY <3>3
    <3> HIDE DEF n
    <3> QED
      BY <3>2, <3>4
  <2> HIDE DEF n, c
  <2> QED
    BY <2>2, <2>3, <2>4
<1> QED
  BY <1>1, <1>2

\* What a text means on a system.
MeantOn(s, text) ==
    LET piece(i) == IF s.os # "Windows" /\ text[i] = 13 THEN <<10>>
                 ELSE IF s.os = "Linux" THEN IF text[i] \in DOMAIN ascii_to_hid \/ text[i] > 127 THEN <<text[i]>> ELSE <<>>
                 ELSE IF s.os = "Windows" THEN utf16(text[i])
                 ELSE IF (IsControl(text[i]) /\ text[i] \notin {8, 9, 10}) \/ (text[i] = 10 /\ i > 1 /\ text[i - 1] = 13) THEN <<>>
                 ELSE utf16(text[i])
    IN FlattenSeq([i \in DOMAIN text |-> piece(i)])

LEMMA MeantIs == ASSUME NEW text PROVE Meant(text) = MeantOn(system, text)
BY DEF Meant, MeantOn

\* The property, with the system and the text named.
LEMMA ArrivesIs ==
  /\ TextArrives <=> (last.sent # <<>> /\ system.os # "none" => last.arrived = MeantOn(system, last.sent))
  /\ TextArrives' <=> (last'.sent # <<>> /\ system'.os # "none" => last'.arrived = MeantOn(system', last'.sent))
BY DEF TextArrives, Meant, MeantOn

\* The invariant.
TextInv == NothingLost /\ TextArrives

LEMMA NoTextArrives == ASSUME last' = NoText PROVE TextArrives'
<1>1. NoText.sent = <<>>
  BY DEF NoText
<1> QED
  BY <1>1, ArrivesIs

\* A message that is no text.
LEMMA SilentStep ==
  ASSUME TextInv, faults \in Nat, NEW events, NEW notes, Inject(events, notes, <<>>) PROVE TextInv'
<1>1. NothingLost' /\ last' = NoText
  BY LastText DEF TextInv
<1> QED
  BY <1>1, NoTextArrives DEF TextInv

\* A step that injects nothing.
LEMMA TextAround == ASSUME TextInv, UNCHANGED <<system, lost, last, faults>> PROVE TextInv'
<1>1. NothingLost'
  BY DEF TextInv, NothingLost
<1>2. TextArrives'
  BY ArrivesIs DEF TextInv
<1> QED
  BY <1>1, <1>2 DEF TextInv

\* Nothing held and nothing queued: all that is still down is lost.
LEMMA AllReleased == ASSUME BackendsInv, ~Held, queue = <<>> PROVE down \subseteq lost
<1>1. DOMAIN keys = {} /\ DOMAIN queue = {} /\ buttons = {}
  BY DEF Held
<1>2. Owed = {}
  BY <1>1, IsOwed
<1> QED
  BY <1>2 DEF BackendsInv, DownInv

\* The text of any system.
LEMMA TypesText ==
  ASSUME system \in Systems, system.os # "none", NEW text \in RestTexts \cup HeldTexts
  PROVE  Types(Text[system][text], Meant(text))
<1>1. text \in Seq(Characters) /\ text \in Seq(Nat)
  BY TextsAre
<1>2. Text[system][text] = CASE system.os = "Linux" -> LinuxText(system.entry, text)
                             [] system.os = "macOS" -> plan_text(text)
                             [] system.os = "Windows" -> WindowsText(text)
                             [] OTHER -> <<>>
  BY DEF Text
<1>3. system.os \in {"Linux", "macOS", "Windows"}
  BY BackendsAssumption
<1>4. CASE system.os = "Linux"
  <2>1. Text[system][text] = LinuxText(system.entry, text)
    BY <1>2, <1>4
  <2> QED
    BY <1>1, <1>4, <2>1, LinuxTextTypes
<1>5. CASE system.os = "macOS"
  <2>1. Text[system][text] = plan_text(text)
    BY <1>2, <1>5
  <2> QED
    BY <1>1, <1>5, <2>1, MacTextTypes
<1>6. CASE system.os = "Windows"
  <2>1. Text[system][text] = WindowsText(text)
    BY <1>2, <1>6
  <2> QED
    BY <1>1, <1>6, <2>1, WindowsTextTypes
<1> QED
  BY <1>3, <1>4, <1>5, <1>6

\* A text: what is at rest before it types it whole.
LEMMA TextStep ==
  ASSUME BackendsInv, TextInv, NEW text \in RestTexts \cup HeldTexts, TextInput(text) PROVE TextInv'
<1> DEFINE events == Text[system][text]
           start == [down |-> down, text |-> <<>>, hex |-> NotEntering]
<1>1. Inject(events, mac, text) /\ queue = <<>> /\ system' = system
  BY DEF TextInput
<1>2. system \in Systems /\ faults \in Nat
  BY DEF BackendsInv, Shapes
<1> HIDE DEF events
<1>3. /\ NothingLost'
      /\ \/ last' = NoText
         \/ text # <<>> /\ ~Held /\ faults = 0
            /\ (IsSequence(events) => last' = [sent |-> text, arrived |-> Taken(events).text])
  BY <1>1, <1>2, LastText DEF TextInv
<1>4. CASE last' = NoText
  BY <1>3, <1>4, NoTextArrives DEF TextInv
<1>5. CASE last' # NoText /\ system.os # "none"
  <2>1. ~Held /\ faults = 0 /\ Types(events, Meant(text))
    BY <1>2, <1>3, <1>5, TypesText DEF events
  <2>2. down = {}
    BY <1>1, <2>1, AllReleased DEF TextInv, NothingLost
  <2>3. AtRest(start, <<>>) /\ <<>> \in Seq(Nat)
    BY <2>2 DEF AtRest, IsState
  <2>4. PICK q : Fed(start, events, q) /\ AtRest(q, <<>> \o Meant(text))
    BY <2>1, <2>3 DEF Types
  <2>5. IsSequence(events) /\ <<>> \o Meant(text) = Meant(text)
    BY <2>1 DEF Types
  <2>6. Len(events) \in Nat
    BY <2>5, SequenceFacts
  <2>7. Taken(events) = q
    BY <2>4, <2>6, FedTaken
  <2>8. last' = [sent |-> text, arrived |-> Meant(text)]
    BY <1>3, <1>5, <2>4, <2>5, <2>7 DEF AtRest
  <2>9. last'.sent = text /\ last'.arrived = MeantOn(system, text)
    BY <2>8, MeantIs
  <2>10. TextArrives'
    BY <1>1, <2>9, ArrivesIs
  <2> QED
    BY <1>3, <2>10 DEF TextInv
<1>6. CASE system.os = "none"
  BY <1>1, <1>3, <1>6, ArrivesIs DEF TextInv
<1> QED
  BY <1>4, <1>5, <1>6

\* Every step keeps the invariant.
LEMMA TextNextInv == ASSUME BackendsInv, TextInv, [BackendsNext]_backends_vars PROVE TextInv'
<1>0. faults \in Nat
  BY DEF BackendsInv, Shapes
<1>1. ASSUME NEW u \in Usages, NEW m \in KeyMods, KeyPress(u, m) PROVE TextInv'
  BY <1>0, <1>1, SilentStep DEF KeyPress, InjectKey
<1>2. ASSUME NEW i \in DOMAIN keys, KeyRelease(i) PROVE TextInv'
  BY <1>0, <1>2, SilentStep DEF KeyRelease, InjectKey
<1>3. ASSUME NEW b \in UsedButtons, NEW p \in BOOLEAN, MouseButton(b, p) PROVE TextInv'
  BY <1>0, <1>3, SilentStep DEF MouseButton, InjectButton
<1>4. ASSUME NEW t \in RestTexts \cup HeldTexts, TextInput(t) PROVE TextInv'
  BY <1>4, TextStep
<1>5. ASSUME NEW c \in Commands, Command(c) PROVE TextInv'
  BY <1>0, <1>5, SilentStep DEF Command
<1>6. CASE MouseMove
  BY <1>0, <1>6, SilentStep DEF MouseMove
<1>7. CASE Released
  BY <1>0, <1>7, SilentStep DEF Released, InjectKey, InjectButton
<1>8. CASE Vanish
  BY <1>8, TextAround DEF Vanish, pcvars
<1>9. CASE Tick
  BY <1>9, TextAround DEF Tick, pcvars
<1>10. CASE Allow
  BY <1>10, TextAround DEF Allow, pcvars
<1>11. CASE DesktopChanges
  BY <1>11, TextAround DEF DesktopChanges, pcvars
<1>12. CASE UNCHANGED backends_vars
  BY <1>12, TextAround DEF backends_vars
<1> QED
  BY <1>1, <1>2, <1>3, <1>4, <1>5, <1>6, <1>7, <1>8, <1>9, <1>10, <1>11, <1>12 DEF BackendsNext, Message

\* Between two faults of injection nothing owed is lost, and a text that was
\* injected at rest, whole, arrives as the characters that were sent, on every
\* system: as UTF-16 code units on Windows and macOS, as code points on Linux.
THEOREM TextIsWhole == BackendsSpec => []TextArrives
<1>1. ASSUME BackendsInit PROVE BackendsInv /\ TextInv
  <2>1. last = NoText /\ lost = {}
    BY <1>1 DEF BackendsInit
  <2>2. last.sent = <<>>
    BY <2>1 DEF NoText
  <2>3. TextArrives
    BY <2>2, ArrivesIs
  <2>4. NothingLost
    BY <2>1 DEF NothingLost
  <2> QED
    BY <1>1, <2>3, <2>4, BackendsInitInv DEF TextInv
<1>2. ASSUME BackendsInv /\ TextInv, [BackendsNext]_backends_vars PROVE (BackendsInv /\ TextInv)'
  BY <1>2, BackendsNextInv, TextNextInv
<1>3. BackendsInv /\ TextInv => TextArrives
  BY DEF TextInv
<1> QED
  BY <1>1, <1>2, <1>3, PTL DEF BackendsSpec
===========================================================================
