---------------------------- MODULE PairingProofs ----------------------------
(***************************************************************************)
(* Theorems about Pairing, for every set of phones and every bound.        *)
(*                                                                         *)
(* The safety properties rest on one inductive invariant, PairingInv: what *)
(* an open window and a live code say about the past.                      *)
(***************************************************************************)
EXTENDS Pairing, TLAPS

\* The code on the screen is the last one drawn, and only a code has a deadline.
LastCodeOnly ==
  /\ invitation.token \in {0, issued}
  /\ invitation.until > 0 => invitation.token > 0

\* A code that is live, or has yet to be drawn, has paired nobody.
LiveCodeUnused ==
  \A c \in Codes : (c = invitation.token \/ c > issued) => usedBy[c] = {}

\* An open window and a live code are grants that have not been spent.
GrantsLeft ==
  spent + (IF window_until > 0 THEN 1 ELSE 0)
        + (IF invitation.token > 0 THEN 1 ELSE 0) <= granted

\* After `forget' there is no code, nor any to come from a half-done `pair', and
\* the window has closed behind the first phone.
OnlyTheWindowIsLeft ==
  lastCommand = "forget" =>
    /\ console = 0
    /\ invitation = NoInvitation
    /\ ~accept_any /\ pairedSince # {} => window_until = 0

PairingInv ==
  /\ TypeOK
  /\ LastCodeOnly
  /\ LiveCodeUnused
  /\ GrantsLeft
  /\ OnlyTheWindowIsLeft
  /\ OneCodeOnePhone
  /\ ForgetSticks
  /\ ForgetLeavesOneWay

-----------------------------------------------------------------------------
(* Typing. *)

LEMMA LeastIsNat ==
  ASSUME NEW a \in Nat, NEW b \in Nat
  PROVE  Least(a, b) \in Nat
BY DEF Least

LEMMA ModeTyped ==
  ASSUME NEW mode \in Modes
  PROVE  mode.any \in BOOLEAN /\ mode.window \in Nat
<1>1. CASE mode \in [any : {TRUE}, window : {0}, whenUnpaired : {FALSE}]
  <2>1. mode.any = TRUE
    BY <1>1
  <2>2. mode.window \in {0}
    BY <1>1
  <2>3. mode.any \in BOOLEAN
    BY <2>1, Zenon
  <2> QED
    BY <2>2, <2>3
<1>2. CASE mode \in [any : {FALSE}, window : {0} \cup Durations, whenUnpaired : BOOLEAN]
  <2>1. mode.any = FALSE
    BY <1>2
  <2>2. mode.window = 0 \/ mode.window \in Durations
    BY <1>2
  <2>3. mode.any \in BOOLEAN
    BY <2>1, Zenon
  <2>4. 0 \in Nat /\ Durations \subseteq Nat
    BY PairingAssumption
  <2>5. mode.window \in Nat
    BY <2>2, <2>4, Zenon
  <2> QED
    BY <2>3, <2>5
<1> QED
  BY <1>1, <1>2 DEF Modes

LEMMA InitTyped == Init => TypeOK
<1> SUFFICES ASSUME Init PROVE TypeOK
  OBVIOUS
<1>1. MaxCodes \in Nat
  BY PairingAssumption
<1>2. invitation \in [token : 0..MaxCodes, until : Nat] /\ issued \in 0..MaxCodes
  BY <1>1 DEF Init, NoInvitation
<1>3. usedBy \in [Codes -> SUBSET Phones]
  BY DEF Init
<1> QED
  BY <1>2, <1>3 DEF Init, TypeOK

LEMMA NextTyped == TypeOK /\ [Next]_vars => TypeOK'
<1> SUFFICES ASSUME TypeOK, [Next]_vars PROVE TypeOK'
  OBVIOUS
<1> USE PairingAssumption DEF TypeOK, Codes
<1>1. ASSUME NEW mode \in Modes, NEW terminal \in BOOLEAN, Start(mode, terminal)
      PROVE  TypeOK'
  <2>1. mode.any \in BOOLEAN /\ mode.window \in Nat
    BY ModeTyped
  <2>2. Least(mode.window, MaxTtl) \in Nat
    BY <2>1, LeastIsNat
  <2>3. issued' \in 0..MaxCodes
    BY <1>1 DEF Start
  <2>4. window_until' \in Nat /\ granted' \in Nat /\ spent' \in Nat
    BY <1>1, <2>1 DEF Start
  <2>5. invitation' \in [token : 0..MaxCodes, until : Nat]
    BY <1>1, <2>1, <2>2 DEF Start, NoInvitation
  <2> QED
    BY <1>1, <2>1, <2>3, <2>4, <2>5 DEF Start, Command
<1>2. ASSUME NEW d \in Durations, PairOpens(d) PROVE TypeOK'
  BY <1>2 DEF PairOpens, open_window, Command
<1>3. CASE PairShowsCode
  <2>1. Least(console, MaxTtl) \in Nat
    BY LeastIsNat
  <2> QED
    BY <1>3, <2>1 DEF PairShowsCode, invite
<1>4. CASE Qr
  BY <1>4 DEF Qr, invite, Command
<1>5. CASE Close
  BY <1>5 DEF Close, close_window, Command
<1>6. ASSUME NEW ok \in BOOLEAN, Forget(ok) PROVE TypeOK'
  BY <1>6 DEF Forget, WithdrawCode, save, Command, NoInvitation
<1>7. ASSUME NEW p \in Phones, NEW t \in 0..MaxCodes, Arrive(p, t) PROVE TypeOK'
  BY <1>7 DEF Arrive, history, Handshakes
<1>8. ASSUME NEW h \in inflight, Admit(h) PROVE TypeOK'
  <2>1. h \in Handshakes
    OBVIOUS
  <2>2. CASE Known(h) \/ Rejected(h)
    BY <1>8, <2>2 DEF Admit, Known, Rejected, history
  <2>3. ASSUME NEW ok \in BOOLEAN, NewlyPaired(h, ok) PROVE TypeOK'
    <3>1. h.phone \in Phones
      BY <2>1 DEF Handshakes
    <3>2. usedBy' \in [Codes -> SUBSET Phones]
      BY <2>3, <3>1 DEF NewlyPaired
    <3>3. invitation' \in [token : 0..MaxCodes, until : Nat]
      BY <2>3 DEF NewlyPaired, UseUp, NoInvitation
    <3> QED
      BY <1>8, <2>3, <3>1, <3>2, <3>3 DEF Admit, NewlyPaired, save, close_window
  <2> QED
    BY <1>8, <2>2, <2>3 DEF Admit
<1>9. CASE Tick
  BY <1>9 DEF Tick, history
<1>10. CASE Stop
  <2>1. invitation' \in [token : 0..MaxCodes, until : Nat]
    BY <1>10 DEF Stop, NoInvitation
  <2> QED
    BY <1>10, <2>1 DEF Stop, history
<1>11. CASE LoseFile
  BY <1>11 DEF LoseFile, history
<1>12. CASE UNCHANGED vars
  BY <1>12 DEF vars, code, history
<1> QED
  BY <1>1, <1>2, <1>3, <1>4, <1>5, <1>6, <1>7, <1>8, <1>9, <1>10, <1>11, <1>12 DEF Next

\* Every variable keeps its type, the codes drawn and the list on disk included.
THEOREM Typing == Spec => []TypeOK
BY InitTyped, NextTyped, PTL DEF Spec

-----------------------------------------------------------------------------
(* What a window and a code are worth. *)

\* A phone is let in only by an open window or by the live code, which are then
\* grants still unspent, or because any device is accepted.
LEMMA PaidAtTheDoor ==
  ASSUME TypeOK, LastCodeOnly, NEW h \in inflight
  PROVE  /\ h.at \in Nat /\ h.phone \in Phones
         /\ invitation_accepts(h.token, h.at) =>
              h.token = invitation.token /\ h.token \in Codes /\ h.token = issued
         /\ window_remaining(h.at) => window_until > 0
<1>1. h \in Handshakes
  BY DEF TypeOK
<1>2. h.at \in Nat /\ h.phone \in Phones /\ h.token \in 0..MaxCodes
  BY <1>1 DEF Handshakes
<1>3. invitation.until \in Nat /\ invitation.token \in 0..MaxCodes
      /\ window_until \in Nat /\ issued \in 0..MaxCodes
  BY DEF TypeOK
<1>4. ASSUME invitation_accepts(h.token, h.at)
      PROVE  h.token = invitation.token /\ h.token \in Codes /\ h.token = issued
  BY <1>2, <1>3, <1>4, PairingAssumption
     DEF invitation_accepts, LastCodeOnly, Codes
<1>5. window_remaining(h.at) => window_until > 0
  BY <1>2, <1>3 DEF window_remaining
<1> QED
  BY <1>2, <1>4, <1>5

LEMMA InitInv == Init => PairingInv
<1> SUFFICES ASSUME Init PROVE PairingInv
  OBVIOUS
<1>1. TypeOK
  BY InitTyped
<1>2. usedBy = [c \in Codes |-> {}] /\ sinceForget = Phones /\ lastCommand = "none"
      /\ trusted_clients = {} /\ disk \subseteq Phones /\ spent = 0 /\ granted = 0
      /\ invitation.token = 0 /\ invitation.until = 0 /\ window_until = 0
  BY DEF Init, NoInvitation
<1>3. LastCodeOnly /\ GrantsLeft /\ OnlyTheWindowIsLeft
  BY <1>2 DEF LastCodeOnly, GrantsLeft, OnlyTheWindowIsLeft
<1>4. LiveCodeUnused /\ OneCodeOnePhone
  BY <1>2 DEF LiveCodeUnused, OneCodeOnePhone
<1>5. ForgetSticks /\ ForgetLeavesOneWay
  BY <1>2 DEF ForgetSticks, ForgetLeavesOneWay
<1> QED
  BY <1>1, <1>3, <1>4, <1>5 DEF PairingInv

\* A new code, whoever asks for it, has paired nobody.
LEMMA InviteKeepsCodes ==
  ASSUME PairingInv, NEW ttl \in Nat, invite(ttl), UNCHANGED <<usedBy, now>>
  PROVE  LastCodeOnly' /\ LiveCodeUnused' /\ OneCodeOnePhone'
<1>1. issued' = issued + 1 /\ invitation' = [token |-> issued + 1, until |-> now + ttl]
  BY DEF invite
<1>2. issued \in Nat /\ now \in Nat
  BY PairingAssumption DEF PairingInv, TypeOK
<1>3. LastCodeOnly'
  BY <1>1, <1>2 DEF LastCodeOnly
<1>4. LiveCodeUnused'
  BY <1>1, <1>2, PairingAssumption DEF PairingInv, LiveCodeUnused, Codes
<1>5. OneCodeOnePhone'
  BY DEF PairingInv, OneCodeOnePhone
<1> QED
  BY <1>3, <1>4, <1>5

\* Pairing a new phone spends what let it in.
LEMMA NewlyPairedInv ==
  ASSUME PairingInv, NEW h \in inflight, NEW ok \in BOOLEAN, NewlyPaired(h, ok),
         UNCHANGED <<accept_any, console>>
  PROVE  /\ LastCodeOnly' /\ LiveCodeUnused' /\ GrantsLeft' /\ OnlyTheWindowIsLeft'
         /\ OneCodeOnePhone' /\ ForgetSticks' /\ ForgetLeavesOneWay'
<1> DEFINE invited == invitation_accepts(h.token, h.at)
<1>1. TypeOK /\ LastCodeOnly /\ LiveCodeUnused /\ GrantsLeft /\ OnlyTheWindowIsLeft
      /\ OneCodeOnePhone /\ ForgetSticks /\ ForgetLeavesOneWay
  BY DEF PairingInv
<1>2. /\ h.phone \in Phones
      /\ invited => h.token = invitation.token /\ h.token \in Codes
      /\ invited => h.token = issued
      /\ window_remaining(h.at) => window_until > 0
  BY <1>1, PaidAtTheDoor
<1>3. /\ issued \in Nat /\ spent \in Nat /\ granted \in Nat /\ accept_any \in BOOLEAN
      /\ usedBy \in [Codes -> SUBSET Phones]
      /\ invitation.token \in Nat /\ invitation.until \in Nat
      /\ Codes = 1..MaxCodes /\ MaxCodes \in Nat
  BY <1>1, PairingAssumption DEF TypeOK, Codes
<1>4. /\ invited \/ is_open(h.at)
      /\ invitation' = IF invited THEN NoInvitation ELSE invitation
      /\ trusted_clients' = trusted_clients \cup {h.phone}
      /\ disk' = IF ok THEN trusted_clients \cup {h.phone} ELSE disk
      /\ window_until' = 0
      /\ usedBy' = IF invited THEN [usedBy EXCEPT ![h.token] = @ \cup {h.phone}]
                   ELSE usedBy
      /\ spent' = IF accept_any THEN spent ELSE spent + 1
      /\ pairedSince' = pairedSince \cup {h.phone}
      /\ sinceForget' = sinceForget \cup {h.phone}
      /\ UNCHANGED <<issued, granted, lastCommand>>
  BY DEF NewlyPaired, UseUp, save, close_window
<1>5. NoInvitation.token = 0 /\ NoInvitation.until = 0
  BY DEF NoInvitation
<1>6. LastCodeOnly'
  BY <1>1, <1>4, <1>5 DEF LastCodeOnly
<1>7. LiveCodeUnused'
  <2> SUFFICES ASSUME NEW c \in Codes, c = invitation'.token \/ c > issued'
               PROVE  usedBy'[c] = {}
    BY DEF LiveCodeUnused
  <2>1. usedBy[c] = {} /\ (invited => c # h.token)
    BY <1>1, <1>2, <1>3, <1>4, <1>5 DEF LiveCodeUnused
  <2> QED
    BY <1>3, <1>4, <2>1
<1>8. GrantsLeft'
  <2>1. CASE accept_any
    BY <1>1, <1>3, <1>4, <1>5, <2>1 DEF GrantsLeft
  <2>2. CASE ~accept_any /\ invited
    <3>1. invitation.token > 0
      BY <1>2, <1>3, <2>2
    <3> QED
      BY <1>1, <1>3, <1>4, <1>5, <2>2, <3>1 DEF GrantsLeft
  <2>3. CASE ~accept_any /\ ~invited
    <3>1. window_until > 0
      BY <1>2, <1>4, <2>3 DEF is_open
    <3> QED
      BY <1>1, <1>3, <1>4, <1>5, <2>3, <3>1 DEF GrantsLeft
  <2> QED
    BY <2>1, <2>2, <2>3
<1>9. OnlyTheWindowIsLeft'
  BY <1>1, <1>4, <1>5 DEF OnlyTheWindowIsLeft
<1>10. OneCodeOnePhone'
  <2> SUFFICES ASSUME NEW c \in Codes, NEW p \in usedBy'[c], NEW q \in usedBy'[c]
               PROVE  p = q
    BY DEF OneCodeOnePhone
  <2>1. CASE invited /\ c = h.token
    <3>1. usedBy[c] = {}
      BY <1>1, <1>2, <2>1 DEF LiveCodeUnused
    <3> QED
      BY <1>3, <1>4, <2>1, <3>1
  <2>2. CASE ~(invited /\ c = h.token)
    <3>1. usedBy'[c] = usedBy[c]
      BY <1>3, <1>4, <2>2
    <3> QED
      BY <1>1, <3>1 DEF OneCodeOnePhone
  <2> QED
    BY <2>1, <2>2
<1>11. ForgetSticks'
  BY <1>1, <1>4 DEF ForgetSticks
<1>12. ForgetLeavesOneWay'
  <2> SUFFICES ASSUME ~accept_any', lastCommand' = "forget" PROVE pairedSince = {}
    BY <1>4 DEF ForgetLeavesOneWay
  <2>1. ~accept_any /\ lastCommand = "forget"
    BY <1>4
  <2>2. invitation.token = 0 /\ ~invited
    BY <1>1, <1>2, <1>3, <1>5, <2>1 DEF OnlyTheWindowIsLeft
  <2>3. window_until > 0
    BY <1>2, <1>4, <2>1, <2>2 DEF is_open
  <2> QED
    BY <1>1, <2>1, <2>3 DEF OnlyTheWindowIsLeft
<1> QED
  BY <1>6, <1>7, <1>8, <1>9, <1>10, <1>11, <1>12

LEMMA NextInv == PairingInv /\ [Next]_vars => PairingInv'
<1> SUFFICES ASSUME PairingInv, [Next]_vars PROVE PairingInv'
  OBVIOUS
<1>1. TypeOK'
  BY NextTyped DEF PairingInv
<1> DEFINE Rest == /\ LastCodeOnly /\ LiveCodeUnused /\ GrantsLeft
                   /\ OnlyTheWindowIsLeft /\ OneCodeOnePhone /\ ForgetSticks
                   /\ ForgetLeavesOneWay
<1>2. TypeOK /\ Rest
  BY DEF PairingInv
<1>3. /\ now \in Nat /\ granted \in Nat /\ spent \in Nat /\ issued \in Nat
      /\ console \in Nat /\ window_until \in Nat /\ invitation.token \in Nat
      /\ sinceForget \subseteq Phones /\ disk \subseteq Phones
  BY <1>2, PairingAssumption DEF TypeOK
<1>4. NoInvitation.token = 0 /\ NoInvitation.until = 0
  BY DEF NoInvitation
<1>5. ASSUME UNCHANGED <<history, trusted_clients, disk, accept_any, window_until,
                         invitation, console>>
      PROVE  Rest'
  BY <1>2, <1>5 DEF history, LastCodeOnly, LiveCodeUnused, GrantsLeft,
     OnlyTheWindowIsLeft, OneCodeOnePhone, ForgetSticks, ForgetLeavesOneWay
<1>6. ASSUME NEW mode \in Modes, NEW terminal \in BOOLEAN, Start(mode, terminal)
      PROVE  Rest'
  <2> DEFINE opens == mode.window > 0 /\ (mode.whenUnpaired => disk = {})
  <2>1. /\ UNCHANGED <<disk, usedBy, sinceForget>> /\ trusted_clients' = disk
        /\ pairedSince' = {} /\ lastCommand' = "none" /\ spent' = 0
    BY <1>6 DEF Start, Command
  <2>2. CASE opens /\ terminal
    <3>1. /\ invitation' = [token |-> issued + 1,
                           until |-> now + Least(mode.window, MaxTtl)]
          /\ issued' = issued + 1 /\ granted' = 2
      BY <1>6, <2>2 DEF Start
    <3>2. invitation'.token = issued + 1
      BY <3>1
    <3>3. LastCodeOnly' /\ GrantsLeft'
      BY <1>3, <2>1, <3>1, <3>2 DEF LastCodeOnly, GrantsLeft
    <3>4. LiveCodeUnused'
      BY <1>2, <1>3, <2>1, <3>1, <3>2, PairingAssumption DEF LiveCodeUnused, Codes
    <3> QED
      BY <1>2, <2>1, <3>3, <3>4
      DEF OnlyTheWindowIsLeft, OneCodeOnePhone, ForgetSticks, ForgetLeavesOneWay
  <2>3. CASE ~(opens /\ terminal)
    <3>1. invitation' = NoInvitation /\ issued' = issued
      BY <1>6, <2>3 DEF Start
    <3>2. opens => granted' = 1
      BY <1>6, <2>3 DEF Start
    <3>3. ~opens => granted' = 0 /\ window_until' = 0
      BY <1>6, <2>3 DEF Start
    <3>4. LastCodeOnly' /\ GrantsLeft'
      BY <1>4, <2>1, <3>1, <3>2, <3>3 DEF LastCodeOnly, GrantsLeft
    <3>5. LiveCodeUnused'
      BY <1>2, <1>3, <1>4, <2>1, <3>1, PairingAssumption DEF LiveCodeUnused, Codes
    <3> QED
      BY <1>2, <2>1, <3>4, <3>5
      DEF OnlyTheWindowIsLeft, OneCodeOnePhone, ForgetSticks, ForgetLeavesOneWay
  <2> QED
    BY <2>2, <2>3
<1>7. ASSUME NEW d \in Durations, PairOpens(d) PROVE Rest'
  <2>1. granted' = granted + 1 /\ lastCommand' = "pair" /\ pairedSince' = {}
        /\ UNCHANGED <<trusted_clients, disk, invitation, issued, usedBy, spent, sinceForget>>
    BY <1>7 DEF PairOpens, open_window, Command
  <2> QED
    BY <1>2, <1>3, <2>1 DEF LastCodeOnly, LiveCodeUnused, GrantsLeft,
       OnlyTheWindowIsLeft, OneCodeOnePhone, ForgetSticks, ForgetLeavesOneWay
<1>8. ASSUME PairShowsCode PROVE Rest'
  <2>1. /\ console > 0 /\ invite(Least(console, MaxTtl))
        /\ UNCHANGED <<now, trusted_clients, disk, accept_any, window_until, usedBy,
                       spent, lastCommand, pairedSince, sinceForget>>
    BY <1>8 DEF PairShowsCode
  <2>2. LastCodeOnly' /\ LiveCodeUnused' /\ OneCodeOnePhone'
    BY <1>3, <2>1, LeastIsNat, InviteKeepsCodes, PairingAssumption
  <2>3. GrantsLeft'
    BY <1>2, <1>3, <2>1 DEF invite, GrantsLeft
  <2>4. lastCommand # "forget"
    BY <1>2, <2>1 DEF OnlyTheWindowIsLeft
  <2>5. OnlyTheWindowIsLeft' /\ ForgetLeavesOneWay'
    BY <2>1, <2>4 DEF OnlyTheWindowIsLeft, ForgetLeavesOneWay
  <2>6. ForgetSticks'
    BY <1>2, <2>1 DEF ForgetSticks
  <2> QED
    BY <2>2, <2>3, <2>5, <2>6
<1>9. ASSUME Qr PROVE Rest'
  <2>1. /\ invite(DefaultTtl) /\ lastCommand' = "qr"
        /\ UNCHANGED <<now, trusted_clients, disk, window_until, usedBy, spent,
                       sinceForget>>
    BY <1>9 DEF Qr, Command
  <2>2. LastCodeOnly' /\ LiveCodeUnused' /\ OneCodeOnePhone'
    BY <2>1, InviteKeepsCodes, PairingAssumption
  <2>3. GrantsLeft'
    BY <1>2, <1>3, <2>1 DEF invite, GrantsLeft
  <2>4. OnlyTheWindowIsLeft' /\ ForgetLeavesOneWay'
    BY <2>1 DEF OnlyTheWindowIsLeft, ForgetLeavesOneWay
  <2>5. ForgetSticks'
    BY <1>2, <2>1 DEF ForgetSticks
  <2> QED
    BY <2>2, <2>3, <2>4, <2>5
<1>10. ASSUME Close PROVE Rest'
  <2>1. /\ window_until' = 0 /\ lastCommand' = "close"
        /\ UNCHANGED <<trusted_clients, disk, invitation, issued, usedBy, granted,
                       spent, sinceForget>>
    BY <1>10 DEF Close, close_window, Command
  <2>2. LastCodeOnly' /\ GrantsLeft' /\ OnlyTheWindowIsLeft' /\ ForgetLeavesOneWay'
    BY <1>2, <1>3, <2>1
    DEF LastCodeOnly, GrantsLeft, OnlyTheWindowIsLeft, ForgetLeavesOneWay
  <2>3. LiveCodeUnused' /\ OneCodeOnePhone'
    BY <1>2, <2>1 DEF LiveCodeUnused, OneCodeOnePhone
  <2>4. ForgetSticks'
    BY <1>2, <2>1 DEF ForgetSticks
  <2> QED
    BY <2>2, <2>3, <2>4
<1>11. ASSUME NEW ok \in BOOLEAN, Forget(ok) PROVE Rest'
  <2>1. /\ invitation' = NoInvitation /\ trusted_clients' = {} /\ console = 0
        /\ disk' = IF ok THEN {} ELSE disk
        /\ sinceForget' = IF ok THEN {} ELSE sinceForget
        /\ lastCommand' = "forget" /\ pairedSince' = {}
        /\ UNCHANGED <<accept_any, window_until, console, issued, usedBy, granted, spent>>
    BY <1>11 DEF Forget, WithdrawCode, save, Command
  <2>2. LastCodeOnly' /\ GrantsLeft' /\ OnlyTheWindowIsLeft' /\ ForgetLeavesOneWay'
    BY <1>2, <1>3, <1>4, <2>1
    DEF LastCodeOnly, GrantsLeft, OnlyTheWindowIsLeft, ForgetLeavesOneWay
  <2>3. LiveCodeUnused' /\ OneCodeOnePhone'
    BY <1>2, <1>4, <2>1, PairingAssumption DEF LiveCodeUnused, OneCodeOnePhone, Codes
  <2>4. ForgetSticks'
    BY <1>2, <2>1 DEF ForgetSticks
  <2> QED
    BY <2>2, <2>3, <2>4
<1>12. ASSUME NEW p \in Phones, NEW t \in 0..MaxCodes, Arrive(p, t) PROVE Rest'
  BY <1>5, <1>12 DEF Arrive
<1>13. ASSUME NEW h \in inflight, Admit(h) PROVE Rest'
  <2>1. CASE Known(h) \/ Rejected(h)
    <3>1. UNCHANGED <<history, trusted_clients, disk, accept_any, window_until,
                      invitation, console>>
      BY <1>13, <2>1 DEF Admit, Known, Rejected
    <3> QED
      BY <1>5, <3>1
  <2>2. ASSUME NEW ok \in BOOLEAN, NewlyPaired(h, ok) PROVE Rest'
    <3>1. UNCHANGED <<accept_any, console>>
      BY <1>13 DEF Admit
    <3> HIDE DEF Rest
    <3> QED
      BY <2>2, <3>1, NewlyPairedInv DEF Rest
  <2> QED
    BY <1>13, <2>1, <2>2 DEF Admit
<1>14. ASSUME Tick PROVE Rest'
  BY <1>5, <1>14 DEF Tick
<1>15. ASSUME Stop PROVE Rest'
  <2>1. /\ trusted_clients' = {} /\ window_until' = 0 /\ invitation' = NoInvitation
        /\ console' = 0
        /\ UNCHANGED <<disk, accept_any, issued, usedBy, granted, spent, lastCommand,
                       pairedSince, sinceForget>>
    BY <1>15 DEF Stop, history
  <2>2. LastCodeOnly' /\ GrantsLeft' /\ OnlyTheWindowIsLeft' /\ ForgetLeavesOneWay'
    BY <1>2, <1>3, <1>4, <2>1
    DEF LastCodeOnly, GrantsLeft, OnlyTheWindowIsLeft, ForgetLeavesOneWay
  <2>3. LiveCodeUnused' /\ OneCodeOnePhone'
    BY <1>2, <1>4, <2>1, PairingAssumption DEF LiveCodeUnused, OneCodeOnePhone, Codes
  <2>4. ForgetSticks'
    BY <1>2, <2>1 DEF ForgetSticks
  <2> QED
    BY <2>2, <2>3, <2>4
<1>16. ASSUME LoseFile PROVE Rest'
  <2>1. disk' = {} /\ UNCHANGED <<trusted_clients, accept_any, window_until, invitation,
                                  console, history>>
    BY <1>16 DEF LoseFile
  <2>2. LastCodeOnly' /\ GrantsLeft' /\ OnlyTheWindowIsLeft' /\ ForgetLeavesOneWay'
    BY <1>2, <2>1
    DEF history, LastCodeOnly, GrantsLeft, OnlyTheWindowIsLeft, ForgetLeavesOneWay
  <2>3. LiveCodeUnused' /\ OneCodeOnePhone'
    BY <1>2, <2>1 DEF history, LiveCodeUnused, OneCodeOnePhone
  <2>4. ForgetSticks'
    BY <1>2, <2>1 DEF history, ForgetSticks
  <2> QED
    BY <2>2, <2>3, <2>4
<1>17. ASSUME UNCHANGED vars PROVE Rest'
  <2>1. UNCHANGED <<history, trusted_clients, disk, accept_any, window_until,
                    invitation, console>>
    BY <1>17 DEF vars, code
  <2> QED
    BY <1>5, <2>1
<1>18. Rest'
  BY <1>6, <1>7, <1>8, <1>9, <1>10, <1>11, <1>12, <1>13, <1>14, <1>15, <1>16, <1>17
  DEF Next
<1> QED
  BY <1>1, <1>18 DEF PairingInv

LEMMA Invariance == Spec => []PairingInv
BY InitInv, NextInv, PTL DEF Spec

-----------------------------------------------------------------------------
(* The theorems. *)

\* Every phone the server pairs is paid for by a window opened or a code drawn
\* since it started, unless it was started to accept any device.
THEOREM PaidFor == Spec => []PairingsArePaidFor
<1>1. PairingInv => PairingsArePaidFor
  BY DEF PairingInv, TypeOK, GrantsLeft, PairingsArePaidFor
<1> QED
  BY <1>1, Invariance, PTL

\* A code pairs one phone at most, across restarts of the server and new codes.
THEOREM OneCode == Spec => []OneCodeOnePhone
<1>1. PairingInv => OneCodeOnePhone
  BY DEF PairingInv
<1> QED
  BY <1>1, Invariance, PTL

\* After a `forget' that succeeded, no phone is trusted, now or after a restart,
\* that has not been paired again since.
THEOREM Forgotten == Spec => []ForgetSticks
<1>1. PairingInv => ForgetSticks
  BY DEF PairingInv
<1> QED
  BY <1>1, Invariance, PTL

\* After any `forget', until the next command, one phone at most is paired.
THEOREM ForgottenButOne == Spec => []ForgetLeavesOneWay
<1>1. PairingInv => ForgetLeavesOneWay
  BY DEF PairingInv
<1> QED
  BY <1>1, Invariance, PTL

\* A code that a newer one has replaced pairs nobody.
THEOREM OldCodes == Spec => OnlyTheCodeOnScreen
<1> DEFINE OldKept == \A c \in Codes : c < issued => usedBy'[c] = usedBy[c]
<1>1. PairingInv /\ [Next]_vars => [OldKept]_vars
  <2> SUFFICES ASSUME PairingInv, Next, NEW c \in Codes, c < issued
               PROVE  usedBy'[c] = usedBy[c]
    OBVIOUS
  <2>1. ASSUME NEW h \in inflight, Admit(h) PROVE usedBy'[c] = usedBy[c]
    <3>1. CASE Known(h) \/ Rejected(h)
      BY <3>1 DEF Known, Rejected, history
    <3>2. ASSUME NEW ok \in BOOLEAN, NewlyPaired(h, ok) PROVE usedBy'[c] = usedBy[c]
      <4>1. invitation_accepts(h.token, h.at) => h.token = issued
        BY PaidAtTheDoor DEF PairingInv
      <4>2. usedBy \in [Codes -> SUBSET Phones] /\ issued \in Nat
        BY PairingAssumption DEF PairingInv, TypeOK
      <4> QED
        BY <3>2, <4>1, <4>2, PairingAssumption DEF NewlyPaired, Codes
    <3> QED
      BY <2>1, <3>1, <3>2 DEF Admit
  <2>2. CASE ~(\E h \in inflight : Admit(h))
    BY <2>2 DEF Next, Start, PairOpens, PairShowsCode, Qr, Close, Forget, Arrive, Tick,
       Stop, LoseFile, history
  <2> QED
    BY <2>1, <2>2
<1> QED
  BY <1>1, Invariance, PTL DEF Spec, OnlyTheCodeOnScreen
=============================================================================
