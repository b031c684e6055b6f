------------------------------- MODULE Pairing -------------------------------
(***************************************************************************)
(* Who may connect to the desktop server (telepad-server/src/pairing.rs),  *)
(* the list of trusted phones behind it (PairingStore in telepad-crypto)   *)
(* and the two ways its owner lets a new phone in: a pairing window and a  *)
(* one-time code, the invitation drawn as a QR code.                       *)
(*                                                                         *)
(* The list lives in memory and in a file that is rewritten at every       *)
(* change; a rewrite can fail, and the process can stop at any moment.     *)
(* The owner's commands run in a console task and handshakes in the        *)
(* receive loop: they share the list under one lock, so the actions are    *)
(* the critical sections.  The `pair' command takes the lock twice, and a  *)
(* handshake reads the clock before it waits for the lock.                 *)
(*                                                                         *)
(* Instants are naturals.  The instant 0 stands for the None of an         *)
(* Option<Instant>: no reading of the clock is before it.                  *)
(***************************************************************************)
EXTENDS Integers, FiniteSets

CONSTANTS
  Phones,        \* static keys of the phones on the network
  Durations,     \* lengths the owner asks a window to last
  DefaultTtl,    \* DEFAULT_INVITATION_TTL
  MaxTtl,        \* MAX_INVITATION_TTL
  MaxTime,       \* bound: the last instant of a behaviour
  MaxCodes,      \* bound: codes ever drawn
  MaxGrants      \* bound: windows opened and codes drawn by one process

ASSUME PairingAssumption ==
  /\ Durations \subseteq Nat \ {0}
  /\ DefaultTtl \in Nat \ {0}
  /\ MaxTtl \in Nat \ {0}
  /\ MaxTime \in Nat
  /\ MaxCodes \in Nat
  /\ MaxGrants \in Nat

VARIABLES
  running,          \* the process is up
  now,              \* the clock
  trusted_clients,  \* PairingStore::trusted_clients, in memory
  disk,             \* what load_or_default would read from the file
  accept_any,       \* Pairing::accept_any
  window_until,     \* Pairing::window_until
  invitation,       \* Pairing::invitation
  inflight,         \* the handshake that waits for the lock
  console,          \* 0, or the length of the `pair' half done
  \* history, read by the properties only
  issued,           \* codes drawn so far; the n-th code is n, 0 is no code
  usedBy,           \* the phones each code paired
  granted,          \* windows opened and codes drawn by this process
  spent,            \* phones this process paired, unless it accepts any
  lastCommand,      \* the owner's last command that changes who may pair
  pairedSince,      \* phones paired since that command
  sinceForget       \* phones paired since `forget' last succeeded

code == <<running, now, trusted_clients, disk, accept_any, window_until,
          invitation, inflight, console>>
history == <<issued, usedBy, granted, spent, lastCommand, pairedSince,
             sinceForget>>
vars == <<code, history>>

Codes == 1..MaxCodes
NoInvitation == [token |-> 0, until |-> 0]
Handshakes == [phone : Phones, token : 0..MaxCodes, at : Nat]
Least(a, b) == IF a <= b THEN a ELSE b

TypeOK ==
  /\ running \in BOOLEAN
  /\ now \in Nat
  /\ trusted_clients \subseteq Phones
  /\ disk \subseteq Phones
  /\ accept_any \in BOOLEAN
  /\ window_until \in Nat
  /\ invitation \in [token : 0..MaxCodes, until : Nat]
  /\ inflight \subseteq Handshakes
  /\ console \in Nat
  /\ issued \in 0..MaxCodes
  /\ usedBy \in [Codes -> SUBSET Phones]
  /\ granted \in Nat
  /\ spent \in Nat
  /\ lastCommand \in {"none", "pair", "qr", "close", "forget"}
  /\ pairedSince \subseteq Phones
  /\ sinceForget \subseteq Phones

Init ==
  /\ running = FALSE
  /\ now = 0
  /\ trusted_clients = {}
  /\ disk \in SUBSET Phones
  /\ accept_any = FALSE
  /\ window_until = 0
  /\ invitation = NoInvitation
  /\ inflight = {}
  /\ console = 0
  /\ issued = 0
  /\ usedBy = [c \in Codes |-> {}]
  /\ granted = 0
  /\ spent = 0
  /\ lastCommand = "none"
  /\ pairedSince = {}
  /\ sinceForget = Phones

-----------------------------------------------------------------------------
(* The rules: what pairing.rs reads and writes. *)

\* The window's remaining time is not zero at the instant `at'.
window_remaining(at) == window_until > at

is_open(at) == accept_any \/ window_remaining(at)

\* Mutated form: any code that was ever drawn counts.
AnyCodeAccepted(token, at) == at < invitation.until /\ token # 0

invitation_accepts(token, at) == at < invitation.until /\ token = invitation.token

\* Mutated form: an empty list is not worth a rewrite.
SaveUnlessEmpty(list, ok) == disk' = IF ok /\ list # {} THEN list ELSE disk

\* The file takes the new list, or the rewrite fails and it keeps the old one.
save(list, ok) == disk' = IF ok THEN list ELSE disk

open_window(duration) ==
  /\ granted < MaxGrants
  /\ window_until' = now + duration
  /\ granted' = granted + 1

\* A fresh code takes the place of the one before it.
invite(ttl) ==
  /\ issued < MaxCodes
  /\ granted < MaxGrants
  /\ issued' = issued + 1
  /\ invitation' = [token |-> issued + 1, until |-> now + ttl]
  /\ granted' = granted + 1

\* Mutated form: the window stays open behind the phone it let in.
StaysOpen == UNCHANGED window_until

close_window == window_until' = 0

\* Mutated form: the code is still good after it has let a phone in.
CodeSurvives(invited) == UNCHANGED invitation

UseUp(invited) == invitation' = IF invited THEN NoInvitation ELSE invitation

WithdrawCode == invitation' = NoInvitation

-----------------------------------------------------------------------------
(* The owner's side. *)

\* History: the owner gives a command that changes who may pair.
Command(name) ==
  /\ lastCommand' = name
  /\ pairedSince' = {}

\* The modes a server is started in: whether it accepts any device, how long a
\* window it opens (0: none), and whether only when the list is empty.
Modes ==
  [any : {TRUE}, window : {0}, whenUnpaired : {FALSE}]
    \cup [any : {FALSE}, window : {0} \cup Durations, whenUnpaired : BOOLEAN]

\* The process starts: Server::bind loads the list, Pairing::new opens the
\* window of the mode, and on a terminal the banner draws a code for it, all
\* before the first packet is served.
Start(mode, terminal) ==
  LET opens == mode.window > 0 /\ (mode.whenUnpaired => disk = {})
      draws == opens /\ terminal
  IN /\ ~running
     /\ draws => issued < MaxCodes
     /\ running' = TRUE
     /\ trusted_clients' = disk
     /\ accept_any' = mode.any
     /\ window_until' = IF opens THEN now + mode.window ELSE 0
     /\ invitation' = IF draws
                      THEN [token |-> issued + 1,
                            until |-> now + Least(mode.window, MaxTtl)]
                      ELSE NoInvitation
     /\ issued' = IF draws THEN issued + 1 ELSE issued
     /\ granted' = IF draws THEN 2 ELSE IF opens THEN 1 ELSE 0
     /\ spent' = 0
     /\ Command("none")
     /\ UNCHANGED <<now, disk, inflight, console, usedBy, sinceForget>>

\* `pair d': the window first, under the lock.
PairOpens(d) ==
  /\ running /\ console = 0
  /\ open_window(d)
  /\ console' = d
  /\ Command("pair")
  /\ UNCHANGED <<running, now, trusted_clients, disk, accept_any, invitation,
                 inflight, issued, usedBy, spent, sinceForget>>

\* Then the code, under the lock again.
PairShowsCode ==
  /\ running /\ console > 0
  /\ invite(Least(console, MaxTtl))
  /\ console' = 0
  /\ UNCHANGED <<running, now, trusted_clients, disk, accept_any, window_until,
                 inflight, usedBy, spent, lastCommand, pairedSince,
                 sinceForget>>

\* `qr', and the tray's pairing panel.
Qr ==
  /\ running /\ console = 0
  /\ invite(DefaultTtl)
  /\ Command("qr")
  /\ UNCHANGED <<running, now, trusted_clients, disk, accept_any, window_until,
                 inflight, console, usedBy, spent, sinceForget>>

Close ==
  /\ running /\ console = 0
  /\ close_window
  /\ Command("close")
  /\ UNCHANGED <<running, now, trusted_clients, disk, accept_any, invitation,
                 inflight, console, issued, usedBy, granted, spent,
                 sinceForget>>

\* `forget': the list is emptied in memory before the file is rewritten.
Forget(ok) ==
  /\ running /\ console = 0
  /\ WithdrawCode
  /\ trusted_clients' = {}
  /\ save({}, ok)
  /\ Command("forget")
  /\ sinceForget' = IF ok THEN {} ELSE sinceForget
  /\ UNCHANGED <<running, now, accept_any, window_until, inflight, console,
                 issued, usedBy, granted, spent>>

-----------------------------------------------------------------------------
(* The phones' side. *)

\* A handshake has been verified and the clock read; the lock comes next.  The
\* phone carries any code it has seen on the screen, or none.
Arrive(phone, token) ==
  /\ running /\ inflight = {}
  /\ token <= issued
  /\ inflight' = {[phone |-> phone, token |-> token, at |-> now]}
  /\ UNCHANGED <<running, now, trusted_clients, disk, accept_any, window_until,
                 invitation, console, history>>

Known(h) ==
  /\ h.phone \in trusted_clients
  /\ UNCHANGED <<trusted_clients, disk, window_until, invitation, history>>

Rejected(h) ==
  /\ h.phone \notin trusted_clients
  /\ ~invitation_accepts(h.token, h.at)
  /\ ~is_open(h.at)
  /\ UNCHANGED <<trusted_clients, disk, window_until, invitation, history>>

\* The code is used up when it was what let the phone in; the window closes
\* either way.  A failed save does not refuse the phone.
NewlyPaired(h, ok) ==
  LET invited == invitation_accepts(h.token, h.at)
  IN /\ h.phone \notin trusted_clients
     /\ invited \/ is_open(h.at)
     /\ UseUp(invited)
     /\ trusted_clients' = trusted_clients \cup {h.phone}
     /\ save(trusted_clients \cup {h.phone}, ok)
     /\ close_window
     /\ usedBy' = IF invited
                  THEN [usedBy EXCEPT ![h.token] = @ \cup {h.phone}]
                  ELSE usedBy
     /\ spent' = IF accept_any THEN spent ELSE spent + 1
     /\ pairedSince' = pairedSince \cup {h.phone}
     /\ sinceForget' = sinceForget \cup {h.phone}
     /\ UNCHANGED <<issued, granted, lastCommand>>

\* handshake(): admit_with_token under the lock.
Admit(h) ==
  /\ running
  /\ inflight' = {}
  /\ Known(h) \/ Rejected(h) \/ \E ok \in BOOLEAN : NewlyPaired(h, ok)
  /\ UNCHANGED <<running, now, accept_any, console>>

-----------------------------------------------------------------------------
(* The world. *)

Tick ==
  /\ now < MaxTime
  /\ now' = now + 1
  /\ UNCHANGED <<running, trusted_clients, disk, accept_any, window_until,
                 invitation, inflight, console, history>>

\* The process stops or is killed: everything in memory is gone.
Stop ==
  /\ running
  /\ running' = FALSE
  /\ trusted_clients' = {}
  /\ window_until' = 0
  /\ invitation' = NoInvitation
  /\ inflight' = {}
  /\ console' = 0
  /\ UNCHANGED <<now, disk, accept_any, history>>

\* The file is deleted or damaged: load_or_default then reads an empty list.
LoseFile ==
  /\ ~running
  /\ disk # {}
  /\ disk' = {}
  /\ UNCHANGED <<running, now, trusted_clients, accept_any, window_until,
                 invitation, inflight, console, history>>

Next ==
  \/ \E mode \in Modes, terminal \in BOOLEAN : Start(mode, terminal)
  \/ \E d \in Durations : PairOpens(d)
  \/ PairShowsCode
  \/ Qr
  \/ Close
  \/ \E ok \in BOOLEAN : Forget(ok)
  \/ \E p \in Phones, t \in 0..MaxCodes : Arrive(p, t)
  \/ \E h \in inflight : Admit(h)
  \/ Tick
  \/ Stop
  \/ LoseFile

Spec == Init /\ [][Next]_vars

-----------------------------------------------------------------------------
(* Properties. *)

\* Unless the server was started to accept any device, each phone it pairs is
\* paid for by an act of the owner: no more phones are paired than windows were
\* opened and codes drawn since the process started (admit_with_token closes
\* the window behind every phone and uses up the code that let it in).
PairingsArePaidFor == spent <= granted

\* A code pairs one phone at most, whatever the order of handshakes, new codes
\* and restarts ("it admits one phone, once").
OneCodeOnePhone ==
  \A c \in Codes : \A p, q \in usedBy[c] : p = q

\* Once a newer code has been drawn, an older one pairs nobody ("only the code
\* now on the screen works").
OnlyTheCodeOnScreen ==
  [][\A c \in Codes : c < issued => usedBy'[c] = usedBy[c]]_vars

\* After a `forget' that succeeded, the phones the server trusts now, and those
\* it will trust after a restart, have all been paired again since.
ForgetSticks ==
  (trusted_clients \cup disk) \subseteq sinceForget

\* After `forget', successful or not, and until the owner's next command, at
\* most one phone can be paired again, by the window that `forget' leaves open.
ForgetLeavesOneWay ==
  (~accept_any /\ lastCommand = "forget") => \A p, q \in pairedSince : p = q

\* What the console promises of `close' ("Stop accepting new devices right
\* now"): no new phone is paired until the owner's next command.
CloseStopsNewPhones ==
  (~accept_any /\ lastCommand = "close") => pairedSince = {}
=============================================================================
