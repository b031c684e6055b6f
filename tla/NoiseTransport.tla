---------------------------- MODULE NoiseTransport ----------------------------
(***************************************************************************)
(* The server's end of an encrypted conversation (NoiseTransport and       *)
(* ReplayWindow in telepad-crypto/src/lib.rs): a counter numbers the       *)
(* packets sent, and a bitmap remembers which of the last ones received    *)
(* have been accepted.  One end is modelled as the receiver, the other as  *)
(* the sender; between them the network loses, repeats and reorders.       *)
(*                                                                         *)
(* The bitmap, a u128, is the set of the positions of its bits that are 1. *)
(***************************************************************************)
EXTENDS Naturals

CONSTANTS
  WINDOW_SIZE,  \* ReplayWindow::WINDOW_SIZE, and the width of the bitmap
  MaxNonce      \* bound: the last packet number

ASSUME NoiseTransportAssumption ==
  /\ WINDOW_SIZE \in Nat \ {0}
  /\ MaxNonce \in Nat

VARIABLES
  send_nonce,   \* the sender's NoiseTransport::send_nonce
  initialized,  \* ReplayWindow, of the receiver
  max_nonce,
  bitmap,
  accepted,     \* history: numbers of the packets accepted
  answer        \* how decrypt() ended last

window == <<initialized, max_nonce, bitmap>>
transport_vars == <<send_nonce, window, accepted, answer>>

Bits == 0..(WINDOW_SIZE - 1)

TransportTypeOK ==
  /\ send_nonce \in 0..(MaxNonce + 1)
  /\ initialized \in BOOLEAN
  /\ max_nonce \in 0..MaxNonce
  /\ bitmap \subseteq Bits
  /\ accepted \subseteq 0..MaxNonce
  /\ answer \in {"none", "accepted", "refused"}

TransportInit ==
  /\ send_nonce = 0
  /\ initialized = FALSE
  /\ max_nonce = 0
  /\ bitmap = {}
  /\ accepted = {}
  /\ answer = "none"

-----------------------------------------------------------------------------

\* word << n
Shift(word, n) == {b + n : b \in word} \cap Bits

\* Mutated form: a packet a whole window behind the newest is still let in.
CheckOneMore(nonce) ==
  \/ ~initialized
  \/ nonce > max_nonce
  \/ /\ max_nonce - nonce <= WINDOW_SIZE
     /\ (max_nonce - nonce) \notin bitmap

\* ReplayWindow::check.
check(nonce) ==
  \/ ~initialized
  \/ nonce > max_nonce
  \/ /\ max_nonce - nonce < WINDOW_SIZE
     /\ (max_nonce - nonce) \notin bitmap

\* Mutated form: the newest packet is not marked when the window moves.
UpdateUnmarked(nonce) ==
  LET diff == nonce - max_nonce
  IN /\ initialized' = TRUE
     /\ max_nonce' = IF nonce > max_nonce THEN nonce ELSE max_nonce
     /\ bitmap' = IF ~initialized \/ diff >= WINDOW_SIZE THEN {0}
                  ELSE IF nonce > max_nonce THEN Shift(bitmap, diff)
                  ELSE bitmap \cup {max_nonce - nonce}

\* ReplayWindow::update.
window_update(nonce) ==
  /\ initialized' = TRUE
  /\ \/ /\ ~initialized
        /\ max_nonce' = nonce
        /\ bitmap' = {0}
     \/ /\ initialized /\ nonce > max_nonce
        /\ max_nonce' = nonce
        /\ bitmap' = IF nonce - max_nonce >= WINDOW_SIZE THEN {0}
                     ELSE Shift(bitmap, nonce - max_nonce) \cup {0}
     \/ /\ initialized /\ nonce <= max_nonce
        /\ max_nonce' = max_nonce
        /\ bitmap' = IF max_nonce - nonce < WINDOW_SIZE
                     THEN bitmap \cup {max_nonce - nonce} ELSE bitmap

-----------------------------------------------------------------------------

\* encrypt(): each packet takes the next number.
Encrypt ==
  /\ send_nonce <= MaxNonce
  /\ send_nonce' = send_nonce + 1
  /\ UNCHANGED <<window, accepted, answer>>

\* decrypt() of a packet that was sent: the number is checked first.
Decrypt(nonce) ==
  /\ nonce < send_nonce
  /\ \/ /\ check(nonce)
        /\ window_update(nonce)
        /\ accepted' = accepted \cup {nonce}
        /\ answer' = "accepted"
     \/ /\ ~check(nonce)
        /\ answer' = "refused"
        /\ UNCHANGED <<window, accepted>>
  /\ UNCHANGED send_nonce

\* decrypt() of a packet that does not authenticate, under any number: whether
\* the check or the cipher refuses it, the window stays as it is.
DecryptBad(nonce) ==
  /\ answer' = "refused"
  /\ UNCHANGED <<send_nonce, window, accepted>>

TransportNext ==
  \/ Encrypt
  \/ \E nonce \in 0..MaxNonce : Decrypt(nonce)
  \/ \E nonce \in 0..MaxNonce : DecryptBad(nonce)

TransportSpec == TransportInit /\ [][TransportNext]_transport_vars

-----------------------------------------------------------------------------
(* Properties. *)

Guard == INSTANCE ReplayGuard WITH
  Window <- WINDOW_SIZE, Last <- MaxNonce, sent <- send_nonce

\* Decryption accepts exactly the packets the guard accepts: each once, in any
\* order of arrival, unless it is a window or more behind the newest.
ImplementsGuard == Guard!Spec

\* The bitmap is the memory of the last WINDOW_SIZE numbers: a bit is set when,
\* and only when, the packet that far behind the newest has been accepted.
BitmapIsMemory ==
  /\ initialized <=> accepted # {}
  /\ initialized => max_nonce \in accepted
  /\ \A n \in accepted : n <= max_nonce
  /\ bitmap = {d \in Bits : d <= max_nonce /\ (max_nonce - d) \in accepted}
=============================================================================
