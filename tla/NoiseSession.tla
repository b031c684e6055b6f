----------------------------- MODULE NoiseSession -----------------------------
(***************************************************************************)
(* The phone's end of an encrypted conversation (NoiseSession and          *)
(* ReplayWindow in NoiseSession.kt), as the receiver of what the server    *)
(* sends.  Its window is kept in two words of a Long each, the newer half  *)
(* in bitmapLow, and moves by shifting one into the other.                 *)
(*                                                                         *)
(* A word is the set of the positions of its bits that are 1.  The JVM     *)
(* takes the count of a shift modulo the width of the word.  The server    *)
(* counts its packets from 0, so a number never reaches the sign bit.      *)
(***************************************************************************)
EXTENDS Integers

CONSTANTS
  Word,      \* the width of a Long
  MaxNonce   \* bound: the last packet number

ASSUME NoiseSessionAssumption ==
  /\ Word \in Nat \ {0}
  /\ MaxNonce \in Nat

VARIABLES
  sent,         \* packets the server has sent
  initialized,  \* ReplayWindow
  maxNonce,
  bitmapLow,
  bitmapHigh,
  closed,       \* reset() has destroyed the ciphers
  accepted,     \* history: numbers of the packets accepted
  answer        \* how decrypt() ended last

window == <<initialized, maxNonce, bitmapLow, bitmapHigh>>
session_vars == <<sent, window, closed, accepted, answer>>

Bits == 0..(Word - 1)

SessionTypeOK ==
  /\ sent \in 0..(MaxNonce + 1)
  /\ initialized \in BOOLEAN
  /\ maxNonce \in 0..MaxNonce
  /\ bitmapLow \subseteq Bits
  /\ bitmapHigh \subseteq Bits
  /\ closed \in BOOLEAN
  /\ accepted \subseteq 0..MaxNonce
  /\ answer \in {"none", "accepted", "refused"}

SessionInit ==
  /\ sent = 0
  /\ initialized = FALSE
  /\ maxNonce = 0
  /\ bitmapLow = {}
  /\ bitmapHigh = {}
  /\ closed = FALSE
  /\ accepted = {}
  /\ answer = "none"

-----------------------------------------------------------------------------

\* word shl n
shl(word, n) == {b + (n % Word) : b \in word} \cap Bits

\* Mutated form: the sign bit is carried down, as by shr.
ushrSigned(word, n) ==
  {b \in Bits : b + (n % Word) \in word}
    \cup {b \in Bits : (Word - 1) \in word /\ b + (n % Word) >= Word}

\* word ushr n
ushr(word, n) == {b \in Bits : b + (n % Word) \in word}

\* Mutated form: the half of a packet is chosen as if words had one bit more.
CheckWrongHalf(nonce) ==
  LET diff == maxNonce - nonce
  IN \/ ~initialized
     \/ nonce > maxNonce
     \/ diff <= Word /\ diff \notin bitmapLow
     \/ diff > Word /\ diff < 2 * Word /\ (diff - Word) \notin bitmapHigh

\* ReplayWindow.check.
check(nonce) ==
  LET diff == maxNonce - nonce
  IN \/ ~initialized
     \/ nonce > maxNonce
     \/ diff < Word /\ diff \notin bitmapLow
     \/ diff >= Word /\ diff < 2 * Word /\ (diff - Word) \notin bitmapHigh

\* The window moves up by diff.
Slide(diff) ==
  IF diff >= 2 * Word
  THEN bitmapLow' = {0} /\ bitmapHigh' = {}
  ELSE IF diff >= Word
  THEN bitmapLow' = {0} /\ bitmapHigh' = shl(bitmapLow, diff - Word)
  ELSE /\ bitmapLow' = shl(bitmapLow, diff) \cup {0}
       /\ bitmapHigh' = shl(bitmapHigh, diff) \cup ushr(bitmapLow, Word - diff)

\* A packet behind the newest is marked in the word it falls into.
Mark(diff) ==
  /\ bitmapLow' = IF diff < Word THEN bitmapLow \cup {diff} ELSE bitmapLow
  /\ bitmapHigh' = IF diff >= Word /\ diff < 2 * Word
                   THEN bitmapHigh \cup {diff - Word} ELSE bitmapHigh

\* ReplayWindow.update.
update(nonce) ==
  /\ initialized' = TRUE
  /\ \/ /\ ~initialized
        /\ maxNonce' = nonce
        /\ bitmapLow' = {0}
        /\ bitmapHigh' = {}
     \/ /\ initialized /\ nonce > maxNonce
        /\ maxNonce' = nonce
        /\ Slide(nonce - maxNonce)
     \/ /\ initialized /\ nonce <= maxNonce
        /\ maxNonce' = maxNonce
        /\ Mark(maxNonce - nonce)

-----------------------------------------------------------------------------

\* The server sends a packet.
Sent ==
  /\ sent <= MaxNonce
  /\ sent' = sent + 1
  /\ UNCHANGED <<window, closed, accepted, answer>>

\* decrypt() of a packet the server sent.
Decrypt(nonce) ==
  /\ nonce < sent
  /\ \/ /\ ~closed /\ check(nonce)
        /\ update(nonce)
        /\ accepted' = accepted \cup {nonce}
        /\ answer' = "accepted"
     \/ /\ closed \/ ~check(nonce)
        /\ answer' = "refused"
        /\ UNCHANGED <<window, accepted>>
  /\ UNCHANGED <<sent, closed>>

\* decrypt() of a packet that does not authenticate.
DecryptBad ==
  /\ answer' = "refused"
  /\ UNCHANGED <<sent, window, closed, accepted>>

\* reset(): the window outlives the ciphers, and a session is not used again.
reset ==
  /\ ~closed
  /\ closed' = TRUE
  /\ UNCHANGED <<sent, window, accepted, answer>>

SessionNext ==
  \/ Sent
  \/ \E nonce \in 0..MaxNonce : Decrypt(nonce)
  \/ DecryptBad
  \/ reset

SessionSpec == SessionInit /\ [][SessionNext]_session_vars

-----------------------------------------------------------------------------
(* Properties. *)

Guard == INSTANCE ReplayGuard WITH
  Window <- 2 * Word, Last <- MaxNonce

\* As long as the session is open, the phone accepts exactly the packets the
\* guard accepts; a closed one accepts none, which the guard calls bad.
ImplementsGuard == Guard!Spec

\* The two words together are the memory of the last 2 * Word numbers, with no
\* bit lost or doubled where one word ends and the other begins.
WordsAreMemory ==
  /\ initialized <=> accepted # {}
  /\ initialized => maxNonce \in accepted
  /\ \A n \in accepted : n <= maxNonce
  /\ bitmapLow = {d \in Bits : d <= maxNonce /\ (maxNonce - d) \in accepted}
  /\ bitmapHigh = {d \in Bits :
                     d + Word <= maxNonce /\ (maxNonce - d - Word) \in accepted}
=============================================================================
