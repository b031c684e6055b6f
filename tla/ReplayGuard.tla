------------------------------ MODULE ReplayGuard ------------------------------
(***************************************************************************)
(* What either end of an encrypted conversation promises about the packets *)
(* it receives, whatever the network does to them: a packet is accepted    *)
(* when it is authentic, has not been accepted before, and is less than a  *)
(* window behind the newest accepted one.  Any other is refused.           *)
(*                                                                         *)
(* NoiseTransport (the server) and NoiseSession (the phone) implement it,  *)
(* each with a bitmap of its own.                                          *)
(***************************************************************************)
EXTENDS Naturals

CONSTANTS
  Window,   \* how far behind the newest a packet may be
  Last      \* bound: the last packet number

VARIABLES
  sent,      \* packets the other end has sent, numbered from 0
  accepted,  \* those accepted
  answer     \* what became of the packet delivered last

vars == <<sent, accepted, answer>>

Init ==
  /\ sent = 0
  /\ accepted = {}
  /\ answer = "none"

\* The other end sends its next packet.
Send ==
  /\ sent <= Last
  /\ sent' = sent + 1
  /\ UNCHANGED <<accepted, answer>>

Acceptable(n) ==
  /\ n \notin accepted
  /\ \A m \in accepted : m < n + Window

\* The network delivers a packet it has been given, for the first time or again,
\* in any order; one it never delivers is lost.
Deliver(n) ==
  /\ n < sent
  /\ IF Acceptable(n)
     THEN /\ accepted' = accepted \cup {n}
          /\ answer' = "accepted"
     ELSE /\ answer' = "refused"
          /\ UNCHANGED accepted
  /\ UNCHANGED sent

\* A packet of another session, or a damaged one, under any number.
DeliverBad ==
  /\ answer' = "refused"
  /\ UNCHANGED <<sent, accepted>>

Next ==
  \/ Send
  \/ \E n \in 0..Last : Deliver(n)
  \/ DeliverBad

Spec == Init /\ [][Next]_vars
=============================================================================
