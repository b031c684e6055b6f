--------------------------- MODULE MCNoiseTransport ---------------------------
(***************************************************************************)
(* Instance of NoiseTransport for TLC: a window of four, and enough packets*)
(* for one to arrive more than two windows late.                           *)
(***************************************************************************)
EXTENDS NoiseTransport
=============================================================================
