---------------------------- MODULE MCNoiseSession ----------------------------
(***************************************************************************)
(* Instance of NoiseSession for TLC: words of three bits, so a window of   *)
(* six, and packets enough to jump by less than a word, by one, by one and *)
(* a part, and by more than two.                                           *)
(***************************************************************************)
EXTENDS NoiseSession
=============================================================================
