------------------------------ MODULE MCPairing ------------------------------
(***************************************************************************)
(* Instance of Pairing for TLC.  Three phones (the one in the owner's hand *)
(* and two others), two codes, and a clock long enough for a code to       *)
(* expire before its window does.                                          *)
(***************************************************************************)
EXTENDS Pairing, TLC

Symmetry == Permutations(Phones)
=============================================================================
