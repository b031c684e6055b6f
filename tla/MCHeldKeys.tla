------------------------------ MODULE MCHeldKeys ------------------------------
(***************************************************************************)
(* Instances of HeldKeys for TLC: two keys and two modifiers.              *)
(***************************************************************************)
EXTENDS HeldKeys, TLC

Symmetry == Permutations(Keys) \cup Permutations(Mods)
=============================================================================
