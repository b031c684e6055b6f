--------------------------- MODULE MCDesktopServer ---------------------------
(***************************************************************************)
(* Instances of DesktopServer for TLC.                                     *)
(***************************************************************************)
EXTENDS DesktopServer, TLC

Symmetry == Permutations(Addrs) \cup Permutations(Phones) \cup Permutations(Inputs)
=============================================================================
