--------------------------- MODULE MCWifiDispatcher ---------------------------
(***************************************************************************)
(* Instances of WifiDispatcher for TLC.                                    *)
(***************************************************************************)
EXTENDS WifiDispatcher, TLC

Symmetry == Permutations(PCs)
=============================================================================
