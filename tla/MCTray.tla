------------------------------- MODULE MCTray -------------------------------
(***************************************************************************)
(* Two starts, each of the tray program or of the console server, on one   *)
(* port or on two, with the key files and file systems that make a         *)
(* difference, and one run of `--quit'.                                    *)
(***************************************************************************)
EXTENDS Tray, TLC

CONSTANTS a, b, earlier

OnePort == a :> 1 @@ b :> 1
TwoPorts == a :> 1 @@ b :> 2

World(consoles, port, windows, links, found) ==
    [consoles |-> consoles, port |-> port, windows |-> windows, links |-> links, key |-> found]

Earlier(form) == [of |-> earlier, form |-> form]

MCWorlds ==
    { World({}, OnePort, FALSE, TRUE, NoFile), World({}, TwoPorts, TRUE, TRUE, Earlier("raw")),
      World({b}, TwoPorts, TRUE, TRUE, NoFile), World({}, OnePort, FALSE, FALSE, NoFile),
      World({b}, OnePort, TRUE, TRUE, Earlier("protected")), World({}, OnePort, FALSE, TRUE, [of |-> Nobody, form |-> "damaged"]) }
=============================================================================
