------------------------------ MODULE MCPanel ------------------------------
(***************************************************************************)
(* An instance of Panel for TLC: each system, with a tray and with a page, *)
(* and without one or the other.                                           *)
(***************************************************************************)
EXTENDS Panel, CommandLines, TLC

Given(os_, tray_, panel_, acts_) == [os |-> os_, tray |-> tray_, panel |-> panel_, acts |-> acts_]
MCGivens ==
    {Given("linux", TRUE, TRUE, {"entry"}), Given("windows", TRUE, TRUE, {"entry", "phones"}),
     Given("linux", TRUE, TRUE, {"permission"}), Given("macos", TRUE, FALSE, {"permission"}),
     Given("macos", TRUE, TRUE, {"updates"}), Given("linux", FALSE, TRUE, {"permission"})}

\* The menus of all systems have the same items in the same order, however the menu before was.
ASSUME \A was, is \in [allow : BOOLEAN] : Updated(Updated(build, was), is) = Items(is)

\* What reads the entries reads back the words they were made of, for every word of four characters at most
\* of those that matter.
Word(characters) == UNION {[1 .. n -> characters] : n \in 0 .. 4}
Program == <<"C", " ", "x">>
ASSUME /\ \A w \in Word({"a", " ", "\"", "\\", "$", "%"}) : ReadExec(Exec(<<Program, w, <<"b">>>>)) = <<Program, w, <<"b">>>>
       /\ \A w \in Word({"a", " ", "\"", "\\"}) :
            ReadCommandLine(command_line(<<Program, w, <<"b">>>>)) = <<Program, w, <<"b">>>>
       /\ plist(<< <<"a", "&", "<">> >>) = << <<"a", "&amp;", "&lt;">> >>
===========================================================================
