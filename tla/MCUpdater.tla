------------------------------ MODULE MCUpdater ------------------------------
(* Two threads; a final release, a later pre-release and a later final one; *)
(* one copy of each kind, and one that Homebrew installed.                  *)
EXTENDS Updater

V1 == [core |-> <<1, 0, 0>>, pre |-> <<>>]
V2alpha == [core |-> <<2, 0, 0>>, pre |-> <<Word(1), Number(4)>>]
V2 == [core |-> <<2, 0, 0>>, pre |-> <<>>]
MCVersions == {V1, V2alpha, V2}
MCTags == [version : MCVersions, exact : {TRUE}] \cup [version : {V2}, exact : {FALSE}]

Fact(os, at, owner) == [os |-> os, at |-> at, x86 |-> TRUE, owner |-> owner, writable |-> TRUE]
MCInstalls ==
    {Fact("Windows", "installed", "nobody"), Fact("MacOs", "bundle", "nobody"),
     Fact("MacOs", "homebrew", "nobody"), Fact("Linux", "usr_bin", "Deb"),
     Fact("Linux", "elsewhere", "nobody")}
=============================================================================
