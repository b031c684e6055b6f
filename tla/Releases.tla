------------------------------ MODULE Releases ------------------------------
(***************************************************************************)
(* Which release a copy of Telepad is offered, and how it can be put in    *)
(* place: telepad-update's version.rs, release.rs, kind.rs, sums.rs and    *)
(* fetch::check.  Operators only; Updater has the state.                   *)
(*                                                                         *)
(* A version is [core, pre]: three numbers, and the dot-separated parts    *)
(* after the hyphen.  A word of a pre-release is its place in the alphabet.*)
(***************************************************************************)
EXTENDS Integers, SequencesExt

Part == [word : BOOLEAN, val : Nat]
Version == [core : [1 .. 3 -> Nat], pre : Seq(Part)]

Number(n) == [word |-> FALSE, val |-> n]
Word(n) == [word |-> TRUE, val |-> n]

\* Numbers come before words.
PartLess(a, b) == (~a.word /\ b.word) \/ (a.word = b.word /\ a.val < b.val)

\* How sequences compare in the source: the first difference decides, else the shorter is less.
SeqLess(s, t) ==
    \/ \E i \in DOMAIN s \cap DOMAIN t :
           PartLess(s[i], t[i]) /\ \A j \in 1 .. i - 1 : s[j] = t[j]
    \/ IsStrictPrefix(s, t)

Numbers(core) == [i \in DOMAIN core |-> Number(core[i])]

is_prerelease(v) == v.pre # <<>>

\* A final release comes after all of its pre-releases.
Earlier(v, w) ==
    \/ SeqLess(Numbers(v.core), Numbers(w.core))
    \/ v.core = w.core /\ is_prerelease(v) /\ (~is_prerelease(w) \/ SeqLess(v.pre, w.pre))

\* Mutated form of is_offered: anything else.
OfferedIfOther(current, newer) == current # newer /\ (~is_prerelease(newer) \/ is_prerelease(current))

\* Only someone on a pre-release is offered another one.
is_offered(current, newer) ==
    Earlier(current, newer) /\ (~is_prerelease(newer) \/ is_prerelease(current))

NoRelease == [core |-> <<>>, pre |-> <<>>]

\* A tag of the feed is [version, exact]: written as the project writes them, or in another way
\* that reads as the same version (without the v, with leading zeros, with build metadata).
for_tag(tag) == tag.exact

\* Anything else in the feed is left out, not an error.
parse(feed) == {tag.version : tag \in {t \in feed : for_tag(t)}}

newest_for(releases, current) ==
    LET offered == {v \in releases : is_offered(current, v)}
    IN  IF offered = {} THEN NoRelease
        ELSE CHOOSE v \in offered : \A w \in offered : ~Earlier(v, w)

(***************************************************************************)
(* How a copy was installed.  A fact is where the program file is and what *)
(* the system says of it: `owner' is the kind of package that owns it,     *)
(* `writable' whether the person may replace files in its folder.  The     *)
(* folder is what the source tells apart: "build" (target/release), the    *)
(* installer's folder, an app bundle, Homebrew's folders, /usr/bin, and    *)
(* any other.                                                              *)
(***************************************************************************)
Formats == {"Deb", "Rpm", "Pacman"}
Kinds == {"WindowsInstaller", "MacApp", "LinuxUser", "Unsupported"} \cup Formats

Facts ==
    [os : {"Windows", "MacOs", "Linux"},
     at : {"build", "installed", "bundle", "homebrew", "usr_bin", "elsewhere"},
     x86 : BOOLEAN, owner : Formats \cup {"nobody"}, writable : BOOLEAN]

\* Mutated form of classify: a bundle that Homebrew installed is a bundle.
ClassifyBundles(f) ==
    CASE f.at = "build" -> "Unsupported"
      [] f.os = "MacOs" -> IF f.at \in {"bundle", "homebrew"} THEN "MacApp" ELSE "Unsupported"
      [] f.os = "Windows" -> IF f.x86 /\ f.at = "installed" THEN "WindowsInstaller" ELSE "Unsupported"
      [] f.os = "Linux" /\ ~f.x86 -> "Unsupported"
      [] f.os = "Linux" /\ f.x86 /\ f.at = "usr_bin" ->
             IF f.owner \in Formats THEN f.owner ELSE "Unsupported"
      [] OTHER -> IF f.writable THEN "LinuxUser" ELSE "Unsupported"

classify(f) ==
    CASE f.at = "build" -> "Unsupported"
      [] f.os = "MacOs" /\ f.at # "build" -> IF f.at = "bundle" THEN "MacApp" ELSE "Unsupported"
      [] f.os = "Windows" /\ f.at # "build" ->
             IF f.x86 /\ f.at = "installed" THEN "WindowsInstaller" ELSE "Unsupported"
      [] f.os = "Linux" /\ f.at # "build" /\ ~f.x86 -> "Unsupported"
      [] f.os = "Linux" /\ f.x86 /\ f.at = "usr_bin" ->
             IF f.owner \in Formats THEN f.owner ELSE "Unsupported"
      [] f.os = "Linux" /\ f.x86 /\ f.at \notin {"build", "usr_bin"} ->
             IF f.writable THEN "LinuxUser" ELSE "Unsupported"

can_update_itself(kind) == kind # "Unsupported"

(***************************************************************************)
(* fetch::check.  `summed' are the releases whose SHA256SUMS names a file  *)
(* for this kind: one whose files are not up yet, or that has none for     *)
(* this computer, is to be had by hand only.                               *)
(***************************************************************************)
Available(v, installable) == [version |-> v, install |-> installable]
UpToDate == Available(NoRelease, FALSE)

check(feed, summed, current, kind) ==
    LET release == newest_for(parse(feed), current)
    IN  IF release = NoRelease THEN UpToDate
        ELSE Available(release, can_update_itself(kind) /\ release \in summed)

(***************************************************************************)
(* Github::download: what becomes of an answer of `sent' bytes announced   *)
(* as `total' of them.  Only a server that does not say can stop early     *)
(* unnoticed.                                                              *)
(***************************************************************************)
NotSaid == -1

received(sent, total, limit) ==
    CASE total > limit \/ sent > limit -> "TooLarge"
      [] total <= limit /\ sent <= limit /\ total \notin {NotSaid, sent} -> "Interrupted"
      [] OTHER -> "whole"
=============================================================================
