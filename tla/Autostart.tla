----------------------------- MODULE Autostart -----------------------------
(***************************************************************************)
(* Starting at login (telepad-platform/src/autostart): the entry each      *)
(* system keeps, who writes it and how; what it says is CommandLines'.     *)
(*                                                                         *)
(* Three threads of the program may work at the entry: the start puts an   *)
(* old entry right, the menu turns it over, and the page sets it.  Files   *)
(* are written to a neighbour first, which then takes the entry's name;    *)
(* both are followed here down to what half of a write leaves.             *)
(***************************************************************************)
EXTENDS Naturals, Sequences, SequencesExt, FiniteSetsExt

Writers == {"start", "menu", "page"}

VARIABLES
    os,         \* "linux", "macos" or "windows": fixed
    entry,      \* "none", "here" (starts this program), "elsewhere", "hidden" (switched off by a settings
                \* application, which only Linux has) or "half" (cut off)
    tmp,        \* the neighbour: "none", "half" or "whole"
    at,         \* [Writers -> where the thread is]
    overlapped  \* history: two threads had the neighbour open at once

file == <<entry, tmp, at, overlapped>>

Goto(w, there) == at' = [at EXCEPT ![w] = there]
Idle(w) == at[w] = "idle"

is_enabled == entry \notin (IF os = "linux" THEN {"none", "hidden"} ELSE {"none"})

\* refresh() and set_autostart() first decide what to write.
Turn(on) == IF on THEN "on" ELSE "off"
refresh == at["start"] = "look" /\ Goto("start", IF is_enabled THEN "on" ELSE "idle")
           /\ UNCHANGED <<os, entry, tmp, overlapped>>

---------------------------------------------------------------------------
\* A thread still writing a file that has lost its name writes to nothing.
Holding == {"open", "moved"}
Unnamed(w, there) == [x \in Writers |-> IF x = w THEN there ELSE IF at[x] = "moved" THEN "lost" ELSE at[x]]

\* The registry holds one value, set at once.
SetsValue(w) ==
    /\ at[w] = "on" /\ os = "windows"
    /\ entry' = "here" /\ Goto(w, "idle") /\ UNCHANGED <<os, tmp, overlapped>>

\* write_replacing(): the neighbour is opened and emptied ...
Opens(w) ==
    /\ at[w] = "on" /\ os # "windows"
    /\ tmp' = "half" /\ Goto(w, "open")
    /\ overlapped' = (overlapped \/ \E x \in Writers \ {w} : at[x] \in {"open", "moved", "written"})
    /\ UNCHANGED <<os, entry>>
\* ... mutated, the entry itself ...
OpensEntry(w) ==
    /\ at[w] = "on" /\ os # "windows"
    /\ entry' = "half" /\ Goto(w, "moved") /\ UNCHANGED <<os, tmp, overlapped>>
Begins(w) == Opens(w)
\* ... written ...
Writes(w) ==
    /\ at[w] \in Holding \cup {"lost"}
    /\ tmp' = IF at[w] = "open" THEN "whole" ELSE tmp
    /\ entry' = IF at[w] = "moved" THEN "here" ELSE entry
    /\ Goto(w, "written") /\ UNCHANGED <<os, overlapped>>
\* ... and given the entry's name, as it is by then; there may be none left to give.
Renames(w) ==
    /\ at[w] = "written"
    /\ IF tmp = "none" THEN Goto(w, "idle") /\ UNCHANGED <<entry, tmp>>
       ELSE /\ entry' = (IF tmp = "whole" THEN "here" ELSE "half") /\ tmp' = "none"
            /\ at' = [x \in Writers |-> IF x = w THEN "idle" ELSE
                                        IF at[x] = "open" THEN "moved" ELSE Unnamed(w, "idle")[x]]
    /\ UNCHANGED <<os, overlapped>>
enable(w) == SetsValue(w) \/ Begins(w) \/ Writes(w) \/ Renames(w)

\* remove_if_present(), or the value is deleted.
disable(w) ==
    /\ at[w] = "off" /\ entry' = "none" /\ at' = Unnamed(w, "idle") /\ UNCHANGED <<os, tmp, overlapped>>
\* An operation of the system fails, and the person is told.
Fails(w) == at[w] \in {"on", "off", "open", "written"} /\ Goto(w, "idle") /\ UNCHANGED <<os, entry, tmp, overlapped>>

\* The person uses the system's settings, or another copy of the program.
Settings ==
    /\ entry' \in (IF os = "linux" THEN {"none", "hidden", "elsewhere"} ELSE {"none", "elsewhere"}) \ {entry}
    /\ at' = [w \in Writers |-> IF at[w] = "moved" THEN "lost" ELSE at[w]]
    /\ UNCHANGED <<os, tmp, overlapped>>

===========================================================================
