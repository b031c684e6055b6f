------------------------------- MODULE Updater -------------------------------
(***************************************************************************)
(* The desktop updater and the program around it: telepad-update's         *)
(* updater.rs, fetch.rs and apply.rs, with the quitting of the tray        *)
(* application (app.rs) and the helper that starts the new program.        *)
(*                                                                         *)
(* A thread is a press of "check" or "install", or the daily look.  What a *)
(* thread does without the lock is one step for every point where another  *)
(* thread, the end of the program or a power cut can come in between.      *)
(***************************************************************************)
EXTENDS Releases, FiniteSets

CONSTANTS Threads,      \* work that may be going on at one time
          Versions,     \* releases there are
          Tags,         \* what the feed may list, see for_tag
          Size, Limit,  \* bytes of the file that was published, and the most that is fetched
          Installs,     \* facts about copies of Telepad, a subset of Facts
          MaxFaults,    \* bound: failing renames
          MaxCrashes    \* bound: power cuts

\* What may be where a program belongs, other than a release: nothing, a broken-off copy, or a
\* program that nobody published.
Nothing == NoRelease
Cut == [core |-> <<>>, pre |-> <<Word(0)>>]
Other == [core |-> <<>>, pre |-> <<Word(1)>>]
Complete(content) == content \notin {Nothing, Cut}

ASSUME UpdaterAssumption ==
    /\ Versions \subseteq Version /\ IsFiniteSet(Versions)
    /\ Installs \subseteq Facts
    /\ Tags \subseteq [version : Versions, exact : BOOLEAN]
    /\ Size \in Nat /\ Limit \in Nat /\ Size <= Limit
    /\ MaxFaults \in Nat /\ MaxCrashes \in Nat

VARIABLES
    facts,      \* how this copy was installed
    process,    \* "up", "quitting" or "down"
    running,    \* the version that runs, or ran last
    state,      \* updater::State, without what it carries
    update,     \* the Available it carries, or UpToDate
    pc,         \* [Threads -> where the thread is]
    puts,       \* what the open disk image, or the unpacked file, holds
    forgetting, \* the schedule has yet to remove earlier downloads
    file,       \* the download: "gone" (no folder), "none", "sound" or "other"
    place,      \* the program, the copy beside it (.new) and the old one moved aside (.old)
    helper,     \* "none", "relaunch" (the shell that waits), or how far Windows' installer is: "installer",
                \* "replacing", "starting" or "aborted"
    faults, crashes, tampered   \* history

vars == <<facts, process, running, state, update, pc, puts, forgetting, file, place, helper,
          faults, crashes, tampered>>
history == <<faults, crashes, tampered>>
program == <<facts, process, running, forgetting, helper>>

kind == classify(facts)
Alive == process # "down"

Busy == {"Checking", "Downloading", "Installing", "Restarting"}

Init ==
    /\ facts \in Installs
    /\ process = "up" /\ running \in Versions
    /\ state = "Unknown" /\ update = UpToDate
    /\ pc = [t \in Threads |-> "idle"] /\ puts = Nothing
    /\ forgetting = TRUE /\ file \in {"gone", "none"}
    /\ place = [app |-> running, new |-> Nothing, old |-> Nothing]
    /\ helper = "none"
    /\ faults = 0 /\ crashes = 0 /\ tampered = FALSE

\* Mutated form of is_busy: an installation is not something to wait for.
BusyFetching == state \in {"Checking", "Downloading", "Restarting"}

is_busy == state \in Busy

Goto(t, there) == pc' = [pc EXCEPT ![t] = there]

(* --------------------------- looking --------------------------- *)

CheckBegins(t) ==
    /\ Alive /\ pc[t] = "idle" /\ ~is_busy
    /\ state' = "Checking" /\ update' = UpToDate
    /\ Goto(t, "asking")
    /\ UNCHANGED <<program, puts, file, place, history>>

CheckAnswers(t) ==
    /\ Alive /\ pc[t] = "asking" /\ Goto(t, "idle")
    /\ \/ \E feed \in SUBSET Tags, summed \in SUBSET Versions :
             LET outcome == check(feed, summed, running, kind)
             IN  update' = outcome /\ state' = IF outcome = UpToDate THEN "UpToDate" ELSE "Available"
       \/ state' = "CheckFailed" /\ update' = UpToDate
    /\ UNCHANGED <<program, puts, file, place, history>>

(* ---------------- downloading ---------------- *)

InstallBegins(t) ==
    /\ Alive /\ pc[t] = "idle"
    /\ state \in {"Available", "InstallFailed"} /\ update.install
    /\ state' = "Downloading" /\ Goto(t, "preparing")
    /\ UNCHANGED <<program, update, puts, file, place, history>>

\* Mutated form of Fails: what went wrong is not shown.
FailsUnseen(t) == Goto(t, "idle") /\ UNCHANGED state

Fails(t) == Goto(t, "idle") /\ state' = "InstallFailed"

Prepare(t) ==
    /\ Alive /\ pc[t] = "preparing"
    /\ \/ file' = "none" /\ Goto(t, "downloading") /\ UNCHANGED state
       \/ file' \in {file, "none"} /\ Fails(t)
    /\ UNCHANGED <<program, update, puts, place, history>>

\* What a download may leave: the right number of bytes may still be the wrong ones.
Downloaded ==
    UNION {IF sent = Size THEN {"sound", "other"} ELSE {"other"} :
               sent \in {n \in 0 .. Limit + 1 : \E total \in NotSaid .. Limit + 1 :
                                                received(n, total, Limit) = "whole"}}

\* The sums, then the file: an error of the network or the disk leaves no file.
Download(t) ==
    /\ Alive /\ pc[t] = "downloading"
    /\ \/ file = "none" /\ file' \in Downloaded /\ Goto(t, "verifying") /\ UNCHANGED state
       \/ file' = (IF file = "gone" THEN "gone" ELSE "none") /\ Fails(t)
    /\ UNCHANGED <<program, update, puts, place, history>>

Matches == file = "sound"

Verify(t) ==
    /\ Alive /\ pc[t] = "verifying"
    /\ IF Matches THEN state' = "Installing" /\ Goto(t, "applying") /\ UNCHANGED file
       ELSE file' = (IF file = "other" THEN "none" ELSE file) /\ Fails(t)
    /\ UNCHANGED <<program, update, puts, place, history>>

(* ------------------------- putting in place ------------------------- *)

Payload == IF file = "sound" THEN update.version ELSE Other
There == file \in {"sound", "other"}

\* Whatever goes wrong before the program is touched.
GivesUp(t) == Fails(t) /\ UNCHANGED <<puts, place, faults>>

\* The folder is tried, and the disk image opened.
OpenImage(t) ==
    /\ Alive /\ pc[t] = "applying" /\ kind = "MacApp"
    /\ \/ There /\ puts' = Payload /\ Goto(t, "clearing") /\ UNCHANGED <<state, place, faults>>
       \/ GivesUp(t)
    /\ UNCHANGED <<program, update, file, crashes, tampered>>

\* The tarball is unpacked, and the program in it looked at.
Unpack(t) ==
    /\ Alive /\ pc[t] = "applying" /\ kind = "LinuxUser"
    /\ \/ There /\ puts' = Payload /\ Goto(t, "staging") /\ UNCHANGED <<state, place, faults>>
       \/ GivesUp(t)
    /\ UNCHANGED <<program, update, file, crashes, tampered>>

Fault == faults < MaxFaults /\ faults' = faults + 1

Swapping(t, at) ==
    /\ Alive /\ pc[t] = at
    /\ UNCHANGED <<program, update, puts, file, crashes, tampered>>

\* What earlier updates left is removed, and the copy begins.
Clear(t) ==
    /\ Swapping(t, "clearing")
    /\ place' = [app |-> place.app, new |-> Cut, old |-> Nothing]
    /\ Goto(t, "copying") /\ UNCHANGED <<state, faults>>

Copy(t) ==
    /\ Swapping(t, "copying") /\ UNCHANGED faults
    /\ \/ place' = [place EXCEPT !.new = puts] /\ Goto(t, "aside") /\ UNCHANGED state
       \/ place' = [place EXCEPT !.new = Nothing] /\ Fails(t)

\* Mutated form of Aside: the old app is not kept.
AsideForGood(t) ==
    /\ Swapping(t, "aside") /\ UNCHANGED <<faults, state>>
    /\ place' = [place EXCEPT !.app = Nothing] /\ Goto(t, "swapping")

Aside(t) ==
    /\ Swapping(t, "aside")
    /\ \/ /\ place.app # Nothing
          /\ place' = [app |-> Nothing, new |-> place.new, old |-> place.app]
          /\ Goto(t, "swapping") /\ UNCHANGED <<faults, state>>
       \/ /\ IF place.app = Nothing THEN UNCHANGED faults ELSE Fault
          /\ place' = [place EXCEPT !.new = Nothing] /\ Fails(t)

\* The second rename; when it fails the old app is put back, which may fail too.
Swap(t) ==
    /\ Swapping(t, "swapping")
    /\ \/ /\ place' = [app |-> place.new, new |-> Nothing, old |-> place.old]
          /\ Goto(t, "cleaning") /\ UNCHANGED <<faults, state>>
       \/ /\ Fault /\ Fails(t)
          /\ place' = [app |-> place.old, new |-> Nothing, old |-> Nothing]
       \/ /\ faults + 2 <= MaxFaults /\ faults' = faults + 2 /\ Fails(t)
          /\ place' = [place EXCEPT !.new = Nothing]

Clean(t) ==
    /\ Swapping(t, "cleaning")
    /\ place' = [place EXCEPT !.old = Nothing] /\ Goto(t, "relaunching") /\ UNCHANGED <<state, faults>>

\* replace_file: a copy that fails is left beside the program.
Stage(t) ==
    /\ Swapping(t, "staging") /\ UNCHANGED faults
    /\ \/ place' = [place EXCEPT !.new = puts] /\ Goto(t, "renaming") /\ UNCHANGED state
       \/ place' = [place EXCEPT !.new = Cut] /\ Fails(t)

Rename(t) ==
    /\ Swapping(t, "renaming")
    /\ \/ /\ place' = [app |-> place.new, new |-> Nothing, old |-> place.old]
          /\ Goto(t, "relaunching") /\ UNCHANGED <<faults, state>>
       \/ Fault /\ place' = [place EXCEPT !.new = Nothing] /\ Fails(t)

\* Mutated form of RootAccepts: what was checked once is not checked again.
RootAcceptsAny == There

\* VERIFY_AND_INSTALL: root checks its own copy of the file.
RootAccepts == file = "sound"

\* pkexec: the prompt is answered or not, and the package manager does its work or does not.
Package(t) ==
    /\ Alive /\ pc[t] = "applying" /\ kind \in Formats
    /\ \/ /\ RootAccepts /\ place' = [place EXCEPT !.app = Payload]
          /\ Goto(t, "relaunching") /\ UNCHANGED <<state, puts, faults>>
       \/ GivesUp(t)
    /\ UNCHANGED <<program, update, file, crashes, tampered>>

(* ----------------------- the end, and the next start ----------------------- *)

\* install_blocking() after apply(): on_restart is the tray's begin_quit().
Restarts(t, by) ==
    /\ helper' = by /\ state' = "Restarting" /\ process' = "quitting" /\ Goto(t, "idle")

Relaunch(t) ==
    /\ Alive /\ pc[t] = "relaunching"
    /\ \/ Restarts(t, "relaunch")
       \/ Fails(t) /\ UNCHANGED <<helper, process>>
    /\ UNCHANGED <<facts, running, update, puts, forgetting, file, place, history>>

\* The installer reads the file itself, and does its work when the program has quit.
Windows(t) ==
    /\ Alive /\ pc[t] = "applying" /\ kind = "WindowsInstaller"
    /\ \/ There /\ puts' = Payload /\ Restarts(t, "installer")
       \/ Fails(t) /\ UNCHANGED <<puts, helper, process>>
    /\ UNCHANGED <<facts, running, update, forgetting, file, place, history>>

\* The threads end with the process, wherever they are.
Ends ==
    /\ process' = "down" /\ pc' = [t \in Threads |-> "idle"] /\ state' = "Unknown" /\ update' = UpToDate
    /\ UNCHANGED <<facts, running, puts, forgetting, file, place, faults, tampered>>

Quit == process = "up" /\ process' = "quitting" /\ UNCHANGED <<facts, running, state, update, pc, puts,
                                                               forgetting, file, place, helper, history>>
Gone == process = "quitting" /\ Ends /\ UNCHANGED <<helper, crashes>>
Crash == crashes < MaxCrashes /\ crashes' = crashes + 1 /\ Ends /\ helper' = "none"

\* A copy starts from where the program is, if it is there.  What an unpublished one does is not
\* followed.
Starts(app) ==
    IF app \in Versions
    THEN /\ process' = "up" /\ running' = app /\ forgetting' = TRUE
    ELSE UNCHANGED <<process, running, forgetting>>

Start ==
    /\ process = "down" /\ place.app \in Versions /\ Starts(place.app)
    /\ UNCHANGED <<facts, state, update, pc, puts, file, place, helper, history>>

\* Mutated form of OldIsGone: the shell does not wait.
OldOrNot == TRUE

\* `kill -0' fails: the process that is being replaced has ended.
OldIsGone == process # "quitting"

\* A copy that finds another one running hands over to it, and ends.
HelperStarts ==
    /\ helper = "relaunch" /\ OldIsGone /\ helper' = "none"
    /\ IF process = "down" THEN Starts(place.app) ELSE UNCHANGED <<process, running, forgetting>>
    /\ UNCHANGED <<facts, state, update, pc, puts, file, place, history>>

\* packaging/windows/telepad.iss: PrepareToInstall() runs `telepad --quit' and goes on whatever came of
\* it.  The copy that runs may have been told, or been too slow to be found; one that quits already has
\* withdrawn its address, and is not waited for.
InstallerAsks ==
    /\ helper = "installer" /\ helper' = "replacing"
    /\ process' \in IF process = "up" THEN {"up", "quitting"} ELSE {process}
    /\ UNCHANGED <<facts, running, state, update, pc, puts, forgetting, file, place, history>>

\* Windows does not let the file of a program be replaced while that runs; then, or if it cannot be
\* written, Setup, told to ask nobody (/SUPPRESSMSGBOXES), gives up and starts nothing.
InstallerReplaces ==
    /\ helper = "replacing"
    /\ \/ process = "down" /\ place' = [place EXCEPT !.app = puts] /\ helper' = "starting"
       \/ helper' = "aborted" /\ UNCHANGED place
    /\ UNCHANGED <<facts, process, running, state, update, pc, puts, forgetting, file, history>>

\* /RELAUNCH=1: the new program is started, and ends at once if somebody was faster.
InstallerStarts ==
    /\ helper = "starting" /\ helper' = "none"
    /\ IF process = "down" THEN Starts(place.app) ELSE UNCHANGED <<process, running, forgetting>>
    /\ UNCHANGED <<facts, state, update, pc, puts, file, place, history>>

\* forget_old_downloads() runs on a thread of its own, as late as it likes.
ForgetDownloads ==
    /\ Alive /\ forgetting /\ forgetting' = FALSE /\ file' = "gone"
    /\ UNCHANGED <<facts, process, running, state, update, pc, puts, place, helper, history>>

\* Another program of the person's changes the file after it was verified.
FileChanges ==
    /\ file = "sound" /\ \E t \in Threads : pc[t] = "applying"
    /\ file' = "other" /\ tampered' = TRUE
    /\ UNCHANGED <<program, state, update, pc, puts, place, faults, crashes>>

Install(t) ==
    \/ Prepare(t) \/ Download(t) \/ Verify(t) \/ OpenImage(t) \/ Unpack(t) \/ Clear(t) \/ Copy(t) \/ Aside(t)
    \/ Swap(t) \/ Clean(t) \/ Stage(t) \/ Rename(t) \/ Package(t) \/ Windows(t) \/ Relaunch(t)

Next ==
    \/ \E t \in Threads : CheckBegins(t) \/ CheckAnswers(t) \/ InstallBegins(t) \/ Install(t)
    \/ Quit \/ Gone \/ Crash \/ Start \/ HelperStarts
    \/ InstallerAsks \/ InstallerReplaces \/ InstallerStarts
    \/ ForgetDownloads \/ FileChanges

\* A program that is asked to quit ends (three seconds at most are left to the server, and the
\* helper waits for thirty); neither the helper nor the installer is stopped.  A person who starts
\* the old program and updates it again, and again, while an installer is at work gets tired before it.
Fairness ==
    /\ WF_vars(Gone) /\ WF_vars(HelperStarts)
    /\ WF_vars(InstallerAsks) /\ SF_vars(InstallerReplaces) /\ WF_vars(InstallerStarts)

Spec == Init /\ [][Next]_vars
FairSpec == Spec /\ Fairness

(* ------------------------------- properties ------------------------------- *)

TypeOK ==
    /\ facts \in Installs
    /\ process \in {"up", "quitting", "down"} /\ running \in Versions
    /\ state \in Busy \cup {"Unknown", "UpToDate", "Available", "CheckFailed", "InstallFailed"}
    /\ update \in [version : Versions, install : BOOLEAN] \cup {UpToDate}
    /\ pc \in [Threads -> {"idle", "asking", "preparing", "downloading", "verifying", "applying",
                           "clearing", "copying", "aside", "swapping", "cleaning", "staging",
                           "renaming", "relaunching"}]
    /\ puts \in Versions \cup {Nothing, Other}
    /\ file \in {"gone", "none", "sound", "other"}
    /\ place \in [app : Versions \cup {Nothing, Cut, Other}, new : Versions \cup {Nothing, Cut, Other},
                  old : Versions \cup {Nothing, Cut, Other}]
    /\ helper \in {"none", "relaunch", "installer", "replacing", "starting", "aborted"}
    /\ faults \in 0..MaxFaults /\ crashes \in 0..MaxCrashes /\ tampered \in BOOLEAN

\* One thread at most looks or installs: two would write over each other's folder, program and
\* state (is_busy(), tested and set under one lock).  And a state that refuses every other request
\* has somebody at work who will leave it, whatever fails on the way (the early returns of
\* install_blocking()).
Working == {t \in Threads : pc[t] # "idle"}
OneWorker ==
    /\ \A t, u \in Working : t = u
    /\ process = "up" /\ is_busy => Working # {}

\* However an installation is cut short - by a failing rename, by quitting, by a power cut - a
\* complete program is left, in its place or moved aside (swap_in(), replace_file()).  Two failing
\* renames are too many: when the old app cannot be put back either, the next attempt removes it.
AProgramRemains == faults < 2 => Complete(place.app) \/ Complete(place.old)

\* Nothing but what was published is installed: not a damaged download, and what root installs
\* not even if the file is changed after it was verified (fetch::download, VERIFY_AND_INSTALL).
OnlyPublishedInstalled == place.app = Other => tampered /\ kind \notin Formats

\* What was built from source, or what Homebrew installed on a Mac, is left alone (classify()).
OthersLeftAlone ==
    facts.at = "build" \/ (facts.at = "homebrew" /\ facts.os = "MacOs") => place.app = running

\* Updates only lead forward, and a person on final releases stays on them, over any number of
\* updates, failures and restarts (is_offered(), newest_for()).
OnlyForward ==
    [][running' # running =>
          Earlier(running, running') /\ (is_prerelease(running') => is_prerelease(running))]_vars

\* Once the update is under way and the old program quits, the new one comes up, unless the power is
\* cut, or the file changed, meanwhile, or Windows' installer gave up, which it may when it meets a
\* program that has not ended yet (relaunch(), begin_quit(), telepad.iss).
RestartsIntoNew ==
    \A v \in Versions :
        (state = "Restarting" /\ update.version = v) ~>
            (process = "up" /\ running = v) \/ crashes > 0 \/ tampered \/ helper = "aborted"

\* telepad.iss:77: "An update that Telepad started itself (it passes /RELAUNCH=1) ends with the new program
\* running again"; does not hold when the installer comes to the file before the old program has ended.
AlwaysRestarts ==
    \A v \in Versions :
        (state = "Restarting" /\ update.version = v) ~>
            (process = "up" /\ running = v) \/ crashes > 0 \/ tampered

\* apply.rs:164: "so that at no moment is there no app"; here only of the moments when it matters,
\* when Telepad does not run and somebody may want to start it.
AlwaysAnApp == process = "down" => Complete(place.app)
=============================================================================
