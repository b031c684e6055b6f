-------------------------------- MODULE Tray --------------------------------
(***************************************************************************)
(* One Telepad at a time: the starts of the tray application, the file in  *)
(* which the running one leaves the address of its page, how a second      *)
(* start hands over to it, how it quits, and the `--quit' that installers  *)
(* run (telepad-tray's app.rs and instance.rs).                            *)
(*                                                                         *)
(* A copy is one start of the program; its page has a secret of its own,   *)
(* so an address names one copy.  Copies with the same port exclude each   *)
(* other through it; the folder with the files is the same for all.        *)
(***************************************************************************)
EXTENDS Naturals, FiniteSets

CONSTANTS Copies,   \* starts of the program
          Worlds,   \* records of what is given: consoles (the copies that are telepad-server, the console
                    \* program), port ([Copies -> what --port says]), windows (the system), links (the
                    \* folder's file system has hard links) and key (the identity.key there is)
          Askers,   \* runs of `telepad --quit'
          Nobody,   \* no address
          MaxKills  \* bound: copies that are killed

ASSUME TrayAssumption == Nobody \notin Copies /\ MaxKills \in Nat

VARIABLES
    world,    \* what the copies find: see Worlds
    pc,       \* where the main thread of a copy is
    file,     \* panel.url
    key,      \* identity.key: whose key it holds, and in which form
    ident,    \* [Copies -> the key it serves with]
    page,     \* copies whose page answers
    icon,     \* copies that have a tray::Handle to stop (Shared::ui)
    quitting, \* copies asked to quit (Shared::quitting)
    task,     \* [Copies -> what begin_quit() has left to do]
    server,   \* [Copies -> "off", "running" or "stopped": phones' keys are let go]
    asker,    \* [Askers -> where --quit is]
    target,   \* [Askers -> the copy whose page it found]
    late,     \* history: runs of --quit that took a page that lives but was slow for one that has gone
    kills,
    overlap   \* history: copies that announced themselves while another one was between the two steps
              \* of withdraw()

vars == <<world, pc, file, key, ident, page, icon, quitting, task, server, asker,
          target, late, kills, overlap>>
copy == <<page, icon, quitting, task, server>>
identity == <<key, ident>>
asking == <<asker, target, late>>
past == <<kills, overlap>>

Init ==
    /\ world \in Worlds /\ key = world.key
    /\ pc = [c \in Copies |-> "off"] /\ file = Nobody
    /\ ident = [c \in Copies |-> Nobody]
    /\ page = {} /\ icon = {} /\ quitting = {}
    /\ task = [c \in Copies |-> "none"] /\ server = [c \in Copies |-> "off"]
    /\ asker = [q \in Askers |-> "off"] /\ target = [q \in Askers |-> Nobody]
    /\ late = {} /\ kills = 0 /\ overlap = {}

NoFile == [of |-> Nobody, form |-> "none"]

Goto(c, there) == pc' = [pc EXCEPT ![c] = there]
Running(c) == pc[c] \notin {"off", "handed", "ended"}

\* answers(): what a caller can take from asking for the status.  A page that lives may take longer
\* than PATIENCE to accept, to read or to answer, and then counts as gone.
answers(d) == IF d \in page THEN {"yes", "no"} ELSE {"no"}

(* ------------------------------ starting ------------------------------ *)

\* running_page(): the address in the file is tried before it is trusted; what can be found so.
running_page == { IF said = "yes" THEN file ELSE Nobody : said \in answers(file) }

\* A start of the tray hands over to the copy that runs, if that answers in time.
Read(c) ==
    /\ pc[c] = "off" /\ c \notin world.consoles
    /\ \E found \in running_page : Goto(c, IF found = Nobody THEN "identity" ELSE "handed")
    /\ UNCHANGED <<world, file, identity, copy, asking, past>>

\* The console server does not look.
ConsoleStarts(c) ==
    /\ pc[c] = "off" /\ c \in world.consoles /\ Goto(c, "identity")
    /\ UNCHANGED <<world, file, identity, copy, asking, past>>

\* launch::start(): what fails ends the program with a message, a port in use for one.
StartFails(c) ==
    /\ pc[c] = "binding" /\ Goto(c, "ended")
    /\ UNCHANGED <<world, file, identity, copy, asking, past>>

\* encode_key(): what is written, a key in the clear or, on Windows, protected for the user.
encode_key(k) == [of |-> k, form |-> IF world.windows THEN "protected" ELSE "raw"]

\* decode_key(): Windows still reads a key in the clear, of an earlier version; anything else that is
\* not what this system writes is an error.
decode_key(f) ==
    IF f.form = "raw" THEN [ok |-> TRUE, key |-> f.of, migrate |-> world.windows]
    ELSE [ok |-> f.form = "protected" /\ world.windows, key |-> f.of, migrate |-> FALSE]

\* load(): a key from an earlier version is rewritten if it can be; a file that cannot be read ends the
\* start and is left alone.
Loads(c) ==
    /\ IF decode_key(key).ok THEN Goto(c, "binding") /\ ident' = [ident EXCEPT ![c] = key.of]
       ELSE Goto(c, "ended") /\ UNCHANGED ident
    /\ \/ key' = key
       \/ decode_key(key).migrate /\ key' = encode_key(key.of)

Writes(c) ==
    key' = encode_key(c) /\ ident' = [ident EXCEPT ![c] = c] /\ Goto(c, "binding")

\* IdentityStore::load_or_generate(): a key is made only where there is no file.
LooksForKey(c) ==
    /\ pc[c] = "identity"
    /\ IF key = NoFile THEN Goto(c, "keying") /\ UNCHANGED identity ELSE Loads(c)
    /\ UNCHANGED <<world, file, copy, asking, past>>

\* Mutated form of WritesKey: the new file replaces the one that is there.
WritesKeyOver(c) ==
    /\ pc[c] = "keying" /\ Writes(c)
    /\ UNCHANGED <<world, file, copy, asking, past>>

\* atomic_write(): the hard link fails where another copy has been faster, whose key is taken then.
\* Where the file system has no hard links, the look and the rename are two steps.
WritesKey(c) ==
    /\ pc[c] = "keying"
    /\ IF key # NoFile THEN Loads(c)
       ELSE IF world.links THEN Writes(c)
       ELSE Goto(c, "renaming") /\ UNCHANGED identity
    /\ UNCHANGED <<world, file, copy, asking, past>>

RenamesKey(c) ==
    /\ pc[c] = "renaming" /\ Writes(c)
    /\ UNCHANGED <<world, file, copy, asking, past>>

PortFree(c) == \A d \in Copies \ {c} : world.port[d] = world.port[c] => server[d] = "off"

\* UdpSocket::bind().
Bind(c) ==
    /\ pc[c] = "binding" /\ PortFree(c) /\ server' = [server EXCEPT ![c] = "running"]
    /\ Goto(c, IF c \in world.consoles THEN "up" ELSE "paging")
    /\ UNCHANGED <<world, file, identity, page, icon, quitting, task, asking, past>>

\* announce(): the file is replaced in one step, or not if it cannot be written.
announced(c) == {c, file}

\* Nobody knows the page's address before; the program does without a page that cannot be served.
Announce(c) ==
    /\ pc[c] = "paging" /\ Goto(c, "tray")
    /\ \/ page' = page \cup {c} /\ file' \in announced(c)
       \/ UNCHANGED <<page, file>>
    /\ overlap' = IF \E d \in Copies : task[d] = "removing" THEN overlap \cup {c} ELSE overlap
    /\ UNCHANGED <<world, identity, icon, quitting, task, server, asking, kills>>

\* tray::run(): the icon is up, or there is none and the handle only ends the wait.
Ready(c) ==
    /\ pc[c] = "tray" /\ icon' = icon \cup {c} /\ Goto(c, "ready")
    /\ UNCHANGED <<world, file, identity, page, quitting, task, server, asking, past>>

\* stop(): tray::run() returns, and the page is dropped.
Stops(c) == Goto(c, "leaving") /\ page' = page \ {c}

\* Mutated form of TrayIsUp: a quit that came earlier is not noticed.
UpAnyway(c) ==
    /\ pc[c] = "ready" /\ Goto(c, "up")
    /\ UNCHANGED <<world, file, identity, copy, asking, past>>

\* tray_is_up(): asked to quit before the icon was up, the copy stops without waiting for its server.
TrayIsUp(c) ==
    /\ pc[c] = "ready"
    /\ IF c \in quitting THEN Stops(c) ELSE Goto(c, "up") /\ UNCHANGED page
    /\ UNCHANGED <<world, file, identity, icon, quitting, task, server, asking, past>>

\* The process ends, whatever its other threads are doing, and its port is free.
Over(c) ==
    /\ Goto(c, "ended") /\ page' = page \ {c} /\ task' = [task EXCEPT ![c] = "none"]
    /\ server' = [server EXCEPT ![c] = "off"]
    /\ UNCHANGED <<world, identity, icon, quitting, asking>>

Exit(c) == pc[c] = "leaving" /\ Over(c) /\ UNCHANGED <<world, file, past>>

\* Killed, the copy leaves its address behind.
Kill(c) == Running(c) /\ kills < MaxKills /\ kills' = kills + 1 /\ Over(c) /\ UNCHANGED <<file, overlap>>

(* ------------------------------- quitting ------------------------------- *)

\* From the menu, the page, a signal, the updater or --quit: once.
BeginQuit(c) ==
    IF c \in quitting THEN UNCHANGED <<quitting, task>>
    ELSE /\ quitting' = quitting \cup {c}
         /\ task' = [task EXCEPT ![c] = IF c \in world.consoles THEN "stopping" ELSE "withdrawing"]

\* By a signal, by the menu or by the updater.
Quit(c) ==
    /\ pc[c] \in {"tray", "ready", "up"} /\ c \notin quitting \cup world.consoles /\ BeginQuit(c)
    /\ UNCHANGED <<world, pc, file, identity, page, icon, server, asking, past>>

\* wait_for_shutdown(): a signal, or `quit' at the console.
ConsoleQuits(c) ==
    /\ pc[c] = "up" /\ c \in world.consoles \ quitting /\ BeginQuit(c)
    /\ UNCHANGED <<world, pc, file, identity, page, icon, server, asking, past>>

\* Mutated form of Withdraw: the address is not compared.
WithdrawAny(c) ==
    /\ task[c] = "withdrawing" /\ task' = [task EXCEPT ![c] = "removing"]
    /\ UNCHANGED <<world, pc, file, identity, page, icon, quitting, server, asking, past>>

\* withdraw(): the address is read, and the file removed if it is this copy's.
Withdraw(c) ==
    /\ task[c] = "withdrawing"
    /\ task' = [task EXCEPT ![c] = IF file = c THEN "removing" ELSE "stopping"]
    /\ UNCHANGED <<world, pc, file, identity, page, icon, quitting, server, asking, past>>

Remove(c) ==
    /\ task[c] = "removing" /\ file' = Nobody /\ task' = [task EXCEPT ![c] = "stopping"]
    /\ UNCHANGED <<world, pc, identity, page, icon, quitting, server, asking, past>>

\* Server::run() comes to its end: keys are let go of and the input thread has stopped.
ServerStops(c) ==
    /\ task[c] = "stopping" /\ server[c] = "running"
    /\ server' = [server EXCEPT ![c] = "stopped"]
    /\ UNCHANGED <<world, pc, file, identity, page, icon, quitting, task, asking, past>>

\* The end of begin_quit()'s task, once the server has stopped or SHUTDOWN_PATIENCE, which the console
\* server does not have, is over; without a handle there is nothing to stop yet.
StopIcon(c) ==
    /\ task[c] = "stopping" /\ (c \in world.consoles => server[c] = "stopped")
    /\ task' = [task EXCEPT ![c] = "none"]
    /\ IF c \in icon \cup world.consoles THEN Stops(c) ELSE UNCHANGED <<pc, page>>
    /\ UNCHANGED <<world, file, identity, icon, quitting, server, asking, past>>

(* ------------------------------- --quit ------------------------------- *)

Says(q, what) == asker' = [asker EXCEPT ![q] = what]

AskerReads(q) ==
    /\ asker[q] = "off"
    /\ \E found \in running_page :
           /\ target' = [target EXCEPT ![q] = found]
           /\ Says(q, IF found = Nobody THEN "NotRunning" ELSE "found")
    /\ UNCHANGED <<world, pc, file, identity, copy, late, past>>

\* send_quit(): the page calls begin_quit() before it answers, and the answer may come too late.  What
\* cannot be sent in time has no effect; what is read after the asker has given up is a later Quit.
AskerSends(q) ==
    /\ asker[q] = "found"
    /\ \/ target[q] \in page /\ BeginQuit(target[q]) /\ (Says(q, "waiting") \/ Says(q, "Stuck"))
       \/ Says(q, "Stuck") /\ UNCHANGED <<quitting, task>>
    /\ UNCHANGED <<world, pc, file, identity, page, icon, server, target, late, past>>

\* Mutated form of AskerWaits: yes is as good as gone.
AskerBelieves(q) ==
    /\ asker[q] = "waiting" /\ Says(q, "Done")
    /\ UNCHANGED <<world, pc, file, identity, copy, target, late, past>>

\* The wait of quit_running_within(): as soon as one try has no answer, or until QUIT_PATIENCE is over.
AskerWaits(q) ==
    /\ asker[q] = "waiting"
    /\ \E said \in answers(target[q]) :
           /\ Says(q, IF said = "yes" THEN "Stuck" ELSE "Done")
           /\ late' = IF said = "no" /\ target[q] \in page THEN late \cup {q} ELSE late
    /\ UNCHANGED <<world, pc, file, identity, copy, target, past>>

Starting(c) ==
    \/ Read(c) \/ ConsoleStarts(c) \/ LooksForKey(c) \/ WritesKey(c) \/ RenamesKey(c) \/ Bind(c)
    \/ Announce(c) \/ Ready(c) \/ TrayIsUp(c)
Quitting(c) == Withdraw(c) \/ Remove(c) \/ ServerStops(c) \/ StopIcon(c) \/ Exit(c)
Asking(q) == AskerReads(q) \/ AskerSends(q) \/ AskerWaits(q)

Next ==
    \/ \E c \in Copies : Starting(c) \/ StartFails(c) \/ Quit(c) \/ ConsoleQuits(c) \/ Quitting(c) \/ Kill(c)
    \/ \E q \in Askers : Asking(q)

\* A copy that has been started goes on, and so does the task that ends it: the threads are always
\* runnable.  A server that is asked to stop does, in its own time.
Fairness ==
    \A c \in Copies :
        /\ WF_vars(pc[c] # "off" /\ Starting(c)) /\ WF_vars(Withdraw(c)) /\ WF_vars(Remove(c))
        /\ WF_vars(ServerStops(c)) /\ WF_vars(StopIcon(c)) /\ WF_vars(Exit(c))

Spec == Init /\ [][Next]_vars
FairSpec == Spec /\ Fairness

(* ------------------------------ properties ------------------------------ *)

TypeOK ==
    /\ world \in Worlds
    /\ pc \in [Copies -> {"off", "handed", "identity", "keying", "renaming", "binding", "paging", "tray",
                          "ready", "up", "leaving", "ended"}]
    /\ file \in Copies \cup {Nobody}
    /\ DOMAIN ident = Copies
    /\ page \subseteq Copies /\ icon \subseteq Copies /\ quitting \subseteq Copies
    /\ task \in [Copies -> {"none", "withdrawing", "removing", "stopping"}]
    /\ server \in [Copies -> {"off", "running", "stopped"}]
    /\ asker \in [Askers -> {"off", "found", "waiting", "NotRunning", "Done", "Stuck"}]
    /\ target \in [Askers -> Copies \cup {Nobody}] /\ late \subseteq Askers /\ kills \in 0..MaxKills

\* The address of a copy that stays is not taken away by another one that leaves, which may have been
\* started after it or before: the next start would not find it (withdraw(), announce()).  Only a copy
\* that announces itself just between withdraw()'s look and its removal is not safe from that.
AddressOfTheLivingStays ==
    [][\A c, d \in Copies :
        file = c /\ Running(c) /\ c \notin quitting \cup overlap /\ c # d => ~Remove(d)]_vars

\* A copy that is asked to quit does end, even when it is asked before its icon is up
\* (begin_quit() and tray_is_up() each look at what the other one sets).
QuitEnds == \A c \in Copies : c \in quitting ~> pc[c] = "ended"

\* When `--quit' answers Done, the copy it asked has been told to quit, which nothing takes back; and
\* unless the copy's page, alive, was slower than PATIENCE in answering whether it is still there, that
\* page has gone for good and the copy's main thread is past its tray, though maybe not yet ended
\* (quit_running_within(), stop(), and begin_quit() before the page's answer).
DoneMeansGone ==
    \A q \in Askers : asker[q] = "Done" =>
        /\ target[q] \in quitting
        /\ q \notin late => pc[target[q]] \in {"leaving", "ended"} /\ target[q] \notin page

\* Every copy that serves does it with the key that is on disk, and a key that was there before is
\* still there, so that phones recognise the PC after any restart, whoever started first, whoever
\* migrated the file and whoever was killed meanwhile (atomic_write(), load()).  Without hard links
\* two first starts can end with two keys.
OneIdentity ==
    /\ world.links => \A c \in Copies : server[c] # "off" => key.of = ident[c]
    /\ world.key # NoFile => key.of = world.key.of /\ (key = world.key \/ key.form = "protected")

\* app.rs:456: "Stops everything, in the right order: the server ..., then the icon"; does not hold of a copy
\* that was asked to quit before its icon was up, nor of one whose server is slow.
StopsInOrder == \A c \in Copies : pc[c] = "leaving" => server[c] = "stopped"

\* instance.rs:60: "waits until it has, so that its files are free": when `--quit' is over, but for
\* a copy that is stuck, nobody is on the way out with the program's files still open.
FilesAreFree ==
    \A q \in Askers : asker[q] \in {"NotRunning", "Done"} => \A c \in quitting \ world.consoles : ~Running(c)

\* instance.rs:57: "It said yes and is gone."; does not hold of a page that was slow in answering one of
\* the tries, for whom Done is said while it still serves.
YesAndGone == \A q \in Askers : asker[q] = "Done" => target[q] \notin page
=============================================================================
