------------------------------- MODULE Panel -------------------------------
(***************************************************************************)
(* What the tray application shows and lets the person do (telepad-tray:   *)
(* app.rs, tray/, panel.rs, setup.rs, status.rs): the menu of the icon and *)
(* how it is kept current, the page with the code, the question for the    *)
(* permission to type, and starting at login (module Autostart).           *)
(*                                                                         *)
(* The server, the updater and the permission change by themselves here;   *)
(* modules DesktopServer, Pairing and Updater say how.  A menu is read in  *)
(* two steps and arrives later still, since each is handed to a thread or  *)
(* a task that shows it.                                                   *)
(***************************************************************************)
EXTENDS Autostart

CONSTANTS
    Givens,     \* records of what the program finds: os, tray (icons can be shown) and panel (the page started);
                \* and a bound, acts: what changes by itself or is asked for
    Nothing,    \* no menu, note or page
    MaxChanges  \* bound: acts of the person and changes of what the menu tells

ASSUME PanelAssumption == MaxChanges \in Nat

VARIABLES
    given,
    blocked,    \* the system is not letting Telepad type
    server,     \* what ServerHandle::status() says
    update,     \* the state of the updater
    allowing,   \* Shared::allowing: how asking goes
    prompts,    \* [callers of allow() -> the thread that asks, and what it heard]
    icon,       \* the menu on the screen
    shown,      \* what the refreshing loop sent last
    loop,       \* what that loop has read so far
    refreshes,  \* tasks of refresh_menu()
    posted,     \* updates on their way to the icon
    page,       \* the page in the browser
    quitting,
    changes,
    astray      \* history: the update that arrived last is not the one the loop sent last

facts == <<blocked, server, update>>
asking == <<allowing, prompts>>
menus == <<icon, shown, loop, refreshes, posted, astray>>
vars == <<given, os, file, facts, asking, menus, page, quitting, changes>>

Off == [at |-> "off", block |-> FALSE]
Waits == [at |-> "waits", block |-> FALSE]

\* One more act or change.
Counted(kind) == kind \in given.acts /\ changes < MaxChanges /\ changes' = changes + 1

---------------------------------------------------------------------------
(* The words *)
describe(status, block) ==
    [phones |-> IF status.sessions > 0 THEN "connected" ELSE IF status.paired = 0 THEN "no phone" ELSE "ready",
     count |-> IF status.sessions > 0 THEN status.sessions ELSE status.paired,
     needs |-> block, waiting |-> status.invited]

update_label(state) ==
    CASE state \in {"Available", "InstallFailed"} -> "Update to"
      [] state \in {"Downloading", "Installing", "Restarting", "Checking"} -> state
      [] state \in {"Unknown", "UpToDate", "CheckFailed"} -> "Check for updates"
is_busy(state) == state \in {"Checking", "Downloading", "Installing", "Restarting"}

\* A menu from a block read earlier and the rest as it is.
Menu(block) == [status |-> describe(server, block), autostart |-> is_enabled, allow |-> block,
                update |-> update_label(update)]
\* The items of the menu, as Linux asks for them each time ...
Items(menu) == <<"status">> \o (IF menu.allow THEN <<"Allow">> ELSE <<>>)
               \o <<"Pair", "Update", "ToggleAutostart", "Quit">>
\* ... and as the two others build them once and then put in or take out the one that comes and goes.
build == <<"status", "Pair", "Update", "ToggleAutostart", "Quit">>
Updated(items, menu) ==
    LET has == "Allow" \in ToSet(items)
    IN IF menu.allow = has THEN items
       ELSE IF menu.allow THEN InsertAt(items, 2, "Allow") ELSE Remove(items, "Allow")

after(outcome) ==
    [working |-> FALSE, note |-> IF outcome = "Ok" /\ os = "linux" THEN Nothing ELSE outcome,
     terminal |-> os = "linux" /\ outcome \in {"NotGranted", "Failed"}]

\* What the page is told of the asking: nothing once it is not needed.
setup_view ==
    [block |-> blocked, working |-> blocked /\ allowing.working,
     note |-> IF blocked THEN allowing.note ELSE Nothing, terminal |-> blocked /\ allowing.terminal]

update_json(state) ==
    [phase |-> state, found |-> state \in {"Available", "Downloading", "Installing", "Restarting", "InstallFailed"},
     button |-> state \in {"Available", "InstallFailed"}]

allow_notice(setup) ==
    IF setup.block THEN [button |-> ~setup.working, note |-> setup.note, terminal |-> setup.terminal] ELSE Nothing
phones(status) == IF status.sessions > 0 THEN <<status.sessions, "connected">>
                  ELSE IF status.paired > 0 THEN <<status.paired, "paired">> ELSE <<>>
\* The code, its clock, the name and the addresses are the invitation's; the update is filled in by the script.
render_page(data) ==
    [notice |-> allow_notice(data.setup), status |-> phones(data.status), toggle |-> ~data.autostart,
     paired |-> data.status.paired, blocked |-> data.setup.block]
\* What decides what the person can press.
Pressable(notice) == notice # Nothing /\ notice.button
Kept(shown_page) == [allow |-> Pressable(shown_page.notice), toggle |-> shown_page.toggle]

---------------------------------------------------------------------------
(* What may ask the page's server for something: the fields of a request   *)
(* that decide.                                                            *)
Requests == [host : {"ours", "other", Nothing}, secret : BOOLEAN, slash : BOOLEAN,
             method : {"GET", "POST", "OTHER"}, origin : {"ours", "other", Nothing}]
allows_host(r) == r.host = "ours"
allows_origin(r) == r.origin \in {"ours", Nothing}
\* The status of a refusal; a request that passes is answered 200.
refusal(r) ==
    CASE ~allows_host(r) -> 400
      [] allows_host(r) /\ ~r.secret -> 404
      [] allows_host(r) /\ r.secret /\ ~r.slash -> 308
      [] allows_host(r) /\ r.secret /\ r.slash /\ r.method = "POST" /\ ~allows_origin(r) -> 403
      [] allows_host(r) /\ r.secret /\ r.slash /\ r.method = "OTHER" -> 405
      [] OTHER -> 200
\* The page's thread answers one request after the other.
Panel == given.panel /\ Idle("page")
Asked(method) == Panel /\ \E r \in Requests : r.method = method /\ refusal(r) = 200

---------------------------------------------------------------------------
Init ==
    /\ given \in Givens /\ os = given.os
    /\ entry \in (IF "entry" \in given.acts THEN {"none", "elsewhere"} ELSE {"none"})
    /\ tmp = "none" /\ overlapped = FALSE
    /\ at = [w \in Writers |-> IF w = "start" THEN "look" ELSE "idle"]
    /\ blocked \in (IF "permission" \in given.acts THEN BOOLEAN ELSE {FALSE})
    /\ server = [paired |-> 0, sessions |-> 0, invited |-> FALSE]
    /\ update \in (IF "updates" \in given.acts THEN {"Unknown", "Available"} ELSE {"Unknown"})
    /\ allowing = [working |-> FALSE, note |-> Nothing, terminal |-> FALSE]
    /\ prompts = [w \in {"menu", "page"} |-> "none"]
    /\ icon = Nothing /\ shown = Nothing /\ loop = Off /\ refreshes = <<>> /\ posted = <<>>
    /\ page = Nothing /\ quitting = FALSE /\ changes = 0 /\ astray = FALSE

\* The system, the server and the updater go their own ways.
Permission == os # "windows" /\ Counted("permission") /\ blocked' = ~blocked /\ UNCHANGED <<server, update>>
Phones ==
    /\ Counted("phones") /\ UNCHANGED <<blocked, update>>
    /\ server' \in {[server EXCEPT !.paired = 1, !.sessions = 1, !.invited = FALSE],
                    [server EXCEPT !.sessions = 0], [server EXCEPT !.invited = FALSE]} \ {server}
Releases ==
    /\ Counted("updates") /\ UNCHANGED <<blocked, server>>
    /\ update' \in CASE update = "Checking" -> {"UpToDate", "Available", "CheckFailed"}
                     [] update = "Installing" -> {"InstallFailed"}
                     [] OTHER -> {}
World == (Permission \/ Phones \/ Releases) /\ UNCHANGED <<given, os, file, asking, menus, page, quitting>>
SettingsChange == Counted("entry") /\ Settings /\ UNCHANGED <<given, facts, asking, menus, page, quitting>>

---------------------------------------------------------------------------
(* The menu *)

\* The start: the entry first, then the icon with the menu as it is.
Start == refresh /\ UNCHANGED <<given, facts, asking, menus, page, quitting, changes>>
\* Once the icon is up, the loop begins; without a tray, updates go nowhere and the page opens.
tray_is_up ==
    /\ Idle("start") /\ loop = Off
    /\ loop' = Waits /\ icon' = IF given.tray THEN Menu(blocked) ELSE Nothing
    /\ UNCHANGED <<given, os, file, facts, asking, shown, refreshes, posted, astray, page, quitting, changes>>

LoopReads ==
    /\ loop = Waits
    /\ loop' = [at |-> "read", block |-> blocked]
    /\ UNCHANGED <<given, os, file, facts, asking, icon, shown, refreshes, posted, astray, page, quitting, changes>>

\* It sends what it has not sent before: mutated, what the status line does not say already.
OtherStatus(menu) == shown = Nothing \/ shown.status # menu.status
OtherMenu(menu) == shown # menu
LoopSends ==
    /\ loop.at = "read"
    /\ loop' = Waits
    /\ LET menu == Menu(loop.block)
       IN IF OtherMenu(menu) THEN posted' = Append(posted, menu) /\ shown' = menu
          ELSE UNCHANGED <<posted, shown>>
    /\ UNCHANGED <<given, os, file, facts, asking, icon, refreshes, astray, page, quitting, changes>>

\* refresh_menu() spawns a task that reads and sends on its own account.
refresh_menu == refreshes' = Append(refreshes, Nothing)
RefreshReads(i) ==
    /\ refreshes[i] = Nothing
    /\ refreshes' = [refreshes EXCEPT ![i] = [block |-> blocked]]
    /\ UNCHANGED <<given, os, file, facts, asking, icon, shown, loop, posted, astray, page, quitting, changes>>
RefreshEnds(i) ==
    /\ refreshes[i] # Nothing
    /\ refreshes' = RemoveAt(refreshes, i)
    /\ posted' = IF loop = Off THEN posted ELSE Append(posted, Menu(refreshes[i].block))
    /\ UNCHANGED <<given, os, file, facts, asking, icon, shown, loop, astray, page, quitting, changes>>

\* On Linux a task is spawned for each update, and whichever runs first comes first.
LinuxUpdates(i) == os = "linux" /\ icon' = IF given.tray THEN posted[i] ELSE icon
\* On Windows and macOS the event loop takes them in the order sent, and changes what differs.
DesktopUpdates(i) == os # "linux" /\ i = 1 /\ icon' = posted[i]
Deliver(i) ==
    /\ LinuxUpdates(i) \/ DesktopUpdates(i)
    /\ Idle("menu")
    /\ posted' = RemoveAt(posted, i)
    /\ astray' = (posted[i] # shown)
    /\ UNCHANGED <<given, os, file, facts, asking, shown, loop, refreshes, page, quitting, changes>>

---------------------------------------------------------------------------
(* Asking for the permission *)

\* allow(): the block is looked at first ...
allow(w) == Goto(w, IF blocked THEN "blocked" ELSE "idle")
\* ... then, under the lock, whether somebody is asking already: mutated, by what the page shows ...
PageSaysNobodyAsks == page = Nothing \/ page.allow
NobodyAsks == ~allowing.working
TakesTurn(w) ==
    /\ at[w] = "blocked"
    /\ IF NobodyAsks THEN Goto(w, "asking") /\ allowing' = [working |-> TRUE, note |-> Nothing, terminal |-> FALSE]
       ELSE Goto(w, "idle") /\ UNCHANGED allowing
    /\ UNCHANGED <<given, os, entry, tmp, overlapped, facts, prompts, menus, page, quitting, changes>>
\* ... and a thread waits for the person, if it can be started.
Spawns(w) ==
    /\ at[w] = "asking" /\ Goto(w, "idle")
    /\ \/ prompts' = [prompts EXCEPT ![w] = "open"] /\ UNCHANGED allowing
       \/ allowing' = [allowing EXCEPT !.working = FALSE] /\ UNCHANGED prompts
    /\ UNCHANGED <<given, os, entry, tmp, overlapped, facts, menus, page, quitting, changes>>

\* pkexec: what its end means, once it is known whether /dev/uinput opens.
PkexecEnds(said, still) ==
    CASE said = "cannot run" -> "NotGranted"
      [] said = "success" -> IF still THEN "Failed" ELSE "Ok"
      [] said = "dismissed" -> "Declined"
      [] said = "not authorized" -> "NotGranted"
      [] said = "other" -> "Failed"
\* System Settings opens, or does not; the switch is the person's.
SettingsOpens(opened) == IF opened THEN "Ok" ELSE "Failed"
Hears(w) ==
    /\ prompts[w] = "open"
    /\ \/ /\ os = "linux"
          /\ \E said \in {"cannot run", "success", "dismissed", "not authorized", "other"} :
               /\ blocked' \in (IF said = "success" THEN {FALSE, blocked} ELSE {blocked})
               /\ prompts' = [prompts EXCEPT ![w] = PkexecEnds(said, blocked')]
       \/ /\ os = "macos" /\ UNCHANGED blocked
          /\ \E opened \in BOOLEAN : prompts' = [prompts EXCEPT ![w] = SettingsOpens(opened)]
    /\ UNCHANGED <<given, os, file, server, update, allowing, menus, page, quitting, changes>>
\* How it went is kept and the menu refreshed; the menu's caller reads of a failure on the page.
Tells(w) ==
    /\ prompts[w] \notin {"none", "open"}
    /\ allowing' = after(prompts[w]) /\ prompts' = [prompts EXCEPT ![w] = "none"]
    /\ refresh_menu
    /\ UNCHANGED <<given, os, file, facts, icon, shown, loop, posted, astray, page, quitting, changes>>

---------------------------------------------------------------------------
(* What the person chooses in the menu and on the page *)

check_for_updates == update' = IF is_busy(update) THEN update ELSE "Checking"
begin_quit == quitting' = TRUE

Chooses(item) == given.tray /\ icon # Nothing /\ item \in ToSet(Items(icon)) /\ Idle("menu")
MenuAllow == Chooses("Allow") /\ Counted("permission") /\ allow("menu")
             /\ UNCHANGED <<given, os, entry, tmp, overlapped, facts, asking, menus, page, quitting>>
MenuToggle == Chooses("ToggleAutostart") /\ Counted("entry") /\ Goto("menu", Turn(~is_enabled))
              /\ UNCHANGED <<given, os, entry, tmp, overlapped, facts, asking, menus, page, quitting>>
MenuUpdate ==
    /\ Chooses("Update") /\ Counted("updates")
    /\ IF update_json(update).found THEN UNCHANGED update ELSE check_for_updates
    /\ UNCHANGED <<given, os, file, blocked, server, asking, menus, page, quitting>>
MenuQuit == Chooses("Quit") /\ begin_quit /\ UNCHANGED <<given, os, file, facts, asking, menus, page, changes>>

\* The page: each visit has a new code made.
Visit ==
    /\ Asked("GET")
    /\ server' = [server EXCEPT !.invited = TRUE]
    /\ page' = Kept(render_page([status |-> server', setup |-> setup_view, autostart |-> is_enabled]))
    /\ UNCHANGED <<given, os, file, blocked, update, asking, menus, quitting, changes>>
\* Its script follows status.json.
status_json ==
    /\ Asked("GET") /\ page # Nothing
    /\ page' = [page EXCEPT !.allow = Pressable(allow_notice(setup_view))]
    /\ UNCHANGED <<given, os, file, facts, asking, menus, quitting, changes>>
Close == page # Nothing /\ page' = Nothing /\ UNCHANGED <<given, os, file, facts, asking, menus, quitting, changes>>

Presses == Asked("POST") /\ page # Nothing
PageAllow == Presses /\ Counted("permission") /\ page.allow /\ allow("page")
             /\ UNCHANGED <<given, os, entry, tmp, overlapped, facts, asking, menus, page, quitting>>
PageToggle == Presses /\ Counted("entry") /\ Goto("page", Turn(page.toggle))
              /\ UNCHANGED <<given, os, entry, tmp, overlapped, facts, asking, menus, page, quitting>>
PageCheck == Presses /\ Counted("updates") /\ check_for_updates
             /\ UNCHANGED <<given, os, file, blocked, server, asking, menus, page, quitting>>
PageInstall ==
    /\ Presses /\ Counted("updates") /\ update_json(update).button
    /\ update' = "Installing"
    /\ UNCHANGED <<given, os, file, blocked, server, asking, menus, page, quitting>>
PageQuit == Presses /\ begin_quit /\ UNCHANGED <<given, os, file, facts, asking, menus, page, changes>>
Person == MenuAllow \/ MenuToggle \/ MenuUpdate \/ MenuQuit
          \/ Visit \/ status_json \/ Close \/ PageAllow \/ PageToggle \/ PageCheck \/ PageInstall \/ PageQuit

\* The thread that changes the entry goes on; the menu's toggle refreshes the menu when it is through.
set_autostart(w) ==
    /\ enable(w) \/ disable(w) \/ Fails(w)
    /\ IF w = "menu" /\ at'[w] = "idle" THEN refresh_menu ELSE UNCHANGED refreshes
    /\ UNCHANGED <<given, facts, asking, icon, shown, loop, posted, astray, page, quitting, changes>>

---------------------------------------------------------------------------
Asking(w) == TakesTurn(w) \/ Spawns(w)
Refreshing == \E i \in DOMAIN refreshes : RefreshReads(i) \/ RefreshEnds(i)
Delivering == \E i \in DOMAIN posted : Deliver(i)
\* How the program ends once it is asked to is module Tray's.
Next ==
    /\ ~quitting
    /\ \/ World \/ SettingsChange \/ Person
       \/ Start \/ tray_is_up \/ LoopReads \/ LoopSends \/ Refreshing \/ Delivering
       \/ \E w \in Writers : set_autostart(w)
       \/ \E w \in DOMAIN prompts : Asking(w) \/ Hears(w) \/ Tells(w)

\* The program's threads and tasks go on; when and what the person answers is the person's business.
Fairness ==
    /\ WF_vars(Start) /\ WF_vars(tray_is_up) /\ WF_vars(LoopReads) /\ WF_vars(LoopSends)
    /\ WF_vars(Refreshing) /\ WF_vars(Delivering)
    /\ \A w \in Writers : WF_vars(set_autostart(w))
    /\ \A w \in {"menu", "page"} : WF_vars(Asking(w)) /\ WF_vars(Tells(w))
Spec == Init /\ [][Next]_vars /\ Fairness

---------------------------------------------------------------------------
(* Properties *)

TypeOK ==
    /\ entry \in {"none", "here", "elsewhere", "hidden", "half"} /\ tmp \in {"none", "half", "whole"}
    /\ at \in [Writers -> {"look", "idle", "on", "off", "open", "moved", "lost", "written", "blocked", "asking"}]
    /\ blocked \in BOOLEAN /\ allowing.working \in BOOLEAN /\ changes \in 0 .. MaxChanges

\* One person is asked one thing at a time: of the menu's thread, the page's and those they start, one at most has
\* the password prompt to show, and `working' says exactly when one has (app.rs:355, Shared::allow).
HasPrompt == {w \in DOMAIN prompts : at[w] = "asking" \/ prompts[w] # "none"}
OnePrompt == Cardinality(HasPrompt) <= 1 /\ (allowing.working <=> HasPrompt # {})

\* "From now on the menu is kept current" (app.rs:298): when nothing changes any more, the icon comes to show what is
\* and stays so; unless the update that arrived last was not the loop's last, which it will not send again.
Current == icon = Menu(blocked)
KeptCurrent == <>[](quitting \/ ~given.tray \/ astray \/ Current)
\* Without the exception it does not hold: refresh_menu() sends what the loop does not know of.
AlwaysKeptCurrent == <>[](quitting \/ ~given.tray \/ Current)

\* The entry is never cut off (autostart/mod.rs:125, write_replacing), unless two threads wrote it at the same time.
EntryIsWhole == entry = "half" => overlapped
\* Without the exception it does not hold: both write the same neighbour.
EntryIsAlwaysWhole == entry # "half"

\* A note about asking appears when an attempt ends, not later (setup.rs:51, Progress); it does not hold, since
\* nothing clears the note when the permission is given, and it is shown again when it is taken away.
NoteIsOfAnAttempt ==
    [][setup_view'.note \in {setup_view.note, Nothing} \/ \E w \in DOMAIN prompts : prompts[w] # prompts'[w]]_vars
===========================================================================
