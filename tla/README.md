# Telepad in TLA+

Telepad turns an Android phone into a touchpad and keyboard for a PC. The phone runs an
Android app (`android/`, Kotlin); the PC runs a server (`crates/telepad-server`, Rust), by
itself on a terminal or inside a tray application (`crates/telepad-tray`). They speak an
encrypted UDP protocol, or Bluetooth HID without any server. This directory holds TLA+ models
of the server, the tray application, the desktop updater and the phone's connection and
keyboard, TLC configurations that check them, and proofs checked by TLAPS.

Paths below are relative to the repository; `server/`, `crypto/`, `protocol/`, `platform/`,
`tray/` and `update/` stand for `crates/telepad-server/src/` and so on, and Kotlin files are named without their package.

## 1. Inventory

### The PC

| Component | State it keeps | Operations | What makes it correct |
|---|---|---|---|
| Pairing (`server/pairing.rs`, commands in `server/main.rs`) | trusted list, window, one-time code, "accept any" | admit a handshake; open, close, `qr`, `forget`; start and stop | no phone gets in that no act of the owner paid for; a code works once, and only the newest; `forget` is final |
| Trusted list and identity (`crypto/lib.rs`) | two files | load, rewrite through a temporary file, migrate | a failed rewrite leaves the old content; the PC keeps one identity |
| Session table (`server/sessions.rs`) | sessions by address, what each holds down, when it was last heard | insert with eviction, look up, expire, let go of stale holds, clear | never above its limit; whatever leaves the table is released on the PC |
| Server tasks (`server/server.rs`) | the table under one lock, shared with pairing | receive loop, housekeeping, owner's commands, shutdown | nothing stays pressed that nobody will release; sessions belong to paired phones |
| Input worker (`server/input.rs`) | a channel and a thread | send, shutdown, apply | events take effect in the order they were queued, and all before it stops |
| Input backends (`platform/os/*`, `platform/keymap`) | devices of the system, modifiers they pressed, a permission | key, button, text, chord, retry | a release undoes its press; the text arrives; a permission is noticed |
| Secure transport (`crypto/lib.rs`) | send counter, replay window | encrypt, decrypt | every packet is accepted once at most, and every fresh one is |
| Wire protocol (`protocol/lib.rs`) | none | encode, decode | what is read is what was meant; what is cut short is refused |
| Discovery (`server/discovery.rs`, `platform/netif.rs`, `server/invite.rs`) | announcers, memberships | rounds, probes, addresses of an invitation | each network hears the PC once a round, and goes on hearing it |
| Clipboard (`server/clipboard.rs`, `platform/clipboard.rs`) | a thread that owns the clipboard | read, write | an answer is not older than what the asker sent, and reaches no ended session |
| Invitations (`server/invite.rs`, `qr.rs`) | none | URL, QR code | addresses that a phone can reach |
| Console (`server/console.rs`, `launch.rs`) | none | parse commands and options | formatting |
| Autostart, permissions (`platform/autostart`, `access.rs`) | one entry of the system | enable, disable, put right | the entry is whole and starts this program |
| Tray (`tray/`) | page, single-instance address, menu, what is asked of the person | start, hand over, quit, show, ask | one instance, one question, a menu that is current |
| Updater (`update/`) | state, staged and installed files | check, fetch, verify, swap, roll back, restart | a program remains, a published one, and the new one comes up |

### The phone

| Component | State it keeps | Operations | What makes it correct |
|---|---|---|---|
| Wi-Fi dispatcher (`WifiInputDispatcher.kt`) | generation, target, live link, jobs, what is shown | connect, disconnect, lose and rebuild a link | the live link is the wanted one, and alone; attempts and retries end |
| Secure session (`NoiseSession.kt`) | replay window in two words | handshake, encrypt, decrypt, reset | same as the server's |
| Keyboard session (`KeyboardSession.kt`, `KeyBar.kt`) | latched and held modifiers, keys under fingers | tap, press, release, shortcut | what is down on the PC is what fingers hold |
| Connection manager (`ConnectionManager.kt`) | stored PCs, current attempt, flow of pairing | attempt, confirm, remember, forget | only a confirmed and reached PC is remembered |
| Trust (`TrustResolver.kt`, `PairingStore.kt`) | stored identities | resolve a proof, save | a changed identity is noticed |
| Liveness and retries (`LivenessMonitor.kt`, `ReconnectPolicy.kt`) | instants | heard, verdict, next delay | silence is noticed, retries end |
| Discovery (`DiscoveryService.kt`, `DiscoveryRegistry.kt`) | servers heard, with instants | hear, expire | a silent server disappears |
| Bluetooth (`HidController.kt`, `HidKeyboardState.kt`) | registration with the stack, the report | register, connect, send reports | a report says what is held |
| Gestures and typing (`GestureEngine.kt`, `TypingBridge.kt`, `TextDiff.kt`) | fingers, text so far | touch, edit | every button down comes up |
| Clipboard, now playing | last values | query, late answer | last answer wins |
| App updater (`update/`) | a download | check, download, install | verified before installed |
| Screens, settings, service | presentation | | |

### How they interact

Fingers reach `KeyboardSession` and `GestureEngine`, which call the dispatcher; the Wi-Fi
dispatcher encrypts with `NoiseSession` and sends over UDP, where messages are lost, repeated
and reordered. The server's receive loop verifies a handshake, asks `Pairing` whether to admit
it, puts a session in the table, and from then on decrypts with `NoiseTransport`, notes in the
session's `HeldInputs` what goes down, **releases the lock, and only then** queues the event for
the input thread, which asks one of three backends. The housekeeping task and the console share
the lock, and queue releases after unlocking in the same way. A request for the clipboard becomes
a task that asks the clipboard's thread and answers whatever session has the address by then. The
tray application runs the server, the page, the icon and the updater in one process; two starts
of it meet through a port, a file with the page's address, and the file of the identity. On the
phone every request takes a generation number, and coroutines compare theirs with the current one
before they act.

### What is hard

* A decision taken under the lock and carried out after it: `server.rs:553`, `:332`, `:211`.
* Two acts of the owner that overlap with handshakes and expiry: `main.rs:343`, `server.rs:434`.
* A rewrite of the list that fails, then a restart: `pairing.rs:173`.
* Shifts at the edges of a window, and numbers that arrive late: `lib.rs:94`, `NoiseSession.kt:41`.
* Messages lost between a finger and the PC, fingers lifting in another order: `KeyboardSession.kt:172`.
* Events of which a system takes only the first: `windows.rs`, `linux/uinput.rs`.
* Answers that come after the session they were for: `server.rs:594`.
* A folder swapped in two renames, with a quit or a power cut between them: `apply.rs:191`.
* Two programs making, migrating and reading one key file: `lib.rs:331`.
* Asking a program to quit that has not come up: `app.rs:301`.
* What is shown, kept current by two senders: `app.rs:406`.
* Results of coroutines that come after the request they were for, and cancellation that throws
  results away: `WifiInputDispatcher.kt:333`, `:492`, `:523`.
* Phones that disappear: only time can let go for them (`server.rs:348`).

`PROJECT.json` lists these and the others at their lines, with the properties that cover them.

## 2. Plan

Order of work, most important first; each step is a module, its instance and its proofs.

| | Module | Checked | Proved |
|---|---|---|---|
| 1 | `Pairing` | yes | every invariant |
| 2 | `DesktopServer` (table, tasks and input thread composed) | yes | every invariant |
| 3 | `ReplayGuard` (abstract) with `NoiseTransport`, `NoiseSession` | yes | refinement and invariants |
| 4 | `HeldKeys` (phone keyboard, server record, backend composed) | yes | every invariant |
| 5 | `WifiDispatcher` | yes | every invariant |
| 6 | `Releases`, `Updater` (fetch, verify, swap, roll back, restart) | yes | every invariant and action property |
| 7 | `Tray` (instances, identity file, quitting) | yes | every invariant and action property |
| 8 | `Wire`, `Link` (codec, handshakes, sessions, clipboard over a network) | yes | every property, and the codec's round trips |
| 9 | `Keymaps`, `Backends` (three systems) | yes | every invariant |
| 10 | `Discovery` (over `Wire`) | yes | `HeardOnce` |
| 11 | `Autostart`, `CommandLines`, `Panel` (entry, its words, menu, page, permission) | yes | every invariant, and that command lines are read back |
| 12 | Connection manager and trusted PCs, `forget` against `remember` | not begun | |
| 13 | Bluetooth reports and registration | not begun | |

Every module keeps its parameters as CONSTANTS with a named ASSUME, one action per operation or
critical section, no RECURSIVE operator, and properties at its end. Where one module of proofs is
about several specifications, their names are kept apart (`WifiInit`, `WifiSpec`, `DiscoveryNext`). Definitions whose comment
says "mutated" are not part of a specification: each is another definition with a
plausible bug, and shows that the property it is paired with in `PROJECT.json` notices.

`HeldKeys` composes phone, server record and PC; `DesktopServer` composes the table, its tasks
and the input thread; `Link` extends `Wire` and composes phones, network, receive loop and
clipboard thread; `Discovery` extends `Wire`; `Backends` extends `Keymaps`; `Updater` extends
`Releases`; `Panel` extends `Autostart`. `NoiseTransport` and `NoiseSession` implement
`ReplayGuard`.

## 3. Modules and code

### `Pairing`

One process of the server, its clock, its trusted list in memory and on disk, and the three
things that let a phone in. `trusted_clients`, `accept_any`, `window_until` and `invitation` are
the fields of the same name; `disk` is what `PairingStore::load_or_default` would read.

* The owner: `Start` (with the modes of `PairingMode`, and the code the banner draws on a
  terminal), `PairOpens` and `PairShowsCode` (one command, two critical sections), `Qr`,
  `Close`, `Forget(ok)`.
* The phones: `Arrive` is a handshake up to the lock, with the clock read there
  (`server.rs:434`); `Admit` is `admit_with_token` under the lock, as `Known`, `Rejected` or
  `NewlyPaired`. A failed `save` does not refuse the phone, as in the code.
* The world: `Tick`, `Stop` (nothing in memory survives), `LoseFile`.

Variables after `console` are history: who was paired by which code, how many windows and codes
were granted and how many phones were paired since start, since the last command, since the last
successful `forget`. No action reads them, but for `issued`, from which codes are drawn, and the
bounds.

### `DesktopServer`

The table of sessions (`live`, `owner`, `held`, `age`), the three tasks that work on it, the
input thread and its channel. `pending[t]` is what task `t` has decided on under the lock and
not queued yet: the space between an unlock and its sends, in which any other task may run. A
task does nothing else before it has queued all of it, which is what `await`-free code after the
unlock amounts to.

`Handshake`, `Transport`, `Query` are the receive loop; `Maintain` is one round of
`maintenance()`; `ForgetAll` and `ForgetFails` are the two outcomes of `forget_all()`; `Send` is
`InputWorker::send`; `Shutdown`, `ReleaseAll`, `PostStop` are the end of `run()`; `Apply` and
`StopThread` are the input thread. The housekeeping may have begun when the shutdown aborts it,
and then still queues its releases, after `Stop` too.

Who may pair is left to `Pairing`: a handshake is of any phone, and adds it to `trusted`. Packets
that do not authenticate change nothing and are left out; replay is `NoiseTransport`'s. An input
is a key or a button; what a key does with modifiers is `HeldKeys`'s. `age` stops at the first
value that means expired, so nothing beyond it can be told apart.

`dropped`, `crossed` and `unsaved` are history: what was released too late to be applied, what
was pressed by a packet that a `forget` overtook, and whom a `forget` unpaired without being
able to save.

### `ReplayGuard`, `NoiseTransport`, `NoiseSession`

`ReplayGuard` is what both ends promise: a packet is accepted when it is authentic, new, and
less than a window behind the newest. `NoiseTransport` is the server's (one `u128`) and
`NoiseSession` the phone's (two `Long`s, shifts modulo the word's width, `reset`). A word is the
set of positions of its 1 bits. Each is composed with a sender, `Encrypt` or `Sent`, and a network that
delivers anything sent any number of times in any order, and anything else under any number.
The cipher is the `snow` library's and the phone's crypto library's, and is taken to reject what
was not sent.

### `HeldKeys`

A key's whole way: `KeyboardSession` on the phone (`states`, `held`, `usedWhileHeld`, and the
keys under `fingers`), messages that may be lost, `HeldInputs` on the server and the Linux
backend's `key_events` on the PC (both in `pc`, which follows messages one by one).
`HoldModifier`, `ReleaseModifier`, `ReleaseModifiers`, `PressKey`, `ReleaseKey` and `TapKey` are
the phone's functions, `Vanish` is the phone falling silent and the server letting go. `TapKey`
covers `type`, `tapKey`, `backspace` and `shortcut`, which all press and release at once under
the modifiers of the moment and use up the armed ones.

### `WifiDispatcher`

`generation`, `target`, `link` change under the dispatcher's lock; `state` is what is shown, and
changes outside it. `connects` are the callers of `connectTo()` that wait, `reconnects` the
retry coroutines, each with how far it is; `publishing` the loops that have checked they may
publish and have not published yet. `main` holds what the main thread has left to show before it
takes anything else. Handshakes end with a link, a refusal or silence, whichever; only sockets
whose handshake succeeded are followed, for the others are closed where they are opened.

### `Wire`, `Link`

`Wire` is `telepad-protocol`: every message of both directions as bytes, fields of two or four
bytes in little-endian order with their signs, texts as UTF-8 cut at the boundary of a character
(`truncate_to_char_boundary`), and `Refused` for what is too short, too long or unknown. Numbers
of four bytes are written for values within 2^23 of zero, TLC's integers being 32 bits wide.

`Link` sends those bytes. `net` holds every datagram the phones have sent, which can be delivered
never, late, again and in any order. The receive loop (`handle_packet`) answers handshakes with
new keys, replaces the session of an address, decrypts, and takes inputs and texts; `get` is the
task of a clipboard request, which asks the clipboard's thread, gives up after `GET_TIMEOUT`
while that thread goes on, and answers under the keys of the session that has the address by then;
`set` is the phone's text on its way to the same thread. The person at the PC copies at any time,
and the clipboard may refuse to be opened, read or written.

### `Keymaps`, `Backends`

`Keymaps` holds the key tables of the three systems and what a character is typed with.
`Backends` chooses a system in `BackendsInit`, and hands it the messages of phones that release what they
pressed, with the same modifiers, or vanish. A backend plans the events of a message, as
`key_events`, `macos_plan` and `send_inputs` do, and hands them over; the system takes all, or
only some of the first. Windows takes none while another desktop has the input; Linux may not have
allowed the device yet, and `DeferredInput` tries again after `RETRY_AFTER`. What is down at the
system is the result. Texts go as key strokes, as Unicode events in pieces, or as the hexadecimal
input of a Linux desktop.

### `Discovery`

`platform/netif.rs` (addresses, prefixes, broadcast addresses, one per subnet),
`server/discovery.rs` (rounds that compare the addresses with those of the announcers, sockets
that are refused, membership of the group) and `invite.rs` (`best_addresses`). A round is one
step; interfaces and refusals change between rounds.

### `Releases`, `Updater`

`Releases` are the operators that decide: how versions compare (`version.rs`), which release is
offered (`newest_for`, `is_offered`), how a copy was installed (`classify`), which of the files
of a release fits, and whether what was fetched is what was published (`sums.rs`).

`Updater` has the lock's content (`state`, `update`), two threads with a program counter for
every point between which another thread, the end of the program or a power cut can come, the
file that was fetched, the three places `app`, `new` and `old` of a program on the disk, and the
helper that outlives the program (`relaunch`, or an installer). `Crash` is a power cut, `Quit` the
person's; a rename may fail (`MaxFaults`), and another program may change the file after it was
verified (`FileChanges`), which is what `VERIFY_AND_INSTALL` is there for.

Windows' installer (`packaging/windows/telepad.iss`, run by `apply.rs` `windows()`) takes three steps. `InstallerAsks` is
the run of `telepad --quit`, whose result is ignored: it may have told the copy that runs, or not have found
it, and it does not wait for one that quits already, whose address `begin_quit()` has withdrawn.
`InstallerReplaces` replaces the program if no process runs from it, which is what Windows allows, or
gives up (`helper = "aborted"`): because the old program, which has up to `SHUTDOWN_PATIENCE`, has not
ended, or for any other reason. Setup repeats the attempt a few times within some seconds, which makes giving up rare; that it
happens at any time is what the model allows. `InstallerStarts` is `[Run]`.

A power cut falls between system calls, and what a call has written is durable: neither `fs::copy` (`apply.rs:393`)
nor `ditto` (`:181`) is synced before the rename and before the old app is removed, unlike `atomic_write` in the crypto
crate, and what a file system loses of such a copy is not modelled. So `AProgramRemains` says what the
order of the calls guarantees, not what a cut may do to data that has not reached the disk.

### `Tray`

Copies of the program, each with a program counter from `start()` to its end, the port that
excludes them, `file` with the address of a page, `key` with the identity on disk in its forms,
pages that answer, icons that can be stopped, what `begin_quit()` has left to do, and the state
of each copy's server. `worlds` gives what differs: a console server beside the tray, ports,
the system, file systems without hard links, the key file that is found. `Askers` are runs of
`telepad --quit`. `overlap` is history: copies that announced themselves just between another
one's look at the file and its removal.

`answers` is the code's `answers()`: a page that is not there does not answer, one that is may answer, or be
slower than `PATIENCE` and count as gone. So a second start may not find the first, `--quit` may say
NotRunning with a copy alive, a request to quit may be sent and its answer missed (`AskerSends`), and the
wait ends with Done at the first try that has no answer in time (`AskerWaits`). `late` is history: the runs
of `--quit` whose last try was of a page that lived. `announce()` writes a neighbour of one fixed name and renames
it; the model takes the two as one step, so two copies that announce at the same moment, and may
rename each other's half, are not told apart. No property rests on it.

### `Autostart`, `CommandLines`, `Panel`

`Autostart` is the entry each system keeps, its three writers (the start, the menu, the page) down
to the open, write and rename of a file. `CommandLines` is the quoting of the words in it (`Exec`, a Windows
command line, a property list), with readers written from the formats, which the code's comments
name: each goes from character to character and keeps the words found, the one being read, whether it is within
quotes, and how many marks are held back.
`Panel` adds what the tray shows and lets the person do: the menu as the loop of `tray_is_up()`
and the tasks of `refresh_menu()` read it (in two steps) and send it (to arrive later, on Linux
in any order), the page with the requests it refuses, the question for the permission to type
(`allow`, its thread, `pkexec`), and what may happen to each meanwhile.

## 4. Runs

| Run | Instance | Shows |
|---|---|---|
| `pairing` | 3 phones, 2 codes, instants 0..2, windows of 1 or 2, codes of 1, 3 grants | no phone gets in that was not paid for, over restarts, lost files and failed saves |
| `server` | 2 addresses, 2 phones, 1 input, a table of 1, 5 packets and commands | nothing is stuck, sessions are of paired phones, shutdown leaves nothing, silent phones let go |
| `keys` | 2 keys, 2 modifiers, 2 losses | what is down on the PC is what fingers and record say |
| `replay_server` | window of 4, packets 0..9 | the bitmap is exact; refines `ReplayGuard` |
| `replay_phone` | words of 3 bits, packets 0..10 | the words are exact; refines `ReplayGuard` |
| `wifi` | 2 PCs, 2 requests, 3 links | the live link is wanted and alone, one retry loop, attempts end |
| `link` | 2 phones behind 1 address, 2 texts, 4 messages sent, 2 keys made | what is read was meant, answers are not old, ended sessions hear nothing |
| `backends` | 6 systems, 2 usages with 2 sets of modifiers, 7 texts, 2 keys held, 1 fault | keys come up, texts arrive, a permission is used |
| `discovery` | 8 lists of interfaces, 3 changes | every subnet hears the PC once a round, and again after any change |
| `tray` | 2 copies, 1 `--quit`, 1 kill, 6 worlds | one identity, an address that stays, an end to what is asked to quit |
| `update` | 2 threads, 3 versions, 5 kinds of copies, 2 failing renames, 1 power cut | one at a time, a program remains, published, forward, and comes up |
| `panel` | 6 combinations of system, tray, page and what may change, 2 changes | one question, a whole entry, a current menu |

Why these bounds are enough to meet the cases:

* *Pairing.* Three phones: one that uses a code, one that uses the window, one more that must be
  refused. Two codes: one replaced by the other. A code can run out before the window that was
  opened with it (as with a `pair` for more than fifteen minutes), or be drawn later and outlast
  it, and a handshake can read the clock before and get the lock after.
* *Server.* A table of one makes every second handshake evict; two addresses let the same phone
  move and another one push it out. A scenario that presses, loses the session in any of its ways and comes
  back takes four packets; the fifth is a `forget` at any point. One input suffices to have a
  press and a release of the same key in the hands of different tasks, for events of different
  inputs do not touch each other; the theorems cover any number.
* *Windows.* A window of 4 (of 6 on the phone) and numbers twice as far let the window move by
  less than itself, by exactly itself and by more, and in two words by less than a word, one
  word, and between; the theorems cover the real widths.
* *Keys.* Two keys and two modifiers are the least that can be interleaved crosswise, and two
  losses suffice to lose a press or a release of either; the theorems cover any number.
* *Wi-Fi.* Two requests: the wanted one, and one that may still have work under way; three
  links: a live one, one that a retry brings, one that came too late. The theorems cover any
  number.
* *Link.* Two phones behind one address replace each other's sessions; four messages are two
  handshakes, a text and a request, in any order of arrival. Of the two texts one is cut within a
  character of two, three or four bytes, by limits on either side.
* *Backends.* An ordinary key and the right Shift, alone and with Ctrl and Shift; two keys at a
  time share their modifiers or not. One fault at any event of any message. The texts hold a small and
  a capital letter, a repeated one, a line end in its forms, control characters, and characters
  within and beyond the first plane, in pieces of three units.
* *Discovery.* Two cards on one subnet, a tunnel, a network of one address, one that is down, one
  without broadcast, and one whose octets stay when its size changes. Three changes are an
  interface going, coming back, and a refusal in between.
* *Tray.* Any answer of a page may come too late. Two copies decide every race for the port, the key and the file; the worlds are those
  that make a difference, one kill at any point. The theorems cover any number of copies.
* *Update.* A final version, a later pre-release and a later final one; one copy of each kind and
  Homebrew's; two threads for a press during the daily look; two faults, which is one more than
  the code survives, and a power cut at any point. The theorems cover any number.
* *Panel.* Each system, with what can change there; two changes are an act and another before
  its consequences have been shown.

Deadlock checking is off where a bound, or the program's own end, brings everything to rest
(`server`, `keys`, `wifi`, `link`, `backends`, `tray`, `update`, `panel`): when the packets, requests,
faults or changes are used up, or all copies have ended, nothing remains to be done. It is on for
`pairing`, `replay_server`, `replay_phone` and `discovery`, where there is always something to do.

### Properties worth knowing

* `PairingsArePaidFor`: phones paired since the start are never more than windows opened and
  codes drawn. It needs `admit_with_token` both to close the window behind every phone and to
  use up the code. `OneCodeOnePhone`, `OnlyTheCodeOnScreen`, `ForgetSticks`.
* `NothingStuck`: an input that will be down when the queue has been emptied is held by a live
  session or is about to be released, in any order of the tasks. The exception it names is the
  stuck key of section 6, and lasts until the next release of the same input.
* `DownAtStopCameTooLate`: after the input thread has stopped, the same of what is still down. A
  release by another task than `run()` may come too late.
* `SessionsOfPairedPhones`: with the exception of phones whose `forget` could not be saved.
* `RecordMatchesKeys`, `NothingDownAtRest`, `VanishedPhoneHoldsNothing`: of keys; the last two
  name the conditions under which modifiers too come up.
* `LiveLinkIsWanted`, `NoSecondConversation`, `OneRetryLoop`, `AttemptsEnd`: no older request
  takes over or goes on, and retrying and connecting come to an end.
* `ReadAsMeant`: whatever the phones put on the network, and the server answers, reads as what was
  meant; a text that is too long for an answer arrives as the longest beginning that fits and ends
  at a character. `AnswerIsNotOld`: a phone that has set the
  clipboard and then asks is not answered with what was there before, although texts and
  requests take different ways to the same thread. `EndedHearsNothing`: an answer that comes late
  is sealed with the keys of a session that is there.
* `NothingStaysDown`: once everything has been released, or a phone's session has ended, nothing
  is down at the system, but for what it did not take the release of. `TextArrives`: a text of which
  the system takes the events arrives whole and in order. `AllowedIsUsed`: a permission given
  while the program runs comes to be used.
* `HeardOnce`, `KeepsTrying`: no subnet is announced to from two addresses, and refusals and
  changes do not end announcing.
* `OneWorker`, `AProgramRemains`, `OnlyPublishedInstalled`, `OthersLeftAlone`, `OnlyForward`,
  `RestartsIntoNew`: of the updater. `AProgramRemains` holds up to the second failing rename, in
  one attempt or in two: what two of them may do is in section 6, and two single failures are
  exempted with it. `RestartsIntoNew` is, on a Mac and on Linux, of the shell that waits for the old process;
  on Windows it names the installer that gives up, and says of all others that the new program comes up.
* `OneIdentity`, `DoneMeansGone`, `AddressOfTheLivingStays`, `QuitEnds`: of copies of the tray.
  `DoneMeansGone`: behind Done there is always a copy that has been told to quit (and, by `QuitEnds`, will end), and
  its page is gone for good if it was not just slow. It does not say that the process has ended.
* `OnePrompt`, `EntryIsWhole`, `KeptCurrent`: of the panel.

### Fairness

* `DesktopServer!FairSpec`: each task finishes what it has begun, the housekeeping interval and
  the clock go on, the input thread applies and stops. These are threads of a running process,
  and the code between an unlock and its sends never waits. Phones and owner are under no obligation. From this
  `SilenceLetsGo`: `MaxPackets` bounds what phones send, so every phone falls silent in the end,
  with fingers down or not.
* `WifiDispatcher!WifiFairSpec`: the main thread shows what it has to show, attempts end (they have
  time limits), callers resume, and each request's retry loop goes on. Giving up is by time and
  may be tried at every turn of the loop, so it is strongly fair: the loop returns to where it
  looks at the clock again and again, and two minutes pass. From this `AttemptsEnd`.
* `Backends!BackendsSpec`: messages go on coming and time passes, so that `DeferredInput` is asked again
  after its pause. From this `AllowedIsUsed`.
* `Discovery!DiscoverySpec`: rounds go on, by the interval of `announce_loop`. From this `KeepsTrying`.
* `Updater!FairSpec`: a program that is quitting goes, the helper that waits for it starts the new
  one, and an installer asks the running one to quit, replaces the program or gives up, and starts the
  new one. Its middle step is strongly fair: a person may start the old program again meanwhile and update
  once more, which starts another installer, but not for ever. The shell waits for thirty seconds at
  most and a program that quits has ended after three, so the model's shell waits until it has. Threads
  that check and install are under no obligation. From this `RestartsIntoNew`.
* `Tray!FairSpec`: each copy that has begun to start or to stop goes on doing so. Starting one, asking it to quit and
  killing it are nobody's obligation. From this `QuitEnds`.
* `Panel!Spec`: the program's loop, tasks, deliveries and writers go on; the person and the system
  are free. From this `KeptCurrent`.

## 5. Proofs

Theorems hold for all values of the constants that satisfy the module's named assumption; no
other assumption is made. The assumptions are evaluated by TLC in the runs of the modules that
declare them.

**`PairingProofs`.** `PairingInv` adds to the properties what they rest on. `GrantsLeft`: phones
paired, plus one for an open window, plus one for a live code, are at most `granted`; a phone
pairs by taking one of the two away, so the sum does not grow, while `PairingsArePaidFor` alone
would not survive that step. `LastCodeOnly` and `LiveCodeUnused`: the code on the screen is the
last one drawn and has paired nobody. `OnlyTheWindowIsLeft`: after `forget` there is no code,
none to come from a half-done `pair`, and the window is shut once a phone has used it. From these
`PaidFor`, `OneCode`, `Forgotten`, `ForgottenButOne`, and, as an action property, `OldCodes`.

**`DesktopServerProofs`.** `Capacity` uses cardinalities of finite sets (`Addrs` is assumed
finite): a full table loses one session for the one that comes. `PairedSessions` is inductive
given typing. `NoStuckKeys` needs `KeysInv`, which adds two facts to `NothingStuck`:
`PressesAreHeld`, that a press not queued yet is noted by a session heard at this very instant,
or was crossed by a `forget` (without it, queueing the press could bring down a key nobody
holds; the instant matters because it keeps the housekeeping from expiring that session or
its holds in between), and `ShutsDownInOrder`. Lemmas `QueuedLast` and `AppliedInOrder` say what queueing
and applying an event do to whether an input ends down; `LettingGoCovers` that whatever leaves the table
is with the task that removed it. `StopLeavesNothing` follows, since a stopped thread has an
empty queue and the table then holds nothing.

**`DesktopProofs`, `PhoneProofs`: replay.** `WindowInv` is typing with `BitmapIsMemory` (or
`WordsAreMemory`), which is inductive. The heart is `UpdateRemembers`, by the cases of `update`:
first packet, jump beyond the window, jump within it, packet behind the newest; on the phone also
a jump beyond one word (`SlideKeepsMemory`, bit by bit). With an exact memory `check` is
`Acceptable` (`CheckIsAcceptable`), so every step is a step of `ReplayGuard` or a stutter:
theorem `Refinement`, for any width.

**`PhoneProofs`: the keyboard.** `HeldInv` strengthens each property to what survives a step. `Faithful`:
the recorded keys are those that are down, and no modifier is recorded with modifiers (a modifier by itself is
pressed with none). `Covered`: whatever is down is recorded, or named by the record of a key, which a
message that names its key's modifiers preserves (`StaysCovered`); this gives
`VanishedIsFree`. `RestInv`: while nothing is lost and no modifier touched under a finger, what is
down is under a finger or a modifier that applies, so that the next release names it; this
gives `RestIsFree`, although one-shot modifiers are used up while other keys stay down. `Pressed`
and `Released` say what the two messages do.

**`PhoneProofs`: the dispatcher.** `WifiInv` adds to typing: `HoldsOwn`, a request or retry that holds a
link holds one of its own request, open while that request is wanted; `OneInv`, one worker at
most is there for the wanted request, none beside a live link, and it is not cancelled; `OpenInv`, the
open sockets of the wanted request are the live link, or the one its worker holds. `LiveIsWanted` and
`OneConversation` need all three: the link that `onEstablished` makes live was in a worker's
hands, and nothing but that the worker was alone says that no other one is open. `Kept`,
`ClosedLinks` and `OpenedLinks` say what closing and opening a socket leave as it was. `OneLoop` is
`OneInv` in cardinalities.

**`UpdaterProofs`.** Versions first, of which `UpdaterAssumption` says only that they are versions, and
finitely many. Sequences of parts compare as their first difference does (`Decides`), from which `SeqOrder`
and `VersionOrder`: later and earlier is a strict and total order, with pre-releases before what they lead to. Of
finitely many versions one is later than all the others (`LatestExists`, by induction over their
number), so that what `newest_for` finds is one release whatever the order of the feed
(`NewestIsLatest`). `UpdaterInv` is typing and: `WorkInv`, where each thread may be in each
state, which makes `OneWorker` inductive; `OfferInv`, what is offered is later, and installable
where it says so; `PlaceInv`, what lies in the three places is fit to be there (the running
version, what is offered, or, for those kinds whose installer does not verify again, a file that was
changed; on Windows it is not the running version only from the replacement to the next start); `ThereInv`, with less than two failed renames a program remains, and a live process has one in place
or is in the middle of a swap. From these `OneAtATime`, `ProgramRemains`, `PublishedOnly`,
`LeftAlone`, and the action property `Forward`; with the order it gives `NeverBack`: whatever version a
computer has run, it never runs an earlier one again.

**`UpdaterProofs`: command lines.** (They stand there because the module is a small one.) `ExecReadBack`: a desktop
finds in an `Exec` line the program and arguments it was written for. `CommandLineReadBack`: so
does Windows in its command line. Both are inductions over the characters of a word and over the words, through readers
that are recursive functions (`ReadIs`, `ReadConcat`). `Gives` says what a text adds to the word being read,
wherever the reader is; for the three layers of Linux it is shown of a single character, put together
for a word (`GivesEach`), and the layers are undone one after the other. On Windows `InQuotes` is the invariant of the
loop of `quote_argument`: what it has written reads as what it was given, but for the backslashes
it has counted and not yet written. `LineRead` puts words in a row. What is asked of the words: of `Exec`, no line break, since
the entry's value is one line; of the program on Windows, which is put in quotes and nothing more, no quote,
which no path has, and no backslash at its end, which no file's has.

**`TrayProofs`.** `TrayInv` is typing and: `KeyInv`, a key that was there before stays and whoever is past
reading it has the one on disk (where files can be linked), which holds through every half of
`atomic_write`; `PageInv`, that the target of an asker that waits, or is done, has been told, and is past its
tray once its page is gone; `FileInv`, what is about
to be removed is one's own address, or one that came just in between. From these
`IdentityIsOne`, `DoneIsGone` and the action property `AddressStays`.

**`DesktopProofs`: the panel.** `PanelInv` is typing with `AskInv`, whoever is about to start the
question has none yet, is the only one who has or is about to, and `working` says so (the flag is
taken and given back at different places of the two callers, so that `OnePrompt` alone is not inductive),
and `EntryInv`, while nobody has opened the neighbour under another's hands, one writer at most has it,
none has lost it, and what is about to take the entry's name is whole. From these `OnlyOnePrompt`
and `WholeEntry`.

**`DesktopProofs`: the backends.** `AllComesUp` is proved from an event up. `CallMade`: whatever the
system takes of the events offered, a key that is down afterwards was down before or is pressed by one
of them, and every later release of it was refused and noted in `lost`. `ClearText`, `ClearCommand`:
the plan of every text and every command, on each system, releases what it presses, in the same message
(`Clear`); the loops that build a plan are recursive functions, about which `RecursionExists` and
an induction over the text are needed. `KeyKeyed`: a key's plan is about
the numbers in `Ends` only (its own and its modifiers'), the same ones for its press and its release,
whatever flags macOS has noted. `BackendsInv`: what is down is in `lost`, or in `Owed`, which is
what the records of the phone's keys and buttons and the queue of releases name; macOS's own notes
likewise, while no fault has kept it from being told (`MacInv`), for which no key of its table may have the
number of a button (`MacNumbers`); and nothing is down before a device is there (`RestInv`).
`NothingStaysDown` alone says nothing of a state in which something is held, so that no step preserves it by itself.

**`DesktopProofs`: a text.** `TextIsWhole` adds to `BackendsInv` that nothing is lost before the first fault
(`TextInv`), so that a text of a phone that holds nothing is taken by a system where nothing is down. What
its events then add to what has been typed is `Types`, and `TypesConcat` puts messages in a row. On Windows
each UTF-16 unit is an event (`UnitsType`). On macOS the loop of `plan_text` keeps, over all characters, that
what has been typed and what is pending make up the beginning of the text, and that what is pending is
whole: an event carries it as it is because it is not longer than the limit and has no lone
surrogate (`MacChar`, `WholeTogether`). On Linux `Leads` also follows the modifiers that are down and the digits
entered: a character of the US layout is a key that prints it and no other (`KeysPrint`, from `UsKeys` and `Evdev`,
which are about the tables), and Ctrl+Shift+U, the digits and Space are read back as the code point because the
digits of a number below 2^24 are at most six and give the number (`DigitsAreNumber`). The three meet in `TypesText`.

**`NetworkProofs`: the codec.** `ClientRoundTrip`, `ServerRoundTrip`, `NowPlayingRoundTrip`: for every
message of `Wire`'s layouts and all values of its fields, decoding what was encoded gives it back, and
`ShortIsEncoded`: only a text too long for sixteen bits is not encoded. They rest on one lemma
for each kind of field (two's complement in two and four bytes, flags, texts), one for a layout of fields
after each other, and `TextRoundTrip`, UTF-8 for every text of Unicode's scalar values.
`Truncated`: `truncate_to_char_boundary` gives the longest beginning that fits.

**`NetworkProofs`: `Link`.** `LinkInv` is typing and: `NetInv`, every datagram of a phone is read as
it was meant, and its number is its own; `AcceptedInv`, an accepted number was sent, and accepted under the keys
it was sealed with; `TaskInv`, a request is answered once and is in the clipboard's queue while its task
waits; `Distinct` and `NotSeen`, a text still on its way is of one datagram, and is in nobody's hands yet; and
`OldInv`, `GetsInv`: wherever in the queue a text stands that a phone has replaced, or while the clipboard
holds it, a write of another text is still to be served before the phone's question (`Followed`).
The last is the argument for `NeverOld`: text and request take different ways to the same thread, and what keeps
the answer new is that the request was sent after the text was accepted, and the queue is served in
order. `EndedIsEnded` and `AsSent` (an action property: what is sent and what is served is read as meant)
follow, the latter by the round trips.

**`NetworkProofs`: `Discovery`.** `DiscoveryInv`: the announcers, however many rounds and
changes ago they were made, target no network from two addresses, the group and the general broadcast
aside, and one that sends to the group has a network of its own besides (`Announcing`); what was announced last is
what they announce. A socket that is refused takes targets away and adds none (`AnnouncersKeep`). The loop
over interfaces that keeps the first address of each subnet is followed by induction over the list. From this `OnePC`.

**`SequenceLemmas`.** What the loops need: induction over numbers and over sequences for a *set* of
which membership is shown (`NatSetInduction`, `SeqSetInduction`, from the well-foundedness of the natural
numbers; the library's induction theorems have an operator for a parameter, and cannot be used), the existence of a
function defined by recursion on a bounded number (`RecursionExists`), `FlattenSeq` one element at
a time, what concatenating, reversing and cutting do to sequences of anything, and sequences of one, two and
three elements, which the provers do not take apart by themselves.

The assumptions on constants: `WireAssumption` (limits below what their length fields hold, as the
source's are, and a mark for an absent text that is no text), `LinkAssumption` (texts
are of Unicode's scalar values, an answer's limit is at most a payload), `DiscoveryAssumption` (no
interface has the multicast group for its broadcast address), `BackendsAssumption` (buttons are the
three there are, texts are of Rust's characters, systems are the three or none, and an event of macOS can carry a
surrogate pair), `UpdaterAssumption` (versions are three numbers and the parts of a pre-release, facts
are such as `detect` can find, what is published is not longer than what is fetched); those of the
other modules say that sets are finite and limits are numbers.

**Only model-checked.** Liveness under fairness (`SilenceLetsGo`, `AttemptsEnd`, `AllowedIsUsed`,
`KeepsTrying`, `QuitEnds`, `RestartsIntoNew`, `KeptCurrent`), which the prover does not cover.
The assertions about operators in `MCLink`, `MCDiscovery` and `MCPanel`, which TLC evaluates; of those of `MCPanel`
the round trips of `Exec` and of Windows' command lines are proved as well, that of the property list is not.

## 6. Where code and words differ

Each of these is a property the model violates; it stands beside the properties that hold, in
the module named. None of them is among the runs of `PROJECT.json`, which are the twelve that pass. Those
with a configuration of their own can be replayed with it (TLC reports the violation); for the others, put
the property's name in the configuration of the module's run.

* `close` leaves the code on the screen good (`pairing.rs:95`); `console.rs:15` says "Stop
  accepting new devices right now." `Pairing!CloseStopsNewPhones`, `MCPairingClose.cfg`.
* A press is noted under the lock and queued after it (`server.rs:553`); `forget` in between
  releases the key before it is pressed, and ends the session that would release it.
  `DesktopServer!ReleasedOnItsBehalf`, `MCServerStuckKey.cfg`.
* A modifier let go of before its key is not in the key's release (`KeyboardSession.kt:172`), the
  server forgets it with the key, and it stays down. `HeldKeys!NothingDownWithoutFingers`,
  `MCHeldKeysRollover.cfg`.
* `withContext(Dispatchers.IO + NonCancellable)` runs the attempt to its end but drops its result
  when the caller was cancelled, and the socket with it (`WifiInputDispatcher.kt:333`; the comment at
  `:331` promises it ends "either live or closed"). `WifiDispatcher!SocketsEndLiveOrClosed`,
  `MCWifiLeak.cfg`.
* `connectTo()` answers at once for the wanted PC when any PC is shown as connected
  (`:326`), and `publish()` can show the old one after a new request (`:492`).
  `WifiDispatcher!ReportedIsEstablished`, `MCWifiRemembered.cfg`.
* Between the two renames of `swap_in()` (`apply.rs:191`) there is no app, and after a power cut no
  later start puts it back; `apply.rs:164` says "so that at no moment is there no app".
  `Updater!AlwaysAnApp`, `MCUpdaterSwap.cfg`.
* When the second rename and the putting back have both failed, the next attempt removes the old
  app, the last complete one (`apply.rs:178`). `AProgramRemains` without its condition on `faults`.
* `--quit` may end, with Done or NotRunning, before the server has let go of its keys and the process has ended
  (`instance.rs:60`, "so that its files are free"). `Tray!FilesAreFree`.
* `--quit` says Done as soon as one of its tries has no answer within `PATIENCE`, from a page that
  lives too (`instance.rs:118`); `:57` says "It said yes and is gone." `Tray!YesAndGone`.
* Windows' installer ignores what came of `--quit` (`telepad.iss:90`), may meet the file of a program that
  has not ended, and gives up with nobody told; neither program runs then. `telepad.iss:77` says that an
  update "ends with the new program running again". `Updater!AlwaysRestarts`, a PROPERTY.
* A copy asked to quit before its icon is up ends without waiting for its server (`app.rs:301`;
  `:456` says "in the right order"). `Tray!StopsInOrder`.
* Without hard links two first starts can end with two identities (`lib.rs:335`; `:300` says one
  writer wins). `OneIdentity` without its condition `world.links`.
* The 0 of the keypad is `VK_MULTIPLY` on Windows (`windows.rs:98`). `Backends!KeypadZeroIsItself`.
* An announcer that was refused once is not tried again while any other works, and an address that comes back
  on a network of another size keeps its old targets (`discovery.rs:201`). `Discovery!OnAllNetworks`.
* An adapter that comes back with the same address is not joined to the group again
  (`discovery.rs:143`). `Discovery!HearsEveryNetwork`.
* The icon can keep a menu that is not current: `refresh_menu()` sends what the loop does not know of
  (`app.rs:406`). `Panel!AlwaysKeptCurrent`.
* Two writers of the entry at login share one neighbour, and one can rename the other's half
  (`autostart/mod.rs:127`). `Panel!EntryIsAlwaysWhole`.
* The note about an attempt for the permission returns when the permission is taken away later
  (`tray/app.rs:392`). `Panel!NoteIsOfAnAttempt`, a PROPERTY, with `MaxChanges = 3` (the
  attempt, the permission given, and taken away).

Met on the way, and only visible as an exception or a step of a model:

* `pair` opens a window and draws a code (`main.rs:343`), and each lets a phone in; `console.rs:39`
  speaks of one phone. `PairingsArePaidFor` counts two.
* A `forget` that cannot save the list returns before it ends the sessions (`server.rs:211`). `unsaved`.
* A release that the housekeeping queues behind `Stop` is lost (`server.rs:332`). `dropped`.
* A second press of a key whose release was lost replaces the record, and with it the modifiers of
  the first (`sessions.rs:44`). `mismatch`.
* `Connecting` stays shown when the caller of an attempt was cancelled. `abandoned`.
* A retry that is no longer wanted can show `Reconnecting` over what a newer request shows
  (`WifiInputDispatcher.kt:523`). The step is in the model.
* A copy that announces its page just between another one's look at the file and its removal
  loses its address. `overlap`.
* A handshake that is repeated by the network replaces the session whose keys the phone uses; only the phone's
  timeout ends that. The step is in `Link`.

## 7. Not modelled

* The Noise handshake and ciphers: libraries. What is used of them is that a packet that was not sent is
  refused, and who gets which keys.
* QR drawing, the rest of an invitation's URL, console parsing, help, logging, the page's HTML and
  the dialog of a fatal error: formatting, covered by unit tests.
* The distance of motion and scrolling, double clicks, creating the virtual devices, helper programs for
  media and locking, and the batching of motion on the phone: they leave nothing down.
* The page's switch for automatic updates: one stored flag.
* Bluetooth (`HidController.kt` and what it uses): the order of its events is decided by callbacks
  of the Android stack, whose promises the repository does not state.
* Gestures and typing: functions of coordinates and texts on one thread, covered by unit tests.
* The app updater: the desktop updater's shape without its swap; Android installs.
* The connection manager's flow of pairing and remembering, but for its cancelling of attempts:
  screens decide its order. Trust and discovery on the phone: each one map on one thread.
* Screens, settings, foreground service: calls of the platform.

## 8. Running

    tlc -workers 2 -config MCPairing.cfg MCPairing
    tlapm DesktopProofs.tla

Each run's module and configuration are in `PROJECT.json`; the longest takes about a minute and a
half on two cores.
