------------------------------ MODULE Backends ------------------------------
(***************************************************************************)
(* What a phone's messages do to the computer they are meant for: the      *)
(* input backends of Linux, macOS and Windows behind the input worker, one *)
(* of them chosen in BackendsInit, and the keys and buttons that are down  *)
(* at the operating system as a result.                                    *)
(*                                                                         *)
(* A backend plans the events of a message and hands them over.  The       *)
(* system may take all of them, or, up to MaxFaults times, only some of    *)
(* the first.  Windows takes none while another desktop has the input,     *)
(* until the thread has attached itself to that one.  Linux may not have   *)
(* allowed a virtual keyboard yet; DeferredInput then tries again.         *)
(*                                                                         *)
(* The messages are those of a phone that releases what it pressed, with   *)
(* the modifiers it was pressed with, or that vanishes, when the server    *)
(* releases it for the phone; other orders are HeldKeys' subject.          *)
(***************************************************************************)
EXTENDS Keymaps, FiniteSets, SequencesExt

CONSTANTS
    Systems,        \* records [os, policy, entry, desktop]
    Usages,         \* keys the phone presses
    KeyMods,        \* sets of modifiers it presses them with
    UsedButtons,    \* buttons it presses
    MaxHeld,        \* bound: keys and buttons it holds at a time
    RestTexts,      \* texts it sends while it holds nothing
    HeldTexts,      \* texts it sends while it holds something
    MAX_UNICODE_UNITS_PER_EVENT, RETRY_AFTER,
    MaxFaults       \* bound: times the system takes fewer events than offered

ASSUME BackendsAssumption ==
    /\ UsedButtons \subseteq Buttons
    /\ RestTexts \cup HeldTexts \subseteq Seq(Characters)
    /\ \A s \in Systems : s.os \in {"Linux", "macOS", "Windows", "none"}
    /\ MAX_UNICODE_UNITS_PER_EVENT \in Nat /\ MAX_UNICODE_UNITS_PER_EVENT >= 2     \* a surrogate pair

VARIABLES
    system,         \* the system the server runs on
    keys, buttons,  \* HeldInputs: <<usage, mods>> in the order pressed, and the buttons
    queue,          \* releases the server has queued for a phone that is gone: <<kind, usage or button, mods>>
    input,          \* DeferredInput: is it ready, is input allowed, time since the last try
    attached,       \* Windows: the input thread is attached to the desktop that has the input
    mac,            \* MacInput: held flags and buttons
    down, lost,     \* the system: keys and buttons down, and those whose release it did not take
    last,           \* the last text, if all of it was taken at rest: what was sent, what arrived
    faults

pcvars == <<down, lost, faults>>
backends_vars == <<system, keys, buttons, queue, input, attached, mac, down, lost, last, faults>>

NoText == [sent |-> <<>>, arrived |-> <<>>]

BackendsInit ==
    /\ system \in Systems
    /\ keys = <<>> /\ buttons = {} /\ queue = <<>>
    /\ input \in [ready : {system.os # "Linux"}, allowed : {system.os # "Linux"}, since : {0}]
                 \cup [ready : {TRUE}, allowed : {TRUE}, since : {0}]
    /\ attached = TRUE
    /\ mac = [held |-> {}, buttons |-> {}]
    /\ down = {} /\ lost = {} /\ last = NoText /\ faults = 0

---------------------------------------------------------------------------
(* The events of a message, in the order they are handed over: a key going *)
(* down or up, with the flags macOS attaches and the UTF-16 units it       *)
(* carries instead of its own character.                                   *)
Event(key, isDown, flags, units) == [key |-> key, isDown |-> isDown, flags |-> flags, units |-> units]
key_event(code, isDown) == Event(code, isDown, {}, <<>>)
Downs(codes) == [i \in DOMAIN codes |-> key_event(codes[i], TRUE)]
Ups(codes) == [i \in DOMAIN codes |-> key_event(codes[i], FALSE)]
\* The keys of a system for the modifiers that it has a key for, in the order of their bits.
modifier_codes(table, policy, mods) ==
    LET usage(bit) == policy_apply(policy, 223 + bit)
        codes[bit \in 0 .. 8] ==
            IF bit = 0 THEN <<>>
            ELSE IF 223 + bit \in mods /\ usage(bit) \in DOMAIN table THEN Append(codes[bit - 1], table[usage(bit)])
            ELSE codes[bit - 1]
    IN codes[8]

\* A press or a release wrapped in its modifiers, on Linux and on Windows.
key_events(table, usage, mods, pressed) ==
    LET codes == modifier_codes(table, "Native", mods)
    IN IF usage \notin DOMAIN table THEN <<>>
       ELSE IF pressed THEN Downs(codes) \o <<key_event(table[usage], TRUE)>>
       ELSE <<key_event(table[usage], FALSE)>> \o Ups(Reverse(codes))

chord_events(codes) == Downs(codes) \o Ups(Reverse(codes))
tap_codes(codes) == [i \in 1 .. 2 * Len(codes) |-> key_event(codes[(i + 1) \div 2], i % 2 = 1)]

\* The same on macOS, where every event carries the flags of the modifiers that count as held.
FlagsOf(vks) == UNION {modifier_flag(vks[i]) : i \in DOMAIN vks}
plan_key(usage, mods, pressed, held) ==
    LET own == policy_apply(system.policy, usage)
        ms == modifier_codes(hid_to_mac_vk, system.policy, mods)
        back == Reverse(ms)
        vk == hid_to_mac_vk[own]
        all == held \cup FlagsOf(ms)
    IN IF own \notin DOMAIN hid_to_mac_vk THEN <<>>
       ELSE IF pressed
       THEN [i \in DOMAIN ms |-> Event(ms[i], TRUE, held \cup FlagsOf(SubSeq(ms, 1, i)), <<>>)]
            \o <<Event(vk, TRUE, all \cup modifier_flag(vk), <<>>)>>
       ELSE <<Event(vk, FALSE, all \ modifier_flag(vk), <<>>)>>
            \o [i \in DOMAIN back |-> Event(back[i], FALSE, all \ FlagsOf(SubSeq(back, 1, i)), <<>>)]

new_held(usage, pressed, held) ==
    LET own == policy_apply(system.policy, usage)
        flag == IF own \in DOMAIN hid_to_mac_vk THEN modifier_flag(hid_to_mac_vk[own]) ELSE {}
    IN IF pressed THEN held \cup flag ELSE held \ flag

plan_chord(vks) ==
    [i \in DOMAIN vks |-> Event(vks[i], TRUE, FlagsOf(SubSeq(vks, 1, i)), <<>>)]
    \o [i \in DOMAIN vks |-> LET j == Len(vks) + 1 - i
                             IN Event(vks[j], FALSE, FlagsOf(SubSeq(vks, 1, j)), <<>>)]

---------------------------------------------------------------------------
\* Text on Linux: keys of a US keyboard, or the code point in hexadecimal after Ctrl+Shift+U.
SixteenTo == <<1, 16, 256, 4096, 65536, 1048576>>
HexDigits(n) == LET w == Max({1} \cup {i \in DOMAIN SixteenTo : SixteenTo[i] =< n})
                IN [i \in 1 .. w |-> (n \div SixteenTo[w + 1 - i]) % 16]
DigitKey(d) == hid_to_evdev[ascii_to_hid[IF d < 10 THEN 48 + d ELSE 87 + d].usage]
is_layout_dependent(c) == c \notin {32, 10, 13, 9, 8}
AsKey(entry, c) == c \in DOMAIN ascii_to_hid /\ (entry = "Keys" \/ ~is_layout_dependent(c))
step_events(entry, c) ==
    IF AsKey(entry, c)
      THEN LET tap == tap_codes(<<hid_to_evdev[ascii_to_hid[c].usage]>>)
           IN IF ascii_to_hid[c].shift THEN Downs(<<42>>) \o tap \o Ups(<<42>>) ELSE tap
      ELSE chord_events(<<29, 42, 22>>)
           \o tap_codes([i \in DOMAIN HexDigits(c) |-> DigitKey(HexDigits(c)[i])]) \o tap_codes(<<57>>)
LinuxText(entry, text) ==
    LET events[i \in 0 .. Len(text)] ==
            IF i = 0 THEN <<>>
            ELSE IF text[i] \in DOMAIN ascii_to_hid \/ text[i] > 127
              THEN events[i - 1] \o step_events(entry, text[i]) ELSE events[i - 1]
    IN events[Len(text)]

\* Text on macOS: Return, Tab and Delete as keys, everything else in events of a few units each.
IsControl(c) == c < 32 \/ c \in 127 .. 159
MacKey(c) == CASE c \in {10, 13} -> <<36>> [] c = 9 -> <<48>> [] c = 8 -> <<51>> [] OTHER -> <<>>
Carrier(units) == <<Event(0, TRUE, {}, units), Event(0, FALSE, {}, units)>>
Flushed(plan) == IF plan.chunk = <<>> THEN plan.events ELSE plan.events \o Carrier(plan.chunk)
FitsAnyway(chunk, units) == Len(chunk) < MAX_UNICODE_UNITS_PER_EVENT
Fits(chunk, units) == Len(chunk) + Len(units) =< MAX_UNICODE_UNITS_PER_EVENT
PlanChar(plan, c) ==
    LET Planned(events, chunk) == [events |-> events, chunk |-> chunk, was_cr |-> c = 13]
    IN IF (c = 10 /\ plan.was_cr) \/ (IsControl(c) /\ MacKey(c) = <<>>) THEN Planned(plan.events, plan.chunk)
       ELSE IF MacKey(c) # <<>> THEN Planned(Flushed(plan) \o chord_events(MacKey(c)), <<>>)
       ELSE IF Fits(plan.chunk, utf16(c)) THEN Planned(plan.events, plan.chunk \o utf16(c))
       ELSE Planned(Flushed(plan), utf16(c))
plan_text(text) ==
    LET plan[i \in 0 .. Len(text)] ==
            IF i = 0 THEN [events |-> <<>>, chunk |-> <<>>, was_cr |-> FALSE] ELSE PlanChar(plan[i - 1], text[i])
    IN Flushed(plan[Len(text)])

\* Text on Windows: every unit on its own, all in one call.
Units(text) == FlattenSeq([i \in DOMAIN text |-> utf16(text[i])])
WindowsText(text) ==
    [i \in 1 .. 2 * Len(Units(text)) |-> Event(0, i % 2 = 1, {}, <<Units(text)[(i + 1) \div 2]>>)]

Text == [s \in Systems |-> [text \in RestTexts \cup HeldTexts |->
           CASE s.os = "Linux" -> LinuxText(s.entry, text)
             [] s.os = "macOS" -> plan_text(text)
             [] s.os = "Windows" -> WindowsText(text)
             [] OTHER -> <<>>]]

---------------------------------------------------------------------------
\* Media keys, volume, launching and locking: a chord each, or a program to run, which holds no keys.
Commands == [media : DOMAIN EvdevMedia] \cup [volume : DOMAIN EvdevVolume]
            \cup [launch : {"ShowDesktop", "TaskView", "Browser", "FileManager", "TaskManager", "Screenshot"}]
            \cup [lock : {TRUE}]
Is(kind, command) == DOMAIN command = {kind}

LinuxCommand(c) ==
    IF Is("media", c) THEN tap_codes(<<EvdevMedia[c.media]>>)
    ELSE IF Is("volume", c) THEN tap_codes(<<EvdevVolume[c.volume]>>)
    ELSE IF Is("lock", c) THEN <<>>
    ELSE CASE c.launch = "ShowDesktop" -> chord_events(<<125, 32>>)
           [] c.launch = "TaskView" -> chord_events(IF system.desktop = "Kde" THEN <<125, 17>> ELSE <<125>>)
           [] c.launch = "Screenshot" -> chord_events(<<99>>)
           [] OTHER -> <<>>
MacCommand(c) ==
    IF Is("media", c) THEN CASE c.media = "PlayPause" -> tap_codes(<<1016>>) [] c.media = "Next" -> tap_codes(<<1017>>)
                             [] c.media = "Prev" -> tap_codes(<<1018>>) [] OTHER -> <<>>
    ELSE IF Is("volume", c) THEN tap_codes(<<MacVolume[c.volume]>>)
    ELSE IF Is("lock", c) THEN plan_chord(<<59, 55, 12>>)
    ELSE CASE c.launch = "ShowDesktop" -> plan_chord(<<103>>)
           [] c.launch = "Screenshot" -> plan_chord(<<55, 56, 23>>)
           [] OTHER -> <<>>
WindowsCommand(c) ==
    IF Is("media", c) THEN chord_events(<<VkMedia[c.media]>>)
    ELSE IF Is("volume", c) THEN chord_events(<<VkVolume[c.volume]>>)
    ELSE IF Is("lock", c) THEN <<>>
    ELSE chord_events(CASE c.launch = "ShowDesktop" -> <<91, 68>> [] c.launch = "TaskView" -> <<91, 9>>
                        [] c.launch = "FileManager" -> <<91, 69>> [] c.launch = "TaskManager" -> <<162, 160, 27>>
                        [] c.launch = "Screenshot" -> <<91, 160, 83>> [] OTHER -> <<>>)
CommandEvents(c) == CASE system.os = "Linux" -> LinuxCommand(c)
                      [] system.os = "macOS" -> MacCommand(c)
                      [] system.os = "Windows" -> WindowsCommand(c)
                      [] OTHER -> <<>>
KeyEvents(usage, mods, pressed) ==
    CASE system.os = "Linux" -> key_events(hid_to_evdev, usage, mods, pressed)
      [] system.os = "macOS" -> plan_key(usage, mods, pressed, mac.held)
      [] system.os = "Windows" -> key_events(hid_to_vk, usage, mods, pressed)
      [] OTHER -> <<>>
button_events(button, pressed) == IF system.os = "none" THEN <<>> ELSE <<key_event(button, pressed)>>

---------------------------------------------------------------------------
(* The system and the application in front: what is down, and what text    *)
(* arrives.  On Linux keys type what a US keyboard prints on them, or the  *)
(* digits of a code point between Ctrl+Shift+U and Space.                  *)
NotEntering == <<-1>>
US == [k \in {<<hid_to_evdev[ascii_to_hid[c].usage], ascii_to_hid[c].shift>> : c \in DOMAIN ascii_to_hid} |->
         CHOOSE c \in DOMAIN ascii_to_hid :
            k = <<hid_to_evdev[ascii_to_hid[c].usage], ascii_to_hid[c].shift>> /\ c # 13]
Number(digits) == LET n[i \in 0 .. Len(digits)] == IF i = 0 THEN 0 ELSE 16 * n[i - 1] + digits[i]
                  IN n[Len(digits)]
Hex(c) == IF c \in 48 .. 57 THEN c - 48 ELSE IF c \in 97 .. 102 THEN c - 87 ELSE 16
PressedOnLinux(pc, k) ==
    LET shift == pc.down \cap {42, 54} # {}
        control == pc.down \cap {29, 97} # {}
        c == IF <<k, shift>> \in DOMAIN US THEN US[<<k, shift>>] ELSE 0
    IN IF control THEN IF shift /\ k = 22 THEN [pc EXCEPT !.hex = <<>>] ELSE pc
       ELSE IF c = 0 THEN pc
       ELSE IF pc.hex = NotEntering THEN [pc EXCEPT !.text = Append(@, c)]
       ELSE IF Hex(c) < 16 THEN [pc EXCEPT !.hex = Append(@, Hex(c))]
       ELSE [down |-> pc.down, text |-> Append(pc.text, Number(pc.hex)), hex |-> NotEntering]

\* macOS looks at the first units of an event only; half of a surrogate pair is no character.
Whole(units) == \A i \in DOMAIN units :
    /\ IsHighSurrogate(units[i]) => i < Len(units) /\ IsLowSurrogate(units[i + 1])
    /\ IsLowSurrogate(units[i]) => i > 1 /\ IsHighSurrogate(units[i - 1])
Carried(units) == LET taken == SubSeq(units, 1, Min({Len(units), MAX_UNICODE_UNITS_PER_EVENT}))
                  IN IF Whole(taken) THEN taken ELSE <<65533>>
PressedOnMac(pc, e) ==
    IF e.units # <<>> THEN [pc EXCEPT !.text = @ \o Carried(e.units)]
    ELSE IF e.key \in {36, 48, 51} /\ e.flags = {}
      THEN [pc EXCEPT !.text = Append(@, CASE e.key = 36 -> 10 [] e.key = 48 -> 9 [] OTHER -> 8)]
    ELSE pc

Feels(pc, e) ==
    IF system.os = "Linux" /\ e.key \notin all_supported_keys \cup Buttons THEN pc
    ELSE LET felt == IF ~e.isDown THEN pc
                     ELSE CASE system.os = "Linux" -> PressedOnLinux(pc, e.key)
                            [] system.os = "macOS" -> PressedOnMac(pc, e)
                            [] OTHER -> [pc EXCEPT !.text = @ \o e.units]
         IN [felt EXCEPT !.down = IF e.isDown THEN @ \cup {e.key} ELSE @ \ {e.key}]

Taken(events) ==
    LET pc[i \in 0 .. Len(events)] ==
            IF i = 0 THEN [down |-> down, text |-> <<>>, hex |-> NotEntering] ELSE Feels(pc[i - 1], events[i])
    IN pc[Len(events)]

\* How many events are taken of those offered at once, and whether it is a fault that it is not all.
emit(count) == {[n |-> count, fault |-> FALSE]}
               \cup [n : IF faults < MaxFaults THEN 0 .. (count - 1) ELSE {}, fault : {TRUE}]
SendInput(count) == IF attached THEN emit(count) ELSE {[n |-> 0, fault |-> FALSE]}
SendOnce(count) == IF system.os = "Windows" THEN SendInput(count) ELSE emit(count)
send_inputs(count) ==
    IF system.os # "Windows" THEN emit(count)
    ELSE UNION {IF sent.n = 0 /\ count > 0 THEN emit(count) ELSE {sent} : sent \in SendInput(count)}

---------------------------------------------------------------------------
\* DeferredInput::backend: the backend, tried for again if the last try is long enough ago.
BackendStamping ==
    IF input.ready THEN input
    ELSE [input EXCEPT !.since = 0, !.ready = input.since >= RETRY_AFTER /\ input.allowed]
backend ==
    IF input.ready \/ input.since < RETRY_AFTER THEN input
    ELSE [ready |-> input.allowed, allowed |-> input.allowed, since |-> 0]

Held == keys # <<>> \/ buttons # {}

\* What can come of events handed over: `after' is what the backend notes about itself when all were taken.
Outcome(events, after, text, sent) ==
    LET pc == Taken(SubSeq(events, 1, sent.n))
        Ending(i) == ~events[i].isDown
    IN [down |-> pc.down,
        lost |-> (lost \ {events[i].key : i \in 1 .. sent.n})
                 \cup (IF sent.fault THEN {events[i].key : i \in {j \in (sent.n + 1) .. Len(events) : Ending(j)}} ELSE {}),
        last |-> IF text # <<>> /\ ~Held /\ faults = 0 /\ ~sent.fault THEN [sent |-> text, arrived |-> pc.text] ELSE NoText,
        mac |-> IF sent.n = Len(events) THEN after ELSE mac,
        attached |-> attached \/ events # <<>>,
        faults |-> faults + (IF sent.fault THEN 1 ELSE 0)]
Results(events, after, text) == {Outcome(events, after, text, sent) : sent \in send_inputs(Len(events))}

\* A call on the backend.
Inject(events, after, text) ==
    /\ input' = backend
    /\ IF ~backend.ready
         THEN last' = NoText /\ UNCHANGED <<attached, mac, pcvars>>
         ELSE \E offered \in {events} : \E o \in Results(offered, after, text) :
              /\ down' = o.down /\ lost' = o.lost /\ last' = o.last
              /\ mac' = o.mac /\ attached' = o.attached /\ faults' = o.faults

InjectKey(usage, mods, pressed) ==
    Inject(KeyEvents(usage, mods, pressed),
           IF system.os = "macOS" THEN [mac EXCEPT !.held = new_held(usage, pressed, @)] ELSE mac, <<>>)

InjectButton(button, pressed) ==
    Inject(button_events(button, pressed),
           IF system.os # "macOS" THEN mac
           ELSE [mac EXCEPT !.buttons = IF pressed THEN @ \cup {button} ELSE @ \ {button}], <<>>)

---------------------------------------------------------------------------
\* The messages of the phone; the server notes what is held before it queues them.
Fresh == queue = <<>> /\ Len(keys) + Cardinality(buttons) < MaxHeld

KeyPress(usage, mods) ==
    /\ Fresh /\ \A i \in DOMAIN keys : keys[i][1] # usage
    /\ keys' = Append(keys, <<usage, mods>>)
    /\ InjectKey(usage, mods, TRUE)
    /\ UNCHANGED <<system, buttons, queue>>

KeyRelease(i) ==
    /\ queue = <<>>
    /\ keys' = RemoveAt(keys, i)
    /\ InjectKey(keys[i][1], keys[i][2], FALSE)
    /\ UNCHANGED <<system, buttons, queue>>

MouseButton(button, pressed) ==
    /\ IF pressed THEN Fresh /\ button \notin buttons ELSE queue = <<>> /\ button \in buttons
    /\ buttons' = IF pressed THEN buttons \cup {button} ELSE buttons \ {button}
    /\ InjectButton(button, pressed)
    /\ UNCHANGED <<system, keys, queue>>

TextInput(text) ==
    /\ queue = <<>> /\ text \in IF Held THEN HeldTexts ELSE RestTexts
    /\ Inject(Text[system][text], mac, text)
    /\ UNCHANGED <<system, keys, buttons, queue>>

Command(command) ==
    /\ queue = <<>>
    /\ Inject(CommandEvents(command), mac, <<>>)
    /\ UNCHANGED <<system, keys, buttons, queue>>

\* Motion and scrolling hold nothing, but they too are an event: here, of no key.
MouseMove ==
    /\ queue = <<>>
    /\ Inject(<<key_event(-1, FALSE)>>, mac, <<>>)
    /\ UNCHANGED <<system, keys, buttons, queue>>

\* The phone is gone: everything it holds is released for it, the newest key first.
ButtonRelease(b) == IF b \in buttons THEN <<<<"button", b, {}>>>> ELSE <<>>
Vanish ==
    /\ queue = <<>> /\ Held
    /\ queue' = [i \in DOMAIN keys |-> <<"key", Reverse(keys)[i][1], Reverse(keys)[i][2]>>]
                \o (ButtonRelease(272) \o (ButtonRelease(273) \o ButtonRelease(274)))
    /\ keys' = <<>> /\ buttons' = {}
    /\ UNCHANGED <<system, input, attached, mac, pcvars, last>>

Released ==
    /\ queue # <<>>
    /\ queue' = Tail(queue)
    /\ IF Head(queue)[1] = "button" THEN InjectButton(Head(queue)[2], FALSE)
       ELSE InjectKey(Head(queue)[2], Head(queue)[3], FALSE)
    /\ UNCHANGED <<system, keys, buttons>>

\* Around them: time, the person who allows input, another desktop that takes the input.
Tick ==
    /\ input' = [input EXCEPT !.since = IF input.ready THEN @ ELSE Min({@ + 1, RETRY_AFTER})]
    /\ UNCHANGED <<system, keys, buttons, queue, attached, mac, pcvars, last>>

Allow ==
    /\ ~input.allowed
    /\ input' = [input EXCEPT !.allowed = TRUE]
    /\ UNCHANGED <<system, keys, buttons, queue, attached, mac, pcvars, last>>

DesktopChanges ==
    /\ system.os = "Windows" /\ attached
    /\ attached' = FALSE
    /\ UNCHANGED <<system, keys, buttons, queue, input, mac, pcvars, last>>

Message ==
    \/ \E u \in Usages, m \in KeyMods : KeyPress(u, m)
    \/ \E i \in DOMAIN keys : KeyRelease(i)
    \/ \E b \in UsedButtons, p \in BOOLEAN : MouseButton(b, p)
    \/ \E t \in RestTexts \cup HeldTexts : TextInput(t)
    \/ \E c \in Commands : Command(c)
    \/ MouseMove
    \/ Released

BackendsNext == Message \/ Vanish \/ Tick \/ Allow \/ DesktopChanges
BackendsFairness == WF_backends_vars(Message) /\ WF_backends_vars(Tick)
BackendsSpec == BackendsInit /\ [][BackendsNext]_backends_vars /\ BackendsFairness

---------------------------------------------------------------------------
\* When the phone holds nothing and everything queued for it has been released, nothing is down on any of
\* the systems, and the macOS backend believes so too, but for what the system did not take the release of.
NothingStaysDown ==
    ~Held /\ queue = <<>> =>
        /\ down \subseteq lost
        /\ system.os = "macOS" => mac.buttons \subseteq lost /\ (faults = 0 => mac.held = {})

\* A text sent while nothing is held arrives whole and in order: on Linux but for control characters that
\* have no key, on macOS but for those and with one Return for a CR LF, on Windows unit for unit.
Meant(text) ==
    LET at(i) == IF system.os # "Windows" /\ text[i] = 13 THEN <<10>>
                 ELSE IF system.os = "Linux" THEN IF text[i] \in DOMAIN ascii_to_hid \/ text[i] > 127 THEN <<text[i]>> ELSE <<>>
                 ELSE IF system.os = "Windows" THEN utf16(text[i])
                 ELSE IF (IsControl(text[i]) /\ text[i] \notin {8, 9, 10}) \/ (text[i] = 10 /\ i > 1 /\ text[i - 1] = 13) THEN <<>>
                 ELSE utf16(text[i])
    IN FlattenSeq([i \in DOMAIN text |-> at(i)])
TextArrives == last.sent # <<>> /\ system.os # "none" => last.arrived = Meant(last.sent)

\* Once the person has allowed input, a phone that goes on being used controls the computer, with no restart.
AllowedIsUsed == input.allowed ~> input.ready

\* Not so: two keys of the keyboard are one only where they print the same.  The 0 of the keypad is its * on Windows.
KeypadZeroIsItself == \A u \in DOMAIN hid_to_vk : u # 98 => hid_to_vk[u] # hid_to_vk[98]
=============================================================================
