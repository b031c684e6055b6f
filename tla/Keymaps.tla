------------------------------ MODULE Keymaps ------------------------------
(***************************************************************************)
(* The key tables of the three desktop systems, and what a character is    *)
(* typed with.  A key is named by its USB HID usage, as on the wire; each  *)
(* table gives the system's own number for it, and has no entry for a      *)
(* usage it does not translate.                                            *)
(***************************************************************************)
EXTENDS Integers, Sequences, TLC

Laid(first, codes) == [u \in first .. (first + Len(codes) - 1) |-> codes[u - first + 1]]
Span(a, b) == [i \in 1 .. (b - a + 1) |-> a + i - 1]

\* The tables f and g as one: what @@ is, written out, because the provers do not know it.
Joined(f, g) == [u \in DOMAIN f \cup DOMAIN g |-> IF u \in DOMAIN f THEN f[u] ELSE g[u]]

\* Letters, digits, the row of the Enter key, function keys, navigation, keypad, modifiers.
hid_to_evdev ==
    Joined(Laid(4, <<30,48,46,32,18,33,34,35,23,36,37,38,50,49,24,25,16,19,31,20,22,47,17,45,21,44,
              2,3,4,5,6,7,8,9,10,11, 28,1,14,15,57,12,13,26,27,43,43,39,40,41,51,52,53,58,
              59,60,61,62,63,64,65,66,67,68,87,88, 99,70,119,110,102,104,111,107,109,106,105,108,103,
              69,98,55,74,78,96, 79,80,81,75,76,77,71,72,73,82, 83,86,127>>),
    Joined(Laid(104, Span(183, 194)), Laid(224, <<29,42,56,125,97,54,100,126>>)))

hid_to_mac_vk ==
    Joined(Laid(4, <<0,11,8,2,14,3,5,4,34,38,40,37,46,45,31,35,12,15,1,17,32,9,13,7,16,6,
              18,19,20,21,23,22,26,28,25,29, 36,53,51,48,49,27,24,33,30,42,42,41,39,50,43,47,44,57,
              122,120,99,118,96,97,98,100,101,109,103,111, 105,107,113,114,115,116,117,119,121,124,123,125,126,
              71,75,67,78,69,76, 83,84,85,86,87,88,89,91,92,82, 65,10,110>>),
    Joined(Laid(104, <<105,107,113,106,64,79,80,90>>), Laid(224, <<59,56,58,55,62,60,61,54>>)))

\* The keypad's digits are counted up from its 1, so its 0 gets the number after its 9, which is the
\* number of its multiplication key.
hid_to_vk ==
    Laid(4, Span(65, 90) \o Span(49, 57) \o <<48, 13,27,8,9,32,189,187,219,221,220>>)
    @@ Laid(51, <<186,222,192,188,190,191,20>> \o Span(112, 123)
                \o <<44,145,19,45,36,33,46,35,34,39,37,40,38, 144,111,106,109,107,13>> \o Span(97, 106) \o <<110>>)
    @@ (101 :> 93) @@ Laid(224, <<162,160,164,91,163,161,165,92>>)

\* The buttons of the mouse, left, right and middle, under the numbers Linux has for them.
Buttons == 272 .. 274

\* What the media keys and the volume keys are on the three systems; those of macOS are numbers of their own,
\* written here above all other keys.
EvdevMedia == [PlayPause |-> 164, Next |-> 163, Prev |-> 165, Stop |-> 166]
EvdevVolume == [Up |-> 115, Down |-> 114, Mute |-> 113]
MacVolume == [Up |-> 1000, Down |-> 1001, Mute |-> 1007]
VkMedia == [PlayPause |-> 179, Next |-> 176, Prev |-> 177, Stop |-> 178]
VkVolume == [Up |-> 175, Down |-> 174, Mute |-> 173]

\* The keys the virtual keyboard tells the kernel it has; the kernel drops events of any other.
SupportedBelow(limit) ==
    {hid_to_evdev[u] : u \in {v \in DOMAIN hid_to_evdev : v < limit}} \cup (113 .. 115) \cup (163 .. 166)

all_supported_keys == SupportedBelow(256)

\* macOS events carry the modifiers as a mask, in which left and right are the same.
modifier_flag(vk) ==
    CASE vk \in {56, 60} -> {"shift"}
      [] vk \in {59, 62} -> {"control"}
      [] vk \in {58, 61} -> {"alternate"}
      [] vk \in {55, 54} -> {"command"}
      [] OTHER -> {}

\* Which key a modifier of the phone is on macOS: as on a PC's keyboard, or Ctrl and Win exchanged.
Policies == {"Native", "CtrlAsCommand"}
policy_apply(policy, u) ==
    IF policy = "CtrlAsCommand" /\ u \in {224, 227, 228, 231}
      THEN (224 :> 227 @@ 227 :> 224 @@ 228 :> 231 @@ 231 :> 228)[u] ELSE u

---------------------------------------------------------------------------
\* Characters, by code point, in the order of ASCII, and the key of a US keyboard that types each.
us_keys ==
    Joined(Laid(32, <<44,30,52,32,33,34,36,52,38,39,37,46,54,45,55,56, 39,30,31,32,33,34,35,36,37,38,
              51,51,54,46,55,56,31, 4,5,6,7,8,9,10,11,12,13,14,15,16,17,18,19,20,21,22,23,24,25,26,27,28,29,
              47,49,48,35,45,53, 4,5,6,7,8,9,10,11,12,13,14,15,16,17,18,19,20,21,22,23,24,25,26,27,28,29,
              47,49,48,53>>),
    Joined(Laid(8, <<42,43,40>>), Laid(13, <<40>>)))
\* Those of them that take Shift.
Shifted == (33 .. 38) \cup (40 .. 43) \cup {58, 60} \cup (62 .. 90) \cup {94, 95} \cup (123 .. 126)
ascii_to_hid == [c \in DOMAIN us_keys |-> [usage |-> us_keys[c], shift |-> c \in Shifted]]

\* What a text is made of: the code points but for the surrogates.
Characters == {c \in Nat : c < 55296 \/ (c > 57343 /\ c < 1114112)}

\* A code point in UTF-16: one unit, or a surrogate pair.
utf16(c) == IF c < 65536 THEN <<c>>
            ELSE <<55296 + (c - 65536) \div 1024, 56320 + ((c - 65536) % 1024)>>
IsHighSurrogate(u) == u > 55295 /\ u < 56320
IsLowSurrogate(u) == u > 56319 /\ u < 57344
=============================================================================
