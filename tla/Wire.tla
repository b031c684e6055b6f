------------------------------- MODULE Wire -------------------------------
(***************************************************************************)
(* The messages of Telepad's protocol as bytes.  A message is a type and   *)
(* the values of its fields; the value of an enumeration, or of a flag, is *)
(* its number on the wire, a text a sequence of code points.  What cannot  *)
(* be encoded or decoded is Refused, whatever the reason given.            *)
(*                                                                         *)
(* Numbers are little-endian.  Those in use here lie within 2^23 of zero,  *)
(* so a byte beyond the third repeats the sign.                            *)
(***************************************************************************)
EXTENDS Integers, Sequences, FiniteSets, SequencesExt

CONSTANTS
    MAX_PAYLOAD,    \* bytes of a text in a message: u16::MAX
    MAX_NAME,       \* bytes of a title, an artist, an album or a player: 255
    Absent          \* no value

ASSUME WireAssumption ==
    /\ MAX_PAYLOAD \in Nat /\ MAX_PAYLOAD < 65536
    /\ MAX_NAME \in Nat /\ MAX_NAME < 256
    /\ Absent \notin Int /\ Absent \notin Seq(Int)

WIRE_HANDSHAKE_INIT == 192
WIRE_HANDSHAKE_RESP == 193
WIRE_TRANSPORT == 194
WIRE_DISCOVERY_PROBE == 195
WIRE_DISCOVERY_REPLY == 196
WIRE_PAIRING_INTRO_REQ == 197
WIRE_PAIRING_INTRO_RESP == 198
WIRE_PAIRING_REJECTED == 199

Refused == [type |-> "Refused", args |-> <<>>]

Little(v, n) ==
    LET low == <<v % 256, (v \div 256) % 256, (v \div 65536) % 256>>
    IN [i \in 1 .. n |-> IF i =< 3 THEN low[i] ELSE IF v < 0 THEN 255 ELSE 0]
Number(b, signed) ==
    LET k == Min({3, Len(b)})
        n == b[1] + (IF k > 1 THEN 256 * b[2] ELSE 0) + (IF k > 2 THEN 65536 * b[3] ELSE 0)
    IN IF signed /\ b[Len(b)] >= 128 THEN n - <<256, 65536, 16777216>>[k] ELSE n

---------------------------------------------------------------------------
\* UTF-8, and back; not every string of bytes is a text.
Scalar(c) == c \in Nat /\ c < 1114112 /\ (c < 55296 \/ c > 57343)
IsText(t) == t \in Seq(Int) /\ \A i \in DOMAIN t : Scalar(t[i])
more(x) == 128 + (x % 64)
utf8(c) == IF c < 128 THEN <<c>>
           ELSE IF c < 2048 THEN <<192 + c \div 64, more(c)>>
           ELSE IF c < 65536 THEN <<224 + c \div 4096, more(c \div 64), more(c)>>
           ELSE <<240 + c \div 262144, more(c \div 4096), more(c \div 64), more(c)>>
as_bytes(text) == FlattenSeq([i \in DOMAIN text |-> utf8(text[i])])
CodePoint(b) == CASE Len(b) = 1 -> b[1]
                  [] Len(b) = 2 -> (b[1] - 192) * 64 + b[2] - 128
                  [] Len(b) = 3 -> (b[1] - 224) * 4096 + (b[2] - 128) * 64 + b[3] - 128
                  [] Len(b) = 4 -> (b[1] - 240) * 262144 + (b[2] - 128) * 4096 + (b[3] - 128) * 64 + b[4] - 128
                  [] OTHER -> -1
\* What has been read after all bytes: the text so far, and the bytes of a character that has begun.
IsChar(r) == Scalar(CodePoint(r)) /\ utf8(CodePoint(r)) = r
Take(state, x) ==
    LET r == Append(state.rest, x)
    IN IF IsChar(r) THEN [text |-> Append(state.text, CodePoint(r)), rest |-> <<>>]
       ELSE [text |-> state.text, rest |-> r]
taken(b) ==
    LET after[i \in 0 .. Len(b)] == IF i = 0 THEN [text |-> <<>>, rest |-> <<>>] ELSE Take(after[i - 1], b[i])
    IN after[Len(b)]
from_utf8(b) == IF taken(b).rest = <<>> THEN taken(b).text ELSE Absent

\* The longest beginning of a text that takes at most max bytes, cut where the text is cut by bytes and the
\* end then moved back to the start of a character.
ClipMidway(text, max) ==
    LET fits == {k \in 0 .. Len(text) : Len(as_bytes(SubSeq(text, 1, k))) =< max + 1}
    IN SubSeq(text, 1, CHOOSE k \in fits : \A j \in fits : j =< k)
truncate_to_char_boundary(text, max) ==
    LET fits == {k \in 0 .. Len(text) : Len(as_bytes(SubSeq(text, 1, k))) =< max}
    IN SubSeq(text, 1, CHOOSE k \in fits : \A j \in fits : j =< k)

---------------------------------------------------------------------------
(* The layout of a message: its tag and the kinds of its fields.  A kind   *)
(* has a size, but for a text, which comes last and after its length.      *)
Enumerated == [button |-> 3, media |-> 4, volume |-> 3, action |-> 6]
Size(kind) == IF kind \in {"i16", "u16", "text"} THEN 2 ELSE 1

ClientLayout ==
    [MouseMove |-> <<1, <<"i16", "i16">> >>, MouseButton |-> <<2, <<"button", "bool">> >>, Scroll |-> <<3, <<"i16">> >>,
     KeyPress |-> <<4, <<"u16", "u8">> >>, KeyRelease |-> <<5, <<"u16", "u8">> >>, TextInput |-> <<6, <<"text">> >>,
     MediaCmd |-> <<7, <<"media">> >>, VolumeCmd |-> <<8, <<"volume">> >>, LockScreen |-> <<9, <<>> >>,
     ClipboardGet |-> <<14, <<>> >>, ClipboardSet |-> <<15, <<"text">> >>, LaunchAction |-> <<16, <<"action">> >>,
     NowPlayingQuery |-> <<17, <<>> >>, HostInfoQuery |-> <<18, <<>> >>]
ServerLayout == [ClipboardData |-> <<128, <<"text">> >>, HostInfo |-> <<130, <<"os", "u8", "u8", "u8", "u8">> >>]

Put(kind, v) ==
    CASE kind \in {"i16", "u16"} -> Little(v, 2)
      [] kind = "text" -> Little(Len(as_bytes(v)), 2) \o as_bytes(v)
      [] OTHER -> <<v>>
encode(table, m) ==
    LET fields == table[m.type][2]
    IN IF \E i \in DOMAIN m.args : fields[i] = "text" /\ Len(as_bytes(m.args[i])) > MAX_PAYLOAD
       THEN <<>>
       ELSE <<table[m.type][1]>> \o FlattenSeq([i \in DOMAIN m.args |-> Put(fields[i], m.args[i])])

\* A field read from the bytes that begin with it.  A system this phone has not heard of is unknown, 0.
Read(kind, b) ==
    CASE kind = "i16" -> Number(SubSeq(b, 1, 2), TRUE)
      [] kind = "u16" -> Number(SubSeq(b, 1, 2), FALSE)
      [] kind = "bool" -> IF b[1] = 0 THEN 0 ELSE 1
      [] kind = "os" -> IF b[1] \in 1 .. 3 THEN b[1] ELSE 0
      [] kind = "text" -> LET n == Number(SubSeq(b, 1, 2), FALSE)
                          IN IF Len(b) - 2 < n THEN Absent ELSE from_utf8(SubSeq(b, 3, n + 2))
      [] kind \in DOMAIN Enumerated -> IF b[1] < Enumerated[kind] THEN b[1] ELSE Absent
      [] OTHER -> b[1]
\* Where each field starts, and what follows the last.
Starts(fields) ==
    LET at[i \in 1 .. Len(fields) + 1] == IF i = 1 THEN 2 ELSE at[i - 1] + Size(fields[i - 1])
    IN at
decode(table, b) ==
    LET types == {t \in DOMAIN table : b # <<>> /\ b[1] = table[t][1]}
        fields(t) == table[t][2]
        args(t) == [i \in DOMAIN fields(t) |-> Read(fields(t)[i], SubSeq(b, Starts(fields(t))[i], Len(b)))]
    IN IF types = {} THEN Refused
       ELSE LET t == CHOOSE t \in types : TRUE
            IN IF Starts(fields(t))[Len(fields(t)) + 1] > Len(b) + 1 THEN Refused
               ELSE IF \E i \in DOMAIN fields(t) : args(t)[i] = Absent THEN Refused
               ELSE [type |-> t, args |-> args(t)]

ClientEncode(m) == encode(ClientLayout, m)
ClientDecode(b) == decode(ClientLayout, b)

---------------------------------------------------------------------------
\* What is playing: a mask of what is there, two times of which -1 is none, and four names of at most MAX_NAME bytes.
NowPlaying(playing, position, duration, names) ==
    [type |-> "NowPlaying", args |-> <<playing, position, duration, names>>]
PutName(name) ==
    LET bytes == IF name = Absent THEN <<>> ELSE as_bytes(truncate_to_char_boundary(name, MAX_NAME))
    IN <<Len(bytes)>> \o bytes
PutNowPlaying(m) ==
    LET names == m.args[4]
        Bit(i) == IF names[i] = Absent THEN 0 ELSE <<2, 4, 8, 16>>[i]
    IN <<129, m.args[1] + Bit(1) + Bit(2) + Bit(3) + Bit(4)>> \o (Little(m.args[2], 8) \o (Little(m.args[3], 8)
          \o (PutName(names[1]) \o (PutName(names[2]) \o (PutName(names[3]) \o PutName(names[4]))))))

\* A name, and the bytes that are left; a name that is broken leaves Absent, and nothing is read from that.
read_str(b, present) ==
    IF b = Absent THEN [name |-> Absent, rest |-> Absent]
    ELSE IF b = <<>> \/ b[1] = 0 THEN [name |-> IF present = 1 THEN <<>> ELSE Absent, rest |-> SubSeq(b, 2, Len(b))]
    ELSE LET text == IF Len(b) - 1 < b[1] THEN Absent ELSE from_utf8(SubSeq(b, 2, b[1] + 1))
         IN [name |-> text, rest |-> IF text = Absent THEN Absent ELSE SubSeq(b, b[1] + 2, Len(b))]
ReadNowPlaying(b) ==
    LET flag(i) == (b[2] \div <<1, 2, 4, 8, 16>>[i]) % 2
        time(i) == LET t == Number(SubSeq(b, i, i + 7), TRUE) IN IF t >= 0 THEN t ELSE -1
        title == read_str(SubSeq(b, 19, Len(b)), flag(2))
        artist == read_str(title.rest, flag(3))
        album == read_str(artist.rest, flag(4))
        player == read_str(album.rest, flag(5))
    IN IF Len(b) < 18 \/ player.rest = Absent THEN Refused
       ELSE NowPlaying(flag(1), time(3), time(11), <<title.name, artist.name, album.name, player.name>>)

ServerEncode(m) == IF m.type = "NowPlaying" THEN PutNowPlaying(m) ELSE encode(ServerLayout, m)
ServerDecode(b) == IF b # <<>> /\ b[1] = 129 THEN ReadNowPlaying(b) ELSE decode(ServerLayout, b)

---------------------------------------------------------------------------
\* Which datagrams a server takes for a probe, and which for an announcement of its own.
Magic == {<<84, 231, 154, 3, 33, 200, 190, 254>>, <<84, 69, 76, 69, 80, 65, 68, 33>>}
is_discovery_probe(b) == Len(b) >= 9 /\ b[1] = WIRE_DISCOVERY_PROBE /\ SubSeq(b, 2, 9) \in Magic
PONG_PREFIX == <<84, 69, 76, 69, 80, 65, 68, 95, 80, 79, 78, 71, 58>>
pong_packets(hostname) == << <<WIRE_DISCOVERY_REPLY>> \o PONG_PREFIX \o hostname, PONG_PREFIX \o hostname>>
is_pong_echo(b) == (b # <<>> /\ b[1] = WIRE_DISCOVERY_REPLY) \/ IsPrefix(PONG_PREFIX, b)
===========================================================================
