------------------------------ MODULE MCLink ------------------------------
(***************************************************************************)
(* An instance of Link for TLC: two phones behind one address, and texts   *)
(* of which one has to be cut within a character of two, three or four     *)
(* bytes.                                                                  *)
(***************************************************************************)
EXTENDS Link, TLC

Short == <<65>>
Long == <<233, 8364, 128512>>
MCTexts == {Short, Long}
Symmetry == Permutations(Phones)

\* One message of each type, with values on either side of what a field holds.
Samples ==
    {Message("MouseMove", <<-1, 300>>), Message("MouseMove", <<-32768, 32767>>), Message("MouseButton", <<2, 1>>),
     Message("MouseButton", <<0, 0>>), Message("Scroll", <<-256>>), Message("KeyPress", <<65535, 255>>),
     Message("KeyRelease", <<4, 0>>), Message("TextInput", <<Long>>), Message("TextInput", << <<>> >>),
     Message("MediaCmd", <<3>>), Message("VolumeCmd", <<2>>), Message("LockScreen", <<>>),
     Message("LaunchAction", <<5>>)}
Replies ==
    {NowPlaying(1, 8388607, -1, <<Short, <<>>, Absent, Long>>), NowPlaying(0, 0, 255, <<Absent, Absent, <<>>, Absent>>),
     Message("HostInfo", <<3, 255, 0, 1, 9>>)}

\* What has been cut short, or has a value nobody has heard of, is refused.
CodecIsExact ==
    /\ \A m \in Samples : ClientDecode(ClientEncode(m)) = m
    /\ \A m \in Replies : ServerDecode(ServerEncode(m)) = m
    /\ \A m \in Samples : \A n \in 0 .. Len(ClientEncode(m)) - 1 : ClientDecode(SubSeq(ClientEncode(m), 1, n)) = Refused
    /\ ClientDecode(<<2, 3, 1>>) = Refused /\ ClientDecode(<<99>>) = Refused
    /\ \A cut \in 6 .. 8 : ClientDecode(<<6, cut - 6, 0, 226, 130>>) \in {Refused, Message("TextInput", << <<>> >>)}
ASSUME CodecIsExact
===========================================================================
