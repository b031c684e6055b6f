---------------------------- MODULE MCDiscovery ----------------------------
(***************************************************************************)
(* An instance of Discovery for TLC: a PC with Wi-Fi, a cable on the same  *)
(* subnet, a VPN without a broadcast domain, and an address that keeps its *)
(* octets on a network of another size.                                    *)
(***************************************************************************)
EXTENDS Discovery, TLC

Interface(ip, prefix, is_p2p, broadcast) ==
    [ip |-> ip, prefix |-> prefix, is_p2p |-> is_p2p, broadcast |-> broadcast, up |-> TRUE]
WiFi == Interface(<<192, 168, 1, 20>>, 24, FALSE, <<192, 168, 1, 255>>)
Cable == Interface(<<192, 168, 1, 21>>, 24, FALSE, Absent)
Home == Interface(<<10, 0, 5, 2>>, 20, FALSE, Absent)
Wide == Interface(<<192, 168, 1, 20>>, 16, FALSE, Absent)
Vpn == Interface(<<100, 64, 0, 7>>, 32, FALSE, Absent)
Tunnel == Interface(<<10, 8, 0, 2>>, 24, TRUE, <<10, 8, 0, 255>>)
Loop == Interface(<<127, 0, 0, 1>>, 8, FALSE, <<127, 255, 255, 255>>)
Dead == [Home EXCEPT !.up = FALSE]

MCSetups == {<<Loop>>, <<Loop, WiFi>>, <<Vpn, WiFi, Cable>>, <<Cable, WiFi, Tunnel>>, <<Wide>>, <<WiFi, Home, WiFi>>,
             <<Vpn>>, <<Dead, Cable>>}
MCNoMulticast == {Vpn.ip, Cable.ip}

\* The subnets, the answers and the addresses of an invitation, on examples.
ASSUME /\ broadcast_address(Home.ip, 20) = <<10, 0, 15, 255>> /\ broadcast_address(Vpn.ip, 32) = Absent
       /\ broadcast_address(WiFi.ip, 0) = BROADCAST /\ broadcast_address(WiFi.ip, 30) = <<192, 168, 1, 23>>
       /\ best_addresses(<<Vpn.ip, <<172, 17, 0, 1>>, Home.ip, WiFi.ip>>) = <<WiFi.ip, Home.ip, <<172, 17, 0, 1>> >>
       /\ \A magic \in Magic :
            LET answer == handle_packet(<<WIRE_DISCOVERY_PROBE>> \o magic, <<80, 67>>, <<>>)
            IN Len(answer) = 2 /\ \A i \in 1 .. 2 : handle_packet(answer[i], <<80, 67>>, <<>>) = <<>>
===========================================================================
