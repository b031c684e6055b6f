----------------------------- MODULE Discovery -----------------------------
(***************************************************************************)
(* How phones find the PC: the networks it is on (telepad-platform/src/    *)
(* netif.rs), the rounds of announcements and the answers to probes        *)
(* (telepad-server/src/discovery.rs, server.rs), and the addresses put in  *)
(* an invitation (invite.rs).                                              *)
(*                                                                         *)
(* An address is its four octets, an interface what the system lists of    *)
(* it.  The port is the same throughout and left out.  Interfaces come and *)
(* go between rounds; a socket for an address may be refused for a while,  *)
(* and multicast always is on some.  The system's own membership of the    *)
(* group ends with the interface.                                          *)
(***************************************************************************)
EXTENDS Wire

CONSTANTS
    Setups,         \* what the system may list: sequences of interfaces
    NoMulticast,    \* addresses whose interfaces refuse multicast
    MaxChanges      \* bound: changes of the interfaces and of what is refused

VARIABLES
    interfaces,     \* what the system lists
    refusing,       \* addresses for which no socket can be had
    member,         \* addresses at which the system is in the group
    known_ips,      \* the addresses of the last refresh
    joined,         \* addresses the server has joined at
    announcers,     \* its sockets: a source and its targets
    announced,      \* what the last round sent: from where, to where
    changes

env == <<interfaces, refusing, changes>>
discovery_vars == <<env, member, known_ips, joined, announcers, announced>>

UNSPECIFIED == <<0, 0, 0, 0>>
BROADCAST == <<255, 255, 255, 255>>
Group == <<239, 255, 42, 67>>

---------------------------------------------------------------------------
\* The last address of the subnet; there is none of 31 or 32 bits to broadcast to.
broadcast_address(ip, prefix) ==
    LET free(i) == 2 ^ (8 - Max({0, Min({8, prefix - 8 * (i - 1)})}))
    IN IF prefix >= 31 THEN Absent ELSE [i \in 1 .. 4 |-> ip[i] - (ip[i] % free(i)) + free(i) - 1]

Usable(n) == n.up /\ n.ip[1] # 127 /\ SubSeq(n.ip, 1, 2) # <<169, 254>> /\ n.ip # UNSPECIFIED
Network(n) ==
    [ip |-> n.ip, broadcast |-> IF n.is_p2p THEN Absent
                                ELSE IF n.broadcast # Absent THEN n.broadcast ELSE broadcast_address(n.ip, n.prefix)]

\* What the system lists is finite, and a multicast address is no network's to broadcast to.
ASSUME DiscoveryAssumption ==
    \A list \in Setups : Len(list) \in Nat /\ \A i \in 1 .. Len(list) : Network(list[i]).broadcast # Group

\* One entry for each address, the first that has it.
local_ipv4_networks(list) ==
    LET after[i \in 0 .. Len(list)] ==
            IF i = 0 THEN <<>>
            ELSE IF Usable(list[i]) /\ \A j \in DOMAIN after[i - 1] : after[i - 1][j].ip # list[i].ip
            THEN Append(after[i - 1], Network(list[i]))
            ELSE after[i - 1]
    IN after[Len(list)]
Networks == [list \in Setups |-> local_ipv4_networks(list)]

\* The home networks first, then where virtual networks live, then the others; three at most.
Rank(ip) == CASE ip[1] = 192 /\ ip[2] = 168 -> 0
              [] ip[1] = 10 -> 1
              [] ip[1] = 172 /\ ip[2] \in 16 .. 31 -> 2
              [] OTHER -> 3
best_addresses(ips) ==
    LET order == SetToSortSeq(DOMAIN ips, LAMBDA i, j : <<Rank(ips[i]), i>> # <<Rank(ips[j]), j>>
                                 /\ (Rank(ips[i]) < Rank(ips[j]) \/ (Rank(ips[i]) = Rank(ips[j]) /\ i < j)))
        sorted == [k \in DOMAIN order |-> ips[order[k]]]
    IN SubSeq(sorted, 1, Min({3, Len(sorted)}))

---------------------------------------------------------------------------
announcement_targets(n) == IF n.broadcast = Absent THEN {} ELSE {n.broadcast, Group}
fallback_targets == {BROADCAST, Group}

\* From where to announce: mutated, from every address that has a broadcast domain.
EveryAddress(networks) == {i \in DOMAIN networks : networks[i].broadcast # Absent}
FirstOfSubnet(networks) ==
    {i \in DOMAIN networks : networks[i].broadcast # Absent
                             /\ \A j \in 1 .. i - 1 : networks[j].broadcast # networks[i].broadcast}
announcement_plan(networks) ==
    {[source |-> networks[i].ip, targets |-> announcement_targets(networks[i])] : i \in FirstOfSubnet(networks)}

\* A socket bound to its source; where multicast is refused it sends the broadcast only.
announcer(a) == [a EXCEPT !.targets = IF a.source \in NoMulticast THEN @ \ {Group} ELSE @]
build_announcers(networks) ==
    LET wanted == IF networks = <<>> THEN {[source |-> UNSPECIFIED, targets |-> fallback_targets]}
                  ELSE announcement_plan(networks)
    IN {announcer(a) : a \in {w \in wanted : w.source \notin refusing}}

\* Where there is something to join that has not been joined: being a member already counts.
Joins(networks) ==
    (IF networks = <<>> THEN {UNSPECIFIED} ELSE {networks[i].ip : i \in DOMAIN networks}) \ (joined \cup NoMulticast)

Ips(networks) == [i \in DOMAIN networks |-> networks[i].ip]

\* Whether a round looks at the networks anew: mutated, only when their addresses have changed.
WhenChanged(ips) == ips # known_ips
Refreshes(ips) == ips # known_ips \/ announcers = {}

\* A round of run(): what is sent may be lost.
Round ==
    LET networks == Networks[interfaces]
        ips == Ips(networks)
    IN /\ IF Refreshes(ips)
          THEN /\ joined' = joined \cup Joins(networks) /\ member' = member \cup Joins(networks)
               /\ announcers' = build_announcers(networks)
               /\ known_ips' = ips
          ELSE UNCHANGED <<joined, member, announcers, known_ips>>
       /\ announced' = UNION {{[source |-> a.source, to |-> t] : t \in a.targets} : a \in announcers'}
       /\ UNCHANGED env

\* What the receive loop answers at once, by the tag: a probe in both forms, a request for the public key; echoes of
\* announcements and everything unheard of, not at all.  The handshake and what follows it are Link's.
handle_packet(packet, hostname, public) ==
    CASE is_discovery_probe(packet) -> pong_packets(hostname)
      [] is_pong_echo(packet) -> <<>>
      [] packet # <<>> /\ packet[1] = WIRE_PAIRING_INTRO_REQ -> << <<WIRE_PAIRING_INTRO_RESP>> \o public >>
      [] OTHER -> <<>>

---------------------------------------------------------------------------
\* The addresses an interface has now.
Up(list) == {list[i].ip : i \in {j \in DOMAIN list : list[j].up}}

\* The person moves to another network, plugs a cable in or out, starts a VPN.
Move ==
    /\ changes < MaxChanges /\ changes' = changes + 1
    /\ interfaces' \in Setups \ {interfaces}
    /\ member' = member \cap (Up(interfaces') \cup {UNSPECIFIED})
    /\ UNCHANGED <<refusing, known_ips, joined, announcers, announced>>

\* The system begins or ceases to refuse a socket for an address: one just assigned, say.
Refuse ==
    /\ changes < MaxChanges /\ changes' = changes + 1
    /\ refusing' \in (SUBSET (Up(interfaces) \cup {UNSPECIFIED})) \ {refusing}
    /\ UNCHANGED <<interfaces, member, known_ips, joined, announcers, announced>>

DiscoveryInit ==
    /\ interfaces \in Setups /\ refusing \in SUBSET Up(interfaces)
    /\ member = {} /\ known_ips = <<>> /\ joined = {} /\ announcers = {} /\ announced = {} /\ changes = 0

DiscoveryNext == Round \/ Move \/ Refuse
DiscoverySpec == DiscoveryInit /\ [][DiscoveryNext]_discovery_vars /\ WF_discovery_vars(Round)

---------------------------------------------------------------------------
\* A phone that hears several announcements of one round on one network hears them from one address, and none comes
\* out of a network that nobody can hear it on: a machine with two addresses on a subnet, or with a VPN, is one PC in
\* the phone's list.
HeardOnce ==
    \A x, y \in announced :
        /\ x.to = y.to /\ x.to \notin {Group, BROADCAST} => x.source = y.source
        /\ x.to = Group /\ x.source # UNSPECIFIED => \E z \in announced : z.source = x.source /\ z.to # Group

\* When the networks and the system come to rest, announcements come to be sent, and only from addresses that are
\* there, whatever failed before.
Plan == announcement_plan(Networks[interfaces])
Sources == {a.source : a \in Plan}
KeepsTrying ==
    <>[](/\ {x.source : x \in announced} \subseteq Up(interfaces) \cup {UNSPECIFIED}
         /\ Sources # {} /\ Sources \cap refusing = {} => announced # {})

\* "Keeps discovery working for the life of the server: joins the multicast group, and every interval announces the
\* server on all local networks": on every network, once it can be.  Does not hold.
OnAllNetworks == <>[](Sources \cap refusing = {} => Sources \subseteq {x.source : x \in announced})

\* And hears the probes sent to the group there.  Does not hold.
HearsEveryNetwork == <>[]({Networks[interfaces][i].ip : i \in DOMAIN Networks[interfaces]} \ NoMulticast \subseteq member)
===========================================================================
