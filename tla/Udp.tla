-------------------------------- MODULE Udp ---------------------------------
(***************************************************************************)
(* UDP over IP (core/udp.c, core/ipv4/ip.c, core/netif.c) on a device with *)
(* several interfaces: the list of protocol control blocks, the choice of  *)
(* the interface for a datagram that leaves (ip_route) and of the block    *)
(* for one that arrives (ip_input, udp_input).  The ports of DHCP, which   *)
(* udp_input treats apart, are not used here.                              *)
(***************************************************************************)
EXTENDS Integers, Sequences, FiniteSets, SequencesExt

CONSTANTS
  Pcbs,       \* what udp_new can return
  netif_list, \* the interfaces; one stands for its own address too
  StaIf,      \* eagle_lwip_getif(0)
  PeersOf,    \* the hosts of the network of each interface
  Outside,    \* hosts of no network of ours
  BindPorts,  \* the ports given to udp_bind
  RangeStart, RangeEnd,  \* UDP_LOCAL_PORT_RANGE_START and _END
  AnyAddr,    \* IP_ADDR_ANY
  Broadcast   \* 255.255.255.255

UdpIfs == {netif_list[k] : k \in DOMAIN netif_list}
Hosts == UNION {PeersOf[n] : n \in UdpIfs} \union Outside

\* There are more local ports than blocks, so udp_bind always finds one.  No
\* host and no interface has the address 0.0.0.0 or 255.255.255.255.
UdpAssumption ==
  /\ RangeStart \in Nat \ {0} /\ RangeEnd \in Nat
  /\ IsFiniteSet(Pcbs) /\ RangeEnd - RangeStart > Cardinality(Pcbs)
  /\ BindPorts \subseteq Nat \ {0}
  /\ netif_list \in Seq(UdpIfs) /\ StaIf \in UdpIfs
  /\ {AnyAddr, Broadcast} \intersect (UdpIfs \union Hosts) = {} /\ AnyAddr # Broadcast

VARIABLES
  netifs_up,       \* the interfaces that are up
  addressed,       \* those that have an address
  netif_default,   \* an interface
  udp_pcbs,        \* the list
  pcb,             \* the fields of each block; port 0 is unbound
  live,            \* blocks that are allocated
  udp_sent         \* what the last step gave to ip_output_if, << >> or one datagram

udpVars == <<netifs_up, addressed, netif_default, udp_pcbs, pcb, live, udp_sent>>

Unbound == [lip |-> AnyAddr, lport |-> 0, rip |-> AnyAddr, rport |-> 0, connected |-> FALSE]

UdpInit ==
  /\ netifs_up = {} /\ addressed = {}
  /\ netif_default = StaIf
  /\ udp_pcbs = << >>
  /\ pcb = [u \in Pcbs |-> Unbound]
  /\ live = {}
  /\ udp_sent = << >>

OnList == {udp_pcbs[k] : k \in DOMAIN udp_pcbs}

\* ip_addr_netcmp with the interface's netmask: without an address the
\* netmask is zero and everything matches.
Matches(dest, n) == n \in addressed => dest = n \/ dest \in PeersOf[n]

First(S) ==
  netif_list[CHOOSE k \in DOMAIN netif_list :
               netif_list[k] \in S /\ \A j \in 1 .. k - 1 : netif_list[j] \notin S]

\* ip_route: the interfaces it may return, none or one.
ip_route(dest) ==
  LET near == {n \in netifs_up : Matches(dest, n)}
  IN  IF near # {} THEN {First(near)}
      ELSE IF dest # Broadcast /\ StaIf \in netifs_up THEN {StaIf}
      ELSE {netif_default} \intersect netifs_up

-----------------------------------------------------------------------------
\* ip_input: whether a datagram for dest that arrived on an interface is for
\* this device: some interface that is up has this address.
Accepted(dest) ==
  \E n \in netifs_up \intersect addressed : dest = n \/ dest = Broadcast

LocalMatch(u, dest, port) ==
  /\ pcb[u].lport = port
  /\ \/ dest # Broadcast /\ pcb[u].lip = AnyAddr
     \/ pcb[u].lip = dest
     \/ dest = Broadcast

RemoteMatch(u, src, sport) ==
  /\ pcb[u].rport = sport
  /\ pcb[u].rip \in {AnyAddr, src}

\* The positions of the list where the sweep of udp_input may stop: the first
\* block that matches in full.
FullMatch(src, sport, dest, port) ==
  {k \in DOMAIN udp_pcbs :
     /\ LocalMatch(udp_pcbs[k], dest, port) /\ RemoteMatch(udp_pcbs[k], src, sport)
     /\ \A j \in 1 .. k - 1 :
          ~ (LocalMatch(udp_pcbs[j], dest, port) /\ RemoteMatch(udp_pcbs[j], src, sport))}

\* Otherwise the first unconnected block that matches.
Unconnected(dest, port) ==
  {k \in DOMAIN udp_pcbs :
     /\ LocalMatch(udp_pcbs[k], dest, port) /\ ~ pcb[udp_pcbs[k]].connected
     /\ \A j \in 1 .. k - 1 :
          ~ (LocalMatch(udp_pcbs[j], dest, port) /\ ~ pcb[udp_pcbs[j]].connected)}

\* The blocks whose recv is called, none or one.
Receivers(src, sport, dest, port) ==
  LET full == FullMatch(src, sport, dest, port)
  IN  IF ~ Accepted(dest) THEN {}
      ELSE {udp_pcbs[k] : k \in IF full # {} THEN full ELSE Unconnected(dest, port)}

\* The block is put in front without being taken from its place.
Copied(list, k) == <<list[k]>> \o list

\* The block that matched in full, moved to the front of the list.
MovedToFront(list, k) ==
  IF k = 1 THEN list ELSE <<list[k]>> \o RemoveAt(list, k)

udp_input(src, sport, dest, port) ==
  /\ Accepted(dest)
  /\ udp_pcbs' = LET full == FullMatch(src, sport, dest, port)
                 IN  IF full = {} THEN udp_pcbs
                     ELSE MovedToFront(udp_pcbs, CHOOSE k \in full : TRUE)
  /\ udp_sent' = << >>
  /\ UNCHANGED <<netifs_up, addressed, netif_default, pcb, live>>

-----------------------------------------------------------------------------
\* Only the same address counts as overlapping.
TakenHere(u, ip, port) == \E v \in OnList \ {u} : pcb[v].lport = port /\ pcb[v].lip = ip

\* udp_bind refuses a port another block has on an overlapping address.
Taken(u, ip, port) ==
  \E v \in OnList \ {u} :
    pcb[v].lport = port /\ (AnyAddr \in {pcb[v].lip, ip} \/ pcb[v].lip = ip)

\* The port udp_bind gives: the one asked for, or the first free one.
GivenPort(port) ==
  IF port # 0 THEN port
  ELSE CHOOSE q \in RangeStart .. RangeEnd - 1 :
         /\ \A v \in OnList : pcb[v].lport # q
         /\ \A r \in RangeStart .. q - 1 : \E v \in OnList : pcb[v].lport = r

\* pcb and udp_pcbs after udp_bind succeeded.
Bound(u, ip, port) == [pcb EXCEPT ![u].lip = ip, ![u].lport = GivenPort(port)]
Activated(u) == IF u \in OnList THEN udp_pcbs ELSE <<u>> \o udp_pcbs

udp_bind(u, ip, port) ==
  /\ u \in live
  /\ ~ Taken(u, ip, port)
  /\ pcb' = Bound(u, ip, port)
  /\ udp_pcbs' = Activated(u)
  /\ udp_sent' = << >>
  /\ UNCHANGED <<netifs_up, addressed, netif_default, live>>

\* The block as the sending and connecting operations find it: bound to a
\* port of the range first when it has none.
Ready(u) == IF pcb[u].lport = 0 THEN Bound(u, pcb[u].lip, 0) ELSE pcb

udp_connect(u, ip, port) ==
  /\ u \in live
  /\ pcb' = [Ready(u) EXCEPT ![u].rip = ip, ![u].rport = port, ![u].connected = TRUE]
  /\ udp_pcbs' = Activated(u)
  /\ udp_sent' = << >>
  /\ UNCHANGED <<netifs_up, addressed, netif_default, live>>

udp_disconnect(u) ==
  /\ u \in live
  /\ pcb' = [pcb EXCEPT ![u].rip = AnyAddr, ![u].rport = 0, ![u].connected = FALSE]
  /\ udp_sent' = << >>
  /\ UNCHANGED <<netifs_up, addressed, netif_default, udp_pcbs, live>>

\* udp_sendto, udp_sendto_if: no route changes nothing; a block bound to
\* another address than the interface's stays bound and sends nothing.
udp_sendto(u, dest, dport) ==
  /\ u \in live
  /\ \E n \in ip_route(dest) :
       /\ pcb' = Ready(u)
       /\ udp_pcbs' = Activated(u)
       /\ udp_sent' = IF pcb'[u].lip \in {AnyAddr, n} /\ (pcb'[u].lip = n => n \in addressed)
                        THEN << [by |-> u, via |-> n, from |-> pcb'[u].lport,
                                 to |-> dest, dport |-> dport] >>
                        ELSE << >>
  /\ UNCHANGED <<netifs_up, addressed, netif_default, live>>

udp_new(u) ==
  /\ u \notin live
  /\ live' = live \union {u}
  /\ udp_sent' = << >>
  /\ UNCHANGED <<netifs_up, addressed, netif_default, udp_pcbs, pcb>>

\* The list without a block that is on it once.
Unlinked(list, u) ==
  IF \E k \in DOMAIN list : list[k] = u
    THEN RemoveAt(list, CHOOSE k \in DOMAIN list : list[k] = u) ELSE list

udp_remove(u) ==
  /\ u \in live
  /\ live' = live \ {u}
  /\ pcb' = [pcb EXCEPT ![u] = Unbound]
  /\ udp_pcbs' = Unlinked(udp_pcbs, u)
  /\ udp_sent' = << >>
  /\ UNCHANGED <<netifs_up, addressed, netif_default>>

\* netif_set_up, netif_set_down, netif_set_addr, netif_set_default.
netif_set(n) ==
  /\ \/ netifs_up' = netifs_up \union {n} /\ UNCHANGED <<addressed, netif_default>>
     \/ netifs_up' = netifs_up \ {n} /\ UNCHANGED <<addressed, netif_default>>
     \/ addressed' = addressed \union {n} /\ UNCHANGED <<netifs_up, netif_default>>
     \/ addressed' = addressed \ {n} /\ UNCHANGED <<netifs_up, netif_default>>
     \/ netif_default' = n /\ UNCHANGED <<netifs_up, addressed>>
  /\ udp_sent' = << >>
  /\ UNCHANGED <<udp_pcbs, pcb, live>>

UdpNext ==
  \/ \E u \in Pcbs :
       \/ udp_new(u)
       \/ udp_remove(u)
       \/ udp_disconnect(u)
       \/ \E ip \in UdpIfs \union {AnyAddr}, port \in BindPorts \union {0} : udp_bind(u, ip, port)
       \/ \E p \in Hosts, port \in BindPorts : udp_connect(u, p, port)
       \/ \E p \in Hosts \union {Broadcast}, port \in BindPorts : udp_sendto(u, p, port)
  \/ \E src \in Hosts, dest \in UdpIfs \union {Broadcast}, sport \in BindPorts,
        port \in {pcb[u].lport : u \in live} \union {RangeEnd} :
       udp_input(src, sport, dest, port)
  \/ \E n \in UdpIfs : netif_set(n)

UdpSpec == UdpInit /\ [][UdpNext]_udpVars

-----------------------------------------------------------------------------
\* The answer to a datagram reaches the block that sent it: its source is the
\* address and port of that block alone, whatever was bound, connected and
\* moved in the list before (udp_bind, udp_input).
AnswerReturns ==
  \A k \in DOMAIN udp_sent :
    LET d == udp_sent[k] IN
    d.via \in addressed /\ d.to \in Hosts
      /\ (pcb[d.by].connected => pcb[d.by].rip = d.to /\ pcb[d.by].rport = d.dport)
      => Receivers(d.to, d.dport, d.via, d.from) = {d.by}

\* udp_pcbs holds each bound block once and no other; a block connected to
\* the sender of a datagram for this device gets it before an unconnected
\* one, and a block connected to another host never does.
DemuxSound ==
  /\ OnList = {u \in live : pcb[u].lport # 0}
  /\ \A j, k \in DOMAIN udp_pcbs : udp_pcbs[j] = udp_pcbs[k] => j = k
  /\ \A src \in Hosts, dest \in UdpIfs \union {Broadcast}, sport, port \in BindPorts :
       LET to == Receivers(src, sport, dest, port)
           friends == {u \in OnList : /\ LocalMatch(u, dest, port) /\ pcb[u].connected
                                      /\ pcb[u].rip = src /\ pcb[u].rport = sport}
       IN  /\ Accepted(dest) /\ friends # {} => to # {} /\ to \subseteq friends
           /\ \A u \in to : pcb[u].connected => u \in friends

\* A datagram reaches the control block it is for, and the answer comes back
\* to the one that asked.
UdpSound == AnswerReturns /\ DemuxSound
=============================================================================
