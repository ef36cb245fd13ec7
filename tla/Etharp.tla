------------------------------- MODULE Etharp -------------------------------
(***************************************************************************)
(* The ARP cache of lwIP (netif/etharp.c) behind one interface.  IP        *)
(* packets leave through etharp_output; one whose next hop is unknown      *)
(* waits on a pending entry until update_arp_entry learns the hardware     *)
(* address from an ARP message or an IP packet.  etharp_tmr ages the       *)
(* entries; find_entry recycles one when the table is full.                *)
(*                                                                         *)
(* Malformed frames are dropped before they reach any state and broadcast  *)
(* and multicast packets bypass the cache: neither is modelled.            *)
(***************************************************************************)
EXTENDS Integers, Sequences

CONSTANTS
  TableSize,    \* ARP_TABLE_SIZE
  Locals,       \* the addresses of the interface's network, not its own
  Remotes,      \* addresses behind the gateway
  Gw,           \* netif->gw, a local address
  MacsOf,       \* the hardware addresses a host may answer with
  NoMac,        \* no hardware address heard yet
  MaxAge,       \* ARP_MAXAGE, in calls of etharp_tmr
  RerequestAge, \* ARP_AGE_REREQUEST_USED
  MaxQueue,     \* the packets an entry may hold (3 in etharp_query)
  MaxPackets    \* bound: packets given to etharp_output

Addrs == Locals \union Remotes
Macs == UNION {MacsOf[a] : a \in Addrs}

ArpAssumption ==
  /\ TableSize \in Nat \ {0} /\ MaxQueue \in Nat \ {0}
  /\ Gw \in Locals /\ NoMac \notin Macs
  /\ RerequestAge \in Nat /\ MaxAge \in Nat /\ RerequestAge < MaxAge
  /\ MaxPackets \in Nat

\* ARP_MAXPENDING
MaxPending == 2

VARIABLES
  arp_table,            \* struct etharp_entry arp_table[ARP_TABLE_SIZE]
  etharp_cached_entry,  \* the entry the last packet used
  configured,           \* whether netif->ip_addr is set
  netif_up,             \* NETIF_FLAG_UP
  heard,                \* history: the last hardware address of each address
  packets,              \* how many packets etharp_output was given
  out                   \* the IP frames the last step gave to linkoutput

arpVars == <<arp_table, etharp_cached_entry, configured, netif_up, heard, packets, out>>

Slots == 1 .. TableSize
Packets == [id : 1 .. MaxPackets, hop : Addrs]
ArpEntry == [state : {"EMPTY", "PENDING", "STABLE", "REREQUESTING"}, ip : Addrs,
          mac : Macs \union {NoMac}, ctime : 0 .. MaxAge, q : Seq(Packets)]

Stable(e) == e.state \in {"STABLE", "REREQUESTING"}
Live(e) == e.state # "EMPTY"

\* The local network, as ip_addr_netcmp with the netmask sees it: before the
\* interface has an address the netmask is zero and every address matches.
OnLink(a) == configured => a \in Locals

\* The fields of an empty entry are not read again: find_entry sets ip and
\* ctime, update_arp_entry the hardware address (with LWIP_DEBUG they are
\* cleared here too).
Empty == [state |-> "EMPTY", ip |-> Gw, mac |-> NoMac, ctime |-> 0, q |-> << >>]

\* The packets stay on the recycled entry.
KeepsPackets(e) == [e EXCEPT !.state = "EMPTY"]

free_entry(e) == Empty

\* The oldest of some entries, the last one of several: the sweep compares
\* with >=.
Oldest(t, S) ==
  CHOOSE i \in S : \A j \in S :
    \/ t[j].ctime < t[i].ctime
    \/ t[j].ctime = t[i].ctime /\ j <= i

\* Which entry to give up: the oldest stable one, else the oldest pending
\* one without packets, else the oldest pending one.
Victim(t) ==
  LET stable == {i \in Slots : Stable(t[i])}
      idle   == {i \in Slots : t[i].state = "PENDING" /\ t[i].q = << >>}
      queued == {i \in Slots : t[i].state = "PENDING" /\ t[i].q # << >>}
  IN  Oldest(t, IF stable # {} THEN stable ELSE IF idle # {} THEN idle ELSE queued)

\* find_entry: the index (0 for ERR_MEM) and the table it leaves behind.
find_entry(t, a, tryHard) ==
  LET match == {i \in Slots : Live(t[i]) /\ t[i].ip = a}
      empty == {i \in Slots : ~ Live(t[i])}
      fresh == IF empty # {} THEN CHOOSE i \in empty : \A j \in empty : i <= j
                             ELSE Victim(t)
  IN  IF match # {}
        THEN [i |-> CHOOSE i \in match : \A j \in match : i <= j, table |-> t]
        ELSE IF ~ tryHard THEN [i |-> 0, table |-> t]
        ELSE [i |-> fresh,
              table |-> [t EXCEPT ![fresh] = [free_entry(@) EXCEPT !.ip = a, !.ctime = 0]]]

Frame(p, mac) == [pkt |-> p, mac |-> mac]

-----------------------------------------------------------------------------
ArpInit ==
  /\ arp_table = [i \in Slots |-> Empty]
  /\ etharp_cached_entry = 1
  /\ configured = FALSE
  /\ netif_up = TRUE
  /\ heard = [a \in Addrs |-> NoMac]
  /\ packets = 0
  /\ out = << >>

\* update_arp_entry: record the address and send what waited for it.
update_arp_entry(a, mac, tryHard) ==
  LET found == find_entry(arp_table, a, tryHard)
      i == found.i
  IN  IF i = 0
        THEN arp_table' = arp_table /\ out' = << >>
        ELSE /\ arp_table' = [found.table EXCEPT ![i].state = "STABLE", ![i].mac = mac,
                                                 ![i].ctime = 0, ![i].q = << >>]
             /\ out' = [k \in 1 .. Len(found.table[i].q) |->
                          Frame(found.table[i].q[k], mac)]

\* etharp_arp_input: an ARP message of host a.  One for this interface makes
\* an entry; another one only updates the entry there is.  An address probe
\* (sender 0.0.0.0) changes nothing.
etharp_arp_input(a, mac, for_us) ==
  /\ for_us => configured
  /\ update_arp_entry(a, mac, for_us)
  /\ heard' = [heard EXCEPT ![a] = mac]
  /\ UNCHANGED <<etharp_cached_entry, configured, netif_up, packets>>

\* etharp_ip_input: an IP packet shows the hardware address of a local host.
etharp_ip_input(a, mac) ==
  /\ OnLink(a)
  /\ update_arp_entry(a, mac, FALSE)
  /\ heard' = [heard EXCEPT ![a] = mac]
  /\ UNCHANGED <<etharp_cached_entry, configured, netif_up, packets>>

\* A packet added to a pending entry's queue: beyond MaxQueue the oldest goes.
Queued(q, p) == IF Len(q) >= MaxQueue THEN Append(Tail(q), p) ELSE Append(q, p)

\* etharp_query, with a packet or (dhcp_check) without one: p = << >>.
etharp_query(a, p, copied) ==
  LET found == find_entry(arp_table, a, TRUE)
      i == found.i
      t == IF Live(found.table[i]) THEN found.table
           ELSE [found.table EXCEPT ![i].state = "PENDING"]
  IN  IF Stable(t[i])
        THEN /\ arp_table' = t
             /\ out' = [k \in 1 .. Len(p) |-> Frame(p[k], t[i].mac)]
             /\ etharp_cached_entry' = IF p = << >> THEN etharp_cached_entry ELSE i
        ELSE /\ arp_table' = IF p # << >> /\ copied
                               THEN [t EXCEPT ![i].q = Queued(t[i].q, p[1])] ELSE t
             /\ out' = << >>
             /\ UNCHANGED etharp_cached_entry

\* etharp_output_to_arp_index: an entry about to expire is asked for again,
\* when the request can be sent.
etharp_output_to_arp_index(i, p, asked) ==
  /\ arp_table' =
       IF arp_table[i].state = "STABLE" /\ arp_table[i].ctime >= RerequestAge /\ asked
         THEN [arp_table EXCEPT ![i].state = "REREQUESTING"] ELSE arp_table
  /\ out' = << Frame(p, arp_table[i].mac) >>
  /\ etharp_cached_entry' = i

Usable(i, a) == Stable(arp_table[i]) /\ arp_table[i].ip = a

\* etharp_output of a unicast packet, for an interface that is up (ip_route
\* passes over the others): through the cached entry, any stable
\* entry, or etharp_query.  ok: the memory for a request or a copy is there.
etharp_output(dst, ok) ==
  LET hop == IF OnLink(dst) THEN dst ELSE Gw
      p == [id |-> packets + 1, hop |-> hop]
      usable == {i \in Slots : Usable(i, hop)}
      i == IF etharp_cached_entry \in usable THEN etharp_cached_entry
           ELSE CHOOSE j \in usable : \A k \in usable : j <= k
  IN  /\ netif_up
      /\ packets < MaxPackets
      /\ packets' = packets + 1
      /\ IF usable # {} THEN etharp_output_to_arp_index(i, p, ok)
                        ELSE etharp_query(hop, <<p>>, ok)
      /\ UNCHANGED <<configured, netif_up, heard>>

\* dhcp_check asks for the offered address without a packet.
Probe(a) ==
  /\ etharp_query(a, << >>, FALSE)
  /\ UNCHANGED <<configured, netif_up, heard, packets>>

\* etharp_tmr, every ARP_TMR_INTERVAL.
AgedEntry(e) ==
  IF ~ Live(e) THEN e
  ELSE LET old == \/ e.ctime + 1 >= MaxAge
                  \/ e.state = "PENDING" /\ e.ctime + 1 >= MaxPending
       IN  IF old THEN free_entry(e)
           ELSE [e EXCEPT !.ctime = @ + 1,
                          !.state = IF @ = "REREQUESTING" THEN "STABLE" ELSE @]

etharp_tmr ==
  /\ arp_table' = [i \in Slots |-> AgedEntry(arp_table[i])]
  /\ out' = << >>
  /\ UNCHANGED <<etharp_cached_entry, configured, netif_up, heard, packets>>

\* netif_set_ipaddr, from the DHCP client.
netif_set_ipaddr ==
  /\ configured' = ~ configured
  /\ out' = << >>
  /\ UNCHANGED <<arp_table, etharp_cached_entry, netif_up, heard, packets>>

\* netif_set_down calls etharp_cleanup_netif, which frees the entries whose
\* netif is the one given; update_arp_entry records it only with LWIP_SNMP,
\* which this build leaves out, so no entry matches.
netif_set_down ==
  /\ netif_up
  /\ netif_up' = FALSE
  /\ out' = << >>
  /\ UNCHANGED <<arp_table, etharp_cached_entry, configured, heard, packets>>

netif_set_up ==
  /\ ~ netif_up
  /\ netif_up' = TRUE
  /\ out' = << >>
  /\ UNCHANGED <<arp_table, etharp_cached_entry, configured, heard, packets>>

ArpNext ==
  \/ \E a \in Addrs : \E mac \in MacsOf[a] :
       \/ \E for_us \in BOOLEAN : etharp_arp_input(a, mac, for_us)
       \/ etharp_ip_input(a, mac)
  \/ \E a \in Addrs, ok \in BOOLEAN : etharp_output(a, ok)
  \/ \E a \in Locals : Probe(a)
  \/ etharp_tmr
  \/ netif_set_ipaddr
  \/ netif_set_down
  \/ netif_set_up

ArpSpec == ArpInit /\ [][ArpNext]_arpVars

-----------------------------------------------------------------------------
\* find_entry returns the first live entry of an address, and recycling one
\* frees its packets: an address has one live entry, only a pending entry
\* holds packets, they are the newest of their hop, oldest first, and no
\* packet waits on the entry of another hop.
CacheSound ==
  /\ \A i, j \in Slots :
       Live(arp_table[i]) /\ Live(arp_table[j]) /\ arp_table[i].ip = arp_table[j].ip => i = j
  /\ \A i \in Slots :
       LET q == arp_table[i].q IN
       /\ q # << >> => arp_table[i].state = "PENDING"
       /\ Len(q) <= MaxQueue
       /\ \A k \in DOMAIN q : q[k].hop = arp_table[i].ip
       /\ \A k \in 2 .. Len(q) : q[k - 1].id < q[k].id

\* An IP packet goes to the hardware address its next hop was last heard
\* from, whether it waited or not and whatever the cached entry was.
RightMac ==
  \A k \in DOMAIN out : out[k].mac = heard[out[k].pkt.hop]

\* The ARP table keeps its packets with their next hop, in order, and sends
\* them to the hardware address that was heard last.
ArpSound == CacheSound /\ RightMac
=============================================================================
