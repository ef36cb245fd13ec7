----------------------------- MODULE DhcpServer -----------------------------
(***************************************************************************)
(* The DHCP server of the soft access point (app/dhcpserver.c), as         *)
(* operators on plist, the sorted list of leases, and on dhcps_lease, the  *)
(* range the addresses come from.                                          *)
(*                                                                         *)
(* A node of plist is [ip, mac, timer, type, state]; addresses are their   *)
(* last octet, 0 is IPADDR_ANY.                                            *)
(***************************************************************************)
EXTENDS Integers, Sequences, FiniteSets, SequencesExt

CONSTANTS
  LeaseTime,       \* dhcps_lease_time, in minutes
  MAX_STATION_NUM, \* 8
  DHCPS_MAX_LEASE, \* 100
  Octet            \* 256

ASSUME ServerAssumption ==
  /\ LeaseTime \in Nat \ {0} /\ MAX_STATION_NUM \in Nat \ {0, 1}
  /\ DHCPS_MAX_LEASE \in Nat \ {0} /\ Octet \in Nat
  /\ 2 * DHCPS_MAX_LEASE < Octet

\* Before the first node with a greater address.
node_insert_to_list(pl, n) ==
  LET before == {i \in DOMAIN pl : \A j \in 1 .. i : ~(n.ip < pl[j].ip)}
  IN  InsertAt(pl, Cardinality(before) + 1, n)

node_remove_from_list(pl, i) == RemoveAt(pl, i)

\* The last node of plist with P, 0 if there is none.
LastIndex(pl, P(_)) ==
  LET I == {i \in DOMAIN pl : P(pl[i])}
  IN  IF I = {} THEN 0 ELSE CHOOSE i \in I : \A j \in I : j <= i

\* Mutant: the list is taken to be without gaps.
FreeAddressAtEnd(pl, pool, mine) ==
  LET addr == pool.start + (IF mine = 0 THEN Len(pl) ELSE mine - 1)
  IN  IF addr > pool.end THEN 0 ELSE addr

\* The address a station without one gets.  The search goes along the list
\* up to the station's own node (at mine; 0 if it has none) and counts up
\* from the start of the range while the nodes have the addresses in order.
FreeAddress(pl, pool, mine) ==
  LET upto == IF mine = 0 THEN Len(pl) ELSE mine - 1
      inOrder == {i \in 1 .. upto :
                    \A j \in 1 .. i : pl[j].ip = pool.start + j - 1}
      flag == mine # 0 \/ Cardinality(inOrder) < upto
      addr == pool.start + Cardinality(inOrder)
  IN  IF ~flag /\ addr > pool.end THEN 0 ELSE addr

Node(ip, mac, type) ==
  [ip |-> ip, mac |-> mac, timer |-> LeaseTime, type |-> type,
   state |-> "ONLINE"]

Refused(pl) == [pl |-> pl, addr |-> 0, renew |-> FALSE]

\* A station that does not name its address.  (No station has two nodes.)
UpdateUnnamed(pl, pool, mac) ==
  LET mine == LastIndex(pl, LAMBDA n : n.mac = mac)
      addr == FreeAddress(pl, pool, mine)
      node == Node(addr, mac, "DYNAMIC")
      rest == IF mine = 0 THEN pl ELSE node_remove_from_list(pl, mine)
  IN  IF addr = 0 \/ (mine = 0 /\ addr > pool.end) THEN Refused(pl)
      ELSE [pl |-> node_insert_to_list(rest, node), addr |-> addr,
            renew |-> FALSE]

\* A station that names its address, ip: it keeps its node, or takes over the
\* node of a station that is offline, or gets a node of its own.
UpdateNamed(pl, pool, mac, ip) ==
  LET mine == LastIndex(pl, LAMBDA n : n.mac = mac)
      at   == LastIndex(pl, LAMBDA n : n.ip = ip)
      node == Node(ip, mac, IF at # 0 /\ at = mine THEN "DYNAMIC" ELSE "STATIC")
      rest == IF mine = 0 THEN pl ELSE node_remove_from_list(pl, mine)
      taken == ReplaceAt(pl, at, node)
  IN  IF at # 0
      THEN IF at # mine /\ pl[at].state # "OFFLINE" THEN Refused(pl)
           ELSE [pl |-> IF mine \in {0, at} THEN taken
                        ELSE node_remove_from_list(taken, mine),
                 addr |-> ip, renew |-> at = mine]
      ELSE IF mine = 0 /\ ip > pool.end THEN Refused(pl)
           ELSE [pl |-> node_insert_to_list(rest, node), addr |-> ip,
                 renew |-> FALSE]

wifi_softap_dhcps_client_update(pl, pool, mac, ip) ==
  IF ip = 0 THEN UpdateUnnamed(pl, pool, mac)
  ELSE UpdateNamed(pl, pool, mac, ip)

\* The station leaves: its node goes if it is static, or by force.
wifi_softap_dhcps_client_leave(pl, mac, ip, force) ==
  LET I == {i \in DOMAIN pl : pl[i].mac = mac /\ pl[i].ip = ip}
      i == CHOOSE k \in I : \A j \in I : k <= j
  IN  IF I = {} THEN pl
      ELSE IF force \/ pl[i].type = "STATIC" THEN node_remove_from_list(pl, i)
      ELSE [pl EXCEPT ![i].state = "OFFLINE"]

\* What to answer a message: addr is the address client_update settled on.
\* A REQUEST without the option "requested address" has req = -1.
parse_options(m, addr, renew) ==
  CASE m.type = "DISCOVER" -> "OFFER"
    [] m.type = "REQUEST" ->
         IF m.req = addr \/ (m.req = -1 /\ renew) THEN "ACK" ELSE "NAK"
    [] m.type = "RELEASE" -> "RELEASE"
    [] OTHER -> "IDLE"

parse_msg(pl, pool, mac, m) ==
  LET u == wifi_softap_dhcps_client_update(pl, pool, mac, m.ci)
      s == parse_options(m, u.addr, u.renew)
  IN  [pl |-> IF s = "RELEASE"
              THEN wifi_softap_dhcps_client_leave(u.pl, mac, m.ci, TRUE)
              ELSE u.pl,
       answer |-> s, addr |-> u.addr]

\* The node with the least time left, the head excepted, is freed; the last
\* node of the list is marked offline.
kill_oldest_dhcps_pool(pl) ==
  LET C == 2 .. Len(pl)
      min == CHOOSE i \in C : \A j \in C :
               \/ pl[i].timer < pl[j].timer
               \/ pl[i].timer = pl[j].timer /\ i <= j
  IN  node_remove_from_list([pl EXCEPT ![Len(pl)].state = "OFFLINE"], min)

\* The nodes of plist at the indices I, in order.
Pick(pl, I) ==
  [k \in 1 .. Cardinality(I) |->
     pl[CHOOSE i \in I : Cardinality({j \in I : j <= i}) = k]]

\* Every minute.
Aged(n) == IF n.type = "DYNAMIC" THEN [n EXCEPT !.timer = @ - 1] ELSE n

dhcps_coarse_tmr(pl) ==
  LET aged == [i \in DOMAIN pl |-> Aged(pl[i])]
      kept == Pick(aged, {i \in DOMAIN pl : aged[i].timer # 0})
  IN  IF Len(kept) >= MAX_STATION_NUM THEN kill_oldest_dhcps_pool(kept)
      ELSE kept

-----------------------------------------------------------------------------
(* The range. *)

\* The addresses beside the server's own, below it in the upper half.
DefaultRange(ip) ==
  IF 2 * ip >= Octet
  THEN [enable |-> FALSE, start |-> ip - DHCPS_MAX_LEASE, end |-> ip - 1]
  ELSE [enable |-> FALSE, start |-> ip + 1, end |-> ip + DHCPS_MAX_LEASE]

\* The tests of wifi_softap_set_dhcps_lease and wifi_softap_init_dhcps_lease.
\* end_ip - start_ip is unsigned, so a range from end to start is too long.
RangeOK(lease, ip) ==
  /\ ~(lease.start <= ip /\ ip <= lease.end)
  /\ lease.end - lease.start \in 0 .. DHCPS_MAX_LEASE

wifi_softap_init_dhcps_lease(lease, ip) ==
  IF lease.enable /\ RangeOK(lease, ip) THEN lease ELSE DefaultRange(ip)
=============================================================================
