------------------------------ MODULE DhcpNet -------------------------------
(***************************************************************************)
(* lwIP stations (DhcpClient) on the radio link of a soft access point     *)
(* that runs the DHCP server (DhcpServer).                                 *)
(*                                                                         *)
(* The link keeps the order of the frames of a station and loses any of    *)
(* them; a frame that finds the queue of QueueLen full is lost too.  The   *)
(* two minute timers tick on their own.                                    *)
(*                                                                         *)
(* Guests are stations with other DHCP clients, or with an address set by  *)
(* hand: they send any message at any time and may use any address.        *)
(***************************************************************************)
EXTENDS DhcpClient, DhcpServer

CONSTANTS
  Stations, Guests,
  ApAddresses,  \* the addresses the access point may have
  Ranges,       \* the ranges the application may set
  GuestAddresses, \* the addresses guests may claim
  QueueLen      \* bound on the frames under way

Addresses == 1 .. Octet - 1

\* For Ranges: an application that leaves the range to the server.
DefaultOnly == {[enable |-> FALSE, start |-> 1, end |-> 1]}

ASSUME NetAssumption ==
  /\ QueueLen \in Nat \ {0}
  /\ ApAddresses \subseteq Addresses /\ GuestAddresses \subseteq Addresses
  /\ Ranges \subseteq [enable : BOOLEAN, start : Addresses, end : Addresses]

VARIABLES
  sta,       \* per station, the record of DhcpClient
  up, down,  \* per station, the frames to and from the server
  plist,
  lease,     \* dhcps_lease
  server     \* server_address; 0 while the server is stopped

(* History, used by the properties only. *)
VARIABLES
  adrift,    \* per station: the server gave up or changed the lease while
             \* the station was using the address or about to
  rash       \* per station: it extended its lease on the acknowledgement
             \* of another address

vars == <<sta, up, down, plist, lease, server, adrift, rash>>

Init ==
  /\ sta = [c \in Stations |-> Blank]
  /\ up = [c \in Stations |-> <<>>] /\ down = up
  /\ plist = <<>> /\ server = 0
  /\ lease = [enable |-> FALSE, start |-> 0, end |-> 0]
  /\ adrift = [c \in Stations |-> FALSE]
  /\ rash = [c \in Stations |-> FALSE]

Fit(q) == IF Len(q) > QueueLen THEN SubSeq(q, 1, QueueLen) ELSE q

Extending == {"REBOOTING", "REBINDING", "RENEWING"}

\* The address the station uses or, acknowledged, is about to use.
Claim(c) ==
  {a \in {sta[c].ip} \ {0} : sta[c].up}
    \cup {a \in {sta[c].off} \ {0} : sta[c].st = "CHECKING"}
    \cup {down[c][i].yi : i \in {i \in DOMAIN down[c] :
                                   down[c][i].type = "ACK" /\ down[c][i].cur}}

\* The station's step ends: r.out goes on the air, and q is still to be
\* received.  A new transaction identifier makes everything under way for
\* this station stale.
Station(c, r, q) ==
  /\ sta' = [sta EXCEPT ![c] = [r EXCEPT !.out = <<>>, !.bump = FALSE]]
  /\ up' = [up EXCEPT ![c] = Fit((IF r.bump THEN Stale(@) ELSE @) \o r.out)]
  /\ down' = [down EXCEPT ![c] = IF r.bump THEN Stale(q) ELSE q]
  /\ adrift' = [adrift EXCEPT ![c] = @ /\ Claim(c)' # {}]
  /\ rash' = [rash EXCEPT ![c] =
                /\ r.st = "BOUND"
                /\ @ \/ (sta[c].st \in Extending /\ Head(down[c]).yi # r.ip)]
  /\ UNCHANGED <<plist, lease, server>>

\* Steps of a station that receive nothing.
Acts(c, r) == Station(c, r, down[c])

Start(c) == \E mem \in BOOLEAN : Acts(c, dhcp_start(sta[c], mem))

Stop(c) == sta[c].st # "OFF" /\ Acts(c, dhcp_stop(sta[c]))

LinkUp(c) ==
  /\ sta[c].st # "OFF"
  /\ \E mem \in BOOLEAN : Acts(c, dhcp_network_changed(sta[c], mem))

FineTimer(c) ==
  /\ sta[c].armed /\ ~GaveUp(sta[c])
  /\ \E mem \in BOOLEAN : Acts(c, dhcp_fine_tmr(sta[c], mem))

CoarseTimer(c) ==
  \E mem \in BOOLEAN : Acts(c, dhcp_coarse_tmr(sta[c], mem))

\* Some host answers the ARP query of dhcp_check.
ArpAnswered(c) ==
  /\ sta[c].st = "CHECKING"
  /\ \E mem \in BOOLEAN : Acts(c, dhcp_arp_reply(sta[c], sta[c].off, mem))

Receive(c) ==
  /\ down[c] # <<>>
  /\ \E mem \in BOOLEAN :
       Station(c, IF sta[c].pcb THEN dhcp_recv(sta[c], Head(down[c]), mem)
                  ELSE sta[c], Tail(down[c]))

-----------------------------------------------------------------------------
(* The server. *)

Leased(pl, c, a) == \E i \in DOMAIN pl : pl[i].mac = c /\ pl[i].ip = a

Drift(pl) ==
  adrift' = [c \in Stations |->
               \/ adrift[c]
               \/ \E a \in Claim(c) : Leased(plist, c, a) /\ ~Leased(pl, c, a)]

\* send_offer, send_ack and send_nak; yiaddr is client_address in each.
Reply(c, answer, addr, cur) ==
  down' = IF answer \in {"OFFER", "ACK", "NAK"}
          THEN [down EXCEPT ![c] =
                  Fit(Append(@, [type |-> answer, yi |-> addr, cur |-> cur,
                                 lease |-> LeaseTime]))]
          ELSE down

handle_dhcp(c) ==
  /\ up[c] # <<>> /\ server # 0
  /\ LET m == Head(up[c])
         p == parse_msg(plist, lease, c, m)
     IN  /\ plist' = p.pl
         /\ up' = [up EXCEPT ![c] = Tail(@)]
         /\ Reply(c, p.answer, p.addr, m.cur)
         /\ Drift(p.pl)
  /\ UNCHANGED <<sta, lease, server, rash>>

\* What a guest may send.  The list changes by the address a message names as
\* ciaddr and by its being a RELEASE or not; the answer is the guest's affair,
\* so a REQUEST stands for a DISCOVER and an INFORM as well.
GuestMsgs ==
  [type : {"REQUEST", "RELEASE"}, ci : {0} \cup GuestAddresses, req : {-1},
   cur : {TRUE}]

handle_guest(g, m) ==
  /\ server # 0
  /\ LET p == parse_msg(plist, lease, g, m)
     IN  /\ plist' = p.pl
         /\ Drift(p.pl)
  /\ UNCHANGED <<sta, up, down, lease, server, rash>>

ServerTimer ==
  /\ plist' = dhcps_coarse_tmr(plist)
  /\ Drift(plist')
  /\ UNCHANGED <<sta, up, down, lease, server, rash>>

\* The access point loses a station: client_leave without force.
StationGone(c) ==
  /\ sta[c].ip # 0
  /\ plist' = wifi_softap_dhcps_client_leave(plist, c, sta[c].ip, FALSE)
  /\ Drift(plist')
  /\ UNCHANGED <<sta, up, down, lease, server, rash>>

dhcps_start(ip) ==
  /\ server = 0
  /\ server' = ip
  /\ lease' = wifi_softap_init_dhcps_lease(lease, ip)
  /\ UNCHANGED <<sta, up, down, plist, adrift, rash>>

\* Every lease is forgotten.
dhcps_stop ==
  /\ server # 0
  /\ server' = 0
  /\ plist' = <<>>
  /\ Drift(<<>>)
  /\ UNCHANGED <<sta, up, down, lease, rash>>

wifi_softap_set_dhcps_lease(l, ip) ==
  /\ server = 0
  /\ l.enable => RangeOK(l, ip)
  /\ lease' = IF l.enable THEN l ELSE [lease EXCEPT !.enable = FALSE]
  /\ UNCHANGED <<sta, up, down, plist, server, adrift, rash>>

-----------------------------------------------------------------------------

LoseUp(c) ==
  /\ up[c] # <<>> /\ up' = [up EXCEPT ![c] = Tail(@)]
  /\ UNCHANGED <<sta, down, plist, lease, server, adrift, rash>>

LoseDown(c) ==
  /\ down[c] # <<>> /\ down' = [down EXCEPT ![c] = Tail(@)]
  /\ UNCHANGED <<sta, up, plist, lease, server, adrift, rash>>

Next ==
  \/ \E c \in Stations :
       \/ Start(c) \/ Stop(c) \/ LinkUp(c) \/ FineTimer(c) \/ CoarseTimer(c)
       \/ ArpAnswered(c) \/ Receive(c)
       \/ handle_dhcp(c) \/ StationGone(c) \/ LoseUp(c) \/ LoseDown(c)
  \/ \E g \in Guests : \E m \in GuestMsgs : handle_guest(g, m)
  \/ ServerTimer \/ dhcps_stop
  \/ \E ip \in ApAddresses :
       \/ dhcps_start(ip)
       \/ \E l \in Ranges : wifi_softap_set_dhcps_lease(l, ip)

Spec == Init /\ [][Next]_vars

-----------------------------------------------------------------------------

\* The server never leases one address to two stations, nor two addresses to
\* one station: wifi_softap_dhcps_client_update looks for a gap in a list
\* that the timer, stations that leave, stations that name their address and
\* stations that take over a lease change between any two messages.  (Only
\* while no station names an address below the range: the search takes such
\* a node for a gap.  GuestAddresses are the addresses named.)
LeaseUnique ==
  \A i, j \in DOMAIN plist :
    i < j => plist[i].ip < plist[j].ip /\ plist[i].mac # plist[j].mac

\* A station uses the address the server has on its list for it (dhcp_bind
\* against plist), whatever was lost, delayed or sent again, unless the
\* server gave up the lease meanwhile, or the station took the
\* acknowledgement of another address for its own (dhcp.c:1658 asks only
\* whether it is extending a lease).
HeldIsLeased ==
  \A c \in Stations :
    sta[c].st = "BOUND" /\ sta[c].ip # 0 /\ ~adrift[c] /\ ~rash[c] =>
      Leased(plist, c, sta[c].ip)

\* A client that has no address yet waits for something: in every state
\* but OFF and BOUND a request timeout is running, so a lost message never
\* leaves it where it is.
NeverStalls ==
  \A c \in Stations : sta[c].st \notin {"OFF", "BOUND"} => sta[c].armed

\* No address is leased twice, and what a station uses is leased to it.
LeasesSound == LeaseUnique /\ HeldIsLeased
=============================================================================
