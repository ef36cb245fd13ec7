------------------------------- MODULE Autoip -------------------------------
(***************************************************************************)
(* Link-local addresses without a server (core/ipv4/autoip.c): several     *)
(* hosts that run the code on one network, each probing, announcing and    *)
(* defending an address, and an outsider that uses one without asking.     *)
(*                                                                         *)
(* An ARP packet is heard by every other host before the next tick of the  *)
(* timers, which are AUTOIP_TMR_INTERVAL apart.  The pseudo-random waits   *)
(* are computed from the hardware address as in the code.                  *)
(***************************************************************************)
EXTENDS Integers, FiniteSets

CONSTANTS
  Hosts,
  Hwaddr,            \* the numbers LWIP_AUTOIP_RAND and LWIP_AUTOIP_CREATE_SEED_ADDR take from it, [rand, seed]
  Space,             \* the size of 169.254.0.0/16
  RangeStart,        \* AUTOIP_RANGE_START
  RangeEnd,          \* AUTOIP_RANGE_END
  TicksPerSecond,    \* AUTOIP_TICKS_PER_SECOND
  MaxConflicts,      \* MAX_CONFLICTS
  RateLimit,         \* RATE_LIMIT_INTERVAL, in ticks
  DefendInterval,    \* DEFEND_INTERVAL, in ticks
  Outsiders,         \* the addresses a host that does not run autoip may use
  MaxForeign,        \* bound: ARP packets of the outsider
  MaxChanges         \* bound: calls of the application, and starts beyond the first

PROBE_WAIT == 1
PROBE_MIN == 1
PROBE_MAX == 2
PROBE_NUM == 3
ANNOUNCE_NUM == 2
ANNOUNCE_INTERVAL == 2
ANNOUNCE_WAIT == 2

AutoipAssumption ==
  /\ {RangeStart, RangeEnd, Space, TicksPerSecond, MaxConflicts, RateLimit, DefendInterval,
      MaxForeign, MaxChanges} \subseteq Nat
  /\ 0 < RangeStart /\ RangeStart < RangeEnd /\ RangeEnd < Space - 1 /\ TicksPerSecond > 0
  /\ Hwaddr \in [Hosts -> [rand : Nat, seed : 0 .. Space - 1]]
  /\ Outsiders \subseteq 0 .. Space - 1

Zero == -1

VARIABLES
  autoip,    \* [state, llipaddr, sent_num, ttw, lastconflict, tried] of each host
  netif,     \* [up, ip] of each host
  ticked,    \* the hosts whose timer has run in this interval
  heard,     \* the ARP packets under way, [to, sip, dip, from]
  foreign,   \* how many packets the outsider sent
  changes    \* how many calls the application made

autoipVars == <<autoip, netif, ticked, heard, foreign, changes>>

Init ==
  /\ autoip = [h \in Hosts |-> [state |-> "off", llipaddr |-> Zero, sent_num |-> 0, ttw |-> 0,
                                lastconflict |-> 0, tried |-> 0]]
  /\ netif = [h \in Hosts |-> [up |-> FALSE, ip |-> Zero]]
  /\ ticked = {}
  /\ heard = {}
  /\ foreign = 0
  /\ changes = 0

-----------------------------------------------------------------------------
LWIP_AUTOIP_RAND(h, a) == Hwaddr[h].rand + a.tried

\* The seed and the number of tries, brought into the range.
autoip_create_addr(h, a) ==
  LET addr == (Hwaddr[h].seed + a.tried) % Space
      size == RangeEnd - RangeStart + 1
  IN  IF addr < RangeStart THEN addr + size
      ELSE IF addr > RangeEnd THEN addr - size
      ELSE addr

autoip_start_probing(h, a) ==
  [a EXCEPT !.state = "probing", !.sent_num = 0,
            !.ttw = IF a.tried > MaxConflicts THEN RateLimit
                    ELSE LWIP_AUTOIP_RAND(h, a) % (PROBE_WAIT * TicksPerSecond)]

\* autoip_start on the struct; the interface goes down and loses its addresses.
Started(h, a) ==
  autoip_start_probing(h, [a EXCEPT !.llipaddr = autoip_create_addr(h, a), !.lastconflict = 0])

Down == [up |-> FALSE, ip |-> Zero]

autoip_restart(h) ==
  /\ autoip' = [autoip EXCEPT ![h] = Started(h, [autoip[h] EXCEPT !.tried = (@ + 1) % 256])]
  /\ netif' = [netif EXCEPT ![h] = Down]

\* A broadcast reaches all the others.
Broadcast(h, sip, dip) == {[to |-> g, sip |-> sip, dip |-> dip, from |-> h] : g \in Hosts \ {h}}

-----------------------------------------------------------------------------
Changed == changes < MaxChanges /\ changes' = changes + 1

autoip_start(h) ==
  /\ IF autoip[h].llipaddr = Zero THEN UNCHANGED changes ELSE Changed
  /\ autoip' = [autoip EXCEPT ![h] = Started(h, @)]
  /\ netif' = [netif EXCEPT ![h] = Down]
  /\ UNCHANGED <<ticked, heard, foreign>>

autoip_stop(h) ==
  /\ Changed
  /\ autoip[h].llipaddr # Zero
  /\ autoip' = [autoip EXCEPT ![h].state = "off"]
  /\ netif' = [netif EXCEPT ![h].up = FALSE]
  /\ UNCHANGED <<ticked, heard, foreign>>

\* The same address is probed again.
autoip_network_changed(h) ==
  /\ Changed
  /\ autoip[h].state # "off"
  /\ autoip' = [autoip EXCEPT ![h] = autoip_start_probing(h, @)]
  /\ netif' = [netif EXCEPT ![h].up = FALSE]
  /\ UNCHANGED <<ticked, heard, foreign>>

\* The timer of a host that is probing, announcing or neither.
Waited(a) == [a EXCEPT !.ttw = @ - 1]

Probing(h, a) ==
  IF a.sent_num >= PROBE_NUM
  THEN [a EXCEPT !.state = "announcing", !.sent_num = 0, !.ttw = ANNOUNCE_WAIT * TicksPerSecond]
  ELSE [a EXCEPT !.sent_num = @ + 1,
                 !.ttw = (LWIP_AUTOIP_RAND(h, a) % ((PROBE_MAX - PROBE_MIN) * TicksPerSecond))
                         + PROBE_MIN * TicksPerSecond]

Announcing(a) ==
  IF a.sent_num + 1 >= ANNOUNCE_NUM
  THEN [a EXCEPT !.state = "bound", !.sent_num = 0, !.ttw = 0]
  ELSE [a EXCEPT !.sent_num = @ + 1, !.ttw = ANNOUNCE_INTERVAL * TicksPerSecond]

autoip_tmr(h) ==
  LET a == [autoip[h] EXCEPT !.lastconflict = IF @ > 0 THEN @ - 1 ELSE 0]
      acts == a.ttw = 0
      probe == a.state = "probing" /\ acts /\ a.sent_num < PROBE_NUM
      binds == a.state = "announcing" /\ acts /\ a.sent_num = 0
      announce == a.state = "announcing" /\ acts /\ a.sent_num > 0
  IN  /\ h \notin ticked
      /\ ticked' = ticked \cup {h}
      /\ autoip' = [autoip EXCEPT ![h] =
           CASE a.state \notin {"probing", "announcing"} -> a
             [] a.state \in {"probing", "announcing"} /\ ~acts -> Waited(a)
             [] a.state = "probing" /\ acts -> Probing(h, a)
             [] OTHER -> Announcing(a)]
      /\ netif' = IF binds THEN [netif EXCEPT ![h] = [up |-> TRUE, ip |-> a.llipaddr]] ELSE netif
      /\ heard' = heard \cup (IF probe THEN Broadcast(h, Zero, a.llipaddr) ELSE {})
                        \cup (IF announce THEN Broadcast(h, a.llipaddr, a.llipaddr) ELSE {})
      /\ UNCHANGED <<foreign, changes>>

\* The interval ends when every timer has run and every packet was heard.
Interval ==
  /\ ticked = Hosts /\ heard = {}
  /\ ticked' = {}
  /\ UNCHANGED <<autoip, netif, heard, foreign, changes>>

\* autoip_handle_arp_conflict: announce once, give way to a second conflict.
autoip_handle_arp_conflict(h) ==
  IF autoip[h].lastconflict > 0
  THEN autoip_restart(h)
  ELSE /\ autoip' = [autoip EXCEPT ![h].lastconflict = DefendInterval]
       /\ UNCHANGED netif

\* While the address is not used yet, whoever asks for it is a rival as well.
Conflict(h, m) ==
  \/ m.sip = autoip[h].llipaddr
  \/ m.dip = autoip[h].llipaddr /\ m.from # h

\* etharp_arp_input: autoip_arp_reply sees the packet first, then a request for the
\* address of the interface is answered.
autoip_arp_reply(m) ==
  LET h == m.to
      a == autoip[h]
      unsure == a.state = "probing" \/ (a.state = "announcing" /\ a.sent_num = 0)
      rival == a.state # "off" /\ unsure /\ Conflict(h, m)
      clash == a.state # "off" /\ ~unsure /\ m.sip = a.llipaddr /\ m.from # h
      defend == clash /\ a.lastconflict = 0
      gone == rival \/ (clash /\ ~defend)
      reply == ~gone /\ netif[h].up /\ m.dip = netif[h].ip /\ m.from \in Hosts
  IN  /\ m \in heard
      /\ heard' = (heard \ {m})
                    \cup (IF defend THEN Broadcast(h, a.llipaddr, a.llipaddr) ELSE {})
                    \cup (IF reply THEN {[to |-> m.from, sip |-> netif[h].ip, dip |-> m.sip, from |-> h]}
                          ELSE {})
      /\ \/ rival /\ autoip_restart(h)
         \/ clash /\ autoip_handle_arp_conflict(h)
         \/ ~rival /\ ~clash /\ UNCHANGED <<autoip, netif>>
      /\ UNCHANGED <<ticked, foreign, changes>>

\* The outsider announces an address, and hears nothing.
Foreign(ip) ==
  /\ foreign < MaxForeign
  /\ foreign' = foreign + 1
  /\ heard' = heard \cup {[to |-> h, sip |-> ip, dip |-> ip, from |-> "outsider"] : h \in Hosts}
  /\ UNCHANGED <<autoip, netif, ticked, changes>>

Next ==
  \/ \E h \in Hosts : \/ autoip_start(h)
                      \/ autoip_stop(h)
                      \/ autoip_network_changed(h)
                      \/ autoip_tmr(h)
  \/ \E m \in heard : autoip_arp_reply(m)
  \/ \E ip \in Outsiders : Foreign(ip)
  \/ Interval

\* The timers run and packets are delivered; what the application does is up to it.
Fairness == WF_autoipVars(Interval \/ (\E h \in Hosts : autoip_tmr(h))
                            \/ (\E m \in heard : autoip_arp_reply(m)))

Spec == Init /\ [][Next]_autoipVars /\ Fairness

-----------------------------------------------------------------------------
\* Two hosts never use one address at the same time, whenever they start, change networks
\* or give way: an address is taken up only after PROBE_NUM probes that nobody objected to
\* and ANNOUNCE_WAIT (autoip_tmr, autoip_arp_reply), and all addresses stay in the range
\* RFC 3927 allows (autoip_create_addr).
NoClash ==
  /\ \A g, h \in Hosts : g # h /\ netif[g].up /\ netif[h].up => netif[g].ip # netif[h].ip
  /\ \A h \in Hosts : netif[h].up => netif[h].ip \in RangeStart .. RangeEnd

\* A host that keeps being wanted comes to an address: conflicts with rivals that run the
\* same code end (autoip_restart steps both along the same list of addresses).
ComesToAnAddress ==
  \A h \in Hosts : []<>(autoip[h].state \in {"bound", "off"})
=============================================================================
