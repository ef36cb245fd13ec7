----------------------------- MODULE DhcpClient -----------------------------
(***************************************************************************)
(* The DHCP client of the lwIP stack (core/dhcp.c), as operators on the    *)
(* record of one interface: struct dhcp and the netif fields it sets.      *)
(*                                                                         *)
(*   st      state            tries   tries (saturating at TriesCap)       *)
(*   armed   request_timeout # 0: dhcp_fine_tmr will call dhcp_timeout     *)
(*   off     offered_ip_addr  lease   the lease the last handled ACK gave, *)
(*                                    in minutes (t0, from which t1, t2)   *)
(*   t1, t2  t1_timeout, t2_timeout: minutes, unsigned, wrapping           *)
(*   ip, up  netif->ip_addr, NETIF_FLAG_UP                                 *)
(*   pcb     the UDP pcb exists: replies reach dhcp_recv                   *)
(*   out     the messages this step sends                                  *)
(*   bump    this step took a new transaction identifier                   *)
(*                                                                         *)
(* The 32-bit transaction identifier is only compared for equality, so a   *)
(* message carries the flag cur: no identifier was taken since it was sent.*)
(* The options a message carries and this client or the server of          *)
(* DhcpServer does not use are left out; address 0 is IP_ADDR_ANY.         *)
(***************************************************************************)
EXTENDS Integers, Sequences

CONSTANTS
  SelectTries,   \* REQUESTs before giving up an offer (5 in dhcp_timeout)
  RebindTries,   \* rebinds before giving up the lease (8)
  RebootTries,   \* REBOOT_TRIES (2)
  CheckTries,    \* ARP probes beyond the first (1)
  MaxRtx,        \* DHCP_MAXRTX; 0 means no limit
  TimerMod       \* 2^16: t1_timeout and t2_timeout are u16_t

Limits == {SelectTries, RebindTries, RebootTries, CheckTries, MaxRtx}

ASSUME ClientAssumption ==
  /\ Limits \subseteq Nat
  /\ TimerMod \in Nat \ {0, 1}

\* Above every limit tries is compared with: counting on changes nothing.
TriesCap == 1 + CHOOSE n \in Limits : \A m \in Limits : m <= n

States == {"OFF", "SELECTING", "REQUESTING", "CHECKING", "BOUND", "RENEWING",
           "REBINDING", "REBOOTING", "BACKING_OFF"}

Blank == [st |-> "OFF", tries |-> 0, armed |-> FALSE, off |-> 0, lease |-> 0,
          t1 |-> 0, t2 |-> 0, ip |-> 0, up |-> FALSE, pcb |-> FALSE,
          bump |-> FALSE, out |-> <<>>]

Stale(msgs) == [i \in DOMAIN msgs |-> [msgs[i] EXCEPT !.cur = FALSE]]

dhcp_set_state(r, s) ==
  IF r.st = s THEN r ELSE [r EXCEPT !.st = s, !.tries = 0, !.armed = FALSE]

\* ciaddr: the interface's address in INFORM and DECLINE, and in the REQUEST
\* that extends a lease.
Ciaddr(r, type) ==
  IF \/ type \in {"INFORM", "DECLINE"}
     \/ type = "REQUEST" /\ r.st \in {"RENEWING", "REBINDING"}
  THEN r.ip ELSE 0

\* A message is made and sent, unless the buffer cannot be allocated (~mem).
dhcp_create_msg(r, type, req, mem) ==
  LET new == type # "REQUEST" /\ r.tries = 0
      msg == [type |-> type, ci |-> Ciaddr(r, type), req |-> req, cur |-> TRUE]
  IN  IF mem THEN [r EXCEPT !.bump = @ \/ new,
                            !.out = Append(IF new THEN Stale(@) ELSE @, msg)]
             ELSE r

\* dhcp->tries++ and a request timeout: what every sender ends with.
Await(r) == [r EXCEPT !.armed = TRUE,
                      !.tries = IF @ < TriesCap THEN @ + 1 ELSE @]

dhcp_discover(r, mem) ==
  Await(dhcp_create_msg(dhcp_set_state([r EXCEPT !.off = 0], "SELECTING"),
                        "DISCOVER", 0, mem))

dhcp_select(r, mem) ==
  Await(dhcp_create_msg(dhcp_set_state(r, "REQUESTING"), "REQUEST", r.off, mem))

\* Mutant: the timeout is set before the state, which clears it.
dhcp_checkSwapped(r) == dhcp_set_state(Await(r), "CHECKING")

\* The ARP query itself is the environment's: see ArpAnswered of DhcpNet.
dhcp_check(r) == Await(dhcp_set_state(r, "CHECKING"))

dhcp_renew(r, mem) ==
  Await(dhcp_create_msg(dhcp_set_state(r, "RENEWING"), "REQUEST", r.off, mem))

dhcp_rebind(r, mem) ==
  Await(dhcp_create_msg(dhcp_set_state(r, "REBINDING"), "REQUEST", r.off, mem))

dhcp_reboot(r, mem) ==
  Await(dhcp_create_msg(dhcp_set_state(r, "REBOOTING"), "REQUEST", r.off, mem))

dhcp_decline(r, mem) ==
  Await(dhcp_create_msg(dhcp_set_state(r, "BACKING_OFF"), "DECLINE", r.off, mem))

\* The offer is cleared before the RELEASE is made, which names no address.
dhcp_release(r, mem) ==
  LET cleared == [dhcp_set_state(r, "OFF") EXCEPT !.off = 0, !.lease = 0]
      sent    == Await(dhcp_create_msg(cleared, "RELEASE", 0, mem))
  IN  [sent EXCEPT !.up = FALSE, !.ip = 0]

\* A period in minutes, at least 1, at most 0xffff.
Timeout(min) == IF min = 0 THEN 1
                ELSE IF min >= TimerMod THEN TimerMod - 1 ELSE min

dhcp_bindT1(r) == Timeout((r.lease + 1) \div 2)
dhcp_bindT2(r) == Timeout(r.lease)

dhcp_bind(r) ==
  dhcp_set_state(
    [r EXCEPT !.t1 = IF dhcp_bindT1(r) >= dhcp_bindT2(r) THEN 0
                     ELSE dhcp_bindT1(r),
              !.t2 = dhcp_bindT2(r), !.ip = r.off, !.up = TRUE],
    "BOUND")

dhcp_handle_nak(r, mem) ==
  dhcp_discover(dhcp_set_state([r EXCEPT !.up = FALSE, !.ip = 0],
                               "BACKING_OFF"), mem)

dhcp_handle_offer(r, m, mem) ==
  dhcp_select([r EXCEPT !.armed = FALSE, !.off = m.yi], mem)

\* The lease times and the address of the ACK are taken over.
dhcp_handle_ack(r, m) == [r EXCEPT !.lease = m.lease, !.off = m.yi]

dhcp_recv(r, m, mem) ==
  LET extending == r.st \in {"REBOOTING", "REBINDING", "RENEWING"}
  IN  IF ~m.cur THEN r
      ELSE CASE m.type = "ACK" /\ r.st = "REQUESTING" ->
                  dhcp_check(dhcp_handle_ack(r, m))
             [] m.type = "ACK" /\ extending -> dhcp_bind(r)
             [] m.type = "NAK" /\ (extending \/ r.st = "REQUESTING") ->
                  dhcp_handle_nak(r, mem)
             [] m.type = "OFFER" /\ r.st = "SELECTING" ->
                  dhcp_handle_offer(r, m, mem)
             [] OTHER -> r

dhcp_arp_reply(r, addr, mem) ==
  IF r.st = "CHECKING" /\ addr = r.off THEN dhcp_decline(r, mem) ELSE r

dhcp_timeout(r, mem) ==
  CASE r.st \in {"BACKING_OFF", "SELECTING"} -> dhcp_discover(r, mem)
    [] r.st = "REQUESTING" ->
         IF r.tries <= SelectTries THEN dhcp_select(r, mem)
         ELSE dhcp_discover(dhcp_release(r, mem), mem)
    [] r.st = "CHECKING" ->
         IF r.tries <= CheckTries THEN dhcp_check(r) ELSE dhcp_bind(r)
    [] r.st = "RENEWING" -> dhcp_renew(r, mem)
    [] r.st = "REBINDING" ->
         IF r.tries <= RebindTries THEN dhcp_rebind(r, mem)
         ELSE dhcp_discover(dhcp_release(r, mem), mem)
    [] r.st = "REBOOTING" ->
         IF r.tries < RebootTries THEN dhcp_reboot(r, mem)
         ELSE dhcp_discover(r, mem)
    [] OTHER -> r

\* Every 500 ms.  How many periods a timeout lasts is not modelled: an armed
\* timeout may run out at any tick.  Past MaxRtx tries no timeout runs out.
GaveUp(r) == MaxRtx # 0 /\ r.tries >= MaxRtx

dhcp_fine_tmr(r, mem) == dhcp_timeout([r EXCEPT !.armed = FALSE], mem)

dhcp_t1_timeout(r, mem) ==
  IF r.st \in {"REQUESTING", "BOUND", "RENEWING"} THEN dhcp_renew(r, mem) ELSE r

dhcp_t2_timeout(r, mem) ==
  IF r.st \in {"REQUESTING", "BOUND", "RENEWING"} THEN dhcp_rebind(r, mem) ELSE r

\* Every minute.  A timer at 0 is decremented as well and wraps.
Dec(t) == (t + TimerMod - 1) % TimerMod

dhcp_coarse_tmr(r, mem) ==
  LET s == [r EXCEPT !.t2 = Dec(@)]
      u == [s EXCEPT !.t1 = Dec(@)]
  IN  IF r.t2 = 1 THEN dhcp_t2_timeout(s, mem)
      ELSE IF r.t1 = 1 THEN dhcp_t1_timeout(u, mem) ELSE u

\* The structure is cleared and the pcb made anew; the interface keeps its
\* address.  If the DISCOVER cannot be made, the client is stopped again.
dhcp_stop(r) == dhcp_set_state([r EXCEPT !.pcb = FALSE], "OFF")

dhcp_start(r, mem) ==
  LET s == dhcp_discover([Blank EXCEPT !.ip = r.ip, !.up = r.up, !.pcb = TRUE],
                         mem)
  IN  IF mem THEN s ELSE dhcp_stop(s)

\* The link comes up again (netif_set_link_up).
dhcp_network_changed(r, mem) ==
  LET s == [r EXCEPT !.tries = 0]
  IN  CASE r.st \in {"REBINDING", "RENEWING", "BOUND", "REBOOTING"} ->
             dhcp_reboot([s EXCEPT !.up = FALSE], mem)
        [] r.st = "OFF" -> r
        [] OTHER -> dhcp_discover(s, mem)
=============================================================================
