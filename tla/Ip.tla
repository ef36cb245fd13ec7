--------------------------------- MODULE Ip ---------------------------------
(***************************************************************************)
(* The IP layer (core/ipv4/ip.c), ICMP (core/ipv4/icmp.c), raw protocol    *)
(* control blocks (core/raw.c), the interface list with its loopback       *)
(* queues (core/netif.c) and the ping client (app/ping.c), which is an     *)
(* application of the raw blocks.  The SDK is built without "forward"      *)
(* (IP_FORWARD) and without "loopback" (ENABLE_LOOPBACK).                  *)
(*                                                                         *)
(* An interface stands for its own address.  A checksum is kept as what    *)
(* the fields it covers add up to: `rest` for the fields that no code here *)
(* changes, plus the time to live, or the type of an ICMP message.         *)
(***************************************************************************)
EXTENDS Integers, Sequences, FiniteSets, SequencesExt

CONSTANTS
  Ifs, Station,        \* interfaces; eagle_lwip_getif(0)
  PeersOf, NetBcast,   \* hosts and broadcast address of each one's network
  Outside,             \* hosts of no network of ours
  Group,               \* a multicast address every interface has joined
  AnyAddr, Broadcast, NoNetif,
  Raws, Pings,         \* what raw_new and ping_start can allocate
  NoPcb,
  Builds,              \* sets of compile-time options to look at
  MaxLoop,             \* LWIP_LOOPBACK_MAX_PBUFS
  ChkMod,              \* 2^16: the values of a checksum field
  SeqNums,              \* 0x8000: the values of ping_seq_num
  Count,               \* requests of one ping
  DefaultTtl, DefaultMtu,
  RawProtos, Targets,  \* what applications open raw blocks for, send to
  Packets,             \* what may arrive from the network
  Steady               \* the station was set up before and is left alone

IpAssumption ==
  /\ Steady \in BOOLEAN /\ Station \in Ifs /\ Builds \subseteq SUBSET {"forward", "loopback"}
  /\ Cardinality(Pings) <= Cardinality(Raws)
  /\ {ChkMod, SeqNums, Count, MaxLoop, DefaultTtl, DefaultMtu} \subseteq Nat \ {0}

VARIABLES
  build,
  netif_list, up, netif_default,
  mtu,
  loop,            \* loop_first .. loop_last of each interface
  raw_pcbs, raw,   \* the list and the fields of each block
  ping,            \* each struct ping_msg, with what it has reported
  ping_seq_num, seqno,
  asker,           \* history: the ping that drew ping_seq_num, NoPcb once it ended
  came,            \* the packet the last step took in, << >> or one
  wire             \* what the last step gave to netif->output, << >> or one

ipVars == <<build, netif_list, up, netif_default, mtu, loop, raw_pcbs, raw, ping,
            ping_seq_num, seqno, asker, came, wire>>

Listed == Range(netif_list)

-----------------------------------------------------------------------------
(* Addresses, checksums, packets.                                          *)

ip_addr_isbroadcast(a, n) == a \in {AnyAddr, Broadcast, NetBcast[n]}

TypeNo(type) ==
  CASE type = "echo" -> 8 [] type = "unreach" -> 3 [] type = "exceeded" -> 11
    [] OTHER -> 0

\* inet_chksum: one's complement arithmetic is arithmetic modulo 2^16 - 1
HeaderOk(p) == (p.rest + p.ttl + p.chk) % (ChkMod - 1) = 0
MessageOk(p) == (p.irest + TypeNo(p.type) + p.ichk) % (ChkMod - 1) = 0
Complement(sum) == (0 - sum) % (ChkMod - 1)

\* The checksum after a field it covers went down by step (ip_forward,
\* icmp_input): the carry is added in again.
Bumped(chk, step) ==
  IF chk >= ChkMod - 1 - step THEN (chk + step + 1) % ChkMod ELSE chk + step

\* A packet the device builds: ip_output_if_opt writes the header.
Built(src, dest, proto, type, id, seq) ==
  [src |-> src, dest |-> dest, ttl |-> DefaultTtl, rest |-> 0,
   chk |-> Complement(DefaultTtl), proto |-> proto, form |-> "good",
   type |-> type, irest |-> 0, ichk |-> Complement(TypeNo(type)),
   id |-> id, seq |-> seq, mtu |-> 0, deep |-> "short"]

\* ip_route: the interfaces it may return, none or one.
ip_route(dest) ==
  LET near == {k \in DOMAIN netif_list :
                 /\ netif_list[k] \in up
                 /\ dest \in PeersOf[netif_list[k]] \union {netif_list[k], NetBcast[netif_list[k]]}}
  IN  IF near # {} THEN {netif_list[CHOOSE k \in near : \A j \in near : k <= j]}
      ELSE IF Station \in Listed \intersect up /\ ~ ip_addr_isbroadcast(dest, Station)
             THEN {Station}
      ELSE {netif_default} \intersect up

\* ip_output_if_opt: a packet to the interface's own address is queued for
\* netif_poll (netif_loop_output) while there is room and memory.
Emit(queues, out) ==
  IF "loopback" \in build /\ out # << >> /\ out[1].p.dest = out[1].via
    THEN /\ wire' = << >>
         /\ \/ loop' = queues
            \/ /\ Len(queues[out[1].via]) < MaxLoop
               /\ loop' = [queues EXCEPT ![out[1].via] = Append(@, out[1].p)]
    ELSE wire' = out /\ loop' = queues

\* ip_output with the outgoing interface's address as the source.
ip_output(dest, proto, type) ==
  LET via == ip_route(dest)
  IN  IF via = {} THEN << >>
      ELSE LET n == CHOOSE i \in via : TRUE
           IN  <<[via |-> n, p |-> Built(n, dest, proto, type, "none", 0)]>>

\* icmp_dest_unreach, icmp_time_exceeded; the allocation may fail.
icmp_send_response(p, type) == {<< >>, ip_output(p.src, "icmp", type)}

-----------------------------------------------------------------------------
(* Input.                                                                  *)

\* ip_input: some interface takes the packet as its own; DHCP's ports are
\* taken whatever the address.
ForUs(p, n) ==
  \/ p.dest = Group
  \/ \E m \in up \intersect (Listed \union {n}) : p.dest = m \/ ip_addr_isbroadcast(p.dest, m)

BadSource(p, n) ==
  /\ p.src # AnyAddr
  /\ p.src = Group \/ ip_addr_isbroadcast(p.src, n)

\* ip_input goes on to raw_input and the protocols.
Delivered(p, n) ==
  /\ p.form = "good" /\ HeaderOk(p)
  /\ IF ForUs(p, n) THEN ~ BadSource(p, n) ELSE p.proto = "dhcp"

\* ip_input hands it to ip_forward.
Passed(p, n) ==
  /\ "forward" \in build
  /\ p.form # "malformed" /\ HeaderOk(p)
  /\ ~ ForUs(p, n) /\ p.proto # "dhcp" /\ ~ BadSource(p, n)
  /\ ~ ip_addr_isbroadcast(p.dest, n)

\* What ip_forward sends, one of a set.
ip_forward(p, n) ==
  LET out == ip_route(p.dest) \ {n}
      q == [p EXCEPT !.ttl = (@ - 1) % 256, !.chk = Bumped(@, 1)]
  IN  IF out = {} THEN {<< >>}
      ELSE IF q.ttl = 0
        THEN IF p.proto = "icmp" THEN {<< >>} ELSE icmp_send_response(p, "exceeded")
      ELSE {<<[via |-> CHOOSE i \in out : TRUE, p |-> q]>>}

Protocol(p) == IF p.proto = "dhcp" THEN "udp" ELSE p.proto

\* The blocks raw_input calls, by their place in the list.
Wanted(p, k) ==
  /\ raw[raw_pcbs[k]].proto = Protocol(p)
  /\ raw[raw_pcbs[k]].lip \in {AnyAddr, p.dest}

\* A ping's callback before place k has moved the payload on by the length
\* of an IP header and has not moved it back.
Shifted(p, k) ==
  \E j \in 1 .. k - 1 : Wanted(p, j) /\ raw[raw_pcbs[j]].recv = "ping"

\* ping_recv knows the answer to the last request by the identifier and the
\* sequence number.
Expected(p) == p.type = "reply" /\ p.id = "ours" /\ p.seq = ping_seq_num

Eats(p, k) ==
  /\ Wanted(p, k)
  /\ \/ raw[raw_pcbs[k]].recv = "eat"
     \/ raw[raw_pcbs[k]].recv = "ping" /\ ~ Shifted(p, k) /\ Expected(p)

\* The place where raw_input stops, none or one.
Eater(p) ==
  {k \in DOMAIN raw_pcbs : Eats(p, k) /\ \A j \in 1 .. k - 1 : ~ Eats(p, j)}

\* ping_recv: the timeout is taken back and the answer is reported, to
\* whichever ping owns the block; `own` counts the answers it had asked for.
\* Late answers, which other pings can draw without end, count to Count + 1.
Answered(m) ==
  LET q == [ping[m] EXCEPT !.own = IF asker = m THEN @ + 1 ELSE @]
  IN  IF q.waiting THEN [q EXCEPT !.waiting = FALSE, !.answers = @ + 1]
      ELSE [q EXCEPT !.late = IF @ > Count THEN @ ELSE @ + 1]

\* ping_recv, when block u has eaten the packet: a second copy is eaten too
\* but not reported.
ping_recv(u, p) ==
  IF raw[u].recv = "ping" /\ p.seq # seqno
    THEN /\ seqno' = p.seq
         /\ ping' = [m \in Pings |-> IF ping[m].pcb = u THEN Answered(m) ELSE ping[m]]
    ELSE UNCHANGED <<seqno, ping>>

\* icmp_input: what it sends, one of a set, and the mtu it leaves.  The
\* answer to an echo request goes out where the request came in.
Echoed(p) ==
  [p EXCEPT !.src = p.dest, !.dest = p.src, !.type = "reply", !.ttl = DefaultTtl,
            !.ichk = Bumped(@, 8), !.chk = Complement(p.rest + DefaultTtl)]

EchoTaken(p, n) ==
  /\ p.type = "echo" /\ MessageOk(p)
  /\ p.dest # Group /\ ~ ip_addr_isbroadcast(p.dest, n)

\* What type the message seems to have: where a ping has moved the payload
\* on, icmp_input takes the message for an IP header and its type for the
\* length of one, which a reply's 0 leaves where it is.
SeemsType(p, shifted) ==
  IF shifted /\ p.type # "reply" THEN p.deep ELSE p.type

icmp_input(p, n, shifted) ==
  IF EchoTaken(p, n) /\ ~ shifted
    THEN {<< >>, <<[via |-> n, p |-> Echoed(p)]>>}
    ELSE {<< >>}

NextMtu(p, n, shifted) ==
  IF p.proto = "icmp" /\ SeemsType(p, shifted) = "unreach" /\ p.mtu # 0
    THEN p.mtu ELSE mtu[n]

\* The default case of ip_input's switch.
NoProtocol(p, n) ==
  IF ip_addr_isbroadcast(p.dest, n) \/ p.dest = Group THEN {<< >>}
  ELSE icmp_send_response(p, "unreach")

Upward(p, n, shifted) ==
  CASE p.proto = "icmp" -> icmp_input(p, n, shifted)
    [] p.proto = "other" -> NoProtocol(p, n)
    [] OTHER -> {<< >>}

\* The history of the step: the packet, where it came in, whether a block
\* ate it, and whether memory ran out for the answer.
Note(p, n, eaten, starved) ==
  came' = <<[p |-> p, inp |-> n, eaten |-> eaten, starved |-> starved]>>

\* One of the outcomes; the empty one, where another is possible, is that
\* of an allocation that failed.
Outcome(p, n, outs, queues) ==
  \E out \in outs :
    /\ Emit(queues, out)
    /\ Note(p, n, FALSE, out = << >> /\ outs # {<< >>})

MovedToFront(list, k) == <<list[k]>> \o RemoveAt(list, k)

ip_input(p, n, queues) ==
  /\ \/ /\ Delivered(p, n)
        /\ \E k \in Eater(p) :
             /\ raw_pcbs' = MovedToFront(raw_pcbs, k)
             /\ ping_recv(raw_pcbs[k], p)
             /\ Note(p, n, TRUE, FALSE)
        /\ Emit(queues, << >>)
        /\ UNCHANGED mtu
     \/ /\ Delivered(p, n)
        /\ Eater(p) = {}
        /\ LET shifted == Shifted(p, Len(raw_pcbs) + 1)
           IN  /\ Outcome(p, n, Upward(p, n, shifted), queues)
               /\ mtu' = [mtu EXCEPT ![n] = NextMtu(p, n, shifted)]
        /\ UNCHANGED <<raw_pcbs, ping, seqno>>
     \/ /\ Passed(p, n)
        /\ Outcome(p, n, ip_forward(p, n), queues)
        /\ UNCHANGED <<mtu, raw_pcbs, ping, seqno>>
     \/ /\ ~ Delivered(p, n) /\ ~ Passed(p, n)
        /\ Outcome(p, n, {<< >>}, queues)
        /\ UNCHANGED <<mtu, raw_pcbs, ping, seqno>>
  /\ UNCHANGED <<build, netif_list, up, netif_default, raw, ping_seq_num, asker>>

\* The driver hands a packet over.
Arrives(n) ==
  /\ n \in Listed
  /\ \E p \in Packets : ip_input(p, n, loop)

\* One round of netif_poll.
netif_poll(n) ==
  /\ n \in Listed
  /\ loop[n] # << >>
  /\ ip_input(Head(loop[n]), n, [loop EXCEPT ![n] = Tail(@)])

-----------------------------------------------------------------------------
(* Raw blocks and pings.                                                   *)

ZeroRaw == [proto |-> "none", lip |-> AnyAddr, recv |-> "none"]

FreeRaws == Raws \ Range(raw_pcbs)
PingRaws == {ping[m].pcb : m \in Pings} \ {NoPcb}

raw_removed(u) == SelectSeq(raw_pcbs, LAMBDA v : v # u)

Quiet == came' = << >>

raw_new(u, proto) ==
  /\ u \in FreeRaws
  /\ raw_pcbs' = <<u>> \o raw_pcbs
  /\ raw' = [raw EXCEPT ![u] = [ZeroRaw EXCEPT !.proto = proto]]
  /\ Quiet /\ Emit(loop, << >>)
  /\ UNCHANGED <<build, netif_list, up, netif_default, mtu, ping, ping_seq_num, seqno, asker>>

\* raw_bind and raw_recv of an application.
raw_set(u) ==
  /\ u \in Range(raw_pcbs) \ PingRaws
  /\ \/ \E ip \in Ifs : raw' = [raw EXCEPT ![u].lip = ip]
     \/ \E r \in {"eat", "pass"} : raw' = [raw EXCEPT ![u].recv = r]
  /\ Quiet /\ Emit(loop, << >>)
  /\ UNCHANGED <<build, netif_list, up, netif_default, mtu, raw_pcbs, ping, ping_seq_num, seqno, asker>>

\* raw_sendto: what it gives to ip_output_if.
raw_sendto(lip, dest, proto, type, id, seq) ==
  LET via == ip_route(dest)
  IN  IF via = {} THEN << >>
      ELSE LET n == CHOOSE i \in via : TRUE
               src == IF lip = AnyAddr THEN n ELSE lip
           IN  <<[via |-> n, p |-> Built(src, dest, proto, type, id, seq)]>>

\* raw_send to the address of raw_connect.
AppSends(u, dest) ==
  /\ u \in Range(raw_pcbs) \ PingRaws
  /\ Emit(loop, raw_sendto(raw[u].lip, dest, raw[u].proto, "none", "none", 0))
  /\ Quiet
  /\ UNCHANGED <<build, netif_list, up, netif_default, mtu, raw_pcbs, raw, ping, ping_seq_num, seqno, asker>>

raw_remove(u) ==
  /\ u \in Range(raw_pcbs) \ PingRaws
  /\ raw_pcbs' = raw_removed(u)
  /\ raw' = [raw EXCEPT ![u] = ZeroRaw]
  /\ Quiet /\ Emit(loop, << >>)
  /\ UNCHANGED <<build, netif_list, up, netif_default, mtu, ping, ping_seq_num, seqno, asker>>

\* ping_prepare_echo
NextSeq == IF ping_seq_num + 1 = SeqNums - 1 THEN 0 ELSE ping_seq_num + 1

\* ping_send, from the pings that were brought up to date for it: without
\* memory no request is made.
ping_send(m, pings) ==
  \/ /\ ping_seq_num' = NextSeq
     /\ asker' = m
     /\ Emit(loop, raw_sendto(AnyAddr, pings[m].dest, "icmp", "echo", "ours", NextSeq))
     /\ ping' = [pings EXCEPT ![m].sent = @ + 1]
  \/ /\ UNCHANGED <<ping_seq_num, asker>>
     /\ Emit(loop, << >>)
     /\ ping' = pings

\* History: `sent` requests were made, `own` of them reported as answered, and
\* no other ping has been under way at the same time (`alone`).
NoPing == [pcb |-> NoPcb, dest |-> AnyAddr, left |-> 0, waiting |-> FALSE,
           asked |-> 0, timeouts |-> 0, answers |-> 0, late |-> 0,
           sent |-> 0, own |-> 0, alone |-> TRUE]

\* ping_start, ping_raw_init
ping_start(m, u, dest) ==
  /\ ping[m].pcb = NoPcb
  /\ u \in FreeRaws
  /\ raw_pcbs' = <<u>> \o raw_pcbs
  /\ raw' = [raw EXCEPT ![u] = [proto |-> "icmp", lip |-> AnyAddr, recv |-> "ping"]]
  /\ LET others == {o \in Pings : ping[o].pcb # NoPcb}
     IN  ping_send(m, [o \in Pings |->
           IF o = m THEN [NoPing EXCEPT !.pcb = u, !.dest = dest, !.left = Count, !.waiting = TRUE,
                                        !.asked = 1, !.alone = others = {}]
           ELSE [ping[o] EXCEPT !.alone = @ /\ o \notin others]])
  /\ Quiet
  /\ UNCHANGED <<build, netif_list, up, netif_default, mtu, seqno>>

ping_timeout(m) ==
  /\ ping[m].waiting
  /\ ping' = [ping EXCEPT ![m].waiting = FALSE, ![m].timeouts = @ + 1]
  /\ Quiet /\ Emit(loop, << >>)
  /\ UNCHANGED <<build, netif_list, up, netif_default, mtu, raw_pcbs, raw, ping_seq_num, seqno, asker>>

\* ping_coarse_tmr.  Its period is no shorter than PING_TIMEOUT_MS and it is
\* set after ping_timeout, so the timeout of the request comes first.
ping_coarse_tmr(m) ==
  /\ ping[m].pcb # NoPcb
  /\ ~ ping[m].waiting
  /\ Quiet
  /\ \/ /\ ping[m].left > 1
        /\ ping_send(m, [ping EXCEPT ![m].left = @ - 1, ![m].waiting = TRUE, ![m].asked = @ + 1])
        /\ UNCHANGED <<raw_pcbs, raw>>
     \/ /\ ping[m].left = 1
        /\ ping' = [ping EXCEPT ![m] = NoPing]
        /\ raw_pcbs' = raw_removed(ping[m].pcb)
        /\ raw' = [raw EXCEPT ![ping[m].pcb] = ZeroRaw]
        /\ Emit(loop, << >>)
        /\ asker' = IF asker = m THEN NoPcb ELSE asker
        /\ UNCHANGED ping_seq_num
  /\ UNCHANGED <<build, netif_list, up, netif_default, mtu, seqno>>

-----------------------------------------------------------------------------
(* Interfaces.                                                             *)

\* netif_add; when the driver's init fails the interface stays off the list.
netif_add(n) ==
  /\ n \notin Listed
  /\ netif_list' \in {netif_list, <<n>> \o netif_list}
  /\ up' = up \ {n}
  /\ mtu' = [mtu EXCEPT ![n] = DefaultMtu]
  /\ Emit([loop EXCEPT ![n] = << >>], << >>)
  /\ Quiet
  /\ UNCHANGED <<build, netif_default, raw_pcbs, raw, ping, ping_seq_num, seqno, asker>>

\* netif_remove leaves what is in the loopback queue.
netif_remove(n) ==
  /\ n \in Listed
  /\ netif_list' = SelectSeq(netif_list, LAMBDA m : m # n)
  /\ up' = up \ {n}
  /\ netif_default' = IF netif_default = n THEN NoNetif ELSE netif_default
  /\ Emit(loop, << >>)
  /\ Quiet
  /\ UNCHANGED <<build, mtu, raw_pcbs, raw, ping, ping_seq_num, seqno, asker>>

\* netif_set_up, netif_set_down, netif_set_default
netif_set(n) ==
  /\ n \in Listed
  /\ \/ up' \in {up \union {n}, up \ {n}} /\ UNCHANGED netif_default
     \/ netif_default' = n /\ UNCHANGED up
  /\ Emit(loop, << >>)
  /\ Quiet
  /\ UNCHANGED <<build, netif_list, mtu, raw_pcbs, raw, ping, ping_seq_num, seqno, asker>>

Init ==
  /\ build \in Builds
  /\ IF Steady THEN netif_list = <<Station>> /\ up = {Station} /\ netif_default = Station
     ELSE netif_list = << >> /\ up = {} /\ netif_default = NoNetif
  /\ mtu = [n \in Ifs |-> DefaultMtu]
  /\ loop = [n \in Ifs |-> << >>]
  /\ raw_pcbs = << >> /\ raw = [u \in Raws |-> ZeroRaw]
  /\ ping = [m \in Pings |-> NoPing]
  /\ ping_seq_num = 0 /\ seqno = 0 /\ asker = NoPcb
  /\ came = << >> /\ wire = << >>

\* What a step took in and sent is looked at once.
Settled == came = << >> /\ wire = << >>
Settle == ~ Settled /\ Quiet /\ Emit(loop, << >>)
          /\ UNCHANGED <<build, netif_list, up, netif_default, mtu, raw_pcbs, raw, ping, ping_seq_num, seqno, asker>>

Step ==
  \/ \E n \in Ifs : Arrives(n) \/ netif_poll(n)
  \/ ~ Steady /\ \E n \in Ifs : netif_add(n) \/ netif_remove(n) \/ netif_set(n)
  \/ \E u \in Raws :
       \/ \E proto \in RawProtos : raw_new(u, proto)
       \/ raw_set(u) \/ raw_remove(u)
       \/ \E dest \in Targets : AppSends(u, dest)
       \/ \E m \in Pings, dest \in Targets : ping_start(m, u, dest)
  \/ \E m \in Pings : ping_timeout(m) \/ ping_coarse_tmr(m)

Next == (Settled /\ Step) \/ Settle

Spec == Init /\ [][Next]_ipVars

-----------------------------------------------------------------------------
(* Properties.                                                             *)

\* What leaves has checksums a receiver accepts, however the incremental
\* update met the carry, and time to live (ip_forward, icmp_input).
WireSound ==
  \A k \in DOMAIN wire :
    LET p == wire[k].p
    IN  HeaderOk(p) /\ p.ttl > 0 /\ (p.proto = "icmp" /\ p.src \in Ifs => MessageOk(p))

\* A packet is never forwarded back where it came from; a packet that was
\* sent to all hosts of the network it came from, or to a group, is answered
\* by no ICMP message, and an ICMP message by no ICMP error (ip_input,
\* ip_forward, icmp_input).
AnswersSound ==
  \A k \in DOMAIN came : \A j \in DOMAIN wire :
    LET p == came[k].p
        q == wire[j].p
        forwarded == p.dest = q.dest /\ p.src = q.src
    IN  /\ forwarded => wire[j].via # came[k].inp
        /\ ~ forwarded => /\ p.dest # Group /\ ~ ip_addr_isbroadcast(p.dest, came[k].inp)
                          /\ p.proto = "icmp" => q.type = "reply" /\ q.src = p.dest
                          /\ q.dest = p.src

\* An intact echo request for an address of ours that no block eats.
EchoDue(c) ==
  /\ c.p.proto = "icmp" /\ c.p.type = "echo" /\ c.p.form = "good"
  /\ HeaderOk(c.p) /\ MessageOk(c.p)
  /\ c.p.dest \in up \intersect Listed
  /\ c.p.src \in Outside \union UNION {PeersOf[n] : n \in Ifs} /\ ~ c.eaten

\* Such a request is answered while no ping runs and there is memory,
\* whatever other raw blocks look at it first (raw_input, icmp_input).
EchoAnswered ==
  \A k \in DOMAIN came :
    EchoDue(came[k]) /\ PingRaws = {} => wire # << >> \/ came[k].starved

\* The lists hold what they should: raw_pcbs every allocated block once,
\* netif_list every interface once, and the default route is on it
\* (raw_input's move to the front, raw_remove, netif_remove).
ListsSound ==
  /\ IsInjective(raw_pcbs) /\ IsInjective(netif_list)
  /\ \A u \in Raws : u \in Range(raw_pcbs) <=> raw[u].proto # "none"
  /\ \A m \in Pings : ping[m].pcb # NoPcb =>
       ping[m].pcb \in Range(raw_pcbs) /\ raw[ping[m].pcb].recv = "ping"
  /\ netif_default \in Listed \union {NoNetif} /\ up \subseteq Listed

\* A ping reports each of its requests once, as answered or as timed out, and
\* an answer that comes late once more at most; however many pings share the
\* sequence numbers, no answer is reported twice.  While it runs alone and has
\* memory for its requests, a ping reports no answer but to them: with others,
\* the ping whose block is in front reports the answer to the newest request
\* of any of them (ping_recv, ping_timeout, ping_coarse_tmr).
PingsSound ==
  \A m \in Pings :
    LET q == ping[m]
        reported == q.answers + q.late
    IN  /\ q.answers + q.timeouts + (IF q.waiting THEN 1 ELSE 0) = q.asked
        /\ q.own <= q.sent /\ q.sent <= q.asked
        /\ q.alone => q.late <= q.timeouts
        /\ q.alone /\ q.sent = q.asked => reported = q.own
        /\ q.pcb # NoPcb => q.asked + q.left = Count + 1

IpSound == WireSound /\ AnswersSound /\ EchoAnswered /\ ListsSound /\ PingsSound

\* raw.c says of a callback that returns zero that "The packet will be
\* matched against further PCBs and/or forwarded to another protocol layers":
\* an echo request for an address of ours is still answered while the device
\* pings another host.
AnswersWhilePinging ==
  \A k \in DOMAIN came :
    EchoDue(came[k]) => wire # << >> \/ came[k].starved

=============================================================================
