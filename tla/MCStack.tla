------------------------------ MODULE MCStack -------------------------------
(***************************************************************************)
(* The parts of the stack whose properties are safety, for TLC, laid out   *)
(* like MCApp: the first four have their own variables, the others call x1,     *)
(* x2, ... by their names, and those a part does not need stay 0.          *)
(***************************************************************************)
EXTENDS DnsClient, Etharp, Igmp, Select

CONSTANT Parts    \* the parts of this run

VARIABLES
  part,      \* which part moves
  x1, x2, x3, x4, x5, x6, x7, x8, x9, x10, x11, x12, x13, x14

-----------------------------------------------------------------------------
(* The instances *)

\* The interfaces that IGMP runs on, and what the hosts answer ARP with.
NetifList == <<"st", "ap">>
HostMacs == [l1 |-> {"m1", "m2"}, l2 |-> {"m2"}, r1 |-> {"m3"}]

\* What lwip_select is called with: to read, and to read and write.
WantSets == {<<{0}, {}>>, <<{0}, {0}>>}

\* Three packet buffers, and two of which a REF buffer is moved further back.
Buffers == INSTANCE Pbuf WITH
  heap <- x1, owners <- x2,
  NumPbufs <- 3, Lens <- {1}, PoolSize <- 2, Room <- 1, MaxOwners <- 3, MaxFront <- 0

TwoBuffers == INSTANCE Pbuf WITH
  heap <- x1, owners <- x2,
  NumPbufs <- 2, Lens <- {0, 1}, PoolSize <- 2, Room <- 1, MaxOwners <- 3, MaxFront <- 2

Heap == INSTANCE Mem WITH
  ram <- x1, lfree <- x2, held <- x3, refused <- x4,
  MemSize <- 28, HeaderSize <- 2, MinSize <- 4, Alignment <- 2, Sizes <- {0, 1, 5, 8, 20}

\* Three datagrams of seven bytes, cut once or twice on the way.
Fragments == INSTANCE IpFrag WITH
  reassdatagrams <- x1, ip_reass_pbufcount <- x2, dangling <- x3, out <- x4,
  Datagrams <- {"d1", "d2", "d3"}, Length <- 7,
  Paths <- [d1 |-> {<<2>>}, d2 |-> {<<4, 2>>}, d3 |-> {<<5, 3>>}],
  Unit <- 2, MaxPbufs <- 4, NumReass <- 3, MaxAge <- 1

\* A packet whose header checksum is right, or is off by one (~ ok).
Packet(src, dest, ttl, chk, proto, type, ichk, ok) ==
  LET no == CASE type = "echo" -> 8 [] type = "unreach" -> 3 [] OTHER -> 0
  IN  [src |-> src, dest |-> dest, ttl |-> ttl, chk |-> chk,
       rest |-> (30 - chk - ttl + (IF ok THEN 0 ELSE 1)) % 15,
       proto |-> proto, form |-> "good", type |-> type, ichk |-> ichk,
       irest |-> (45 - ichk - no) % 15, id |-> "none", seq |-> 0,
       mtu |-> IF type = "unreach" THEN 1 ELSE 0, deep |-> "short"]

Echo == Packet("ps", "st", 2, 3, "icmp", "echo", 2, TRUE)

\* From everyone to everyone; checksums around the carry of the update.
Traffic ==
  {[Echo EXCEPT !.src = s, !.dest = d] :
     s \in {"ps", "pa", "any", "grp"}, d \in {"st", "ap", "pa", "bap", "bcast", "grp"}}
  \union {Packet("ps", "st", 2, 3, "icmp", "echo", c, TRUE) : c \in {6, 7, 8, 15}}
  \union {Packet("po", d, t, c, "other", "none", 0, TRUE) :
            d \in {"pa", "st"}, t \in {1, 2}, c \in {0, 13, 14, 15}}
  \union {Packet("po", "pa", 1, 3, "icmp", "echo", 0, TRUE),
          Packet("po", "pa", 2, 3, "dhcp", "none", 0, TRUE),
          Packet("po", "st", 2, 3, "udp", "none", 0, TRUE),
          Packet("po", "st", 2, 3, "icmp", "unreach", 0, TRUE),
          Packet("ps", "st", 2, 3, "icmp", "echo", 0, FALSE),
          [Echo EXCEPT !.form = "malformed"], [Echo EXCEPT !.form = "fragment"]}

Replies ==
  {[Packet("ps", "st", 2, 3, "icmp", "reply", 0, TRUE) EXCEPT !.id = "ours", !.seq = n] :
     n \in 0 .. 1}

\* Two interfaces with all traffic, as built and with the options that are off.
Routing == INSTANCE Ip WITH
  build <- x1, netif_list <- x2, up <- x3, netif_default <- x4, mtu <- x5,
  loop <- x6, raw_pcbs <- x7, raw <- x8, ping <- x9, ping_seq_num <- x10,
  seqno <- x11, came <- x12, wire <- x13, asker <- x14,
  Ifs <- {"st", "ap"}, Station <- "st", PeersOf <- [st |-> {"ps"}, ap |-> {"pa"}],
  NetBcast <- [st |-> "bst", ap |-> "bap"], Outside <- {"po"}, Group <- "grp",
  AnyAddr <- "any", Broadcast <- "bcast", NoNetif <- "no", Raws <- {}, Pings <- {},
  NoPcb <- "nopcb", Builds <- {{}, {"forward", "loopback"}}, MaxLoop <- 1,
  ChkMod <- 16, SeqNums <- 4, Count <- 2, DefaultTtl <- 3, DefaultMtu <- 2,
  RawProtos <- {"other"}, Targets <- {"st", "pa"}, Packets <- Traffic, Steady <- FALSE

\* One interface with a raw block and a ping, as built and with loopback.
Pinging == INSTANCE Ip WITH
  build <- x1, netif_list <- x2, up <- x3, netif_default <- x4, mtu <- x5,
  loop <- x6, raw_pcbs <- x7, raw <- x8, ping <- x9, ping_seq_num <- x10,
  seqno <- x11, came <- x12, wire <- x13, asker <- x14,
  Ifs <- {"st"}, Station <- "st", PeersOf <- [st |-> {"ps"}],
  NetBcast <- [st |-> "bst"], Outside <- {"po"}, Group <- "grp",
  AnyAddr <- "any", Broadcast <- "bcast", NoNetif <- "no", Raws <- {"r1", "r2"},
  Pings <- {"g1"}, NoPcb <- "nopcb", Builds <- {{}, {"loopback"}}, MaxLoop <- 1,
  ChkMod <- 16, SeqNums <- 3, Count <- 1, DefaultTtl <- 3, DefaultMtu <- 2,
  RawProtos <- {"icmp"}, Targets <- {"st"},
  Packets <- Replies \union {[Echo EXCEPT !.deep = "unreach", !.mtu = 1]},
  Steady <- FALSE

\* Two pings of two requests each at the same time.
TwoPings == INSTANCE Ip WITH
  build <- x1, netif_list <- x2, up <- x3, netif_default <- x4, mtu <- x5,
  loop <- x6, raw_pcbs <- x7, raw <- x8, ping <- x9, ping_seq_num <- x10,
  seqno <- x11, came <- x12, wire <- x13, asker <- x14,
  Ifs <- {"st"}, Station <- "st", PeersOf <- [st |-> {"ps"}],
  NetBcast <- [st |-> "bst"], Outside <- {}, Group <- "grp",
  AnyAddr <- "any", Broadcast <- "bcast", NoNetif <- "no", Raws <- {"r1", "r2"},
  Pings <- {"g1", "g2"}, NoPcb <- "nopcb", Builds <- {{}}, MaxLoop <- 1,
  ChkMod <- 16, SeqNums <- 3, Count <- 2, DefaultTtl <- 3, DefaultMtu <- 2,
  RawProtos <- {}, Targets <- {"ps"}, Packets <- Replies, Steady <- TRUE

\* Two hosts whose first address is the same.
LinkLocal == INSTANCE Autoip WITH
  autoip <- x1, netif <- x2, ticked <- x3, heard <- x4, foreign <- x5,
  changes <- x6,
  Hosts <- {"a", "b"},
  Hwaddr <- [a |-> [rand |-> 0, seed |-> 3], b |-> [rand |-> 1, seed |-> 3]],
  Space <- 6, RangeStart <- 1, RangeEnd <- 4, TicksPerSecond <- 2, MaxConflicts <- 3,
  RateLimit <- 3, DefendInterval <- 2, Outsiders <- {3}, MaxForeign <- 1, MaxChanges <- 1

Receiving == INSTANCE SockRecv WITH
  arrived <- x1, told <- x2, mbox <- x3, socket <- x4, rcv <- x5, last <- x6,
  app <- x7, got <- x8, owed <- x9,
  Stream <- <<[len |-> 2, push |-> FALSE], [len |-> 1, push |-> FALSE],
              [len |-> 3, push |-> TRUE]>>,
  Sizes <- {1, 2, 4}

\* Two threads on two sockets, and one thread with every kind of option.
TwoThreads == INSTANCE Sockets WITH
  sockets <- x1, conns <- x2, threads <- x3, mbox <- x4, seen <- x5, wrote <- x6,
  shared <- x7,
  Threads <- {"t1", "t2"}, NumSockets <- 2, Types <- {"TCP"},
  Options <- {"TCP_KEEPIDLE"}, Values <- {300}, Lens <- {4},
  Calls <- {"shutdown"}, Failures <- {},
  Sizes <- {3}, SndBuf <- 2, MaxConns <- 2

AllOptions == INSTANCE Sockets WITH
  sockets <- x1, conns <- x2, threads <- x3, mbox <- x4, seen <- x5, wrote <- x6,
  shared <- x7,
  Threads <- {"t1"}, NumSockets <- 1, Types <- {"TCP", "UDP", "RAW"},
  Options <- {"SO_ACCEPTCONN", "SO_ERROR", "IP_MULTICAST_TTL",
              "IP_MULTICAST_IF", "TCP_KEEPALIVE", "TCP_KEEPIDLE"},
  Values <- {300}, Lens <- {1, 4},
  Calls <- {"bind", "connect", "listen", "shutdown", "send", "getaddrname", "ioctl"},
  Failures <- {"ERR_INPROGRESS", "temporary", "fatal"},
  Sizes <- {3}, SndBuf <- 2, MaxConns <- 1

Conn == INSTANCE Netconn WITH
  conn <- x1, pcb <- x2, call <- x3, sem <- x4, sock <- x5, finNext <- x6,
  MboxSize <- 1, SndBuf <- 2, Writes <- {1, 3}, Hows <- {"RD", "WR", "RDWR"}

\* The names the resolver's three requests ask for: "a.b", its beginning "a",
\* and "c".
Names == [r1 |-> <<"a", "dot", "b">>, r2 |-> <<"a">>, r3 |-> <<"c">>]

ASSUME StackAssumption ==
  /\ ArpAssumption /\ IgmpAssumption
  /\ Buffers!PbufAssumption /\ TwoBuffers!PbufAssumption
  /\ Heap!MemAssumption /\ Fragments!FragAssumption
  /\ Routing!IpAssumption /\ Pinging!IpAssumption /\ TwoPings!IpAssumption /\ LinkLocal!AutoipAssumption
  /\ DnsAssumption /\ SelectAssumption /\ Receiving!RecvAssumption
  /\ TwoThreads!SocketsAssumption /\ AllOptions!SocketsAssumption
  /\ Conn!NetconnAssumption

-----------------------------------------------------------------------------
(* The composition *)

partsVars ==
  <<part, dnsVars, arpVars, igmpVars, selectVars,
    x1, x2, x3, x4, x5, x6, x7, x8, x9, x10, x11, x12, x13, x14>>

Rest13 == x13 = 0 /\ x14 = 0
Rest12 == x12 = 0 /\ Rest13
Rest11 == x11 = 0 /\ Rest12
Rest10 == x10 = 0 /\ Rest11
Rest9 == x9 = 0 /\ Rest10
Rest8 == x8 = 0 /\ Rest9
Rest7 == x7 = 0 /\ Rest8
Rest5 == x5 = 0 /\ x6 = 0 /\ Rest7
Rest4 == x4 = 0 /\ Rest5
Rest3 == x3 = 0 /\ Rest4
Rest1 == x1 = 0 /\ x2 = 0 /\ Rest3

Same13 == UNCHANGED <<x13, x14>>
Same12 == UNCHANGED x12 /\ Same13
Same11 == UNCHANGED x11 /\ Same12
Same10 == UNCHANGED x10 /\ Same11
Same9 == UNCHANGED x9 /\ Same10
Same8 == UNCHANGED x8 /\ Same9
Same7 == UNCHANGED x7 /\ Same8
Same5 == UNCHANGED <<x5, x6>> /\ Same7
Same4 == UNCHANGED x4 /\ Same5
Same3 == UNCHANGED x3 /\ Same4
Same1 == UNCHANGED <<x1, x2>> /\ Same3

PartsInit ==
  /\ part \in Parts
  /\ DnsInit /\ ArpInit /\ IgmpInit /\ SelectInit
  /\ \/ part \in {"dns", "arp", "igmp", "select"} /\ Rest1
     \/ part = "pbuf" /\ Buffers!Init /\ Rest3
     \/ part = "front" /\ TwoBuffers!Init /\ Rest3
     \/ part = "mem" /\ Heap!Init /\ Rest5
     \/ part = "frag" /\ Fragments!Init /\ Rest5
     \/ part = "ip" /\ Routing!Init
     \/ part = "ping" /\ Pinging!Init
     \/ part = "pings" /\ TwoPings!Init
     \/ part = "autoip" /\ LinkLocal!Init /\ Rest7
     \/ part = "recv" /\ Receiving!Init /\ Rest10
     \/ part = "sockets" /\ TwoThreads!Init /\ Rest8
     \/ part = "options" /\ AllOptions!Init /\ Rest8
     \/ part = "netconn" /\ Conn!Init /\ Rest7

\* The part that moves comes last, for TLC.
PartsNext ==
  /\ UNCHANGED part
  /\ IF part = "dns" THEN TRUE ELSE UNCHANGED dnsVars
  /\ IF part = "arp" THEN TRUE ELSE UNCHANGED arpVars
  /\ IF part = "igmp" THEN TRUE ELSE UNCHANGED igmpVars
  /\ IF part = "select" THEN TRUE ELSE UNCHANGED selectVars
  /\ \/ part = "dns" /\ Same1 /\ DnsNext
     \/ part = "arp" /\ Same1 /\ ArpNext
     \/ part = "igmp" /\ Same1 /\ IgmpNext
     \/ part = "select" /\ Same1 /\ SelectNext
     \/ part = "pbuf" /\ Same3 /\ Buffers!Next
     \/ part = "front" /\ Same3 /\ TwoBuffers!Next
     \/ part = "mem" /\ Same5 /\ Heap!Next
     \/ part = "frag" /\ Same5 /\ Fragments!Next
     \/ part = "ip" /\ Routing!Next
     \/ part = "ping" /\ Pinging!Next
     \/ part = "pings" /\ TwoPings!Next
     \/ part = "autoip" /\ Same7 /\ LinkLocal!Next
     \/ part = "recv" /\ Same10 /\ Receiving!Next
     \/ part = "sockets" /\ Same8 /\ TwoThreads!Next
     \/ part = "options" /\ Same8 /\ AllOptions!Next
     \/ part = "netconn" /\ Same7 /\ Conn!Next

PartsSpec == PartsInit /\ [][PartsNext]_partsVars

-----------------------------------------------------------------------------
(* The properties of the instances, under names for the configurations.    *)

\* Packet buffers are counted and copied right, and the heap's blocks stay
\* disjoint, joined and complete (pbuf.c, mem.c).
MemorySound ==
  /\ part = "pbuf" => Buffers!HeapSound /\ Buffers!CopiesRight
  /\ part = "front" => TwoBuffers!HeapSound /\ TwoBuffers!CopiesRight
  /\ part = "mem" => Heap!MemSound

\* IP, ICMP, raw blocks, ping and reassembly (ip.c, icmp.c, raw.c, ping.c,
\* ip_frag.c), and link-local addresses that do not clash (autoip.c).
IpSound ==
  /\ part = "autoip" => LinkLocal!NoClash
  /\ part = "ip" => Routing!IpSound
  /\ part = "ping" => Pinging!IpSound
  /\ part = "pings" => TwoPings!IpSound
  /\ part = "frag" => Fragments!ReassemblySound

\* raw.c: a packet whose callback returns zero "will be matched against
\* further PCBs and/or forwarded to another protocol layers".
AnswersWhilePinging == part = "ping" => Pinging!AnswersWhilePinging

\* Connections, sockets and receive: a call is woken once, no event is counted
\* twice or forgotten, no socket is handed out twice, an option is read as it
\* was set (api_msg.c, sockets.c).
SocketsSound ==
  /\ part = "netconn" => Conn!NetconnSound
  /\ part = "recv" => Receiving!RecvSound
  /\ part = "sockets" => TwoThreads!SocketsSound
  /\ part = "options" => AllOptions!SocketsSound
=============================================================================
