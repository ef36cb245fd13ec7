------------------------------- MODULE MCLive -------------------------------
(***************************************************************************)
(* The parts with liveness properties, for TLC, next to                    *)
(* the key.  They share no variable: a behaviour is one of them, chosen    *)
(* from Parts at the start, while the others keep their initial state.     *)
(* Each liveness property is stated under the fairness of its own part.    *)
(***************************************************************************)
EXTENDS KeyPress, Sequences

CONSTANTS
  Parts,     \* the parts of this run
  NoAddr     \* the NULL address of the resolver

VARIABLES
  part,      \* which part moves
  line, fifo, tout, full, ovf, frm_err, tx_empty, handler, fifo_len, rx, uart_late,
  ram, rb_head, rb_tail, isConnectServer, uplink_pc, uplink_len, sz, run,
  uplink_sent, q, raced, filled, dirty, torn, due, edge,
  client, mqtt_link, unacked, posted, named, freed, ap, mqtt_last, cause,
  req, cfg, sc, web_up, out, fault,
  platform_timer, beacon, station, lookups, known, connecting, open, closing,
  ping_status, activeflag, recon, upgrading, platform_part, heard, refused,
  events, current_duty, duty_now, pwm_duty, pwm, change_finish, light_timer,
  light_sleep_flg, dim,
  conn, pcb, call, sem, sock, finNext,
  autoip, netif, ticked, autoip_heard, foreign, changes,
  build, next_timeout, timers_mode, elapsed, diff, fired, pcbs,
  tcpip_tcp_timer_active, ran,
  dns_table, names, dns_seqno, dns_random, walk, dns_net, dns_refused, reply

-----------------------------------------------------------------------------
(* The instances *)

Uart == INSTANCE UartRx WITH
  late <- uart_late,
  Depth <- 3, Threshold <- 3, MaxFrame <- 2, Errors <- TRUE

Up == INSTANCE Uplink WITH
  pc <- uplink_pc, len <- uplink_len, sent <- uplink_sent,
  Size <- 2, Guard <- 2, Bytes <- {0, 1}, MaxLen <- 3

Client == INSTANCE MqttClient WITH
  link <- mqtt_link, last <- mqtt_last,
  Keepalive <- 2, ReconnTimeout <- 2, SendTimeout <- 2, MaxQueue <- 1, MaxFreed <- 1

Upgrade == INSTANCE WebServer WITH
  up <- web_up,
  Conns <- {"c1", "c2"}, Gets <- {"info"}, Posts <- {"start", "reset"},
  MaxBody <- 1, MaxBytes <- 3, PerPage <- 2, Scans <- {0}

Cloud == INSTANCE Platform WITH
  timer <- platform_timer, part <- platform_part,
  MaxRecon <- 1, CountMod <- 3, MaxLookups <- 1, MaxConns <- 1

Lamp == INSTANCE Light WITH
  timer <- light_timer,
  Channels <- {"red"}, Aims <- {0, 60, 300}, Stored <- {0, 10, 100}, Limit <- 222,
  QueueLen <- 2

Conn == INSTANCE Netconn WITH
  MboxSize <- 1, SndBuf <- 1, Writes <- {2}, Hows <- {"WR"}

\* Two hosts whose first address is the same.
LinkLocal == INSTANCE Autoip WITH
  heard <- autoip_heard,
  Hosts <- {"a", "b"},
  Hwaddr <- [a |-> [rand |-> 0, seed |-> 3], b |-> [rand |-> 1, seed |-> 3]],
  Space <- 6, RangeStart <- 1, RangeEnd <- 4, TicksPerSecond <- 2, MaxConflicts <- 3,
  RateLimit <- 2, DefendInterval <- 2, Outsiders <- {3}, MaxForeign <- 0, MaxChanges <- 0

Timeouts == INSTANCE Timers WITH
  mode <- timers_mode,
  Builds <- {"nosys"}, Periodic <- {"arp"}, Period <- [arp |-> 2, tcp |-> 1],
  Delays <- {1}, MaxLate <- 1, MaxSkew <- 1

\* Two requests for two names, and ids that collide across entries.
Dns == INSTANCE DnsClient WITH
  net <- dns_net, refused <- dns_refused,
  DNS_TABLE_SIZE <- 2, DNS_MAX_RETRIES <- 2, NumServers <- 2, SeqnoMod <- 2, IdMod <- 4,
  Randoms <- {0}, MaxTtl <- 1, MaxNet <- 1, Reqs <- {"r1", "r2"},
  DNS_MAX_NAME_LENGTH <- 2, Name <- [r1 |-> <<"a">>, r2 |-> <<"b">>],
  Chars <- {"a", "b"}, Dot <- "dot", Nul <- "nul"

ASSUME LiveAssumption ==
  /\ Uart!UartAssumption /\ Client!ClientAssumption
  /\ Upgrade!WebAssumption /\ Cloud!PlatformAssumption
  /\ Lamp!LightAssumption /\ Conn!NetconnAssumption /\ LinkLocal!AutoipAssumption
  /\ Timeouts!TimersAssumption /\ Dns!DnsAssumption

-----------------------------------------------------------------------------
(* The composition *)

uartVars == <<line, fifo, tout, full, ovf, frm_err, tx_empty, handler, fifo_len, rx, uart_late>>
uplinkVars == <<ram, rb_head, rb_tail, isConnectServer, uplink_pc, uplink_len, sz, run, uplink_sent,
  q, raced, filled, dirty, torn, due, edge>>
mqttVars == <<client, mqtt_link, unacked, posted, named, freed, ap, mqtt_last, cause>>
webVars == <<req, cfg, sc, web_up, out, fault>>
platformVars == <<platform_timer, beacon, station, lookups, known, connecting, open, closing,
  ping_status, activeflag, recon, upgrading, platform_part, heard, refused>>
lightVars == <<events, current_duty, duty_now, pwm_duty, pwm, change_finish, light_timer,
  light_sleep_flg, dim>>
netconnVars == <<conn, pcb, call, sem, sock, finNext>>
autoipVars == <<autoip, netif, ticked, autoip_heard, foreign, changes>>
timersVars == <<build, next_timeout, timers_mode, elapsed, diff, fired, pcbs, tcpip_tcp_timer_active,
  ran>>
dnsVars == <<dns_table, names, dns_seqno, dns_random, walk, dns_net, dns_refused, reply>>

liveVars ==
  <<part, vars, uartVars, uplinkVars, mqttVars, webVars, platformVars, lightVars,
    netconnVars, autoipVars, timersVars, dnsVars>>

\* A part that does not move has one initial state.
LiveInit ==
  /\ part \in Parts
  /\ Init /\ (part = "key" \/ opmode = "STATION")
  /\ Uart!UartInit /\ Up!UplinkInit
  /\ Client!Init /\ (part = "mqtt" \/ ~ named)
  /\ Upgrade!Init
  /\ Cloud!Init /\ (part = "platform" \/ ~ activeflag)
  /\ Lamp!Init /\ (part = "light" \/ dim = 0)
  /\ Conn!Init /\ (part = "netconn" \/ pcb.st = "closed")
  /\ LinkLocal!Init
  /\ Timeouts!Init /\ (part = "timers" \/ build = "nosys")
  /\ Dns!DnsInit

LiveNext ==
  /\ UNCHANGED part
  /\ IF part = "key" THEN Next ELSE UNCHANGED vars
  /\ IF part = "uart" THEN Uart!UartNext ELSE UNCHANGED uartVars
  /\ IF part = "uplink" THEN Up!UplinkNext ELSE UNCHANGED uplinkVars
  /\ IF part = "mqtt" THEN Client!Next ELSE UNCHANGED mqttVars
  /\ IF part = "upgrade" THEN Upgrade!Next ELSE UNCHANGED webVars
  /\ IF part = "platform" THEN Cloud!Next ELSE UNCHANGED platformVars
  /\ IF part = "light" THEN Lamp!Next ELSE UNCHANGED lightVars
  /\ IF part = "netconn" THEN Conn!Next ELSE UNCHANGED netconnVars
  /\ IF part = "autoip" THEN LinkLocal!Next ELSE UNCHANGED autoipVars
  /\ IF part = "timers" THEN Timeouts!Next ELSE UNCHANGED timersVars
  /\ IF part = "dns" THEN Dns!DnsNext ELSE UNCHANGED dnsVars

LiveSpec == LiveInit /\ [][LiveNext]_liveVars

-----------------------------------------------------------------------------
(* The properties of the instances, under names for the configurations.    *)

Always(p) == <>[](part = p)

\* A release of the key that no window hides is recognised (key_50ms_cb).
KeyReleased == Always("key") /\ Fairness => ReleaseRecognised

\* The FIFO is served and the receive interrupt subsides.
UartServed == Always("uart") /\ Uart!UartFairness => Uart!FifoServed /\ Uart!InterruptSubsides

\* What waits in the ring is sent while the server stays connected.
BacklogDrains == Always("uplink") /\ Up!UplinkFairness => Up!BacklogDrains

\* The clients of the broker and of the cloud come back, the light reaches
\* its colour, the lock of an upgrade is released.
IotLive ==
  /\ Always("mqtt") /\ Client!Fairness => Client!KeepsInTouch
  /\ Always("platform") /\ Cloud!Fairness => Cloud!TriesOn
  /\ Always("light") /\ Lamp!Fairness => Lamp!ColourReached
  /\ Always("upgrade") /\ Upgrade!Fairness => Upgrade!LockReleased

\* Every accepted lookup is called back in the end.
RequestAnswered == Always("dns") /\ Dns!DnsFairness => Dns!RequestAnswered

\* A netconn call returns, a host comes to a link-local address, and a
\* periodic timer runs again and again.
StackLive ==
  /\ Always("netconn") /\ Conn!Fairness => Conn!CallsReturn
  /\ Always("autoip") /\ LinkLocal!Fairness => LinkLocal!ComesToAnAddress
  /\ Always("timers") /\ Timeouts!Fairness => Timeouts!PeriodicRun

=============================================================================
