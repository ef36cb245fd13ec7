------------------------------- MODULE MCApp --------------------------------
(***************************************************************************)
(* The parts of the gateway and of the example applications, and the       *)
(* stack's timeouts and services, whose properties are safety, for TLC.    *)
(* They share no state: a behaviour is one of them, chosen from Parts at   *)
(* the start.  The parts with theorems have their own variables; the       *)
(* others call x1, x2, ... by their names, and those a part does not need  *)
(* stay 0.                                                                 *)
(***************************************************************************)
EXTENDS RingBuffer, Uplink, UartRx, UdpServer, ConfigStore, MqttConfig, Udp,
        Schedule

CONSTANT Parts    \* the parts of this run

VARIABLES
  part,      \* which part moves
  x1, x2, x3, x4, x5, x6, x7, x8, x9, x10, x11, x12, x13, x14, x15, x16

-----------------------------------------------------------------------------
(* The instances *)

\* A valid frame; next to it, one with a wrong byte, one cut short, one byte.
Frame == <<1, 3, 64, 33>>
Crc == INSTANCE ModbusShared WITH
  mem <- x1, reg <- x2, inRegisters <- x3, pc <- x4, buf <- x5, i <- x6,
  uart <- x7, net <- x8, interrupted <- x9,
  Frames <- {Frame, [Frame EXCEPT ![2] = 4], SubSeq(Frame, 1, 3), <<1>>}

\* Payloads on both sides of the one-byte length field.
Segments == INSTANCE MqttMsg WITH
  pdata <- x1, in_buffer <- x2, delivered <- x3, queued <- x4, segment <- x5,
  segs <- x6,
  Topics <- {<<1>>}, Payloads <- {<<9>>, [i \in 1 .. 130 |-> i % 7]}, BufSize <- 300,
  Ids <- {258}, MaxInSeg <- 2, MaxSegs <- 2

\* Messages with the bytes that are escaped.
Queue == INSTANCE MqttQueue WITH
  rb <- x1, pending <- x2, gets <- x3,
  RingSize <- 7, Messages <- {<<1>>, <<126>>, <<1, 125>>, <<1, 1, 127, 2>>}

\* Fixed times, weekly times and loops, alone and together.
Alarm(m, t) == [mode |-> m, time |-> t, action |-> "switch"]
Doing(e, a) == [e EXCEPT !.action = a]
TimerLists ==
  {<<>>, <<Alarm("l", 3)>>, <<Alarm("w", 2), Alarm("l", 5)>>,
   <<Alarm("f", 17), Alarm("w", 7)>>,
   <<Alarm("f", 3), Alarm("l", 4), Alarm("l", 6)>>, <<Alarm("f", 14)>>,
   <<Alarm("l", 4), Doing(Alarm("l", 6), "unknown"), Alarm("l", 3)>>,
   <<Alarm("l", 2), Doing(Alarm("w", 3), "0"), Doing(Alarm("l", 3), "unknown")>>}

\* One client with every request, and two during an upgrade.
Settings == INSTANCE WebServer WITH
  req <- x1, cfg <- x2, sc <- x3, up <- x4, out <- x5, fault <- x6,
  Conns <- {"c1"}, Gets <- {"info", "wifi", "scan", "finish", "page", "other"},
  Posts <- {"reboot", "wifi_ssid", "wifi_empty", "light", "other"},
  MaxBody <- 1, MaxBytes <- 4, PerPage <- 2, Scans <- {0, 3}

Upgrade == INSTANCE WebServer WITH
  req <- x1, cfg <- x2, sc <- x3, up <- x4, out <- x5, fault <- x6,
  Conns <- {"c1", "c2"}, Gets <- {"info"}, Posts <- {"start", "reset"},
  MaxBody <- 2, MaxBytes <- 5, PerPage <- 2, Scans <- {0}

Cloud == INSTANCE Platform WITH
  timer <- x1, beacon <- x2, station <- x3, lookups <- x4, known <- x5,
  connecting <- x6, open <- x7, closing <- x8, ping_status <- x9,
  activeflag <- x10, recon <- x11, upgrading <- x12, part <- x13, heard <- x14,
  refused <- x15,
  MaxRecon <- 2, CountMod <- 4, MaxLookups <- 1, MaxConns <- 2

Lamp == INSTANCE Light WITH
  events <- x1, current_duty <- x2, duty_now <- x3, pwm_duty <- x4, pwm <- x5,
  change_finish <- x6, timer <- x7, light_sleep_flg <- x8, dim <- x9,
  Channels <- {"red"}, Aims <- {0, 60, 300}, Stored <- {0, 10, 100}, Limit <- 222,
  QueueLen <- 2

Responder == INSTANCE Mdns WITH
  infos <- x1, ms_info <- x2, pcbs <- x3, mdns_pcb <- x4, mdns_timer <- x5,
  announced <- x6, mdns_flag <- x7, register_flag <- x8, joined <- x9, mode <- x10,
  netif_default <- x11, wire <- x12, lost <- x13, misused <- x14, fault <- x15,
  globals <- x16,
  Infos <- {[host |-> <<3>>, server |-> 6, txt |-> <<2, 4>>, ip |-> TRUE],
            [host |-> <<2, 7>>, server |-> 3, txt |-> <<1>>, ip |-> TRUE],
            [host |-> <<4>>, server |-> 3, txt |-> <<>>, ip |-> FALSE]},
  Modes <- {{"ap"}, {"sta", "ap"}}, MaxInits <- 2, MaxLost <- 1

\* Two interfaces, each with a host.
NetifOrder == <<"ap", "st">>
HostOf == [st |-> {"ps"}, ap |-> {"pa"}]

Timeouts == INSTANCE Timers WITH
  build <- x1, next_timeout <- x2, mode <- x3, elapsed <- x4, diff <- x5,
  fired <- x6, pcbs <- x7, tcpip_tcp_timer_active <- x8, ran <- x9,
  Builds <- {"nosys", "thread"}, Periodic <- {"arp"}, Period <- [arp |-> 3, tcp |-> 2],
  Delays <- {1, 4}, MaxLate <- 1, MaxSkew <- 1

Time == INSTANCE Sntp WITH
  sntp_pcb <- x1, sntp_servers <- x2, sntp_current_server <- x3,
  sntp_retry_timeout <- x4, timeouts <- x5, lookups <- x6, synced <- x7,
  starts <- x8, asked <- x9, stray <- x10, day <- x11, date <- x12,
  NumServers <- 2, RetryMax <- 4, MaxStarts <- 2, MaxPending <- 4, LastDay <- 24854

ASSUME AppAssumption ==
  /\ PeersAssumption /\ StoreAssumption /\ Segments!MsgAssumption
  /\ Queue!QueueAssumption /\ CfgAssumption /\ ScheduleAssumption
  /\ UartAssumption /\ Settings!WebAssumption /\ Upgrade!WebAssumption
  /\ Cloud!PlatformAssumption /\ Lamp!LightAssumption
  /\ Responder!MdnsAssumption /\ UdpAssumption /\ Timeouts!TimersAssumption
  /\ Time!SntpAssumption /\ Crc!TablesRight /\ Crc!ReferenceCrc(Frame) = 0

-----------------------------------------------------------------------------
(* The composition *)

partsVars ==
  <<part, vars, uplinkVars, uartVars, serverVars, storeVars, cfgVars, udpVars,
    scheduleVars, x1, x2, x3, x4, x5, x6, x7, x8, x9, x10, x11, x12, x13, x14, x15, x16>>

Rest16 == x16 = 0
Rest14 == x14 = 0 /\ x15 = 0 /\ Rest16
Rest13 == x13 = 0 /\ Rest14
Rest12 == x12 = 0 /\ Rest13
Rest11 == x11 = 0 /\ Rest12
Rest10 == x10 = 0 /\ Rest11
Rest9 == x9 = 0 /\ Rest10
Rest8 == x8 = 0 /\ Rest9
Rest7 == x7 = 0 /\ Rest8
Rest5 == x5 = 0 /\ x6 = 0 /\ Rest7
Rest4 == x4 = 0 /\ Rest5
Rest3 == x3 = 0 /\ Rest4
Rest1 == x1 = 0 /\ x2 = 0 /\ Rest3

Same16 == UNCHANGED x16
Same14 == UNCHANGED <<x14, x15>> /\ Same16
Same13 == UNCHANGED x13 /\ Same14
Same12 == UNCHANGED x12 /\ Same13
Same11 == UNCHANGED x11 /\ Same12
Same10 == UNCHANGED x10 /\ Same11
Same9 == UNCHANGED x9 /\ Same10
Same8 == UNCHANGED x8 /\ Same9
Same7 == UNCHANGED x7 /\ Same8
Same5 == UNCHANGED <<x5, x6>> /\ Same7
Same4 == UNCHANGED x4 /\ Same5
Same3 == UNCHANGED x3 /\ Same4
Same1 == UNCHANGED <<x1, x2>> /\ Same3

PartsInit ==
  /\ part \in Parts
  /\ Init /\ (part = "ring" \/ \A a \in Addr : mem[a] = 0)
  /\ UplinkInit /\ UartInit /\ ServerInit /\ StoreInit /\ CfgInit /\ UdpInit /\ ScheduleInit
  /\ \/ part \in {"ring", "uplink", "uart", "udpserver", "store", "mqttconfig", "udp",
                  "schedule"} /\ Rest1
     \/ part = "modbus" /\ Crc!Init /\ Rest10
     \/ part = "mqttmsg" /\ Segments!Init /\ Rest7
     \/ part = "mqttqueue" /\ Queue!Init /\ Rest4
     \/ part = "settings" /\ Settings!Init /\ Rest7
     \/ part = "upgrade" /\ Upgrade!Init /\ Rest7
     \/ part = "platform" /\ Cloud!Init /\ Rest16
     \/ part = "light" /\ Lamp!Init /\ Rest10
     \/ part = "mdns" /\ Responder!Init
     \/ part = "timers" /\ Timeouts!Init /\ Rest10
     \/ part \in {"sntp", "calendar"} /\ Time!Init /\ Time!CalendarInit /\ Rest13

\* The part that moves comes last, for TLC.
PartsNext ==
  /\ UNCHANGED part
  /\ IF part = "ring" THEN TRUE ELSE UNCHANGED vars
  /\ IF part = "uplink" THEN TRUE ELSE UNCHANGED uplinkVars
  /\ IF part = "uart" THEN TRUE ELSE UNCHANGED uartVars
  /\ IF part = "udpserver" THEN TRUE ELSE UNCHANGED serverVars
  /\ IF part = "store" THEN TRUE ELSE UNCHANGED storeVars
  /\ IF part = "mqttconfig" THEN TRUE ELSE UNCHANGED cfgVars
  /\ IF part = "udp" THEN TRUE ELSE UNCHANGED udpVars
  /\ IF part = "schedule" THEN TRUE ELSE UNCHANGED scheduleVars
  /\ \/ part = "ring" /\ Same1 /\ Next
     \/ part = "uplink" /\ Same1 /\ UplinkNext
     \/ part = "uart" /\ Same1 /\ UartNext
     \/ part = "udpserver" /\ Same1 /\ ServerNext
     \/ part = "store" /\ Same1 /\ StoreNext
     \/ part = "mqttconfig" /\ Same1 /\ CfgNext
     \/ part = "udp" /\ Same1 /\ UdpNext
     \/ part = "schedule" /\ Same1 /\ ScheduleNext
     \/ part = "modbus" /\ Same10 /\ Crc!Next
     \/ part = "mqttmsg" /\ Same7 /\ Segments!Next
     \/ part = "mqttqueue" /\ Same4 /\ Queue!Next
     \/ part = "settings" /\ Same7 /\ Settings!Next
     \/ part = "upgrade" /\ Same7 /\ Upgrade!Next
     \/ part = "platform" /\ Same16 /\ Cloud!Next
     \/ part = "light" /\ Same10 /\ Lamp!Next
     \/ part = "mdns" /\ Responder!Next
     \/ part = "timers" /\ Same10 /\ Timeouts!Next
     \/ part = "sntp" /\ Time!Next /\ UNCHANGED <<x11, x12>> /\ Same13
     \/ part = "calendar" /\ Time!CalendarNext
       /\ UNCHANGED <<x1, x2, x3, x4, x5, x6, x7, x8, x9, x10>> /\ Same13

PartsSpec == PartsInit /\ [][PartsNext]_partsVars

-----------------------------------------------------------------------------
(* The properties of the instances, under names for the configurations.    *)

\* modbus_send's verdict on a frame is that of the protocol's CRC.
SendVerdictRight == [][part = "modbus" => Crc!VerdictRight]_partsVars

\* The messages of a segment reach the application as the broker sent them,
\* and the queue gives back what was put into it, whatever bytes they hold
\* (mqtt_msg.c, mqtt.c, proto.c, queue.c).
MqttSound ==
  /\ part = "mqttmsg" => Segments!SegmentTakenApart
  /\ part = "mqttqueue" => Queue!QueueSound

\* The web server keeps requests, settings, pages and the image apart, the
\* cloud client always has something that makes it go on, and the light's
\* driver holds the colour it reports as reached.
IotSound ==
  /\ part = "settings" => Settings!WebSound
  /\ part = "upgrade" => Upgrade!WebSound
  /\ part = "platform" => Cloud!NeverGivenUp
  /\ part = "light" => Lamp!QueueNeverFills

\* The mDNS responder's messages can be read and come from live memory, the
\* list of timeouts is complete and in order, the SNTP client goes on asking,
\* and its calendar is the calendar (mdns.c, timers.c, sntp.c).
ServicesSound ==
  /\ part = "mdns" => Responder!MessagesReadable /\ Responder!AnswersFromLiveInfo
  /\ part = "timers" => Timeouts!TimersSound
  /\ part = "sntp" => Time!ClientAlive
  /\ part = "calendar" => Time!CalendarRight
=============================================================================
