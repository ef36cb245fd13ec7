SPECIFICATION PartsSpec
CHECK_DEADLOCK FALSE
CONSTANTS
  Size = 3
  Guard = 2
  Bytes = {0, 1}
  MaxLen = 3
  Depth = 3
  Threshold = 3
  MaxFrame = 3
  Errors = TRUE
  Peers = {"p1", "p2", "p3"}
  Nobody = "nobody"
  Words = 3
  MaxWrites = 4
  MaxVersion = 3
  Pcbs = {"u1", "u2"}
  netif_list <- NetifOrder
  StaIf = "st"
  PeersOf <- HostOf
  Outside = {}
  BindPorts = {1}
  RangeStart = 1
  RangeEnd = 4
  AnyAddr = "any"
  Broadcast = "bcast"
  Hour = 2
  Week = 7
  Monday = 9
  MaxTime = 40
  Lists <- TimerLists
  Parts = {"ring", "udpserver", "store", "modbus", "uart", "uplink", "mqttmsg", "mqttqueue",
           "mqttconfig", "settings", "upgrade", "platform", "schedule", "light", "udp",
           "timers", "sntp", "calendar", "mdns"}
INVARIANT StoreSound
INVARIANT MqttSound
INVARIANT ConfigSurvives
INVARIANT IotSound
INVARIANT OnTime
INVARIANT ServicesSound
INVARIANT UdpSound
PROPERTY SentWhereAsked
PROPERTY SendVerdictRight
PROPERTY OneFrameAtATime
PROPERTY UplinkSound
PROPERTY GuardIntact
PROPERTY ImplementsFifo
