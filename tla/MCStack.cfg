SPECIFICATION PartsSpec
CHECK_DEADLOCK FALSE
CONSTANTS
  DNS_TABLE_SIZE = 2
  DNS_MAX_RETRIES = 2
  NumServers = 1
  SeqnoMod = 2
  IdMod = 3
  Randoms = {0, 1}
  MaxTtl = 1
  MaxNet = 1
  Reqs = {"r1", "r2", "r3"}
  DNS_MAX_NAME_LENGTH = 4
  Name <- Names
  Chars = {"a", "b", "c", "dot"}
  Dot = "dot"
  Nul = "nul"
  NoAddr = "none"
  TableSize = 2
  Locals = {"l1", "l2"}
  Remotes = {"r1"}
  Gw = "l1"
  MacsOf <- HostMacs
  NoMac = "none"
  MaxAge = 2
  RerequestAge = 1
  MaxQueue = 1
  MaxPackets = 2
  Netifs <- NetifList
  Groups = {"g1"}
  AllSystems = "all"
  JoinDelay = 2
  V1Delay = 2
  MaxResps = {0, 2}
  MaxUse = 2
  Threads = {"t1", "t2"}
  Socks = {0}
  Callers = {"tcpip", "reader"}
  MaxRcv = 1
  Wants <- WantSets
  Parts = {"arp", "igmp", "pbuf", "front", "mem", "frag", "ip", "ping", "pings", "autoip",
           "dns", "select", "recv", "sockets", "options", "netconn"}
INVARIANT ArpSound
INVARIANT MembershipSound
INVARIANT MemorySound
INVARIANT IpSound
INVARIANT SocketsSound
INVARIANT SelectSound
PROPERTY LookupsSound
PROPERTY ImplementsService
