# TLA+ models of the ESP8266 Modbus/Xlink gateway and its network stack

The repository is Espressif's ESP8266 non-OS SDK 2.1.0 with one application on
top of it, in `src/app`: a gateway between a Modbus RTU bus on UART0 and the
Xlink cloud (TCP) and local network (UDP). The models are about

- that application;
- the part of the SDK that comes with source, the lwIP stack with Espressif's
  espconn layer, in `src/examples/lwip_open_src_template_proj/lwip`;
- the two example applications with logic of their own: `esp_mqtt_proj` (an
  MQTT client) and `IoT_Demo` (a device with web server, cloud client,
  schedule and dimmable light).

There are no tests in the repository, and no document says what the gateway
has to do; the properties come from what the code relies on and from its
comments.

## 1. The system

```
   Modbus bus                     ESP8266                           network
 ───────────►  UART0 FIFO ─► uart_intr_handler ─► modbus_receive
                              (interrupt)            │ CRC ok
                                                     ▼
                                            user_net_send_pipe
                                             │              │
                                    user_tcp_send_pipe   user_udp_send_pipe ─► UDP peer
                                             │ tcp_rb_send
                         100 ms timer ─► user_tcp_send_loop ─► Xlink ─► TCP ─► cloud
 ◄───────────  UART0 ◄── modbus_send ◄── user_tcp_pipe1_cb / user_udp_pipe_cb ◄── Xlink

   key ─► key_intr_handler ─► timers ─► short press: smartconfig
                                        long press: soft-AP, restart
```

Two contexts matter. *Tasks*: the SDK runs network callbacks, timers and posted
events one at a time, each to its end. *Interrupts*: the UART and GPIO handlers
run to completion between any two instructions of a task. No lock or interrupt
mask protects anything the two share.

### The gateway

| component | state | operations | hard because |
|---|---|---|---|
| ring buffer, `user_ringbuffer.c` | storage, head, tail, lock | init, reset, put, get, lock, unlock, unread size | wrap-around; full and empty look alike |
| uplink, `user_tcp_client.c` 224-254 | `tcp_rb_send`, `tcp_send_buffer`, `isConnectServer` | `send_pipe` (interrupt), `send_loop` (task) | unprotected sharing; the get copies into the ring's own storage |
| cloud connection, `user_tcp_client.c` | the espconn, `reconn_cnt`, `isConnectServer`, `flag_dns_discovery`, `isDnsFound`, `dns_timer` | 100 ms loop, lookup, espconn and Xlink callbacks | asynchronous close, duplicate lookups, ignored results, smartconfig |
| smartconfig, `user_smartconfig.c` | status, 60 s timer | start, done, timeout | suspends reconnecting |
| push button, `driver/key.c`, `user_key.c` | pin, armed edge, `key_level`, three timers, saved mode | GPIO handler, 3 s, 50 ms and 100 ms callbacks | edges in windows where none is latched, racing timers |
| resolver, lwIP `dns.c` | table, `dns_seqno`, `dns_random` | enqueue, 1 s timer, receive | lost, late and duplicated answers; 8-bit wrap |
| Modbus, `modbus.c` | CRC globals | CRC, send, receive | task and interrupt share the globals |
| UART receive, `user_uart.c` | FIFO, status bits, buffer | `uart_intr_handler` | bytes arrive during the handler; bits left set |
| UDP server, `user_udp_server.c` | one remote ip and port | receive, send, `send_pipe` (interrupt) | two fields written in turn, read in between |
| start-up, `user_main.c` | what is installed | `app_init` | the interrupt runs before its targets exist |
| configuration, `user_net.c` | RAM buffer, flash sector | write, read | power failure between erase and write |

### The stack

Everything in the stack runs in the SDK's task, one callback at a time, except
in the build with an operating system (`api/`), where application threads call
it through a mailbox. The peer, the network and the timers decide the order.

| component | state | operations | hard because |
|---|---|---|---|
| espconn, `app/espconn*.c` | node lists, packet queue of a node, posted events | connect, accept, sent, recv, disconnect, error, event task | events refer to nodes that may be gone; acknowledgements and packets do not match one to one |
| TCP, `core/tcp*.c` | control block: queues, sequence numbers, timers | write, output, input, receive, timers, close | loss, reordering, wrap of the sequence number, windows |
| DHCP client and server, `core/dhcp.c`, `app/dhcpserver.c` | state, tries, timers; the lease list | messages and timers | lost messages, failed allocations, stations that come and go |
| resolver, `core/dns.c` | table, `dns_seqno`, `dns_random` | enqueue, 1 s timer, receive | lost, late and duplicated answers; 8-bit wrap |
| ARP, IGMP, UDP, IP, ICMP, raw, ping | table of entries; groups; lists of control blocks; interfaces | input, output, timers | entries reused with packets waiting; lists reordered while walked |
| reassembly, `ip_frag.c` | list of datagrams with their fragments | input, timer, eviction | overlap, repetition, any order |
| packet buffers, heap | reference counts and chains; linked blocks | allocate, free, chain, trim | ownership over a long sequence of calls |
| timeouts, SNTP, mDNS, AutoIP | list of differences; retry state; announcements; probe state | timers and packets | timers that change the list they are called from; stop and start in between |
| netconn, sockets | mailboxes, `op_completed`, counters of events | calls of threads against callbacks of the stack | two sides waiting for each other; wake-ups |

### The example applications

| component | state | operations | hard because |
|---|---|---|---|
| MQTT messages and queue | one segment's buffer; a ring of escaped messages | receive, publish, get, put | lengths of one or two bytes, escaped bytes, several messages in a segment |
| MQTT client | connection state, timers | task, timer, espconn callbacks | lost connections, timeouts, keep-alive |
| MQTT configuration | two copies and a flag in flash | save, load | power failure in a save |
| web server | pending request, settings, scan result, upgrade lock | requests, timers, scan callback | requests split and interleaved; an upgrade from several connections |
| cloud client | connection state, one timer for all waits | callbacks and timers | who sets the timer takes it from whoever waited |
| schedule | list of waits | set, timer | turn of the week, waits longer than the timer |
| light | queue of targets, current duty | set, 10 ms timer | queue at its limit |

What makes each one correct is listed with the runs below; what can go wrong,
line by line, is the list of hazards in `PROJECT.json`.

## 2. The modules

| module | models | notes |
|---|---|---|
| `RingOps` | the arithmetic and the copies of `user_ringbuffer.c` | pure operators, shared by the next two. Addresses from `Size` on are guard bytes |
| `RingBuffer` | the ring as a sequential object | one action per function |
| `RingFifo` | what the ring promises | the abstract queue, the loss at a full ring included. Both modules record the arguments and results of the last call, so that the refinement holds call for call |
| `Uplink` | interrupt and task on `tcp_rb_send` | the task's get is cut into steps: size, each byte copied, each store of `tail`, send |
| `KeyPress` | `key.c` with the handlers of `user_key.c` | time in ticks; handlers cut where the pin may change unnoticed |
| `CloudLink` | the cloud connection with smartconfig, key and espconn | a callback is a step; espconn is the set of links a call may leave |
| `ModbusShared` | the CRC and its two users on shared globals | the tables are copied from the code; the reference CRC is bitwise |
| `UartRx` | FIFO, status bits and `uart_intr_handler` | a byte is its place in its frame |
| `UdpServer` | the remote address and the start-up order | one step per field |
| `ConfigStore` | the configuration sector | a word is the number of the write it comes from |
| `DnsClient`, `DnsService` | the resolver; what it promises its callers | the table is walked one entry per step |
| `DhcpClient`, `DhcpServer`, `DhcpNet` | client and server as operators on a record and on the lease list; a net of stations and guests | a message carries whether its transaction identifier is still current |
| `TcpPcb`, `TcpNet` | the control block as operators; two hosts and a network | a byte of the stream is its number; `Holds` turns on the radio driver that keeps segments |
| `Espconn` | nodes, packet queues and events above an abstract TCP | callbacks may call back into espconn; memory may fail |
| `Etharp`, `Igmp`, `Udp`, `Ip`, `IpFrag`, `Autoip` | one file each (`Ip`: also `icmp.c`, `raw.c`, `ping.c`, `netif.c`) | addresses are names; headers are the fields a decision reads |
| `Pbuf`, `Mem` | packet buffers; the heap | the heap keeps real offsets, so that joining and splitting is arithmetic |
| `Timers`, `Sntp`, `Mdns` | one file each | `Sntp` also has the calendar, a separate initial state and next step |
| `Netconn`, `Sockets`, `Select`, `SockRecv` | `api/` | threads and the stack's thread in turn; `Select` lets go of the lock where the code does |
| `MqttMsg`, `MqttQueue`, `MqttConfig`, `MqttClient` | `esp_mqtt_proj` | messages are byte sequences with real lengths |
| `WebServer`, `Platform`, `Schedule`, `Light` | `IoT_Demo/user` | |
| `AppProofs`, `StackProofs` | theorems | section 5: about `RingBuffer`, `ConfigStore`, `MqttConfig`, `UdpServer`, `Schedule`, `Light`, `Platform`, `WebServer` and `UartRx`; and about `DhcpNet`, `Etharp`, `Igmp`, `Udp`, `Select` and `Netconn`. `CloudLink`, `KeyPress`, `TcpNet`, `DnsClient`, `Uplink` and `SockRecv` hold theirs at the end of the module |
| `MCApp`, `MCStack`, `MCLive` | TLC instances of the parts that share nothing | below |

Definitions have the name of the function they model where one function is one
step; otherwise the steps are named for what they do, and `PROJECT.json` gives
the lines. The lines of a function include the comment that heads it. An operator named after a definition with a suffix
(`GetBeginAtZero`, `poll_tcp_Idle`, ...) and placed before it is a wrong version of
that definition, which a property of the runs has been seen to catch.

Each module keeps its history variables apart, under "History". They record
what happened for the properties, and no guard reads them.

`MCApp`, `MCStack` and `MCLive` put parts side by side that have no state in
common: a behaviour is that of one part, chosen at the start, and the properties
speak of the part that moves. A part with theorems is EXTENDed, with variables of
its own, so that TLC checks the definitions the theorems are about: `RingBuffer`,
`Uplink`, `UartRx`, `UdpServer`, `ConfigStore`, `MqttConfig`, `Udp` and `Schedule`
in `MCApp`; `DnsClient`, `Etharp`, `Igmp` and `Select` in `MCStack`; `KeyPress` in
`MCLive` (this is why their definitions are called `UplinkInit`, `UartNext`,
`DnsSpec` and the like). The other parts are INSTANCEs; in `MCApp` and `MCStack` they call one
pool of variables by their own names, in `MCLive`, where fairness names the
variables of its part, each has its own. A bounded part stops when its bounds are used up (no more segments, no
more changes), so these runs do not ask for a next step in every state; that a
part does not stop early is what the liveness properties and the alive-type
invariants (`NeverStalls`, `ClientAlive`, `NeverGivenUp`) are for.

### What is external, and what is assumed of it

- **Xlink library** (binary): `off`, `tcp` or `login`. It logs in some time
  after the connection is up, reports a disconnect from its loop at any time
  while it is not off, and makes no callback from `xsdk_closeTCP`. It answers a
  datagram or not, to the address it was given.
- **GPIO**: an edge is latched only while the pin is enabled for it.
- **UART**: the status bits stay set until they are cleared, as
  `app/driver/uart.c` takes for granted when it clears them. The handler is
  faster than a frame interval (64 bits at 9600 baud, 6.7 ms).
- **os_timer**: due timers run in any order, before the next tick.
- **memcpy** copies upwards, as the one in ROM does. The build (`-Os`) may keep
  a global in a register or not, and may store `tail` once or twice: both are
  choices in the models.
- **Wi-Fi**: the mode is station or soft-AP, as the application sets it.
- **The network**: loses, delays, reorders and duplicates; the radio link of a
  soft access point keeps the order of a station's frames.
- **Memory**: an allocation may fail at any time where the code looks at the
  result (`Espconn`, `DhcpNet`, `Netconn`, `CloudLink`).
- **Flash**: a sector is erased to ones and programmed word by word; power may
  fail in between.

## 3. Runs

Every passing run takes between seconds and about four minutes.

| run | properties | shows |
|---|---|---|
| `cloud` | `DiscoveryAlive`, `NoSilentStall`, `LoginForgotten`, `ComesBack` | the flags, timers and links fit together in every order of events; a stall or a forgotten login has one of the named causes; the gateway keeps coming back, except for the states `Stalled`, `Forgotten` and `Orphaned` |
| `app` | `GuardIntact`, `ImplementsFifo` | ring: bytes come out once, in order; nothing is written behind the storage. The only loss is a put that fills the ring to its last byte, which empties it |
| | `UplinkSound` | how far the unprotected sharing holds: the indices account for every byte, except after a frame that fills the ring or meets the unwrapped `tail` during `send_loop`; only the latter overruns; without a frame during the drain the message is right as far as the end of the storage |
| | `SendVerdictRight`, `OneFrameAtATime`, `SentWhereAsked`, `StoreSound` | an outgoing frame is judged rightly unless the globals live in memory and a frame comes in; one whole frame at a time, until the threshold is first reached; datagrams go where they are meant to, a piped frame can be torn only between two fields; what survives a power failure, and the short write that does not keep the rest. That both tables are the Modbus CRC is an assumption TLC evaluates (`TablesRight`) |
| | `MqttSound`, `ConfigSurvives` | messages leave a segment and the queue as they went in; one valid configuration survives a power failure at any point of a save |
| | `IotSound`, `OnTime`, `ServicesSound`, `UdpSound` | settings, pages and the image stay apart; the cloud client always has something that makes it go on; no timer of the schedule is passed over or early, and the waiting ends only at an action that is not recognised, until a time of the list is met to the second and unless the stack variable with the actions is overwritten; mDNS messages can be read by their own lengths and come from live memory, with the two infos of a second `mdns_init` mixed in one message and the timer on a freed info after a close while announcing as the only exceptions; the list of timeouts is in order and complete, SNTP goes on asking, its calendar is the calendar; a datagram goes to the block it is for, and an answer back to the block that asked |
| `stack` | `ArpSound`, `MembershipSound`, `IpSound` | packets go to the hardware address heard last; reports, filters and use counts agree; echo, forwarding and raw blocks deliver what is addressed to them; every ping reports each request once and no answer twice, but one of two may report the other's; a reassembled datagram is whole except for a hole in front of a last-come fragment that was inserted between two others; the freed struct the eviction can leave in the list appears only for the oldest datagram at the limit; link-local addresses do not clash |
| | `MemorySound`, `SelectSound`, `SocketsSound` | reference counts and chains are right, the heap's blocks are disjoint and joined; no `lwip_select` sleeps through an event it asked for or is signalled twice; a netconn call is woken exactly once and its socket's events fit the mailboxes; partial reads, peeks and accepts keep the tables right; an option reaches the block it means, except on a stream whose block is gone (reset, shut down in any direction, failed to listen), for TCP's options on a listening stream and for `IP_MULTICAST_IF` read of another kind of socket |
| | `LookupsSound`, `ImplementsService` | no lookup outlives its retry schedule and refusals are justified; the resolver refines `DnsService`: one callback per request, with nothing or the address of a name that resembles the one asked for, although answers are matched to the wrong entries |
| `live` | `NeverDeaf`, `RestartNotPostponed`, `LongPressWasHeld` | key: an edge is always armed or about to be; the restart is not put off; a long press was held |
| | `KeyReleased`, `UartServed`, `BacklogDrains`, `IotLive`, `RequestAnswered`, `StackLive` | what happens in the end, under the fairness below |
| `dhcp` | `LeasesSound`, `NeverStalls` | no address is leased twice; what a station uses is leased to it, unless the server gave the lease up or the acknowledgement of another address was taken (`dhcp.c:1658`); no client is left without a timer |
| `tcp` | `StreamSound`, `RetransmitArmed` | the stream is whole and in order, its end comes last, what is acknowledged was delivered; what is under way is sent again |
| `espconn` | `PacketsSound`, `NothingLeftBehind` | packets are reported when they are acknowledged, `ptail` is alive; every packet is sent or its connection ends, every closed node is freed |
| `key_restart`, `dns_id`, `tcp_fin`, `espconn_again`, `ping_deaf` | one each, violated | comments that the code does not keep: section 4 |

### Bounds

The instances are in the `.cfg` files and in the `MC` modules.

- Ring and uplink: a storage of 3 bytes, requests of up to 4, two byte
  values. This has every relation of head, tail and length (wrapped or not,
  full, one short of full, longer than the ring). `Guard` is 2, as far as an
  overrun is followed.
- Key: `Debounce < Delay < Hold` (2, 4, 9 ticks for 50, 100, 3000 ms). The
  hold is longer than two debounces and a restart together, so that every
  order of expiry that 3000 ms allows occurs. The theorems hold for all times.
- Resolver: two entries, three requests, two retries and two servers; sequence
  numbers modulo 2 and ids modulo 3, so that both wrap (two requests, modulo 2 and
  4 for the liveness); random values which make ids collide across entries; one
  query in the network at a time, which may be answered any number of times. The
  names are `a.b`, its beginning `a`, and `c`; an answer spells out its name or
  compresses it from any character on.
- Cloud connection: the code's limit of 5 attempts; two lookups outstanding (one
  late one behind the one that succeeds is what matters).
- CRC: `TablesRight` feeds each of the 256 bytes to the tables, so that every
  entry is used; frames that are right, wrong, cut short and of one byte.
- UART: FIFO of 3 bytes with the threshold at 3 and frames of 1 to 3
  bytes: frames below and at the threshold, two frames in the FIFO, overflow.
- TCP: three bytes in segments of at most 2, a window of 2, sequence numbers
  modulo 64 starting at 62, so that they wrap under way; one retransmission
  before giving up; two segments in the network each way. One connection may be
  followed by none or one more.
- DHCP: one lwIP station and one guest, two leases, timers modulo 2, one frame
  under way each way: enough for every pair of a message and a timer to cross.
- espconn: one client and one server with one node, two connections in turn, two
  packets of two bytes.
- Stack parts: two or three entries, blocks, buffers, fragments or threads, one
  more event than entries, and modulus or age limits of 2 to 4, so that each
  table fills, each age runs out and each counter wraps. The heap has 28 bytes
  with a header of 2: three blocks, every split and join, and a remainder too
  small to split. Three packet buffers with three references held at a time make
  every chain with a shared part; a REF buffer is moved up to two bytes in front of
  where it began (`MaxFront`) in an instance of two buffers. Reassembly has three
  datagrams on two paths that cut twice. One ping runs with every raw block, and two
  run together with two requests each. mDNS has two infos, which differ in service
  and host.
- Applications: two segments of two messages with payloads of 1 and 130 bytes,
  on both sides of the one-byte length; a message ring of 7 bytes with every
  escaped byte; two clients of the web server.
- Schedule: hours of 2 and weeks of 7, so that a wait is cut into several timers
  and the week turns over before `MaxTime`; lists with timers of each
  kind, alone and together, with a fixed time that has passed, and with actions that
  do not switch the plug or are not recognised.
- Select: two threads on one socket, two threads that report events, one pending
  event; the lock is let go between any two elements of the list.

### Fairness

Weak fairness for what the SDK runs by itself: posted events, due timers, pending
interrupts, the stack's thread, a call that can return. None for the network or
for what the application chooses. Stronger assumptions, where something else has
to cooperate:

- `CloudLink`, `MqttClient`: strong for the lookup, the connection and the login
  succeeding: a peer that is asked again and again answers in the end. Without
  it the device may be off line because the cloud is. Weak for the library's
  report of a dead connection, which is the purpose of its keep-alive.
- `Netconn`: strong for an acknowledgement and for the poll of a connection that
  has room: the peer takes data in the end or the connection fails.
- `Timers`: strong for the tick, which other steps disable for a moment only.
- `UartRx`: a frame that began ends.
- `Uplink`: `send_loop`; its timer repeats and a call ends.

`MCLive` states each property under the fairness of its own part.

## 4. Findings

`PROJECT.json` quotes the comments; in short:

1. `key.c:162` "restart & enter softap mode": not if the key is let go within
   the debounce time before the restart (`key_restart`).
2. `dns.c:770` "The ID ... should be our entry": `dns_random` is shared by all
   entries and drawn anew for every query (`dns_id`).
3. `tcp_out.c:1238` "Requeue all unacked segments": not those the radio driver
   holds, and a FIN may then go out before the last data (`tcp_fin`).
4. `espconn.c:990` "protect for redisconnection": not an accepted connection, and
   the second event may end the next one (`espconn_again`).
5. `raw.c:180` "forwarded to another protocol layers": the ping application has
   moved the payload pointer, and other hosts' pings are dropped (`ping_deaf`).

The passing runs state other weak points exactly, by naming the condition under
which the desirable property fails: the full ring, the window between the two
stores of `tail`, the shared CRC, the threshold bit that is never cleared, the
torn UDP address, the NULL dereference at start-up, the stalls of the cloud
connection, the age of a DNS entry after the 8-bit sequence number wrapped, the
acknowledgement of another address (`dhcp.c:1658`).

Observations made while modelling, which no run is about:

- `dns.c:494` "0: names equal" of `dns_compare_name`: it is also 0 for a name that is
  the beginning of the one asked for, whatever byte separates the labels, and from a
  compressed label on.
- `dns.c:784` the jump that would inform the caller of an error answer is
  commented out, as is the search of completed entries (`dns.c:975`).
- DHCP: a server without free addresses offers 0.0.0.0; RELEASE does not free a
  dynamic lease's address for others at once; `t1`, `t2` wrap at 0.
- TCP: a FIN in the out-of-order queue that is not trimmed lowers `rcv_wnd` by
  more than was announced; `nrtx` is compared with the limit by equality.
- ARP: `etharp.c:585` removes the entries "of the specified netif", which is only
  recorded with SNMP on.
- UDP: `udp_bind` has changed `local_ip` when it answers `ERR_USE`.
- Sockets: two threads on one socket share `op_completed`; a shutdown, of one
  direction too, forgets the control block (`api_msg.c:784`), and an option on the
  stream then dereferences NULL (`sockets.c:2184`), as on one that was reset; `MSG_PEEK`
  credits the receive window (`sockets.c:725`).
- netconn: the end of the stream may overtake refused data (`api_msg.c:252`).
- Timeouts: a timeout counts from the last time the list was looked at, so it may
  be early (`timers.c:282`); a failed allocation loses a periodic timer.
- Reassembly: `ip_frag.c:441` and `568` say that all fragments are received. A
  fragment inserted between two others is compared with the one behind it only: of
  four fragments that arrive as 1, 4 and then 3, the datagram is handed on without
  the second. And `ip_reass_remove_oldest_datagram`, called for a fragment of the
  oldest datagram, leaves its freed struct in the list, where the assertions at 165
  and 167 say it cannot be. `HandedOn` and `DanglesForTheOldest` state when; they are
  comments the code does not keep, like those above.
- Ping: with two pings under way the one whose raw block is in front takes the answer
  to the newest request of either (`ping.c:137`).
- SNTP: `sntp_stop` leaves a retry pending, which sends through a NULL block.
- mDNS: closing while announcing leaves a timer on freed memory; messages take the
  service and host from globals of the last `mdns_init` (`mdns.c:580`, 724, 978), the
  rest from the info of the callback or timer; `txt_data[10]`
  is read before the index is compared (`mdns.c:684`).
- MQTT: only a PUBLISH leads on to the next message of a segment
  (`mqtt.c:343`); a message split over segments is not joined.
- Web server: a POST split in two is never joined; data of other connections is
  taken for the image during an upgrade (`user_webserver.c:1720`).
- Schedule: a fixed time met to the second stops the schedule
  (`user_esp_platform_timer.c:204`), and so does an action that is not recognised
  (241), with the later times of the list still to come; the timer keeps the address
  of the local `wait_param` (284-303); a loop time of 0 divides by zero.

## 5. Theorems

All hold for every value of the constants that the named assumption of the
module allows. Each inductive invariant was checked by TLC on the instance of the
run before it was proved.

- **`AppProofs`: ring** (from `RingAssumption`: a positive size). `TypeCorrect`
  is inductive as it stands, by the bounds of `PutSize` and `GetSize`.
  `NoOverrun` follows from it and from `PutMemoryValue`, which says what the one
  or two copies of a put leave at each address. `RingIsFifo` maps the ring to
  `Contents`, the unread bytes in order; `PutRefines` and `GetRefines` show a put
  and a get to be those of `RingFifo`. The arithmetic of positions modulo the
  size is in lemmas of its own (`PutArithmetic`, `GetArithmetic`).
- **`Uplink`** (from `RingAssumption`). `UplinkStaysSound` is the run's
  `UplinkSound`: for every ring size, every frame and every point at which the
  interrupt comes. `UplinkInv` adds to the type: `CountInv`, how the unread size,
  the call's `len` and `sz` and the bytes accepted agree at each point of
  `send_loop`; `RunInv`, which part of the storage each of the two copies is at;
  and `QuietInv`, what the storage holds at each byte of the copy while nothing
  interfered. The last is needed because get copies the ring into its own
  storage: the message is right only because the copy moves downwards and
  `memcpy` goes up (`Moving`), and only as far as the end of the storage
  (`Saved`). Accounting and overrun alone are not inductive, since a put in the
  middle of a copy relates to the `sz` that is already fixed.
- **`AppProofs`: UART** (from `UartAssumption`: the threshold is between 1 and the depth).
  `FramesArriveWhole` is the run's `OneFrameAtATime`. `UartInv` needs, besides the
  type, `ChainInv`: the bytes taken and those in the FIFO together are the
  bytes of the bus in order, ending where the line is, unless the FIFO
  overflowed; and `FrameInv`: what the FIFO and the buffer hold at each point of a
  frame when nothing was late.
- **`KeyPress`** (from `KeyAssumption`: `Debounce < Delay < Hold`). The
  invariant `IInv` adds to the properties: `Shape`, which ties the armed edge,
  the level and the debounce timer to the position in the code (`NeverDeaf`
  alone says nothing of a handler that is half done); `Apart`, that a hold
  begun after a long press ends after the restart; and `Held`, that the debounce
  timer bounds how long the pin may have been up unnoticed.
- **`CloudLink`** (from `LinkAssumption`). The five properties support each
  other once `ConnectsToResolved` is strengthened to `Resolved`. `Reconnect`
  states once what `user_tcp_reconnect` does to the invariant; the handlers that
  call it cite it.
- **`DnsClient`** (from `DnsAssumption`: a table no larger than the range of
  identifiers, at least two tries). `ResolverServes` is the refinement of
  `DnsService`, `LookupsStaySound` the bound on a lookup's age and the
  justification of refusals. `DnsInv` says that entries which ask, ask for
  different requests, without which one callback could answer twice, and that
  each is on its retry schedule: its age is bounded by the retries and servers
  used up and by what its timer has left (`OnSchedule`). The bound itself is not
  inductive, as it says nothing of how far an entry has come. What a callback may
  carry is `Resembles`, which `DnsService` states without the resolver's loop; that
  `NameMatches`, the translation of `dns_compare_name`, keeps to it is a lemma.
- **`TcpNet`** (from `TcpAssumption` and `NetAssumption`). `RetransmitAlwaysArmed`
  for any number of segments, any window and any loss. `ArmedInv` says more than
  the property: the retransmission counter itself runs while segments are
  unacked, the persist timer is never its substitute. One lemma for each operator
  of `TcpPcb` says that it keeps `Armed`.
- **`StackProofs`: DHCP** (from the assumptions of `DhcpClient`, `DhcpServer` and
  `DhcpNet`). `ClientNeverStalls` is `NeverStalls`; `AddressesAreLeased` is the part of
  `LeasesSound` that relates station and server; `LeasesStaySound` is all of it.
  The first two rest on `LeaseInv(0)`: a lease is on the list wherever it is in
  its life, as an acknowledgement under way, as an address being checked and as
  one in use. That no address is leased twice needs the hypothesis `OneStart(b)`:
  the range starts at the same `b` whatever it is set to, and no guest names an
  address below `b`. The search for a gap counts from the start of the range and
  takes the list to be filled from there (`wifi_softap_dhcps_client_update`), so
  an entry below it makes the search take an address that is leased. Without the
  hypothesis the claim is false: TLC finds two leases of one address with
  `GuestAddresses = {1}` (a guest that names the address below the range), and with
  two access point addresses whose default ranges start at different places. The
  instance of the run satisfies it.
- **`AppProofs`: configuration sector** (from `StoreAssumption`: a sector of at
  least one word). `StoreStaysSound` is `StoreSound`: what a write leaves, with or
  without a power failure at any word of it. `StoreInv` adds `WriteUnderWay`, what
  buffer and sector hold while a write is half done; `WriteKept`, that the
  image has what was saved last; and `BufferWarm`, that the buffer between two
  writes is the sector's content, which is what a short write builds on.
- **`AppProofs`: MQTT's configuration** (from `CfgAssumption`).
  `ConfigAlwaysSurvives` is `ConfigSurvives`. `CfgSteps` says, at each flash
  operation of a save, which copy the flag names and what both copies hold. Survival
  alone says nothing of the copy that is about to become current, nor why it is
  safe that an erased flag names the second copy whichever one was the target.
- **`AppProofs`: UDP server** (from `PeersAssumption`). `DatagramsGoWhereAsked` is
  the action property `SentWhereAsked`. `AddressUnderWay` says which fields hold the
  peer the task works for at each place, so that the interrupt, which writes back
  what it read, changes nothing.
- **`AppProofs`: schedule** (from `ScheduleAssumption`: weekly times lie in the
  week). `PlugActsOnTime` is `OnTime`. `WaitInv` says that the wait under way and the
  part of it still to come reach from now to the moment computed when the list was
  last looked at, and that the actions are those of that moment: `OnTime` itself is
  silent between two actions, when an hour too many would be waited. A list on which
  nothing is armed has met an action that is not recognised (`halted`), which the
  invariant traces to a timer of the list.
- **`AppProofs`: the IoT example** (from `LightAssumption` and `WebAssumption`; the
  cloud client needs none). `LightStaysSound`, `LinkNeverGivenUp` and `WebStaysSound`
  are together `IotSound`, part by part. `Settled` says that a light that sleeps is
  asked to be dark; the property also allows one that is still dark, which the next
  step of the PWM would not keep. `LinkInv` counts `client_timer` as idle while it
  waits for `user_platform_timer_get`, after which it is off. `WebInv` has one part
  for each global of the server: `RequestInv`; `SettingsInv`; `ScanInv`, which adds that
  nothing is printed while the scan runs and that the number of pages is that of the
  list, so that a page that is printed has an entry and the cursor wraps at most at
  the end; and `UpgradeInv`, which adds that a clean upgrade has stored as many
  bytes as it has counted.
- **`StackProofs`: ARP** (from `ArpAssumption`). `ArpStaysSound` is `ArpSound`.
  `EntryInv` ties an entry's queue, state and hardware address to what was heard;
  `ArpTableInv` adds that no two live entries are for one address, without which an
  update would leave a stale one.
- **`StackProofs`: IGMP** (from `IgmpAssumption`). `MembershipStaysSound` is
  `MembershipSound`. `GroupInv` says that an answer that is due belongs to a group
  whose timer runs out in time, and that an idle member did not report last: a
  group with no timer would satisfy the property until it has to answer.
- **`StackProofs`: UDP** (from `UdpAssumption`: more ports in the range than blocks;
  the wildcard and broadcast addresses are no host's). `UdpStaysSound` is `UdpSound`.
  `UdpInv` says that the list holds the bound blocks once each (`OnceEach`), that no
  two blocks can be for one datagram (`Apart`), and that a connected block has a
  remote host.
- **`StackProofs`: select** (from `SelectAssumption`: finitely many threads and
  sockets, and `"none"` is no thread). `NoWakeupIsLost` is `SelectSound`. `SelectInv`
  says which calls are on the list (`CbListInv`), that `select_waiting` counts those
  that wait for the socket (`CountInv`), that a walk stands on an element of the
  list or starts again (`WalkInv`), and `WakeInv`: a socket that became ready after
  the call's second scan had passed it has an `event_callback` walking whose
  way still leads past the call. This is the point of the second scan; the property
  speaks of the sleeping call only, and is not inductive.
- **`StackProofs`: netconn** (from `NetconnAssumption`: mailboxes and send buffer have
  room for something, writes are not empty, and a shutdown is one of three kinds).
  `NetconnStaysSound` is `NetconnSound`, the netconn part of `SocketsSound`.
  `NetconnSound` does not say which message an operation under way belongs to, that
  the callbacks are set in every connected state, or that `rcvevent` may be one ahead
  between `sys_arch_mbox_fetch` and the return of the receiver; `NetconnInv` does,
  as `WokenInv`, `MessageInv`, `BlockInv` and `CountedInv`, which every function of
  `tcpip_thread` preserves and which are therefore proved function by function, and
  `DueInv`, which `sent_tcp` breaks before it restores it.
- **`SockRecv`** (from `RecvAssumption`: the stream is a sequence of
  pbufs that are not empty, and the application asks for something).
  `RecvStaysSound` is `RecvSound`, the receive part of `SocketsSound`. `RecvInv` adds
  which pbufs the mailbox holds (`MailInv`), how far into the pbuf fetched last the
  bytes handed out reach (`PlaceInv`), and that a call goes on for more only while
  an event is counted (`CallInv`): a peek has taken nothing, and a call with
  bytes to return cannot wait. `StreamIs` shows that the starts of the pbufs add up, with a
  least counterexample in place of an induction.

Only model-checked:

- liveness (`ComesBack`, `KeyReleased`, `UartServed`, `BacklogDrains`, `IotLive`,
  `RequestAnswered`, `StackLive`, `NothingLeftBehind`), which is out of the
  prover's reach;
- everything about the CRC (`SendVerdictRight` with `ModbusShared`): `Bitwise` is
  not available to the prover, and what a fold computes needs an induction;
- `PacketsSound`, `MemorySound` and `MqttSound`: `Espconn`, `Pbuf`, `Mem` and the
  MQTT modules walk chains, blocks and bytes with RECURSIVE operators or folds;
  the prover does not accept the former and would need an induction for the
  latter;
- `IpSound` and `ServicesSound`: reassembly, ICMP and the list of timeouts are
  filters and sums over sequences, whose facts are again inductions; the link-local
  part is a property of times over several hosts;
- `StreamSound`: what the queues hold, in sequence numbers that wrap, is a fact
  about every suffix of three lists at once; it needs an invariant of its own;
- of `SocketsSound`, the netconn and the receive parts are proved; the descriptor
  table is left to TLC.

## 6. Not modelled

- The Xlink library, smartconfig protocol, Wi-Fi, PHY and `espconn_secure`: binary.
- `driver/uart.c`, `driver/i2c_master.c`, `driver/hw_timer.c`: linked, not
  called by the application; register I/O.
- IoT demo: sensor, plug and device finder, which are peripheral I/O.
- lwIP: PPP, SNMP, netbuf and netdb are not built, or are wrappers and tables.
  TCP's congestion window and round-trip estimation are abstracted to which
  segment may be sent when. Of the modelled parts, reassembly, AutoIP, the
  heap, netconn and sockets are off in the SDK's own configuration
  (`IP_REASSEMBLY`, `LWIP_AUTOIP`, `MEM_LIBC_MALLOC`, `NO_SYS`); they are
  modelled as `lwipopts.h` lets a project turn them on.
- Details of modelled functions that no property depends on: the allocation that
  fails in `sys_timeout` (`timers.c:296`), which the code asserts against; the branch
  at `user_esp_platform.c:669-671`; how a scan is asked for and its list released in
  the web server (`user_webserver.c:1454-1463`, `1480-1489`); the test of the buffer's
  references in `tcp_output` (`tcp_out.c:963`), instead of which `Holds` leaves the
  segments of busy buffers in `unacked`; options the DHCP server does not act on
  (`dhcpserver.c:523-557`) and its early return for a broadcast address (1052);
  infinite leases (`dhcp.c:979`, 993); the address filters of `igmp_joingroup`
  (`igmp.c:555`) and, for multicast, of `udp_input` (`udp.c:191`); where a new netconn
  gets its callbacks (`api_msg.c:523`); `lastdata` and `errevent` in `lwip_selscan`
  (`sockets.c:1040`, 1052); `FIONREAD` and `lwip_fcntl`.
- The other examples (`at`, `peripheral_test`, `simple_pair`, ...): calls of the
  binary SDK without logic of their own.
- Code placement in flash (a handler that calls flash-resident functions while
  the cache is off), the watchdog, and memory exhaustion in `app_init`.

## 7. Plan

Next, in this order:

1. The invariant of the queues that `StreamSound` needs: unsent, unacked and
   out-of-order segments as one run of the stream, over the lemmas `TcpNet` has for
   each operator of `TcpPcb`; then the descriptor table of `SocketsSound`.
2. `Gateway`: `UartRx`, `ModbusShared`, `Uplink` and `UdpServer` composed, from
   the byte on the bus to the datagram; frames kept in the ring across a lost
   connection belong here.
3. `CloudLink` above `Espconn`: the set of links as an abstraction of the nodes.
