----------------------------- MODULE UdpServer ------------------------------
(***************************************************************************)
(* The local network side of the gateway: app/user/user_udp_server.c, with *)
(* the start-up order of app/user/user_main.c that decides when it can be  *)
(* used.                                                                   *)
(*                                                                         *)
(* user_udp_server.proto.udp holds one remote address for everything.  The *)
(* task writes it, a field at a time, when a datagram comes in             *)
(* (user_udp_recv_cb) and when the Xlink library sends one                 *)
(* (user_udp_send).  The UART interrupt reads it and writes it back        *)
(* (user_udp_send_pipe, through XlinkSendUdpPipe and user_udp_send)        *)
(* between any two of the task's steps.                                    *)
(*                                                                         *)
(* The Xlink library is external: it answers the datagram it is given, or  *)
(* not, and sends to any peer from its own loop.                           *)
(***************************************************************************)
EXTENDS Integers

CONSTANTS
  Peers,      \* hosts on the local network, each with its own ip and port
  Nobody      \* ip 0.0.0.0 and UDP_REMOTE_PORT

PeersAssumption == Nobody \notin Peers

VARIABLES
  boot,       \* how far app_init has come, see Stages
  ip, port,   \* proto.udp->remote_ip and remote_port, by whose they are
  place,      \* the task: see Places
  addr,       \* the xlink_addr it works with
  sent_to,    \* where espconn_send last sent a datagram: from the task ...
  piped,      \* ... and from the interrupt
  fault,      \* the interrupt dereferenced proto.udp while it was NULL
  asked       \* the sender of the datagram received (premot in recv_cb), or
              \* the peer the library means to send to

(* History, used by the properties only. *)
VARIABLES
  split       \* the last frame was piped while the task was between the
              \* two fields

serverVars == <<boot, ip, port, place, addr, sent_to, piped, fault, asked, split>>

\* The interrupt is enabled (modbus_init), modbus_receive is installed
\* (uart0_set_rx_cb), user_net_send_pipe is (modbus_set_recv_frame_fn),
\* proto.udp is allocated (user_udp_server_init).
Stages == <<"enabled", "receiving", "piping", "up">>

Places == {"idle", "recv_ip", "recv_port", "recv_done", "process",
           "send_port", "send_ip", "send"}

\* What a datagram's ip and port say together.
Address == [ip : Peers \cup {Nobody}, port : Peers \cup {Nobody}]
Of(p) == [ip |-> p, port |-> p]

ServerInit ==
  /\ boot = 1
  /\ ip = Nobody /\ port = Nobody
  /\ place = "idle" /\ addr = Of(Nobody)
  /\ sent_to = Of(Nobody) /\ piped = Of(Nobody) /\ fault = FALSE
  /\ asked = Nobody /\ split = FALSE

-----------------------------------------------------------------------------
(* The interrupt *)

BetweenFields == place \in {"recv_port", "send_ip"}

user_udp_send_pipeToAsker ==
  /\ ip' = addr.ip /\ port' = addr.port
  /\ piped' = addr
  /\ split' = BetweenFields

\* user_udp_send_pipe: the address is read, and XlinkSendUdpPipe hands it to
\* user_udp_send, which writes it back and sends.
user_udp_send_pipe ==
  /\ piped' = [ip |-> ip, port |-> port]
  /\ split' = BetweenFields
  /\ UNCHANGED <<ip, port>>

\* A Modbus frame: dropped until user_net_send_pipe is installed, a NULL
\* dereference until proto.udp is allocated.  (user_tcp_send_pipe, called
\* before, does nothing without a server: see Uplink.)
FramePiped ==
  /\ boot >= 3
  /\ ~ fault
  /\ IF boot = 4
     THEN user_udp_send_pipe /\ UNCHANGED fault
     ELSE fault' = TRUE /\ UNCHANGED <<ip, port, piped, split>>
  /\ UNCHANGED <<boot, place, addr, sent_to, asked>>

-----------------------------------------------------------------------------
(* app_init *)

app_init ==
  /\ boot < 4 /\ ~ fault
  /\ boot' = boot + 1
  /\ UNCHANGED <<ip, port, place, addr, sent_to, piped, fault, asked, split>>

\* The exception restarts the device.
Restart ==
  /\ fault
  /\ boot' = 1 /\ fault' = FALSE
  /\ UNCHANGED <<ip, port, place, addr, sent_to, piped, asked, split>>

-----------------------------------------------------------------------------
(* The task *)

Goes(from, to) == place = from /\ place' = to

\* user_udp_recv_cb with the sender's address from
\* espconn_get_connection_info.
user_udp_recv_cb(p) ==
  /\ boot = 4
  /\ Goes("idle", "recv_ip")
  /\ asked' = p
  /\ UNCHANGED <<boot, ip, port, addr, sent_to, piped, fault, split>>

RecvIp ==
  /\ Goes("recv_ip", "recv_port")
  /\ ip' = asked
  /\ UNCHANGED <<boot, port, addr, sent_to, piped, fault, asked, split>>

RecvPort ==
  /\ Goes("recv_port", "recv_done")
  /\ port' = asked
  /\ UNCHANGED <<boot, ip, addr, sent_to, piped, fault, asked, split>>

\* addr is read back from proto.udp, and process_udp_data gets it.
RecvAddr ==
  /\ Goes("recv_done", "process")
  /\ addr' = [ip |-> ip, port |-> port]
  /\ UNCHANGED <<boot, ip, port, sent_to, piped, fault, asked, split>>

\* The library has nothing to answer.
NoReply ==
  /\ Goes("process", "idle")
  /\ UNCHANGED <<boot, ip, port, addr, sent_to, piped, fault, asked, split>>

\* It answers, by user_udp_send to the same address ...
Reply ==
  /\ Goes("process", "send_port")
  /\ UNCHANGED <<boot, ip, port, addr, sent_to, piped, fault, asked, split>>

\* ... or sends to some peer of its own accord.
XlinkSends(p) ==
  /\ boot = 4
  /\ Goes("idle", "send_port")
  /\ addr' = Of(p)
  /\ asked' = p
  /\ UNCHANGED <<boot, ip, port, sent_to, piped, fault, split>>

SendPort ==
  /\ Goes("send_port", "send_ip")
  /\ port' = addr.port
  /\ UNCHANGED <<boot, ip, addr, sent_to, piped, fault, asked, split>>

SendIp ==
  /\ Goes("send_ip", "send")
  /\ ip' = addr.ip
  /\ UNCHANGED <<boot, port, addr, sent_to, piped, fault, asked, split>>

\* espconn_send takes the destination from proto.udp.
Send ==
  /\ Goes("send", "idle")
  /\ sent_to' = [ip |-> ip, port |-> port]
  /\ UNCHANGED <<boot, ip, port, addr, piped, fault, asked, split>>

Task ==
  \/ \E p \in Peers : user_udp_recv_cb(p) \/ XlinkSends(p)
  \/ RecvIp \/ RecvPort \/ RecvAddr
  \/ NoReply \/ Reply
  \/ SendPort \/ SendIp \/ Send

ServerNext == FramePiped \/ app_init \/ Restart \/ Task

ServerSpec == ServerInit /\ [][ServerNext]_serverVars

-----------------------------------------------------------------------------
(* Properties *)

\* The task runs only once the server is up.
ServerType ==
  /\ boot \in 1 .. 4
  /\ ip \in Peers \cup {Nobody} /\ port \in Peers \cup {Nobody}
  /\ place \in Places
  /\ addr \in Address /\ sent_to \in Address /\ piped \in Address
  /\ fault \in BOOLEAN /\ split \in BOOLEAN
  /\ asked \in Peers \cup {Nobody}
  /\ place # "idle" => boot = 4

\* A datagram of the task goes where the library wanted it: to the sender of
\* the datagram it answers, or to the peer it chose, although the interrupt
\* writes the same two fields while the task is between them.
SentRight == (place = "send" /\ place' = "idle") => sent_to' = Of(asked)

\* A frame from the bus goes to one peer's address, never to the ip of one
\* and the port of another, unless the interrupt found the task between the
\* two fields; and it makes the gateway fault only between
\* modbus_set_recv_frame_fn and user_udp_server_init (app_init installs the
\* pipe before what it needs).
PipedToOnePeer ==
  /\ piped.ip = piped.port \/ split
  /\ fault => Stages[boot] = "piping"

\* Both, of every step of the task and of the interrupt.
SentWhereAsked == [][SentRight /\ PipedToOnePeer']_serverVars
=============================================================================
