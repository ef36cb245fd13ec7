-------------------------------- MODULE Mdns --------------------------------
(***************************************************************************)
(* The mDNS responder (core/mdns.c): the calls that start, stop, enable    *)
(* and disable it, the timer that announces the service four times, the    *)
(* questions it answers and the messages it sends.                         *)
(*                                                                         *)
(* A label is its length, a name a sequence of labels, and a message the   *)
(* bytes of its records with every character standing as Char.             *)
(***************************************************************************)
EXTENDS Integers, Sequences, SequencesExt, FiniteSetsExt

CONSTANTS
  Infos,      \* the struct mdns_info of the caller: host, server (a label), txt (lengths), ip (is set)
  Modes,      \* the operating modes: subsets of {"sta", "ap"}
  MaxInits,   \* bound: calls of mdns_init
  MaxLost     \* bound: packets given up with their buffer still allocated

MdnsAssumption ==
  /\ \A i \in Infos : /\ i.host \in Seq(Nat \ {0}) /\ i.host # <<>> /\ i.server \in Nat \ {0}
                      /\ i.txt \in Seq(Nat) /\ Len(i.txt) <= 10 /\ i.ip \in BOOLEAN
  /\ Modes \subseteq SUBSET {"sta", "ap"}
  /\ MaxInits \in Nat /\ MaxLost \in Nat

VARIABLES
  infos,           \* the allocated copies of the caller's info, [info, live]
  ms_info,         \* the index of the current one, 0 for NULL
  globals,         \* PUCK_SERVICE and service_name, set by the last mdns_init
  pcbs,            \* the UDP control blocks, [live, bound, handler, arg]
  mdns_pcb,        \* the index of the current one, 0 for NULL
  mdns_timer,      \* [armed, arg]
  announced,       \* the static i of mdns_reg
  mdns_flag,
  register_flag,
  joined,          \* the use count of the group on each interface
  mode,            \* wifi_get_opmode
  netif_default,
  wire,            \* the message of the last step, <<>> if it sent none
  lost,            \* how many packets were never freed
  misused,         \* history: "twice", started without being closed; "idle", enabled or
                   \* disabled without a control block; "orphaned", closed while the
                   \* timer ran, and not started since
  fault            \* freed memory or a NULL control block was used

mdnsVars == <<infos, ms_info, globals, pcbs, mdns_pcb, mdns_timer, announced, mdns_flag, register_flag,
              joined, mode, netif_default, wire, lost, misused, fault>>

Init ==
  /\ infos = <<>> /\ ms_info = 0
  /\ globals = [PUCK_SERVICE |-> <<>>, service_name |-> <<>>]
  /\ pcbs = <<>> /\ mdns_pcb = 0
  /\ mdns_timer = [armed |-> FALSE, arg |-> 0]
  /\ announced = 0
  /\ mdns_flag = 0 /\ register_flag = 0
  /\ joined = [sta |-> 0, ap |-> 0]
  /\ mode \in Modes
  /\ netif_default = "sta"
  /\ wire = <<>>
  /\ lost = 0
  /\ misused = {} /\ fault = FALSE

-----------------------------------------------------------------------------
(* The messages. *)

Char == -1
Local == 5                     \* MDNS_LOCAL, "local"
Tcp == 4                       \* "_tcp"
DNS_SD_SERVICE == <<9, 7, 4, 5>>
DNS_OFFSET_FLAG == 192
DNS_DEFAULT_OFFSET == 12
DeviceInfo == 18               \* "vendor = Espressif"
Type == [A |-> 1, PTR |-> 12, TXT |-> 16, SRV |-> 33]
Rdata == [A |-> 4, SRV |-> 6]  \* the fixed part of the data of a record

\* mdns_set_servername
ServiceOf(info) == <<info.server, Tcp, Local>>

PUCK_SERVICE == globals.PUCK_SERVICE

Strlen(name) == FoldSeq(LAMBDA l, n : l + n, Len(name) - 1, name)

\* One label of a name, or one string of a TXT record: its length and its characters.
Label(n) == <<n>> \o [i \in 1 .. n |-> Char]

Labels(name) == FlattenSeq([i \in 1 .. Len(name) |-> Label(name[i])])

Ended(name) == Labels(name) \o <<0>>

Shortened(name) == Labels(name) \o <<DNS_OFFSET_FLAG, DNS_DEFAULT_OFFSET>>

Header(id, answers) == <<0, id, 132, 0, 0, 0, 0, answers, 0, 0, 0, 0>>

\* struct mdns_answer: type, class, ttl and length.
Record(type, len) == <<type, 0, 0, 1, 0, 0, 0, 0, len \div 256, len % 256>>

Address == <<Char, Char, Char, Char>>
Service == <<0, 0, 0, 0, Char, Char>>

PtrRecord(info) ==
  Ended(PUCK_SERVICE) \o Record(Type.PTR, Strlen(info.host) + 2 + 1) \o Shortened(info.host)

TxtLength(info) == FoldSeq(LAMBDA l, n : n + l + 1, 0, info.txt) + DeviceInfo + 1

TxtRecord(info) ==
  Shortened(info.host) \o Record(Type.TXT, TxtLength(info)) \o Labels(<<DeviceInfo>> \o info.txt)

\* The host: service_name, a copy made by the last mdns_init, and "local".
Target == globals.service_name \o <<Local>>

SrvRecord(info) ==
  Shortened(info.host) \o Record(Type.SRV, Rdata.SRV + Strlen(Target) + 2) \o Service \o Ended(Target)

ARecord == Ended(Target) \o Record(Type.A, Rdata.A) \o Address

\* The instance and its texts are those of the info the caller was set up
\* with, the service and the host those of the last mdns_init.
mdns_send_service(info) ==
  Header(0, 4) \o PtrRecord(info) \o TxtRecord(info) \o SrvRecord(info) \o ARecord

mdns_answer ==
  Header(0, 1) \o Ended(DNS_SD_SERVICE)
    \o Record(Type.PTR, Strlen(PUCK_SERVICE) + 1 + 1) \o Ended(PUCK_SERVICE)

-----------------------------------------------------------------------------
(* Sending and receiving. *)

Live(i) == i # 0 /\ infos[i].live

\* The message that mdns_send_service makes of the info it is given; none can
\* be made of one that was freed.
ServiceMessage(arg) == IF Live(arg) THEN mdns_send_service(infos[arg].info) ELSE <<>>

\* With both interfaces up the packet goes out twice, and the default interface stays
\* the soft AP; a copy that cannot be allocated leaves the packet behind.
Send(message) ==
  IF message = <<>> \/ mdns_pcb = 0
  THEN fault' = TRUE /\ UNCHANGED <<wire, netif_default, lost>>
  ELSE /\ UNCHANGED fault
       /\ \/ wire' = message /\ UNCHANGED <<netif_default, lost>>
          \/ mode = {"sta", "ap"} /\ wire' = message /\ netif_default' = "ap" /\ UNCHANGED lost
          \/ /\ mode = {"sta", "ap"} /\ lost < MaxLost
             /\ wire' = <<>> /\ lost' = lost + 1 /\ UNCHANGED netif_default
          \/ wire' = <<>> /\ UNCHANGED <<netif_default, lost>>

\* A question is taken for the name when it is the beginning of it, in the
\* middle of a label or not, or goes on with a compressed label (which is left
\* out of question).  Labels of the same length are taken for the same.
mdns_compare_name(name, question) ==
  \/ question = <<>>
  \/ /\ Len(question) \in 1 .. Len(name)
     /\ IsPrefix(Front(question), name)
     /\ Last(question) <= name[Len(question)]

\* A message arrives at a bound control block.
mdns_recv(k, question) ==
  /\ ~fault
  /\ pcbs[k].live /\ pcbs[k].bound /\ pcbs[k].handler
  /\ \/ /\ mdns_compare_name(DNS_SD_SERVICE, question)
        /\ Send(mdns_answer)
     \/ /\ ~mdns_compare_name(DNS_SD_SERVICE, question)
        /\ mdns_compare_name(PUCK_SERVICE, question)
        /\ Send(ServiceMessage(pcbs[k].arg))
     \/ /\ ~mdns_compare_name(DNS_SD_SERVICE, question)
        /\ ~mdns_compare_name(PUCK_SERVICE, question)
        /\ wire' = <<>> /\ UNCHANGED <<netif_default, lost, fault>>
  /\ UNCHANGED <<infos, ms_info, globals, pcbs, mdns_pcb, mdns_timer, announced, mdns_flag, register_flag,
                 joined, mode, misused>>

\* The timer, once a second.
mdns_reg ==
  /\ ~fault /\ mdns_timer.armed
  /\ IF announced <= 3
     THEN /\ Send(ServiceMessage(mdns_timer.arg))
          /\ announced' = announced + 1
          /\ UNCHANGED mdns_timer
     ELSE /\ mdns_timer' = [mdns_timer EXCEPT !.armed = FALSE]
          /\ wire' = <<>>
          /\ UNCHANGED <<announced, netif_default, lost, fault>>
  /\ UNCHANGED <<infos, ms_info, globals, pcbs, mdns_pcb, mdns_flag, register_flag, joined, mode, misused>>

-----------------------------------------------------------------------------
(* The calls of the application. *)

\* udp_bind refuses a port another control block has.
Bindable == \A k \in DOMAIN pcbs : ~(pcbs[k].live /\ pcbs[k].bound)

Joins == [i \in DOMAIN joined |-> joined[i] + (IF i \in mode THEN 1 ELSE 0)]

\* How far mdns_init comes: "memory", "address", "pcb", "sta" or "ap" names what failed.
mdns_init(info, fails) ==
  LET n == Len(infos) + 1
      k == Len(pcbs) + 1
      bound == fails = "" /\ Bindable
      Pcb == [live |-> TRUE, bound |-> bound, handler |-> bound, arg |-> IF bound THEN n ELSE 0]
  IN  /\ ~fault /\ n <= MaxInits
      /\ (fails = "address") = (fails # "memory" /\ ~info.ip)
      /\ fails \in {"sta", "ap"} => fails \in mode
      /\ wire' = <<>>
      /\ misused' = (IF mdns_pcb # 0 THEN misused \cup {"twice"} ELSE misused)
                     \ (IF bound THEN {"orphaned"} ELSE {})
      /\ infos' = Append(infos, [info |-> info, live |-> fails # "memory"])
      /\ ms_info' = IF fails = "memory" THEN 0 ELSE n
      /\ globals' = IF fails \in {"memory", "address"} THEN globals
                    ELSE [PUCK_SERVICE |-> ServiceOf(info), service_name |-> info.host]
      /\ IF fails \in {"memory", "address"}
         THEN UNCHANGED <<pcbs, mdns_pcb, joined, register_flag, mdns_flag, mdns_timer>>
         ELSE IF fails = "pcb"
         THEN mdns_pcb' = 0 /\ UNCHANGED <<pcbs, joined, register_flag, mdns_flag, mdns_timer>>
         ELSE /\ pcbs' = Append(pcbs, Pcb)
              /\ mdns_pcb' = k
              /\ joined' = CASE fails = "sta" -> joined
                             [] fails = "ap"  -> [Joins EXCEPT !.ap = joined.ap]
                             [] OTHER         -> Joins
              /\ register_flag' = IF fails = "" THEN 1 ELSE register_flag
              /\ mdns_flag' = IF bound THEN 1 ELSE mdns_flag
              /\ mdns_timer' = IF bound THEN [armed |-> TRUE, arg |-> n] ELSE mdns_timer
      /\ UNCHANGED <<announced, mode, netif_default, lost, fault>>

\* The control block is removed before the copy it refers to is freed.
mdns_close ==
  /\ ~fault
  /\ mdns_pcb # 0 /\ ms_info # 0
  /\ pcbs' = [pcbs EXCEPT ![mdns_pcb].live = FALSE]
  /\ infos' = [infos EXCEPT ![ms_info].live = FALSE]
  /\ mdns_pcb' = 0 /\ ms_info' = 0
  /\ misused' = IF mdns_timer.armed THEN misused \cup {"orphaned"} ELSE misused
  /\ wire' = <<>>
  /\ UNCHANGED <<globals, mdns_timer, announced, mdns_flag, register_flag, joined, mode, netif_default,
                 lost, fault>>

\* udp_recv on the current control block; a NULL one is a fault.
Install(handler) ==
  /\ IF mdns_pcb = 0 THEN fault' = TRUE /\ UNCHANGED pcbs
     ELSE /\ pcbs' = [pcbs EXCEPT ![mdns_pcb].handler = handler, ![mdns_pcb].arg = 0]
          /\ UNCHANGED fault
  /\ misused' = IF mdns_pcb = 0 THEN misused \cup {"idle"} ELSE misused
  /\ wire' = <<>>
  /\ UNCHANGED <<infos, ms_info, globals, mdns_pcb, mdns_timer, announced, mdns_flag, register_flag,
                 joined, mode, netif_default, lost>>

mdns_enable == ~fault /\ mdns_flag = 0 /\ Install(TRUE)

mdns_disable == ~fault /\ mdns_flag = 1 /\ Install(FALSE)

\* Leaves the group on the station first; an interface that is not a member stops it.
mdns_server_unregister ==
  LET sta == joined.sta > 0
      Left(i) == [joined EXCEPT ![i] = @ - 1]
  IN  /\ ~fault /\ register_flag = 1
      /\ \/ /\ sta /\ "ap" \notin mode
            /\ joined' = Left("sta") /\ register_flag' = 0
         \/ /\ sta /\ "ap" \in mode
            /\ joined' = [i \in DOMAIN joined |-> joined[i] - (IF joined[i] > 0 THEN 1 ELSE 0)]
            /\ register_flag' = IF joined.ap > 0 THEN 0 ELSE 1
         \/ ~sta /\ UNCHANGED <<joined, register_flag>>
      /\ wire' = <<>>
      /\ UNCHANGED <<infos, ms_info, globals, pcbs, mdns_pcb, mdns_timer, announced, mdns_flag, mode,
                     netif_default, lost, misused, fault>>

\* Joins on the station only.
mdns_server_register ==
  /\ ~fault /\ register_flag = 0 /\ "sta" \in mode /\ Len(infos) > 0
  /\ joined' = [joined EXCEPT !.sta = @ + 1]
  /\ register_flag' = 1
  /\ wire' = <<>>
  /\ UNCHANGED <<infos, ms_info, globals, pcbs, mdns_pcb, mdns_timer, announced, mdns_flag, mode,
                 netif_default, lost, misused, fault>>

\* The names that are asked for: whole, cut in a label, compressed from the
\* start, and another one.
Questions == {DNS_SD_SERVICE, <<>>, <<63>>} \cup {ServiceOf(i) : i \in Infos}
             \cup {<<i.server, Tcp, Local - 1>> : i \in Infos}

Next ==
  \/ \E i \in Infos, f \in {"", "memory", "address", "pcb", "sta", "ap"} : mdns_init(i, f)
  \/ mdns_close
  \/ mdns_enable
  \/ mdns_disable
  \/ mdns_server_register
  \/ mdns_server_unregister
  \/ mdns_reg
  \/ \E k \in DOMAIN pcbs, q \in Questions : mdns_recv(k, q)

Spec == Init /\ [][Next]_mdnsVars

-----------------------------------------------------------------------------
(* What another host reads. *)

At(m, at) == IF at \in DOMAIN m THEN m[at] ELSE Char

\* The labels of the name at a position, and where it ends; a pointer leads to an earlier
\* name, and what is no name ends beyond the message.
RECURSIVE ReadName(_, _)
ReadName(m, at) ==
  CASE At(m, at) = 0 -> [labels |-> <<>>, next |-> at + 1]
    [] At(m, at) = DNS_OFFSET_FLAG /\ At(m, at + 1) \in 12 .. at - 2 ->
         [labels |-> ReadName(m, m[at + 1] + 1).labels, next |-> at + 2]
    [] At(m, at) \notin 0 .. 63 -> [labels |-> <<Char>>, next |-> Len(m) + 2]
    [] OTHER -> LET rest == ReadName(m, at + m[at] + 1)
                IN  [labels |-> <<m[at]>> \o rest.labels, next |-> rest.next]

RECURSIVE ReadStrings(_, _, _)
ReadStrings(m, at, end) ==
  IF at >= end \/ At(m, at) = Char THEN <<>> ELSE <<m[at]>> \o ReadStrings(m, at + m[at] + 1, end)

\* The n records from a position on, then where the message ends for the reader.
RECURSIVE ReadRecords(_, _, _)
ReadRecords(m, at, n) ==
  IF n = 0 \/ at > Len(m) THEN <<at>>
  ELSE LET name == ReadName(m, at)
           type == At(m, name.next)
           from == name.next + 10
           next == from + At(m, name.next + 8) * 256 + At(m, name.next + 9)
           data == CASE type = Type.PTR -> ReadName(m, from)
                     [] type = Type.SRV -> ReadName(m, from + 6)
                     [] type = Type.TXT -> [labels |-> ReadStrings(m, from, next), next |-> next]
                     [] OTHER        -> [labels |-> <<>>, next |-> from + 4]
       IN  << <<type, name.labels, data.labels, data.next = next>> >> \o (IF next > at THEN ReadRecords(m, next, n - 1) ELSE <<next>>)

\* The records of an instance, with its texts, on a host that offers a service.
Announces(m, instance, txt, host, service) ==
  ReadRecords(m, 13, m[8]) =
    << <<Type.PTR, service, instance \o service, TRUE>>,
       <<Type.TXT, instance \o service, <<DeviceInfo>> \o txt, TRUE>>,
       <<Type.SRV, instance \o service, host \o <<Local>>, TRUE>>,
       <<Type.A, host \o <<Local>>, <<>>, TRUE>>, Len(m) + 1>>

\* The record of a service.
ListsService(m, service) ==
  ReadRecords(m, 13, m[8]) = << <<Type.PTR, DNS_SD_SERVICE, service, TRUE>>, Len(m) + 1>>

\* Every message the responder sends can be read by following its own lengths and pointers
\* (mdns_send_service, mdns_answer: each length is computed apart from the bytes it counts).
\* It then gives the instance and texts of a live mdns_info, and the service and host of the
\* last mdns_init; unless the application started the responder without closing it, all of
\* them are of the same info.
MessagesReadable ==
  wire # <<>> =>
    \/ /\ ListsService(wire, PUCK_SERVICE)
       /\ \E i \in DOMAIN infos : PUCK_SERVICE = ServiceOf(infos[i].info)
    \/ \E i \in DOMAIN infos :
         LET info == infos[i].info
         IN  /\ infos[i].live
             /\ Announces(wire, info.host, info.txt, globals.service_name, PUCK_SERVICE)
             /\ "twice" \notin misused =>
                  PUCK_SERVICE = ServiceOf(info) /\ globals.service_name = info.host

\* The timer's next run uses a freed info or a NULL control block.
Doomed == mdns_timer.armed /\ announced <= 3 /\ (~Live(mdns_timer.arg) \/ mdns_pcb = 0)

\* The responder answers from memory it still owns (mdns_init, mdns_close, mdns_disable):
\* the receive callback of a bound control block always holds a live info.  The timer,
\* which mdns_close does not disarm, outlives the info it was given exactly if the
\* responder was closed while announcing and not started since; nothing else is used
\* after it was freed, unless the application starts the responder without closing it
\* or enables or disables one that has no control block.
AnswersFromLiveInfo ==
  /\ \A k \in DOMAIN pcbs :
       pcbs[k].live /\ pcbs[k].bound /\ pcbs[k].handler => Live(pcbs[k].arg)
  /\ "twice" \notin misused =>
       (~fault => (Doomed <=> "orphaned" \in misused /\ mdns_timer.armed /\ announced <= 3))
  /\ fault => misused # {}
=============================================================================
