------------------------------- MODULE TcpNet -------------------------------
(***************************************************************************)
(* Two hosts with the lwIP TCP (TcpPcb): Client connects to a port Server  *)
(* listens on, and sends it Bytes bytes; either closes or gives up at any  *)
(* time.  The network loses, delays and reorders segments (repeated ones   *)
(* come from retransmissions); one that would be the NetLen+1st under way  *)
(* is lost.                                                                *)
(***************************************************************************)
EXTENDS TcpPcb, TLAPS

CONSTANTS
  Client, Server,
  Iss,        \* the client's initial sequence number
  IssStep,    \* the server's are the multiples of IssStep
  MSSs,       \* the values mss may have
  Bytes,      \* how much the client writes
  NetLen,     \* bound on the segments under way
  Accepts,    \* bound on the connections the server accepts
  Keeping,    \* the hosts whose application set SOF_KEEPALIVE
  Quitting,   \* the hosts whose application closes first; any does after
              \* its peer
  Aborting,   \* the hosts whose application gives up
  Holds       \* whether the radio driver may still hold a segment's buffer
              \* when its retransmission timer runs out

Hosts == {Client, Server}

ASSUME NetAssumption ==
  /\ Keeping \cup Quitting \cup Aborting \subseteq Hosts
  /\ Client # Server /\ {Iss, IssStep} \subseteq 0 .. SeqSpace - 1
  /\ {Bytes, Accepts} \subseteq Nat /\ NetLen \in Nat \ {0}
  /\ Holds \in BOOLEAN /\ MSSs \subseteq Nat \ {0}

VARIABLES
  mss,       \* what the SYN options of both ends allow; never changes
  pcb,       \* per host, its control block
  net,       \* the segments under way: <<destination, segment>>
  opened     \* per host, how many connections it opened

(* History, used by the properties only. *)
VARIABLES
  written,   \* how many bytes the client has written
  got,       \* the bytes handed to the server's application, in this order
  eof        \* that application was told that the client closed

vars == <<mss, pcb, net, opened, written, got, eof>>

\* tcp_next_iss: the server's next initial sequence number.
iss == SEQ(opened[Server] * IssStep)

Peer(h) == IF h = Client THEN Server ELSE Client

Init ==
  /\ mss \in MSSs
  /\ pcb = [h \in Hosts |-> tcp_alloc(0, mss)]
  /\ net = {} /\ opened = [h \in Hosts |-> 0]
  /\ written = 0 /\ got = <<>> /\ eof = FALSE

\* The host's step ends: p is its block, p.out goes out, and what it hands
\* to the application is received.
Fitting(n, out) == SubSeq(out, 1, Least(Len(out), NetLen - Cardinality(n)))

Step(h, p, n) ==
  /\ UNCHANGED mss
  /\ pcb' = [pcb EXCEPT ![h] = IF p.st = "CLOSED" THEN tcp_alloc(0, mss)
                               ELSE [p EXCEPT !.out = <<>>, !.recv = <<>>,
                                              !.eof = FALSE]]
  /\ net' = n \cup {<<Peer(h), s>> : s \in Range(Fitting(n, p.out))}

App(p) == got' = got \o p.recv /\ eof' = (eof \/ p.eof)

Idle == UNCHANGED <<opened, written, got, eof>>

Connect ==
  /\ opened[Client] = 0 /\ opened' = [opened EXCEPT ![Client] = 1]
  /\ Step(Client, tcp_connect(Iss, mss), net)
  /\ UNCHANGED <<written, got, eof>>

\* espconn writes to an established connection only.
Write(n) ==
  /\ pcb[Client].st \in {"ESTABLISHED", "CLOSE_WAIT"}
  /\ written + n <= Bytes
  /\ LET data == [i \in 1 .. n |-> written + i]
     IN  /\ CanWrite(pcb[Client], data)
         /\ Step(Client, tcp_output(tcp_write(pcb[Client], data)), net)
  /\ written' = written + n
  /\ UNCHANGED <<opened, got, eof>>

Active(h) == pcb[h].st \notin {"CLOSED", "TIME_WAIT"}

Close(h) ==
  /\ \/ pcb[h].st = "CLOSE_WAIT"
     \/ h \in Quitting /\ pcb[h].st \in {"SYN_SENT", "SYN_RCVD", "ESTABLISHED"}
  /\ Step(h, tcp_close(pcb[h]), net)
  /\ Idle

Abort(h) ==
  h \in Aborting /\ Active(h) /\ Step(h, tcp_abandon(pcb[h]), net) /\ Idle

\* The server's application is done with what it was handed.
Recved ==
  /\ pcb[Server].st \notin {"CLOSED", "TIME_WAIT"}
  /\ pcb[Server].rcv_wnd < TCP_WND
  /\ Step(Server, tcp_recved(pcb[Server], TCP_WND - pcb[Server].rcv_wnd), net)
  /\ Idle

-----------------------------------------------------------------------------

\* A segment m arrives, for a connection, for one in TIME_WAIT, for the port
\* that is listened on, or for none; n is what is still under way.
ActiveInput(h, m, n) ==
  /\ Active(h) /\ Step(h, tcp_input(pcb[h], m), n)
  /\ IF h = Server THEN App(tcp_input(pcb[h], m)) ELSE UNCHANGED <<got, eof>>
  /\ UNCHANGED <<opened, written>>

TimeWaitInput(h, m, n) ==
  pcb[h].st = "TIME_WAIT" /\ Step(h, tcp_timewait_input(pcb[h], m), n) /\ Idle

ListenInput(m, n) ==
  /\ pcb[Server].st = "CLOSED"
  /\ LET q == tcp_listen_input(pcb[Server], iss, mss, m)
     IN  /\ Step(Server, q, n)
         /\ IF q.st = "SYN_RCVD"
            THEN /\ opened[Server] < Accepts
                 /\ opened' = [opened EXCEPT ![Server] = @ + 1]
                 /\ got' = <<>> /\ eof' = FALSE
            ELSE UNCHANGED <<opened, got, eof>>
  /\ UNCHANGED written

NoInput(m, n) ==
  pcb[Client].st = "CLOSED" /\ Step(Client, Unreachable(pcb[Client], m), n)
    /\ Idle

Arrive(h) ==
  \E e \in net :
    /\ e[1] = h
    /\ \/ ActiveInput(h, e[2], net \ {e})
       \/ TimeWaitInput(h, e[2], net \ {e})
       \/ h = Server /\ ListenInput(e[2], net \ {e})
       \/ h = Client /\ NoInput(e[2], net \ {e})

Lose == /\ \E e \in net : net' = net \ {e}
        /\ UNCHANGED <<mss, pcb>> /\ Idle

-----------------------------------------------------------------------------
(* Timers. *)

FastTimer(h) ==
  Active(h) /\ pcb[h].delay /\ Step(h, tcp_fasttmr(pcb[h]), net) /\ Idle

\* The driver sends in order: the buffers it still holds are the newest k.
Newest(q, k) == Len(q) - k + 1 .. Len(q)

\* The retransmission timer runs while segments are under way.
Rto(h) ==
  /\ Active(h) /\ ~TooOften(pcb[h]) /\ ~pcb[h].persist
  /\ pcb[h].rtime /\ pcb[h].unacked # <<>>
  /\ \E k \in IF Holds THEN 0 .. Len(pcb[h].unacked) ELSE {0} :
       Step(h, Retransmit(pcb[h], Newest(pcb[h].unacked, k)), net)
  /\ Idle

Persist(h) ==
  /\ Active(h) /\ ~TooOften(pcb[h]) /\ pcb[h].persist
  /\ Step(h, Probe(pcb[h]), net)
  /\ Idle

OoseqTimeout(h) ==
  /\ Active(h) /\ pcb[h].ooseq # <<>>
  /\ Step(h, DropOoseq(pcb[h]), net)
  /\ Idle

KeepAliveTimer(h) ==
  /\ h \in Keeping
  /\ pcb[h].st \in {"ESTABLISHED", "CLOSE_WAIT"} /\ ~TooOften(pcb[h])
  /\ \/ Step(h, KeepAlive(pcb[h]), net)
     \/ Step(h, tcp_rst(Expire(pcb[h]), pcb[h].snd_nxt, pcb[h].rcv_nxt), net)
  /\ Idle

PollTimer(h) == Active(h) /\ Step(h, Poll(pcb[h]), net) /\ Idle

ExpireTimer(h) ==
  /\ \/ Active(h) /\ TooOften(pcb[h])
     \/ pcb[h].st \in {"SYN_RCVD", "FIN_WAIT_2", "LAST_ACK", "TIME_WAIT"}
  /\ Step(h, Expire(pcb[h]), net)
  /\ Idle

Next ==
  \/ Connect \/ Recved \/ Lose
  \/ \E n \in 1 .. mss : Write(n)
  \/ \E h \in Hosts :
       \/ Close(h) \/ Abort(h) \/ FastTimer(h) \/ Rto(h) \/ Persist(h)
       \/ OoseqTimeout(h) \/ KeepAliveTimer(h) \/ PollTimer(h)
       \/ ExpireTimer(h) \/ Arrive(h)

Spec == Init /\ [][Next]_vars

-----------------------------------------------------------------------------

\* What the server's application is handed is what the client wrote, in that
\* order, without a gap and nothing twice, whatever the network does and
\* whichever segments are sent again (tcp_receive, its queue ooseq, and
\* tcp_rexmit_rto).
StreamIntact ==
  /\ Len(got) <= written
  /\ \A i \in DOMAIN got : got[i] = i

\* The server's application is told of the end only when it has everything
\* the client wrote before tcp_close.
EofLast == eof => Len(got) = written

\* A segment under way is sent again: while unacked is not empty the
\* retransmission timer or the persist timer runs, whatever tcp_output,
\* tcp_receive and tcp_rexmit did to the queues.
RetransmitArmed ==
  \A h \in Hosts :
    pcb[h].unacked # <<>> => pcb[h].rtime \/ pcb[h].persist

\* What the client holds to be acknowledged the server of the same connection
\* has handed to its application: a retransmitted, overlapping or trimmed
\* segment never moves rcv_nxt past data that was not delivered (tcp_receive).
SameConnection ==
  /\ {pcb[h].st : h \in Hosts} \subseteq
       {"ESTABLISHED", "CLOSE_WAIT", "FIN_WAIT_1", "FIN_WAIT_2", "CLOSING"}
  /\ SEQ(pcb[Client].rcv_nxt - iss + IssStep) \in 1 .. 2

AckedReceived ==
  SameConnection =>
    SEQ(pcb[Client].lastack - Iss) <= Len(got) + (IF eof THEN 1 ELSE 0)

\* The stream arrives whole and in order, its end is reported last, and what
\* is acknowledged has been delivered.
StreamSound == StreamIntact /\ EofLast /\ AckedReceived

-----------------------------------------------------------------------------
(***************************************************************************)
(* RetransmitArmed for every value of the constants.  Every operation of   *)
(* TcpPcb is shown to keep Armed, whatever the other fields of the block   *)
(* and the segment are; then every action of Next is such an operation     *)
(* followed by Step.                                                       *)
(***************************************************************************)

\* The states of a connection (enum tcp_state; a listening port is not a pcb).
TcpStates ==
  {"CLOSED", "SYN_SENT", "SYN_RCVD", "ESTABLISHED", "CLOSE_WAIT",
   "FIN_WAIT_1", "FIN_WAIT_2", "CLOSING", "LAST_ACK", "TIME_WAIT"}

\* What every operation on a control block keeps: while segments are unacked
\* the retransmission counter rtime counts (it is not -1).  The persist timer
\* is only ever a second one: no operation stops rtime for its sake.
Armed(p) ==
  /\ {"st", "unacked", "rtime"} \subseteq DOMAIN p
  /\ p.st \in TcpStates /\ p.rtime \in BOOLEAN
  /\ p.unacked # <<>> => p.rtime

\* The operation that makes q of p keeps it, and the state of the connection.
Keeps(p, q) == Armed(q) /\ q.st = p.st

\* tcp_output starts the counter with the segment it moves to unacked.
LEMMA SendFirstKeeps ==
  ASSUME NEW p, Armed(p), NEW n
  PROVE  Keeps(p, SendFirst(p, n))
BY DEF Armed, Keeps, SendFirst

\* tcp_output, with the acknowledgement it may send instead of data.
LEMMA Output ==
  ASSUME NEW p, Armed(p)
  PROVE  Keeps(p, tcp_output(p))
<1>1. Keeps(p, tcp_send_empty_ack(p))
  BY DEF Armed, Keeps, tcp_send_empty_ack, tcp_output_alloc_header
<1> QED
  BY <1>1, SendFirstKeeps DEF tcp_output

\* tcp_rexmit takes a segment back from unacked.
LEMMA Rexmit ==
  ASSUME NEW p, Armed(p)
  PROVE  Keeps(p, tcp_rexmit(p))
BY DEF Armed, Keeps, tcp_rexmit

\* The operations that send a segment without data or only move a window.
LEMMA Simple ==
  ASSUME NEW p, Armed(p)
  PROVE  /\ Keeps(p, tcp_ack_now(p)) /\ Keeps(p, tcp_ack(p))
         /\ Keeps(p, tcp_send_empty_ack(p))
         /\ Keeps(p, tcp_keepalive(p))
         /\ Keeps(p, tcp_zero_window_probe(p))
         /\ Keeps(p, tcp_update_rcv_ann_wnd(p))
         /\ \A seq, ack : Keeps(p, tcp_rst(p, seq, ack))
         /\ \A m : Keeps(p, UpdateWindow(p, m))
         /\ \A m : Keeps(p, DropUnsent(p, m))
         /\ Keeps(p, tcp_pcb_purge(p))
BY DEF Armed, Keeps, tcp_ack_now, tcp_ack, tcp_send_empty_ack, tcp_keepalive,
       tcp_output_alloc_header, tcp_zero_window_probe, tcp_update_rcv_ann_wnd,
       tcp_rst, UpdateWindow, DropUnsent, tcp_pcb_purge

\* The ways a control block is given up.
LEMMA Closing ==
  ASSUME NEW p, Armed(p)
  PROVE  /\ Armed(Free(p)) /\ Armed(TimeWait(p)) /\ Armed(tcp_pcb_remove(p))
         /\ Armed(Expire(p)) /\ Armed(tcp_abandon(p))
<1>1. \A q : Armed(q) => Armed(Free(q))
  BY DEF Armed, Free, TcpStates
<1>2. Armed(TimeWait(p))
  BY Simple DEF Armed, Keeps, TimeWait, TcpStates
<1>3. Armed(tcp_pcb_remove(p))
  <2> DEFINE q == tcp_pcb_purge(p)
  <2>1. Armed(q)
    BY Simple DEF Keeps
  <2>2. Armed([q EXCEPT !.now = TRUE])
    BY <2>1 DEF Armed
  <2>3. Armed(tcp_output([q EXCEPT !.now = TRUE]))
    BY <2>2, Output DEF Keeps
  <2> QED
    BY <2>1, <2>3, <1>1 DEF tcp_pcb_remove
<1>4. Armed(Expire(p))
  BY <1>1, Simple DEF Expire, Keeps
<1>5. Armed(tcp_abandon(p))
  BY <1>1, <1>3, Simple DEF tcp_abandon, Keeps
<1> QED
  BY <1>1, <1>2, <1>3, <1>4, <1>5

\* The acknowledgement part of tcp_receive: the counter is stopped only when
\* unacked has become empty.
LEMMA Acks ==
  ASSUME NEW p, Armed(p), NEW m
  PROVE  Keeps(p, ReceiveAck(p, m))
<1> DEFINE w == UpdateWindow(p, m)
<1>1. Keeps(p, w)
  BY Simple
<1>2. \A e : Keeps(w, OldAck(w, m, e))
  <2> DEFINE d == [w EXCEPT !.dupacks = Least(@ + 1, DupAcks + 1)]
  <2>1. Keeps(w, d) /\ Keeps(w, [w EXCEPT !.dupacks = 0])
    BY <1>1 DEF Keeps, Armed
  <2>2. Keeps(d, tcp_rexmit(d))
    BY <2>1, Rexmit DEF Keeps
  <2>3. Keeps(w, tcp_rexmit_fast(d))
    BY <2>1, <2>2 DEF tcp_rexmit_fast, Keeps, Armed
  <2> QED
    BY <2>1, <2>3 DEF OldAck
<1>3. Keeps(w, NewAck(w, m))
  BY <1>1 DEF NewAck, Keeps, Armed, RtimeAfterAck
<1> DEFINE a == Acknowledged(w, m, SEQ(p.snd_wnd + p.wl2))
<1>4. Keeps(p, a)
  BY <1>1, <1>2, <1>3 DEF Acknowledged, Keeps
<1>5. Keeps(a, DropUnsent(a, m))
  BY <1>4, Simple DEF Keeps
<1> QED
  BY <1>4, <1>5 DEF ReceiveAck, Keeps

\* HandOn may move the connection from ESTABLISHED to CLOSE_WAIT.
LEMMA Hands ==
  ASSUME NEW p, Armed(p), NEW chain, NEW n
  PROVE  Armed(HandOn(p, chain, n))
<1> DEFINE last == End(chain[n])
           q == [p EXCEPT !.rcv_nxt = last,
                  !.rcv_wnd = (@ - SEQ(last - p.rcv_nxt)) % WndSpace,
                  !.ooseq = DropFirst(chain, n),
                  !.recv = FlattenSeq([i \in 1 .. n |-> chain[i].data]),
                  !.eof = \E i \in 1 .. n : chain[i].fin,
                  !.st = IF @ = "ESTABLISHED" /\ \E i \in 2 .. n : chain[i].fin
                         THEN "CLOSE_WAIT" ELSE @]
<1>1. Armed(q)
  BY DEF Armed, TcpStates
<1>2. Armed(tcp_update_rcv_ann_wnd(q))
  BY <1>1, Simple DEF Keeps
<1>3. Armed(tcp_ack(tcp_update_rcv_ann_wnd(q)))
  BY <1>2, Simple DEF Keeps
<1> QED
  BY <1>3 DEF HandOn

\* tcp_receive as a whole: acknowledgement, then data.
LEMMA Receives ==
  ASSUME NEW p, Armed(p), NEW m
  PROVE  Armed(tcp_receive(p, m))
<1>1. ASSUME NEW a, Armed(a) PROVE Armed(ReceiveData(a, m))
  <2>1. \A x, s : Armed(x) => Armed(InSequence(x, s))
    BY Hands DEF InSequence
  <2>2. \A x, q : Armed(x) => Armed([tcp_send_empty_ack(x) EXCEPT !.ooseq = q])
    <3> SUFFICES ASSUME NEW x, NEW q, Armed(x)
                 PROVE  Armed([tcp_send_empty_ack(x) EXCEPT !.ooseq = q])
      OBVIOUS
    <3>1. Armed(tcp_send_empty_ack(x))
      BY Simple DEF Keeps
    <3> QED
      BY <3>1 DEF Armed
  <2>3. Armed(tcp_ack_now(a))
    BY <1>1, Simple DEF Keeps
  <2>4. Armed(tcp_send_empty_ack(a)) /\ Armed(tcp_send_empty_ack(tcp_ack_now(a)))
    BY <1>1, <2>3, Simple DEF Keeps
  <2> QED
    BY <1>1, <2>1, <2>2, <2>3, <2>4 DEF ReceiveData
<1>2. Armed(IF m.ackf THEN ReceiveAck(p, m) ELSE p)
  BY Acks DEF Keeps
<1> QED
  BY <1>1, <1>2 DEF tcp_receive

\* tcp_process in every state of an active connection.
LEMMA Processes ==
  ASSUME NEW p, Armed(p), p.st \notin {"CLOSED", "TIME_WAIT"}, NEW m
  PROVE  Armed(tcp_process(p, m))
<1>1. Armed(ProcessRst(p, m))
  <2>1. Armed([p EXCEPT !.delay = FALSE])
    BY DEF Armed
  <2> QED
    BY <2>1, Closing DEF ProcessRst
<1>2. Armed(ProcessSynSent(p, m))
  <2> DEFINE q == [p EXCEPT
         !.rcv_nxt = SEQ(m.seq + 1), !.ann_edge = SEQ(m.seq + 1),
         !.lastack = m.ack, !.snd_wnd = m.wnd, !.wl1 = SEQ(m.seq - 1),
         !.st = "ESTABLISHED", !.cwnd = IF @ = 0 THEN 2 ELSE 1,
         !.unacked = Tail(@), !.rtime = RtimeAfterAck(Tail(p.unacked)),
         !.nrtx = 0]
  <2>1. Armed(q)
    BY DEF Armed, TcpStates, RtimeAfterAck
  <2>2. Armed(tcp_ack_now(q))
    BY <2>1, Simple DEF Keeps
  <2> QED
    BY <2>2, Simple DEF ProcessSynSent, Keeps
<1>3. \A r : Armed(r) => Armed(PassiveClose(r))
  <2> SUFFICES ASSUME NEW r, Armed(r)
               PROVE  Armed(tcp_ack_now([r EXCEPT !.st = "CLOSE_WAIT"]))
    BY DEF PassiveClose
  <2>1. Armed([r EXCEPT !.st = "CLOSE_WAIT"])
    BY DEF Armed, TcpStates
  <2> QED
    BY <2>1, Simple DEF Keeps
<1>4. Armed(ProcessSynRcvd(p, m))
  <2>1. Armed([p EXCEPT !.st = "ESTABLISHED"])
    BY DEF Armed, TcpStates
  <2> DEFINE r == tcp_receive([p EXCEPT !.st = "ESTABLISHED"], m)
  <2>2. Armed(r)
    BY <2>1, Receives
  <2>3. Armed([r EXCEPT !.cwnd = IF p.cwnd = 0 THEN 2 ELSE 1])
    BY <2>2 DEF Armed
  <2>4. Armed(PassiveClose([r EXCEPT !.cwnd = IF p.cwnd = 0 THEN 2 ELSE 1]))
    BY <2>3, <1>3
  <2> QED
    BY <2>4, Simple, Rexmit DEF ProcessSynRcvd, Keeps
<1>5. ASSUME p.st \notin {"SYN_SENT", "SYN_RCVD"}
      PROVE  Armed(ProcessData(p, m))
  <2> DEFINE r == tcp_receive(p, m)
  <2>1. Armed(r)
    BY Receives
  <2>2. Armed(tcp_ack_now(r))
    BY <2>1, Simple DEF Keeps
  <2>3. Armed([tcp_ack_now(r) EXCEPT !.st = "CLOSING"])
    BY <2>2 DEF Armed, TcpStates
  <2>4. Armed([r EXCEPT !.st = "FIN_WAIT_2"])
    BY <2>1 DEF Armed, TcpStates
  <2>5. Armed(TimeWait(tcp_ack_now(r))) /\ Armed(TimeWait(r))
        /\ Armed(tcp_pcb_remove(r)) /\ Armed(PassiveClose(r))
    BY <2>1, <2>2, <1>3, Closing
  <2>6. p.st \in {"ESTABLISHED", "CLOSE_WAIT", "FIN_WAIT_1", "FIN_WAIT_2",
                  "CLOSING", "LAST_ACK"}
    BY <1>5 DEF Armed, TcpStates
  <2>7. \A acked : Armed(AfterData(p.st, r, acked))
    BY <2>1, <2>3, <2>4, <2>5, <2>6 DEF AfterData
  <2> QED
    BY <2>7 DEF ProcessData
<1>6. Armed(tcp_ack_now(p))
  BY Simple DEF Keeps
<1> QED
  BY <1>1, <1>2, <1>4, <1>5, <1>6 DEF tcp_process

\* tcp_input for an active connection, with the trailing tcp_output.
LEMMA Inputs ==
  ASSUME NEW p, Armed(p), p.st \notin {"CLOSED", "TIME_WAIT"}, NEW m
  PROVE  Armed(tcp_input(p, m))
<1> DEFINE q == tcp_process(p, m)
<1>1. Armed(q)
  BY Processes
<1>2. Armed([q EXCEPT !.rcv_wnd = (@ + 1) % WndSpace])
  BY <1>1 DEF Armed
<1>3. Armed([tcp_abandon(q) EXCEPT !.recv = <<>>, !.eof = FALSE])
  <2>1. Armed(tcp_abandon(q))
    BY <1>1, Closing
  <2> QED
    BY <2>1 DEF Armed
<1>4. Armed(tcp_output(q))
      /\ Armed(tcp_output([q EXCEPT !.rcv_wnd = (@ + 1) % WndSpace]))
  BY <1>1, <1>2, Output DEF Keeps
<1> QED
  BY <1>1, <1>3, <1>4 DEF tcp_input, Deliver

\* tcp_alloc gives a block without segments.
LEMMA Allocates ==
  ASSUME NEW i, NEW s
  PROVE  Armed(tcp_alloc(i, s))
BY DEF tcp_alloc, Armed, TcpStates

\* tcp_connect and the answers of a listening or a closed port.
LEMMA Opens ==
  ASSUME NEW i, NEW s, NEW m, NEW p, Armed(p)
  PROVE  /\ Armed(tcp_connect(i, s))
         /\ Armed(tcp_listen_input(p, i, s, m)) /\ Armed(Unreachable(p, m))
<1>1. Armed(tcp_alloc(i, s))
  BY Allocates
<1>2. \A q : Armed(q) => Armed(tcp_output(tcp_enqueue_flags(q, TRUE)))
  <2> SUFFICES ASSUME NEW q, Armed(q)
               PROVE  Armed(tcp_output(tcp_enqueue_flags(q, TRUE)))
    OBVIOUS
  <2>1. Armed(tcp_enqueue_flags(q, TRUE))
    BY DEF tcp_enqueue_flags, Armed
  <2> QED
    BY <2>1, Output DEF Keeps
<1> DEFINE c == [tcp_alloc(i, s) EXCEPT !.st = "SYN_SENT",
                   !.lastack = SEQ(i - 1), !.snd_lbb = SEQ(i - 1),
                   !.snd_wnd = TCP_WND]
           l == [tcp_alloc(i, s) EXCEPT
                   !.st = "SYN_RCVD", !.rcv_nxt = SEQ(m.seq + 1),
                   !.ann_edge = SEQ(m.seq + 1), !.snd_wnd = m.wnd,
                   !.wl1 = SEQ(m.seq - 1)]
<1>3. Armed(c) /\ Armed(l)
  BY <1>1 DEF Armed, TcpStates
<1>4. Armed(tcp_connect(i, s))
  BY <1>2, <1>3 DEF tcp_connect
<1>5. Armed(tcp_listen_input(p, i, s, m))
  <2>1. Armed(tcp_output(tcp_enqueue_flags(l, TRUE)))
    BY <1>2, <1>3
  <2> HIDE DEF l
  <2> QED
    BY <2>1, Simple DEF tcp_listen_input, Keeps, l
<1> QED
  BY <1>4, <1>5, Simple DEF Unreachable, Keeps

\* tcp_write and the tcp_output after it.
LEMMA Writes ==
  ASSUME NEW p, Armed(p), NEW data
  PROVE  Armed(tcp_output(tcp_write(p, data)))
<1>1. \A n : Armed(Chained(p, data, n))
  BY DEF Chained, Armed
<1>2. Armed(tcp_write(p, data))
  BY <1>1 DEF tcp_write, Armed
<1> QED
  BY <1>2, Output DEF Keeps

\* tcp_close, whichever state it is called in.
LEMMA Closes ==
  ASSUME NEW c, Armed(c)
  PROVE  Armed(tcp_close(c))
<1> DEFINE p == [c EXCEPT !.rxclosed = TRUE]
<1>1. Armed(p)
  BY DEF Armed
<1>2. \A st \in TcpStates :
        Armed(tcp_output([tcp_send_fin(p) EXCEPT !.st = st]))
  <2> SUFFICES ASSUME NEW st \in TcpStates
               PROVE  Armed(tcp_output([tcp_send_fin(p) EXCEPT !.st = st]))
    OBVIOUS
  <2>1. Armed(tcp_send_fin(p))
    BY <1>1 DEF tcp_send_fin, tcp_enqueue_flags, Armed
  <2>2. Armed([tcp_send_fin(p) EXCEPT !.st = st])
    BY <2>1 DEF Armed
  <2> QED
    BY <2>2, Output DEF Keeps
<1>3. Armed(TimeWait(tcp_rst(p, p.snd_nxt, p.rcv_nxt)))
  <2>1. Armed(tcp_rst(p, p.snd_nxt, p.rcv_nxt))
    BY <1>1, Simple DEF Keeps
  <2> QED
    BY <2>1, Closing
<1>4. Armed(tcp_pcb_remove(p))
  BY <1>1, Closing
<1>5. {"FIN_WAIT_1", "LAST_ACK"} \subseteq TcpStates
  BY DEF TcpStates
<1> QED
  BY <1>1, <1>2, <1>3, <1>4, <1>5 DEF tcp_close

\* The timers and tcp_recved; the retransmission timer runs only while the
\* counter does.
LEMMA Ticks ==
  ASSUME NEW p, Armed(p)
  PROVE  /\ Armed(tcp_fasttmr(p)) /\ Armed(Probe(p)) /\ Armed(DropOoseq(p))
         /\ Armed(KeepAlive(p)) /\ Armed(Poll(p))
         /\ p.rtime => \A held : Armed(Retransmit(p, held))
         /\ \A n : Armed(tcp_recved(p, n))
         /\ \A m : Armed(tcp_timewait_input(p, m))
<1>1. Armed(tcp_fasttmr(p))
  <2>1. Armed(tcp_ack_now(p))
    BY Simple DEF Keeps
  <2>2. Armed(tcp_output(tcp_ack_now(p)))
    BY <2>1, Output DEF Keeps
  <2>3. Armed([tcp_output(tcp_ack_now(p)) EXCEPT !.delay = FALSE,
                                                 !.now = FALSE])
    BY <2>2 DEF Armed
  <2> QED
    BY <2>3 DEF tcp_fasttmr
<1>2. Armed(Probe(p)) /\ Armed(KeepAlive(p)) /\ Armed(Poll(p))
  <2>1. Armed(tcp_zero_window_probe(p)) /\ Armed(tcp_keepalive(p))
    BY Simple DEF Keeps
  <2> QED
    BY <2>1, Output DEF Keeps, Probe, KeepAlive, Poll
<1>3. Armed(DropOoseq(p))
  <2>1. Armed([p EXCEPT !.ooseq = <<>>])
    BY DEF Armed
  <2> QED
    BY <2>1, Output DEF Keeps, DropOoseq
<1>4. ASSUME p.rtime, NEW held PROVE Armed(Retransmit(p, held))
  <2> DEFINE Pick(I) == [i \in 1 .. Cardinality(I) |->
                    p.unacked[CHOOSE k \in I :
                                Cardinality({j \in I : j <= k}) = i]]
             c == [p EXCEPT !.cwnd = 1]
             q == [c EXCEPT
                     !.unacked = Pick(held),
                     !.unsent = Pick(DOMAIN p.unacked \ held) \o @,
                     !.nrtx = Least(@ + 1, MAXRTX + 1)]
  <2>1. Armed(q)
    <3> HIDE DEF Pick
    <3> QED
      BY <1>4 DEF Armed
  <2>2. c.unacked = p.unacked
    BY DEF Armed
  <2>3. tcp_rexmit_rto(c, held) = tcp_output(q)
    <3> HIDE DEF c
    <3> QED
      BY <2>2 DEF tcp_rexmit_rto
  <2>4. Armed(tcp_output(tcp_output(q)))
    <3> HIDE DEF q
    <3>1. Armed(tcp_output(q))
      BY <2>1, Output DEF Keeps
    <3> QED
      BY <3>1, Output DEF Keeps
  <2> QED
    BY <2>3, <2>4 DEF Retransmit
<1>5. ASSUME NEW n PROVE Armed(tcp_recved(p, n))
  <2> DEFINE w == [p EXCEPT !.rcv_wnd = Least(@ + n, TCP_WND)]
             q == tcp_update_rcv_ann_wnd(w)
  <2>1. Armed(w)
    BY DEF Armed
  <2>2. Armed(q)
    BY <2>1, Simple DEF Keeps
  <2>3. Armed([q EXCEPT !.now = TRUE])
    BY <2>2 DEF Armed
  <2>4. Armed(tcp_output([q EXCEPT !.now = TRUE]))
    BY <2>3, Output DEF Keeps
  <2> QED
    BY <2>2, <2>4 DEF tcp_recved
<1>6. ASSUME NEW m PROVE Armed(tcp_timewait_input(p, m))
  <2>1. Armed(tcp_ack_now(p))
    BY Simple DEF Keeps
  <2>2. Armed(tcp_output(tcp_ack_now(p)))
    BY <2>1, Output DEF Keeps
  <2> QED
    BY <2>2, Simple DEF tcp_timewait_input, Keeps
<1> QED
  BY <1>1, <1>2, <1>3, <1>4, <1>5, <1>6

\* The inductive invariant.  RetransmitArmed by itself is not inductive: a
\* block with segments unacked and only the persist timer running would lose
\* it in UpdateWindow, which stops that timer.
ArmedInv == DOMAIN pcb = Hosts /\ \A h \in Hosts : Armed(pcb[h])

\* The end of a host's step stores a block that is Armed.
LEMMA StepArmed ==
  ASSUME ArmedInv, NEW h \in Hosts, NEW STATE p, Armed(p), NEW STATE n,
         Step(h, p, n)
  PROVE  ArmedInv'
<1>1. Armed(tcp_alloc(0, mss))
  BY Allocates
<1>2. Armed([p EXCEPT !.out = <<>>, !.recv = <<>>, !.eof = FALSE])
  BY DEF Armed
<1> DEFINE v == IF p.st = "CLOSED" THEN tcp_alloc(0, mss)
                ELSE [p EXCEPT !.out = <<>>, !.recv = <<>>, !.eof = FALSE]
<1>3. Armed(v)
  BY <1>1, <1>2
<1>4. pcb' = [pcb EXCEPT ![h] = v]
  BY DEF Step
<1> HIDE DEF v
<1>5. DOMAIN pcb' = Hosts /\ \A g \in Hosts : Armed(pcb'[g])
  BY <1>3, <1>4 DEF ArmedInv
<1> QED
  BY <1>5 DEF ArmedInv, Hosts, Armed, TcpStates

\* A segment that arrives, on any of the four paths of tcp_input.
LEMMA ArriveArmed ==
  ASSUME ArmedInv, NEW h \in Hosts, Arrive(h)
  PROVE  ArmedInv'
<1>1. \A g \in Hosts : Armed(pcb[g]) /\ pcb[g].st \in TcpStates
  BY DEF ArmedInv, Armed
<1>2. Client \in Hosts /\ Server \in Hosts
  BY DEF Hosts
<1>3. PICK e \in net :
        \/ ActiveInput(h, e[2], net \ {e})
        \/ TimeWaitInput(h, e[2], net \ {e})
        \/ ListenInput(e[2], net \ {e})
        \/ NoInput(e[2], net \ {e})
  BY DEF Arrive
<1>4. CASE ActiveInput(h, e[2], net \ {e})
  <2>1. Armed(tcp_input(pcb[h], e[2]))
    BY <1>1, <1>4, Inputs DEF ActiveInput, Active
  <2> QED
    BY <2>1, <1>4, StepArmed DEF ActiveInput
<1>5. CASE TimeWaitInput(h, e[2], net \ {e})
  <2>1. Armed(tcp_timewait_input(pcb[h], e[2]))
    BY <1>1, Ticks
  <2> QED
    BY <2>1, <1>5, StepArmed DEF TimeWaitInput
<1>6. CASE ListenInput(e[2], net \ {e})
  <2>1. Armed(tcp_listen_input(pcb[Server], iss, mss, e[2]))
    BY <1>1, <1>2, Opens
  <2> QED
    BY <2>1, <1>2, <1>6, StepArmed DEF ListenInput
<1>7. CASE NoInput(e[2], net \ {e})
  <2>1. Armed(Unreachable(pcb[Client], e[2]))
    BY <1>1, <1>2, Opens
  <2> QED
    BY <2>1, <1>2, <1>7, StepArmed DEF NoInput
<1> QED
  BY <1>3, <1>4, <1>5, <1>6, <1>7

\* The timers of tcp_slowtmr and tcp_fasttmr.
LEMMA TimersArmed ==
  ASSUME ArmedInv, NEW h \in Hosts,
         \/ FastTimer(h) \/ Rto(h) \/ Persist(h) \/ OoseqTimeout(h)
         \/ KeepAliveTimer(h) \/ PollTimer(h) \/ ExpireTimer(h)
  PROVE  ArmedInv'
<1>1. Armed(pcb[h])
  BY DEF ArmedInv
<1>2. CASE FastTimer(h)
  <2>1. Armed(tcp_fasttmr(pcb[h]))
    BY <1>1, Ticks
  <2> QED
    BY <2>1, <1>2, StepArmed DEF FastTimer
<1>3. CASE Rto(h)
  <2>1. PICK k : Step(h, Retransmit(pcb[h], Newest(pcb[h].unacked, k)), net)
    BY <1>3 DEF Rto
  <2>2. Armed(Retransmit(pcb[h], Newest(pcb[h].unacked, k)))
    BY <1>1, <1>3, Ticks DEF Rto
  <2> QED
    BY <2>1, <2>2, StepArmed
<1>4. CASE Persist(h)
  <2>1. Armed(Probe(pcb[h]))
    BY <1>1, Ticks
  <2> QED
    BY <2>1, <1>4, StepArmed DEF Persist
<1>5. CASE OoseqTimeout(h)
  <2>1. Armed(DropOoseq(pcb[h]))
    BY <1>1, Ticks
  <2> QED
    BY <2>1, <1>5, StepArmed DEF OoseqTimeout
<1>6. CASE KeepAliveTimer(h)
  <2>1. Armed(KeepAlive(pcb[h])) /\ Armed(Expire(pcb[h]))
    BY <1>1, Ticks, Closing
  <2>2. Armed(tcp_rst(Expire(pcb[h]), pcb[h].snd_nxt, pcb[h].rcv_nxt))
    BY <2>1, Simple DEF Keeps
  <2>3. CASE Step(h, KeepAlive(pcb[h]), net)
    BY <2>1, <2>3, StepArmed
  <2>4. CASE Step(h, tcp_rst(Expire(pcb[h]), pcb[h].snd_nxt, pcb[h].rcv_nxt),
                  net)
    BY <2>2, <2>4, StepArmed
  <2> QED
    BY <1>6, <2>3, <2>4 DEF KeepAliveTimer
<1>7. CASE PollTimer(h)
  <2>1. Armed(Poll(pcb[h]))
    BY <1>1, Ticks
  <2> QED
    BY <2>1, <1>7, StepArmed DEF PollTimer
<1>8. CASE ExpireTimer(h)
  <2>1. Armed(Expire(pcb[h]))
    BY <1>1, Closing
  <2> QED
    BY <2>1, <1>8, StepArmed DEF ExpireTimer
<1> QED
  BY <1>2, <1>3, <1>4, <1>5, <1>6, <1>7, <1>8

\* The calls of the applications.
LEMMA UserArmed ==
  ASSUME ArmedInv,
         \/ Connect \/ Recved \/ \E n : Write(n)
         \/ \E h \in Hosts : Close(h) \/ Abort(h)
  PROVE  ArmedInv'
<1>1. \A g \in Hosts : Armed(pcb[g])
  BY DEF ArmedInv
<1>2. Client \in Hosts /\ Server \in Hosts
  BY DEF Hosts
<1>3. CASE Connect
  <2>1. Armed(tcp_connect(Iss, mss))
    BY <1>1, <1>2, Opens
  <2> QED
    BY <2>1, <1>2, <1>3, StepArmed DEF Connect
<1>4. CASE Recved
  <2>1. Armed(tcp_recved(pcb[Server], TCP_WND - pcb[Server].rcv_wnd))
    BY <1>1, <1>2, Ticks
  <2> QED
    BY <2>1, <1>2, <1>4, StepArmed DEF Recved
<1>5. ASSUME NEW n, Write(n) PROVE ArmedInv'
  <2> DEFINE data == [i \in 1 .. n |-> written + i]
  <2>1. Armed(tcp_output(tcp_write(pcb[Client], data)))
    BY <1>1, <1>2, Writes
  <2>2. Step(Client, tcp_output(tcp_write(pcb[Client], data)), net)
    BY <1>5 DEF Write
  <2> QED
    BY <2>1, <2>2, <1>2, StepArmed
<1>6. ASSUME NEW h \in Hosts, Close(h) PROVE ArmedInv'
  <2>1. Armed(tcp_close(pcb[h]))
    BY <1>1, Closes
  <2> QED
    BY <2>1, <1>6, StepArmed DEF Close
<1>7. ASSUME NEW h \in Hosts, Abort(h) PROVE ArmedInv'
  <2>1. Armed(tcp_abandon(pcb[h]))
    BY <1>1, Closing
  <2> QED
    BY <2>1, <1>7, StepArmed DEF Abort
<1> QED
  BY <1>3, <1>4, <1>5, <1>6, <1>7

\* For every number of segments and bytes, every window and every loss: while
\* segments are unacked a timer runs that sends them again (tcp_output,
\* tcp_receive, tcp_rexmit and tcp_rexmit_rto on the queues).
THEOREM RetransmitAlwaysArmed == Spec => []RetransmitArmed
<1>1. Init => ArmedInv
  BY Allocates DEF Init, ArmedInv, Hosts
<1>2. ArmedInv /\ [Next]_vars => ArmedInv'
  <2> SUFFICES ASSUME ArmedInv, [Next]_vars PROVE ArmedInv'
    OBVIOUS
  <2>1. CASE Lose \/ UNCHANGED vars
    BY <2>1 DEF Lose, vars, ArmedInv, Hosts, Armed, TcpStates
  <2> QED
    BY <2>1, ArriveArmed, TimersArmed, UserArmed DEF Next
<1>3. ArmedInv => RetransmitArmed
  BY DEF ArmedInv, Armed, RetransmitArmed
<1> QED
  BY <1>1, <1>2, <1>3, PTL DEF Spec
=============================================================================
