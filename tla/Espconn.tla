------------------------------- MODULE Espconn -------------------------------
(***************************************************************************)
(* The espconn layer over the lwIP TCP (lwip/app/espconn.c and             *)
(* espconn_tcp.c): the node (espconn_msg) of each connection, the packets  *)
(* it keeps until they are acknowledged, and the events that the TCP       *)
(* callbacks post to espconn_Task, which names a node by its address.      *)
(*                                                                         *)
(*   node      owner (a client's struct espconn, or Server for a connection *)
(*             it accepted, or NULL: the memory is free), conn (the control *)
(*             block), pbuf (packets [id, len, unsent, tot]), ptail (the    *)
(*             packet being written, 0 for NULL), wf (write_flag), copy     *)
(*             (ESPCONN_COPY), check (recv_check)                           *)
(*   active    plink_active                                                *)
(*   es        the state of each client's struct espconn, and of the one    *)
(*             that an accepted connection has in its node                 *)
(*   pcb       the control blocks, one per connection, never reused:        *)
(*             state, arg, callbacks registered, bytes and segments queued  *)
(*   queue     espconn_TaskQueue; conn, which the code does not keep, is    *)
(*             the connection of the node when the event was posted        *)
(*   run       the application callback in progress: the application may    *)
(*             call back into espconn; everything else waits               *)
(*   failed    an allocation failed;  fault: freed memory or NULL was used, *)
(*             and what the program does next is undefined                 *)
(*   conns, packets, closes   connections opened, packets queued, disconnect *)
(*             and abort calls                                             *)
(*                                                                         *)
(* A callback is assumed not to call espconn_abort, which would free the   *)
(* block that lwIP uses when the callback returns.  espconn_recv and the   *)
(* receive hold are left out: every connection has a receive callback.     *)
(***************************************************************************)
EXTENDS Naturals, Sequences, FiniteSets, SequencesExt

CONSTANTS
  NULL, Server,
  Nodes,         \* addresses the allocator may return for an espconn_msg
  Clients,       \* the application's client structs, each with its own port
  MaxConns,      \* bound on the connections of a behaviour
  MaxCloses,     \* bound on the calls of espconn_disconnect and espconn_abort
  MaxPackets,    \* bound on the packets of a behaviour
  MaxLinks,      \* count_opt: connections the server may have
  MaxCon,        \* MEMP_NUM_TCP_PCB
  Lens,          \* packet lengths
  BufNum,        \* pbuf_num
  SndBuf,        \* TCP_SND_BUF
  SndQueueLen,   \* TCP_SND_QUEUELEN
  Chunk,         \* 2 * mss: what espconn_tcp_sent writes at once
  QueueLen,      \* espconn_TaskQueueLen
  Timeout,       \* seconds without traffic before the server closes; 0: none
  MemFails       \* whether an allocation may fail (once)

ASSUME EspconnAssumption ==
  /\ {MaxConns, MaxPackets, MaxCon, BufNum, SndBuf, SndQueueLen, Chunk, QueueLen}
       \subseteq Nat \ {0}
  /\ {MaxCloses, MaxLinks, Timeout} \subseteq Nat
  /\ Lens \subseteq Nat \ {0}
  /\ MemFails \in BOOLEAN

VARIABLES node, active, es, pcb, queue, run, failed, fault, conns, packets, closes
vars == <<node, active, es, pcb, queue, run, failed, fault, conns, packets, closes>>

Conns == 1 .. MaxConns
FreeNode == [owner |-> NULL, conn |-> 0, pbuf |-> <<>>, ptail |-> 0, wf |-> FALSE,
             copy |-> FALSE, check |-> 0]
NoPcb == [st |-> "FREE", arg |-> NULL, recv |-> FALSE, sent |-> FALSE,
          err |-> FALSE, poll |-> FALSE, bytes |-> 0, segs |-> 0]
Idle == [cb |-> "idle", n |-> NULL, len |-> 0]
In(cb, n, len) == [cb |-> cb, n |-> n, len |-> len]

Init ==
  /\ node = [n \in Nodes |-> FreeNode]
  /\ active = <<>>
  /\ es = [x \in Clients \cup Nodes |-> "NONE"]
  /\ pcb = [k \in Conns |-> NoPcb]
  /\ queue = <<>>
  /\ run = Idle
  /\ failed = FALSE /\ fault = FALSE
  /\ conns = 0 /\ packets = 0 /\ closes = 0

\* The struct espconn of a node: the client's own, or the node's.
Who(n) == IF node[n].owner \in Clients THEN node[n].owner ELSE n
Active == Range(active)
espconn_find_connection(x) == {n \in Active : Who(n) = x}

\* A callback of control block k finds the node it was registered for.
ArgValid(k) == pcb[k].arg \in Nodes /\ node[pcb[k].arg].conn = k

\* Mutant: an event is posted only if none for the node is waiting.
ets_postOnce(q, sig, n) ==
  IF Len(q) < QueueLen /\ \A i \in DOMAIN q : q[i].n # n
  THEN Append(q, [sig |-> sig, n |-> n, conn |-> node[n].conn]) ELSE q

\* ets_post: the result is not looked at, so an event for a full queue is lost.
ets_post(q, sig, n) ==
  IF Len(q) < QueueLen
  THEN Append(q, [sig |-> sig, n |-> n, conn |-> node[n].conn]) ELSE q

\* What is undefined: freed memory or NULL was used.
Fault == /\ fault' = TRUE
         /\ UNCHANGED <<node, active, es, pcb, queue, run, failed, conns, packets, closes>>

----------------------------------------------------------------------------
(* Writing packets.  w is the node, its control block, the events posted   *)
(* and whether memory failed.                                              *)

\* tcp_write and tcp_output: how much was queued, and whether both succeeded.
\* Nothing is queued by a block that is not open or whose queue is full.
Open(p) == p.st \in {"ESTABLISHED", "CLOSE_WAIT"}
tcp_write(p, len, mayFail) ==
  IF ~Open(p) \/ p.segs >= SndQueueLen
  THEN {<<0, FALSE>>}
  ELSE {<<len, TRUE>>}
       \cup (IF mayFail THEN {<<0, FALSE>>, <<len, FALSE>>} \cup ((1 .. len - 1) \X {TRUE})
             ELSE {})

\* How the data are put into segments is left open.
Queued(p, k) ==
  {[p EXCEPT !.bytes = @ + k, !.segs = s] :
      s \in (IF k = 0 THEN {p.segs} ELSE {i \in {p.segs, p.segs + 1} : i > 0})}

TailIndex(w) == CHOOSE i \in DOMAIN w.n.pbuf : w.n.pbuf[i].id = w.n.ptail

espconn_tcp_sent(w) ==
  LET i    == TailIndex(w)
      left == w.n.pbuf[i].unsent
      len  == CHOOSE m \in {left, SndBuf - w.p.bytes, Chunk} :
                \A x \in {left, SndBuf - w.p.bytes, Chunk} : m <= x
  IN UNION {{[w EXCEPT !.n.pbuf[i].unsent = @ - r[1],
                       !.n.wf = @ \/ (w.n.copy /\ r[1] = left),
                       !.posts = IF w.n.copy /\ r[1] = left THEN @ + 1 ELSE @,
                       !.p = p2,
                       !.ok = r[2],
                       !.failed = @ \/ (r # <<len, TRUE>> /\ Open(w.p) /\ w.p.segs < SndQueueLen)] :
               p2 \in Queued(w.p, r[1])} :
            r \in tcp_write(w.p, len, MemFails /\ ~w.failed)}

NextTail(n, i) == IF i = Len(n.pbuf) THEN 0 ELSE n.pbuf[i + 1].id

\* The loop of espconn_tcp_write: past the packets that are written, then one
\* piece after another while there is room and no error.
RECURSIVE WriteLoop(_)
WriteLoop(w) ==
  IF ~w.ok \/ w.p.bytes = SndBuf \/ w.n.ptail = 0 THEN {w}
  ELSE IF w.n.pbuf[TailIndex(w)].unsent = 0
  THEN WriteLoop([w EXCEPT !.n.ptail = NextTail(w.n, TailIndex(w))])
  ELSE UNION {WriteLoop(x) : x \in espconn_tcp_sent(w)}

\* Nagle is off on every connection, so a full queue ends the call at once.
espconn_tcp_write(nd, p) ==
  LET w == [n |-> nd, p |-> p, posts |-> 0, ok |-> TRUE, failed |-> failed]
  IN IF p.segs >= SndQueueLen THEN {w} ELSE WriteLoop(w)

\* The WRITE events that a write posted.
RECURSIVE PostWrites(_, _, _)
PostWrites(q, n, i) == IF i = 0 THEN q ELSE PostWrites(ets_post(q, "WRITE", n), n, i - 1)

\* Mutant: the bytes acknowledged beyond the packet are not carried on.
FinishStepNoCarry(n, nd, len) ==
  LET b == [nd.pbuf EXCEPT ![1].tot = @ + len]
  IN IF nd.pbuf = <<>> THEN [nd |-> nd, run |-> Idle]
     ELSE IF b[1].tot < b[1].len THEN [nd |-> [nd EXCEPT !.pbuf = b], run |-> Idle]
     ELSE [nd |-> [nd EXCEPT !.pbuf = SubSeq(b, 2, Len(b))], run |-> In("sent", n, 0)]

\* One turn of the loop of espconn_tcp_finish: an acknowledged packet is freed
\* and its sent callback called; else the loop ends.
FinishStep(n, nd, len) ==
  LET b == [nd.pbuf EXCEPT ![1].tot = @ + len]
  IN IF nd.pbuf = <<>> THEN [nd |-> nd, run |-> Idle]
     ELSE IF b[1].tot < b[1].len THEN [nd |-> [nd EXCEPT !.pbuf = b], run |-> Idle]
     ELSE [nd |-> [nd EXCEPT !.pbuf = SubSeq(b, 2, Len(b))],
           run |-> In("sent", n, b[1].tot - b[1].len)]

----------------------------------------------------------------------------
(* Closing.                                                                *)

\* tcp_close: what becomes of the block.  A FIN that finds no memory fails.
tcp_close(p) ==
  CASE p.st \in {"SYN_SENT", "CLOSED"} -> {<<"FREE", TRUE>>}
    [] Open(p) -> {<<"CLOSING", TRUE>>} \cup (IF MemFails /\ ~failed THEN {<<p.st, FALSE>>} ELSE {})
    [] OTHER -> {<<p.st, TRUE>>}

\* espconn_client_close and espconn_server_close: end (type 0) or abort (type 1)
\* the node's connection, nd being the node and p its block as they are by now.
espconn_close(n, nd, p, type) ==
  \E r \in (IF type = 0 THEN tcp_close(p) ELSE {<<"FREE", TRUE>>}) :
    /\ node' = [node EXCEPT ![n] = nd]
    /\ pcb' = [pcb EXCEPT ![nd.conn] =
                 IF r[2] THEN [p EXCEPT !.st = r[1], !.recv = FALSE, !.sent = FALSE,
                                        !.err = FALSE, !.poll = FALSE]
                         ELSE [p EXCEPT !.recv = TRUE]]
    /\ es' = IF r[2] THEN [es EXCEPT ![Who(n)] = "CLOSE"] ELSE es
    /\ queue' = IF r[2] THEN ets_post(queue, "CLOSE", n) ELSE queue
    /\ failed' = (failed \/ ~r[2])

----------------------------------------------------------------------------
(* What the application calls, from a callback or elsewhere.               *)

\* The calls of the application start when no fault has happened.
espconn_connect(c) ==
  /\ ~fault /\ conns < MaxConns
  /\ Len(active) < MaxCon
  /\ espconn_find_connection(c) = {}          \* no connection has its local port
  /\ es' = [es EXCEPT ![c] = "WAIT"]
  /\ \/ UNCHANGED <<node, active, pcb, failed, conns>>        \* ERR_RTE
     \/ \E n \in Nodes, st \in {"SYN_SENT", "CLOSED"} :      \* CLOSED: ERR_MEM
          /\ node[n] = FreeNode
          /\ st = "CLOSED" => MemFails /\ ~failed
          /\ conns' = conns + 1
          /\ node' = [node EXCEPT ![n].owner = c, ![n].conn = conns']
          /\ active' = Append(active, n)
          /\ pcb' = [pcb EXCEPT ![conns'] = [NoPcb EXCEPT !.st = st, !.arg = n, !.err = TRUE]]
          /\ failed' = (failed \/ st = "CLOSED")
  /\ UNCHANGED <<queue, run, fault, packets, closes>>

\* espconn_sent.  The state becomes WRITE before anything is looked at.
espconn_sent(n, len) ==
  LET nd == node[n]
      p  == pcb[nd.conn]
  IN /\ ~fault /\ n \in Active
     /\ packets < MaxPackets
     /\ IF ~nd.wf \/ (~nd.copy /\ Len(nd.pbuf) >= BufNum)
        THEN /\ es' = [es EXCEPT ![Who(n)] = "WRITE"]
             /\ es # es'
             /\ UNCHANGED <<node, pcb, queue, failed, fault, packets>>
        ELSE IF p.st = "FREE"
        THEN /\ fault' = TRUE
             /\ UNCHANGED <<node, es, pcb, queue, failed, packets>>
        ELSE IF nd.copy /\ p.segs >= SndQueueLen
        THEN /\ es' = [es EXCEPT ![Who(n)] = "WRITE"]
             /\ es # es'
             /\ UNCHANGED <<node, pcb, queue, failed, fault, packets>>
        ELSE LET id == packets + 1
                 n2 == [nd EXCEPT !.pbuf = Append(@, [id |-> id, len |-> len,
                                                      unsent |-> len, tot |-> 0]),
                                  !.ptail = IF @ = 0 THEN id ELSE @,
                                  !.wf = ~nd.copy]
             IN \E w \in espconn_tcp_write(n2, p) :
                  /\ es' = [es EXCEPT ![Who(n)] = "WRITE"]
                  /\ node' = [node EXCEPT ![n] = w.n]
                  /\ pcb' = [pcb EXCEPT ![nd.conn] = w.p]
                  /\ queue' = PostWrites(queue, n, w.posts)
                  /\ failed' = w.failed
                  /\ packets' = id
                  /\ fault' = fault
     /\ UNCHANGED <<active, run, conns, closes>>

\* espconn_set_opt and espconn_clear_opt with ESPCONN_COPY.
espconn_set_opt(n) ==
  /\ ~fault /\ n \in Active /\ node[n].wf /\ ~node[n].copy
  /\ node' = [node EXCEPT ![n].copy = TRUE]
  /\ UNCHANGED <<active, es, pcb, queue, run, failed, fault, conns, packets, closes>>

\* espconn_disconnect: only a client's struct that says CLOSE is protected.
espconn_disconnect(n) ==
  /\ ~fault /\ closes < MaxCloses /\ n \in Active
  /\ ~(node[n].owner # Server /\ es[Who(n)] = "CLOSE")
  /\ closes' = closes + 1
  /\ IF pcb[node[n].conn].st = "FREE"
     THEN fault' = TRUE /\ UNCHANGED <<node, es, pcb, queue, failed>>
     ELSE fault' = fault /\ espconn_close(n, node[n], pcb[node[n].conn], 0)
  /\ UNCHANGED <<active, run, conns, packets>>

espconn_abort(n) ==
  /\ ~fault /\ closes < MaxCloses /\ n \in Active
  /\ run = Idle
  /\ es[Who(n)] # "CLOSE"
  /\ closes' = closes + 1
  /\ IF pcb[node[n].conn].st = "FREE"
     THEN fault' = TRUE /\ UNCHANGED <<node, es, pcb, queue, failed>>
     ELSE fault' = fault /\ espconn_close(n, node[n], pcb[node[n].conn], 1)
  /\ UNCHANGED <<active, run, conns, packets>>

----------------------------------------------------------------------------
(* The callbacks lwIP calls, one at a time.                                *)

\* espconn_client_connect.
Connected(k) ==
  /\ ~fault /\ run = Idle /\ pcb[k].st = "SYN_SENT"
  /\ IF ~ArgValid(k) THEN Fault
     ELSE LET n == pcb[k].arg
          IN /\ es' = [es EXCEPT ![Who(n)] = "CONNECT"]
             /\ node' = [node EXCEPT ![n].wf = TRUE]
             /\ pcb' = [pcb EXCEPT ![k].st = "ESTABLISHED", ![k].recv = TRUE, ![k].sent = TRUE]
             /\ run' = In("connect", n, 0)
             /\ UNCHANGED <<active, queue, failed, fault, conns, packets, closes>>

\* espconn_tcp_accept.  A refusal leaves nothing behind; when there is no memory
\* for the node's struct espconn, the error callback writes through NULL.
espconn_tcp_accept ==
  /\ ~fault /\ run = Idle /\ conns < MaxConns
  /\ Cardinality({n \in Active : node[n].owner = Server}) # MaxLinks
  /\ \/ \E n \in Nodes :
          /\ node[n] = FreeNode
          /\ conns' = conns + 1
          /\ node' = [node EXCEPT ![n].owner = Server, ![n].conn = conns', ![n].wf = TRUE]
          /\ active' = Append(active, n)
          /\ es' = [es EXCEPT ![n] = "CONNECT"]
          /\ pcb' = [pcb EXCEPT ![conns'] = [NoPcb EXCEPT !.st = "ESTABLISHED", !.arg = n,
                       !.recv = TRUE, !.sent = TRUE, !.err = TRUE, !.poll = TRUE]]
          /\ run' = In("connect", n, 0)
          /\ UNCHANGED <<queue, failed, fault, packets, closes>>
     \/ MemFails /\ ~failed /\ Fault

\* What espconn_tcp_finish does before its loop.
WriteFirst(nd, p) == espconn_tcp_write(nd, p)

\* espconn_client_sent and espconn_server_sent: m more bytes are acknowledged.
Sent(k, m) ==
  /\ ~fault /\ run = Idle /\ pcb[k].sent /\ m \in 1 .. pcb[k].bytes
  /\ IF ~ArgValid(k) \/ node[pcb[k].arg].pbuf = <<>> THEN Fault
     ELSE LET n == pcb[k].arg
              nd == [node[n] EXCEPT !.check = 0, !.pbuf[1].tot = @ + m]
              left == pcb[k].bytes - m
          IN \E s \in (IF left = 0 THEN {0} ELSE 1 .. pcb[k].segs) :
             \E w \in WriteFirst(nd, [pcb[k] EXCEPT !.bytes = left, !.segs = s]) :
               LET f == FinishStep(n, w.n, 0)
               IN /\ node' = [node EXCEPT ![n] = f.nd]
                  /\ pcb' = [pcb EXCEPT ![k] = w.p]
                  /\ es' = IF f.run = Idle THEN es ELSE [es EXCEPT ![Who(n)] = "CONNECT"]
                  /\ run' = f.run
                  /\ queue' = PostWrites(queue, n, w.posts)
                  /\ failed' = w.failed
                  /\ UNCHANGED <<active, fault, conns, packets, closes>>

\* espconn_client_recv and espconn_server_recv with data.
Recv(k) ==
  /\ ~fault /\ run = Idle /\ pcb[k].recv /\ pcb[k].st = "ESTABLISHED"
  /\ IF ~ArgValid(k) THEN Fault
     ELSE LET n == pcb[k].arg
          IN /\ node' = [node EXCEPT ![n].check = 0]
             /\ es' = [es EXCEPT ![Who(n)] = "READ"]
             /\ run' = In("recv", n, 0)
             /\ UNCHANGED <<active, pcb, queue, failed, fault, conns, packets, closes>>

\* The same with p = NULL: the peer has closed.
Eof(k) ==
  /\ ~fault /\ run = Idle /\ pcb[k].recv /\ pcb[k].st = "ESTABLISHED"
  /\ IF ~ArgValid(k) THEN Fault
     ELSE /\ espconn_close(pcb[k].arg, node[pcb[k].arg], [pcb[k] EXCEPT !.st = "CLOSE_WAIT"], 0)
          /\ UNCHANGED <<active, run, fault, conns, packets, closes>>

\* espconn_server_poll, every second.
espconn_server_poll(k) ==
  /\ ~fault /\ run = Idle /\ pcb[k].poll
  /\ IF pcb[k].arg = NULL
     THEN /\ pcb' = [pcb EXCEPT ![k] = NoPcb]               \* tcp_abandon
          /\ UNCHANGED <<node, active, es, queue, run, failed, fault, conns, packets, closes>>
     ELSE IF ~ArgValid(k) THEN Fault
     ELSE LET n == pcb[k].arg
              due == pcb[k].st # "ESTABLISHED" \/ (Timeout # 0 /\ node[n].check + 1 >= Timeout)
              nd == [node[n] EXCEPT !.check = IF pcb[k].st # "ESTABLISHED" THEN @
                                              ELSE IF due \/ Timeout = 0 THEN 0 ELSE @ + 1]
          IN /\ IF due THEN espconn_close(n, nd, pcb[k], 0)
                ELSE node' = [node EXCEPT ![n] = nd] /\ UNCHANGED <<es, pcb, queue, failed>>
             /\ UNCHANGED <<active, run, fault, conns, packets, closes>>

\* espconn_client_err and esponn_server_err: lwIP has given the block up.
Err(k) ==
  /\ ~fault /\ run = Idle /\ pcb[k].st \in {"SYN_SENT", "ESTABLISHED", "CLOSE_WAIT", "CLOSING"}
  /\ IF pcb[k].err /\ pcb[k].arg # NULL
     THEN IF ~ArgValid(k) THEN Fault
          ELSE /\ es' = [es EXCEPT ![Who(pcb[k].arg)] = "CLOSE"]
               /\ queue' = ets_post(queue, "ERRER", pcb[k].arg)
               /\ pcb' = [pcb EXCEPT ![k] = NoPcb]
               /\ UNCHANGED <<node, active, run, failed, fault, conns, packets, closes>>
     ELSE /\ pcb' = [pcb EXCEPT ![k] = NoPcb]
          /\ UNCHANGED <<node, active, es, queue, run, failed, fault, conns, packets, closes>>

----------------------------------------------------------------------------
(* espconn_Task, and the end of a callback.                                *)

\* The node of the event must still be in plink_active; that it is the same
\* connection is not looked at.
espconn_Task ==
  /\ ~fault /\ run = Idle /\ queue # <<>>
  /\ queue' = SubSeq(queue, 2, Len(queue))
  /\ LET e == Head(queue)
         k == node[e.n].conn
     IN IF e.n \notin Active
        THEN UNCHANGED <<node, active, pcb, run>>
        ELSE IF e.sig = "WRITE"
        THEN run' = In("write", e.n, 0) /\ UNCHANGED <<node, active, pcb>>
        ELSE /\ active' = SelectSeq(active, LAMBDA x : x # e.n)
             /\ node' = [node EXCEPT ![e.n].pbuf = <<>>]
             /\ pcb' = IF e.sig = "CLOSE" /\ pcb[k].st # "FREE"
                       THEN [pcb EXCEPT ![k].arg = NULL, ![k].err = FALSE] ELSE pcb
             /\ run' = In("bye", e.n, 0)
  /\ UNCHANGED <<es, failed, fault, conns, packets, closes>>

\* The application's callback returns.
Return ==
  /\ ~fault /\ run # Idle
  /\ LET n == run.n
         f == FinishStep(n, node[n], run.len)
     IN CASE run.cb = "sent" ->
               /\ node' = [node EXCEPT ![n] = f.nd]
               /\ es' = IF f.run = Idle THEN es ELSE [es EXCEPT ![Who(n)] = "CONNECT"]
               /\ run' = f.run
          [] run.cb = "recv" ->
               /\ es' = IF pcb[node[n].conn].st = "ESTABLISHED"
                        THEN [es EXCEPT ![Who(n)] = "CONNECT"] ELSE es
               /\ run' = Idle
               /\ UNCHANGED node
          [] run.cb = "bye" ->
               /\ node' = [node EXCEPT ![n] = FreeNode]
               /\ run' = Idle
               /\ UNCHANGED es
          [] OTHER -> run' = Idle /\ UNCHANGED <<node, es>>
  /\ UNCHANGED <<active, pcb, queue, failed, fault, conns, packets, closes>>

Application ==
  \/ \E c \in Clients : espconn_connect(c)
  \/ \E n \in Nodes :
       \/ \E len \in Lens : espconn_sent(n, len)
       \/ espconn_set_opt(n)
       \/ espconn_disconnect(n)
       \/ espconn_abort(n)

Network(k) ==
  \/ Connected(k)
  \/ \E m \in 1 .. SndBuf : Sent(k, m)
  \/ Recv(k)
  \/ Eof(k)
  \/ espconn_server_poll(k)
  \/ Err(k)

Next == Application \/ espconn_tcp_accept \/ (\E k \in Conns : Network(k)) \/ espconn_Task \/ Return

\* The application's callbacks return, and the task runs again and again, as
\* the system calls it for every event posted.  Data under way are in the end
\* acknowledged or given up by lwIP.
Fairness ==
  /\ WF_vars(Return)
  /\ SF_vars(espconn_Task)
  /\ \A k \in Conns : SF_vars((\E m \in 1 .. SndBuf : Sent(k, m)) \/ (pcb[k].bytes > 0 /\ Err(k)))

Spec == Init /\ [][Next]_vars /\ Fairness

----------------------------------------------------------------------------
InFlight(nd) == FoldSeq(LAMBDA a, b : a + b, 0, [i \in DOMAIN nd.pbuf |-> nd.pbuf[i].len - nd.pbuf[i].unsent])
Credited(nd) == FoldSeq(LAMBDA a, b : a + b, 0, [i \in DOMAIN nd.pbuf |-> nd.pbuf[i].tot])

\* The sent callback is called for each packet exactly when its last byte is
\* acknowledged (espconn_tcp_finish): on a connection whose callbacks reach its
\* node, the bytes under way are those written of the packets kept, less those
\* credited to them, and no packet that is acknowledged in full is kept.
SentMatchesAcked ==
  \A n \in Active :
    LET nd == node[n]
        carry == IF run.cb = "sent" /\ run.n = n THEN run.len ELSE 0
    IN nd.conn # 0 /\ pcb[nd.conn].sent /\ ArgValid(nd.conn)
       => /\ pcb[nd.conn].bytes + Credited(nd) + carry = InFlight(nd)
          /\ run = Idle /\ nd.pbuf # <<>> => nd.pbuf[1].tot < nd.pbuf[1].len

\* ptail never points to a packet that was freed (espconn_tcp_finish frees
\* packets without looking at ptail, espconn_tcp_write reads through it).
TailAlive ==
  \A n \in Active : node[n].ptail # 0 => \E i \in DOMAIN node[n].pbuf : node[n].pbuf[i].id = node[n].ptail

\* A node whose control block is gone, or was closed, is freed in the end
\* (espconn_Task), whatever the application calls meanwhile.
Holders(k) == {n \in Active : node[n].conn = k}
ClosedIsFreed ==
  \A k \in Conns :
    (Holders(k) # {} /\ pcb[k].st \in {"FREE", "CLOSING"}) ~> (Holders(k) = {} \/ fault)

\* The packets that espconn_sent has queued are all acknowledged and reported in
\* the end, or the connection ends, or memory has failed: no order of partial
\* writes and acknowledgements leaves one waiting.
QueuedIsSent ==
  \A k \in Conns :
    (\E n \in Holders(k) : node[n].pbuf # <<>>)
      ~> ((\A n \in Holders(k) : node[n].pbuf = <<>>) \/ fault \/ failed)

\* "protect for redisconnection" (espconn_disconnect): the event that ends a
\* connection ends that connection and no other.
EventOwn ==
  \A i \in DOMAIN queue :
    queue[i].sig \in {"CLOSE", "ERRER"} /\ queue[i].n \in Active => node[queue[i].n].conn = queue[i].conn

\* The queue of packets and the acknowledgements agree, and ptail points into
\* the queue.
PacketsSound == SentMatchesAcked /\ TailAlive

\* No packet and no node is left waiting for good.
NothingLeftBehind == ClosedIsFreed /\ QueuedIsSent
=============================================================================
