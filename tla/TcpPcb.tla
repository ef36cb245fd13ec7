------------------------------- MODULE TcpPcb -------------------------------
(***************************************************************************)
(* One connection of the lwIP TCP (core/tcp.c, tcp_in.c, tcp_out.c), as    *)
(* operators on its control block.                                         *)
(*                                                                         *)
(*   st                 state; "CLOSED" is a block that was freed          *)
(*   unacked, unsent    the segments under way and those waiting           *)
(*   ooseq              segments received out of sequence                  *)
(*   snd_nxt, lastack, snd_lbb, snd_wnd, wl1, wl2    as in struct tcp_pcb  *)
(*   rcv_nxt, rcv_wnd, ann_wnd, ann_edge             as in struct tcp_pcb  *)
(*   delay, now         TF_ACK_DELAY, TF_ACK_NOW                           *)
(*   rxclosed, fin, infr   TF_RXCLOSED, TF_FIN, TF_INFR                    *)
(*   mss                the largest segment                                *)
(*   rtime, persist     the retransmission and the persist timer run       *)
(*   nrtx, dupacks      as in struct tcp_pcb, saturating                   *)
(*   cwnd               0: one byte, as at first; 1: one segment; 2: open, *)
(*                      which sends at least as early as the code          *)
(*   out                the segments this step sends                       *)
(*   recv, eof          the data this step hands to the application, and   *)
(*                      TF_GOT_FIN                                         *)
(*                                                                         *)
(* Sequence numbers are unsigned and wrap at SeqSpace.  A segment in a queue *)
(* is [seq, len, syn, fin, data]; on the wire it also has ack, wnd, ackf   *)
(* and rst.  Data are the positions of the bytes in the stream, so that a  *)
(* property can tell what was delivered.  len and the length of data are   *)
(* separate in the code and here.  The application (espconn) takes all     *)
(* data it is handed, so refused_data is left out; snd_buf is what         *)
(* lastack and snd_lbb leave of TCP_SND_BUF; TIMESTAMPS are not built in.  *)
(***************************************************************************)
EXTENDS Integers, Sequences, FiniteSets, SequencesExt

CONSTANTS
  SeqSpace,      \* 2^32
  WndSpace,      \* 2^16: rcv_wnd is u16_t
  TCP_WND, TCP_SND_BUF,
  WndUpdate,     \* TCP_WND_UPDATE_THRESHOLD
  MAXRTX, SYNMAXRTX,
  DupAcks        \* duplicate ACKs before a fast retransmit (3)

ASSUME TcpAssumption ==
  /\ {TCP_WND, TCP_SND_BUF, WndUpdate, MAXRTX, SYNMAXRTX, DupAcks}
       \subseteq Nat \ {0}
  /\ SeqSpace \in Nat /\ SeqSpace > 2 * (WndSpace + TCP_SND_BUF)
  /\ WndSpace \in Nat /\ WndSpace > TCP_WND + 1

SEQ(n) == n % SeqSpace
TCP_SEQ_LT(a, b) == 2 * SEQ(a - b) >= SeqSpace
TCP_SEQ_LEQ(a, b) == SEQ(a) = SEQ(b) \/ TCP_SEQ_LT(a, b)
TCP_SEQ_BETWEEN(a, b, c) == TCP_SEQ_LEQ(b, a) /\ TCP_SEQ_LEQ(a, c)

Least(a, b) == IF a < b THEN a ELSE b

TCP_TCPLEN(s) == s.len + (IF s.syn \/ s.fin THEN 1 ELSE 0)
End(s) == SEQ(s.seq + TCP_TCPLEN(s))

\* The longest prefix of q all of whose members satisfy P.
PrefixLen(q, P(_)) == Cardinality({i \in DOMAIN q : \A j \in 1 .. i : P(q[j])})
DropFirst(q, n) == SubSeq(q, n + 1, Len(q))

\* Mutant of Trim: the buffer keeps its length.
TrimLenOnly(s, n) == [s EXCEPT !.len = n]

\* pbuf_realloc and a new len; data never grows.
Trim(s, n) == [s EXCEPT !.len = n, !.data = SubSeq(@, 1, Least(n, Len(@)))]

InOrder(q) == SortSeq(q, LAMBDA a, b : TCP_SEQ_LT(a.seq, b.seq))

snd_buf(p) == TCP_SND_BUF - SEQ(p.snd_lbb - p.lastack)

-----------------------------------------------------------------------------
(* Output (tcp_out.c). *)

\* A segment without data, at sequence number seq; it announces the window.
tcp_output_alloc_header(p, seq) ==
  [p EXCEPT !.ann_edge = SEQ(p.rcv_nxt + p.ann_wnd),
            !.out = Append(@, [seq |-> SEQ(seq), len |-> 0, syn |-> FALSE,
                               fin |-> FALSE, data |-> <<>>, ackf |-> TRUE,
                               rst |-> FALSE, ack |-> p.rcv_nxt,
                               wnd |-> p.ann_wnd])]

tcp_send_empty_ack(p) ==
  [tcp_output_alloc_header(p, p.snd_nxt) EXCEPT !.delay = FALSE, !.now = FALSE]

tcp_keepalive(p) == tcp_output_alloc_header(p, p.snd_nxt - 1)

Rst(seq, ack) ==
  [seq |-> SEQ(seq), len |-> 0, syn |-> FALSE, fin |-> FALSE, data |-> <<>>,
   ackf |-> TRUE, rst |-> TRUE, ack |-> SEQ(ack), wnd |-> TCP_WND]

tcp_rst(p, seq, ack) == [p EXCEPT !.out = Append(@, Rst(seq, ack))]

tcp_output_segment(p, s) ==
  [seq |-> s.seq, len |-> s.len, syn |-> s.syn, fin |-> s.fin,
   data |-> s.data, ackf |-> p.st # "SYN_SENT", rst |-> FALSE,
   ack |-> p.rcv_nxt, wnd |-> p.ann_wnd]

\* How far beyond lastack a segment goes, and how far the windows allow.
Reach(p, s) == SEQ(s.seq - p.lastack + s.len)
SendWindow(p) == Least(p.snd_wnd, <<1, p.mss, p.snd_wnd>>[p.cwnd + 1])

\* Nagle's algorithm lets the waiting segment i go.
tcp_do_output_nagle(p, i) ==
  \/ p.unacked = <<>> /\ i = 1
  \/ p.infr \/ p.fin \/ i < Len(p.unsent)
  \/ p.unsent[i].len >= p.mss

Sendable(p) ==
  Cardinality({i \in DOMAIN p.unsent : \A j \in 1 .. i :
     Reach(p, p.unsent[j]) <= SendWindow(p) /\ tcp_do_output_nagle(p, j)})

\* The first n waiting segments are sent.
SendFirst(p, n) ==
  LET sent == SubSeq(p.unsent, 1, n)
      rest == DropFirst(p.unsent, n)
      plain == n > 0 /\ p.st # "SYN_SENT"
  IN  [p EXCEPT
         !.out = @ \o [i \in 1 .. n |-> tcp_output_segment(p, sent[i])],
         !.unsent = rest,
         !.unacked = IF n > 0 THEN InOrder(@ \o sent) ELSE @,
         !.snd_nxt = IF n > 0 /\ TCP_SEQ_LT(@, End(sent[n])) THEN End(sent[n])
                     ELSE @,
         !.ann_edge = IF n > 0 THEN SEQ(p.rcv_nxt + p.ann_wnd) ELSE @,
         !.rtime = @ \/ n > 0,
         !.delay = @ /\ ~plain, !.now = @ /\ ~plain,
         !.persist = @ \/ (rest # <<>> /\ Reach(p, rest[1]) > p.snd_wnd)]

\* Everything the windows and Nagle's algorithm let go is sent; without it,
\* an acknowledgement that is due goes alone.
tcp_output(p) ==
  IF p.now /\ (p.unsent = <<>> \/ Reach(p, p.unsent[1]) > SendWindow(p))
  THEN tcp_send_empty_ack(p)
  ELSE SendFirst(p, Sendable(p))

\* SYN or FIN on a segment of its own.
tcp_enqueue_flags(p, syn) ==
  [p EXCEPT !.unsent = Append(@, [seq |-> p.snd_lbb, len |-> 0, syn |-> syn,
                                  fin |-> ~syn, data |-> <<>>]),
            !.snd_lbb = SEQ(@ + 1), !.fin = @ \/ ~syn]

\* The FIN goes onto the last waiting segment, or on one of its own, for
\* which a byte of the send buffer must be free.
CanFin(p) ==
  \/ p.unsent # <<>> /\ ~Last(p.unsent).syn /\ ~Last(p.unsent).fin
  \/ snd_buf(p) > 0

tcp_send_fin(p) ==
  IF p.unsent # <<>> /\ ~Last(p.unsent).syn /\ ~Last(p.unsent).fin
  THEN [p EXCEPT !.unsent[Len(p.unsent)].fin = TRUE]
  ELSE tcp_enqueue_flags(p, FALSE)

\* data is at most a segment.  What fits goes onto the last waiting segment.
CanWrite(p, data) ==
  /\ p.st \in {"ESTABLISHED", "CLOSE_WAIT", "SYN_SENT", "SYN_RCVD"}
  /\ Len(data) <= snd_buf(p)

\* Room on the last waiting segment, if it has data at all.
TailSpace(p) ==
  IF p.unsent = <<>> \/ Last(p.unsent).len = 0 THEN 0
  ELSE p.mss - Last(p.unsent).len

\* n bytes are put onto the last waiting segment.
Chained(p, data, n) ==
  LET k == Len(p.unsent)
  IN  IF n = 0 THEN p
      ELSE [p EXCEPT !.unsent[k].data = @ \o SubSeq(data, 1, n),
                     !.unsent[k].len = @ + n]

tcp_write(p, data) ==
  LET n == Least(TailSpace(p), Len(data))
      new == [seq |-> SEQ(p.snd_lbb + n), len |-> Len(data) - n, syn |-> FALSE,
              fin |-> FALSE, data |-> DropFirst(data, n)]
  IN  [Chained(p, data, n) EXCEPT
         !.unsent = IF new.len = 0 THEN @ ELSE Append(@, new),
         !.snd_lbb = SEQ(@ + Len(data))]

\* The segments whose buffers the radio driver still holds (held, a set of
\* indices) stay; the others are sent again, from one segment on.
tcp_rexmit_rto(p, held) ==
  LET Pick(I) == [i \in 1 .. Cardinality(I) |->
                    p.unacked[CHOOSE k \in I :
                                Cardinality({j \in I : j <= k}) = i]]
  IN  tcp_output([p EXCEPT
        !.unacked = Pick(held),
        !.unsent = Pick(DOMAIN p.unacked \ held) \o @,
        !.nrtx = Least(@ + 1, MAXRTX + 1)])

tcp_rexmit(p) ==
  IF p.unacked = <<>> THEN p
  ELSE [p EXCEPT !.unacked = Tail(@), !.nrtx = Least(@ + 1, MAXRTX + 1),
                 !.unsent = InOrder(<<Head(p.unacked)>> \o @)]

tcp_rexmit_fast(p) ==
  IF p.unacked = <<>> \/ p.infr THEN p
  ELSE [tcp_rexmit(p) EXCEPT !.cwnd = 2, !.infr = TRUE]

\* One byte, or the FIN, of the oldest segment.
tcp_zero_window_probe(p) ==
  LET q == p.unacked \o p.unsent
      s == Trim(q[1], Least(1, q[1].len))
      probe == [tcp_output_segment(p, s) EXCEPT !.ackf = TRUE, !.syn = FALSE,
                  !.fin = q[1].fin /\ q[1].len = 0]
  IN  IF q = <<>> THEN p
      ELSE [p EXCEPT !.out = Append(@, probe),
                     !.ann_edge = SEQ(p.rcv_nxt + p.ann_wnd)]

-----------------------------------------------------------------------------
(* The receive window (tcp.c). *)

tcp_update_rcv_ann_wnd(p) ==
  LET edge == SEQ(p.rcv_nxt + p.rcv_wnd)
  IN  [p EXCEPT !.ann_wnd =
         IF TCP_SEQ_LEQ(p.ann_edge + Least(TCP_WND \div 2, p.mss), edge)
         THEN p.rcv_wnd
         ELSE IF TCP_SEQ_LT(p.ann_edge, p.rcv_nxt) THEN 0
         ELSE SEQ(p.ann_edge - p.rcv_nxt)]

tcp_recved(p, n) ==
  LET q == tcp_update_rcv_ann_wnd([p EXCEPT !.rcv_wnd = Least(@ + n, TCP_WND)])
      inflation == SEQ(q.rcv_nxt + q.rcv_wnd - q.ann_edge)
      grown == TCP_SEQ_LEQ(q.ann_edge + Least(TCP_WND \div 2, q.mss),
                           q.rcv_nxt + q.rcv_wnd)
  IN  IF grown /\ inflation >= WndUpdate
      THEN tcp_output([q EXCEPT !.now = TRUE]) ELSE q

tcp_ack(p) == [p EXCEPT !.delay = ~@, !.now = @ \/ p.delay]
tcp_ack_now(p) == [p EXCEPT !.now = TRUE]

-----------------------------------------------------------------------------
(* Input (tcp_in.c). *)

\* Segments next that s covers are dropped, s is trimmed to what follows.
tcp_oos_insert_segment(s, next) ==
  LET covers(t) == TCP_SEQ_LEQ(t.seq + t.len, s.seq + s.len)
      n == PrefixLen(next, covers)
      rest == DropFirst(next, n)
      c == [s EXCEPT !.fin = @ \/ \E i \in 1 .. n : next[i].fin]
  IN  IF s.fin THEN <<s>>
      ELSE IF rest # <<>> /\ TCP_SEQ_LT(rest[1].seq, s.seq + s.len)
           THEN <<Trim(c, SEQ(rest[1].seq - s.seq))>> \o rest
           ELSE <<c>> \o rest

\* "Check if the remote side overruns our receive window": the test compares
\* the unsigned numbers, not their distance.
FitWindow(p, s) ==
  IF SEQ(s.seq + TCP_TCPLEN(s)) > SEQ(p.rcv_nxt + p.rcv_wnd)
  THEN [Trim(s, SEQ(p.rcv_nxt + p.rcv_wnd - s.seq)) EXCEPT !.fin = FALSE]
  ELSE s

\* A segment received out of sequence is queued.
Enqueue(p, s) ==
  LET q == p.ooseq
      k == PrefixLen(q, LAMBDA t : TCP_SEQ_LT(t.seq, s.seq))
      rest == DropFirst(q, k)
      prev == IF k > 0 /\ TCP_SEQ_LT(s.seq, q[k].seq + q[k].len)
              THEN [q EXCEPT ![k] = Trim(@, SEQ(s.seq - q[k].seq))] ELSE q
  IN  CASE q = <<>> -> <<s>>
        [] rest # <<>> /\ rest[1].seq = s.seq ->
             IF s.len > rest[1].len
             THEN SubSeq(q, 1, k) \o tcp_oos_insert_segment(s, rest) ELSE q
        [] rest # <<>> /\ rest[1].seq # s.seq ->
             SubSeq(prev, 1, k) \o tcp_oos_insert_segment(s, rest)
        [] OTHER -> IF q[k].fin THEN q ELSE Append(prev, FitWindow(p, s))

\* s and what is left of the queue q behind it: the first n segments, which s
\* covers, are dropped, and s ends where the next one begins.
Merged(s, q, n) ==
  LET rest == DropFirst(q, n)
      c == [s EXCEPT !.fin = @ \/ \E i \in 1 .. n : q[i].fin]
  IN  IF rest # <<>> /\ TCP_SEQ_LT(rest[1].seq, End(c))
      THEN <<Trim(c, SEQ(rest[1].seq - c.seq))>> \o rest
      ELSE <<c>> \o rest

\* How many segments of a chain follow each other without a gap.
Linked(chain) ==
  Cardinality({i \in DOMAIN chain : \A j \in 2 .. i :
                 chain[j].seq = End(chain[j - 1])})

\* The first m segments of the chain are handed on.
HandOn(p, chain, m) ==
  LET last == End(chain[m])
  IN  tcp_ack(tcp_update_rcv_ann_wnd(
        [p EXCEPT !.rcv_nxt = last,
                  !.rcv_wnd = (@ - SEQ(last - p.rcv_nxt)) % WndSpace,
                  !.ooseq = DropFirst(chain, m),
                  !.recv = FlattenSeq([i \in 1 .. m |-> chain[i].data]),
                  !.eof = \E i \in 1 .. m : chain[i].fin,
                  !.st = IF @ = "ESTABLISHED" /\ \E i \in 2 .. m : chain[i].fin
                         THEN "CLOSE_WAIT" ELSE @]))

\* The next segment in sequence, s, which is not longer than the window, and
\* the queued segments it makes in sequence, are handed on.
InSequence(p, s) ==
  LET covered(t) == TCP_SEQ_LEQ(t.seq + t.len, s.seq + TCP_TCPLEN(s))
      chain == Merged(s, p.ooseq, IF s.fin THEN Len(p.ooseq)
                                  ELSE PrefixLen(p.ooseq, covered))
  IN  HandOn(p, chain, Linked(chain))

\* Mutant of RtimeAfterAck: every new acknowledgement stops the timer.
RtimeAfterAckStopped(left) == FALSE

\* The retransmission timer after a new acknowledgement.
RtimeAfterAck(left) == left # <<>>

\* The window that a segment announces, unless a newer one announced another.
UpdateWindow(p, m) ==
  IF \/ TCP_SEQ_LT(p.wl1, m.seq)
     \/ p.wl1 = m.seq /\ TCP_SEQ_LT(p.wl2, m.ack)
     \/ p.wl2 = m.ack /\ m.wnd > p.snd_wnd
  THEN [p EXCEPT !.snd_wnd = m.wnd, !.wl1 = m.seq, !.wl2 = m.ack,
                 !.persist = @ /\ m.wnd = 0]
  ELSE p

\* An acknowledgement of nothing new; the DupAcks-th one in a row that repeats
\* everything, the edge of the window included, makes tcp_rexmit_fast run.
OldAck(w, m, edge) ==
  LET dup == /\ TCP_TCPLEN(m) = 0 /\ SEQ(w.wl2 + w.snd_wnd) = edge
             /\ w.rtime /\ w.lastack = m.ack
      d == [w EXCEPT !.dupacks = Least(@ + 1, DupAcks + 1)]
  IN  IF ~dup THEN [w EXCEPT !.dupacks = 0]
      ELSE IF w.dupacks + 1 = DupAcks THEN tcp_rexmit_fast(d) ELSE d

NewAck(w, m) ==
  LET left == DropFirst(w.unacked, PrefixLen(w.unacked,
                          LAMBDA s : TCP_SEQ_LEQ(End(s), m.ack)))
  IN  [w EXCEPT !.infr = FALSE, !.nrtx = 0, !.dupacks = 0,
                !.lastack = m.ack, !.cwnd = 2,
                !.unacked = left, !.rtime = RtimeAfterAck(left)]

\* What a segment acknowledges, w being the block with the window updated.
Acknowledged(w, m, edge) ==
  CASE TCP_SEQ_LEQ(m.ack, w.lastack) -> OldAck(w, m, edge)
    [] ~TCP_SEQ_LEQ(m.ack, w.lastack)
       /\ TCP_SEQ_BETWEEN(m.ack, w.lastack + 1, w.snd_nxt) -> NewAck(w, m)
    [] OTHER -> w

\* Waiting segments that were sent before and are now acknowledged.
DropUnsent(a, m) ==
  [a EXCEPT !.unsent = DropFirst(@, PrefixLen(@,
     LAMBDA s : TCP_SEQ_BETWEEN(m.ack, End(s), a.snd_nxt)))]

ReceiveAck(p, m) ==
  DropUnsent(Acknowledged(UpdateWindow(p, m), m, SEQ(p.snd_wnd + p.wl2)), m)

CutToWindow(p, s) ==
  IF TCP_TCPLEN(s) > p.rcv_wnd
  THEN [Trim(s, p.rcv_wnd) EXCEPT !.fin = FALSE] ELSE s

\* What a segment brings, a being the block after its acknowledgement.
ReceiveData(a, m) ==
  LET len == TCP_TCPLEN(m)
      s0 == [seq |-> m.seq, len |-> m.len, syn |-> m.syn, fin |-> m.fin,
             data |-> m.data]
      off == SEQ(a.rcv_nxt - m.seq)
      front == TCP_SEQ_BETWEEN(a.rcv_nxt, m.seq + 1, m.seq + len - 1)
      s == IF front THEN [s0 EXCEPT !.seq = a.rcv_nxt, !.len = @ - off,
                                    !.data = DropFirst(@, off)]
           ELSE s0
      b == IF ~front /\ TCP_SEQ_LT(m.seq, a.rcv_nxt) THEN tcp_ack_now(a) ELSE a
      fits == TCP_SEQ_BETWEEN(s.seq, a.rcv_nxt, a.rcv_nxt + a.rcv_wnd - 1)
  IN  CASE len = 0 -> IF fits THEN a ELSE tcp_ack_now(a)
        [] len > 0 /\ ~fits -> tcp_send_empty_ack(b)
        [] len > 0 /\ fits /\ s.seq = a.rcv_nxt ->
             InSequence(b, CutToWindow(a, s))
        [] OTHER -> [tcp_send_empty_ack(b) EXCEPT !.ooseq = Enqueue(b, s)]

tcp_receive(p, m) == ReceiveData(IF m.ackf THEN ReceiveAck(p, m) ELSE p, m)

\* Buffered data goes and the retransmission timer stops.
tcp_pcb_purge(p) ==
  [p EXCEPT !.unacked = <<>>, !.unsent = <<>>, !.ooseq = <<>>, !.rtime = FALSE]

\* tcp_pcb_remove or tcp_slowtmr, and memp_free; a delayed ACK goes out first.
Free(p) == [p EXCEPT !.st = "CLOSED"]

tcp_pcb_remove(p) ==
  LET q == tcp_pcb_purge(p)
  IN  Free(IF q.delay /\ q.st # "TIME_WAIT"
           THEN tcp_output([q EXCEPT !.now = TRUE]) ELSE q)

TimeWait(p) == [tcp_pcb_purge(p) EXCEPT !.st = "TIME_WAIT"]

tcp_abandon(p) ==
  IF p.st = "TIME_WAIT" THEN Free(p)
  ELSE tcp_rst(tcp_pcb_remove(p), p.snd_nxt, p.rcv_nxt)

\* An accepted reset: TF_RESET, or ERR_OK and nothing done.
ProcessRst(p, m) ==
  IF \/ p.st = "SYN_SENT" /\ m.ack = p.snd_nxt
     \/ p.st # "SYN_SENT"
        /\ TCP_SEQ_BETWEEN(m.seq, p.rcv_nxt, p.rcv_nxt + p.rcv_wnd)
  THEN tcp_pcb_remove([p EXCEPT !.delay = FALSE])
  ELSE p

ProcessSynSent(p, m) ==
  IF m.ackf /\ m.syn /\ m.ack = End(p.unacked[1])
  THEN tcp_ack_now([p EXCEPT
         !.rcv_nxt = SEQ(m.seq + 1), !.ann_edge = SEQ(m.seq + 1),
         !.lastack = m.ack, !.snd_wnd = m.wnd, !.wl1 = SEQ(m.seq - 1),
         !.st = "ESTABLISHED", !.cwnd = IF @ = 0 THEN 2 ELSE 1,
         !.unacked = Tail(@), !.rtime = RtimeAfterAck(Tail(p.unacked)),
         !.nrtx = 0])
  ELSE IF m.ackf THEN tcp_rst(p, m.ack, m.seq + TCP_TCPLEN(m)) ELSE p

\* The peer has closed: what was received includes its FIN.
PassiveClose(r) ==
  IF r.eof THEN tcp_ack_now([r EXCEPT !.st = "CLOSE_WAIT"]) ELSE r

ProcessSynRcvd(p, m) ==
  CASE m.ackf /\ TCP_SEQ_BETWEEN(m.ack, p.lastack + 1, p.snd_nxt) ->
         PassiveClose([tcp_receive([p EXCEPT !.st = "ESTABLISHED"], m)
                         EXCEPT !.cwnd = IF p.cwnd = 0 THEN 2 ELSE 1])
    [] m.ackf /\ ~TCP_SEQ_BETWEEN(m.ack, p.lastack + 1, p.snd_nxt) ->
         tcp_rst(p, m.ack, m.seq + TCP_TCPLEN(m))
    [] ~m.ackf /\ m.syn /\ m.seq = SEQ(p.rcv_nxt - 1) -> tcp_rexmit(p)
    [] OTHER -> p

\* The states after ESTABLISHED: where a connection in state st goes from r,
\* what tcp_receive left; acked says that all it has sent is acknowledged.
AfterData(st, r, acked) ==
  CASE st \in {"ESTABLISHED", "CLOSE_WAIT"} -> PassiveClose(r)
    [] st = "FIN_WAIT_1" ->
         IF r.eof THEN IF acked THEN TimeWait(tcp_ack_now(r))
                       ELSE [tcp_ack_now(r) EXCEPT !.st = "CLOSING"]
         ELSE IF acked THEN [r EXCEPT !.st = "FIN_WAIT_2"] ELSE r
    [] st = "FIN_WAIT_2" -> IF r.eof THEN TimeWait(tcp_ack_now(r)) ELSE r
    [] st = "CLOSING" -> IF acked THEN TimeWait(r) ELSE r
    [] st = "LAST_ACK" -> IF acked THEN tcp_pcb_remove(r) ELSE r

ProcessData(p, m) ==
  LET r == tcp_receive(p, m)
  IN  AfterData(p.st, r, m.ackf /\ m.ack = r.snd_nxt)

tcp_process(p, m) ==
  CASE m.rst -> ProcessRst(p, m)
    [] ~m.rst /\ m.syn /\ p.st \notin {"SYN_SENT", "SYN_RCVD"} ->
         tcp_ack_now(p)
    [] ~m.rst /\ p.st = "SYN_SENT" -> ProcessSynSent(p, m)
    [] ~m.rst /\ p.st = "SYN_RCVD" -> ProcessSynRcvd(p, m)
    [] OTHER -> ProcessData(p, m)

\* What follows tcp_process.  Data that comes after tcp_close resets the
\* connection.
Deliver(q) ==
  IF q.st = "CLOSED" THEN q
  ELSE IF q.recv # <<>> /\ q.rxclosed
  THEN [tcp_abandon(q) EXCEPT !.recv = <<>>, !.eof = FALSE]
  ELSE tcp_output(IF q.eof /\ q.rcv_wnd # TCP_WND
                  THEN [q EXCEPT !.rcv_wnd = (@ + 1) % WndSpace] ELSE q)

\* A segment for a connection.
tcp_input(p, m) == Deliver(tcp_process(p, m))

tcp_timewait_input(p, m) ==
  CASE m.rst -> p
    [] ~m.rst /\ m.syn
       /\ TCP_SEQ_BETWEEN(m.seq, p.rcv_nxt, p.rcv_nxt + p.rcv_wnd) ->
         tcp_rst(p, m.ack, m.seq + TCP_TCPLEN(m))
    [] OTHER -> IF TCP_TCPLEN(m) > 0 THEN tcp_output(tcp_ack_now(p)) ELSE p

-----------------------------------------------------------------------------
(* Opening and closing (tcp.c). *)

\* tcp_alloc, with the values tcp_connect and tcp_listen_input then set.
tcp_alloc(iss, mss) ==
  [st |-> "CLOSED", mss |-> mss,
   unacked |-> <<>>, unsent |-> <<>>, ooseq |-> <<>>,
   snd_nxt |-> iss, lastack |-> iss, snd_lbb |-> iss, snd_wnd |-> 0,
   wl1 |-> 0, wl2 |-> iss, rcv_nxt |-> 0, rcv_wnd |-> TCP_WND,
   ann_wnd |-> TCP_WND, ann_edge |-> 0, delay |-> FALSE, now |-> FALSE,
   rxclosed |-> FALSE, fin |-> FALSE, infr |-> FALSE, rtime |-> FALSE,
   persist |-> FALSE, nrtx |-> 0, dupacks |-> 0, cwnd |-> 0,
   out |-> <<>>, recv |-> <<>>, eof |-> FALSE]

tcp_connect(iss, mss) ==
  tcp_output(tcp_enqueue_flags(
    [tcp_alloc(iss, mss) EXCEPT !.st = "SYN_SENT", !.lastack = SEQ(iss - 1),
                                !.snd_lbb = SEQ(iss - 1),
                                !.snd_wnd = TCP_WND], TRUE))

\* A segment for a port that is listened on, p a block that is free.
tcp_listen_input(p, iss, mss, m) ==
  CASE m.ackf -> tcp_rst(p, m.ack + 1, m.seq + TCP_TCPLEN(m))
    [] ~m.ackf /\ m.syn ->
         tcp_output(tcp_enqueue_flags(
           [tcp_alloc(iss, mss) EXCEPT
              !.st = "SYN_RCVD", !.rcv_nxt = SEQ(m.seq + 1),
              !.ann_edge = SEQ(m.seq + 1), !.snd_wnd = m.wnd,
              !.wl1 = SEQ(m.seq - 1)], TRUE))
    [] OTHER -> p

\* Without a connection and without a listener.
Unreachable(p, m) ==
  IF m.rst THEN p ELSE tcp_rst(p, m.ack, m.seq + TCP_TCPLEN(m))

tcp_close(c) ==
  LET p == [c EXCEPT !.rxclosed = TRUE]
      fin(st) == IF CanFin(p)
                 THEN tcp_output([tcp_send_fin(p) EXCEPT !.st = st]) ELSE p
  IN  IF p.rcv_wnd # TCP_WND
      THEN TimeWait(tcp_rst(p, p.snd_nxt, p.rcv_nxt))
      ELSE CASE p.st = "SYN_SENT" -> tcp_pcb_remove(p)
             [] p.st \in {"SYN_RCVD", "ESTABLISHED"} -> fin("FIN_WAIT_1")
             [] p.st = "CLOSE_WAIT" -> fin("LAST_ACK")
             [] OTHER -> p

-----------------------------------------------------------------------------
(* Timers (tcp.c). *)

\* Every 250 ms: a delayed acknowledgement goes out.
tcp_fasttmr(p) ==
  IF p.delay THEN [tcp_output(tcp_ack_now(p)) EXCEPT !.delay = FALSE,
                                                     !.now = FALSE]
  ELSE p

\* Every 500 ms.  How many periods a timer lasts is not modelled: what may
\* run out may do so at any tick.  The tick ends with the poll, which sends.
TooOften(p) ==
  p.nrtx = MAXRTX \/ (p.st = "SYN_SENT" /\ p.nrtx = SYNMAXRTX)

Retransmit(p, held) == tcp_output(tcp_rexmit_rto([p EXCEPT !.cwnd = 1], held))
Probe(p) == tcp_output(tcp_zero_window_probe(p))
DropOoseq(p) == tcp_output([p EXCEPT !.ooseq = <<>>])
KeepAlive(p) == tcp_output(tcp_keepalive(p))
Expire(p) == Free(tcp_pcb_purge(p))
Poll(p) == tcp_output(p)
=============================================================================
