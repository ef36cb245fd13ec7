------------------------------- MODULE Netconn -------------------------------
(***************************************************************************)
(* The sequential API of lwIP: one TCP netconn, used by one application    *)
(* thread and served by tcpip_thread (api_lib.c, api_msg.c, tcpip.c), with *)
(* the three events of the socket layer that API_EVENT keeps up to date.   *)
(* The application posts an api_msg to the mailbox of tcpip_thread and     *)
(* waits on op_completed; tcpip_thread runs the message's do_* function    *)
(* and the callbacks of the TCP layer, one at a time.  The TCP control     *)
(* block is external: what is kept of it is its state, the callbacks set   *)
(* on it, the bytes in its send buffer and the data it holds because the   *)
(* netconn refused them.                                                   *)
(***************************************************************************)
EXTENDS Integers, Sequences

CONSTANTS MboxSize,     \* messages a recvmbox or an acceptmbox holds
          SndBuf,       \* TCP_SND_BUF
          Writes,       \* sizes of netconn_write
          Hows          \* what netconn_shutdown is asked to shut down

NetconnAssumption ==
  /\ MboxSize \in Nat \ {0}
  /\ SndBuf \in Nat \ {0}
  /\ Writes \subseteq Nat \ {0}
  /\ Hows \subseteq {"RD", "WR", "RDWR"}

VARIABLES conn,     \* struct netconn
          pcb,      \* the TCP control block
          call,     \* the api_msg of the application thread and where it stands
          sem,      \* op_completed
          sock,     \* rcvevent, sendevent and errevent of the socket
          finNext   \* tcp_input is about to report the FIN of the segment

netconnVars == <<conn, pcb, call, sem, sock, finNext>>

Fatal == {"RST", "CLSD", "CONN", "ISCONN"}
Soft == {"OK", "MEM", "INPROGRESS", "VAL", "WOULDBLOCK"}

NoCall == [at |-> "idle", fn |-> "none", len |-> 0, how |-> "none", res |-> "OK"]
NoPcb == [st |-> "none", arg |-> FALSE, recv |-> FALSE, sent |-> FALSE,
          poll |-> FALSE, errf |-> FALSE, used |-> 0, refused |-> FALSE,
          fin |-> FALSE, rxclosed |-> FALSE, txclosed |-> FALSE]

netconn_alloc == [state |-> "NONE", pcb |-> TRUE, cur |-> FALSE, woff |-> 0,
                  lerr |-> "OK", nb |-> FALSE, inconn |-> FALSE, checkws |-> FALSE,
                  rvalid |-> TRUE, rmbox |-> <<>>, avalid |-> FALSE, ambox |-> <<>>,
                  freed |-> FALSE, halved |-> FALSE]

setup_tcp(p) == [p EXCEPT !.arg = TRUE, !.recv = TRUE, !.sent = TRUE,
                          !.poll = TRUE, !.errf = TRUE]

(* A netconn is new, or one that accept_function made for a connection.    *)
Init ==
  /\ conn = netconn_alloc
  /\ \/ /\ pcb = [NoPcb EXCEPT !.st = "closed"]
        /\ sock = [rcv |-> 0, send |-> FALSE, err |-> FALSE]
     \/ /\ pcb = setup_tcp([NoPcb EXCEPT !.st = "est"])
        /\ sock = [rcv |-> 0, send |-> TRUE, err |-> FALSE]
  /\ call = NoCall
  /\ sem = 0
  /\ finNext = FALSE

SafeErr(c, e) == IF c.lerr \in Fatal THEN c ELSE [c EXCEPT !.lerr = e]

RcvPlus(s) == [s EXCEPT !.rcv = @ + 1]
RcvMinus(s) == [s EXCEPT !.rcv = @ - 1]
Posted(mbox, m) == IF Len(mbox) < MboxSize THEN Append(mbox, m) ELSE mbox
Room(mbox) == Len(mbox) < MboxSize

-----------------------------------------------------------------------------
(* The application thread (api_lib.c). *)

Enter(fn, len, how) ==
  /\ call.at = "idle"
  /\ ~conn.freed
  /\ call' = [NoCall EXCEPT !.at = "queued", !.fn = fn, !.len = len, !.how = how]
  /\ UNCHANGED <<conn, pcb, sem, sock, finNext>>

netconn_connect == Enter("connect", 0, "none")
netconn_listen == Enter("listen", 0, "none")
netconn_write == \E len \in Writes : Enter("write", len, "none")
netconn_getaddr == Enter("getaddr", 0, "none")
netconn_close_shutdown == \E how \in Hows : Enter("close", 0, how)
netconn_delete == Enter("delete", 0, "none")

set_nonblocking ==
  /\ call.at = "idle" /\ ~conn.freed
  /\ conn' = [conn EXCEPT !.nb = ~@]
  /\ UNCHANGED <<pcb, call, sem, sock, finNext>>

(* netconn_recv_data: a fatal error returns at once; then the thread waits *)
(* for the mailbox.                                                        *)
netconn_recv ==
  /\ call.at = "idle" /\ ~conn.freed
  /\ conn.rvalid
  /\ conn.lerr \notin Fatal
  /\ conn.nb => sock.rcv > 0                        \* lwip_recvfrom
  /\ call' = [NoCall EXCEPT !.at = "fetch", !.fn = "recv"]
  /\ UNCHANGED <<conn, pcb, sem, sock, finNext>>

Fetched ==
  /\ call.at = "fetch" /\ call.fn = "recv"
  /\ conn.rmbox # <<>>
  /\ conn' = [conn EXCEPT !.rmbox = Tail(@)]
  /\ call' = [call EXCEPT !.at = "queued", !.fn = "recved", !.how = Head(conn.rmbox)]
  /\ UNCHANGED <<pcb, sem, sock, finNext>>

netconn_accept ==
  /\ call.at = "idle" /\ ~conn.freed
  /\ conn.avalid
  /\ conn.lerr \notin Fatal
  /\ conn.nb => sock.rcv > 0
  /\ call' = [NoCall EXCEPT !.at = "fetch", !.fn = "accept"]
  /\ UNCHANGED <<conn, pcb, sem, sock, finNext>>

Accepted ==
  /\ call.at = "fetch" /\ call.fn = "accept"
  /\ conn.ambox # <<>>
  /\ conn' = SafeErr([conn EXCEPT !.ambox = Tail(@)],
                     IF Head(conn.ambox) = "eof" THEN "CLSD" ELSE conn.lerr)
  /\ sock' = RcvMinus(sock)
  /\ call' = NoCall
  /\ UNCHANGED <<pcb, sem, finNext>>

(* tcpip_apimsg returns when the semaphore is signalled. *)
Return ==
  /\ call.at = "wait"
  /\ sem > 0
  /\ sem' = sem - 1
  /\ conn' = CASE call.fn = "delete" -> [conn EXCEPT !.freed = TRUE]
               [] call.fn = "recved" -> IF call.how = "eof" THEN SafeErr(conn, "CLSD") ELSE conn
               [] OTHER -> SafeErr(conn, call.res)
  /\ sock' = IF call.fn = "recved" THEN RcvMinus(sock) ELSE sock
  /\ call' = NoCall
  /\ UNCHANGED <<pcb, finNext>>

-----------------------------------------------------------------------------
(* tcpip_thread: the do_* functions.  Each works on the state              *)
(* w = [conn, pcb, res, sem, sock] of the message it handles.              *)

Ack(w, res) == [w EXCEPT !.res = res, !.sem = @ + 1]

(* The end of a blocking operation: the message is answered and forgotten. *)
Finish(w, res) ==
  [Ack(w, res) EXCEPT !.conn.cur = FALSE, !.conn.state = "NONE"]

Space(p) == SndBuf - p.used
Writable(p) == Space(p) > SndBuf \div 2

(* What tcp_write answers: not connected, or the data are taken, or there  *)
(* is no memory for them.                                                  *)
tcp_write(p) ==
  IF p.st \notin {"est", "synsent"} \/ p.txclosed THEN {"CONN"} ELSE {"OK", "MEM"}

WouldBlock(w) ==
  [Finish(w, "WOULDBLOCK") EXCEPT !.conn.checkws = TRUE, !.sock.send = FALSE]

Written(w, len, full) ==
  LET p == [w.pcb EXCEPT !.used = @ + len]
      v == [w EXCEPT !.pcb = p, !.sock.send = @ /\ Writable(p),
                     !.conn.woff = IF w.conn.woff + len = full THEN 0 ELSE @ + len]
  IN IF w.conn.woff + len = full THEN Finish(v, "OK") ELSE v

do_writemore(w, full) ==
  LET left == full - w.conn.woff
      len == IF Space(w.pcb) < left THEN Space(w.pcb) ELSE left
  IN IF w.conn.nb /\ len < full
     THEN {WouldBlock(w)}
     ELSE { CASE e = "OK" -> Written(w, len, full)
              [] e = "MEM" /\ w.conn.nb -> WouldBlock(w)
              [] e = "MEM" -> [w EXCEPT !.sock.send = @ /\ Writable(w.pcb)]
              [] OTHER -> Finish(w, e) : e \in tcp_write(w.pcb) }

do_write(w) ==
  IF w.conn.lerr \in Fatal THEN {Ack(w, w.conn.lerr)}
  ELSE IF w.conn.state # "NONE" THEN {Ack(w, "INPROGRESS")}
  ELSE IF ~w.conn.pcb THEN {Ack(w, "CONN")}
  ELSE do_writemore([w EXCEPT !.conn.state = "WRITE", !.conn.cur = TRUE,
                              !.conn.woff = 0], call.len)

(* What the pcb is after tcp_close or tcp_shutdown, and whether it failed:  *)
(* sending the FIN needs memory, the other states close at once.           *)
NeedsFin(p) == p.st = "est" /\ ~p.txclosed
tcp_closed(p, how) ==
  {[ok |-> TRUE,
    pcb |-> IF how = "RDWR" THEN NoPcb
            ELSE [p EXCEPT !.rxclosed = @ \/ how = "RD",
                           !.txclosed = @ \/ (how = "WR" /\ NeedsFin(p)),
                           !.refused = @ /\ how # "RD"]]}
  \cup (IF NeedsFin(p) /\ how # "RD" THEN {[ok |-> FALSE, pcb |-> p]} ELSE {})

Unset(p, how) ==
  [p EXCEPT !.arg = @ /\ how # "RDWR",
            !.recv = @ /\ (p.st = "listen" \/ how = "WR"),
            !.sent = @ /\ (p.st = "listen" \/ how = "RD"),
            !.poll = @ /\ (p.st = "listen" \/ how # "RDWR"),
            !.errf = @ /\ (p.st = "listen" \/ how # "RDWR")]

do_close_internal(w, how) ==
  { IF r.ok
    THEN [Finish(w, "OK") EXCEPT
            !.pcb = r.pcb,
            !.conn.pcb = FALSE,
            !.conn.halved = @ \/ how # "RDWR",
            !.sock = [rcv |-> IF how = "WR" THEN @.rcv ELSE @.rcv + 1,
                      send |-> @.send \/ how # "RD",
                      err |-> @.err \/ how = "RDWR"]]
    ELSE [w EXCEPT !.pcb = [r.pcb EXCEPT !.sent = TRUE, !.poll = TRUE,
                                         !.errf = TRUE, !.arg = TRUE]]
    : r \in tcp_closed(Unset(w.pcb, how), how) }

netconn_drain(c) ==
  [c EXCEPT !.rvalid = FALSE, !.rmbox = <<>>, !.avalid = FALSE, !.ambox = <<>>]

do_close(w) ==
  IF w.conn.state \notin {"NONE", "LISTEN"} THEN {Ack(w, "INPROGRESS")}
  ELSE IF ~w.conn.pcb THEN {Ack(w, "VAL")}
  ELSE IF call.how # "RDWR" /\ w.conn.state = "LISTEN" THEN {Ack(w, "CONN")}
  ELSE LET c == IF call.how = "WR" THEN w.conn ELSE netconn_drain(w.conn)
       IN do_close_internal([w EXCEPT !.conn = [c EXCEPT !.state = "CLOSE", !.cur = TRUE]],
                            call.how)

do_delconn(w) ==
  IF w.conn.state \notin {"NONE", "LISTEN", "CONNECT"} THEN {Ack(w, "INPROGRESS")}
  ELSE LET c == netconn_drain(w.conn)
       IN IF c.pcb
          THEN do_close_internal([w EXCEPT !.conn = [c EXCEPT !.state = "CLOSE",
                                                              !.cur = TRUE]], "RDWR")
          ELSE {Ack([w EXCEPT !.conn = c, !.sock.rcv = @ + 1, !.sock.send = TRUE], "OK")}

do_connect(w) ==
  IF ~w.conn.pcb THEN {Ack(w, "CLSD")}
  ELSE IF w.conn.state # "NONE" THEN {Ack(w, "ISCONN")}
  ELSE LET p == setup_tcp(w.pcb)
       IN IF p.st # "closed" THEN {Ack([w EXCEPT !.pcb = p], "ISCONN")}
          ELSE {Ack([w EXCEPT !.pcb = p], "MEM"),
                LET v == [w EXCEPT !.pcb = [p EXCEPT !.st = "synsent"],
                                   !.conn.state = "CONNECT",
                                   !.conn.inconn = w.conn.nb]
                IN IF w.conn.nb THEN Ack(v, "INPROGRESS")
                   ELSE [v EXCEPT !.conn.cur = TRUE]}

do_listen(w) ==
  IF w.conn.lerr \in Fatal THEN {Ack(w, w.conn.lerr)}
  ELSE IF ~w.conn.pcb \/ w.conn.state # "NONE" THEN {Ack(w, "CONN")}
  ELSE IF w.pcb.st # "closed" THEN {Ack(w, "MEM")}  \* tcp_listen answers NULL
  ELSE LET c == [w.conn EXCEPT !.rvalid = FALSE, !.rmbox = <<>>]
       IN {Ack(w, "MEM"),
           Ack([w EXCEPT !.conn = [c EXCEPT !.pcb = FALSE], !.pcb = NoPcb], "MEM"),
           Ack([w EXCEPT !.conn = [c EXCEPT !.avalid = TRUE, !.state = "LISTEN"],
                         !.pcb = [NoPcb EXCEPT !.st = "listen", !.arg = TRUE]], "OK")}

do_getaddr(w) == {Ack(w, IF w.conn.pcb THEN "OK" ELSE "CONN")}
do_recv(w) == {Ack(w, "OK")}

Handled(w) ==
  CASE call.fn = "connect" -> do_connect(w)
    [] call.fn = "listen" -> do_listen(w)
    [] call.fn = "write" -> do_write(w)
    [] call.fn = "close" -> do_close(w)
    [] call.fn = "delete" -> do_delconn(w)
    [] call.fn = "recved" -> do_recv(w)
    [] OTHER -> do_getaddr(w)

State == [conn |-> conn, pcb |-> pcb, res |-> call.res, sem |-> sem, sock |-> sock]
Becomes(w) ==
  /\ conn' = w.conn
  /\ pcb' = w.pcb
  /\ sem' = w.sem
  /\ sock' = w.sock

(* tcpip_thread takes the message from its mailbox and runs its function. *)
tcpip_thread ==
  /\ call.at = "queued"
  /\ ~finNext
  /\ \E w \in Handled(State) :
       /\ Becomes(w)
       /\ call' = [call EXCEPT !.at = "wait", !.res = w.res]
  /\ UNCHANGED finNext

-----------------------------------------------------------------------------
(* tcpip_thread: the callbacks of the TCP layer.  When callback_arg is     *)
(* still the netconn after it was freed they would use freed memory: they  *)
(* are not taken then, and NoDangling says when that can happen.           *)

Reaches(callback) == callback /\ pcb.arg /\ ~conn.freed
Results(ws) ==
  \E w \in ws : /\ Becomes(w)
                /\ call' = [call EXCEPT !.res = w.res]

Resumed(w) ==
  CASE w.conn.state = "WRITE" -> do_writemore(w, call.len)
    [] w.conn.state = "CLOSE" ->
         do_close_internal(w, IF call.fn = "delete" THEN "RDWR" ELSE call.how)
    [] OTHER -> {w}

Refreshed(w) ==
  IF w.conn.pcb /\ Writable(w.pcb)
  THEN [w EXCEPT !.conn.checkws = FALSE, !.sock.send = TRUE]
  ELSE w

sent_tcp ==
  /\ pcb.used > 0 /\ ~finNext
  /\ \E n \in 1..pcb.used :
       LET w == [State EXCEPT !.pcb.used = @ - n]
       IN IF Reaches(pcb.sent)
          THEN Results({Refreshed(v) : v \in Resumed(w)})
          ELSE Results({w})
  /\ UNCHANGED finNext

(* A poll that only looks at the write space. *)
poll_tcp_Idle ==
  /\ pcb.st \in {"est", "synsent"} /\ ~finNext
  /\ Reaches(pcb.poll)
  /\ Results({IF conn.checkws THEN Refreshed(State) ELSE State})
  /\ UNCHANGED finNext

poll_tcp ==
  /\ pcb.st \in {"est", "synsent"} /\ ~finNext
  /\ Reaches(pcb.poll)
  /\ Results({IF v.conn.checkws THEN Refreshed(v) ELSE v : v \in Resumed(State)})
  /\ UNCHANGED finNext

do_connected ==
  /\ pcb.st = "synsent" /\ ~finNext
  /\ Reaches(pcb.errf)
  /\ LET c == [conn EXCEPT !.cur = FALSE, !.state = "NONE", !.inconn = FALSE,
                           !.lerr = IF conn.inconn /\ @ = "INPROGRESS" THEN "OK" ELSE @]
     IN /\ conn' = c
        /\ call' = [call EXCEPT !.res = IF conn.cur THEN "OK" ELSE @]
        /\ sem' = IF conn.inconn THEN sem ELSE sem + 1
  /\ pcb' = setup_tcp([pcb EXCEPT !.st = "est"])
  /\ sock' = [sock EXCEPT !.send = TRUE]
  /\ UNCHANGED finNext

(* A reset, too many retransmissions, or the peer closing after a shutdown. *)
Blocking == {"WRITE", "CLOSE", "CONNECT"}

err_tcp ==
  /\ pcb.st \in {"est", "synsent"} /\ ~finNext
  /\ pcb' = [NoPcb EXCEPT !.arg = FALSE]
  /\ IF Reaches(pcb.errf)
     THEN LET wakes == conn.state \in Blocking /\ ~conn.inconn
          IN /\ conn' = [conn EXCEPT
                  !.pcb = FALSE, !.lerr = "RST", !.state = "NONE",
                  !.rmbox = IF conn.rvalid THEN Posted(@, "eof") ELSE @,
                  !.ambox = IF conn.avalid THEN Posted(@, "eof") ELSE @,
                  !.inconn = IF conn.state \in Blocking THEN FALSE ELSE @,
                  !.cur = @ /\ ~wakes]
             /\ sock' = [rcv |-> sock.rcv + 1, send |-> TRUE, err |-> TRUE]
             /\ call' = [call EXCEPT !.res = IF wakes THEN "RST" ELSE @]
             /\ sem' = IF wakes THEN sem + 1 ELSE sem
     ELSE UNCHANGED <<conn, sock, call, sem>>
  /\ UNCHANGED finNext

(* recv_tcp: data are posted, or refused when the mailbox is full.         *)
recv_data ==
  IF Reaches(pcb.recv) /\ conn.rvalid
  THEN IF Room(conn.rmbox)
       THEN /\ conn' = SafeErr([conn EXCEPT !.rmbox = Append(@, "data")], "OK")
            /\ sock' = RcvPlus(sock)
            /\ pcb' = [pcb EXCEPT !.refused = FALSE]
       ELSE /\ pcb' = [pcb EXCEPT !.refused = TRUE]
            /\ conn' = SafeErr(conn, "OK")
            /\ UNCHANGED sock
  ELSE /\ pcb' = [pcb EXCEPT !.refused = FALSE]
       /\ UNCHANGED <<conn, sock>>

(* A segment with data, and the FIN with it or not; tcp_input offers what  *)
(* was refused before it looks at the segment.                             *)
SegmentData(fin) ==
  /\ pcb.st = "est" /\ ~pcb.fin /\ ~pcb.rxclosed /\ ~pcb.refused /\ ~finNext
  /\ recv_data
  /\ finNext' = fin
  /\ UNCHANGED <<call, sem>>

SegmentFin ==
  /\ pcb.st = "est" /\ ~pcb.fin /\ ~pcb.refused /\ ~finNext
  /\ finNext' = TRUE
  /\ UNCHANGED <<conn, pcb, call, sem, sock>>

(* tcp_fasttmr, or tcp_input, offers the refused data again. *)
Refused ==
  /\ pcb.refused /\ ~finNext
  /\ recv_data
  /\ UNCHANGED <<call, sem, finNext>>

(* recv_tcp with a NULL pbuf; tcp_input does not look at its ERR_MEM.      *)
recv_fin ==
  /\ finNext
  /\ finNext' = FALSE
  /\ pcb' = [pcb EXCEPT !.fin = TRUE]
  /\ IF Reaches(pcb.recv) /\ conn.rvalid /\ Room(conn.rmbox)
     THEN /\ conn' = SafeErr([conn EXCEPT !.rmbox = Append(@, "eof")], "OK")
          /\ sock' = RcvPlus(sock)
     ELSE UNCHANGED <<conn, sock>>
  /\ UNCHANGED <<call, sem>>

accept_function ==
  /\ pcb.st = "listen" /\ pcb.arg /\ conn.avalid
  /\ Room(conn.ambox)
  /\ conn' = [conn EXCEPT !.ambox = Append(@, "new")]
  /\ sock' = RcvPlus(sock)
  /\ UNCHANGED <<pcb, call, sem, finNext>>

Next ==
  \/ netconn_connect \/ netconn_listen \/ netconn_write \/ netconn_getaddr
  \/ netconn_close_shutdown \/ netconn_delete \/ set_nonblocking
  \/ netconn_recv \/ Fetched \/ netconn_accept \/ Accepted \/ Return
  \/ tcpip_thread
  \/ sent_tcp \/ poll_tcp \/ do_connected \/ err_tcp
  \/ SegmentData(TRUE) \/ SegmentData(FALSE) \/ SegmentFin \/ Refused \/ recv_fin
  \/ accept_function

-----------------------------------------------------------------------------
(* tcpip_thread serves its mailbox and the TCP timers run; a poll in time  *)
(* finds the memory that a FIN or more data need, and the peer             *)
(* acknowledges what it is sent, or the connection breaks.                 *)
Fairness ==
  /\ WF_netconnVars(tcpip_thread)
  /\ WF_netconnVars(Return)
  /\ WF_netconnVars(recv_fin)
  /\ WF_netconnVars(Refused)
  /\ WF_netconnVars(Fetched)
  /\ WF_netconnVars(do_connected \/ (pcb.st = "synsent" /\ err_tcp))
  /\ SF_netconnVars(poll_tcp /\ (sem' > sem \/ pcb'.used > pcb.used))
  /\ SF_netconnVars(sent_tcp /\ pcb'.used = 0)

Spec == Init /\ [][Next]_netconnVars /\ Fairness

TypeOK ==
  /\ conn.state \in {"NONE", "WRITE", "LISTEN", "CONNECT", "CLOSE"}
  /\ conn.lerr \in Fatal \cup Soft
  /\ conn.woff \in 0..SndBuf * 4
  /\ pcb.st \in {"none", "closed", "listen", "synsent", "est"}
  /\ pcb.used \in 0..SndBuf
  /\ call.at \in {"idle", "queued", "wait", "fetch"}

(* The thread in tcpip_apimsg is woken exactly once: its message is in the *)
(* mailbox, or it is the current_msg of an operation that tcpip_thread has *)
(* still to finish, or the semaphore is signalled; and what has to finish  *)
(* it is set on the pcb, whatever failed before.                           *)
WokenOnce ==
  LET waits == {x \in {1, 2} : \/ x = 1 /\ conn.cur
                               \/ x = 2 /\ sem = 1}
  IN /\ sem \in {0, 1}
     /\ call.at = "wait" <=> waits # {}
     /\ ~(conn.cur /\ sem = 1)
     /\ conn.cur <=> \/ conn.state \in {"WRITE", "CLOSE"}
                     \/ conn.state = "CONNECT" /\ ~conn.inconn
     /\ conn.cur => /\ conn.pcb /\ pcb.arg /\ pcb.errf
                    /\ conn.state # "CONNECT" => pcb.poll

(* A netconn that select reports as not writable while connected is going  *)
(* to be reported writable: an acknowledgement is due to a callback that   *)
(* is set, or the poll has been asked to look.                             *)
SendEventDue ==
  (pcb.st = "est" /\ conn.pcb /\ ~sock.send /\ conn.state = "NONE")
     => pcb.arg /\ ((pcb.used > 0 /\ pcb.sent) \/ (conn.checkws /\ pcb.poll))

(* A non-blocking recv or accept that the socket layer lets through does   *)
(* not block: rcvevent counts what the mailbox holds, unless a fatal error *)
(* or the end of the mailbox turns the call back first.                    *)
NeverBlocks ==
  (call.at = "idle" /\ conn.lerr \notin Fatal /\ sock.rcv > 0)
     => /\ conn.rvalid => conn.rmbox # <<>>
        /\ conn.avalid => conn.ambox # <<>>

(* Once freed, no callback of the TCP layer is left that would use the     *)
(* netconn, except after a half shutdown, which forgets the pcb.           *)
NoDangling == (conn.freed /\ pcb.st # "none") => (~pcb.arg \/ conn.halved)

NetconnSound == WokenOnce /\ SendEventDue /\ NeverBlocks /\ NoDangling

(* A call other than recv and accept comes back, whatever happens to the   *)
(* connection and whenever memory is short.                                *)
CallsReturn == []<>(call.at \notin {"queued", "wait"})
=============================================================================
