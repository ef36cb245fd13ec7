------------------------------ MODULE Sockets ------------------------------
(***************************************************************************)
(* The descriptor table of the socket API and the calls that set up a      *)
(* socket, change its options and close it (api/sockets.c).  A thread      *)
(* hands an option to the tcpip thread and waits on the semaphore of the   *)
(* connection; receiving and select are in SockRecv and Select.            *)
(*                                                                         *)
(* What a netconn call answers follows from the control block and from the *)
(* errors before it, or is a failure from outside (Netconn models how that *)
(* comes about).  An error is "temporary" or "fatal" (ERR_IS_FATAL), which *)
(* a connection does not forget.  LWIP_UDPLITE, SO_REUSE,                  *)
(* LWIP_SO_RCVTIMEO and LWIP_SO_RCVBUF are 0; joining a group is the call  *)
(* Igmp models.                                                            *)
(***************************************************************************)
EXTENDS Integers, Sequences, SequencesExt, FiniteSets

CONSTANTS
  Threads,
  NumSockets,   \* NUM_SOCKETS
  Types,        \* the kinds of sockets: "TCP", "UDP", "RAW"
  Options,      \* the options the threads use
  Values,       \* the values they set
  Lens,         \* the sizes of the variables they pass
  Calls,        \* the calls they make besides: "bind", "connect", ...
  Failures,     \* the errors that memory and the network may cause
  Sizes,        \* the sizes they send, in units of SndBuf
  SndBuf,       \* TCP_SND_BUF
  MaxConns      \* bound: connections created

Descriptors == 0 .. NumSockets - 1

\* Level, smallest variable, the field of the control block, whether it can be set: one
\* option of each kind, and the two pairs that share a field.
Table ==
  [SO_ACCEPTCONN    |-> [level |-> "SOL_SOCKET",  size |-> 4, field |-> "acceptconn", set |-> FALSE],
   SO_KEEPALIVE     |-> [level |-> "SOL_SOCKET",  size |-> 4, field |-> "keepalive",  set |-> TRUE],
   SO_TYPE          |-> [level |-> "SOL_SOCKET",  size |-> 4, field |-> "type",       set |-> FALSE],
   SO_ERROR         |-> [level |-> "SOL_SOCKET",  size |-> 4, field |-> "error",      set |-> FALSE],
   SO_NO_CHECK      |-> [level |-> "SOL_SOCKET",  size |-> 4, field |-> "nochksum",   set |-> TRUE],
   IP_TTL           |-> [level |-> "IPPROTO_IP",  size |-> 4, field |-> "ttl",        set |-> TRUE],
   IP_MULTICAST_TTL |-> [level |-> "IPPROTO_IP",  size |-> 1, field |-> "ttl",        set |-> TRUE],
   IP_MULTICAST_IF  |-> [level |-> "IPPROTO_IP",  size |-> 4, field |-> "multicast_ip", set |-> TRUE],
   TCP_KEEPALIVE    |-> [level |-> "IPPROTO_TCP", size |-> 4, field |-> "keep_idle",  set |-> TRUE],
   TCP_KEEPIDLE     |-> [level |-> "IPPROTO_TCP", size |-> 4, field |-> "keep_idle",  set |-> TRUE]]

SocketsAssumption ==
  /\ NumSockets \in Nat \ {0} /\ MaxConns \in Nat /\ SndBuf \in Nat \ {0}
  /\ Types \subseteq {"TCP", "UDP", "RAW"}
  /\ Options \subseteq DOMAIN Table
  /\ Failures \subseteq {"ERR_INPROGRESS", "temporary", "fatal"}
  /\ Values \subseteq Nat /\ Lens \subseteq Nat /\ Sizes \subseteq Nat

Fields == {Table[o].field : o \in Options} \ {"type", "error"}
Flags == {"acceptconn", "keepalive", "nochksum"}

VARIABLES
  sockets,    \* [conn, err] of each descriptor; conn is 0 when it is free
  conns,      \* the netconns: [live, type, socket, pcb, nonblocking, last_err, sem, opt]
  threads,    \* [pc, call]: what each thread is doing
  mbox,       \* the threads whose option waits for the tcpip thread
  seen,       \* the option call that has just returned, << >> or one
  wrote,      \* history: the option and value last stored in each field of each netconn
  shared      \* history: two threads used one socket at the same time

socketsVars == <<sockets, conns, threads, mbox, seen, wrote, shared>>

Idle == [pc |-> "idle"]

Init ==
  /\ sockets = [s \in Descriptors |-> [conn |-> 0, err |-> "0"]]
  /\ conns = <<>>
  /\ threads = [t \in Threads |-> Idle]
  /\ mbox = <<>>
  /\ seen = <<>>
  /\ wrote = <<>>
  /\ shared = FALSE

-----------------------------------------------------------------------------
\* get_socket: a descriptor that is in use, by a thread that is in no other call.
Uses(t, s) == threads[t] = Idle /\ sockets[s].conn # 0

\* Another thread is between two steps of a call on the same socket.
Busy(t, s) == \E u \in Threads \ {t} : threads[u] # Idle /\ threads[u].call.s = s

Marked(t, s) == shared' = (shared \/ Busy(t, s))

\* SO_ERROR tells EINPROGRESS from the others.
err_to_errno(err) ==
  CASE err = "ERR_OK" -> "0" [] err = "ERR_INPROGRESS" -> "EINPROGRESS" [] OTHER -> "error"

\* pcb.tcp is NULL: after err_tcp, after a shutdown of both directions or of one, or when
\* do_listen found no room for the acceptmbox.
Null(c) == conns[c].pcb \in {"reset", "shut", "half", "nombox"}

NewConn(type) ==
  [live |-> TRUE, type |-> type, socket |-> -1, pcb |-> "own", nonblocking |-> FALSE,
   last_err |-> "ERR_OK", sem |-> 0, opt |-> [f \in Fields |-> 0]]

Free == {s \in Descriptors : sockets[s].conn = 0}

\* The lowest free descriptor is taken under the lock; the netconn gets its number later.
lwip_socket(t, type, mem) ==
  /\ threads[t] = Idle /\ Len(conns) < MaxConns
  /\ \/ /\ ~mem
        /\ UNCHANGED <<sockets, conns, threads, wrote>>
     \/ /\ mem /\ Free = {}
        /\ conns' = Append(conns, [NewConn(type) EXCEPT !.live = FALSE])
        /\ wrote' = Append(wrote, [f \in Fields |-> <<>>])
        /\ UNCHANGED <<sockets, threads>>
     \/ /\ mem /\ Free # {}
        /\ LET s == CHOOSE i \in Free : \A j \in Free : i <= j
           IN  /\ sockets' = [sockets EXCEPT ![s] = [conn |-> Len(conns) + 1, err |-> "0"]]
               /\ threads' = [threads EXCEPT ![t] = [pc |-> "made", call |-> [s |-> s]]]
        /\ conns' = Append(conns, NewConn(type))
        /\ wrote' = Append(wrote, [f \in Fields |-> <<>>])
  /\ seen' = <<>>
  /\ UNCHANGED <<mbox, shared>>

\* conn->socket = i.
Numbered(t) ==
  /\ threads[t].pc = "made"
  /\ LET s == threads[t].call.s
     IN  conns' = [conns EXCEPT ![sockets[s].conn].socket = s]
  /\ threads' = [threads EXCEPT ![t] = Idle]
  /\ seen' = <<>>
  /\ UNCHANGED <<sockets, mbox, wrote, shared>>

\* netconn_delete; the descriptor is given back in a second step.
lwip_close(t, s) ==
  /\ Uses(t, s)
  /\ Marked(t, s)
  /\ conns' = [conns EXCEPT ![sockets[s].conn].live = FALSE]
  /\ threads' = [threads EXCEPT ![t] = [pc |-> "closing", call |-> [s |-> s]]]
  /\ seen' = <<>>
  /\ UNCHANGED <<sockets, mbox, wrote>>

free_socket(t) ==
  /\ threads[t].pc = "closing"
  /\ sockets' = [sockets EXCEPT ![threads[t].call.s] = [conn |-> 0, err |-> "0"]]
  /\ threads' = [threads EXCEPT ![t] = Idle]
  /\ seen' = <<>>
  /\ UNCHANGED <<conns, mbox, wrote, shared>>

-----------------------------------------------------------------------------
(* The calls that ask the netconn and report its answer. *)

Errno(t, s, errno) ==
  /\ Uses(t, s)
  /\ Marked(t, s)
  /\ sockets' = [sockets EXCEPT ![s].err = errno]
  /\ seen' = <<>>
  /\ UNCHANGED <<threads, mbox, wrote>>

\* An argument is refused before the netconn is asked.
Refused(t, s) == Errno(t, s, "error") /\ UNCHANGED conns

\* The netconn has answered err and is left as conn: sock_set_errno, NETCONN_SET_SAFE_ERR.
Answer(t, s, err, conn) ==
  /\ Errno(t, s, err_to_errno(err))
  /\ conns' = [conns EXCEPT ![sockets[s].conn] =
                 [conn EXCEPT !.last_err = IF @ = "fatal" THEN @ ELSE err]]

Says(t, s, errs) == \E err \in errs : Answer(t, s, err, conns[sockets[s].conn])

\* do_bind, do_listen, do_send and do_write give a fatal error again.
Again(c, errs) == IF conns[c].last_err = "fatal" THEN {"fatal"} ELSE errs

Listens(c) == conns[c].pcb = "listen"
Stream(c) == conns[c].type = "TCP"

lwip_bind(t, s) ==
  LET c == sockets[s].conn
  IN  \/ Refused(t, s)
      \/ /\ Uses(t, s)
         /\ Says(t, s, Again(c, CASE Null(c) -> {"temporary"}
                                  [] Listens(c) -> {"fatal"}
                                  [] OTHER -> {"ERR_OK"} \cup (Failures \cap {"fatal"})))

\* A second connect finds no control block; a reset may come while it waits.
lwip_connect(t, s) ==
  LET c == sockets[s].conn
  IN  \/ Refused(t, s)
      \/ /\ Uses(t, s)
         /\ \/ Says(t, s, CASE Null(c) \/ Listens(c) -> {"fatal"}
                            [] ~Stream(c) -> {"ERR_OK"}
                            [] OTHER -> {"ERR_OK"} \cup Failures)
            \/ /\ Stream(c) /\ ~Null(c) /\ ~Listens(c) /\ "fatal" \in Failures
               /\ Answer(t, s, "fatal", [conns[c] EXCEPT !.pcb = "reset", !.last_err = "fatal"])

\* A listening control block is a smaller one, and has SOF_ACCEPTCONN set.
lwip_listen(t, s) ==
  LET c == sockets[s].conn
      able == Stream(c) /\ ~Null(c) /\ ~Listens(c) /\ conns[c].last_err # "fatal"
  IN  /\ Uses(t, s)
      /\ \/ ~able /\ Says(t, s, {"fatal"})
         \/ /\ able
            /\ Answer(t, s, "ERR_OK",
                 [conns[c] EXCEPT !.pcb = "listen",
                    !.opt = [f \in DOMAIN @ |-> IF f = "acceptconn" THEN 1 ELSE @[f]]])
         \/ /\ able /\ "temporary" \in Failures
            /\ \E pcb \in {"own", "nombox"} : Answer(t, s, "temporary", [conns[c] EXCEPT !.pcb = pcb])

\* lwip_sendto of a datagram.
lwip_sendto(t, s) ==
  /\ Uses(t, s) /\ ~Stream(sockets[s].conn)
  /\ \/ Refused(t, s)
     \/ Says(t, s, Again(sockets[s].conn, {"ERR_OK"} \cup (Failures \cap {"temporary"})))

\* A stream that does not wait must fit into its send buffer.
lwip_send(t, s, size, dontwait) ==
  LET c == sockets[s].conn
      large == (dontwait \/ conns[c].nonblocking) /\ size > SndBuf
  IN  \/ lwip_sendto(t, s)
      \/ /\ Uses(t, s) /\ Stream(c)
         /\ \/ large /\ Refused(t, s)
            \/ /\ ~large
               /\ Says(t, s, Again(c, CASE Listens(c) -> {"ERR_INPROGRESS"}
                                        [] Null(c) -> {"fatal"}
                                        [] OTHER -> {"ERR_OK"} \cup Failures))

\* The whole of netconn_shutdown: do_close_internal forgets the control block, also when
\* only one direction is shut down.
lwip_shutdown(t, s, how) ==
  LET c == sockets[s].conn
  IN  /\ Uses(t, s)
      /\ \/ (~Stream(c) \/ how = "invalid") /\ Refused(t, s)
         \/ /\ Stream(c) /\ how # "invalid"
            /\ \/ Null(c) /\ Says(t, s, {"temporary"})
               \/ Listens(c) /\ how # "RDWR" /\ Says(t, s, {"fatal"})
               \/ conns[c].pcb = "own" /\ Says(t, s, Failures \cap {"ERR_INPROGRESS"})
               \/ /\ conns[c].pcb = "own" \/ (Listens(c) /\ how = "RDWR")
                  /\ Answer(t, s, "ERR_OK", [conns[c] EXCEPT !.pcb = IF how = "RDWR" THEN "shut" ELSE "half"])

\* lwip_getpeername and lwip_getsockname ignore what netconn_getaddr answers, which the
\* connection keeps: a datagram socket may have no peer.
lwip_getaddrname(t, s) ==
  LET c == sockets[s].conn
  IN  /\ Errno(t, s, "0")
      /\ \E err \in IF Null(c) THEN {"fatal"}
                    ELSE IF Stream(c) THEN {"ERR_OK"} ELSE {"ERR_OK", "fatal"} :
           conns' = [conns EXCEPT ![c].last_err = IF @ = "fatal" THEN @ ELSE err]

\* FIONBIO, and F_SETFL with O_NONBLOCK alone.
lwip_ioctl(t, s, on) ==
  /\ Errno(t, s, "0")
  /\ conns' = [conns EXCEPT ![sockets[s].conn].nonblocking = on]

\* err_tcp: the peer or the stack has ended the connection, and its control block is gone.
\* The callback is left in place by a shutdown of one direction.
Reset(c) ==
  /\ conns[c].live /\ Stream(c) /\ conns[c].pcb \in {"own", "half"}
  /\ conns' = [conns EXCEPT ![c].pcb = "reset", ![c].last_err = "fatal"]
  /\ seen' = <<>>
  /\ UNCHANGED <<sockets, threads, mbox, wrote, shared>>

-----------------------------------------------------------------------------
(* The options. *)

\* The checks made in the calling thread; a level that is not that of the socket's
\* protocol is passed over in silence.
GetCheck(o, len, type) ==
  CASE o = "SO_NO_CHECK" /\ type # "UDP" -> "error"
    [] len < Table[o].size -> "error"
    [] Table[o].level = "IPPROTO_TCP" /\ type # "TCP" -> "ignored"
    [] OTHER -> "0"

SetCheck(o, len, type) ==
  CASE ~Table[o].set -> "error"
    [] o \in {"IP_MULTICAST_TTL", "IP_MULTICAST_IF"} /\ type # "UDP" -> "error"
    [] OTHER -> GetCheck(o, len, type)

Call(t, s, check, call) ==
  /\ Uses(t, s)
  /\ Marked(t, s)
  /\ \/ /\ check = "0"
        /\ threads' = [threads EXCEPT ![t] = [pc |-> "waits", call |-> call]]
        /\ mbox' = Append(mbox, t)
        /\ UNCHANGED sockets
     \/ /\ check = "ignored"
        /\ UNCHANGED <<sockets, threads, mbox>>
     \/ /\ check \notin {"0", "ignored"}
        /\ sockets' = [sockets EXCEPT ![s].err = check]
        /\ UNCHANGED <<threads, mbox>>
  /\ seen' = <<>>
  /\ UNCHANGED <<conns, wrote>>

lwip_getsockopt(t, s, o, len) ==
  /\ Uses(t, s)
  /\ Call(t, s, GetCheck(o, len, conns[sockets[s].conn].type),
          [s |-> s, c |-> sockets[s].conn, o |-> o, get |-> TRUE, value |-> "unset", done |-> FALSE, stray |-> ""])

lwip_setsockopt(t, s, o, v, len) ==
  /\ Uses(t, s)
  /\ Call(t, s, SetCheck(o, len, conns[sockets[s].conn].type),
          [s |-> s, c |-> sockets[s].conn, o |-> o, get |-> FALSE, value |-> v, done |-> FALSE, stray |-> ""])

\* What a field holds for a value, and the value it stands for.
Stored(o, v) ==
  CASE Table[o].field \in Flags -> IF v # 0 THEN 1 ELSE 0
    [] Table[o].field = "ttl" -> v % 256
    [] o = "TCP_KEEPIDLE" -> 1000 * v
    [] OTHER -> v

Read(o, x) == IF o = "TCP_KEEPIDLE" THEN x \div 1000 ELSE x

\* The control block an option is read from or written to is not the one it means.
Stray(c, o) ==
  LET pcb == conns[c].pcb
  IN  CASE ~conns[c].live -> "freed"
        [] o \in {"SO_TYPE", "SO_ERROR"} -> ""
        [] Null(c) -> pcb
        [] pcb = "listen" /\ Table[o].level = "IPPROTO_TCP" -> "listen"
        [] o = "IP_MULTICAST_IF" /\ conns[c].type # "UDP" -> "type"
        [] OTHER -> ""

\* SO_ERROR gives the error of the socket, or that of the connection, and clears it.
Pending(s, c) ==
  IF sockets[s].err \in {"0", "EINPROGRESS"} THEN err_to_errno(conns[c].last_err)
  ELSE sockets[s].err

Got(s, c, o) ==
  CASE o = "SO_TYPE"  -> conns[c].type
    [] o = "SO_ERROR" -> Pending(s, c)
    [] OTHER -> Read(o, conns[c].opt[Table[o].field])

\* lwip_getsockopt_internal and lwip_setsockopt_internal in the tcpip thread.
Internal ==
  LET t == Head(mbox)
      q == threads[t].call
      bad == Stray(q.c, q.o)
      Reply(v) == threads' = [threads EXCEPT ![t].call.value = v, ![t].call.done = TRUE]
      Signalled(cs) == [cs EXCEPT ![q.c].sem = @ + 1]
  IN  /\ mbox # <<>>
      /\ mbox' = Tail(mbox)
      /\ seen' = <<>>
      /\ IF bad # ""
         THEN /\ threads' = [threads EXCEPT ![t].call.stray = bad]
              /\ conns' = Signalled(conns)
              /\ UNCHANGED <<sockets, wrote>>
         ELSE IF q.get
         THEN /\ Reply(Got(q.s, q.c, q.o))
              /\ conns' = Signalled(conns)
              /\ sockets' = IF q.o = "SO_ERROR" THEN [sockets EXCEPT ![q.s].err = "0"] ELSE sockets
              /\ UNCHANGED wrote
         ELSE /\ Reply(q.value)
              /\ conns' = Signalled([conns EXCEPT ![q.c].opt[Table[q.o].field] = Stored(q.o, q.value)])
              /\ wrote' = [wrote EXCEPT ![q.c][Table[q.o].field] = <<q.o, q.value>>]
              /\ UNCHANGED sockets
      /\ UNCHANGED shared

\* The semaphore of the connection wakes any thread that waits on it.
Woken(t) ==
  LET q == threads[t].call
  IN  /\ threads[t].pc = "waits" /\ conns[q.c].sem > 0
      /\ conns' = [conns EXCEPT ![q.c].sem = @ - 1]
      /\ sockets' = [sockets EXCEPT ![q.s].err = "0"]
      /\ threads' = [threads EXCEPT ![t] = Idle]
      /\ seen' = <<q>>
      /\ UNCHANGED <<mbox, wrote, shared>>

SetUp(t, s) ==
  \/ "bind" \in Calls /\ lwip_bind(t, s)
  \/ "connect" \in Calls /\ lwip_connect(t, s)
  \/ "listen" \in Calls /\ lwip_listen(t, s)
  \/ "shutdown" \in Calls /\ \E how \in {"RD", "WR", "RDWR", "invalid"} : lwip_shutdown(t, s, how)
  \/ "send" \in Calls /\ \E n \in Sizes, b \in BOOLEAN : lwip_send(t, s, n, b)
  \/ "getaddrname" \in Calls /\ lwip_getaddrname(t, s)
  \/ "ioctl" \in Calls /\ \E b \in BOOLEAN : lwip_ioctl(t, s, b)

\* Two threads in one socket are undefined behaviour, and end the behaviour here.
Next ==
  /\ ~shared
  /\ \/ \E t \in Threads :
          \/ \E type \in Types, mem \in BOOLEAN : lwip_socket(t, type, mem)
          \/ Numbered(t)
          \/ free_socket(t)
          \/ Woken(t)
          \/ \E s \in Descriptors :
               \/ lwip_close(t, s)
               \/ SetUp(t, s)
               \/ \E o \in Options, n \in Lens :
                    \/ lwip_getsockopt(t, s, o, n)
                    \/ \E v \in Values : lwip_setsockopt(t, s, o, v, n)
     \/ \E c \in DOMAIN conns : Reset(c)
     \/ Internal

Spec == Init /\ [][Next]_socketsVars

-----------------------------------------------------------------------------
\* What an option that was set to v is read back as.
ReadsBack(o, v) ==
  CASE Table[o].field \in Flags -> IF v = 0 THEN 0 ELSE 1
    [] Table[o].field = "ttl" -> v % 256
    [] OTHER -> v

\* As long as no two threads use one socket at the same time: every descriptor in use has
\* a live netconn of its own, which knows its number (alloc_socket, free_socket), no
\* netconn outlives its descriptor, a thread returns from an option call only when its own
\* option was handled and then sees what was last set by that name (lwip_getsockopt,
\* lwip_setsockopt), and an option is applied to the control block it means.  The
\* exceptions, where the code looks at no pointer or type: a stream without a control block
\* (it was reset, shut down in any direction, or failed to listen), an option of TCP on a
\* stream that listens, and IP_MULTICAST_IF read of a socket that is not UDP's.
SocketsSound ==
  ~shared =>
    /\ \A s \in Descriptors : sockets[s].conn # 0 =>
         \/ conns[sockets[s].conn].live /\ conns[sockets[s].conn].socket = s
         \/ \E t \in Threads : threads[t] # Idle /\ threads[t].call.s = s
    /\ \A c \in DOMAIN conns : conns[c].live => \E s \in Descriptors : sockets[s].conn = c
    /\ \A s, r \in Descriptors : sockets[s].conn # 0 /\ sockets[s].conn = sockets[r].conn => s = r
    /\ \A i \in DOMAIN seen :
         LET q == seen[i]
             type == conns[q.c].type
             w == IF Table[q.o].field \in Fields THEN wrote[q.c][Table[q.o].field] ELSE <<>>
         IN  /\ q.done /\ q.get /\ w # <<>> /\ w[1] = q.o => q.value = ReadsBack(q.o, w[2])
             /\ \/ q.done
                \/ type = "TCP" /\ q.stray \in {"reset", "shut", "half", "nombox"}
                \/ type = "TCP" /\ q.stray = "listen" /\ Table[q.o].level = "IPPROTO_TCP"
                \/ type # "UDP" /\ q.stray = "type" /\ q.o = "IP_MULTICAST_IF" /\ q.get
=============================================================================
