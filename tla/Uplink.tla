------------------------------- MODULE Uplink -------------------------------
(***************************************************************************)
(* The uplink byte path of app/user/user_tcp_client.c: the UART receive    *)
(* interrupt puts each frame into the ring tcp_rb_send                     *)
(* (user_tcp_send_pipe), and the 100 ms loop of the main task takes the    *)
(* bytes out again and hands them to the Xlink SDK (user_tcp_send_loop).   *)
(*                                                                         *)
(* The interrupt runs to completion but may come between any two steps of  *)
(* the task: nothing takes the ring's lock.  user_tcp_client_init gives    *)
(* the ring tcp_send_buffer as its storage, and send_loop uses the same    *)
(* array as the destination of the get, so address 0 of ram is both.       *)
(*                                                                         *)
(* Two behaviours the C standard leaves open are choices here: whether     *)
(* the build stores p_rb->tail once or twice around the wrap (lines        *)
(* 132-136), and where inside a memcpy the interrupt comes.  memcpy copies *)
(* upwards, as the one in the ROM does.                                    *)
(***************************************************************************)
EXTENDS RingOps, TLAPS

VARIABLES
  ram, rb_head, rb_tail,    \* the ring; ram[0 .. Size-1] is tcp_send_buffer
  isConnectServer,
  pc,                 \* where the task stands in user_tcp_send_loop
  len,                \* send_loop's len: the unread size it started from
  sz,                 \* user_rb_get's sz: the bytes it consumes
  run,                \* the memcpy in progress: next, src, dst and end offset
  sent                \* the last message given to XlinkSendTcpPipe2

ring == <<ram, rb_head, rb_tail>>
task == <<pc, len, sz, run, sent>>

(* History, used by the properties only. *)
VARIABLES
  q,        \* the bytes the ring holds for its callers, oldest first
  raced,    \* a frame came in while send_loop ran, and the ring has not been
            \* found empty between two calls since
  filled,   \* a frame filled the ring to its last byte during this call of
            \* send_loop
  dirty,    \* like raced, for frames that filled the ring or met the
            \* unwrapped tail: q is given up until the ring is found empty
  torn,     \* a frame has come in between the two stores of tail
  due,      \* the bytes the drain in progress should hand over
  edge      \* the distance from tail to the end of the storage at that time

ghost == <<q, raced, filled, dirty, torn, due, edge>>

uplinkVars == <<ram, rb_head, rb_tail, isConnectServer, pc, len, sz, run, sent,
          q, raced, filled, dirty, torn, due, edge>>

NoRun == [i |-> 0, from |-> 0, to |-> 0, n |-> 0]

UplinkInit ==
  /\ ram = [a \in Addr |-> 0]
  /\ rb_head = 0 /\ rb_tail = 0
  /\ isConnectServer = FALSE
  /\ pc = "idle" /\ len = 0 /\ sz = 0 /\ run = NoRun /\ sent = <<>>
  /\ q = <<>> /\ raced = FALSE /\ filled = FALSE /\ dirty = FALSE
  /\ torn = FALSE /\ due = <<>> /\ edge = 0

-----------------------------------------------------------------------------
(* The interrupt *)

\* user_tcp_send_pipe, from modbus_receive in the UART interrupt: put the
\* frame if the server is connected; the result of the put is dropped.
user_tcp_send_pipe(src) ==
  LET n     == PutSize(rb_head, rb_tail, Len(src))
      fills == n > 0 /\ Wrap(rb_head + n) = rb_tail
      busy  == pc # "idle"
      fresh == ~ busy /\ rb_head = rb_tail
  IN  /\ isConnectServer
      /\ ram' = PutMemory(ram, rb_head, rb_tail, src)
      /\ rb_head' = Wrap(rb_head + n)
      /\ raced' = (busy \/ (raced /\ ~ fresh))
      /\ filled' = (filled \/ (busy /\ fills))
      /\ dirty' = ((busy /\ fills) \/ pc = "wrap" \/ (dirty /\ ~ fresh))
      /\ torn' = (torn \/ pc = "wrap")
      /\ q' = IF dirty' \/ fills THEN <<>> ELSE q \o SubSeq(src, 1, n)
      /\ UNCHANGED <<rb_tail, isConnectServer, due, edge>>
      /\ UNCHANGED task

-----------------------------------------------------------------------------
(* The task *)

\* The callbacks that set the flag run in the task, never inside send_loop.
SetConnectServer(b) ==
  /\ pc = "idle"
  /\ isConnectServer' = b
  /\ UNCHANGED ring /\ UNCHANGED task /\ UNCHANGED ghost

user_tcp_send_loopThreshold ==
  /\ pc = "idle"
  /\ isConnectServer
  /\ user_rb_unread_size(rb_head, rb_tail) > 1
  /\ len' = user_rb_unread_size(rb_head, rb_tail)
  /\ pc' = "get"
  /\ due' = q /\ edge' = Size - rb_tail /\ filled' = FALSE
  /\ UNCHANGED <<sz, run, sent, isConnectServer, q, raced, dirty, torn>>
  /\ UNCHANGED ring

\* user_tcp_send_loop up to its call of user_rb_get.
user_tcp_send_loop ==
  /\ pc = "idle"
  /\ isConnectServer
  /\ user_rb_unread_size(rb_head, rb_tail) # 0
  /\ len' = user_rb_unread_size(rb_head, rb_tail)
  /\ pc' = "get"
  /\ due' = q
  /\ edge' = Size - rb_tail
  /\ filled' = FALSE
  /\ UNCHANGED <<sz, run, sent, isConnectServer, q, raced, dirty, torn>>
  /\ UNCHANGED ring

GetBeginAtZero ==
  /\ pc = "get"
  /\ sz' = GetSize(rb_head, rb_tail, len)
  /\ run' = [i |-> 0, from |-> 0, to |-> 0, n |-> FirstRun(rb_head, rb_tail, sz')]
  /\ pc' = "copy"
  /\ UNCHANGED <<len, sent, isConnectServer>>
  /\ UNCHANGED ring /\ UNCHANGED ghost

\* user_rb_get: head and tail are read, sz is fixed and the first copy starts.
\* (Each function reads head once: there is no store or call between its uses
\* of it, and the build optimises.)
GetBegin ==
  /\ pc = "get"
  /\ sz' = GetSize(rb_head, rb_tail, len)
  /\ run' = [i |-> 0, from |-> rb_tail, to |-> 0,
             n |-> FirstRun(rb_head, rb_tail, sz')]
  /\ pc' = "copy"
  /\ UNCHANGED <<len, sent, isConnectServer>>
  /\ UNCHANGED ring /\ UNCHANGED ghost

\* One byte of a memcpy inside tcp_send_buffer.
GetCopy ==
  /\ pc = "copy"
  /\ run.i < run.n
  /\ ram' = [ram EXCEPT ![run.to + run.i] = ram[run.from + run.i]]
  /\ run' = [run EXCEPT !.i = @ + 1]
  /\ UNCHANGED <<rb_head, rb_tail, isConnectServer, pc, len, sz, sent>>
  /\ UNCHANGED ghost

\* The second memcpy, from the start of the storage.
GetSecond ==
  /\ pc = "copy"
  /\ run.i = run.n
  /\ run.to + run.n < sz
  /\ run' = [i |-> 0, from |-> 0, to |-> run.n, n |-> sz - run.n]
  /\ UNCHANGED <<isConnectServer, pc, len, sz, sent>>
  /\ UNCHANGED ring /\ UNCHANGED ghost

\* p_rb->tail += sz; if( p_rb->tail >= p_rb->size ) p_rb->tail -= p_rb->size;
\* in one store, or in two with the unwrapped value visible in between.
GetAdvance ==
  /\ pc = "copy"
  /\ run.i = run.n
  /\ run.to + run.n = sz
  /\ \/ /\ rb_tail' = Wrap(rb_tail + sz)
        /\ pc' = "send"
     \/ /\ rb_tail + sz >= Size
        /\ rb_tail' = rb_tail + sz
        /\ pc' = "wrap"
  /\ q' = SubSeq(q, sz + 1, Len(q))
  /\ UNCHANGED <<ram, rb_head, isConnectServer, len, sz, run, sent, raced,
                 filled, dirty, torn, due, edge>>

GetWrap ==
  /\ pc = "wrap"
  /\ rb_tail' = rb_tail - Size
  /\ pc' = "send"
  /\ UNCHANGED <<ram, rb_head, isConnectServer, len, sz, run, sent>>
  /\ UNCHANGED ghost

\* XlinkSendTcpPipe2( tcp_send_buffer, len ): len, not what get returned.
SendPipe2 ==
  /\ pc = "send"
  /\ sent' = Load(ram, 0, len)
  /\ pc' = "idle"
  /\ UNCHANGED <<isConnectServer, len, sz, run>>
  /\ UNCHANGED ring /\ UNCHANGED ghost

send_loop ==
  \/ user_tcp_send_loop
  \/ GetBegin
  \/ GetCopy
  \/ GetSecond
  \/ GetAdvance
  \/ GetWrap
  \/ SendPipe2

UplinkNext ==
  \/ \E src \in Strings \ {<<>>} : user_tcp_send_pipe(src)
  \/ \E b \in BOOLEAN : SetConnectServer(b)
  \/ send_loop

\* The 100 ms timer keeps calling send_loop and the call runs to its end.
UplinkFairness == WF_uplinkVars(send_loop)

UplinkSpec == UplinkInit /\ [][UplinkNext]_uplinkVars /\ UplinkFairness

-----------------------------------------------------------------------------
(* Properties *)

Positions == {"idle", "get", "copy", "wrap", "send"}

\* The ring's indices; tail leaves the storage only between its two stores.
UplinkType ==
  /\ ram \in Memory
  /\ rb_head \in Storage
  /\ rb_tail \in Nat
  /\ pc = "wrap" => rb_tail \in Size .. 2 * Size - 1
  /\ pc # "wrap" => rb_tail \in Storage
  /\ isConnectServer \in BOOLEAN
  /\ pc \in Positions
  /\ len \in Storage
  /\ sz \in Storage
  /\ run \in [i : Storage, from : Storage, to : Storage, n : Storage]
  /\ sent \in Seq(Bytes)
  /\ q \in Seq(Bytes)
  /\ raced \in BOOLEAN /\ filled \in BOOLEAN
  /\ dirty \in BOOLEAN /\ torn \in BOOLEAN
  /\ due \in Seq(Bytes)
  /\ edge \in 0 .. Size

\* The indices account for every byte: whatever the interleaving of put and
\* get, the unread size is the number of bytes accepted and not yet consumed,
\* unless a frame filled the ring to its last byte or met the unwrapped tail
\* while send_loop ran, and until the ring is next found empty.
AccountingExact ==
  (~ dirty /\ pc # "wrap") => user_rb_unread_size(rb_head, rb_tail) = Len(q)

\* The interrupt writes behind tcp_send_buffer only when it comes between the
\* two stores of tail, when put takes the unwrapped tail for free space.
OverrunOnlyInWindow ==
  (\E a \in Addr \ Storage : ram[a] # 0) => torn

\* send_loop hands Xlink len bytes although get consumed sz: the two differ
\* only when a frame filled the ring to its last byte during the call.
SendsWhatItConsumed ==
  pc \in {"copy", "wrap", "send"} => (sz = len \/ (sz < len /\ filled))

\* If no frame came in while send_loop ran, the message given to Xlink has the
\* right length and repeats the frames exactly as far as the end of the
\* storage: only bytes that had wrapped around are at risk (the first memcpy
\* of the get overwrites them in the shared array before the second reads
\* them).
DrainFaithful ==
  (pc = "send" /\ pc' = "idle" /\ ~ raced) =>
    /\ Len(sent') = Len(due)
    /\ \A i \in 1 .. Len(due) : i <= edge => sent'[i] = due[i]

\* What every step of the path keeps.
UplinkSound ==
  [][/\ DrainFaithful
     /\ (AccountingExact /\ OverrunOnlyInWindow /\ SendsWhatItConsumed)']_uplinkVars

\* Unread bytes are drained as long as the server stays connected (or a frame
\* that fills the ring makes them unreachable first).
BacklogDrains ==
  []<>(pc = "send" \/ ~ isConnectServer \/ user_rb_unread_size(rb_head, rb_tail) = 0)
-----------------------------------------------------------------------------
(* Proofs.  The interrupt may come between any two steps of the drain, so   *)
(* the invariant says what each step of it may still rely on: how many      *)
(* bytes are there at least (CountInv), where the memcpy in progress reads  *)
(* and writes (RunInv), and, if no frame has come in meanwhile, what the    *)
(* storage holds at that point of the copy (QuietInv).                      *)

\* The unread size as it is once tail is wrapped.
Unread == user_rb_unread_size(rb_head, Wrap(rb_tail))

CountInv ==
  /\ dirty => raced /\ q = <<>>
  /\ ~ dirty => Unread = Len(q)
  /\ pc = "get" => len <= Unread \/ filled
  /\ pc = "copy" /\ ~ dirty => sz <= Len(q)
  /\ SendsWhatItConsumed

\* The first memcpy reads up to the end of the storage at most, the second
\* from its start.
RunInv ==
  pc = "copy" =>
    /\ run.i <= run.n
    /\ \/ /\ run.to = 0 /\ run.from = rb_tail /\ rb_tail + run.n <= Size
          /\ run.n = sz \/ (run.n < sz /\ run.n = Size - rb_tail)
       \/ run.from = 0 /\ run.to = Size - rb_tail /\ run.to + run.n = sz

\* The ring holds q.
Holds == \A i \in 1 .. Len(q) : ram[Wrap(rb_tail + i - 1)] = q[i]

\* The start of tcp_send_buffer holds due, as far as the end of the storage.
Saved == \A i \in 1 .. Len(due) : i <= edge => ram[i - 1] = due[i]

\* The first memcpy moves due downwards, from tail to 0.
Moving ==
  /\ \A j \in 0 .. run.i - 1 : ram[j] = due[j + 1]
  /\ \A j \in run.i .. run.n - 1 : ram[rb_tail + j] = due[j + 1]

QuietInv ==
  ~ raced =>
    /\ pc \in {"idle", "get"} => Holds
    /\ pc # "idle" => len = Len(due)
    /\ pc \in {"get", "copy"} => due = q /\ edge = Size - rb_tail
    /\ pc = "copy" => sz = len /\ IF run.to = 0 THEN Moving ELSE Saved
    /\ pc \in {"wrap", "send"} => Saved /\ q = <<>>

\* The inductive invariant.
UplinkInv == UplinkType /\ CountInv /\ RunInv /\ QuietInv /\ OverrunOnlyInWindow
-----------------------------------------------------------------------------
(* Arithmetic of the ring *)

LEMMA StringIsSeq ==
  ASSUME NEW src \in Strings \ {<<>>}
  PROVE  src \in Seq(Bytes) /\ Len(src) \in Nat \ {0}
<1>1. PICK n \in 0 .. MaxLen : src \in [1 .. n -> Bytes]
  BY DEF Strings
<1> QED
  BY <1>1, RingAssumption

LEMMA UnreadBounds ==
  ASSUME NEW h \in Storage, NEW t \in Storage
  PROVE  user_rb_unread_size(h, t) \in Storage
BY RingAssumption DEF user_rb_unread_size, Storage

\* A put takes what fits, and a full ring counts as an empty one.
LEMMA PutCounts ==
  ASSUME NEW h \in Storage, NEW t \in Storage, NEW l \in Nat \ {0}
  PROVE  LET U == user_rb_unread_size(h, t)
             n == PutSize(h, t, l)
         IN  /\ n \in Nat \ {0} /\ n <= l /\ n <= Size /\ U + n <= Size
             /\ h >= t \/ h + n <= t
             /\ Wrap(h + n) \in Storage
             /\ Wrap(h + n) = t <=> U + n = Size
             /\ user_rb_unread_size(Wrap(h + n), t)
                  = IF U + n = Size THEN 0 ELSE U + n
BY RingAssumption DEF PutSize, AtMost, user_rb_unread_size, Storage, Wrap

\* What a put leaves at an address.
LEMMA PutAt ==
  ASSUME NEW m \in Memory, NEW h \in Storage, NEW t \in Storage,
         NEW src \in Strings \ {<<>>}, NEW a \in Addr
  PROVE  LET n == PutSize(h, t, Len(src))
         IN  PutMemory(m, h, t, src)[a] =
               IF h <= a /\ a < Size /\ a < h + n THEN src[a - h + 1]
               ELSE IF a < h + n - Size THEN src[Size - h + a + 1]
               ELSE m[a]
<1> DEFINE n == PutSize(h, t, Len(src))
           rz == Size - h
           m1 == Store(m, h, src, 0, rz)
<1>1. src \in Seq(Bytes) /\ Len(src) \in Nat \ {0}
  BY StringIsSeq
<1>2. n \in Nat \ {0} /\ n <= Len(src) /\ (h >= t \/ h + n <= t)
  BY <1>1, PutCounts
<1>3. /\ h \in Nat /\ h < Size /\ t < Size /\ t \in Nat
      /\ a \in Nat /\ a \in DOMAIN m /\ Size \in Nat
  BY RingAssumption DEF Storage, Addr, Memory
<1>4. PutMemory(m, h, t, src)
        = IF h >= t /\ rz < n THEN Store(m1, 0, src, rz, n - rz)
          ELSE Store(m, h, src, 0, n)
  BY DEF PutMemory
<1> HIDE DEF n
<1>5. /\ m1[a] = IF h <= a /\ a < h + rz THEN src[0 + a - h + 1] ELSE m[a]
      /\ a \in DOMAIN m1
  BY <1>3 DEF Store
<1>6. Store(m, h, src, 0, n)[a]
        = IF h <= a /\ a < h + n THEN src[0 + a - h + 1] ELSE m[a]
  BY <1>3 DEF Store
<1> HIDE DEF m1
<1>7. Store(m1, 0, src, rz, n - rz)[a]
        = IF 0 <= a /\ a < 0 + (n - rz) THEN src[rz + a - 0 + 1] ELSE m1[a]
  BY <1>5 DEF Store
<1>8. 0 + a - h + 1 = a - h + 1 /\ rz + a - 0 + 1 = Size - h + a + 1
  BY <1>3
<1>9. CASE h >= t /\ rz < n
  <2>1. PutMemory(m, h, t, src)[a]
          = IF a < n - rz THEN src[Size - h + a + 1]
            ELSE IF h <= a /\ a < Size THEN src[a - h + 1] ELSE m[a]
    BY <1>2, <1>3, <1>4, <1>5, <1>7, <1>8, <1>9
  <2>2. h + n - Size <= h /\ n - rz = h + n - Size /\ Size < h + n
    <3>1. n <= Size
      BY <1>1, PutCounts DEF n
    <3> QED
      BY <1>2, <1>3, <1>9, <3>1
  <2> QED
    BY <1>2, <1>3, <2>1, <2>2 DEF n
<1>10. CASE ~ (h >= t /\ rz < n)
  <2>1. h + n <= Size
    BY <1>2, <1>3, <1>10
  <2> QED
    BY <1>2, <1>3, <1>4, <1>6, <1>8, <1>10, <2>1 DEF n
<1> QED
  BY <1>9, <1>10

\* A put with tail in the storage stays in it.
LEMMA PutStays ==
  ASSUME NEW m \in Memory, NEW h \in Storage, NEW t \in Storage,
         NEW src \in Strings \ {<<>>}
  PROVE  /\ PutMemory(m, h, t, src) \in Memory
         /\ \A a \in Addr \ Storage : PutMemory(m, h, t, src)[a] = m[a]
<1> DEFINE n == PutSize(h, t, Len(src))
           m2 == PutMemory(m, h, t, src)
<1>1. src \in Seq(Bytes) /\ Len(src) \in Nat \ {0}
  BY StringIsSeq
<1>2. n \in Nat \ {0} /\ n <= Len(src) /\ n <= Size
  BY <1>1, PutCounts
<1>3. \A a \in Addr :
        m2[a] = IF h <= a /\ a < Size /\ a < h + n THEN src[a - h + 1]
                ELSE IF a < h + n - Size THEN src[Size - h + a + 1]
                ELSE m[a]
  BY PutAt
<1>4. h \in Nat /\ h < Size /\ Size \in Nat /\ Guard \in Nat
  BY RingAssumption DEF Storage
<1>5. m2 = [a \in Addr |-> m2[a]]
  <2>1. DOMAIN m = Addr
    BY DEF Memory
  <2> QED
    BY <2>1 DEF PutMemory, Store
<1> HIDE DEF n, m2
<1>6. \A a \in Addr : m2[a] \in Bytes
  <2> SUFFICES ASSUME NEW a \in Addr PROVE m2[a] \in Bytes
    OBVIOUS
  <2>1. a \in Nat /\ m[a] \in Bytes
    BY <1>4 DEF Addr, Memory
  <2>2. CASE h <= a /\ a < Size /\ a < h + n
    <3>1. a - h + 1 \in 1 .. Len(src)
      BY <1>1, <1>2, <1>4, <2>1, <2>2
    <3> QED
      BY <1>1, <1>3, <2>2, <3>1
  <2>3. CASE ~ (h <= a /\ a < Size /\ a < h + n) /\ a < h + n - Size
    <3>1. Size - h + a + 1 \in 1 .. Len(src)
      BY <1>1, <1>2, <1>4, <2>1, <2>3
    <3> QED
      BY <1>1, <1>3, <2>3, <3>1
  <2> QED
    BY <1>3, <2>1, <2>2, <2>3
<1>7. \A a \in Addr \ Storage : m2[a] = m[a]
  BY <1>2, <1>3, <1>4 DEF Addr, Storage
<1> QED
  BY <1>5, <1>6, <1>7 DEF Memory, m2

\* It keeps what is unread and appends what it takes.
LEMMA PutAppends ==
  ASSUME NEW m \in Memory, NEW h \in Storage, NEW t \in Storage,
         NEW src \in Strings \ {<<>>}
  PROVE  LET U == user_rb_unread_size(h, t)
             n == PutSize(h, t, Len(src))
             m2 == PutMemory(m, h, t, src)
         IN  /\ \A i \in 1 .. U : m2[Wrap(t + i - 1)] = m[Wrap(t + i - 1)]
             /\ \A i \in 1 .. n : m2[Wrap(t + U + i - 1)] = src[i]
<1> DEFINE U == user_rb_unread_size(h, t)
           n == PutSize(h, t, Len(src))
           m2 == PutMemory(m, h, t, src)
<1>1. src \in Seq(Bytes) /\ Len(src) \in Nat \ {0}
  BY StringIsSeq
<1>2. n \in Nat \ {0} /\ U + n <= Size
  BY <1>1, PutCounts
<1>3. /\ h \in Nat /\ h < Size /\ t \in Nat /\ t < Size /\ U \in Nat
      /\ Size \in Nat /\ Guard \in Nat
      /\ h = t + U \/ h = t + U - Size
  BY RingAssumption, UnreadBounds DEF Storage, user_rb_unread_size
<1>4. \A a \in Addr :
        m2[a] = IF h <= a /\ a < Size /\ a < h + n THEN src[a - h + 1]
                ELSE IF a < h + n - Size THEN src[Size - h + a + 1]
                ELSE m[a]
  BY PutAt
<1> HIDE DEF U, n, m2
<1>5. ASSUME NEW i \in 1 .. U PROVE m2[Wrap(t + i - 1)] = m[Wrap(t + i - 1)]
  <2> DEFINE a == Wrap(t + i - 1)
  <2>1. a \in Addr /\ ~ (h <= a /\ a < Size /\ a < h + n) /\ ~ (a < h + n - Size)
    BY <1>2, <1>3 DEF Wrap, Addr
  <2> HIDE DEF a
  <2> QED
    BY <1>4, <2>1 DEF a
<1>6. ASSUME NEW i \in 1 .. n PROVE m2[Wrap(t + U + i - 1)] = src[i]
  <2> DEFINE a == Wrap(t + U + i - 1)
  <2>1. /\ a \in Addr
        /\ \/ h <= a /\ a < Size /\ a < h + n /\ a - h + 1 = i
           \/ ~ (h <= a) /\ a < h + n - Size /\ Size - h + a + 1 = i
    BY <1>2, <1>3 DEF Wrap, Addr
  <2> HIDE DEF a
  <2> QED
    BY <1>4, <2>1 DEF a
<1> QED
  BY <1>5, <1>6 DEF U, n, m2

\* What a get takes is there, and its first copy ends inside the storage.
LEMMA GetCounts ==
  ASSUME NEW h \in Storage, NEW t \in Storage, NEW l \in Storage
  PROVE  LET U == user_rb_unread_size(h, t)
             n == GetSize(h, t, l)
             r == FirstRun(h, t, n)
         IN  /\ n \in Storage /\ n <= l /\ n <= U /\ (n = l \/ n = U)
             /\ r \in Storage /\ t + r <= Size
             /\ r = n \/ (r < n /\ r = Size - t)
BY RingAssumption DEF GetSize, AtMost, FirstRun, user_rb_unread_size, Storage

LEMMA AdvanceCounts ==
  ASSUME NEW h \in Storage, NEW t \in Storage,
         NEW n \in 0 .. user_rb_unread_size(h, t)
  PROVE  user_rb_unread_size(h, Wrap(t + n)) = user_rb_unread_size(h, t) - n
BY RingAssumption DEF user_rb_unread_size, Storage, Wrap
-----------------------------------------------------------------------------
(* The steps *)

LEMMA TailWrapped ==
  ASSUME UplinkType, pc # "wrap"
  PROVE  rb_tail \in Storage /\ Wrap(rb_tail) = rb_tail
           /\ Unread = user_rb_unread_size(rb_head, rb_tail)
BY RingAssumption DEF UplinkType, Storage, Wrap, Unread

\* The interrupt, with tail in the storage.
LEMMA PipeKeeps ==
  ASSUME UplinkInv, NEW src \in Strings \ {<<>>}, user_tcp_send_pipe(src),
         pc # "wrap"
  PROVE  UplinkInv'
<1> DEFINE U == user_rb_unread_size(rb_head, rb_tail)
           n == PutSize(rb_head, rb_tail, Len(src))
           S == SubSeq(src, 1, n)
<1>1. /\ rb_head \in Storage /\ rb_tail \in Storage /\ ram \in Memory
      /\ U \in Nat /\ q \in Seq(Bytes) /\ Unread = U
  BY TailWrapped, UnreadBounds, RingAssumption DEF UplinkInv, UplinkType, Storage
<1>2. src \in Seq(Bytes) /\ Len(src) \in Nat \ {0}
  BY StringIsSeq
<1>3. /\ n \in Nat \ {0} /\ n <= Len(src) /\ U + n <= Size
      /\ Wrap(rb_head + n) \in Storage
      /\ Wrap(rb_head + n) = rb_tail <=> U + n = Size
      /\ user_rb_unread_size(Wrap(rb_head + n), rb_tail)
           = IF U + n = Size THEN 0 ELSE U + n
  BY <1>1, <1>2, PutCounts
<1>4. S \in Seq(Bytes) /\ Len(S) = n /\ \A i \in 1 .. n : S[i] = src[i]
  BY <1>2, <1>3
<1>5. /\ ram' = PutMemory(ram, rb_head, rb_tail, src)
      /\ rb_head' = Wrap(rb_head + n) /\ UNCHANGED <<rb_tail, isConnectServer, due, edge>>
      /\ UNCHANGED <<pc, len, sz, run, sent>>
  BY DEF user_tcp_send_pipe, task
<1>6. /\ raced' = (pc # "idle" \/ (raced /\ ~ (~ pc # "idle" /\ rb_head = rb_tail)))
      /\ filled' = (filled \/ (pc # "idle" /\ U + n = Size))
      /\ dirty' = ((pc # "idle" /\ U + n = Size)
                     \/ (dirty /\ ~ (~ pc # "idle" /\ rb_head = rb_tail)))
      /\ torn' = torn
      /\ q' = IF dirty' \/ U + n = Size THEN <<>> ELSE q \o S
  <2>1. /\ (n > 0 /\ Wrap(rb_head + n) = rb_tail) <=> U + n = Size
        /\ ~ (pc = "wrap")
    BY <1>3
  <2>2. /\ raced' = (pc # "idle" \/ (raced /\ ~ (~ pc # "idle" /\ rb_head = rb_tail)))
        /\ filled' = (filled \/ (pc # "idle" /\ (n > 0 /\ Wrap(rb_head + n) = rb_tail)))
        /\ dirty' = ((pc # "idle" /\ (n > 0 /\ Wrap(rb_head + n) = rb_tail)) \/ pc = "wrap"
                       \/ (dirty /\ ~ (~ pc # "idle" /\ rb_head = rb_tail)))
        /\ torn' = (torn \/ pc = "wrap")
        /\ q' = IF dirty' \/ (n > 0 /\ Wrap(rb_head + n) = rb_tail)
                THEN <<>> ELSE q \o SubSeq(src, 1, n)
    BY DEF user_tcp_send_pipe
  <2>3. torn \in BOOLEAN
    BY DEF UplinkInv, UplinkType
  <2> HIDE DEF U, n
  <2> QED
    BY <2>1, <2>2, <2>3
<1>7. /\ ram' \in Memory
      /\ \A a \in Addr \ Storage : ram'[a] = ram[a]
  BY <1>1, <1>5, PutStays
<1>8. /\ \A i \in 1 .. U : ram'[Wrap(rb_tail + i - 1)] = ram[Wrap(rb_tail + i - 1)]
      /\ \A i \in 1 .. n : ram'[Wrap(rb_tail + U + i - 1)] = src[i]
  BY <1>1, <1>5, PutAppends
<1>9. Unread' = IF U + n = Size THEN 0 ELSE U + n
  <2>1. Unread' = user_rb_unread_size(rb_head', Wrap(rb_tail'))
    BY DEF Unread
  <2>2. Wrap(rb_tail) = rb_tail
    BY TailWrapped DEF UplinkInv
  <2> QED
    BY <1>3, <1>5, <2>1, <2>2
<1>10. /\ q' \in Seq(Bytes) /\ raced' \in BOOLEAN /\ filled' \in BOOLEAN
       /\ dirty' \in BOOLEAN /\ torn' \in BOOLEAN
       /\ Len(q \o S) = Len(q) + n /\ Len(<<>>) = 0
  BY <1>1, <1>4, <1>6 DEF UplinkInv, UplinkType
<1>11. rb_head = rb_tail => U = 0
  BY <1>1, RingAssumption DEF user_rb_unread_size, Storage
<1> HIDE DEF U, n, S
<1>12. UplinkType'
  BY <1>3, <1>5, <1>7, <1>10 DEF UplinkInv, UplinkType
<1>13. CountInv'
  <2>1. dirty' => raced' /\ q' = <<>>
    BY <1>6 DEF UplinkInv, CountInv
  <2>2. ASSUME ~ dirty' PROVE Unread' = Len(q')
    <3>1. U = Len(q)
      BY <1>1, <1>6, <1>10, <1>11, <2>2 DEF UplinkInv, CountInv
    <3> QED
      BY <1>1, <1>3, <1>6, <1>9, <1>10, <2>2, <3>1
  <2>3. pc' = "get" => len' <= Unread' \/ filled'
    <3>1. CASE U + n = Size
      BY <1>5, <1>6, <3>1
    <3>2. CASE U + n # Size
      BY <1>1, <1>3, <1>5, <1>6, <1>9, <3>2, RingAssumption
         DEF UplinkInv, CountInv, UplinkType, Storage
    <3> QED
      BY <3>1, <3>2
  <2>4. pc' = "copy" /\ ~ dirty' => sz' <= Len(q')
    <3> SUFFICES ASSUME pc = "copy", ~ dirty' PROVE sz <= Len(q')
      BY <1>5
    <3>1. ~ dirty /\ U + n # Size
      BY <1>6
    <3>2. sz <= Len(q) /\ Len(q') = Len(q) + n /\ Len(q) \in Nat /\ sz \in Int
      BY <1>1, <1>6, <1>10, <3>1, RingAssumption
         DEF UplinkInv, CountInv, UplinkType, Storage
    <3> QED
      BY <1>3, <3>2
  <2>5. SendsWhatItConsumed'
    BY <1>5, <1>6 DEF UplinkInv, CountInv, SendsWhatItConsumed
  <2> QED
    BY <2>1, <2>2, <2>3, <2>4, <2>5 DEF CountInv
<1>14. RunInv'
  BY <1>5 DEF UplinkInv, RunInv
<1>15. QuietInv'
  <2> SUFFICES ASSUME ~ raced' PROVE QuietInv'
    BY DEF QuietInv
  <2>1. pc = "idle"
    BY <1>6
  <2>2. ~ raced => Holds
    BY <2>1 DEF UplinkInv, QuietInv
  <2>3. raced => rb_head = rb_tail
    BY <1>6, <2>1
  <2>4. U = Len(q) /\ (raced => U = 0)
    BY <1>1, <1>10, <1>11, <2>3 DEF UplinkInv, CountInv
  <2>5. \A i \in 1 .. Len(q') : ram'[Wrap(rb_tail + i - 1)] = q'[i]
    <3>1. CASE q' = <<>>
      BY <3>1
    <3>2. CASE q' = q \o S
      <4> SUFFICES ASSUME NEW i \in 1 .. Len(q) + n
                   PROVE  ram'[Wrap(rb_tail + i - 1)] = (q \o S)[i]
        BY <1>10, <3>2
      <4>1. CASE i \in 1 .. U
        <5>1. ~ raced
          BY <2>4, <4>1
        <5>2. ram[Wrap(rb_tail + i - 1)] = q[i]
          BY <2>2, <2>4, <4>1, <5>1 DEF Holds
        <5>3. (q \o S)[i] = q[i]
          BY <1>1, <1>4, <2>4, <4>1
        <5> QED
          BY <1>8, <4>1, <5>2, <5>3
      <4>2. CASE i \notin 1 .. U
        <5>1. i - U \in 1 .. n /\ U + (i - U) = i
          BY <1>1, <1>3, <2>4, <4>2
        <5>2. (q \o S)[i] = S[i - U]
          BY <1>1, <1>3, <1>4, <2>4, <4>2
        <5>3. ram'[Wrap(rb_tail + U + (i - U) - 1)] = src[i - U]
          BY <1>8, <5>1
        <5>4. rb_tail + U + (i - U) - 1 = rb_tail + i - 1
          BY <1>1, <5>1, RingAssumption DEF Storage
        <5> QED
          BY <1>4, <5>1, <5>2, <5>3, <5>4
      <4> QED
        BY <4>1, <4>2
    <3> QED
      BY <1>6, <3>1, <3>2
  <2>6. Holds'
    BY <1>5, <2>5 DEF Holds
  <2> QED
    BY <1>5, <2>1, <2>6 DEF QuietInv
<1>16. OverrunOnlyInWindow'
  BY <1>6, <1>7 DEF UplinkInv, OverrunOnlyInWindow
<1> QED
  BY <1>12, <1>13, <1>14, <1>15, <1>16 DEF UplinkInv

\* The interrupt between the two stores of rb_tail: everything but the indices
\* is given up.
LEMMA PipeInWindowKeeps ==
  ASSUME UplinkInv, NEW src \in Strings \ {<<>>}, user_tcp_send_pipe(src),
         pc = "wrap"
  PROVE  UplinkInv'
<1> DEFINE n == PutSize(rb_head, rb_tail, Len(src))
<1>1. src \in Seq(Bytes) /\ Len(src) \in Nat \ {0}
  BY StringIsSeq
<1>2. /\ rb_head \in Nat /\ rb_head < Size /\ Size \in Nat
      /\ rb_tail \in Nat /\ Size <= rb_tail /\ rb_tail < 2 * Size /\ ram \in Memory
  BY RingAssumption DEF UplinkInv, UplinkType, Storage
<1>3. n \in Nat /\ n <= Len(src) /\ rb_head + n <= rb_tail /\ ~ (rb_head >= rb_tail)
  BY <1>1, <1>2 DEF PutSize, AtMost
<1>4. /\ ram' = Store(ram, rb_head, src, 0, n)
      /\ rb_head' = Wrap(rb_head + n) /\ UNCHANGED <<rb_tail, isConnectServer, due, edge>>
      /\ UNCHANGED <<pc, len, sz, run, sent>>
      /\ raced' = TRUE /\ dirty' = TRUE /\ torn' = TRUE /\ q' = <<>>
  BY <1>3 DEF user_tcp_send_pipe, task, PutMemory
<1>5. filled' \in BOOLEAN /\ (filled => filled')
  BY DEF user_tcp_send_pipe, UplinkInv, UplinkType
<1> HIDE DEF n
<1>6. rb_head' \in Storage
  BY <1>2, <1>3, <1>4 DEF Wrap, Storage
<1>7. ram' \in Memory
  <2>1. \A a \in Addr : a \in Nat /\ (rb_head <= a /\ a < rb_head + n =>
                                        0 + a - rb_head + 1 \in 1 .. Len(src))
    BY <1>1, <1>2, <1>3, RingAssumption DEF Addr
  <2>2. \A a \in Addr : (rb_head <= a /\ a < rb_head + n =>
                           src[0 + a - rb_head + 1] \in Bytes)
    BY <1>1, <2>1
  <2> QED
    BY <1>2, <1>4, <2>2 DEF Store, Memory
<1>8. UplinkType'
  BY <1>4, <1>5, <1>6, <1>7 DEF UplinkInv, UplinkType
<1> QED
  BY <1>4, <1>5, <1>8
     DEF UplinkInv, CountInv, RunInv, QuietInv, OverrunOnlyInWindow,
         SendsWhatItConsumed
LEMMA BeginKeeps ==
  ASSUME UplinkInv, user_tcp_send_loop
  PROVE  UplinkInv'
<1>1. /\ pc = "idle" /\ len' = user_rb_unread_size(rb_head, rb_tail) /\ pc' = "get"
      /\ due' = q /\ edge' = Size - rb_tail /\ filled' = FALSE
      /\ UNCHANGED <<sz, run, sent, isConnectServer, q, raced, dirty, torn>>
      /\ UNCHANGED <<ram, rb_head, rb_tail>>
  BY DEF user_tcp_send_loop, ring
<1>2. /\ rb_tail \in Storage /\ rb_head \in Storage
      /\ Unread = user_rb_unread_size(rb_head, rb_tail) /\ Unread' = Unread
  BY <1>1, TailWrapped DEF UplinkInv, UplinkType, Unread
<1>3. len' \in Storage /\ edge' \in 0 .. Size
  BY <1>1, <1>2, UnreadBounds, RingAssumption DEF Storage
<1>4. UplinkType'
  <2>1. due' \in Seq(Bytes) /\ filled' \in BOOLEAN /\ pc' \in Positions
    BY <1>1 DEF UplinkInv, UplinkType, Positions
  <2> QED
    BY <1>1, <1>3, <2>1 DEF UplinkInv, UplinkType
<1>5. CountInv'
  <2>1. len' <= Unread'
    BY <1>1, <1>2, <1>3, RingAssumption DEF Storage
  <2> QED
    BY <1>1, <1>2, <2>1 DEF UplinkInv, CountInv, SendsWhatItConsumed
<1>6. RunInv' /\ OverrunOnlyInWindow'
  BY <1>1 DEF UplinkInv, RunInv, OverrunOnlyInWindow
<1>7. QuietInv'
  <2> SUFFICES ASSUME ~ raced PROVE QuietInv'
    BY <1>1 DEF QuietInv
  <2>1. Holds
    BY <1>1 DEF UplinkInv, QuietInv
  <2>2. Holds'
    BY <1>1, <2>1 DEF Holds
  <2>3. len' = Len(due')
    BY <1>1, <1>2 DEF UplinkInv, CountInv
  <2> QED
    BY <1>1, <2>2, <2>3 DEF QuietInv
<1> QED
  BY <1>4, <1>5, <1>6, <1>7 DEF UplinkInv

LEMMA GetBeginKeeps ==
  ASSUME UplinkInv, GetBegin
  PROVE  UplinkInv'
<1> DEFINE U == user_rb_unread_size(rb_head, rb_tail)
           r == FirstRun(rb_head, rb_tail, GetSize(rb_head, rb_tail, len))
<1>1. /\ pc = "get" /\ sz' = GetSize(rb_head, rb_tail, len) /\ pc' = "copy"
      /\ run' = [i |-> 0, from |-> rb_tail, to |-> 0, n |-> r]
      /\ UNCHANGED <<len, sent, isConnectServer>>
      /\ UNCHANGED <<ram, rb_head, rb_tail>>
      /\ UNCHANGED <<q, raced, filled, dirty, torn, due, edge>>
  BY DEF GetBegin, ring, ghost
<1>2. /\ rb_tail \in Storage /\ rb_head \in Storage /\ len \in Storage
      /\ Unread = U /\ Unread' = Unread
  BY <1>1, TailWrapped DEF UplinkInv, UplinkType, Unread
<1>3. /\ sz' \in Storage /\ sz' <= len /\ sz' <= U /\ (sz' = len \/ sz' = U)
      /\ r \in Storage /\ rb_tail + r <= Size
      /\ r = sz' \/ (r < sz' /\ r = Size - rb_tail)
  BY <1>1, <1>2, GetCounts
<1>4. U \in Storage
  BY <1>2, UnreadBounds
<1> HIDE DEF U, r
<1>5. /\ run' \in [i : Storage, from : Storage, to : Storage, n : Storage]
      /\ run'.i = 0 /\ run'.from = rb_tail /\ run'.to = 0 /\ run'.n = r
  BY <1>1, <1>2, <1>3, RingAssumption DEF Storage
<1>6. UplinkType'
  BY <1>1, <1>3, <1>5 DEF UplinkInv, UplinkType, Positions
<1>7. CountInv'
  <2>1. len <= U \/ filled
    BY <1>1, <1>2 DEF UplinkInv, CountInv
  <2>2. sz' = len \/ (sz' < len /\ filled)
    BY <1>2, <1>3, <1>4, <2>1, RingAssumption DEF Storage
  <2> QED
    BY <1>1, <1>2, <1>3, <2>2 DEF UplinkInv, CountInv, SendsWhatItConsumed
<1>8. RunInv'
  BY <1>1, <1>3, <1>5, RingAssumption DEF RunInv, Storage
<1>9. OverrunOnlyInWindow'
  BY <1>1 DEF UplinkInv, OverrunOnlyInWindow
<1>10. QuietInv'
  <2> SUFFICES ASSUME ~ raced PROVE QuietInv'
    BY <1>1 DEF QuietInv
  <2>1. Holds /\ len = Len(due) /\ due = q /\ edge = Size - rb_tail
    BY <1>1 DEF UplinkInv, QuietInv
  <2>2. U = Len(q) /\ sz' = len
    BY <1>2, <1>3, <2>1 DEF UplinkInv, CountInv
  <2>3. \A j \in 0 .. r - 1 : ram[rb_tail + j] = due[j + 1]
    <3> SUFFICES ASSUME NEW j \in 0 .. r - 1 PROVE ram[rb_tail + j] = due[j + 1]
      OBVIOUS
    <3>1. j + 1 \in 1 .. Len(q)
      BY <1>3, <1>4, <2>1, <2>2, RingAssumption DEF Storage
    <3>2. Wrap(rb_tail + (j + 1) - 1) = rb_tail + j
      BY <1>2, <1>3, RingAssumption DEF Storage, Wrap
    <3> QED
      BY <2>1, <3>1, <3>2 DEF Holds
  <2>4. Moving'
    BY <1>1, <1>5, <2>3 DEF Moving
  <2> QED
    BY <1>1, <1>5, <2>1, <2>2, <2>4 DEF QuietInv
<1> QED
  BY <1>6, <1>7, <1>8, <1>9, <1>10 DEF UplinkInv

LEMMA CopyKeeps ==
  ASSUME UplinkInv, GetCopy
  PROVE  UplinkInv'
<1> DEFINE a == run.to + run.i
           b == run.from + run.i
<1>1. /\ pc = "copy" /\ run.i < run.n /\ ram' = [ram EXCEPT ![a] = ram[b]]
      /\ run' = [run EXCEPT !.i = @ + 1]
      /\ UNCHANGED <<rb_head, rb_tail, isConnectServer, pc, len, sz, sent>>
      /\ UNCHANGED <<q, raced, filled, dirty, torn, due, edge>>
  BY DEF GetCopy, ghost
<1>2. /\ run \in [i : Storage, from : Storage, to : Storage, n : Storage]
      /\ rb_tail \in Storage /\ sz \in Storage /\ ram \in Memory
      /\ Size \in Nat \ {0} /\ Guard \in Nat
  BY <1>1, RingAssumption DEF UplinkInv, UplinkType
<1>3. /\ run.i \in Nat /\ run.from \in Nat /\ run.to \in Nat /\ run.n \in Nat
      /\ run.n < Size /\ rb_tail \in Nat /\ rb_tail < Size /\ sz \in Nat /\ sz < Size
  BY <1>2 DEF Storage
<1>4. \/ /\ run.to = 0 /\ run.from = rb_tail /\ rb_tail + run.n <= Size
         /\ run.n = sz \/ (run.n < sz /\ run.n = Size - rb_tail)
      \/ run.from = 0 /\ run.to = Size - rb_tail /\ run.to + run.n = sz
  BY <1>1 DEF UplinkInv, RunInv
<1>5. a \in Storage /\ b \in Storage
  BY <1>1, <1>2, <1>3, <1>4 DEF Storage
<1>6. Storage \subseteq Addr
  BY <1>2 DEF Storage, Addr
<1>7. /\ ram' \in Memory /\ ram'[a] = ram[b]
      /\ \A x \in Addr : x # a => ram'[x] = ram[x]
  BY <1>1, <1>2, <1>5, <1>6 DEF Memory
<1>8. /\ run' \in [i : Storage, from : Storage, to : Storage, n : Storage]
      /\ run'.i = run.i + 1 /\ run'.from = run.from /\ run'.to = run.to
      /\ run'.n = run.n
  <2>1. run.i + 1 \in Storage
    BY <1>1, <1>2, <1>3 DEF Storage
  <2> QED
    BY <1>1, <1>2, <2>1
<1>9. UplinkType'
  BY <1>1, <1>7, <1>8 DEF UplinkInv, UplinkType
<1>10. CountInv'
  BY <1>1 DEF UplinkInv, CountInv, SendsWhatItConsumed, Unread
<1>11. RunInv'
  <2>1. run'.i <= run'.n
    BY <1>1, <1>3, <1>8
  <2> QED
    BY <1>1, <1>4, <1>8, <2>1 DEF RunInv
<1>12. OverrunOnlyInWindow'
  BY <1>1, <1>5, <1>7 DEF UplinkInv, OverrunOnlyInWindow
<1> HIDE DEF a, b
<1>13. QuietInv'
  <2> SUFFICES ASSUME ~ raced PROVE QuietInv'
    BY <1>1 DEF QuietInv
  <2>1. /\ len = Len(due) /\ due = q /\ edge = Size - rb_tail /\ sz = len
        /\ IF run.to = 0 THEN Moving ELSE Saved
    BY <1>1 DEF UplinkInv, QuietInv
  <2>2. CASE run.to = 0
    <3>1. run.from = rb_tail /\ rb_tail + run.n <= Size /\ Moving
      <4>1. run.to # Size - rb_tail
        BY <1>2, <1>3, <2>2
      <4> QED
        BY <1>4, <2>1, <2>2, <4>1
    <3>2. a = run.i /\ b = rb_tail + run.i
      BY <1>3, <2>2, <3>1 DEF a, b
    <3>3. \A j \in 0 .. run.i : ram'[j] = due[j + 1]
      <4> SUFFICES ASSUME NEW j \in 0 .. run.i PROVE ram'[j] = due[j + 1]
        OBVIOUS
      <4>1. CASE j = run.i
        <5>1. ram[rb_tail + run.i] = due[run.i + 1]
          BY <1>1, <1>3, <3>1 DEF Moving
        <5> QED
          BY <1>7, <3>2, <4>1, <5>1
      <4>2. CASE j # run.i
        <5>1. j \in 0 .. run.i - 1 /\ j \in Addr
          BY <1>1, <1>2, <1>3, <4>2 DEF Addr
        <5>2. ram[j] = due[j + 1]
          BY <3>1, <5>1 DEF Moving
        <5> QED
          BY <1>7, <3>2, <4>2, <5>1, <5>2
      <4> QED
        BY <4>1, <4>2
    <3>4. \A j \in run.i + 1 .. run.n - 1 : ram'[rb_tail + j] = due[j + 1]
      <4> SUFFICES ASSUME NEW j \in run.i + 1 .. run.n - 1
                   PROVE  ram'[rb_tail + j] = due[j + 1]
        OBVIOUS
      <4>1. rb_tail + j \in Addr /\ rb_tail + j # a /\ j \in run.i .. run.n - 1
        BY <1>2, <1>3, <3>1, <3>2 DEF Addr
      <4>2. ram[rb_tail + j] = due[j + 1]
        BY <3>1, <4>1 DEF Moving
      <4> QED
        BY <1>7, <4>1, <4>2
    <3>5. run'.i - 1 = run.i
      BY <1>3, <1>8
    <3>6. Moving'
      BY <1>1, <1>8, <3>3, <3>4, <3>5 DEF Moving
    <3> QED
      BY <1>1, <1>8, <2>1, <2>2, <3>6 DEF QuietInv
  <2>3. CASE run.to # 0
    <3>1. run.to = Size - rb_tail /\ Saved /\ run.to = edge
      BY <1>4, <2>1, <2>3
    <3>2. \A i \in 1 .. Len(due) : i <= edge =>
            i - 1 \in Addr /\ i - 1 # a /\ ram[i - 1] = due[i]
      <4> SUFFICES ASSUME NEW i \in 1 .. Len(due), i <= edge
                   PROVE  i - 1 \in Addr /\ i - 1 # a /\ ram[i - 1] = due[i]
        OBVIOUS
      <4>0. i \in 1 .. sz /\ i <= run.to
        BY <2>1, <3>1
      <4>1. i \in Nat /\ i >= 1 /\ i <= run.to /\ run.to <= Size
        BY <1>2, <1>3, <3>1, <4>0
      <4>2. i - 1 \in Addr /\ i - 1 # a
        BY <1>2, <1>3, <4>1 DEF Addr, a
      <4> QED
        BY <3>1, <4>2 DEF Saved
    <3>3. Saved'
      BY <1>1, <1>7, <3>2 DEF Saved
    <3> QED
      BY <1>1, <1>8, <2>1, <2>3, <3>3 DEF QuietInv
  <2> QED
    BY <2>2, <2>3
<1> QED
  BY <1>9, <1>10, <1>11, <1>12, <1>13 DEF UplinkInv

\* At the end of the first copy, the start of the storage holds due as far
\* as the storage reached.
LEMMA MovedIsSaved ==
  ASSUME UplinkInv, pc = "copy", run.i = run.n, run.to = 0, ~ raced
  PROVE  Saved
<1>1. /\ len = Len(due) /\ edge = Size - rb_tail /\ sz = len /\ Moving
  BY DEF UplinkInv, QuietInv
<1>2. /\ run \in [i : Storage, from : Storage, to : Storage, n : Storage]
      /\ rb_tail \in Storage /\ sz \in Storage
  BY DEF UplinkInv, UplinkType
<1>3. run.n \in Nat /\ rb_tail \in Nat /\ rb_tail < Size /\ sz \in Nat /\ Size \in Nat
  BY <1>2, RingAssumption DEF Storage
<1>4. run.n = sz \/ run.n = Size - rb_tail
  BY <1>3 DEF UplinkInv, RunInv
<1>5. ASSUME NEW i \in 1 .. Len(due), i <= edge
      PROVE  ram[i - 1] = due[i]
  <2>1. i - 1 \in 0 .. run.i - 1 /\ (i - 1) + 1 = i
    <3>1. i \in 1 .. sz /\ i <= Size - rb_tail
      BY <1>1, <1>5
    <3> QED
      BY <1>3, <1>4, <3>1
  <2>2. ram[i - 1] = due[(i - 1) + 1]
    BY <1>1, <2>1 DEF Moving
  <2> QED
    BY <2>1, <2>2
<1> QED
  BY <1>5 DEF Saved

LEMMA SecondKeeps ==
  ASSUME UplinkInv, GetSecond
  PROVE  UplinkInv'
<1>1. /\ pc = "copy" /\ run.i = run.n /\ run.to + run.n < sz
      /\ run' = [i |-> 0, from |-> 0, to |-> run.n, n |-> sz - run.n]
      /\ UNCHANGED <<isConnectServer, pc, len, sz, sent, ram, rb_head, rb_tail>>
      /\ UNCHANGED <<q, raced, filled, dirty, torn, due, edge>>
  BY DEF GetSecond, ring, ghost
<1>2. /\ run \in [i : Storage, from : Storage, to : Storage, n : Storage]
      /\ rb_tail \in Storage /\ sz \in Storage
  BY <1>1 DEF UplinkInv, UplinkType
<1>3. /\ run.n \in Nat /\ run.to \in Nat /\ run.n < Size /\ rb_tail \in Nat
      /\ rb_tail < Size /\ sz \in Nat /\ sz < Size /\ Size \in Nat
  BY <1>2, RingAssumption DEF Storage
<1>4. run.to = 0 /\ run.n < sz /\ run.n = Size - rb_tail
  BY <1>1, <1>3 DEF UplinkInv, RunInv
<1>5. sz - run.n \in Storage /\ 0 \in Storage /\ run.n \in Storage
  BY <1>3, <1>4 DEF Storage
<1>6. /\ run' \in [i : Storage, from : Storage, to : Storage, n : Storage]
      /\ run'.i = 0 /\ run'.from = 0 /\ run'.to = run.n
      /\ run'.n = sz - run.n
  BY <1>1, <1>5
<1>7. UplinkType'
  BY <1>1, <1>6 DEF UplinkInv, UplinkType
<1>8. CountInv'
  BY <1>1 DEF UplinkInv, CountInv, SendsWhatItConsumed, Unread
<1>9. RunInv'
  <2>1. run'.i <= run'.n /\ run'.to = Size - rb_tail /\ run'.to + run'.n = sz
    BY <1>3, <1>4, <1>6
  <2> QED
    BY <1>1, <1>6, <2>1 DEF RunInv
<1>10. OverrunOnlyInWindow'
  BY <1>1 DEF UplinkInv, OverrunOnlyInWindow
<1>11. QuietInv'
  <2> SUFFICES ASSUME ~ raced PROVE QuietInv'
    BY <1>1 DEF QuietInv
  <2>1. Saved
    BY <1>1, <1>4, MovedIsSaved
  <2>2. Saved' /\ run'.to # 0
    BY <1>1, <1>3, <1>4, <1>6, <2>1 DEF Saved
  <2> QED
    BY <1>1, <2>2 DEF UplinkInv, QuietInv
<1> QED
  BY <1>7, <1>8, <1>9, <1>10, <1>11 DEF UplinkInv

LEMMA AdvanceKeeps ==
  ASSUME UplinkInv, GetAdvance
  PROVE  UplinkInv'
<1> DEFINE U == user_rb_unread_size(rb_head, rb_tail)
<1>1. /\ pc = "copy" /\ run.i = run.n /\ run.to + run.n = sz
      /\ q' = SubSeq(q, sz + 1, Len(q))
      /\ UNCHANGED <<ram, rb_head, isConnectServer, len, sz, run, sent, raced,
                     filled, dirty, torn, due, edge>>
  BY DEF GetAdvance
<1>2. \/ rb_tail' = Wrap(rb_tail + sz) /\ pc' = "send"
      \/ rb_tail + sz >= Size /\ rb_tail' = rb_tail + sz /\ pc' = "wrap"
  BY DEF GetAdvance
<1>3. /\ rb_tail \in Storage /\ rb_head \in Storage /\ sz \in Storage
      /\ q \in Seq(Bytes) /\ Unread = U
  BY <1>1, TailWrapped DEF UplinkInv, UplinkType
<1>4. /\ rb_tail \in Nat /\ rb_tail < Size /\ sz \in Nat /\ sz < Size /\ Size \in Nat
      /\ Len(q) \in Nat
  BY <1>3, RingAssumption DEF Storage
<1>5. /\ Wrap(rb_tail') = Wrap(rb_tail + sz) /\ rb_tail' \in Nat
      /\ pc' = "wrap" => rb_tail' \in Size .. 2 * Size - 1
      /\ pc' # "wrap" => rb_tail' \in Storage
  BY <1>2, <1>4 DEF Wrap, Storage
<1>6. q' \in Seq(Bytes) /\ (sz <= Len(q) => Len(q') = Len(q) - sz)
        /\ (q = <<>> => q' = <<>>)
  BY <1>1, <1>3, <1>4
<1>7. UplinkType'
  BY <1>1, <1>2, <1>5, <1>6 DEF UplinkInv, UplinkType, Positions
<1>8. CountInv'
  <2>1. ASSUME ~ dirty PROVE Unread' = Len(q')
    <3>1. sz \in 0 .. U /\ U = Len(q)
      BY <1>1, <1>3, <1>4, <2>1 DEF UplinkInv, CountInv
    <3>2. user_rb_unread_size(rb_head, Wrap(rb_tail + sz)) = U - sz
      BY <1>3, <3>1, AdvanceCounts
    <3> QED
      BY <1>1, <1>4, <1>5, <1>6, <3>1, <3>2 DEF Unread
  <2> QED
    BY <1>1, <1>2, <1>6, <2>1 DEF UplinkInv, CountInv, SendsWhatItConsumed
<1>9. RunInv' /\ OverrunOnlyInWindow'
  BY <1>1, <1>2 DEF UplinkInv, RunInv, OverrunOnlyInWindow
<1>10. QuietInv'
  <2> SUFFICES ASSUME ~ raced PROVE QuietInv'
    BY <1>1 DEF QuietInv
  <2>1. len = Len(due) /\ due = q /\ sz = len
    BY <1>1 DEF UplinkInv, QuietInv
  <2>2. Saved
    <3>1. CASE run.to = 0
      BY <1>1, <3>1, MovedIsSaved
    <3>2. CASE run.to # 0
      BY <1>1, <3>2 DEF UplinkInv, QuietInv
    <3> QED
      BY <3>1, <3>2
  <2>3. q' = <<>>
    BY <1>4, <1>6, <2>1
  <2>4. Saved' /\ len' = Len(due')
    BY <1>1, <2>1, <2>2 DEF Saved
  <2> QED
    BY <1>2, <2>3, <2>4 DEF QuietInv
<1> QED
  BY <1>7, <1>8, <1>9, <1>10 DEF UplinkInv

LEMMA WrapKeeps ==
  ASSUME UplinkInv, GetWrap
  PROVE  UplinkInv'
<1>1. /\ pc = "wrap" /\ rb_tail' = rb_tail - Size /\ pc' = "send"
      /\ UNCHANGED <<ram, rb_head, isConnectServer, len, sz, run, sent>>
      /\ UNCHANGED <<q, raced, filled, dirty, torn, due, edge>>
  BY DEF GetWrap, ghost
<1>2. rb_tail \in Size .. 2 * Size - 1 /\ Size \in Nat
  BY <1>1, RingAssumption DEF UplinkInv, UplinkType
<1>3. rb_tail' \in Storage /\ rb_tail' \in Nat /\ Wrap(rb_tail') = Wrap(rb_tail)
  BY <1>1, <1>2 DEF Storage, Wrap
<1>4. Unread' = Unread
  BY <1>1, <1>3 DEF Unread
<1>5. UplinkType'
  BY <1>1, <1>3 DEF UplinkInv, UplinkType, Positions
<1>6. CountInv' /\ RunInv' /\ OverrunOnlyInWindow'
  BY <1>1, <1>4 DEF UplinkInv, CountInv, SendsWhatItConsumed, RunInv,
                    OverrunOnlyInWindow
<1>7. QuietInv'
  BY <1>1 DEF UplinkInv, QuietInv, Saved
<1> QED
  BY <1>5, <1>6, <1>7 DEF UplinkInv

LEMMA SendKeeps ==
  ASSUME UplinkInv, SendPipe2
  PROVE  UplinkInv' /\ DrainFaithful
<1>1. /\ pc = "send" /\ sent' = Load(ram, 0, len) /\ pc' = "idle"
      /\ UNCHANGED <<isConnectServer, len, sz, run, ram, rb_head, rb_tail>>
      /\ UNCHANGED <<q, raced, filled, dirty, torn, due, edge>>
  BY DEF SendPipe2, ring, ghost
<1>2. /\ len \in Nat /\ len < Size /\ ram \in Memory
      /\ Size \in Nat /\ Guard \in Nat
  BY RingAssumption DEF UplinkInv, UplinkType, Storage
<1>3. \A i \in 1 .. len : 0 + i - 1 = i - 1 /\ i - 1 \in Addr
  BY <1>2 DEF Addr
<1>4. /\ sent' \in Seq(Bytes) /\ Len(sent') = len
      /\ \A i \in 1 .. len : sent'[i] = ram[i - 1]
  <2>1. sent' = [i \in 1 .. len |-> ram[i - 1]]
    BY <1>1, <1>3 DEF Load
  <2>2. \A i \in 1 .. len : ram[i - 1] \in Bytes
    BY <1>2, <1>3 DEF Memory
  <2> QED
    BY <1>2, <2>1, <2>2
<1>5. UplinkType'
  BY <1>1, <1>4 DEF UplinkInv, UplinkType, Positions
<1>6. CountInv' /\ RunInv' /\ OverrunOnlyInWindow'
  BY <1>1 DEF UplinkInv, CountInv, SendsWhatItConsumed, RunInv,
              OverrunOnlyInWindow, Unread
<1>7. QuietInv'
  <2> SUFFICES ASSUME ~ raced PROVE QuietInv'
    BY <1>1 DEF QuietInv
  <2>1. q' = <<>>
    BY <1>1 DEF UplinkInv, QuietInv
  <2>2. Holds'
    BY <2>1 DEF Holds
  <2> QED
    BY <1>1, <2>2 DEF QuietInv
<1>8. DrainFaithful
  <2> SUFFICES ASSUME ~ raced
               PROVE  /\ Len(sent') = Len(due)
                      /\ \A i \in 1 .. Len(due) : i <= edge => sent'[i] = due[i]
    BY DEF DrainFaithful
  <2>1. len = Len(due) /\ Saved
    BY <1>1 DEF UplinkInv, QuietInv
  <2> QED
    BY <1>4, <2>1 DEF Saved
<1> QED
  BY <1>5, <1>6, <1>7, <1>8 DEF UplinkInv

LEMMA UplinkNextKeeps ==
  ASSUME UplinkInv, [UplinkNext]_uplinkVars
  PROVE  UplinkInv' /\ DrainFaithful
<1>1. ASSUME pc' # "idle" \/ pc # "send" PROVE DrainFaithful
  BY <1>1 DEF DrainFaithful
<1>2. ASSUME NEW src \in Strings \ {<<>>}, user_tcp_send_pipe(src)
      PROVE  UplinkInv' /\ DrainFaithful
  <2>1. UplinkInv'
    BY <1>2, PipeKeeps, PipeInWindowKeeps
  <2>2. pc' = pc
    BY <1>2 DEF user_tcp_send_pipe, task
  <2> QED
    BY <1>1, <2>1, <2>2
<1>3. ASSUME UNCHANGED <<ring, task, ghost>>, isConnectServer' \in BOOLEAN
      PROVE  UplinkInv' /\ DrainFaithful
  <2>1. /\ UNCHANGED <<ram, rb_head, rb_tail, pc, len, sz, run, sent>>
        /\ UNCHANGED <<q, raced, filled, dirty, torn, due, edge>>
    BY <1>3 DEF ring, task, ghost
  <2>2. UplinkType'
    BY <1>3, <2>1 DEF UplinkInv, UplinkType
  <2>3. CountInv' /\ RunInv' /\ OverrunOnlyInWindow'
    BY <2>1 DEF UplinkInv, CountInv, SendsWhatItConsumed, RunInv,
                OverrunOnlyInWindow, Unread
  <2>4. QuietInv'
    BY <2>1 DEF UplinkInv, QuietInv, Holds, Moving, Saved
  <2> QED
    BY <1>1, <2>1, <2>2, <2>3, <2>4 DEF UplinkInv
<1>4. ASSUME NEW b \in BOOLEAN, SetConnectServer(b)
      PROVE  UplinkInv' /\ DrainFaithful
  BY <1>3, <1>4 DEF SetConnectServer
<1>5. CASE UNCHANGED uplinkVars
  <2>1. UNCHANGED <<ring, task, ghost>> /\ isConnectServer' \in BOOLEAN
    BY <1>5 DEF uplinkVars, ring, task, ghost, UplinkInv, UplinkType
  <2> QED
    BY <1>3, <2>1
<1>6. CASE send_loop
  BY <1>1, <1>6, BeginKeeps, GetBeginKeeps, CopyKeeps, SecondKeeps, AdvanceKeeps,
     WrapKeeps, SendKeeps
     DEF send_loop, user_tcp_send_loop, GetBegin, GetCopy, GetSecond, GetAdvance,
         GetWrap
<1> QED
  BY <1>2, <1>4, <1>5, <1>6 DEF UplinkNext

-----------------------------------------------------------------------------

\* The invariant, for every ring size, byte set and frame length.
THEOREM PathCorrect == UplinkSpec => []UplinkInv
<1>1. UplinkInit => UplinkInv
  <2> SUFFICES ASSUME UplinkInit PROVE UplinkInv
    OBVIOUS
  <2>1. ram \in Memory /\ \A a \in Addr : ram[a] = 0
    BY RingAssumption DEF UplinkInit, Memory
  <2>2. /\ 0 \in Storage /\ 0 \in Nat /\ 0 \in 0 .. Size
        /\ <<>> \in Seq(Bytes) /\ Len(<<>>) = 0
        /\ NoRun \in [i : Storage, from : Storage, to : Storage, n : Storage]
    BY RingAssumption DEF Storage, NoRun
  <2>3. UplinkType
    BY <2>1, <2>2 DEF UplinkInit, UplinkType, Positions
  <2>4. Unread = 0
    <3>1. rb_head = 0 /\ rb_tail = 0 /\ Wrap(0) = 0
      BY RingAssumption DEF UplinkInit, Wrap
    <3> QED
      BY <3>1 DEF Unread, user_rb_unread_size
  <2>5. CountInv /\ RunInv /\ OverrunOnlyInWindow
    BY <2>1, <2>2, <2>4 DEF UplinkInit, CountInv, SendsWhatItConsumed, RunInv,
                            OverrunOnlyInWindow
  <2>6. QuietInv
    BY <2>2 DEF UplinkInit, QuietInv, Holds
  <2> QED
    BY <2>3, <2>5, <2>6 DEF UplinkInv
<1>2. UplinkInv /\ [UplinkNext]_uplinkVars => UplinkInv'
  BY UplinkNextKeeps
<1> QED
  BY <1>1, <1>2, PTL DEF UplinkSpec

\* UplinkSound, wherever the UART interrupt comes and however the build
\* stores tail: the indices account for every byte unless a frame filled the
\* ring or met the unwrapped tail while user_tcp_send_loop ran, the put
\* writes behind the storage in that window only, get consumes what is sent
\* unless the ring was filled, and an undisturbed drain hands over what came
\* in, as far as the end of the storage.
THEOREM UplinkStaysSound == UplinkSpec => UplinkSound
<1>1. UplinkInv => AccountingExact /\ OverrunOnlyInWindow /\ SendsWhatItConsumed
  BY TailWrapped DEF UplinkInv, CountInv, AccountingExact
<1>2. UplinkInv /\ [UplinkNext]_uplinkVars
        /\ (AccountingExact /\ OverrunOnlyInWindow /\ SendsWhatItConsumed)'
        => [/\ DrainFaithful
            /\ (AccountingExact /\ OverrunOnlyInWindow
                  /\ SendsWhatItConsumed)']_uplinkVars
  BY UplinkNextKeeps
<1> QED
  BY <1>1, <1>2, PathCorrect, PTL DEF UplinkSpec, UplinkSound
=============================================================================
