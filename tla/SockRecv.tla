------------------------------ MODULE SockRecv -------------------------------
(***************************************************************************)
(* The receive side of a TCP socket (sockets.c): lwip_accept, which gives  *)
(* a netconn that may already have received data its socket, and           *)
(* lwip_recvfrom, which takes pbufs from the netconn and hands out their   *)
(* bytes.  tcpip_thread posts a pbuf to the recvmbox and then reports it   *)
(* through event_callback; the application runs between the two.           *)
(***************************************************************************)
EXTENDS Integers, Sequences, WellFoundedInduction, SequenceTheorems, TLAPS

CONSTANTS Stream,     \* the pbufs that arrive: [len, push], in order
          Sizes       \* lengths the application asks for

RecvAssumption ==
  /\ Stream \in Seq([len : Nat \ {0}, push : BOOLEAN])
  /\ Sizes \subseteq Nat \ {0}

VARIABLES arrived,   \* pbufs posted so far; one more than the stream: the FIN
          told,      \* the last pbuf posted has been reported
          mbox,      \* recvmbox: numbers of pbufs, 0 for the NULL of a FIN
          socket,    \* conn->socket: negative until lwip_accept has set it
          rcv,       \* rcvevent
          last,      \* lastdata and lastoffset
          app,       \* the application thread
          got,       \* bytes handed out
          owed       \* bytes received that the window has not been given back

recvVars == <<arrived, told, mbox, socket, rcv, last, app, got, owed>>

Idle == [at |-> "idle", len |-> 0, off |-> 0, dont |-> FALSE, peek |-> FALSE]
NoData == [p |-> 0, off |-> 0]
Open == 1                      \* conn->socket once it is a socket number

(* The connection has been accepted by tcpip_thread and waits in the       *)
(* acceptmbox; the socket number is -1 for "no event yet".                 *)
Init ==
  /\ arrived = 0 /\ told = TRUE
  /\ mbox = <<>> /\ socket = -1 /\ rcv = 0
  /\ last = NoData
  /\ app = [Idle EXCEPT !.at = "accept"]
  /\ got = 0 /\ owed = 0

Total == Len(Stream)
LenOf(p) == Stream[p].len
StartOf[p \in 1..(Total + 1)] == IF p = 1 THEN 0 ELSE StartOf[p - 1] + LenOf(p - 1)

-----------------------------------------------------------------------------
(* tcpip_thread: recv_tcp posts, then API_EVENT(RCVPLUS). *)
Post ==
  /\ told
  /\ arrived <= Total
  /\ arrived' = arrived + 1
  /\ mbox' = Append(mbox, IF arrived < Total THEN arrived + 1 ELSE 0)
  /\ owed' = IF arrived < Total THEN owed + LenOf(arrived + 1) ELSE owed
  /\ told' = FALSE
  /\ UNCHANGED <<socket, rcv, last, app, got>>

(* event_callback: without a socket the event is counted in conn->socket. *)
event_callback ==
  /\ ~told
  /\ told' = TRUE
  /\ IF socket < 0
     THEN socket' = socket - 1 /\ UNCHANGED rcv
     ELSE rcv' = rcv + 1 /\ UNCHANGED socket
  /\ UNCHANGED <<arrived, mbox, last, app, got, owed>>

-----------------------------------------------------------------------------
(* lwip_accept: alloc_socket clears the entry; then the events counted so  *)
(* far are moved and the netconn is told its socket.                       *)
alloc_socket ==
  /\ app.at = "accept"
  /\ rcv' = 0 /\ last' = NoData
  /\ app' = [app EXCEPT !.at = "number"]
  /\ UNCHANGED <<arrived, told, mbox, socket, got, owed>>

(* Variant: the events counted before the socket was known are not moved. *)
lwip_accept_Unmoved ==
  /\ app.at = "number"
  /\ socket' = Open
  /\ app' = Idle
  /\ UNCHANGED <<arrived, told, mbox, rcv, last, got, owed>>

lwip_accept ==
  /\ app.at = "number"
  /\ rcv' = rcv + (-1 - socket)
  /\ socket' = Open
  /\ app' = Idle
  /\ UNCHANGED <<arrived, told, mbox, last, got, owed>>

-----------------------------------------------------------------------------
(* lwip_recvfrom: one turn of its loop is a step up to the fetch, the      *)
(* fetch, and the copy.                                                    *)
lwip_recvfrom ==
  /\ app.at = "idle"
  /\ \E len \in Sizes, dont, peek \in BOOLEAN :
       app' = [Idle EXCEPT !.at = "turn", !.len = len, !.dont = dont, !.peek = peek]
  /\ UNCHANGED <<arrived, told, mbox, socket, rcv, last, got, owed>>

(* netconn_recved: tcp_recved opens the window up to its full size. *)
netconn_recved(n) == owed' = IF owed > n THEN owed - n ELSE 0

Returned == app' = Idle /\ netconn_recved(app.off)

(* Nothing is left of the last pbuf: a non-blocking call looks at rcvevent *)
(* first.                                                                  *)
Turn ==
  /\ app.at = "turn"
  /\ \/ /\ last.p # 0
        /\ app' = [app EXCEPT !.at = "copy"]
        /\ UNCHANGED owed
     \/ /\ last.p = 0 /\ app.dont /\ rcv <= 0
        /\ Returned                                  \* EWOULDBLOCK, or off
     \/ /\ last.p = 0 /\ ~(app.dont /\ rcv <= 0)
        /\ app' = [app EXCEPT !.at = "fetch"]
        /\ UNCHANGED owed
  /\ UNCHANGED <<arrived, told, mbox, socket, rcv, last, got>>

(* netconn_recv_data: the pbuf, or the NULL that ends the connection; the  *)
(* error is kept, so the netconn is not read again.                        *)
Fetch ==
  /\ app.at = "fetch"
  /\ mbox # <<>>
  /\ mbox' = Tail(mbox)
  /\ rcv' = rcv - 1
  /\ IF Head(mbox) = 0
     THEN /\ app' = [Idle EXCEPT !.at = "closed"]
          /\ netconn_recved(app.off)
          /\ UNCHANGED last
     ELSE /\ last' = [last EXCEPT !.p = Head(mbox)]
          /\ app' = [app EXCEPT !.at = "copy"]
          /\ UNCHANGED owed
  /\ UNCHANGED <<arrived, told, socket, got>>

Copylen == IF app.len > LenOf(last.p) - last.off THEN LenOf(last.p) - last.off ELSE app.len

CopiedTo(n) == StartOf[last.p] + last.off + n

Copy ==
  LET n == Copylen
      done == app.len - n <= 0 \/ Stream[last.p].push \/ rcv <= 0 \/ app.peek
      off == app.off + n
  IN /\ app.at = "copy"
     /\ IF app.peek
        THEN UNCHANGED <<last, got>>
        ELSE /\ got' = CopiedTo(n)
             /\ last' = IF LenOf(last.p) - last.off - n > 0
                        THEN [last EXCEPT !.off = @ + n] ELSE NoData
     /\ IF done
        THEN app' = Idle /\ netconn_recved(off)
        ELSE /\ app' = [app EXCEPT !.at = "turn", !.len = @ - n, !.off = off]
             /\ UNCHANGED owed
     /\ UNCHANGED <<arrived, told, mbox, socket, rcv>>

Next ==
  \/ Post \/ event_callback \/ alloc_socket \/ lwip_accept
  \/ lwip_recvfrom \/ Turn \/ Fetch \/ Copy

Spec == Init /\ [][Next]_recvVars

-----------------------------------------------------------------------------
(* Every event is counted once, whoever counts it: before lwip_accept has  *)
(* numbered the netconn, between its two steps, and after.                 *)
EventsCounted ==
  LET counted == IF socket < 0 THEN -1 - socket ELSE rcv
  IN counted = Len(mbox) - (IF told THEN 0 ELSE 1)

(* A call that must not wait, or that already has bytes to return, never   *)
(* waits for the mailbox.                                                  *)
NeverWaits ==
  app.at = "fetch" /\ (app.dont \/ app.off > 0) => mbox # <<>>

(* The bytes handed out are those of the stream in order, none twice: they *)
(* end where the next pbuf of the mailbox, or the rest of the last one,    *)
(* begins.                                                                 *)
InStreamOrder ==
  LET next == IF last.p # 0 THEN StartOf[last.p] + last.off
              ELSE IF app.at = "closed" \/ (mbox # <<>> /\ Head(mbox) = 0)
              THEN StartOf[Total + 1]
              ELSE IF mbox # <<>> THEN StartOf[Head(mbox)]
              ELSE IF arrived > Total THEN StartOf[Total + 1] ELSE StartOf[arrived + 1]
  IN got = next

(* Bytes that were handed out have been given back to the receive window   *)
(* once the call has returned.                                             *)
WindowOpens ==
  LET come == IF arrived > Total THEN StartOf[Total + 1] ELSE StartOf[arrived + 1]
  IN owed <= come - got + app.off

RecvSound == EventsCounted /\ NeverWaits /\ InStreamOrder /\ WindowOpens

-----------------------------------------------------------------------------
(***************************************************************************)
(* Proof of RecvSound, for every stream and every length asked for.        *)
(*                                                                         *)
(* RecvSound is not inductive.  RecvInv adds which pbufs the mailbox holds *)
(* (MailInv), how far into the pbuf fetched last the bytes handed out      *)
(* reach (PlaceInv), and where the call stands (CallInv): it goes on for   *)
(* more only while an event is counted, and a peek has taken nothing.      *)
(***************************************************************************)

\* A set of natural numbers that is not empty has a least element.
LEMMA Least ==
  ASSUME NEW T, T \subseteq Nat, T # {}
  PROVE  \E x \in T : \A y \in T : x <= y
<1>1. PICK x \in T : \A y \in T : ~(<<y, x>> \in OpToRel(<, Nat))
  BY NatLessThanWellFounded, WFMin
<1>2. \A y \in T : ~(y < x)
  BY <1>1 DEF OpToRel
<1> QED
  BY <1>2

\* A function that adds up the lengths of the first pbufs.
AddsUp(f, n) ==
  \A p \in 1 .. n : f[p] = IF p = 1 THEN 0 ELSE f[p - 1] + LenOf(p - 1)

\* The lengths of any number of pbufs can be added up.
LEMMA SumExists ==
  ASSUME \A p \in 1 .. Total : LenOf(p) \in Nat, Total \in Nat
  PROVE  \A n \in 0 .. Total + 1 : \E f \in [1 .. n -> Int] : AddsUp(f, n)
<1> DEFINE T == Total
           Bad == {n \in 0 .. T + 1 : ~ \E f \in [1 .. n -> Int] : AddsUp(f, n)}
<1> SUFFICES ASSUME Bad # {} PROVE FALSE
  OBVIOUS
<1>1. PICK n \in Bad : \A y \in Bad : n <= y
  <2>1. Bad \subseteq Nat
    BY DEF Bad
  <2> HIDE DEF Bad
  <2> QED
    BY <2>1, Least
<1>2. n \in 0 .. T + 1 /\ n \in Nat
  BY <1>1
<1>3. CASE n = 0
  <2> DEFINE f == [p \in 1 .. 0 |-> 0]
  <2>1. f \in [1 .. n -> Int] /\ AddsUp(f, n)
    BY <1>3 DEF AddsUp
  <2> QED
    BY <1>1, <2>1
<1>4. CASE n # 0
  <2>1. n - 1 \in 0 .. T + 1 /\ n - 1 \notin Bad
    BY <1>1, <1>2, <1>4
  <2>2. PICK f \in [1 .. n - 1 -> Int] : AddsUp(f, n - 1)
    BY <2>1
  <2> DEFINE x == IF n = 1 THEN 0 ELSE f[n - 1] + LenOf(n - 1)
             g == [p \in 1 .. n |-> IF p = n THEN x ELSE f[p]]
  <2>3. x \in Int
    <3>1. CASE n = 1
      BY <3>1
    <3>2. CASE n # 1
      <4>1. n - 1 \in 1 .. T /\ n - 1 \in 1 .. n - 1
        BY <1>2, <1>4, <3>2
      <4>2. f[n - 1] \in Int /\ LenOf(n - 1) \in Int
        BY <2>2, <4>1
      <4> QED
        BY <3>2, <4>2
    <3> QED
      BY <3>1, <3>2
  <2>4. g \in [1 .. n -> Int]
    <3> HIDE DEF x
    <3> SUFFICES ASSUME NEW p \in 1 .. n, p # n PROVE f[p] \in Int
      BY <2>3
    <3>1. p \in 1 .. n - 1
      BY <1>2
    <3> QED
      BY <2>2, <3>1
  <2>5. AddsUp(g, n)
    <3> SUFFICES ASSUME NEW p \in 1 .. n
                 PROVE  g[p] = IF p = 1 THEN 0 ELSE g[p - 1] + LenOf(p - 1)
      BY DEF AddsUp
    <3>1. p # 1 => p - 1 \in 1 .. n /\ p - 1 # n
      BY <1>2
    <3>2. p # 1 => g[p - 1] = f[p - 1]
      BY <3>1
    <3>3. CASE p = n
      BY <3>2, <3>3
    <3>4. CASE p # n
      <4>1. p \in 1 .. n - 1 /\ g[p] = f[p]
        BY <1>2, <3>4
      <4>2. f[p] = IF p = 1 THEN 0 ELSE f[p - 1] + LenOf(p - 1)
        BY <2>2, <4>1 DEF AddsUp
      <4> HIDE DEF g
      <4> QED
        BY <3>2, <4>1, <4>2
    <3> QED
      BY <3>3, <3>4
  <2> QED
    BY <1>1, <2>4, <2>5
<1> QED
  BY <1>3, <1>4

\* Where the stream stands after f pbufs; the FIN adds nothing.
After(f) == IF f <= Total THEN StartOf[f + 1] ELSE StartOf[Total + 1]

\* The stream: its length, the lengths of its pbufs, and where they start.
StreamFacts ==
  /\ Total \in Nat
  /\ \A p \in 1 .. Total : LenOf(p) \in Nat /\ LenOf(p) > 0
  /\ \A p \in 1 .. Total : StartOf[p] = After(p - 1)
  /\ StartOf[Total + 1] = After(Total)
  /\ \A f \in 0 .. Total + 1 : After(f) \in Int
  /\ After(0) = 0
  /\ \A f \in 0 .. Total : f < Total => After(f + 1) = After(f) + LenOf(f + 1)
  /\ After(Total + 1) = After(Total)

LEMMA StreamIs ==
  ASSUME RecvAssumption
  PROVE  StreamFacts
<1> DEFINE T == Total
<1>1. T \in Nat /\ \A p \in 1 .. T : LenOf(p) \in Nat /\ LenOf(p) > 0
  <2> DEFINE R == [len : Nat \ {0}, push : BOOLEAN]
  <2>1. Stream \in Seq(R)
    BY DEF RecvAssumption
  <2>2. T \in Nat /\ \A p \in 1 .. T : Stream[p] \in R
    <3> HIDE DEF R
    <3> QED
      BY <2>1, ElementOfSeq DEF Total
  <2> HIDE DEF T
  <2> QED
    BY <2>2 DEF LenOf
<1>2. PICK h \in [1 .. T + 1 -> Int] : AddsUp(h, T + 1)
  BY <1>1, SumExists
<1>3. h = [p \in 1 .. (T + 1) |-> IF p = 1 THEN 0 ELSE h[p - 1] + LenOf(p - 1)]
  BY <1>2 DEF AddsUp
<1> DEFINE g == StartOf
<1>4. g = [p \in 1 .. (T + 1) |-> IF p = 1 THEN 0 ELSE g[p - 1] + LenOf(p - 1)]
  BY <1>3, Zenon DEF StartOf
<1> HIDE DEF g
<1>5. \A p \in 1 .. T + 1 : g[p] = IF p = 1 THEN 0 ELSE g[p - 1] + LenOf(p - 1)
  BY <1>4
<1>6. \A p \in 1 .. T + 1 : g[p] \in Int
  <2> DEFINE Bad == {p \in 1 .. T + 1 : g[p] \notin Int}
  <2> SUFFICES ASSUME Bad # {} PROVE FALSE
    OBVIOUS
  <2>1. Bad \subseteq Nat
    BY DEF Bad
  <2>2. PICK p \in Bad : \A y \in Bad : p <= y
    <3> HIDE DEF Bad
    <3> QED
      BY <2>1, Least
  <2>3. p \in 1 .. T + 1 /\ g[p] \notin Int
    BY <2>2
  <2>4. p # 1
    BY <1>5, <2>3
  <2>5. p - 1 \in 1 .. T + 1 /\ p - 1 \in 1 .. T
    BY <1>1, <2>3, <2>4
  <2>6. g[p - 1] \in Int
    BY <1>1, <2>2, <2>3, <2>5
  <2>7. LenOf(p - 1) \in Int
    BY <1>1, <2>5
  <2> QED
    BY <1>5, <2>3, <2>4, <2>6, <2>7
<1> HIDE DEF T
<1>7. \A f \in 0 .. T : After(f) = g[f + 1]
  BY <1>1 DEF After, g, T
<1>8. After(T + 1) = g[T + 1]
  BY <1>1 DEF After, g, T
<1>9. /\ \A p \in 1 .. T : g[p] = After(p - 1)
      /\ g[T + 1] = After(T)
  <2>1. \A p \in 1 .. T : p - 1 \in 0 .. T /\ (p - 1) + 1 = p
    BY <1>1
  <2> QED
    BY <1>1, <1>7, <2>1
<1>10. \A f \in 0 .. T + 1 : After(f) \in Int
  <2> SUFFICES ASSUME NEW f \in 0 .. T + 1 PROVE After(f) \in Int
    OBVIOUS
  <2>1. T + 1 \in 1 .. T + 1
    BY <1>1
  <2>2. CASE f = T + 1
    BY <1>6, <1>8, <2>1, <2>2
  <2>3. CASE f # T + 1
    <3>1. f \in 0 .. T /\ f + 1 \in 1 .. T + 1
      BY <1>1, <2>3
    <3> QED
      BY <1>6, <1>7, <3>1
  <2> QED
    BY <2>2, <2>3
<1>11. After(0) = 0
  <2>1. 0 \in 0 .. T /\ 0 + 1 = 1 /\ 1 \in 1 .. T + 1
    BY <1>1
  <2> QED
    BY <1>5, <1>7, <2>1
<1>12. ASSUME NEW f \in 0 .. T, f < T PROVE After(f + 1) = After(f) + LenOf(f + 1)
  <2>1. /\ f + 1 \in 0 .. T /\ (f + 1) + 1 \in 1 .. T + 1 /\ (f + 1) + 1 # 1
        /\ ((f + 1) + 1) - 1 = f + 1
    BY <1>1, <1>12
  <2>2. After(f + 1) = g[(f + 1) + 1] /\ After(f) = g[f + 1]
    BY <1>7, <2>1
  <2> QED
    BY <1>5, <2>1, <2>2
<1> QED
  BY <1>1, <1>8, <1>9, <1>10, <1>11, <1>12 DEF StreamFacts, g, T

RecvCall ==
  [at : {"accept", "number", "idle", "turn", "fetch", "copy", "closed"}, len : Nat, off : Nat,
   dont : BOOLEAN, peek : BOOLEAN]

\* The number of pbufs, and of FINs, the application has fetched.
Fetched(a, m) == a - Len(m)

\* The mailbox holds the numbers that follow those fetched, and 0 for the FIN.
MailInv(a, m) ==
  /\ a \in 0 .. Total + 1 /\ m \in Seq(Nat) /\ Len(m) <= a
  /\ \A i \in 1 .. Len(m) :
       m[i] = IF Fetched(a, m) + i <= Total THEN Fetched(a, m) + i ELSE 0

\* What has been got out ends within the pbuf fetched last, or with it.
PlaceInv(l, g, k) ==
  /\ l \in [p : Nat, off : Nat] /\ g \in Int
  /\ l.p = 0 => l.off = 0 /\ g = After(k)
  /\ l.p # 0 => l.p = k /\ k >= 1 /\ k <= Total /\ l.off < LenOf(k)
                /\ g = After(k - 1) + l.off

\* Where the call stands: it goes on for more only while an event is counted, and
\* it waits without an event only when it may.
CallInv(c, l, k, r, s) ==
  /\ c \in RecvCall /\ s \in Int /\ r \in Int
  /\ c.at \in {"accept", "number"} => s < 0 /\ r = 0 /\ l.p = 0
  /\ c.at \notin {"accept", "number"} => s >= 0
  /\ IF c.at \in {"turn", "fetch", "copy"} THEN c.len > 0 ELSE c.off = 0
  /\ c.peek = TRUE => c.off = 0
  /\ c.at = "copy" => l.p # 0
  /\ c.at \in {"fetch", "closed"} => l.p = 0
  /\ c.at = "closed" => k > Total
  /\ c.at = "fetch" /\ c.dont = TRUE => r > 0
  /\ c.at \in {"turn", "fetch"} /\ c.off > 0 => r > 0

\* Every pbuf arrived and told is counted, by the netconn or by its socket.
CountInv(s, r, m, t) ==
  /\ t \in BOOLEAN
  /\ (IF s < 0 THEN -1 - s ELSE r) = Len(m) - (IF t = TRUE THEN 0 ELSE 1)

\* What comes later starts later.
GrowInv(a) == \A f \in 0 .. Total + 1 : f <= a => After(f) <= After(a)

OwedInv(o, a, g, c) == o \in Nat /\ o <= After(a) - g + c.off

RecvInv ==
  /\ MailInv(arrived, mbox) /\ PlaceInv(last, got, Fetched(arrived, mbox))
  /\ CallInv(app, last, Fetched(arrived, mbox), rcv, socket)
  /\ CountInv(socket, rcv, mbox, told)
  /\ GrowInv(arrived) /\ OwedInv(owed, arrived, got, app)

\* What was got out had come, and so had the rest of the pbuf it ends in.
LEMMA HandedCame ==
  ASSUME StreamFacts, NEW a, NEW m, MailInv(a, m), NEW l, NEW g,
         PlaceInv(l, g, Fetched(a, m)), GrowInv(a)
  PROVE  /\ Fetched(a, m) \in 0 .. Total + 1 /\ Fetched(a, m) <= a
         /\ After(a) \in Int /\ g <= After(a)
         /\ l.p # 0 => /\ l.p \in 1 .. Total /\ LenOf(l.p) \in Nat
                       /\ After(l.p) = After(l.p - 1) + LenOf(l.p)
                       /\ After(l.p) <= After(a)
                       /\ StartOf[l.p] = After(l.p - 1)
<1> DEFINE k == Fetched(a, m)
           T == Total
<1>1. T \in Nat /\ a \in 0 .. T + 1 /\ Len(m) \in Nat /\ Len(m) <= a
  BY DEF StreamFacts, MailInv
<1>2. k \in 0 .. T + 1 /\ k <= a
  BY <1>1 DEF Fetched
<1>3. After(a) \in Int /\ After(k) \in Int /\ After(k) <= After(a)
  BY <1>1, <1>2 DEF StreamFacts, GrowInv
<1> HIDE DEF k
<1>4. CASE l.p = 0
  BY <1>2, <1>3, <1>4 DEF PlaceInv, k
<1>5. CASE l.p # 0
  <2>1. l.p = k /\ k \in 1 .. T /\ l.off < LenOf(k) /\ g = After(k - 1) + l.off
        /\ l.off \in Nat
    BY <1>1, <1>2, <1>5 DEF PlaceInv, k
  <2>2. k - 1 \in 0 .. T /\ k - 1 < T /\ (k - 1) + 1 = k
    BY <1>1, <2>1
  <2>3. After(k) = After(k - 1) + LenOf(k) /\ After(k - 1) \in Int
    <3>1. k - 1 \in 0 .. T + 1
      BY <1>1, <2>2
    <3>2. After((k - 1) + 1) = After(k - 1) + LenOf((k - 1) + 1)
      BY <2>2 DEF StreamFacts
    <3> QED
      BY <2>2, <3>1, <3>2 DEF StreamFacts
  <2>4. LenOf(k) \in Nat /\ StartOf[k] = After(k - 1)
    BY <2>1 DEF StreamFacts
  <2> HIDE DEF T
  <2>5. g <= After(a)
    BY <1>3, <2>1, <2>3, <2>4
  <2> QED
    BY <1>2, <1>3, <2>1, <2>3, <2>4, <2>5 DEF k, T
<1> QED
  BY <1>4, <1>5

\* recv_tcp posts a pbuf or the FIN.
LEMMA PostKeeps ==
  ASSUME StreamFacts, RecvInv, Post
  PROVE  RecvInv'
<1> DEFINE T == Total
           a == arrived
           m == mbox
           k == Fetched(a, m)
           x == IF a < T THEN a + 1 ELSE 0
<1>1. /\ T \in Nat /\ a \in 0 .. T + 1 /\ m \in Seq(Nat) /\ Len(m) \in Nat /\ Len(m) <= a
      /\ a <= T /\ told = TRUE /\ owed \in Nat /\ got \in Int /\ app.off \in Nat
  BY DEF StreamFacts, RecvInv, MailInv, Post, PlaceInv, OwedInv, CallInv, RecvCall, CountInv
<1>2. /\ arrived' = a + 1 /\ mbox' = Append(m, x) /\ told' = FALSE
      /\ owed' = (IF a < T THEN owed + LenOf(a + 1) ELSE owed)
      /\ UNCHANGED <<socket, rcv, last, app, got>>
  BY DEF Post
<1>3. x \in Nat
  BY <1>1
<1>4. /\ mbox' \in Seq(Nat) /\ Len(mbox') = Len(m) + 1
      /\ \A i \in 1 .. Len(m) : mbox'[i] = m[i]
      /\ mbox'[Len(m) + 1] = x
  BY <1>1, <1>2, <1>3
<1>5. Fetched(arrived', mbox') = k /\ k \in Int
  BY <1>1, <1>2, <1>4 DEF Fetched
<1>6. MailInv(arrived', mbox')
  <2>1. arrived' \in 0 .. T + 1 /\ Len(mbox') <= arrived'
    BY <1>1, <1>2, <1>4
  <2>2. ASSUME NEW i \in 1 .. Len(mbox')
        PROVE  mbox'[i] = IF k + i <= T THEN k + i ELSE 0
    <3>1. CASE i = Len(m) + 1
      <4>1. k + i = a + 1
        BY <1>1, <3>1 DEF Fetched
      <4>2. (k + i <= T) <=> (a < T)
        BY <1>1, <4>1
      <4> HIDE DEF k
      <4> QED
        BY <1>4, <3>1, <4>1, <4>2
    <3>2. CASE i # Len(m) + 1
      <4>1. i \in 1 .. Len(m)
        BY <1>1, <1>4, <3>2
      <4>2. m[i] = IF k + i <= T THEN k + i ELSE 0
        BY <4>1 DEF RecvInv, MailInv
      <4> QED
        BY <1>4, <4>1, <4>2
    <3> QED
      BY <3>1, <3>2
  <2> QED
    BY <1>4, <1>5, <2>1, <2>2 DEF MailInv
<1>7. PlaceInv(last', got', Fetched(arrived', mbox'))
  BY <1>2, <1>5 DEF RecvInv
<1>8. CallInv(app', last', Fetched(arrived', mbox'), rcv', socket')
  BY <1>2, <1>5 DEF RecvInv
<1>9. CountInv(socket', rcv', mbox', told')
  <2>1. (IF socket < 0 THEN -1 - socket ELSE rcv) = Len(m)
    BY <1>1 DEF RecvInv, CountInv
  <2>2. socket' = socket /\ rcv' = rcv /\ told' = FALSE
    BY <1>2
  <2>3. Len(mbox') - 1 = Len(m)
    BY <1>1, <1>4
  <2> QED
    BY <2>1, <2>2, <2>3 DEF CountInv
<1>10. /\ After(a) \in Int /\ After(a + 1) \in Int
       /\ a < T => LenOf(a + 1) \in Nat /\ After(a + 1) = After(a) + LenOf(a + 1)
       /\ ~(a < T) => After(a + 1) = After(a)
  <2>1. a \in 0 .. T + 1 /\ a + 1 \in 0 .. T + 1 /\ a \in 0 .. T
        /\ (a < T => a + 1 \in 1 .. T) /\ (~(a < T) => a = T)
    BY <1>1
  <2> QED
    BY <2>1 DEF StreamFacts
<1>11. GrowInv(arrived')
  <2> SUFFICES ASSUME NEW f \in 0 .. T + 1, f <= a + 1 PROVE After(f) <= After(a + 1)
    BY <1>2 DEF GrowInv
  <2>1. CASE f = a + 1
    BY <1>10, <2>1
  <2>2. CASE f # a + 1
    <3>1. f <= a
      BY <1>1, <2>2
    <3>2. After(f) <= After(a) /\ After(f) \in Int
      BY <3>1 DEF RecvInv, GrowInv, StreamFacts
    <3>3. After(a) <= After(a + 1)
      BY <1>10
    <3> QED
      BY <1>10, <3>2, <3>3
  <2> QED
    BY <2>1, <2>2
<1>12. OwedInv(owed', arrived', got', app')
  <2>1. owed <= After(a) - got + app.off
    BY DEF RecvInv, OwedInv
  <2>2. owed' \in Nat /\ owed' <= After(a + 1) - got + app.off
    <3>1. CASE a < T
      <4> DEFINE y == LenOf(a + 1)
                 A == After(a)
                 B == After(a + 1)
      <4>1. /\ y \in Nat /\ A \in Int /\ B = A + y /\ owed' = owed + y
            /\ owed \in Nat /\ got \in Int /\ app.off \in Nat
            /\ owed <= A - got + app.off
        BY <1>1, <1>2, <1>10, <2>1, <3>1
      <4> HIDE DEF y, A, B
      <4>2. owed' \in Nat /\ owed' <= B - got + app.off
        BY <4>1
      <4> QED
        BY <4>2 DEF B
    <3>2. CASE ~ (a < T)
      BY <1>1, <1>2, <1>10, <2>1, <3>2
    <3> QED
      BY <3>1, <3>2
  <2>3. arrived' = a + 1 /\ got' = got /\ app' = app
    BY <1>2
  <2> QED
    BY <2>2, <2>3, Zenon DEF OwedInv
<1> QED
  BY <1>6, <1>7, <1>8, <1>9, <1>11, <1>12 DEF RecvInv

\* What every step but the posting of a pbuf leaves alone.
LEMMA SameMail ==
  ASSUME RecvInv, UNCHANGED <<arrived, mbox>>,
         PlaceInv(last', got', Fetched(arrived, mbox)),
         CallInv(app', last', Fetched(arrived, mbox), rcv', socket'),
         CountInv(socket', rcv', mbox, told'),
         OwedInv(owed', arrived, got', app')
  PROVE  RecvInv'
<1>1. arrived' = arrived /\ mbox' = mbox
  OBVIOUS
<1>2. MailInv(arrived, mbox) /\ GrowInv(arrived)
  BY DEF RecvInv
<1> QED
  BY <1>1, <1>2 DEF RecvInv

\* What the parts of RecvInv say of the types.
LEMMA RecvTypes ==
  ASSUME StreamFacts, RecvInv
  PROVE  /\ arrived \in 0 .. Total + 1 /\ Total \in Nat /\ mbox \in Seq(Nat)
         /\ Len(mbox) \in Nat /\ told \in BOOLEAN
         /\ socket \in Int /\ rcv \in Int
         /\ last \in [p : Nat, off : Nat] /\ got \in Int
         /\ app \in RecvCall /\ app.len \in Nat /\ app.off \in Nat
         /\ owed \in Nat /\ Fetched(arrived, mbox) \in Int
         /\ After(arrived) \in Int /\ got <= After(arrived)
<1>1. /\ arrived \in 0 .. Total + 1 /\ Total \in Nat /\ mbox \in Seq(Nat)
      /\ Len(mbox) \in Nat
  BY DEF StreamFacts, RecvInv, MailInv
<1>2. told \in BOOLEAN /\ socket \in Int /\ rcv \in Int /\ owed \in Nat
  BY DEF RecvInv, CountInv, CallInv, OwedInv
<1>3. last \in [p : Nat, off : Nat] /\ got \in Int
  BY DEF RecvInv, PlaceInv
<1>4. app \in RecvCall
  BY DEF RecvInv, CallInv
<1>5. app.len \in Nat /\ app.off \in Nat
  BY <1>4 DEF RecvCall
<1>6. Fetched(arrived, mbox) \in Int
  BY <1>1 DEF Fetched
<1>7. After(arrived) \in Int /\ got <= After(arrived)
  BY HandedCame DEF RecvInv
<1> QED
  BY <1>1, <1>2, <1>3, <1>4, <1>5, <1>6, <1>7

\* event_callback counts the event where it belongs.
LEMMA EventKeeps ==
  ASSUME StreamFacts, RecvInv, event_callback
  PROVE  RecvInv'
<1>1. /\ ~told /\ told' = TRUE /\ UNCHANGED <<arrived, mbox, last, app, got, owed>>
      /\ socket < 0 => socket' = socket - 1 /\ rcv' = rcv
      /\ ~(socket < 0) => rcv' = rcv + 1 /\ socket' = socket
  BY DEF event_callback
<1>2. told \in BOOLEAN /\ socket \in Int /\ rcv \in Int /\ Len(mbox) \in Nat
  BY RecvTypes
<1>3. told = FALSE
  BY <1>1, <1>2
<1>4. (IF socket < 0 THEN -1 - socket ELSE rcv) = Len(mbox) - 1
  BY <1>3 DEF RecvInv, CountInv
<1>5. (IF socket' < 0 THEN -1 - socket' ELSE rcv') = Len(mbox)
  <2>1. CASE socket < 0
    <3>1. socket' < 0 /\ -1 - socket' = (-1 - socket) + 1
      BY <1>1, <1>2, <2>1
    <3> QED
      BY <1>2, <1>4, <2>1, <3>1
  <2>2. CASE ~(socket < 0)
    BY <1>1, <1>2, <1>4, <2>2
  <2> QED
    BY <2>1, <2>2
<1>6. CountInv(socket', rcv', mbox, told')
  BY <1>1, <1>2, <1>5 DEF CountInv
<1>7. CallInv(app', last', Fetched(arrived, mbox), rcv', socket')
  <2>1. CallInv(app, last, Fetched(arrived, mbox), rcv, socket)
    BY DEF RecvInv
  <2>2. app' = app /\ last' = last
    BY <1>1
  <2>3. CASE socket < 0
    <3>1. socket' < 0 /\ socket' \in Int /\ rcv' = rcv
      BY <1>1, <1>2, <2>3
    <3> QED
      BY <2>1, <2>2, <2>3, <3>1 DEF CallInv
  <2>4. CASE ~(socket < 0)
    <3>1. /\ socket' = socket /\ rcv' \in Int /\ socket >= 0
          /\ rcv > 0 => rcv' > 0
      BY <1>1, <1>2, <2>4
    <3>2. app.at \notin {"accept", "number"}
      BY <2>1, <2>4 DEF CallInv
    <3> QED
      BY <2>1, <2>2, <3>1, <3>2 DEF CallInv
  <2> QED
    BY <2>3, <2>4
<1>8. PlaceInv(last', got', Fetched(arrived, mbox))
  BY <1>1 DEF RecvInv
<1>9. OwedInv(owed', arrived, got', app')
  BY <1>1 DEF RecvInv
<1> QED
  BY <1>1, <1>6, <1>7, <1>8, <1>9, SameMail

\* lwip_accept: alloc_socket, then the events counted so far are moved.
LEMMA AcceptKeeps ==
  ASSUME StreamFacts, RecvInv, alloc_socket \/ lwip_accept
  PROVE  RecvInv'
<1> DEFINE k == Fetched(arrived, mbox)
<1>1. /\ app \in RecvCall /\ told \in BOOLEAN /\ socket \in Int /\ Len(mbox) \in Nat
      /\ k \in Int
  BY RecvTypes
<1>2. app.at \in {"accept", "number"}
  BY DEF alloc_socket, lwip_accept
<1>3. socket < 0 /\ rcv = 0 /\ last.p = 0 /\ app.off = 0
  BY <1>2 DEF RecvInv, CallInv
<1>4. last = [p |-> 0, off |-> 0]
  <2>1. last.off = 0 /\ last \in [p : Nat, off : Nat]
    BY <1>3 DEF RecvInv, PlaceInv
  <2> QED
    BY <1>3, <2>1
<1>5. UNCHANGED <<arrived, mbox, told, got, owed>> /\ last' = last
  BY <1>4 DEF alloc_socket, lwip_accept, NoData
<1>6. PlaceInv(last', got', k)
  BY <1>5 DEF RecvInv
<1>7. -1 - socket = Len(mbox) - (IF told = TRUE THEN 0 ELSE 1)
  BY <1>3 DEF RecvInv, CountInv
<1>8. CASE alloc_socket
  <2>1. /\ app' = [app EXCEPT !.at = "number"] /\ rcv' = 0
        /\ socket' = socket
    BY <1>8 DEF alloc_socket
  <2>2. /\ app' \in RecvCall /\ app'.at = "number" /\ app'.off = 0
    BY <1>1, <1>3, <2>1 DEF RecvCall
  <2>3. CallInv(app', last', k, rcv', socket')
    BY <1>1, <1>3, <1>5, <2>1, <2>2 DEF CallInv
  <2>4. CountInv(socket', rcv', mbox, told')
    BY <1>1, <1>3, <1>5, <1>7, <2>1 DEF CountInv
  <2>5. OwedInv(owed', arrived, got', app')
    BY <1>3, <1>5, <2>2 DEF RecvInv, OwedInv
  <2> QED
    BY <1>5, <1>6, <2>3, <2>4, <2>5, SameMail
<1>9. CASE lwip_accept
  <2>1. app' = Idle /\ rcv' = rcv + (-1 - socket) /\ socket' = 1
    BY <1>9 DEF lwip_accept, Open
  <2>2. /\ app' \in RecvCall /\ app'.at = "idle" /\ app'.off = 0
    BY <2>1 DEF RecvCall, Idle
  <2>3. rcv' = -1 - socket /\ rcv' \in Int
    BY <1>1, <1>3, <2>1
  <2>4. CallInv(app', last', k, rcv', socket')
    BY <2>1, <2>2, <2>3 DEF CallInv
  <2>5. CountInv(socket', rcv', mbox, told')
    BY <1>1, <1>5, <1>7, <2>1, <2>3 DEF CountInv
  <2>6. OwedInv(owed', arrived, got', app')
    BY <1>3, <1>5, <2>2 DEF RecvInv, OwedInv
  <2> QED
    BY <1>5, <1>6, <2>4, <2>5, <2>6, SameMail
<1> QED
  BY <1>8, <1>9

\* A call that returns after n bytes has given them back to the window.
LEMMA RecvedKeeps ==
  ASSUME NEW o \in Nat, NEW n \in Nat, NEW d \in Int, o <= d + n, 0 <= d
  PROVE  LET r == IF o > n THEN o - n ELSE 0 IN r \in Nat /\ r <= d
OBVIOUS

\* lwip_recvfrom: the call, and the turn of its loop.
LEMMA TurnKeeps ==
  ASSUME RecvAssumption, StreamFacts, RecvInv, lwip_recvfrom \/ Turn
  PROVE  RecvInv'
<1> DEFINE k == Fetched(arrived, mbox)
<1>1. /\ app \in RecvCall /\ app.len \in Nat /\ app.off \in Nat
      /\ socket \in Int /\ rcv \in Int /\ owed \in Nat /\ got \in Int
      /\ After(arrived) \in Int /\ got <= After(arrived)
  BY RecvTypes
<1>2. UNCHANGED <<arrived, told, mbox, socket, rcv, last, got>>
  BY DEF lwip_recvfrom, Turn
<1>3. CallInv(app, last, k, rcv, socket)
  BY DEF RecvInv
<1>4. owed <= After(arrived) - got + app.off
  BY DEF RecvInv, OwedInv
<1>5. SUFFICES /\ CallInv(app', last, k, rcv, socket)
               /\ OwedInv(owed', arrived, got, app')
  <2>1. PlaceInv(last', got', k) /\ CountInv(socket', rcv', mbox, told')
    BY <1>2 DEF RecvInv
  <2>2. /\ last' = last /\ got' = got /\ rcv' = rcv
        /\ socket' = socket
    BY <1>2
  <2> HIDE DEF k
  <2>3. /\ CallInv(app', last', k, rcv', socket')
        /\ OwedInv(owed', arrived, got', app')
    BY <1>5, <2>2
  <2> QED
    BY <1>2, <2>1, <2>3, SameMail DEF k
<1> HIDE DEF k
<1>6. CASE lwip_recvfrom
  <2>1. app.at = "idle" /\ owed' = owed
    BY <1>6 DEF lwip_recvfrom
  <2>2. PICK len \in Sizes, dont \in BOOLEAN, peek \in BOOLEAN :
          app' = [Idle EXCEPT !.at = "turn", !.len = len, !.dont = dont, !.peek = peek]
    BY <1>6 DEF lwip_recvfrom
  <2>3. len \in Nat /\ len > 0
    BY DEF RecvAssumption
  <2>4. /\ app' = [at |-> "turn", len |-> len, off |-> 0, dont |-> dont, peek |-> peek]
    BY <2>2 DEF Idle
  <2>5. app' \in RecvCall /\ app'.at = "turn" /\ app'.off = 0 /\ app'.len > 0
    BY <2>3, <2>4 DEF RecvCall
  <2>6. app.off = 0
    BY <1>3, <2>1 DEF CallInv
  <2>7. CallInv(app', last, k, rcv, socket)
    BY <1>3, <2>1, <2>5 DEF CallInv
  <2>8. OwedInv(owed', arrived, got, app')
    BY <1>1, <1>4, <2>1, <2>5, <2>6 DEF OwedInv
  <2> QED
    BY <2>7, <2>8
<1>7. CASE Turn
  <2>1. app.at = "turn"
    BY <1>7 DEF Turn
  <2>2. CASE last.p # 0
    <3>1. app' = [app EXCEPT !.at = "copy"] /\ owed' = owed
      BY <1>7, <2>2 DEF Turn
    <3>2. /\ app' \in RecvCall /\ app'.at = "copy" /\ app'.len = app.len
          /\ app'.off = app.off /\ app'.peek = app.peek
      BY <1>1, <3>1 DEF RecvCall
    <3>3. CallInv(app', last, k, rcv, socket)
      BY <1>3, <2>1, <2>2, <3>2 DEF CallInv
    <3>4. OwedInv(owed', arrived, got, app')
      BY <1>1, <1>4, <3>1, <3>2 DEF OwedInv
    <3> QED
      BY <3>3, <3>4
  <2>3. CASE last.p = 0 /\ app.dont /\ rcv <= 0
    <3>1. app' = Idle /\ owed' = (IF owed > app.off THEN owed - app.off ELSE 0)
      BY <1>7, <2>3 DEF Turn, Returned, netconn_recved
    <3>2. app' \in RecvCall /\ app'.at = "idle" /\ app'.off = 0
      BY <3>1 DEF RecvCall, Idle
    <3>3. CallInv(app', last, k, rcv, socket)
      BY <1>3, <2>1, <3>2 DEF CallInv
    <3>4. owed' \in Nat /\ owed' <= After(arrived) - got
      <4> DEFINE d == After(arrived) - got
      <4>1. d \in Int /\ 0 <= d /\ owed <= d + app.off
        BY <1>1, <1>4
      <4> HIDE DEF d
      <4>2. owed' \in Nat /\ owed' <= d
        BY <1>1, <3>1, <4>1, RecvedKeeps
      <4> QED
        BY <4>2 DEF d
    <3>5. OwedInv(owed', arrived, got, app')
      BY <1>1, <3>2, <3>4 DEF OwedInv
    <3> QED
      BY <3>3, <3>5
  <2>4. CASE last.p = 0 /\ ~(app.dont /\ rcv <= 0)
    <3>1. app' = [app EXCEPT !.at = "fetch"] /\ owed' = owed
      BY <1>7, <2>4 DEF Turn
    <3>2. /\ app' \in RecvCall /\ app'.at = "fetch" /\ app'.len = app.len
          /\ app'.off = app.off /\ app'.peek = app.peek
          /\ app'.dont = app.dont
      BY <1>1, <3>1 DEF RecvCall
    <3>3. app.dont = TRUE => rcv > 0
      BY <1>1, <2>4
    <3>4. CallInv(app', last, k, rcv, socket)
      BY <1>3, <2>1, <2>4, <3>2, <3>3 DEF CallInv
    <3>5. OwedInv(owed', arrived, got, app')
      BY <1>1, <1>4, <3>1, <3>2 DEF OwedInv
    <3> QED
      BY <3>4, <3>5
  <2> QED
    BY <1>7, <2>2, <2>3, <2>4 DEF Turn
<1> QED
  BY <1>6, <1>7

\* netconn_recv_data fetches the next pbuf, or the NULL of the FIN.
LEMMA FetchKeeps ==
  ASSUME StreamFacts, RecvInv, Fetch
  PROVE  RecvInv'
<1> DEFINE T == Total
           a == arrived
           m == mbox
           k == Fetched(a, m)
<1>1. /\ T \in Nat /\ a \in 0 .. T + 1 /\ m \in Seq(Nat) /\ Len(m) \in Nat /\ told \in BOOLEAN
      /\ socket \in Int /\ rcv \in Int /\ got \in Int /\ owed \in Nat
      /\ last \in [p : Nat, off : Nat]
      /\ app \in RecvCall /\ app.len \in Nat /\ app.off \in Nat
      /\ After(a) \in Int /\ got <= After(a)
  BY RecvTypes
<1>2. /\ app.at = "fetch" /\ m # <<>> /\ mbox' = Tail(m) /\ rcv' = rcv - 1
      /\ UNCHANGED <<arrived, told, socket, got>>
  BY DEF Fetch
<1>3. /\ Len(m) > 0 /\ Head(m) = m[1] /\ mbox' \in Seq(Nat) /\ Len(mbox') = Len(m) - 1
      /\ \A i \in 1 .. Len(m) - 1 : mbox'[i] = m[i + 1]
  BY <1>1, <1>2
<1>4. Len(m) <= a /\ k = a - Len(m) /\ k \in 0 .. T /\ k + 1 \in 1 .. T + 1
  BY <1>1, <1>3 DEF RecvInv, MailInv, Fetched
<1>5. Fetched(arrived', mbox') = k + 1
  BY <1>1, <1>2, <1>3, <1>4 DEF Fetched
<1>6. \A i \in 1 .. Len(m) : m[i] = IF k + i <= T THEN k + i ELSE 0
  BY DEF RecvInv, MailInv
<1> HIDE DEF k
<1>7. MailInv(arrived', mbox')
  <2>1. arrived' \in 0 .. T + 1 /\ Len(mbox') <= arrived'
    BY <1>1, <1>2, <1>3, <1>4
  <2>2. ASSUME NEW i \in 1 .. Len(mbox')
        PROVE  mbox'[i] = IF (k + 1) + i <= T THEN (k + 1) + i ELSE 0
    <3>1. i \in 1 .. Len(m) - 1 /\ i + 1 \in 1 .. Len(m) /\ k + (i + 1) = (k + 1) + i
      BY <1>1, <1>3, <1>4
    <3>2. mbox'[i] = m[i + 1]
      BY <1>3, <3>1
    <3>3. m[i + 1] = IF k + (i + 1) <= T THEN k + (i + 1) ELSE 0
      BY <1>6, <3>1
    <3> QED
      BY <3>1, <3>2, <3>3
  <2> QED
    BY <1>3, <1>5, <2>1, <2>2 DEF MailInv
<1>8. GrowInv(arrived')
  BY <1>2 DEF RecvInv, GrowInv
<1>9. CallInv(app, last, k, rcv, socket) /\ PlaceInv(last, got, k)
  BY DEF RecvInv, k
<1>10. socket >= 0 /\ last.p = 0 /\ last.off = 0 /\ got = After(k)
       /\ app.len > 0
  BY <1>2, <1>9 DEF CallInv, PlaceInv
<1>11. CountInv(socket', rcv', mbox', told')
  <2>1. rcv = Len(m) - (IF told = TRUE THEN 0 ELSE 1)
    BY <1>1, <1>10 DEF RecvInv, CountInv
  <2>2. rcv' = Len(mbox') - (IF told = TRUE THEN 0 ELSE 1)
    <3> DEFINE late == IF told = TRUE THEN 0 ELSE 1
               u == Len(m)
    <3>1. late \in Int /\ rcv = u - late
      BY <2>1
    <3>2. u \in Nat /\ rcv' = rcv - 1 /\ Len(mbox') = u - 1
      BY <1>1, <1>2, <1>3
    <3> HIDE DEF late, u
    <3>3. rcv' = Len(mbox') - late
      BY <3>1, <3>2
    <3> QED
      BY <3>3 DEF late
  <2> QED
    BY <1>1, <1>2, <1>10, <2>2 DEF CountInv
<1>12. owed <= After(a) - got + app.off
  BY DEF RecvInv, OwedInv
<1>13. Head(m) = IF k + 1 <= T THEN k + 1 ELSE 0
  <2>1. 1 \in 1 .. Len(m)
    BY <1>1, <1>3
  <2> QED
    BY <1>3, <1>6, <2>1
<1>14. /\ PlaceInv(last', got', k + 1)
       /\ CallInv(app', last', k + 1, rcv', socket')
       /\ OwedInv(owed', arrived', got', app')
  <2>1. CASE Head(m) = 0
    <3>1. /\ app' = [Idle EXCEPT !.at = "closed"] /\ last' = last
          /\ owed' = (IF owed > app.off THEN owed - app.off ELSE 0)
      BY <2>1 DEF Fetch, netconn_recved
    <3>2. k = T
      BY <1>1, <1>4, <1>13, <2>1
    <3>3. app' \in RecvCall /\ app'.at = "closed" /\ app'.off = 0
          /\ app'.peek = FALSE
      BY <3>1 DEF RecvCall, Idle
    <3>4. After(k + 1) = After(k)
      BY <3>2 DEF StreamFacts
    <3>5. PlaceInv(last', got', k + 1)
      BY <1>1, <1>2, <1>10, <3>1, <3>4 DEF PlaceInv
    <3>6. k + 1 > T
      BY <1>1, <3>2
    <3>7. rcv' \in Int
      BY <1>1, <1>2
    <3>8. socket' = socket /\ last'.p = 0
      BY <1>2, <1>10, <3>1
    <3>9. CallInv(app', last', k + 1, rcv', socket')
      BY <1>1, <1>10, <3>3, <3>6, <3>7, <3>8 DEF CallInv
    <3>10. owed' \in Nat /\ owed' <= After(a) - got
      <4> DEFINE d == After(a) - got
      <4>1. d \in Int /\ 0 <= d /\ owed <= d + app.off
        BY <1>1, <1>12
      <4> HIDE DEF d
      <4>2. owed' \in Nat /\ owed' <= d
        BY <1>1, <3>1, <4>1, RecvedKeeps
      <4> QED
        BY <4>2 DEF d
    <3>11. arrived' = a /\ got' = got
      BY <1>2
    <3>12. OwedInv(owed', arrived', got', app')
      BY <1>1, <3>3, <3>10, <3>11 DEF OwedInv
    <3> QED
      BY <3>5, <3>9, <3>12
  <2>2. CASE Head(m) # 0
    <3>1. /\ app' = [app EXCEPT !.at = "copy"] /\ owed' = owed
          /\ last' = [last EXCEPT !.p = Head(m)]
      BY <2>2 DEF Fetch
    <3>2. Head(m) = k + 1 /\ k + 1 \in 1 .. T /\ k + 1 <= T /\ k + 1 >= 1 /\ k + 1 \in Nat
      BY <1>1, <1>4, <1>13, <2>2
    <3>3. last' = [p |-> k + 1, off |-> 0]
      BY <1>1, <1>10, <3>1, <3>2
    <3>4. LenOf(k + 1) > 0
      BY <3>2 DEF StreamFacts
    <3>5. got' = After((k + 1) - 1) + 0
      <4>1. (k + 1) - 1 = k /\ After(k) = got
        BY <1>4, <1>10
      <4> QED
        BY <1>1, <1>2, <4>1
    <3>6. PlaceInv(last', got', k + 1)
      <4>1. last'.p = k + 1 /\ last'.off = 0 /\ last' \in [p : Nat, off : Nat]
        BY <3>2, <3>3
      <4>2. last'.p # 0 /\ got' \in Int
        BY <1>1, <1>2, <3>2, <4>1
      <4> QED
        BY <3>2, <3>4, <3>5, <4>1, <4>2 DEF PlaceInv
    <3>7. /\ app' \in RecvCall /\ app'.at = "copy" /\ app'.len = app.len
          /\ app'.off = app.off /\ app'.peek = app.peek
      BY <1>1, <3>1 DEF RecvCall
    <3>8. last'.p # 0
      BY <3>2, <3>3
    <3>9. rcv' \in Int /\ socket' = socket
      BY <1>1, <1>2
    <3>10. CallInv(app', last', k + 1, rcv', socket')
      BY <1>1, <1>9, <1>10, <3>7, <3>8, <3>9 DEF CallInv
    <3>11. arrived' = a /\ got' = got
      BY <1>2
    <3>12. OwedInv(owed', arrived', got', app')
      BY <1>1, <1>12, <3>1, <3>7, <3>11 DEF OwedInv
    <3> QED
      BY <3>6, <3>10, <3>12
  <2> QED
    BY <2>1, <2>2
<1> QED
  BY <1>5, <1>7, <1>8, <1>11, <1>14 DEF RecvInv

\* lwip_recvfrom copies from the last pbuf, and keeps what does not fit.
LEMMA CopyKeeps ==
  ASSUME StreamFacts, RecvInv, Copy
  PROVE  RecvInv'
<1> DEFINE T == Total
           k == Fetched(arrived, mbox)
           p == last.p
           o == last.off
           L == LenOf(p)
           n == Copylen
           A == After(p - 1)
           B == After(arrived)
           c == app.off
<1>1. /\ T \in Nat /\ told \in BOOLEAN /\ socket \in Int /\ rcv \in Int
      /\ got \in Int /\ owed \in Nat /\ last \in [p : Nat, off : Nat]
      /\ app \in RecvCall /\ app.len \in Nat /\ c \in Nat
      /\ B \in Int /\ got <= B
  BY RecvTypes
<1>2. app.at = "copy" /\ UNCHANGED <<arrived, told, mbox, socket, rcv>>
  BY DEF Copy
<1>3. CallInv(app, last, k, rcv, socket) /\ PlaceInv(last, got, k)
      /\ MailInv(arrived, mbox) /\ GrowInv(arrived)
  BY DEF RecvInv
<1>4. p # 0 /\ app.len > 0 /\ socket >= 0 /\ (app.peek = TRUE => c = 0)
  BY <1>2, <1>3 DEF CallInv
<1>5. p = k /\ p \in 1 .. T /\ L \in Nat /\ After(p) = A + L /\ After(p) <= B
      /\ StartOf[p] = A
  <2>1. p = k
    BY <1>3, <1>4 DEF PlaceInv
  <2> QED
    BY <1>3, <1>4, <2>1, HandedCame
<1>6. A \in Int
  <2>1. p - 1 \in 0 .. T + 1
    BY <1>1, <1>5
  <2> QED
    BY <2>1 DEF StreamFacts
<1>7. o \in Nat /\ o < L /\ got = A + o
  BY <1>3, <1>4, <1>5 DEF PlaceInv
<1>8. n = IF app.len > L - o THEN L - o ELSE app.len
  BY DEF Copylen
<1>9. owed <= B - got + c
  BY DEF RecvInv, OwedInv
<1>10. CountInv(socket', rcv', mbox, told')
  BY <1>2 DEF RecvInv
<1>11. /\ app.peek => last' = last /\ got' = got
       /\ ~app.peek => /\ got' = StartOf[p] + o + n
                            /\ last' = IF L - o - n > 0 THEN [last EXCEPT !.off = o + n]
                                           ELSE [p |-> 0, off |-> 0]
  BY DEF Copy, CopiedTo, NoData
<1>12. \/ /\ app' = Idle
          /\ owed' = (IF owed > c + n THEN owed - (c + n) ELSE 0)
       \/ /\ ~(app.len - n <= 0) /\ ~(rcv <= 0) /\ ~app.peek
          /\ app' = [app EXCEPT !.at = "turn", !.len = app.len - n, !.off = c + n]
          /\ owed' = owed
  BY DEF Copy, netconn_recved
<1>13. app.peek \in BOOLEAN
  BY <1>1 DEF RecvCall
<1> HIDE DEF L, A, B, n
<1>14. n \in Nat /\ n > 0 /\ n <= L - o /\ n <= app.len
       /\ (app.len - n > 0 => n = L - o)
  BY <1>1, <1>4, <1>5, <1>7, <1>8
<1>15. PlaceInv(last', got', k) /\ got' \in Int
  <2>1. CASE app.peek
    BY <1>1, <1>3, <1>11, <2>1
  <2>2. CASE ~app.peek /\ L - o - n > 0
    <3>1. last' = [last EXCEPT !.off = o + n] /\ got' = A + o + n
      BY <1>5, <1>11, <2>2
    <3>2. last' \in [p : Nat, off : Nat] /\ last'.p = p /\ last'.off = o + n
      BY <1>1, <1>7, <1>14, <3>1
    <3>3. o + n < L /\ got' = A + (o + n) /\ got' \in Int
      BY <1>5, <1>6, <1>7, <1>14, <2>2, <3>1
    <3>4. k >= 1 /\ k <= T
      BY <1>1, <1>5
    <3>5. o + n < LenOf(k) /\ got' = After(k - 1) + (o + n)
      BY <1>5, <3>3 DEF L, A
    <3> HIDE DEF k
    <3>6. /\ last'.p # 0 /\ last'.p = k /\ last'.off < LenOf(k)
          /\ got' = After(k - 1) + last'.off
      BY <1>4, <1>5, <3>2, <3>5
    <3> QED
      BY <3>2, <3>3, <3>4, <3>6 DEF PlaceInv
  <2>3. CASE ~app.peek /\ ~(L - o - n > 0)
    <3>1. last' = [p |-> 0, off |-> 0] /\ got' = A + o + n
      BY <1>5, <1>11, <2>3
    <3>2. got' = A + L /\ got' \in Int
      BY <1>5, <1>6, <1>7, <1>14, <2>3, <3>1
    <3>3. got' = After(k)
      BY <1>5, <3>2
    <3> QED
      BY <3>1, <3>2, <3>3 DEF PlaceInv
  <2> QED
    BY <1>13, <2>1, <2>2, <2>3
<1>16. /\ CallInv(app', last', k, rcv', socket')
       /\ OwedInv(owed', arrived, got', app')
  <2>1. rcv' = rcv /\ socket' = socket
    BY <1>2
  <2>2. CASE /\ app' = Idle
             /\ owed' = (IF owed > c + n THEN owed - (c + n) ELSE 0)
    <3>1. app' \in RecvCall /\ app'.at = "idle" /\ app'.off = 0
      BY <2>2 DEF RecvCall, Idle
    <3>2. CallInv(app', last', k, rcv', socket')
      BY <1>1, <1>4, <2>1, <3>1 DEF CallInv
    <3> DEFINE d == B - got'
    <3>3. d \in Int /\ 0 <= d /\ owed <= d + (c + n)
      <4>1. CASE app.peek
        BY <1>1, <1>9, <1>11, <1>14, <4>1
      <4>2. CASE ~app.peek
        <5>1. got' = A + o + n
          BY <1>5, <1>11, <4>2
        <5> QED
          BY <1>1, <1>5, <1>6, <1>7, <1>9, <1>14, <5>1
      <4> QED
        BY <4>1, <4>2
    <3>4. c + n \in Nat
      BY <1>1, <1>14
    <3> HIDE DEF d
    <3>5. owed' \in Nat /\ owed' <= d
      <4> DEFINE e == c + n
      <4>1. e \in Nat /\ owed <= d + e /\ owed' = (IF owed > e THEN owed - e ELSE 0)
        BY <2>2, <3>3, <3>4
      <4> HIDE DEF e
      <4> QED
        BY <1>1, <3>3, <4>1, RecvedKeeps
    <3>6. owed' <= After(arrived) - got' + app'.off
      BY <1>1, <1>15, <3>1, <3>5 DEF d, B
    <3> QED
      BY <3>2, <3>5, <3>6 DEF OwedInv
  <2>3. CASE /\ ~(app.len - n <= 0) /\ ~(rcv <= 0) /\ ~app.peek
             /\ app' = [app EXCEPT !.at = "turn", !.len = app.len - n, !.off = c + n]
             /\ owed' = owed
    <3>1. app.len - n \in Nat /\ app.len - n > 0 /\ c + n \in Nat /\ n = L - o
          /\ rcv > 0
      BY <1>1, <1>14, <2>3
    <3>2. /\ app' \in RecvCall /\ app'.at = "turn" /\ app'.len = app.len - n
          /\ app'.off = c + n /\ app'.peek = app.peek
      BY <1>1, <2>3, <3>1 DEF RecvCall
    <3>3. CallInv(app', last', k, rcv', socket')
      BY <1>1, <1>4, <2>1, <2>3, <3>1, <3>2 DEF CallInv
    <3>4. got' = A + o + n
      BY <1>5, <1>11, <2>3
    <3>5. owed' \in Nat /\ owed' <= B - got' + (c + n)
      BY <1>1, <1>6, <1>7, <1>9, <1>14, <2>3, <3>4
    <3>6. owed' <= After(arrived) - got' + app'.off
      BY <3>2, <3>5 DEF B
    <3> QED
      BY <3>3, <3>5, <3>6 DEF OwedInv
  <2> QED
    BY <1>12, <2>2, <2>3
<1> QED
  BY <1>2, <1>10, <1>15, <1>16, SameMail

\* The socket's four promises follow.
LEMMA RecvInvSound ==
  ASSUME StreamFacts, RecvInv
  PROVE  RecvSound
<1> DEFINE T == Total
           k == Fetched(arrived, mbox)
<1>1. /\ T \in Nat /\ arrived \in 0 .. T + 1 /\ mbox \in Seq(Nat) /\ Len(mbox) \in Nat
      /\ told \in BOOLEAN /\ socket \in Int /\ rcv \in Int /\ got \in Int
      /\ app \in RecvCall /\ app.off \in Nat /\ last \in [p : Nat, off : Nat]
  BY RecvTypes
<1>2. EventsCounted
  BY <1>1 DEF RecvInv, CountInv, EventsCounted
<1>3. NeverWaits
  <2> SUFFICES ASSUME app.at = "fetch", app.dont \/ app.off > 0, mbox = <<>>
               PROVE  FALSE
    BY DEF NeverWaits
  <2>1. app.dont \in BOOLEAN
    BY <1>1 DEF RecvCall
  <2>2. rcv > 0 /\ socket >= 0
    BY <2>1 DEF RecvInv, CallInv
  <2>3. Len(mbox) = 0
    OBVIOUS
  <2>4. rcv = Len(mbox) - (IF told = TRUE THEN 0 ELSE 1)
    BY <1>1, <2>2 DEF RecvInv, CountInv
  <2> QED
    BY <1>1, <2>2, <2>3, <2>4
<1>4. After(arrived) = IF arrived > T THEN StartOf[T + 1] ELSE StartOf[arrived + 1]
  BY <1>1 DEF After
<1>5. WindowOpens
  BY <1>4 DEF RecvInv, OwedInv, WindowOpens
<1>6. InStreamOrder
  <2>1. PlaceInv(last, got, k)
    BY DEF RecvInv
  <2>2. k = arrived - Len(mbox) /\ k \in 0 .. T + 1
    BY <1>1 DEF Fetched, RecvInv, MailInv
  <2> HIDE DEF k
  <2>3. CASE last.p # 0
    <3>1. got = After(k - 1) + last.off /\ last.p = k /\ k >= 1 /\ k <= T
      BY <2>1, <2>3 DEF PlaceInv
    <3>2. StartOf[k] = After(k - 1)
      <4>1. k \in 1 .. T
        BY <1>1, <2>2, <3>1
      <4> QED
        BY <4>1 DEF StreamFacts
    <3>3. got = StartOf[last.p] + last.off
      BY <3>1, <3>2
    <3> QED
      BY <2>3, <3>3 DEF InStreamOrder
  <2>4. CASE last.p = 0
    <3>1. got = After(k)
      BY <2>1, <2>4 DEF PlaceInv
    <3>2. app.at = "closed" => k > T
      BY DEF RecvInv, CallInv, k
    <3>3. mbox # <<>> => Head(mbox) = IF k + 1 <= T THEN k + 1 ELSE 0
      <4> SUFFICES ASSUME mbox # <<>> PROVE Head(mbox) = IF k + 1 <= T THEN k + 1 ELSE 0
        OBVIOUS
      <4>1. 1 \in 1 .. Len(mbox) /\ Head(mbox) = mbox[1]
        BY <1>1
      <4>2. \A i \in 1 .. Len(mbox) : mbox[i] = IF k + i <= T THEN k + i ELSE 0
        BY DEF RecvInv, MailInv, k
      <4> QED
        BY <4>1, <4>2
    <3>4. k >= T => After(k) = StartOf[T + 1]
      <4>1. k >= T => k = T \/ k = T + 1
        BY <1>1, <2>2
      <4> QED
        BY <4>1 DEF StreamFacts
    <3>5. k < T => k + 1 \in 1 .. T /\ (k + 1) - 1 = k
      BY <1>1, <2>2
    <3>6. k < T => After(k) = StartOf[k + 1]
      BY <3>5 DEF StreamFacts
    <3>7. CASE app.at = "closed" \/ (mbox # <<>> /\ Head(mbox) = 0)
      <4>1. k >= T
        BY <1>1, <2>2, <3>2, <3>3, <3>7
      <4> QED
        BY <2>4, <3>1, <3>4, <3>7, <4>1 DEF InStreamOrder
    <3>8. CASE ~(app.at = "closed" \/ (mbox # <<>> /\ Head(mbox) = 0)) /\ mbox # <<>>
      <4>1. k < T /\ Head(mbox) = k + 1
        BY <1>1, <2>2, <3>3, <3>8
      <4>2. got = StartOf[Head(mbox)]
        BY <3>1, <3>6, <4>1
      <4> QED
        BY <2>4, <3>8, <4>2 DEF InStreamOrder
    <3>9. CASE ~(app.at = "closed" \/ (mbox # <<>> /\ Head(mbox) = 0)) /\ mbox = <<>>
      <4>1. k = arrived
        BY <1>1, <2>2, <3>9
      <4>2. got = IF arrived > T THEN StartOf[T + 1] ELSE StartOf[arrived + 1]
        BY <1>4, <3>1, <4>1
      <4> QED
        BY <2>4, <3>9, <4>2 DEF InStreamOrder
    <3> QED
      BY <3>7, <3>8, <3>9
  <2> QED
    BY <2>3, <2>4
<1> QED
  BY <1>2, <1>3, <1>5, <1>6 DEF RecvSound

LEMMA RecvInits ==
  ASSUME StreamFacts, Init
  PROVE  RecvInv
<1>1. /\ arrived = 0 /\ told = TRUE /\ mbox = <<>> /\ socket = -1 /\ rcv = 0
      /\ last = [p |-> 0, off |-> 0] /\ got = 0 /\ owed = 0
      /\ app = [at |-> "accept", len |-> 0, off |-> 0, dont |-> FALSE, peek |-> FALSE]
  BY DEF Init, NoData, Idle
<1>2. Total \in Nat /\ Len(mbox) = 0 /\ mbox \in Seq(Nat)
      /\ Fetched(arrived, mbox) = 0 /\ After(0) = 0
  <2>1. Total \in Nat /\ After(0) = 0
    BY DEF StreamFacts
  <2>2. Len(mbox) = 0 /\ mbox \in Seq(Nat)
    BY <1>1
  <2>3. Fetched(arrived, mbox) = 0
    <3>1. Fetched(arrived, mbox) = arrived - Len(mbox)
      BY Zenon DEF Fetched
    <3>2. arrived = 0
      BY <1>1
    <3> QED
      BY <2>2, <3>1, <3>2
  <2> QED
    BY <2>1, <2>2, <2>3
<1>3. MailInv(arrived, mbox)
  BY <1>1, <1>2 DEF MailInv
<1>4. PlaceInv(last, got, Fetched(arrived, mbox))
  BY <1>1, <1>2 DEF PlaceInv
<1>5. CallInv(app, last, Fetched(arrived, mbox), rcv, socket)
  BY <1>1 DEF CallInv, RecvCall
<1>6. CountInv(socket, rcv, mbox, told)
  BY <1>1, <1>2 DEF CountInv
<1>7. GrowInv(arrived)
  <2> SUFFICES ASSUME NEW f \in 0 .. Total + 1, f <= 0 PROVE After(f) <= After(0)
    BY <1>1 DEF GrowInv
  <2>1. f = 0
    BY <1>2
  <2> QED
    BY <1>2, <2>1
<1>8. OwedInv(owed, arrived, got, app)
  BY <1>1, <1>2 DEF OwedInv
<1> QED
  BY <1>3, <1>4, <1>5, <1>6, <1>7, <1>8 DEF RecvInv

LEMMA RecvStutters ==
  ASSUME RecvInv, UNCHANGED recvVars
  PROVE  RecvInv'
<1>1. /\ arrived' = arrived /\ told' = told /\ mbox' = mbox /\ socket' = socket
      /\ rcv' = rcv /\ last' = last /\ app' = app
      /\ got' = got /\ owed' = owed
  BY DEF recvVars
<1> QED
  BY <1>1, Zenon DEF RecvInv

(* RecvSound, for every stream of pbufs and every length the application asks for:  *)
(* the bytes lwip_recvfrom hands out are those of the stream in order, none lost    *)
(* and none twice, whether it peeks, may not wait, or gets less than it asked for;  *)
(* every event_callback is counted once, also before lwip_accept has numbered the   *)
(* netconn; a call that may not wait does not; and what it took is given back to    *)
(* the window when it returns.                                                      *)
THEOREM RecvStaysSound ==
  ASSUME RecvAssumption
  PROVE  Spec => []RecvSound
<1>1. StreamFacts
  BY StreamIs
<1>2. Init => RecvInv
  BY <1>1, RecvInits
<1>3. RecvInv /\ [Next]_(recvVars) => RecvInv'
  <2> SUFFICES ASSUME RecvInv, [Next]_(recvVars) PROVE RecvInv'
    OBVIOUS
  <2> QED
    BY <1>1, PostKeeps, EventKeeps, AcceptKeeps, TurnKeeps, FetchKeeps, CopyKeeps, RecvStutters
    DEF Next
<1>4. RecvInv => RecvSound
  BY <1>1, RecvInvSound
<1> QED
  BY <1>2, <1>3, <1>4, PTL DEF Spec
=============================================================================
