------------------------------ MODULE AppProofs ------------------------------
(***************************************************************************)
(* Proofs about parts that MCApp checks: user_ringbuffer.c for every       *)
(* storage size, every byte alphabet, every request bound and any amount   *)
(* of foreign memory behind the storage; the configuration in flash for    *)
(* every buffer size and any number of writes and power failures; the two  *)
(* copies of the MQTT example's configuration; the UDP server with the     *)
(* interrupt between any two of its steps, for any peers; the plug's       *)
(* timers for every list of them; the IoT example's light, cloud client    *)
(* and web server for any colours, limits, clients and sizes; and the UART *)
(* for every FIFO depth, threshold and frame length.                       *)
(***************************************************************************)
EXTENDS RingBuffer, ConfigStore, MqttConfig, UdpServer, UartRx, Schedule,
        SequenceTheorems, WellFoundedInduction, TLAPS

-----------------------------------------------------------------------------
(* The ring buffer. *)

\* A byte string handed to the ring is a sequence of bytes of bounded length.
LEMMA StringIsSeq ==
  ASSUME NEW src \in Strings
  PROVE  /\ src \in Seq(Bytes)
         /\ Len(src) \in 0 .. MaxLen
         /\ src = [i \in 1 .. Len(src) |-> src[i]]
<1>1. PICK n \in 0 .. MaxLen : src \in [1 .. n -> Bytes]
  BY DEF Strings
<1>2. n \in Nat
  BY <1>1, RingAssumption
<1>3. src \in Seq(Bytes)
  BY <1>1, <1>2
<1>4. Len(src) = n
  BY <1>1, <1>2, <1>3
<1> QED
  BY <1>1, <1>3, <1>4

\* A put accepts at most the free space and at most the request, and the copy
\* it makes ends inside the storage or is split at its end.
LEMMA PutSizeBounds ==
  ASSUME NEW h \in Storage, NEW t \in Storage, NEW len \in 0 .. MaxLen
  PROVE  LET sz == PutSize(h, t, len)
         IN  /\ sz \in Nat
             /\ sz <= len
             /\ sz <= Size - user_rb_unread_size(h, t)
             /\ h < t => h + sz <= t
             /\ Wrap(h + sz) \in Storage
BY RingAssumption DEF PutSize, AtMost, user_rb_unread_size, Storage, Wrap

\* A get delivers at most what is unread and at most the request.
LEMMA GetSizeBounds ==
  ASSUME NEW h \in Storage, NEW t \in Storage, NEW len \in 0 .. MaxLen
  PROVE  LET sz == GetSize(h, t, len)
             rz == FirstRun(h, t, sz)
         IN  /\ sz \in Nat
             /\ sz <= len
             /\ sz <= user_rb_unread_size(h, t)
             /\ rz \in Nat
             /\ rz <= sz
             /\ t + rz <= Size
             /\ rz < sz => t + rz = Size /\ sz - rz <= h
             /\ Wrap(t + sz) \in Storage
BY RingAssumption
   DEF GetSize, AtMost, user_rb_unread_size, Storage, Wrap, FirstRun

\* The unread size is a number of bytes smaller than the storage.
LEMMA UnreadBounds ==
  ASSUME NEW h \in Storage, NEW t \in Storage
  PROVE  user_rb_unread_size(h, t) \in 0 .. Size - 1
BY RingAssumption DEF user_rb_unread_size, Storage

\* memcpy writes bytes of its source and nothing else.
LEMMA StoreType ==
  ASSUME NEW m \in Memory, NEW at \in Nat, NEW from \in Nat, NEW n \in Nat,
         NEW src \in Seq(Bytes), from + n <= Len(src)
  PROVE  Store(m, at, src, from, n) \in Memory
<1> SUFFICES ASSUME NEW a \in Addr, at <= a, a < at + n
             PROVE  src[from + a - at + 1] \in Bytes
  BY DEF Store, Memory
<1>1. a \in Int
  BY RingAssumption DEF Addr
<1>2. from + a - at + 1 \in 1 .. Len(src)
  BY <1>1
<1> QED
  BY <1>2

\* Every byte a put leaves in memory: the accepted prefix of the source from
\* head on, around the end of the storage; every other byte is untouched.
LEMMA PutMemoryValue ==
  ASSUME NEW m \in Memory, NEW h \in Storage, NEW t \in Storage,
         NEW src \in Strings
  PROVE  LET sz == PutSize(h, t, Len(src))
             m2 == PutMemory(m, h, t, src)
         IN  /\ m2 \in Memory
             /\ \A i \in 1 .. sz : m2[Wrap(h + i - 1)] = src[i]
             /\ \A a \in Addr :
                  (\A i \in 1 .. sz : a # Wrap(h + i - 1)) => m2[a] = m[a]
<1> DEFINE sz == PutSize(h, t, Len(src))
           rz == Size - h
           m1 == Store(m, h, src, 0, rz)
           m2 == PutMemory(m, h, t, src)
<1>1. src \in Seq(Bytes) /\ Len(src) \in 0 .. MaxLen
  BY StringIsSeq
<1>2. /\ sz \in Nat /\ sz <= Len(src) /\ sz <= Size
      /\ h < t => h + sz < Size
  <2>1. /\ sz \in Nat /\ sz <= Len(src)
        /\ sz <= Size - user_rb_unread_size(h, t)
        /\ h < t => h + sz <= t
    BY <1>1, PutSizeBounds
  <2>2. user_rb_unread_size(h, t) \in 0 .. Size - 1
    BY UnreadBounds
  <2> HIDE DEF sz
  <2> QED
    BY <1>1, <2>1, <2>2, RingAssumption DEF Storage
<1>3. h \in Nat /\ rz \in Nat /\ rz > 0 /\ h + rz = Size
  BY RingAssumption DEF Storage
<1>4. \A i \in 1 .. sz : Wrap(h + i - 1) \in Addr
  BY <1>2, <1>3, RingAssumption DEF Wrap, Addr, Storage
<1> HIDE DEF sz
<1>5. CASE h >= t /\ rz < sz
  <2>1. m2 = Store(m1, 0, src, rz, sz - rz)
    BY <1>5 DEF PutMemory, sz
  <2>2. m1 \in Memory
    BY <1>1, <1>2, <1>3, <1>5, StoreType
  <2>3. m2 \in Memory
    <3>1. rz + (sz - rz) <= Len(src) /\ sz - rz \in Nat /\ 0 \in Nat
      BY <1>1, <1>2, <1>3, <1>5
    <3> HIDE DEF m1, rz
    <3> QED
      BY <1>1, <1>3, <2>1, <2>2, <3>1, StoreType
  <2>4. ASSUME NEW a \in Addr
        PROVE  m2[a] = IF a < sz - rz THEN src[rz + a + 1]
                       ELSE IF h <= a /\ a < Size THEN src[a - h + 1]
                       ELSE m[a]
    <3>1. a \in Nat /\ a \in DOMAIN m /\ a \in DOMAIN m1
      BY <2>2, RingAssumption DEF Addr, Memory
    <3>2. m1[a] = IF h <= a /\ a < h + rz THEN src[0 + a - h + 1] ELSE m[a]
      BY <3>1 DEF Store
    <3>3. m2[a] = IF 0 <= a /\ a < 0 + (sz - rz)
                  THEN src[rz + a - 0 + 1] ELSE m1[a]
      BY <2>1, <3>1 DEF Store
    <3> QED
      BY <1>2, <1>3, <3>1, <3>2, <3>3
  <2>5. ASSUME NEW i \in 1 .. sz
        PROVE  m2[Wrap(h + i - 1)] = src[i]
    <3>1. CASE h + i - 1 < Size
      <4>1. Wrap(h + i - 1) = h + i - 1
        BY <1>2, <1>3, <3>1, RingAssumption DEF Wrap
      <4>2. ~ (h + i - 1 < sz - rz)
        BY <1>2, <1>3, <1>5
      <4>3. (h + i - 1) - h + 1 = i
        BY <1>2, <1>3
      <4>4. h <= h + i - 1 /\ h + i - 1 < Size /\ h + i - 1 \in Addr
        BY <1>3, <1>4, <3>1, <4>1, <1>2
      <4> HIDE DEF m2, rz
      <4> QED
        BY <2>4, <4>1, <4>2, <4>3, <4>4
    <3>2. CASE h + i - 1 >= Size
      <4>1. Wrap(h + i - 1) = h + i - 1 - Size
        BY <1>2, <1>3, <3>2, RingAssumption DEF Wrap
      <4>2. h + i - 1 - Size < sz - rz
        BY <1>2, <1>3, <3>2, RingAssumption
      <4>3. rz + (h + i - 1 - Size) + 1 = i
        BY <1>2, <1>3, RingAssumption
      <4> QED
        BY <1>4, <2>4, <4>1, <4>2, <4>3
    <3> QED
      BY <1>2, <1>3, <3>1, <3>2, RingAssumption
  <2>6. ASSUME NEW a \in Addr, \A i \in 1 .. sz : a # Wrap(h + i - 1)
        PROVE  m2[a] = m[a]
    <3>1. a \in Nat
      BY RingAssumption DEF Addr
    <3>2. ~ (h <= a /\ a < Size)
      <4> SUFFICES ASSUME h <= a, a < Size PROVE FALSE
        OBVIOUS
      <4>1. a - h + 1 \in 1 .. sz
        BY <1>2, <1>3, <1>5, <3>1
      <4>2. Wrap(h + (a - h + 1) - 1) = a
        BY <1>3, <3>1, RingAssumption DEF Wrap
      <4> QED
        BY <2>6, <4>1, <4>2
    <3>3. ~ (a < sz - rz)
      <4> SUFFICES ASSUME a < sz - rz PROVE FALSE
        OBVIOUS
      <4>1. a + rz + 1 \in 1 .. sz
        BY <1>2, <1>3, <3>1
      <4>2. Wrap(h + (a + rz + 1) - 1) = a
        BY <1>3, <3>1, RingAssumption DEF Wrap
      <4> QED
        BY <2>6, <4>1, <4>2
    <3> QED
      BY <2>4, <3>2, <3>3
  <2> QED
    BY <2>3, <2>5, <2>6 DEF sz
<1>6. CASE ~ (h >= t /\ rz < sz)
  <2>1. m2 = Store(m, h, src, 0, sz)
    BY <1>6 DEF PutMemory, sz
  <2>2. m2 \in Memory
    BY <1>1, <1>2, <1>3, <2>1, StoreType
  <2>3. h + sz <= Size
    BY <1>2, <1>3, <1>6, RingAssumption DEF Storage
  <2>4. ASSUME NEW a \in Addr
        PROVE  m2[a] = IF h <= a /\ a < h + sz THEN src[a - h + 1] ELSE m[a]
    <3>1. a \in Nat /\ a \in DOMAIN m
      BY RingAssumption DEF Addr, Memory
    <3>2. m2[a] = IF h <= a /\ a < h + sz THEN src[0 + a - h + 1] ELSE m[a]
      BY <2>1, <3>1 DEF Store
    <3> QED
      BY <1>3, <3>1, <3>2
  <2>5. ASSUME NEW i \in 1 .. sz
        PROVE  m2[Wrap(h + i - 1)] = src[i]
    <3>1. Wrap(h + i - 1) = h + i - 1
      BY <1>2, <1>3, <2>3, RingAssumption DEF Wrap
    <3>2. h <= h + i - 1 /\ h + i - 1 < h + sz /\ (h + i - 1) - h + 1 = i
      BY <1>2, <1>3
    <3> QED
      BY <1>4, <2>4, <3>1, <3>2
  <2>6. ASSUME NEW a \in Addr, \A i \in 1 .. sz : a # Wrap(h + i - 1)
        PROVE  m2[a] = m[a]
    <3>1. a \in Nat
      BY RingAssumption DEF Addr
    <3>2. ~ (h <= a /\ a < h + sz)
      <4> SUFFICES ASSUME h <= a, a < h + sz PROVE FALSE
        OBVIOUS
      <4>1. a - h + 1 \in 1 .. sz
        BY <1>2, <1>3, <3>1
      <4>2. Wrap(h + (a - h + 1) - 1) = a
        BY <1>2, <1>3, <2>3, <3>1, RingAssumption DEF Wrap
      <4> QED
        BY <2>6, <4>1, <4>2
    <3> QED
      BY <2>4, <3>2
  <2> QED
    BY <2>2, <2>5, <2>6 DEF sz
<1> QED
  BY <1>5, <1>6

-----------------------------------------------------------------------------
(* Type correctness *)

\* Zeroing the storage keeps memory well-typed and the guard bytes as they are.
LEMMA ZeroedValue ==
  ASSUME NEW m \in Memory
  PROVE  /\ Zeroed(m) \in Memory
         /\ \A a \in Addr \ Storage : Zeroed(m)[a] = m[a]
BY RingAssumption DEF Zeroed, Memory

\* The two copies that user_rb_get makes, and the n bytes from t on, around
\* the end of the storage.
Copied(m, h, t, len) ==
  LET sz == GetSize(h, t, len)
      rz == FirstRun(h, t, sz)
  IN  Load(m, t, rz) \o Load(m, 0, sz - rz)

Oldest(m, t, n) == [i \in 1 .. n |-> m[Wrap(t + i - 1)]]

\* What a get copies out: the oldest unread bytes.
LEMMA GetValue ==
  ASSUME NEW m \in Memory, NEW h \in Storage, NEW t \in Storage,
         NEW len \in 0 .. MaxLen
  PROVE  Copied(m, h, t, len) = Oldest(m, t, GetSize(h, t, len))
<1> DEFINE sz == GetSize(h, t, len)
           rz == FirstRun(h, t, sz)
           A == Load(m, t, rz)
           B == Load(m, 0, sz - rz)
           R == [i \in 1 .. sz |-> m[Wrap(t + i - 1)]]
<1>1. /\ sz \in Nat /\ rz \in Nat /\ rz <= sz /\ t + rz <= Size
      /\ rz < sz => t + rz = Size /\ sz - rz <= h
  BY GetSizeBounds
<1>2. t \in Nat /\ h \in Nat /\ t < Size /\ h < Size /\ Size \in Nat
  BY RingAssumption DEF Storage
<1> HIDE DEF sz, rz
<1>3. A \in Seq(Bytes) /\ Len(A) = rz /\ \A i \in 1 .. rz : A[i] = m[t + i - 1]
  <2>1. \A i \in 1 .. rz : m[t + i - 1] \in Bytes
    BY <1>1, <1>2, RingAssumption DEF Memory, Addr
  <2> QED
    BY <1>1, <2>1 DEF Load
<1>4. /\ B \in Seq(Bytes) /\ Len(B) = sz - rz
      /\ \A i \in 1 .. sz - rz : B[i] = m[0 + i - 1]
  <2>1. \A i \in 1 .. sz - rz : m[0 + i - 1] \in Bytes
    BY <1>1, <1>2, RingAssumption DEF Memory, Addr
  <2>2. sz - rz \in Nat
    BY <1>1
  <2> QED
    BY <2>1, <2>2 DEF Load
<1> HIDE DEF A, B
<1>5. /\ A \o B \in Seq(Bytes) /\ Len(A \o B) = sz
      /\ \A i \in 1 .. sz : (A \o B)[i] = IF i <= rz THEN A[i] ELSE B[i - rz]
  <2>1. Len(A) + Len(B) = sz
    BY <1>1, <1>3, <1>4
  <2> QED
    BY <1>3, <1>4, <2>1, ConcatProperties
<1>6. ASSUME NEW i \in 1 .. sz
      PROVE  (A \o B)[i] = m[Wrap(t + i - 1)]
  <2>1. CASE i <= rz
    <3>1. Wrap(t + i - 1) = t + i - 1 /\ i \in 1 .. rz
      BY <1>1, <1>2, <2>1 DEF Wrap
    <3> QED
      BY <1>3, <1>5, <2>1, <3>1
  <2>2. CASE ~ (i <= rz)
    <3>1. Wrap(t + i - 1) = 0 + (i - rz) - 1
      BY <1>1, <1>2, <2>2 DEF Wrap
    <3>2. i - rz \in 1 .. sz - rz
      BY <1>1, <2>2
    <3> QED
      BY <1>4, <1>5, <2>2, <3>1, <3>2
  <2> QED
    BY <2>1, <2>2
<1>7. /\ R \in Seq(Bytes) /\ Len(R) = sz
      /\ \A i \in 1 .. sz : R[i] = m[Wrap(t + i - 1)]
  <2>1. \A i \in 1 .. sz : m[Wrap(t + i - 1)] \in Bytes
    BY <1>5, <1>6, ElementOfSeq
  <2> QED
    BY <1>1, <2>1
<1> HIDE DEF R
<1>8. A \o B = R
  BY <1>5, <1>6, <1>7, SeqEqual
<1> QED
  BY <1>8 DEF Copied, Oldest, A, B, R, sz, rz

\* Every address a walk of at most Size bytes from tail visits holds a byte.
LEMMA RingBytes ==
  ASSUME NEW m \in Memory, NEW t \in Storage, NEW n \in Nat, n <= Size
  PROVE  \A i \in 1 .. n : m[Wrap(t + i - 1)] \in Bytes
BY RingAssumption DEF Memory, Addr, Storage, Wrap

\* A call without bytes hands over the empty string.
LEMMA EmptyString == <<>> \in Strings /\ 0 \in 0 .. MaxLen
<1>1. 0 \in 0 .. MaxLen
  BY RingAssumption
<1>2. <<>> \in [1 .. 0 -> Bytes]
  OBVIOUS
<1> QED
  BY <1>1, <1>2 DEF Strings

\* What a call without arguments or results leaves for its caller is typed.
LEMMA Idle ==
  ASSUME Call(<<>>, 0, <<>>, 0)
  PROVE  /\ given' \in Strings /\ wanted' \in 0 .. MaxLen
         /\ des' \in Seq(Bytes) /\ ret' \in 0 .. MaxLen
<1>1. <<>> \in Seq(Bytes)
  OBVIOUS
<1> QED
  BY <1>1, EmptyString, Zenon DEF Call

\* head and tail stay inside the storage for every sequence of calls: the
\* assumption under which put and get compute their sizes always holds.
THEOREM TypeCorrect == Spec => []TypeOK
<1>1. Init => TypeOK
  <2> SUFFICES ASSUME Init
               PROVE  TypeOK
    OBVIOUS
  <2>1. 0 \in Storage /\ 0 \in 0 .. MaxLen /\ <<>> \in Seq(Bytes)
    BY RingAssumption DEF Storage
  <2>2. mem \in Memory
    BY ZeroedValue DEF Init
  <2> QED
    BY <2>1, <2>2, EmptyString DEF Init, TypeOK
<1>2. TypeOK /\ [Next]_vars => TypeOK'
  <2> SUFFICES ASSUME TypeOK, [Next]_vars
               PROVE  TypeOK'
    OBVIOUS
  <2>1. ASSUME NEW src \in Strings, user_rb_put(src)
        PROVE  TypeOK'
    <3>1. Len(src) \in 0 .. MaxLen
      BY StringIsSeq
    <3>2. /\ PutSize(head, tail, Len(src)) \in 0 .. MaxLen
          /\ Wrap(head + PutSize(head, tail, Len(src))) \in Storage
      <4>1. head \in Storage /\ tail \in Storage
        BY DEF TypeOK
      <4>2. /\ PutSize(head, tail, Len(src)) \in Nat
            /\ PutSize(head, tail, Len(src)) <= Len(src)
            /\ Wrap(head + PutSize(head, tail, Len(src))) \in Storage
        BY <3>1, <4>1, PutSizeBounds
      <4> QED
        BY <3>1, <4>2, RingAssumption
    <3>3. PutMemory(mem, head, tail, src) \in Memory
      BY PutMemoryValue DEF TypeOK
    <3> QED
      BY <2>1, <3>2, <3>3, EmptyString DEF TypeOK, user_rb_put, Call
  <2>2. ASSUME NEW len \in 0 .. MaxLen, user_rb_get(len)
        PROVE  TypeOK'
    <3> DEFINE sz == GetSize(head, tail, len)
    <3>1. /\ sz \in Nat /\ sz <= len /\ Wrap(tail + sz) \in Storage
          /\ sz <= user_rb_unread_size(head, tail)
      BY GetSizeBounds DEF TypeOK
    <3>2. user_rb_unread_size(head, tail) \in 0 .. Size - 1
      BY UnreadBounds DEF TypeOK
    <3>3. sz <= Size
      BY <3>1, <3>2, RingAssumption
    <3>4. des' = [i \in 1 .. sz |-> mem[Wrap(tail + i - 1)]]
      <4>1. mem \in Memory /\ head \in Storage /\ tail \in Storage
        BY Zenon DEF TypeOK
      <4>2. des' = Copied(mem, head, tail, len)
        BY <2>2, Zenon DEF user_rb_get, Call, Copied
      <4>3. des' = Oldest(mem, tail, sz)
        BY <4>1, <4>2, GetValue
      <4> QED
        BY <4>3, Zenon DEF Oldest
    <3>5. \A i \in 1 .. sz : mem[Wrap(tail + i - 1)] \in Bytes
      BY <3>1, <3>3, RingBytes DEF TypeOK
    <3> HIDE DEF sz
    <3>6. des' \in Seq(Bytes)
      BY <3>1, <3>4, <3>5
    <3> QED
      BY <2>2, <3>1, <3>6, RingAssumption, EmptyString
         DEF TypeOK, user_rb_get, Call, sz
  <2>3. CASE user_rb_reset \/ user_rb_init
    <3>1. 0 \in Storage
      BY RingAssumption DEF Storage
    <3>2. Zeroed(mem) \in Memory
      BY ZeroedValue DEF TypeOK
    <3>3. mem' \in Memory /\ head' \in Storage /\ tail' \in Storage
      BY <2>3, <3>1, <3>2, Zenon DEF user_rb_reset, user_rb_init
    <3>4. lock' \in BOOLEAN
      BY <2>3, Zenon DEF TypeOK, user_rb_reset, user_rb_init
    <3>5. Call(<<>>, 0, <<>>, 0)
      BY <2>3, Zenon DEF user_rb_reset, user_rb_init
    <3> QED
      BY <3>3, <3>4, <3>5, Idle DEF TypeOK
  <2>4. CASE user_rb_lock \/ user_rb_unlock
    <3>1. mem' = mem /\ head' = head /\ tail' = tail
      BY <2>4 DEF user_rb_lock, user_rb_unlock
    <3>2. lock' \in BOOLEAN
      BY <2>4, Zenon DEF user_rb_lock, user_rb_unlock
    <3>3. Call(<<>>, 0, <<>>, 0)
      BY <2>4, Zenon DEF user_rb_lock, user_rb_unlock
    <3> QED
      BY <3>1, <3>2, <3>3, Idle DEF TypeOK
  <2>5. CASE UNCHANGED vars
    BY <2>5 DEF TypeOK, vars
  <2> QED
    BY <2>1, <2>2, <2>3, <2>4, <2>5 DEF Next
<1> QED
  BY <1>1, <1>2, PTL DEF Spec

\* No call ever writes a byte behind the ring's storage.
THEOREM NoOverrun == Spec => GuardIntact
<1> DEFINE Same == \A a \in Addr \ Storage : mem'[a] = mem[a]
<1>1. TypeOK /\ [Next]_vars => [Same]_vars
  <2> SUFFICES ASSUME TypeOK, Next
               PROVE  Same
    OBVIOUS
  <2>1. ASSUME NEW src \in Strings, user_rb_put(src)
        PROVE  Same
    <3> SUFFICES ASSUME NEW a \in Addr \ Storage
                 PROVE  mem'[a] = mem[a]
      OBVIOUS
    <3> DEFINE sz == PutSize(head, tail, Len(src))
    <3>1. Len(src) \in 0 .. MaxLen
      BY StringIsSeq
    <3>2. sz \in Nat /\ sz <= Size - user_rb_unread_size(head, tail)
      BY <3>1, PutSizeBounds DEF TypeOK
    <3>3. user_rb_unread_size(head, tail) \in 0 .. Size - 1
      BY UnreadBounds DEF TypeOK
    <3>4. \A i \in 1 .. sz : Wrap(head + i - 1) \in Storage
      BY <3>2, <3>3, RingAssumption DEF TypeOK, Storage, Wrap
    <3> HIDE DEF sz
    <3>5. \A i \in 1 .. sz : a # Wrap(head + i - 1)
      BY <3>4
    <3>6. mem \in Memory /\ head \in Storage /\ tail \in Storage
      BY Zenon DEF TypeOK
    <3>7. mem' = PutMemory(mem, head, tail, src) /\ a \in Addr
      BY <2>1, Zenon DEF user_rb_put
    <3> QED
      BY <3>5, <3>6, <3>7, PutMemoryValue DEF sz
  <2>2. ASSUME NEW len \in 0 .. MaxLen, user_rb_get(len)
        PROVE  Same
    BY <2>2 DEF user_rb_get
  <2>3. CASE user_rb_reset \/ user_rb_init
    BY <2>3, ZeroedValue DEF TypeOK, user_rb_reset, user_rb_init
  <2>4. CASE user_rb_lock \/ user_rb_unlock
    BY <2>4 DEF user_rb_lock, user_rb_unlock
  <2> QED
    BY <2>1, <2>2, <2>3, <2>4 DEF Next
<1> QED
  BY <1>1, TypeCorrect, PTL DEF Spec, GuardIntact

-----------------------------------------------------------------------------
(* The ring implements the bounded queue *)

\* A ring as a queue: its contents are a byte sequence of the unread size.
LEMMA ContentsIsSeq ==
  ASSUME TypeOK
  PROVE  /\ Contents \in Seq(Bytes)
         /\ Len(Contents) = user_rb_unread_size(head, tail)
         /\ \A i \in 1 .. user_rb_unread_size(head, tail) :
              Contents[i] = mem[Wrap(tail + i - 1)]
<1> DEFINE U == user_rb_unread_size(head, tail)
<1>1. U \in Nat /\ U <= Size
  BY UnreadBounds, RingAssumption DEF TypeOK
<1> HIDE DEF U
<1>2. \A i \in 1 .. U : mem[Wrap(tail + i - 1)] \in Bytes
  BY <1>1, RingBytes DEF TypeOK
<1>3. Contents = [i \in 1 .. U |-> mem[Wrap(tail + i - 1)]]
  BY DEF Contents, U
<1>4. /\ Contents \in Seq(Bytes)
      /\ Len(Contents) = U
      /\ \A i \in 1 .. U : Contents[i] = mem[Wrap(tail + i - 1)]
  BY <1>1, <1>2, <1>3
<1> QED
  BY <1>4 DEF U

\* The index arithmetic of a put: what is accepted fits into the free space,
\* the unread size grows by it (to zero when the storage fills), new bytes go
\* behind the unread ones and never onto them.
LEMMA PutArithmetic ==
  ASSUME NEW h \in Storage, NEW t \in Storage, NEW len \in 0 .. MaxLen
  PROVE  LET U == user_rb_unread_size(h, t)
             n == PutSize(h, t, len)
         IN  /\ n = AtMost(Size - U, len)
             /\ user_rb_unread_size(Wrap(h + n), t)
                  = IF U + n = Size THEN 0 ELSE U + n
             /\ \A i \in 1 .. n : Wrap(t + (U + i) - 1) = Wrap(h + i - 1)
             /\ \A i \in 1 .. U, j \in 1 .. n :
                  Wrap(t + i - 1) # Wrap(h + j - 1)
<1> DEFINE U == user_rb_unread_size(h, t)
           n == PutSize(h, t, len)
<1>1. n = AtMost(Size - U, len)
  BY RingAssumption DEF PutSize, AtMost, user_rb_unread_size, Storage
<1>2. n \in Nat /\ n <= Size - U
  BY PutSizeBounds
<1>3. U \in 0 .. Size - 1
  BY UnreadBounds
<1>4. h \in Nat /\ t \in Nat /\ h < Size /\ t < Size /\ Size \in Nat
  BY RingAssumption DEF Storage
<1>5. \/ h >= t /\ U = h - t
      \/ h < t /\ U = Size + h - t
  BY <1>4 DEF user_rb_unread_size
<1> HIDE DEF U, n
<1>6. user_rb_unread_size(Wrap(h + n), t) = IF U + n = Size THEN 0 ELSE U + n
  BY <1>2, <1>3, <1>4, <1>5 DEF user_rb_unread_size, Wrap
<1>7. \A i \in 1 .. n : Wrap(t + (U + i) - 1) = Wrap(h + i - 1)
  BY <1>2, <1>3, <1>4, <1>5 DEF Wrap
<1>8. \A i \in 1 .. U, j \in 1 .. n : Wrap(t + i - 1) # Wrap(h + j - 1)
  BY <1>2, <1>3, <1>4, <1>5 DEF Wrap
<1> QED
  BY <1>1, <1>6, <1>7, <1>8 DEF U, n

\* The index arithmetic of a get: the unread size shrinks by what is
\* delivered and the bytes left are the same ones, renumbered.
LEMMA GetArithmetic ==
  ASSUME NEW h \in Storage, NEW t \in Storage, NEW len \in 0 .. MaxLen
  PROVE  LET U == user_rb_unread_size(h, t)
             n == GetSize(h, t, len)
         IN  /\ n = AtMost(U, len)
             /\ user_rb_unread_size(h, Wrap(t + n)) = U - n
             /\ \A i \in 1 .. U - n :
                  Wrap(Wrap(t + n) + i - 1) = Wrap(t + (n + i) - 1)
<1> DEFINE U == user_rb_unread_size(h, t)
           n == GetSize(h, t, len)
<1>1. n = AtMost(U, len)
  BY DEF GetSize
<1>2. n \in Nat /\ n <= U
  BY GetSizeBounds
<1>3. U \in 0 .. Size - 1
  BY UnreadBounds
<1>4. h \in Nat /\ t \in Nat /\ h < Size /\ t < Size /\ Size \in Nat
  BY RingAssumption DEF Storage
<1>5. \/ h >= t /\ U = h - t
      \/ h < t /\ U = Size + h - t
  BY <1>4 DEF user_rb_unread_size
<1> HIDE DEF U, n
<1>6. user_rb_unread_size(h, Wrap(t + n)) = U - n
  BY <1>2, <1>3, <1>4, <1>5 DEF user_rb_unread_size, Wrap
<1>7. \A i \in 1 .. U - n : Wrap(Wrap(t + n) + i - 1) = Wrap(t + (n + i) - 1)
  BY <1>2, <1>3, <1>4, <1>5 DEF Wrap
<1> QED
  BY <1>1, <1>6, <1>7 DEF U, n

\* A put of the ring is a Put of the queue.
LEMMA PutRefines ==
  ASSUME TypeOK, TypeOK', NEW src \in Strings, user_rb_put(src)
  PROVE  Fifo!Put(src)
<1> DEFINE U == user_rb_unread_size(head, tail)
           n == PutSize(head, tail, Len(src))
           V == user_rb_unread_size(head', tail')
           S == SubSeq(src, 1, n)
<1>1. src \in Seq(Bytes) /\ Len(src) \in 0 .. MaxLen
  BY StringIsSeq
<1>2. /\ n = AtMost(Size - U, Len(src))
      /\ V = IF U + n = Size THEN 0 ELSE U + n
      /\ \A i \in 1 .. n : Wrap(tail + (U + i) - 1) = Wrap(head + i - 1)
      /\ \A i \in 1 .. U, j \in 1 .. n :
           Wrap(tail + i - 1) # Wrap(head + j - 1)
  BY <1>1, PutArithmetic DEF TypeOK, user_rb_put
<1>3. n \in Nat /\ n <= Len(src) /\ U \in 0 .. Size - 1
  BY <1>1, PutSizeBounds, UnreadBounds DEF TypeOK
<1>4. /\ \A i \in 1 .. n : mem'[Wrap(head + i - 1)] = src[i]
      /\ \A a \in Addr : (\A i \in 1 .. n : a # Wrap(head + i - 1))
                           => mem'[a] = mem[a]
  <2>1. mem \in Memory /\ head \in Storage /\ tail \in Storage
    BY Zenon DEF TypeOK
  <2>2. mem' = PutMemory(mem, head, tail, src)
    BY Zenon DEF user_rb_put
  <2> QED
    BY <2>1, <2>2, PutMemoryValue
<1>5. /\ Contents \in Seq(Bytes) /\ Len(Contents) = U
      /\ \A i \in 1 .. U : Contents[i] = mem[Wrap(tail + i - 1)]
  BY ContentsIsSeq
<1>6. /\ Contents' \in Seq(Bytes) /\ Len(Contents') = V
      /\ \A i \in 1 .. V : Contents'[i] = mem'[Wrap(tail' + i - 1)]
  <2>1. Contents' = [i \in 1 .. V |-> mem'[Wrap(tail' + i - 1)]]
    BY DEF Contents
  <2>2. mem' \in Memory /\ head' \in Storage /\ tail' \in Storage
    BY DEF TypeOK
  <2>3. V \in Nat /\ V <= Size
    BY <2>2, UnreadBounds, RingAssumption
  <2> HIDE DEF V
  <2>4. \A i \in 1 .. V : mem'[Wrap(tail' + i - 1)] \in Bytes
    BY <2>2, <2>3, RingBytes
  <2> QED
    BY <2>1, <2>3, <2>4
<1>7. tail' = tail
  BY DEF user_rb_put
<1>8. /\ S \in Seq(Bytes) /\ Len(S) = n /\ \A i \in 1 .. n : S[i] = src[i]
  <2>1. \A i \in 1 .. n : src[i] \in Bytes
    BY <1>1, <1>3, ElementOfSeq
  <2> HIDE DEF n
  <2>2. /\ S \in Seq(Bytes)
        /\ Len(S) = IF 1 <= n THEN n - 1 + 1 ELSE 0
        /\ \A i \in 1 .. n - 1 + 1 : S[i] = src[1 + i - 1]
    <3>1. 1 \in Int /\ n \in Int
      BY <1>3
    <3> QED
      BY <2>1, <3>1, SubSeqProperties
  <2> QED
    BY <1>3, <2>2
<1> HIDE DEF U, n, V, S
<1>9. CASE U + n = Size
  <2>1. Contents' = <<>>
    BY <1>2, <1>6, <1>9, EmptySeq
  <2> QED
    BY <1>2, <1>5, <1>9, <2>1
       DEF Fifo!Put, Fifo!Call, Fifo!AtMost, AtMost, user_rb_put, Call, n
<1>10. CASE U + n # Size
  <2>1. /\ Contents \o S \in Seq(Bytes) /\ Len(Contents \o S) = U + n
        /\ \A i \in 1 .. U + n : (Contents \o S)[i] =
             IF i <= U THEN Contents[i] ELSE S[i - U]
    <3>1. Len(Contents) + Len(S) = U + n
      BY <1>3, <1>5, <1>8
    <3> QED
      BY <1>5, <1>8, <3>1, ConcatProperties
  <2>2. ASSUME NEW i \in 1 .. U + n
        PROVE  Contents'[i] = (Contents \o S)[i]
    <3>1. Contents'[i] = mem'[Wrap(tail + i - 1)]
      BY <1>2, <1>3, <1>6, <1>7, <1>10
    <3>2. CASE i <= U
      <4>1. i \in 1 .. U
        BY <1>3, <3>2
      <4>2. Wrap(tail + i - 1) \in Addr
        BY <1>3, <4>1, RingAssumption DEF TypeOK, Addr, Storage, Wrap
      <4>3. mem'[Wrap(tail + i - 1)] = mem[Wrap(tail + i - 1)]
        BY <1>2, <1>4, <4>1, <4>2
      <4> QED
        BY <1>5, <2>1, <3>1, <3>2, <4>1, <4>3
    <3>3. CASE ~ (i <= U)
      <4>1. i - U \in 1 .. n /\ U + (i - U) = i
        BY <1>3, <3>3
      <4>2. Wrap(tail + (U + (i - U)) - 1) = Wrap(head + (i - U) - 1)
        BY <1>2, <4>1
      <4>3. mem'[Wrap(tail + i - 1)] = src[i - U]
        BY <1>4, <4>1, <4>2
      <4> QED
        BY <1>8, <2>1, <3>1, <3>3, <4>1, <4>3
    <3> QED
      BY <3>2, <3>3
  <2>3. Contents' = Contents \o S
    BY <1>2, <1>6, <1>10, <2>1, <2>2, SeqEqual
  <2> QED
    BY <1>2, <1>5, <1>10, <2>3
       DEF Fifo!Put, Fifo!Call, Fifo!AtMost, AtMost, user_rb_put, Call, n, S
<1> QED
  BY <1>9, <1>10

\* A get of the ring is a Get of the queue.
LEMMA GetRefines ==
  ASSUME TypeOK, TypeOK', NEW len \in 0 .. MaxLen, user_rb_get(len)
  PROVE  Fifo!Get(len)
<1> DEFINE U == user_rb_unread_size(head, tail)
           n == GetSize(head, tail, len)
           A == SubSeq(Contents, 1, n)
           B == SubSeq(Contents, n + 1, U)
<1>1. /\ n = AtMost(U, len)
      /\ user_rb_unread_size(head', tail') = U - n
      /\ \A i \in 1 .. U - n :
           Wrap(tail' + i - 1) = Wrap(tail + (n + i) - 1)
  BY GetArithmetic DEF TypeOK, user_rb_get
<1>2. n \in Nat /\ n <= U /\ U \in Nat
  BY GetSizeBounds, UnreadBounds DEF TypeOK
<1>3. des' = [i \in 1 .. n |-> mem[Wrap(tail + i - 1)]]
  <2>1. mem \in Memory /\ head \in Storage /\ tail \in Storage
    BY Zenon DEF TypeOK
  <2>2. des' = Copied(mem, head, tail, len)
    BY Zenon DEF user_rb_get, Call, Copied
  <2>3. des' = Oldest(mem, tail, n)
    BY <2>1, <2>2, GetValue
  <2> QED
    BY <2>3, Zenon DEF Oldest
<1>4. /\ Contents \in Seq(Bytes) /\ Len(Contents) = U
      /\ \A i \in 1 .. U : Contents[i] = mem[Wrap(tail + i - 1)]
  BY ContentsIsSeq
<1>5. Contents' = [i \in 1 .. U - n |-> mem[Wrap(tail' + i - 1)]]
  BY <1>1 DEF Contents, user_rb_get
<1> HIDE DEF U, n
<1>6. \A i \in 1 .. U : Contents[i] \in Bytes
  BY <1>4, ElementOfSeq
<1>7. /\ A \in Seq(Bytes) /\ Len(A) = n /\ \A i \in 1 .. n : A[i] = Contents[i]
  <2>1. 1 \in Int /\ n \in Int /\ \A i \in 1 .. n : Contents[i] \in Bytes
    BY <1>2, <1>6
  <2>2. /\ A \in Seq(Bytes)
        /\ Len(A) = IF 1 <= n THEN n - 1 + 1 ELSE 0
        /\ \A i \in 1 .. n - 1 + 1 : A[i] = Contents[1 + i - 1]
    BY <2>1, SubSeqProperties
  <2> QED
    BY <1>2, <2>2
<1>8. /\ B \in Seq(Bytes) /\ Len(B) = U - n
      /\ \A i \in 1 .. U - n : B[i] = Contents[n + i]
  <2>1. n + 1 \in Int /\ U \in Int /\ \A i \in n + 1 .. U : Contents[i] \in Bytes
    BY <1>2, <1>6
  <2>2. /\ B \in Seq(Bytes)
        /\ Len(B) = IF n + 1 <= U THEN U - (n + 1) + 1 ELSE 0
        /\ \A i \in 1 .. U - (n + 1) + 1 : B[i] = Contents[(n + 1) + i - 1]
    BY <2>1, SubSeqProperties
  <2>3. \A i \in 1 .. U - n : (n + 1) + i - 1 = n + i
    BY <1>2
  <2>4. U - (n + 1) + 1 = U - n
    BY <1>2
  <2> QED
    BY <1>2, <2>2, <2>3, <2>4
<1> HIDE DEF A, B
<1>9. des' = A
  <2>1. \A i \in 1 .. n : mem[Wrap(tail + i - 1)] = A[i]
    BY <1>2, <1>4, <1>7
  <2>2. A = [i \in 1 .. n |-> A[i]]
    BY <1>7, LenProperties
  <2> QED
    BY <1>3, <2>1, <2>2
<1>10. Contents' = B
  <2>1. ASSUME NEW i \in 1 .. U - n
        PROVE  mem[Wrap(tail' + i - 1)] = B[i]
    <3>1. n + i \in 1 .. U
      BY <1>2
    <3> QED
      BY <1>1, <1>4, <1>8, <3>1
  <2>2. B = [i \in 1 .. U - n |-> B[i]]
    BY <1>8, LenProperties
  <2> QED
    BY <1>5, <2>1, <2>2
<1> QED
  BY <1>1, <1>4, <1>9, <1>10
     DEF Fifo!Get, Fifo!Call, Fifo!AtMost, AtMost, user_rb_get, Call, n, A, B

\* Empty contents when head and tail are both zero.
LEMMA ZeroContents ==
  ASSUME head = 0, tail = 0
  PROVE  Contents = <<>>
BY DEF Contents, user_rb_unread_size

\* user_ringbuffer.c implements the bounded queue of RingFifo, for every size:
\* the only bytes ever lost are those of a put that does not fit and those a
\* put that exactly fills the storage makes unreachable.
THEOREM RingIsFifo == Spec => ImplementsFifo
<1>1. Init => Fifo!Init
  BY ZeroContents DEF Init, Fifo!Init
<1>2. TypeOK /\ TypeOK' /\ [Next]_vars => [Fifo!Next]_(Fifo!vars)
  <2> SUFFICES ASSUME TypeOK, TypeOK', [Next]_vars
               PROVE  Fifo!Next \/ UNCHANGED Fifo!vars
    OBVIOUS
  <2>1. ASSUME NEW src \in Strings, user_rb_put(src)
        PROVE  Fifo!Next
    BY <2>1, PutRefines DEF Fifo!Next, Fifo!Strings, Strings
  <2>2. ASSUME NEW len \in 0 .. MaxLen, user_rb_get(len)
        PROVE  Fifo!Next
    BY <2>2, GetRefines DEF Fifo!Next
  <2>3. CASE user_rb_reset
    <3>1. Contents' = <<>>
      BY <2>3 DEF user_rb_reset, Contents, user_rb_unread_size
    <3>2. Fifo!Empty(FALSE)
      BY <2>3, <3>1 DEF user_rb_reset, Call, Fifo!Empty, Fifo!Call
    <3> QED
      BY <3>2 DEF Fifo!Next
  <2>4. CASE user_rb_init
    <3>1. Contents' = <<>>
      BY <2>4 DEF user_rb_init, Contents, user_rb_unread_size
    <3>2. Fifo!Empty(TRUE)
      BY <2>4, <3>1 DEF user_rb_init, Call, Fifo!Empty, Fifo!Call
    <3> QED
      BY <3>2 DEF Fifo!Next
  <2>5. ASSUME NEW b \in BOOLEAN, lock' = b,
               Call(<<>>, 0, <<>>, 0), UNCHANGED <<mem, head, tail>>
        PROVE  Fifo!Next
    <3>1. Contents' = Contents
      BY <2>5 DEF Contents
    <3>2. Fifo!SetLock(b)
      BY <2>5, <3>1 DEF Call, Fifo!SetLock, Fifo!Call
    <3> QED
      BY <3>2 DEF Fifo!Next
  <2>6. CASE user_rb_lock \/ user_rb_unlock
    BY <2>5, <2>6 DEF user_rb_lock, user_rb_unlock
  <2>7. CASE UNCHANGED vars
    <3>1. Contents' = Contents
      BY <2>7 DEF vars, Contents
    <3> QED
      BY <2>7, <3>1 DEF vars, Fifo!vars
  <2> QED
    BY <2>1, <2>2, <2>3, <2>4, <2>6, <2>7 DEF Next
<1> QED
  BY <1>1, <1>2, TypeCorrect, PTL DEF Spec, Fifo!Spec, ImplementsFifo

-----------------------------------------------------------------------------
(* The Xlink configuration in flash. *)

\* While a write is under way the buffer is the image it programs, and the
\* sector is still the old one or the image up to the word that comes next.
WriteUnderWay ==
  /\ step # "program" => word = 1
  /\ step # "idle" => auth_pwd_name_buf = image
  /\ step = "erase" => flash = before
  /\ step = "program" =>
       flash = [i \in WordIndex |-> IF i < word THEN image[i] ELSE ErasedWord]

\* What the last write saved is in the image, and then in the sector; so is
\* the rest unless the write was patchy.
WriteKept ==
  /\ \A i \in WordIndex : saved[i] <= writes
  /\ step # "idle" =>
       /\ writes > 0
       /\ \A i \in WordIndex : saved[i] = writes => image[i] = writes
       /\ ~ patchy => image = saved

\* A buffer read from a sound sector, or programmed into it, holds what is
\* saved: this is what a short write builds on.
BufferWarm ==
  (step = "idle" /\ warm /\ ~ cut /\ ~ patchy) => auth_pwd_name_buf = saved

StoreInv ==
  StoreTypeOK /\ WriteUnderWay /\ WriteKept /\ BufferWarm /\ StoreSound

\* What a word may hold, by name.
LEMMA WordValues ==
  ASSUME StoreAssumption
  PROVE  /\ ErasedWord \in Word /\ 0 \in Word
         /\ Words \in Nat /\ 1 \in WordIndex
         /\ [i \in WordIndex |-> 0] \in [WordIndex -> Word]
         /\ [i \in WordIndex |-> ErasedWord] \in [WordIndex -> Word]
<1>1. ErasedWord \in Word /\ 0 \in Word /\ Words \in Nat /\ 1 \in WordIndex
  BY DEF StoreAssumption, Word, ErasedWord, WordIndex
<1> QED
  BY <1>1

\* The device from the factory.
LEMMA StoreInitially ==
  ASSUME StoreAssumption, StoreInit
  PROVE  StoreInv
<1>1. StoreTypeOK
  <2>1. writes \in 0 .. MaxWrites
    BY DEF StoreInit, StoreAssumption
  <2> QED
    BY <2>1, WordValues DEF StoreTypeOK, StoreInit
<1>2. WriteUnderWay /\ WriteKept /\ BufferWarm
  BY DEF StoreInit, WriteUnderWay, WriteKept, BufferWarm, ErasedWord
<1>3. StoreSound
  BY DEF StoreInit, StoreSound, LastWriteReadable, NeverMixed
<1> QED
  BY <1>1, <1>2, <1>3 DEF StoreInv

\* user_write_config up to the erase: the image holds the new data at its
\* start and, unless the write is patchy, what was saved behind it.
LEMMA WriteBegins ==
  ASSUME StoreAssumption, StoreInv, NEW n \in WordIndex, user_write_config(n)
  PROVE  StoreInv'
<1> USE DEF StoreInv, StoreAssumption
<1>0. Words \in Nat /\ n \in 1 .. Words /\ writes \in Nat /\ writes + 1 \in Word
  BY DEF WordIndex, StoreTypeOK, user_write_config, Word, ErasedWord
<1>1. /\ auth_pwd_name_buf' \in [WordIndex -> Word]
      /\ saved' \in [WordIndex -> Word]
      /\ \A i \in WordIndex :
           /\ auth_pwd_name_buf'[i] = IF i <= n THEN writes + 1 ELSE auth_pwd_name_buf[i]
           /\ saved'[i] = IF i <= n THEN writes + 1 ELSE saved[i]
  BY <1>0 DEF StoreTypeOK, user_write_config, Over
<1>2. StoreTypeOK'
  BY <1>0, <1>1 DEF StoreTypeOK, user_write_config, Word
<1>3. WriteUnderWay'
  BY DEF WriteUnderWay, user_write_config
<1>4. WriteKept'
  <2>1. \A i \in WordIndex : saved[i] \in Int /\ saved[i] <= writes
    BY DEF StoreTypeOK, WriteKept, Word, ErasedWord
  <2>2. \A i \in WordIndex : saved'[i] <= writes' /\ (saved'[i] = writes' => image'[i] = writes')
    BY <1>0, <1>1, <2>1 DEF user_write_config
  <2>3. ASSUME ~ patchy' PROVE image' = saved'
    <3>1. CASE n = Words
      BY <1>0, <1>1, <3>1 DEF user_write_config, WordIndex, Over
    <3>2. CASE n # Words
      <4>1. auth_pwd_name_buf = saved
        BY <2>3, <3>2 DEF user_write_config, BufferWarm
      <4> QED
        BY <4>1 DEF user_write_config
    <3> QED
      BY <3>1, <3>2
  <2> QED
    BY <1>0, <2>2, <2>3 DEF WriteKept, user_write_config
<1>5. BufferWarm' /\ StoreSound'
  BY DEF user_write_config, BufferWarm, StoreSound, LastWriteReadable, NeverMixed
<1> QED
  BY <1>2, <1>3, <1>4, <1>5

\* spi_flash_erase_sector.
LEMMA EraseKeeps ==
  ASSUME StoreAssumption, StoreInv, EraseSector
  PROVE  StoreInv'
<1> USE DEF StoreInv, StoreAssumption, EraseSector
<1>1. StoreTypeOK'
  BY WordValues DEF StoreTypeOK
<1>2. WriteUnderWay'
  BY DEF WriteUnderWay, WordIndex
<1>3. WriteKept' /\ BufferWarm'
  BY DEF WriteKept, BufferWarm
<1>4. NeverMixed'
  <2>1. flash' = [i \in WordIndex |-> IF i <= 0 THEN image'[i] ELSE ErasedWord]
    BY DEF WordIndex
  <2> QED
    BY <2>1 DEF NeverMixed
<1> QED
  BY <1>1, <1>2, <1>3, <1>4 DEF StoreSound, LastWriteReadable

\* One word of spi_flash_write; the last one ends the write.
LEMMA ProgramKeeps ==
  ASSUME StoreAssumption, StoreInv, Program
  PROVE  StoreInv'
<1> USE DEF StoreInv, StoreAssumption, Program
<1>0. /\ Words \in Nat /\ word \in 1 .. Words
      /\ flash \in [WordIndex -> Word] /\ image \in [WordIndex -> Word]
      /\ flash' = [i \in WordIndex |-> IF i <= word THEN image[i] ELSE ErasedWord]
  <2>1. Words \in Nat /\ word \in 1 .. Words
    BY DEF StoreTypeOK, WordIndex
  <2>2. flash' = [flash EXCEPT ![word] = image[word]]
    BY DEF WriteUnderWay
  <2>3. flash = [i \in WordIndex |-> IF i < word THEN image[i] ELSE ErasedWord]
    BY DEF WriteUnderWay
  <2>4. flash' = [i \in WordIndex |-> IF i <= word THEN image[i] ELSE ErasedWord]
    BY <2>1, <2>2, <2>3 DEF WordIndex
  <2> QED
    BY <2>1, <2>4 DEF StoreTypeOK
<1>1. StoreTypeOK'
  <2>1. flash' \in [WordIndex -> Word]
    BY <1>0, WordValues
  <2>2. word' \in WordIndex
    BY <1>0 DEF WordIndex
  <2> QED
    BY <2>1, <2>2 DEF StoreTypeOK
<1>2. WriteUnderWay'
  <2>1. step' = "program" =>
          flash' = [i \in WordIndex |-> IF i < word' THEN image'[i] ELSE ErasedWord]
    <3>1. step' = "program" =>
            image' = image /\ \A i \in 1 .. Words : i < word' <=> i <= word
      BY <1>0
    <3> QED
      BY <1>0, <3>1 DEF WordIndex
  <2> QED
    BY <2>1 DEF WriteUnderWay
<1>3. WriteKept'
  BY DEF WriteKept
<1>4. step' = "idle" => flash' = image
  BY <1>0 DEF WordIndex
<1>5. BufferWarm'
  BY DEF BufferWarm, WriteUnderWay, WriteKept
<1>6. LastWriteReadable'
  BY <1>4 DEF LastWriteReadable, WriteKept
<1>7. NeverMixed'
  <2>1. word \in 0 .. Words /\ image' = image
    BY <1>0
  <2> QED
    BY <1>0, <2>1 DEF NeverMixed
<1> QED
  BY <1>1, <1>2, <1>3, <1>5, <1>6, <1>7 DEF StoreSound

\* Every step of the store keeps the invariant.
LEMMA StoreNextKeeps ==
  ASSUME StoreAssumption, StoreInv, [StoreNext]_storeVars
  PROVE  StoreInv'
<1>1. ASSUME NEW n \in WordIndex, user_write_config(n) PROVE StoreInv'
  BY <1>1, WriteBegins
<1>2. CASE EraseSector
  BY <1>2, EraseKeeps
<1>3. CASE Program
  BY <1>3, ProgramKeeps
<1>4. CASE user_read_config
  BY <1>4 DEF StoreInv, StoreTypeOK, WriteUnderWay, WriteKept, BufferWarm, StoreSound,
              LastWriteReadable, NeverMixed, user_read_config
<1>5. CASE PowerLost
  <2>2. StoreTypeOK'
    BY <1>5, WordValues DEF PowerLost, StoreInv, StoreTypeOK
  <2>3. WriteUnderWay' /\ WriteKept' /\ BufferWarm'
    BY <1>5 DEF PowerLost, StoreInv, WriteUnderWay, WriteKept, BufferWarm
  <2>4. LastWriteReadable'
    BY <1>5 DEF PowerLost, StoreInv, StoreSound, LastWriteReadable
  <2>5. NeverMixed'
    BY <1>5 DEF PowerLost, StoreInv, StoreSound, NeverMixed
  <2> QED
    BY <2>2, <2>3, <2>4, <2>5 DEF StoreInv, StoreSound
<1>6. CASE UNCHANGED storeVars
  BY <1>6 DEF storeVars, StoreInv, StoreTypeOK, WriteUnderWay, WriteKept, BufferWarm,
              StoreSound, LastWriteReadable, NeverMixed
<1> QED
  BY <1>1, <1>2, <1>3, <1>4, <1>5, <1>6 DEF StoreNext

\* user_write_config and user_read_config, with any buffer size and power
\* failing anywhere: what was saved can be read back and the sector is never
\* a mixture.
THEOREM StoreStaysSound ==
  ASSUME StoreAssumption
  PROVE  StoreSpec => []StoreSound
<1>1. StoreInit => StoreInv
  BY StoreInitially
<1>2. StoreInv /\ [StoreNext]_storeVars => StoreInv'
  BY StoreNextKeeps
<1>3. StoreInv => StoreSound
  BY DEF StoreInv
<1> QED
  BY <1>1, <1>2, <1>3, PTL DEF StoreSpec

-----------------------------------------------------------------------------
(* The configuration of the MQTT example. *)

Version == 0 .. MaxVersion

CfgTypeOK ==
  /\ copy \in [0 .. 1 -> Version \union {Erased, Cut}]
  /\ flag \in {0, 1, Erased}
  /\ sysCfg \in Version /\ stored \in Version /\ saving \in Version
  /\ cfg_step \in {"boot", "idle", "erase", "write", "flag0", "flag1", "set0", "set1"}

\* A copy that CFG_Load may find when nothing newer has been saved.
StillThere(c) == c = stored \/ (c = Erased /\ stored = 0)

\* Until the flag is erased the copy it names is untouched.  Once the copy
\* with the new configuration is written, the erased flag, which names the
\* second copy, is right whichever copy was the target.
CfgSteps ==
  /\ cfg_step = "idle" => copy[Current] = sysCfg /\ stored = sysCfg
  /\ cfg_step # "boot" => saving = sysCfg
  /\ cfg_step \in {"erase", "write"} => StillThere(copy[Current])
  /\ cfg_step = "flag1" => flag = 0 /\ copy[1] = sysCfg /\ StillThere(copy[0])
  /\ cfg_step = "flag0" => flag # 0 /\ copy[0] = sysCfg /\ StillThere(copy[1])
  /\ cfg_step = "set1" => flag = Erased /\ copy[1] = sysCfg
  /\ cfg_step = "set0" => flag = Erased /\ copy[0] = sysCfg /\ StillThere(copy[1])

CfgInv == CfgTypeOK /\ CfgSteps /\ ConfigSurvives

\* Nothing else reads as a version, or as the flag 0 or 1.
LEMMA CfgValues ==
  ASSUME CfgAssumption
  PROVE  /\ MaxVersion \in Nat \ {0} /\ Version \subseteq Nat
         /\ Erased \in Nat /\ Cut \in Nat /\ Erased # Cut
         /\ Erased \notin Version /\ Cut \notin Version
         /\ Erased # 0 /\ Erased # 1 /\ 0 \in Version
BY DEF CfgAssumption, Erased, Cut, Version

\* CFG_Save writes the copy the flag does not name.
LEMMA TwoCopies ==
  /\ Current \in 0 .. 1 /\ Target \in 0 .. 1 /\ Target # Current
  /\ Target = 1 <=> flag = 0
BY DEF Current, Target

\* Every step of CFG_Load and CFG_Save keeps the invariant.
LEMMA CfgNextKeeps ==
  ASSUME CfgAssumption, CfgInv, [CfgNext]_cfgVars
  PROVE  CfgInv'
<1> USE CfgValues, TwoCopies DEF CfgInv
<1>1. CASE CFG_Load
  <2>1. copy[Current] \in Version \union {Erased, Cut}
    BY DEF CfgTypeOK
  <2>2. /\ copy[Current] # Cut
        /\ copy[Current] = Erased => stored = 0
    BY <1>1 DEF CFG_Load, ConfigSurvives, CfgTypeOK
  <2>3. Current' = Current
    BY <1>1 DEF CFG_Load, Current
  <2>4. CfgTypeOK'
    BY <1>1, <2>1, <2>2 DEF CFG_Load, CfgTypeOK
  <2>5. CfgSteps'
    BY <1>1, <2>1, <2>2, <2>3 DEF CFG_Load, CfgSteps, StillThere
  <2> QED
    BY <1>1, <2>1, <2>2, <2>4, <2>5 DEF CFG_Load, ConfigSurvives, CfgTypeOK
<1>2. CASE CFG_Save
  <2>1. CfgTypeOK'
    BY <1>2 DEF CFG_Save, CfgTypeOK, Version
  <2>2. Current' = Current
    BY <1>2 DEF CFG_Save, Current
  <2>3. CfgSteps'
    BY <1>2, <2>2 DEF CFG_Save, CfgSteps, StillThere
  <2> QED
    BY <1>2, <2>1, <2>3 DEF CFG_Save, ConfigSurvives, CfgTypeOK
<1>3. CASE EraseCopy
  <2>1. /\ copy' = [copy EXCEPT ![Target] = Erased]
        /\ copy'[Current] = copy[Current]
    BY <1>3 DEF EraseCopy, CfgTypeOK
  <2>2. CfgTypeOK'
    BY <1>3, <2>1 DEF EraseCopy, CfgTypeOK
  <2>3. Current' = Current
    BY <1>3 DEF EraseCopy, Current
  <2>4. CfgSteps'
    BY <1>3, <2>1, <2>3 DEF EraseCopy, CfgSteps, StillThere
  <2> QED
    BY <1>3, <2>2, <2>4 DEF EraseCopy, ConfigSurvives
<1>4. CASE WriteCopy
  <2>1. /\ copy' = [copy EXCEPT ![Target] = sysCfg]
        /\ copy'[Current] = copy[Current]
        /\ copy'[Target] = sysCfg
    BY <1>4 DEF WriteCopy, CfgTypeOK
  <2>2. CfgTypeOK'
    BY <1>4, <2>1 DEF WriteCopy, CfgTypeOK
  <2>3. StillThere(copy'[Current])
    BY <1>4, <2>1 DEF WriteCopy, CfgSteps
  <2>4. CfgSteps'
    BY <1>4, <2>1, <2>3 DEF WriteCopy, CfgSteps, StillThere, Current, Target
  <2> QED
    BY <1>4, <2>2, <2>4 DEF WriteCopy, ConfigSurvives
<1>5. CASE EraseFlag
  <2>1. CfgTypeOK'
    BY <1>5 DEF EraseFlag, CfgTypeOK
  <2>2. CfgSteps'
    BY <1>5 DEF EraseFlag, CfgSteps, StillThere
  <2> QED
    BY <1>5, <2>1, <2>2 DEF EraseFlag, ConfigSurvives
<1>6. CASE WriteFlag
  <2>1. CfgTypeOK'
    BY <1>6 DEF WriteFlag, CfgTypeOK
  <2>2. CfgSteps'
    BY <1>6 DEF WriteFlag, CfgSteps, Current
  <2> QED
    BY <1>6, <2>1, <2>2 DEF WriteFlag, ConfigSurvives
<1>7. CASE CfgPowerLost
  <2>1. Current' = Current /\ copy'[Current] = copy[Current]
    BY <1>7 DEF CfgPowerLost, Current, CfgTypeOK
  <2>2. CfgTypeOK'
    BY <1>7 DEF CfgPowerLost, CfgTypeOK
  <2>3. copy[Current] \in {stored, saving} \/ StillThere(copy[Current])
    BY <1>7 DEF CfgPowerLost, CfgTypeOK, CfgSteps, Current, StillThere
  <2>4. ConfigSurvives'
    BY <1>7, <2>1, <2>3 DEF CfgPowerLost, ConfigSurvives, StillThere
  <2> QED
    BY <1>7, <2>2, <2>4 DEF CfgPowerLost, CfgSteps
<1>8. CASE UNCHANGED cfgVars
  BY <1>8 DEF cfgVars, CfgTypeOK, CfgSteps, ConfigSurvives, Current, StillThere
<1> QED
  BY <1>1, <1>2, <1>3, <1>4, <1>5, <1>6, <1>7, <1>8 DEF CfgNext

\* However often and wherever power fails in CFG_Save, CFG_Load finds the
\* configuration saved last or the one being saved.
THEOREM ConfigAlwaysSurvives ==
  ASSUME CfgAssumption
  PROVE  CfgSpec => []ConfigSurvives
<1>1. CfgInit => CfgInv
  BY CfgValues DEF CfgInit, CfgInv, CfgTypeOK, CfgSteps, ConfigSurvives, Current, StillThere
<1>2. CfgInv /\ [CfgNext]_cfgVars => CfgInv'
  BY CfgNextKeeps
<1>3. CfgInv => ConfigSurvives
  BY DEF CfgInv
<1> QED
  BY <1>1, <1>2, <1>3, PTL DEF CfgSpec

-----------------------------------------------------------------------------
(* The UDP server and the interrupt. *)

\* How far the task has brought its address: the fields that are written
\* hold the peer it works for, so that the interrupt, which writes back what
\* it read, cannot disturb it; outside the two short windows the fields
\* belong together.
AddressUnderWay ==
  /\ place = "recv_port" => ip = asked
  /\ place \in {"recv_done", "send"} => ip = asked /\ port = asked
  /\ place \in {"process", "send_port", "send_ip"} => addr = Of(asked)
  /\ place = "send_ip" => port = asked
  /\ ip = port \/ BetweenFields

ServerInv ==
  ServerType /\ AddressUnderWay /\ PipedToOnePeer

\* A frame of the interrupt, at any place of the task.
LEMMA FrameKeeps ==
  ASSUME ServerInv, FramePiped
  PROVE  ServerInv'
<1> USE DEF ServerInv, FramePiped
<1>1. ServerType'
  <2>1. fault' \in BOOLEAN /\ split' \in BOOLEAN
    <3>1. CASE boot = 4
      <4>1. fault' = fault /\ split' = BetweenFields
        BY <3>1 DEF user_udp_send_pipe
      <4>2. BetweenFields \in BOOLEAN
        BY DEF BetweenFields
      <4> QED
        BY <4>1, <4>2 DEF ServerType
    <3>2. CASE boot # 4
      BY <3>2, Zenon DEF ServerType
    <3> QED
      BY <3>1, <3>2
  <2>2. piped' \in Address
    BY DEF ServerType, user_udp_send_pipe, Address
  <2> QED
    BY <2>1, <2>2 DEF ServerType, user_udp_send_pipe
<1>2. AddressUnderWay'
  BY DEF AddressUnderWay, user_udp_send_pipe, BetweenFields
<1>3. PipedToOnePeer'
  BY DEF ServerType, PipedToOnePeer, AddressUnderWay, user_udp_send_pipe, Stages
<1> QED
  BY <1>1, <1>2, <1>3

\* A step of the task or of app_init.
LEMMA TaskKeeps ==
  ASSUME ServerInv, Task \/ app_init \/ Restart \/ UNCHANGED serverVars
  PROVE  ServerInv'
<1> USE DEF ServerInv, Goes, Of, BetweenFields
<1>0. fault => boot = 3
  BY DEF ServerType, PipedToOnePeer, Stages
<1>1. ServerType'
  <2>1. fault' \in BOOLEAN /\ split' \in BOOLEAN
    BY DEF ServerType, Task, app_init, Restart, serverVars, user_udp_recv_cb, RecvIp,
           RecvPort, RecvAddr, NoReply, Reply, XlinkSends, SendPort, SendIp, Send
  <2>2. addr' \in Address /\ sent_to' \in Address /\ piped' \in Address
    BY DEF ServerType, Task, app_init, Restart, serverVars, user_udp_recv_cb, RecvIp,
           RecvPort, RecvAddr, NoReply, Reply, XlinkSends, SendPort, SendIp, Send, Address
  <2>3. /\ boot' \in 1 .. 4
        /\ ip' \in Peers \cup {Nobody} /\ port' \in Peers \cup {Nobody}
        /\ place' \in Places
        /\ asked' \in Peers \cup {Nobody}
        /\ place' # "idle" => boot' = 4
    BY <1>0 DEF ServerType, Task, app_init, Restart, serverVars, user_udp_recv_cb, RecvIp,
           RecvPort, RecvAddr, NoReply, Reply, XlinkSends, SendPort, SendIp, Send, Address,
           Places
  <2> QED
    BY <2>1, <2>2, <2>3 DEF ServerType
<1>2. AddressUnderWay'
  BY DEF AddressUnderWay, Task, app_init, Restart, serverVars, user_udp_recv_cb, RecvIp,
         RecvPort, RecvAddr, NoReply, Reply, XlinkSends, SendPort, SendIp, Send
<1>3. PipedToOnePeer'
  BY DEF ServerType, PipedToOnePeer, Task, app_init, Restart, serverVars, user_udp_recv_cb,
         RecvIp, RecvPort, RecvAddr, NoReply, Reply, XlinkSends, SendPort, SendIp, Send,
         Stages
<1> QED
  BY <1>1, <1>2, <1>3

\* Wherever the interrupt finds the task, user_udp_send's datagrams go to the
\* peer they are meant for and a frame goes to one peer's address.
THEOREM DatagramsGoWhereAsked ==
  ServerSpec => SentWhereAsked
<1>1. ServerInit => ServerInv
  <2> SUFFICES ASSUME ServerInit PROVE ServerInv
    OBVIOUS
  <2>1. ServerType
    <3>1. Of(Nobody) \in Address /\ "idle" \in Places /\ 1 \in 1 .. 4
      BY DEF Of, Address, Places
    <3> QED
      BY <3>1 DEF ServerInit, ServerType
  <2>2. AddressUnderWay /\ PipedToOnePeer
    BY DEF ServerInit, AddressUnderWay, PipedToOnePeer, Of
  <2> QED
    BY <2>1, <2>2 DEF ServerInv
<1>2. ServerInv /\ [ServerNext]_serverVars => ServerInv'
  BY FrameKeeps, TaskKeeps DEF ServerNext
<1>3. ServerInv /\ [ServerNext]_serverVars => [SentRight /\ PipedToOnePeer']_serverVars
  <2> SUFFICES ASSUME ServerInv, ServerNext
               PROVE  SentRight /\ PipedToOnePeer'
    OBVIOUS
  <2>1. PipedToOnePeer'
    BY <1>2 DEF ServerInv
  <2>2. SentRight
    BY DEF ServerInv, AddressUnderWay, SentRight, ServerNext, FramePiped, app_init, Restart,
           Task, Goes, user_udp_recv_cb, RecvIp, RecvPort, RecvAddr, NoReply, Reply,
           XlinkSends, SendPort, SendIp, Send, Of
  <2> QED
    BY <2>1, <2>2
<1> QED
  BY <1>1, <1>2, <1>3, PTL DEF ServerSpec, SentWhereAsked


-----------------------------------------------------------------------------
(* The plug's timers. *)

\* A set of natural numbers that is not empty has a least element.
LEMMA LeastTime ==
  ASSUME NEW T, T \subseteq Nat, T # {}
  PROVE  \E x \in T : \A y \in T : x <= y
<1>1. PICK x \in T : \A y \in T : ~(<<y, x>> \in OpToRel(<, Nat))
  BY NatLessThanWellFounded, WFMin
<1>2. \A y \in T : ~(y < x)
  BY <1>1 DEF OpToRel
<1> QED
  BY <1>2

\* Going on by d, at most once round, from x.
LEMMA Round ==
  ASSUME NEW x \in Int, NEW b \in Nat \ {0}, NEW d \in 0 .. b
  PROVE  /\ x % b \in 0 .. b - 1
         /\ (x % b) + d < b => (x + d) % b = (x % b) + d
         /\ (x % b) + d >= b => (x + d) % b = (x % b) + d - b
<1> DEFINE u == (x + d) \div b
           v == x \div b
           s == (x + d) % b
           r == x % b
<1>1. /\ u \in Int /\ v \in Int /\ s \in 0 .. b - 1 /\ r \in 0 .. b - 1
      /\ x = b * v + r /\ x + d = b * u + s
  BY SMT
<1> SUFFICES (r + d < b => s = r + d) /\ (r + d >= b => s = r + d - b)
  BY <1>1
<1> HIDE DEF u, v, s, r
<1> DEFINE q == u - v
<1>2. (u - v) * b = b * u - b * v /\ b * u \in Int /\ b * v \in Int
  BY <1>1, SMT
<1>3. q \in Int /\ q * b = r + d - s
  BY <1>1, <1>2
<1> HIDE DEF q
<1>4. q * b > 0 - b /\ q * b < 2 * b
  BY <1>1, <1>3
<1>5. q \in {0, 1}
  BY <1>3, <1>4, SMT
<1>6. 0 * b = 0 /\ 1 * b = b
  OBVIOUS
<1> QED
  BY <1>1, <1>3, <1>5, <1>6

\* A multiple of b has no remainder; one smaller than b is its own.
LEMMA Small ==
  ASSUME NEW b \in Nat \ {0}, NEW x \in 0 .. b
  PROVE  (x < b => x % b = x) /\ (x = b => x % b = 0)
BY SMT

\* The values of the constants.
LEMMA ScheduleValues ==
  ASSUME ScheduleAssumption
  PROVE  /\ Hour \in Nat /\ Hour > 0 /\ Week \in Nat /\ Week > 0
         /\ MaxTime \in Nat /\ MaxTime > 0 /\ Monday \in Nat
         /\ Eternity \in Nat /\ Eternity > MaxTime
BY DEF ScheduleAssumption, Eternity

\* wait_time_second is the time to the next moment a timer is due; a fixed
\* time that has passed is not due again.
LEMMA Ahead ==
  ASSUME ScheduleAssumption, NEW e, IsTimer(e), NEW now \in Nat, now >= Monday
  PROVE  LET w == wait_time_second(e, now)
         IN  /\ w \in Int
             /\ w > 0 => Due(e, now + w)
             /\ \A t \in Nat : t > now /\ (w < 0 \/ t < now + w) => ~ Due(e, t)
<1> DEFINE w == wait_time_second(e, now)
           m == (now - Monday) % Week
           T == e.time
<1>0. T \in Nat /\ e.mode \in {"f", "l", "w"}
  BY DEF IsTimer
<1>1. CASE e.mode = "f"
  <2>1. w = T - now /\ \A t : Due(e, t) <=> t = T
    BY <1>1 DEF wait_time_second, Due
  <2> QED
    BY <1>0, <2>1
<1>2. CASE e.mode = "l"
  <2> DEFINE r == now % T
  <2>1. w = T - r /\ \A t : Due(e, t) <=> t % T = 0
    BY <1>2 DEF wait_time_second, Due
  <2>2. T \in Nat \ {0} /\ now \in Int
    BY <1>0, <1>2 DEF IsTimer
  <2>3. ASSUME NEW d \in 0 .. T
        PROVE  /\ r \in 0 .. T - 1
               /\ r + d < T => (now + d) % T = r + d
               /\ r + d >= T => (now + d) % T = r + d - T
    <3> HIDE DEF T
    <3> QED
      BY <2>2, Round, Zenon
  <2> HIDE DEF w, r, T
  <2>4. r \in 0 .. T - 1 /\ w \in 1 .. T
    <3>1. 0 \in 0 .. T
      BY <2>2
    <3>2. r \in 0 .. T - 1
      BY <2>3, <3>1
    <3> QED
      BY <2>1, <2>2, <3>2
  <2>5. (now + w) % T = 0
    <3>1. w \in 0 .. T /\ r + w >= T /\ r + w - T = 0
      BY <2>1, <2>2, <2>4
    <3> QED
      BY <2>3, <3>1
  <2>6. ASSUME NEW t \in Nat, t > now, t < now + w
        PROVE  t % T # 0
    <3> DEFINE d == t - now
    <3>1. d \in 0 .. T /\ now + d = t /\ r + d < T /\ r + d # 0
      BY <2>1, <2>2, <2>4, <2>6
    <3> HIDE DEF d
    <3> QED
      BY <2>3, <3>1
  <2> QED
    BY <2>1, <2>4, <2>5, <2>6 DEF w
<1>3. CASE e.mode = "w"
  <2>1. /\ w = IF T > m THEN T - m ELSE Week - m + T
        /\ \A t : Due(e, t) <=> (t - Monday) % Week = T % Week
    BY <1>3 DEF wait_time_second, Due
  <2>2. Week \in Nat \ {0} /\ now - Monday \in Nat /\ T \in 0 .. Week
    BY <1>0, <1>3, ScheduleValues DEF IsTimer
  <2> DEFINE z == T % Week
  <2> HIDE DEF T
  <2>9. (T < Week => z = T) /\ (T = Week => z = 0)
    BY <2>2, Small
  <2>4. ASSUME NEW d \in 0 .. Week
        PROVE  /\ m \in 0 .. Week - 1
               /\ m + d < Week => ((now - Monday) + d) % Week = m + d
               /\ m + d >= Week => ((now - Monday) + d) % Week = m + d - Week
    <3>1. now - Monday \in Int
      BY <2>2
    <3> QED
      BY <2>2, <3>1, Round, Zenon
  <2> HIDE DEF w, m, z
  <2>3. m \in 0 .. Week - 1
    <3>1. 0 \in 0 .. Week
      BY <2>2
    <3> QED
      BY <2>4, <3>1
  <2>5. \A t \in Nat : (now - Monday) + (t - now) = t - Monday
    BY ScheduleValues
  <2>6. w \in 1 .. Week
    BY <2>1, <2>2, <2>3
  <2>7. ((now + w) - Monday) % Week = z
    <3>1. (now - Monday) + w = (now + w) - Monday
      BY <2>6, ScheduleValues
    <3>2. w \in 0 .. Week
      BY <2>2, <2>6
    <3>3. /\ m + w < Week => ((now + w) - Monday) % Week = m + w
          /\ m + w >= Week => ((now + w) - Monday) % Week = m + w - Week
      BY <2>4, <3>1, <3>2
    <3>4. /\ m + w < Week => z = m + w
          /\ m + w >= Week => z = m + w - Week
      BY <2>1, <2>2, <2>3, <2>9
    <3> QED
      BY <2>2, <2>3, <2>6, <3>3, <3>4
  <2>8. ASSUME NEW t \in Nat, t > now, t < now + w
        PROVE  (t - Monday) % Week # z
    <3> DEFINE d == t - now
    <3>1. d \in 0 .. Week /\ d > 0 /\ d < w
      BY <2>2, <2>6, <2>8
    <3> HIDE DEF d
    <3>2. (now - Monday) + d = t - Monday
      BY <2>5 DEF d
    <3>3. /\ m + d < Week => (t - Monday) % Week = m + d
          /\ m + d >= Week => (t - Monday) % Week = m + d - Week
      BY <2>4, <3>1, <3>2
    <3>4. /\ m + d < Week => m + d # z
          /\ m + d >= Week => m + d - Week # z
      BY <2>1, <2>2, <2>3, <2>9, <3>1
    <3> QED
      BY <2>2, <2>3, <3>1, <3>3, <3>4
  <2>10. Due(e, now + w) /\ \A t \in Nat : t > now /\ t < now + w => ~ Due(e, t)
    <3>1. \A t : Due(e, t) <=> (t - Monday) % Week = z
      BY <2>1, Zenon DEF z
    <3>2. Due(e, now + w)
      BY <2>7, <3>1, Zenon
    <3>3. ASSUME NEW t \in Nat, t > now, t < now + w
          PROVE  ~ Due(e, t)
      <4>1. (t - Monday) % Week # z
        BY <2>8, <3>3, Zenon
      <4> QED
        BY <3>1, <4>1, Zenon
    <3> QED
      BY <3>2, <3>3
  <2>11. w \in Int /\ ~(w < 0)
    BY <2>2, <2>6
  <2> QED
    BY <2>10, <2>11 DEF w
<1> QED
  BY <1>0, <1>1, <1>2, <1>3

\* What esp_platform_find_min_time returns.
LEMMA MinTime ==
  ASSUME ScheduleAssumption, NEW list, NEW now \in Nat
  PROVE  LET min == esp_platform_find_min_time(list, now)
             S == {Eternity} \cup ({wait_time_second(list[k], now) : k \in DOMAIN list} \cap Nat)
         IN  min \in Nat /\ min \in S /\ \A y \in S : min <= y
<1> DEFINE S == {Eternity} \cup ({wait_time_second(list[k], now) : k \in DOMAIN list} \cap Nat)
<1>1. S \subseteq Nat /\ S # {}
  BY ScheduleValues
<1>2. esp_platform_find_min_time(list, now) = CHOOSE x \in S : \A y \in S : x <= y
  BY DEF esp_platform_find_min_time, Min
<1> HIDE DEF S
<1>3. \E x \in S : \A y \in S : x <= y
  BY <1>1, LeastTime
<1>4. /\ esp_platform_find_min_time(list, now) \in S
      /\ \A y \in S : esp_platform_find_min_time(list, now) <= y
  BY <1>2, <1>3, Zenon
<1> QED
  BY <1>1, <1>4 DEF S

\* A list of timers.
IsList(list) == \A k \in DOMAIN list : IsTimer(list[k])

\* Nothing is due before the shortest wait is over, and then exactly the
\* timers that esp_platform_timer_action notes.
LEMMA FirstDue ==
  ASSUME ScheduleAssumption, NEW list, IsList(list), NEW now \in Nat, now >= Monday,
         esp_platform_find_min_time(list, now) # 0
  PROVE  LET min == esp_platform_find_min_time(list, now)
         IN  /\ \A t \in Nat : t > now /\ t < now + min =>
                  \A k \in DOMAIN list : ~ Due(list[k], t)
             /\ now + min <= MaxTime =>
                  {k \in DOMAIN list : wait_time_second(list[k], now) = min}
                  = {k \in DOMAIN list : Due(list[k], now + min)}
<1> DEFINE min == esp_platform_find_min_time(list, now)
           w(k) == wait_time_second(list[k], now)
<1>1. /\ min \in Nat /\ min > 0
      /\ min = Eternity \/ \E k \in DOMAIN list : min = w(k)
      /\ \A k \in DOMAIN list : w(k) \in Nat => min <= w(k)
  BY MinTime
<1>2. ASSUME NEW k \in DOMAIN list
      PROVE  /\ w(k) \in Int
             /\ w(k) > 0 => Due(list[k], now + w(k))
             /\ \A t \in Nat : t > now /\ (w(k) < 0 \/ t < now + w(k)) => ~ Due(list[k], t)
  BY Ahead, Zenon DEF IsList
<1> HIDE DEF min, w
<1>3. ASSUME NEW k \in DOMAIN list
      PROVE  w(k) < 0 \/ w(k) >= min
  BY <1>1, <1>2
<1>4. ASSUME NEW k \in DOMAIN list, NEW t \in Nat, t > now, t < now + min
      PROVE  ~ Due(list[k], t)
  <2>1. w(k) < 0 \/ t < now + w(k)
    BY <1>1, <1>2, <1>3, <1>4
  <2> QED
    BY <1>2, <1>4, <2>1
<1>5. ASSUME NEW k \in DOMAIN list
      PROVE  w(k) = min <=> Due(list[k], now + min)
  <2>1. CASE w(k) = min
    BY <1>1, <1>2, <2>1
  <2>2. CASE w(k) # min
    <3>1. now + min \in Nat /\ now + min > now /\ (w(k) < 0 \/ now + min < now + w(k))
      BY <1>1, <1>2, <1>3, <2>2
    <3> QED
      BY <1>2, <2>2, <3>1
  <2> QED
    BY <2>1, <2>2
<1>6. {k \in DOMAIN list : w(k) = min} = {k \in DOMAIN list : Due(list[k], now + min)}
  BY <1>5
<1> QED
  BY <1>4, <1>6 DEF min, w

\* What esp_platform_timer_action notes.
Noted(list, now, min) ==
  [k \in {k \in DOMAIN list : wait_time_second(list[k], now) = min} |-> list[k].action]

\* While device_timer runs, its wait and what is left of it reach from now to
\* the moment computed from timestamp, and its actions are those of that moment.
WaitInv ==
  /\ timestamp \in Nat /\ timestamp >= Monday /\ timestamp <= clock
  /\ min_wait_second = esp_platform_find_min_time(timer_splits, timestamp)
  /\ min_wait_second # 0
  /\ waiting.actions = Noted(timer_splits, timestamp, min_wait_second)
  /\ waiting.wait \in Nat /\ waiting.left \in Nat
  /\ waiting.last => waiting.left = 0
  /\ timestamp + min_wait_second = (clock + waiting.wait) + waiting.left

\* The invariant, as long as OnTime says anything.
ScheduleInv ==
  ~ zero /\ ~ lost =>
    /\ clock \in Nat /\ clock >= Monday /\ IsList(timer_splits)
    /\ timer_splits # <<>> => waiting.armed \/ halted
    /\ halted => \E k \in DOMAIN timer_splits : timer_splits[k].action = "unknown"
    /\ acted \in {{}, Done(DueAt(clock))}
    /\ waiting.armed => WaitInv

\* p waits for min seconds, in one part or more, and then does the actions.
Waits(p, actions, min) ==
  /\ p.armed /\ p.actions = actions
  /\ p.wait \in Nat /\ p.left \in Nat
  /\ p.last => p.left = 0
  /\ p.wait + p.left = min

\* user_esp_platform_wait_time_overflow_check arms the timer and loses nothing
\* of the wait.
LEMMA PartOfWait ==
  ASSUME ScheduleAssumption, NEW actions, NEW min \in Nat
  PROVE  Waits(user_esp_platform_wait_time_overflow_check(actions, min), actions, min)
<1> DEFINE p == user_esp_platform_wait_time_overflow_check(actions, min)
<1>1. CASE min >= Hour
  <2>1. p = [armed |-> TRUE, actions |-> actions, wait |-> Hour, left |-> min - Hour, last |-> FALSE]
    BY <1>1 DEF user_esp_platform_wait_time_overflow_check
  <2>2. p.armed /\ ~ p.last
    BY <2>1
  <2>3. p.actions = actions /\ p.wait = Hour /\ p.left = min - Hour
    BY <2>1
  <2> HIDE DEF p
  <2>4. p.wait \in Nat /\ p.left \in Nat /\ p.wait + p.left = min
    BY <1>1, <2>3, ScheduleValues
  <2> QED
    BY <2>2, <2>3, <2>4 DEF p, Waits
<1>2. CASE ~(min >= Hour)
  <2>1. p = [armed |-> TRUE, actions |-> actions, wait |-> min, left |-> 0, last |-> TRUE]
    BY <1>2 DEF user_esp_platform_wait_time_overflow_check
  <2>2. p.armed
    BY <2>1
  <2>3. p.actions = actions /\ p.wait = min /\ p.left = 0
    BY <2>1
  <2> HIDE DEF p
  <2>4. p.wait \in Nat /\ p.left \in Nat /\ p.wait + p.left = min
    BY <2>3
  <2> QED
    BY <2>2, <2>3, <2>4 DEF p, Waits
<1> QED
  BY <1>1, <1>2

\* user_platform_timer_first_start arms device_timer for the next moment, or
\* meets a fixed time.
LEMMA FirstStart ==
  ASSUME ScheduleAssumption, IsList(timer_splits'), clock' \in Nat, clock' >= Monday,
         NEW device_timer,
         user_platform_timer_first_start(timer_splits', clock', device_timer),
         min_wait_second' # 0
  PROVE  waiting'.armed /\ WaitInv'
<1> DEFINE now == clock'
           min == esp_platform_find_min_time(timer_splits', now)
<1>1. timestamp' = now /\ min_wait_second' = min
  BY DEF user_platform_timer_first_start
<1>2. min # 0 /\ waiting' = esp_platform_timer_action(timer_splits', now, min)
  BY <1>1 DEF user_platform_timer_first_start
<1>3. min \in Nat
  BY MinTime, Zenon
<1> DEFINE acts == Noted(timer_splits', now, min)
<1>4. waiting' = user_esp_platform_wait_time_overflow_check(acts, min)
  BY <1>2 DEF esp_platform_timer_action, Noted
<1>5. /\ waiting'.armed /\ waiting'.actions = acts
      /\ waiting'.wait \in Nat /\ waiting'.left \in Nat
      /\ waiting'.last => waiting'.left = 0
      /\ waiting'.wait + waiting'.left = min
  <2> HIDE DEF acts, min
  <2>1. Waits(waiting', acts, min)
    BY <1>3, <1>4, PartOfWait
  <2> QED
    BY <2>1, Zenon DEF Waits
<1>6. timestamp' + min_wait_second' = (clock' + waiting'.wait) + waiting'.left
  <2> HIDE DEF min
  <2> QED
    BY <1>1, <1>3, <1>5
<1>7. timestamp' \in Nat /\ timestamp' >= Monday /\ timestamp' <= clock'
  BY <1>1
<1>8. min_wait_second' = esp_platform_find_min_time(timer_splits', timestamp')
  BY <1>1
<1>9. waiting'.actions = Noted(timer_splits', timestamp', min_wait_second')
  BY <1>1, <1>5
<1> QED
  BY <1>1, <1>2, <1>5, <1>6, <1>7, <1>8, <1>9 DEF WaitInv

\* Time is a number, whatever happens.
ClockInv == clock \in Nat /\ clock >= Monday /\ clock <= MaxTime

\* The cloud's message: what held before does not matter.
LEMMA StartKeeps ==
  ASSUME ScheduleAssumption, ClockInv, NEW l \in Lists, user_platform_timer_start(l),
         ~ zero'
  PROVE  ScheduleInv'
<1>1. timer_splits' = l /\ acted' = {} /\ clock' = clock /\ ~ halted'
  BY DEF user_platform_timer_start
<1>2. IsList(l)
  BY DEF ScheduleAssumption, IsList
<1>3. clock \in Nat /\ clock >= Monday
  BY DEF ClockInv
<1>4. CASE l = <<>>
  <2>1. waiting' = Off
    BY <1>4 DEF user_platform_timer_start
  <2>2. ~ waiting'.armed
    BY <2>1 DEF Off
  <2> QED
    BY <1>1, <1>2, <1>3, <1>4, <2>2 DEF ScheduleInv
<1>5. CASE l # <<>>
  <2>1. /\ user_platform_timer_first_start(timer_splits', clock', waiting)
        /\ min_wait_second' # 0
    BY <1>1, <1>5 DEF user_platform_timer_start
  <2>2. waiting'.armed /\ WaitInv'
    BY <1>1, <1>2, <1>3, <2>1, FirstStart
  <2> QED
    BY <1>1, <1>2, <1>3, <2>2 DEF ScheduleInv
<1> QED
  BY <1>4, <1>5

\* A second passes.
LEMMA TickKeeps ==
  ASSUME ScheduleAssumption, ScheduleInv, Tick, ~ zero', ~ lost'
  PROVE  ScheduleInv'
<1>1. /\ clock' = clock + 1 /\ acted' = {}
      /\ UNCHANGED <<timestamp, timer_splits, min_wait_second, zero, halted, lost>>
  BY DEF Tick
<1>2. clock \in Nat /\ clock >= Monday /\ IsList(timer_splits)
  BY <1>1 DEF ScheduleInv
<1>3. clock' \in Nat /\ clock' >= Monday
  BY <1>1, <1>2, ScheduleValues
<1>4. CASE ~ waiting.armed
  <2>1. ~ waiting'.armed
    BY <1>4 DEF Tick
  <2> QED
    BY <1>1, <1>2, <1>3, <1>4, <2>1 DEF ScheduleInv
<1>5. CASE waiting.armed
  <2>1. waiting.wait > 0 /\ waiting' = [waiting EXCEPT !.wait = waiting.wait - 1] /\ WaitInv
    BY <1>1, <1>5 DEF Tick, ScheduleInv
  <2>2. waiting.wait \in Nat /\ waiting.left \in Nat
    BY <2>1 DEF WaitInv
  <2>3. /\ waiting'.armed /\ waiting'.actions = waiting.actions
        /\ waiting'.left = waiting.left /\ waiting'.last = waiting.last
    BY <1>5, <2>1
  <2>4. waiting'.wait = waiting.wait - 1
    BY <2>1 DEF WaitInv
  <2>5. waiting'.wait \in Nat
    BY <2>1, <2>2, <2>4
  <2>6. timestamp \in Nat /\ min_wait_second \in Nat
    BY <2>1, MinTime, Zenon DEF WaitInv
  <2>7. timestamp' + min_wait_second' = (clock' + waiting'.wait) + waiting'.left
    <3>1. timestamp + min_wait_second = (clock + waiting.wait) + waiting.left
      BY <2>1 DEF WaitInv
    <3> QED
      BY <1>1, <1>2, <2>2, <2>3, <2>4, <2>6, <3>1
  <2>8. timestamp' \in Nat /\ timestamp' >= Monday /\ timestamp' <= clock'
    BY <1>1, <1>2, <2>1 DEF WaitInv
  <2>9. WaitInv'
    BY <1>1, <2>1, <2>2, <2>3, <2>5, <2>7, <2>8 DEF WaitInv
  <2> QED
    BY <1>1, <1>2, <1>3, <2>3, <2>9 DEF ScheduleInv
<1> QED
  BY <1>4, <1>5

\* An hour is over.
LEMMA HourKeeps ==
  ASSUME ScheduleAssumption, ScheduleInv, HourOver, ~ zero', ~ lost'
  PROVE  ScheduleInv'
<1>1. /\ waiting.armed /\ waiting.wait = 0 /\ acted' = {}
      /\ waiting' = user_esp_platform_wait_time_overflow_check(waiting.actions, waiting.left)
      /\ UNCHANGED <<clock, timestamp, timer_splits, min_wait_second, zero, halted, lost>>
  BY DEF HourOver, Elapsed
<1>2. /\ clock \in Nat /\ clock >= Monday /\ IsList(timer_splits) /\ WaitInv
      /\ halted => \E k \in DOMAIN timer_splits : timer_splits[k].action = "unknown"
  BY <1>1 DEF ScheduleInv
<1>3. waiting.left \in Nat
  BY <1>2 DEF WaitInv
<1>4. /\ waiting'.armed /\ waiting'.actions = waiting.actions
      /\ waiting'.wait \in Nat /\ waiting'.left \in Nat
      /\ waiting'.last => waiting'.left = 0
      /\ waiting'.wait + waiting'.left = waiting.left
  <2> DEFINE acts == waiting.actions
             n == waiting.left
  <2>1. waiting' = user_esp_platform_wait_time_overflow_check(acts, n) /\ n \in Nat
    BY <1>1, <1>3
  <2> HIDE DEF acts, n
  <2>2. Waits(waiting', acts, n)
    BY <2>1, PartOfWait
  <2> QED
    BY <2>2, Zenon DEF acts, n, Waits
<1>5. timestamp' + min_wait_second' = (clock' + waiting'.wait) + waiting'.left
  BY <1>1, <1>2, <1>3, <1>4 DEF WaitInv
<1>6. WaitInv'
  BY <1>1, <1>2, <1>4, <1>5 DEF WaitInv
<1> QED
  BY <1>1, <1>2, <1>4, <1>6 DEF ScheduleInv

\* The actions of a moment.
LEMMA ActionKeeps ==
  ASSUME ScheduleAssumption, ClockInv, ScheduleInv, user_esp_platform_device_action,
         ~ zero', ~ lost'
  PROVE  ScheduleInv'
<1>1. /\ waiting.armed /\ waiting.last /\ waiting.wait = 0 /\ clock' = clock
      /\ acted' = Done(waiting.actions) /\ timer_splits' = timer_splits /\ lost' = lost
      /\ zero' = zero \/ zero' = (zero \/ min_wait_second' = 0)
  BY DEF user_esp_platform_device_action, Elapsed
<1>2. ~ zero
  BY <1>1
<1>3. /\ clock \in Nat /\ clock >= Monday /\ IsList(timer_splits) /\ WaitInv
      /\ halted => \E k \in DOMAIN timer_splits : timer_splits[k].action = "unknown"
  BY <1>1, <1>2 DEF ScheduleInv
<1>4. waiting.left = 0
  BY <1>1, <1>3 DEF WaitInv
<1>5. clock' = timestamp + min_wait_second
  BY <1>1, <1>3, <1>4 DEF WaitInv
<1>6. acted' \in {{}, Done(DueAt(clock))'}
  <2>1. {k \in DOMAIN timer_splits :
           wait_time_second(timer_splits[k], timestamp) = min_wait_second}
        = {k \in DOMAIN timer_splits : Due(timer_splits[k], clock)}
    BY <1>1, <1>3, <1>5, FirstDue DEF WaitInv, ClockInv
  <2>2. waiting.actions = DueAt(clock)
    BY <1>3, <2>1, Zenon DEF WaitInv, Noted, DueAt
  <2>3. Done(DueAt(clock))' = Done(DueAt(clock))
    BY <1>1 DEF Done, Ends, DueAt
  <2> QED
    BY <1>1, <2>2, <2>3
<1>7. CASE Returns(waiting.actions)
  <2>1. waiting' = Off /\ halted'
    BY <1>7 DEF user_esp_platform_device_action
  <2>2. ~ waiting'.armed
    BY <2>1 DEF Off
  <2>3. \E k \in DOMAIN timer_splits : timer_splits[k].action = "unknown"
    <3>1. PICK k \in DOMAIN waiting.actions : waiting.actions[k] = "unknown"
      BY <1>7 DEF Returns, Ends
    <3>2. k \in DOMAIN timer_splits /\ waiting.actions[k] = timer_splits[k].action
      BY <1>3, <3>1 DEF WaitInv, Noted
    <3> QED
      BY <3>1, <3>2
  <2> QED
    BY <1>1, <1>3, <1>6, <2>1, <2>2, <2>3 DEF ScheduleInv
<1>8. CASE ~ Returns(waiting.actions)
  <2>1. /\ user_platform_timer_first_start(timer_splits, timestamp + min_wait_second, Off)
        /\ zero' = (zero \/ min_wait_second' = 0) /\ halted' = halted
    BY <1>8 DEF user_esp_platform_device_action
  <2>2. waiting'.armed /\ WaitInv'
    BY <1>1, <1>3, <1>5, <2>1, FirstStart
  <2> QED
    BY <1>1, <1>3, <1>6, <2>1, <2>2 DEF ScheduleInv
<1> QED
  BY <1>7, <1>8

\* The plug acts on time (OnTime): for every list of timers the cloud may
\* send, whatever the hour, the week and the moment at which it is sent,
\* user_esp_platform_device_action runs the actions that are due, up to the
\* first that does not switch the plug, the hours of
\* user_esp_platform_wait_time_overflow_check pass none over, and the waiting
\* ends only with an action that is not recognised.  Not covered: what follows
\* a time that is met to the second, and a wait_param that is overwritten on
\* the stack it was left on.
THEOREM PlugActsOnTime ==
  ASSUME ScheduleAssumption
  PROVE  ScheduleSpec => []OnTime
<1>1. ScheduleInit => ClockInv /\ ScheduleInv
  <2> SUFFICES ASSUME ScheduleInit PROVE ClockInv /\ ScheduleInv
    OBVIOUS
  <2>1. ~ waiting.armed
    BY DEF ScheduleInit, Off
  <2>2. ClockInv
    BY ScheduleValues DEF ScheduleInit, ClockInv, ScheduleAssumption
  <2> QED
    BY <2>1, <2>2, ScheduleValues DEF ScheduleInit, ScheduleInv, IsList
<1>2. ClockInv /\ ScheduleInv /\ [ScheduleNext]_scheduleVars => ClockInv' /\ ScheduleInv'
  <2> SUFFICES ASSUME ClockInv, ScheduleInv, [ScheduleNext]_scheduleVars
               PROVE  ClockInv' /\ ScheduleInv'
    OBVIOUS
  <2>1. ClockInv'
    <3>1. CASE Tick
      BY <3>1, ScheduleValues DEF Tick, ClockInv
    <3>2. CASE UNCHANGED clock
      BY <3>2 DEF ClockInv
    <3> QED
      BY <3>1, <3>2
         DEF ScheduleNext, scheduleVars, user_platform_timer_start, HourOver,
             user_esp_platform_device_action, Overwritten
  <2> SUFFICES ASSUME ~ zero', ~ lost' PROVE ScheduleInv'
    BY <2>1 DEF ScheduleInv
  <2>2. CASE \E l \in Lists : user_platform_timer_start(l)
    BY <2>2, StartKeeps
  <2>3. CASE Tick
    BY <2>3, TickKeeps
  <2>4. CASE HourOver
    BY <2>4, HourKeeps
  <2>5. CASE user_esp_platform_device_action
    BY <2>5, ActionKeeps
  <2>6. CASE Overwritten
    BY <2>6 DEF Overwritten
  <2>7. CASE UNCHANGED scheduleVars
    BY <2>7 DEF scheduleVars, ScheduleInv, WaitInv, DueAt, Done, Ends
  <2> QED
    BY <2>2, <2>3, <2>4, <2>5, <2>6, <2>7 DEF ScheduleNext
<1>3. ScheduleInv => OnTime
  <2> SUFFICES ASSUME ScheduleInv, ~ zero, ~ lost, waiting.armed
               PROVE  LET end == (clock + waiting.wait) + waiting.left
                      IN  /\ \A t \in clock + 1 .. end - 1 :
                               \A k \in DOMAIN timer_splits : ~ Due(timer_splits[k], t)
                          /\ end <= MaxTime => waiting.actions = DueAt(end)
    BY DEF ScheduleInv, OnTime
  <2> DEFINE end == timestamp + min_wait_second
  <2>1. clock \in Nat /\ IsList(timer_splits) /\ WaitInv
    BY DEF ScheduleInv
  <2>2. /\ (clock + waiting.wait) + waiting.left = end
        /\ timestamp \in Nat /\ timestamp <= clock /\ timestamp >= Monday
    BY <2>1 DEF WaitInv
  <2>3. /\ \A t \in Nat : t > timestamp /\ t < end =>
             \A k \in DOMAIN timer_splits : ~ Due(timer_splits[k], t)
        /\ end <= MaxTime =>
             {k \in DOMAIN timer_splits :
                wait_time_second(timer_splits[k], timestamp) = min_wait_second}
             = {k \in DOMAIN timer_splits : Due(timer_splits[k], end)}
    BY <2>1, <2>2, FirstDue DEF WaitInv
  <2>a. end <= MaxTime => waiting.actions = DueAt(end)
    BY <2>1, <2>3, Zenon DEF WaitInv, Noted, DueAt
  <2>4. end \in Nat
    <3>1. waiting.wait \in Nat /\ waiting.left \in Nat
      BY <2>1 DEF WaitInv
    <3> QED
      BY <2>1, <2>2, <3>1
  <2> HIDE DEF end
  <2>5. \A t \in clock + 1 .. end - 1 : t \in Nat /\ t > timestamp /\ t < end
    BY <2>1, <2>2, <2>4
  <2> QED
    BY <2>2, <2>3, <2>5, <2>a
<1> QED
  BY <1>1, <1>2, <1>3, PTL DEF ScheduleSpec
-----------------------------------------------------------------------------
(* The light of the IoT example. *)

CONSTANTS Channels, Aims, Stored, Limit, QueueLen

VARIABLES light_events, current_duty, duty_now, pwm_duty, pwm, change_finish, pwm_timer,
          light_sleep_flg, dim

Lt == INSTANCE Light WITH events <- light_events, timer <- pwm_timer

\* The part of a state of the light that the proof speaks of: nothing is queued, a
\* light that sleeps is asked to be dark, and one that has finished is where it
\* was asked to be, in the driver and in light_param.
Settled(s) ==
  /\ s.queue = <<>>
  /\ s.sleep => s.aim = Lt!Dark
  /\ s.done => ~ s.timer /\ s.pwm = s.aim /\ s.param = s.aim

LightState ==
  [queue : Seq([Channels -> Nat]), aim : [Channels -> Nat], now : [Channels -> Int],
   param : [Channels -> Int], pwm : [Channels -> Int], done : BOOLEAN, timer : BOOLEAN,
   sleep : BOOLEAN]

LightInv == Lt!State \in LightState /\ Settled(Lt!State)

\* A step towards the colour keeps the aim, the queue and the sleep, and the
\* domains.
LEMMA SetDutyKeeps ==
  ASSUME NEW s \in LightState
  PROVE  /\ Lt!SetDuty(s) \in LightState
         /\ \A f \in {"queue", "aim", "done", "timer", "sleep"} : Lt!SetDuty(s)[f] = s[f]
<1> DEFINE now == [c \in Channels |-> Lt!Step(s.now[c], s.aim[c])]
<1>1. now \in [Channels -> Int]
  <2> SUFFICES ASSUME NEW c \in Channels PROVE Lt!Step(s.now[c], s.aim[c]) \in Int
    OBVIOUS
  <2>1. s.now[c] \in Int /\ s.aim[c] \in Int
    BY DEF LightState
  <2> QED
    BY <2>1 DEF Lt!Step
<1> HIDE DEF now
<1>2. [c \in Channels |-> IF now[c] # s.param[c] THEN now[c] ELSE s.pwm[c]]
        \in [Channels -> Int]
  BY <1>1 DEF LightState
<1>3. [c \in Channels |-> IF now[c] # s.param[c] THEN now[c] ELSE s.param[c]]
        \in [Channels -> Int]
  BY <1>1 DEF LightState
<1>4. Lt!SetDuty(s) =
        [s EXCEPT !.now = now,
                  !.pwm = [c \in Channels |->
                             IF now[c] # s.param[c] THEN now[c] ELSE s.pwm[c]],
                  !.param = [c \in Channels |->
                               IF now[c] # s.param[c] THEN now[c] ELSE s.param[c]]]
  BY DEF Lt!SetDuty, now
<1> QED
  BY <1>1, <1>2, <1>3, <1>4 DEF LightState

\* light_dh_pwm_adj_proc settles the light or goes on, whatever it was before.
LEMMA AdjKeeps ==
  ASSUME NEW s \in LightState, s.queue = <<>>, s.sleep => s.aim = Lt!Dark
  PROVE  /\ Lt!light_dh_pwm_adj_proc(s) \in LightState
         /\ Settled(Lt!light_dh_pwm_adj_proc(s))
<1> DEFINE t == Lt!SetDuty(s)
<1>1. t \in LightState /\ t.queue = <<>> /\ (t.sleep => t.aim = Lt!Dark)
  BY SetDutyKeeps
<1>2. Lt!light_dh_pwm_adj_proc(s) =
        IF t.pwm # t.aim THEN [t EXCEPT !.done = FALSE, !.timer = TRUE]
        ELSE Lt!Finish([t EXCEPT !.done = TRUE, !.timer = FALSE])
  BY DEF Lt!light_dh_pwm_adj_proc
<1> HIDE DEF t
<1>3. CASE t.pwm # t.aim
  BY <1>1, <1>2, <1>3 DEF LightState, Settled
<1>4. CASE t.pwm = t.aim
  <2> DEFINE u == [t EXCEPT !.done = TRUE, !.timer = FALSE]
  <2>1. u \in LightState /\ u.queue = <<>> /\ (u.sleep => u.aim = Lt!Dark)
        /\ u.pwm = u.aim /\ u.done = TRUE /\ u.timer = FALSE
    BY <1>1, <1>4 DEF LightState
  <2>2. Lt!light_dh_pwm_adj_proc(s) = Lt!Finish(u)
    BY <1>2, <1>4
  <2> HIDE DEF u
  <2>3. Lt!Finish(u) = [u EXCEPT !.param = u.aim, !.sleep = u.sleep \/ u.pwm = Lt!Dark]
    BY DEF Lt!Finish
  <2>4. (u.sleep \/ u.pwm = Lt!Dark) \in BOOLEAN
    BY <2>1 DEF LightState
  <2> DEFINE z == u.sleep \/ u.pwm = Lt!Dark
             v == Lt!Finish(u)
  <2>5. z \in BOOLEAN /\ (z = TRUE => u.aim = Lt!Dark)
    BY <2>1, <2>4
  <2>6. v = [u EXCEPT !.param = u.aim, !.sleep = z]
    BY <2>3
  <2> HIDE DEF z, v
  <2>7. /\ v \in LightState /\ v.queue = u.queue /\ v.aim = u.aim /\ v.sleep = z
        /\ v.done = u.done /\ v.timer = u.timer /\ v.pwm = u.pwm /\ v.param = u.aim
    BY <2>1, <2>5, <2>6 DEF LightState
  <2>8. Settled(v)
    BY <2>1, <2>5, <2>7 DEF Settled
  <2> QED
    BY <2>2, <2>7, <2>8 DEF v
<1> QED
  BY <1>3, <1>4

\* light_set_aim takes the colour from the queue at once.
LEMMA SetAimKeeps ==
  ASSUME Lt!LightAssumption,
         NEW s \in LightState, s.queue = <<>>,
         NEW aim \in [Channels -> Nat], s.sleep => aim = Lt!Dark,
         s.done => ~ s.timer
  PROVE  /\ Lt!light_set_aim(s, aim) \in LightState
         /\ Settled(Lt!light_set_aim(s, aim))
<1> DEFINE capped == [c \in Channels |-> IF aim[c] < Limit THEN aim[c] ELSE Limit]
           q == [s EXCEPT !.queue = Append(s.queue, capped)]
           t == [q EXCEPT !.aim = Head(q.queue), !.queue = Tail(q.queue)]
           u == IF q.queue # <<>> /\ q.done THEN Lt!light_dh_pwm_adj_proc(t) ELSE t
<1>1. Limit \in Nat /\ QueueLen \in Nat /\ QueueLen > 0
  BY DEF Lt!LightAssumption
<1>2. capped \in [Channels -> Nat]
  BY <1>1
<1>3. aim = Lt!Dark => capped = Lt!Dark
  BY <1>1 DEF Lt!Dark
<1>4. Lt!light_set_aim(s, aim) = Lt!light_pwm_smooth_adj_proc(q)
  <2>1. Len(s.queue) < QueueLen
    BY <1>1
  <2> QED
    BY <2>1 DEF Lt!light_set_aim
<1> HIDE DEF capped
<1>5. /\ q.queue = <<capped>> /\ q.done = s.done /\ q \in LightState
      /\ q.sleep = s.sleep /\ q.timer = s.timer
  <2>1. Append(s.queue, capped) = <<capped>> /\ <<capped>> \in Seq([Channels -> Nat])
    BY <1>2
  <2>2. q = [s EXCEPT !.queue = <<capped>>]
    BY <2>1
  <2> HIDE DEF q
  <2> QED
    BY <2>1, <2>2 DEF LightState
<1>6. Lt!light_pwm_smooth_adj_proc(q) = IF u.done THEN Lt!Finish(u) ELSE u
  BY <1>5 DEF Lt!light_pwm_smooth_adj_proc
<1> HIDE DEF q
<1>7. /\ t \in LightState /\ t.aim = capped /\ t.queue = <<>>
      /\ t.done = s.done /\ t.sleep = s.sleep /\ t.timer = s.timer
  <2>1. Head(q.queue) = capped /\ Tail(q.queue) = <<>>
    BY <1>2, <1>5
  <2>2. t = [q EXCEPT !.aim = capped, !.queue = <<>>]
    BY <2>1
  <2>3. <<>> \in Seq([Channels -> Nat])
    OBVIOUS
  <2> HIDE DEF t
  <2> QED
    BY <1>2, <1>5, <2>2, <2>3 DEF LightState
<1>8. t.sleep => t.aim = Lt!Dark
  BY <1>3, <1>7
<1>9. u = IF s.done THEN Lt!light_dh_pwm_adj_proc(t) ELSE t
  <2>1. q.queue # <<>>
    BY <1>5
  <2> HIDE DEF t
  <2> QED
    BY <1>5, <2>1
<1> HIDE DEF t, u
<1>10. CASE ~ s.done
  BY <1>4, <1>6, <1>7, <1>8, <1>9, <1>10 DEF Settled
<1>11. CASE s.done
  <2>1. u \in LightState /\ Settled(u)
    BY <1>7, <1>8, <1>9, <1>11, AdjKeeps
  <2>2. CASE ~ u.done
    BY <1>4, <1>6, <2>1, <2>2
  <2>3. CASE u.done
    <3>1. Lt!Finish(u) = [u EXCEPT !.param = u.aim, !.sleep = u.sleep \/ u.pwm = Lt!Dark]
      BY DEF Lt!Finish
    <3>2. (u.sleep \/ u.pwm = Lt!Dark) \in BOOLEAN
      BY <2>1 DEF LightState
    <3>3. Lt!light_set_aim(s, aim) = Lt!Finish(u)
      BY <1>4, <1>6, <2>3
    <3> QED
      <4>1. u.aim \in [Channels -> Int] /\ u.pwm = u.aim /\ ~ u.timer /\ u.queue = <<>>
        BY <2>1, <2>3 DEF LightState, Settled
      <4>2. (u.sleep \/ u.pwm = Lt!Dark) => u.aim = Lt!Dark
        BY <2>1, <2>3 DEF Settled
      <4> DEFINE v == Lt!Finish(u)
      <4>4. /\ v \in LightState /\ v.queue = <<>> /\ v.timer = u.timer /\ v.pwm = u.aim
            /\ v.param = u.aim /\ v.aim = u.aim
            /\ v.sleep = (u.sleep \/ u.pwm = Lt!Dark)
        BY <2>1, <3>1, <3>2, <4>1 DEF LightState
      <4> QED
        BY <3>3, <4>1, <4>2, <4>4 DEF Settled
  <2> QED
    BY <2>2, <2>3
<1> QED
  BY <1>10, <1>11

\* The state after an action is the record it computed.
LEMMA LightBecomes ==
  ASSUME NEW s \in LightState, Settled(s), Lt!Becomes(s)
  PROVE  LightInv'
<1>1. Lt!State' = s
  BY DEF Lt!Becomes, Lt!State, LightState
<1> QED
  BY <1>1 DEF LightInv, Settled, Lt!Dark

\* No colour asked for is lost in the queue of the light, whatever its length, the
\* Wi-Fi sleeps only in the dark, and a light that reports its colour as reached has
\* it in the driver and in light_param, for any channels, colours and limit.
THEOREM LightStaysSound ==
  ASSUME Lt!LightAssumption
  PROVE  Lt!Spec => []Lt!QueueNeverFills
<1>1. Lt!Init => LightInv
  <2> SUFFICES ASSUME Lt!Init PROVE LightInv
    OBVIOUS
  <2> DEFINE param(d) == [c \in Channels |-> d]
             start(d) == [queue |-> <<>>, aim |-> Lt!Dark, now |-> Lt!Dark,
                          param |-> param(d), pwm |-> Lt!Dark,
                          done |-> TRUE, timer |-> FALSE, sleep |-> FALSE]
  <2>1. PICK d \in Stored : Lt!State = Lt!light_set_aim(start(d), param(d))
    <3>1. PICK d \in Stored :
            LET s == Lt!light_set_aim(start(d), param(d))
            IN  /\ light_events = s.queue /\ current_duty = s.aim /\ duty_now = s.now
                /\ pwm_duty = s.param /\ pwm = s.pwm /\ change_finish = s.done
                /\ pwm_timer = s.timer /\ light_sleep_flg = s.sleep
      BY DEF Lt!Init
    <3>2. d \in Nat
      BY DEF Lt!LightAssumption
    <3>3. start(d) \in LightState /\ param(d) \in [Channels -> Nat]
      BY <3>2 DEF LightState, Lt!Dark
    <3>4. Lt!light_set_aim(start(d), param(d)) \in LightState
      BY <3>3, SetAimKeeps
    <3> HIDE DEF start, param
    <3> QED
      BY <3>1, <3>4 DEF Lt!State, LightState
  <2>2. d \in Nat
    BY DEF Lt!LightAssumption
  <2>3. start(d) \in LightState /\ param(d) \in [Channels -> Nat]
    BY <2>2 DEF LightState, Lt!Dark
  <2>4. /\ Lt!light_set_aim(start(d), param(d)) \in LightState
        /\ Settled(Lt!light_set_aim(start(d), param(d)))
    BY <2>3, SetAimKeeps
  <2> QED
    BY <2>1, <2>4 DEF LightInv
<1>2. LightInv /\ [Lt!Next]_Lt!vars => LightInv'
  <2> SUFFICES ASSUME LightInv, [Lt!Next]_Lt!vars PROVE LightInv'
    OBVIOUS
  <2>1. ASSUME Lt!AdjTimer PROVE LightInv'
    <3> DEFINE s == [Lt!State EXCEPT !.timer = FALSE]
    <3>1. s \in LightState /\ s.queue = <<>> /\ (s.sleep => s.aim = Lt!Dark)
      BY DEF LightInv, Settled, LightState
    <3>2. Lt!Becomes(Lt!light_dh_pwm_adj_proc(s))
      BY <2>1 DEF Lt!AdjTimer
    <3> HIDE DEF s
    <3> QED
      BY <3>1, <3>2, AdjKeeps, LightBecomes
  <2>2. ASSUME NEW aim \in Lt!Duties, Lt!light_status_set(aim) PROVE LightInv'
    <3> DEFINE s == [Lt!State EXCEPT !.sleep = Lt!State.sleep /\ aim = Lt!Dark]
    <3>1. (Lt!State.sleep /\ aim = Lt!Dark) \in BOOLEAN
      BY DEF LightInv, LightState
    <3>2. /\ s \in LightState /\ s.queue = <<>> /\ (s.sleep => aim = Lt!Dark)
          /\ (s.done => ~ s.timer)
      BY <3>1 DEF LightInv, Settled, LightState
    <3>3. Lt!Becomes(Lt!light_set_aim(s, aim))
      BY <2>2 DEF Lt!light_status_set
    <3>4. aim \in [Channels -> Nat]
      BY <2>2 DEF Lt!Duties, Lt!LightAssumption
    <3> HIDE DEF s
    <3> QED
      BY <3>2, <3>3, <3>4, SetAimKeeps, LightBecomes
  <2>3. CASE UNCHANGED Lt!vars
    BY <2>3 DEF Lt!vars, LightInv, Lt!State, Settled, Lt!Dark
  <2> QED
    BY <2>1, <2>2, <2>3 DEF Lt!Next
<1>3. LightInv => Lt!QueueNeverFills
  BY DEF LightInv, Settled, Lt!State, LightState, Lt!QueueNeverFills
<1> QED
  BY <1>1, <1>2, <1>3, PTL DEF Lt!Spec
-----------------------------------------------------------------------------
(* The cloud client of the IoT example. *)

CONSTANTS MaxRecon, CountMod, MaxLookups, MaxConns

VARIABLES client_timer, beacon_timer, station, lookups, known, connecting, open, closing,
          ping_status, activeflag, device_recon_count, upgrading, firstPart, heard, refused

Cl == INSTANCE Platform WITH timer <- client_timer, beacon <- beacon_timer,
                             recon <- device_recon_count, part <- firstPart

\* user_platform_timer_get leads nowhere: client_timer set for it counts as off.
TimerIdle == client_timer \in {"off", "timer_get"}

\* Something other than client_timer leads on.
LeadsOn == connecting > 0 \/ refused

\* What NeverGivenUp says of client_timer holds as well while it waits for
\* user_platform_timer_get, which is why it survives that.
LinkInv ==
  /\ connecting \in Nat /\ open \in Nat
  /\ closing \in BOOLEAN /\ refused \in BOOLEAN /\ beacon_timer \in BOOLEAN
  /\ heard \in BOOLEAN /\ activeflag \in BOOLEAN
  /\ TimerIdle => LeadsOn \/ open > 0
  /\ TimerIdle /\ open = 1 /\ heard /\ activeflag => beacon_timer \/ closing \/ LeadsOn

\* A start of the program, from Init or by a restart.
LEMMA RestartKeeps ==
  ASSUME NEW a \in BOOLEAN, Cl!Restart(a)
  PROVE  LinkInv'
BY DEF Cl!Restart, LinkInv, TimerIdle, LeadsOn

\* The callbacks of client_timer.
LEMMA ClientTimerKeeps ==
  ASSUME LinkInv, Cl!ClientTimer
  PROVE  LinkInv'
<1>1. CASE Cl!CheckIpTimer
  BY <1>1 DEF Cl!CheckIpTimer, Cl!user_esp_platform_check_ip, Cl!user_esp_platform_start_dns,
              Cl!user_esp_platform_reset_mode, Cl!net, LinkInv, TimerIdle, LeadsOn
<1>2. CASE Cl!user_esp_platform_dns_check_cb
  BY <1>2 DEF Cl!user_esp_platform_dns_check_cb, Cl!net, LinkInv, TimerIdle, LeadsOn
<1>3. CASE Cl!user_esp_platform_ap_change
  BY <1>3 DEF Cl!user_esp_platform_ap_change, Cl!net, LinkInv, TimerIdle, LeadsOn
<1>4. CASE Cl!RebootTimer
  <2>1. activeflag \in BOOLEAN /\ Cl!Restart(activeflag)
    BY <1>4 DEF Cl!RebootTimer, LinkInv
  <2> QED
    BY <2>1, RestartKeeps
<1>5. CASE Cl!user_platform_timer_get
  BY <1>5 DEF Cl!user_platform_timer_get, Cl!net, LinkInv, TimerIdle, LeadsOn
<1> QED
  BY <1>1, <1>2, <1>3, <1>4, <1>5 DEF Cl!ClientTimer

\* The answers of the resolver and the callbacks of the connection.
LEMMA ConnectionKeeps ==
  ASSUME LinkInv,
         \/ Cl!dns_found_Null \/ Cl!dns_found_Addr
         \/ Cl!user_esp_platform_connect_cb \/ Cl!ConnectionEnds
  PROVE  LinkInv'
<1>1. CASE Cl!dns_found_Null
  BY <1>1 DEF Cl!dns_found_Null, Cl!user_esp_platform_reset_mode, Cl!net, LinkInv,
              TimerIdle, LeadsOn
<1>2. CASE Cl!dns_found_Addr
  <2>1. CASE known
    <3>1. UNCHANGED <<client_timer, connecting, refused, beacon_timer, open, closing,
                      activeflag, heard>>
      BY <1>2, <2>1 DEF Cl!dns_found_Addr
    <3> QED
      BY <3>1 DEF LinkInv, TimerIdle, LeadsOn
  <2>2. CASE ~ known
    <3>1. \/ connecting' = connecting + 1 /\ refused' = FALSE
          \/ connecting' = connecting /\ refused' = TRUE
      BY <1>2, <2>2 DEF Cl!dns_found_Addr
    <3>2. UNCHANGED <<beacon_timer, open, closing, activeflag, heard>>
      BY <1>2 DEF Cl!dns_found_Addr
    <3>3. connecting' \in Nat /\ refused' \in BOOLEAN /\ LeadsOn'
      <4>1. CASE connecting' = connecting + 1 /\ refused' = FALSE
        <5>1. connecting' \in Nat /\ connecting' > 0
          BY <4>1 DEF LinkInv
        <5> QED
          BY <4>1, <5>1 DEF LeadsOn
      <4>2. CASE connecting' = connecting /\ refused' = TRUE
        BY <4>2 DEF LinkInv, LeadsOn
      <4> QED
        BY <3>1, <4>1, <4>2
    <3> QED
      BY <3>2, <3>3 DEF LinkInv
  <2> QED
    BY <2>1, <2>2
<1>3. CASE Cl!user_esp_platform_connect_cb
  <2>1. /\ connecting' \in Nat /\ open' \in Nat /\ open' > 0 /\ heard' = FALSE
        /\ UNCHANGED <<beacon_timer, closing, activeflag, refused>>
    BY <1>3 DEF Cl!user_esp_platform_connect_cb, LinkInv
  <2> QED
    BY <2>1 DEF LinkInv
<1>4. CASE Cl!user_esp_platform_recon_cb
  <2>1. client_timer' \in {"ap_change", "reconnect"} /\ beacon_timer' = FALSE
    BY <1>4 DEF Cl!user_esp_platform_recon_cb, Cl!recon_cb, Cl!user_esp_platform_reset_mode
  <2>2. connecting' \in Nat /\ open' \in Nat /\ (closing' = FALSE \/ closing' = closing)
    BY <1>4 DEF Cl!user_esp_platform_recon_cb, LinkInv
  <2>3. UNCHANGED <<activeflag, heard, refused>>
    BY <1>4 DEF Cl!user_esp_platform_recon_cb
  <2>4. ~ TimerIdle'
    BY <2>1 DEF TimerIdle
  <2> QED
    BY <2>1, <2>2, <2>3, <2>4 DEF LinkInv
<1>5. CASE Cl!user_esp_platform_discon_cb
  <2>1. client_timer' \in {"dns_check", "ap_change", "check_ip"} /\ beacon_timer' = FALSE
    BY <1>5 DEF Cl!user_esp_platform_discon_cb, Cl!user_esp_platform_start_dns
  <2>2. connecting' \in Nat /\ open' \in Nat /\ closing' = FALSE
    BY <1>5 DEF Cl!user_esp_platform_discon_cb, LinkInv
  <2>3. UNCHANGED <<activeflag, heard, refused>>
    BY <1>5 DEF Cl!user_esp_platform_discon_cb
  <2>4. ~ TimerIdle'
    BY <2>1 DEF TimerIdle
  <2> QED
    BY <2>1, <2>2, <2>3, <2>4 DEF LinkInv
<1> QED
  BY <1>1, <1>2, <1>3, <1>4, <1>5 DEF Cl!ConnectionEnds

\* The beacon: it is left off only without activation, without connection or
\* when the connection is to be closed.
LEMMA BeaconKeeps ==
  ASSUME LinkInv, Cl!user_esp_platform_sent_beacon
  PROVE  LinkInv'
<1>1. UNCHANGED <<client_timer, connecting, open, heard, refused, activeflag>>
  BY DEF Cl!user_esp_platform_sent_beacon
<1>2. beacon_timer' \in BOOLEAN /\ closing' \in BOOLEAN
  BY DEF Cl!user_esp_platform_sent_beacon, LinkInv
<1>3. beacon_timer' \/ closing' \/ open = 0 \/ ~ activeflag
  BY DEF Cl!user_esp_platform_sent_beacon, LinkInv
<1>4. (TimerIdle' <=> TimerIdle) /\ (LeadsOn' <=> LeadsOn)
  BY <1>1 DEF TimerIdle, LeadsOn
<1> QED
  BY <1>1, <1>2, <1>3, <1>4 DEF LinkInv

\* What the server says.
LEMMA ReceivedKeeps ==
  ASSUME LinkInv, Cl!user_esp_platform_recv_cb
  PROVE  LinkInv'
<1>1. CASE Cl!RecvActivated
  <2>1. TRUE \in BOOLEAN /\ Cl!Restart(TRUE)
    BY <1>1 DEF Cl!RecvActivated
  <2> QED
    BY <2>1, RestartKeeps
<1>2. CASE ~ Cl!RecvActivated
  <2>1. Cl!Received /\ activeflag' = activeflag
    BY <1>2 DEF Cl!user_esp_platform_recv_cb, Cl!RecvPart, Cl!RecvOther, Cl!RecvPong,
                Cl!user_esp_platform_upgrade_begin, Cl!RecvReboot, Cl!RecvTimersChanged,
                Cl!Whole
  <2> QED
    BY <2>1 DEF Cl!Received, LinkInv, TimerIdle, LeadsOn
<1> QED
  BY <1>1, <1>2

\* The link to the cloud is never given up, whatever the limits: some timer, request
\* or connection leads on, and a connection on which something was heard is watched
\* by the beacon, unless espconn_connect refused, which
\* user_esp_platform_dns_found does not look at.
THEOREM LinkNeverGivenUp == Cl!Spec => []Cl!NeverGivenUp
<1>1. Cl!Init => LinkInv
  <2> SUFFICES ASSUME NEW a \in BOOLEAN, Cl!Started(a) PROVE LinkInv
    BY DEF Cl!Init
  <2>1. activeflag \in BOOLEAN
    BY DEF Cl!Started
  <2>2. ~ TimerIdle
    BY DEF Cl!Started, TimerIdle
  <2>3. /\ closing = FALSE /\ refused = FALSE /\ beacon_timer = FALSE /\ heard = FALSE
        /\ connecting = 0 /\ open = 0
    BY DEF Cl!Started
  <2> QED
    BY <2>1, <2>2, <2>3 DEF LinkInv
<1>2. LinkInv /\ [Cl!Next]_Cl!vars => LinkInv'
  <2> SUFFICES ASSUME LinkInv, [Cl!Next]_Cl!vars PROVE LinkInv'
    OBVIOUS
  <2>1. CASE Cl!ClientTimer
    BY <2>1, ClientTimerKeeps
  <2>2. CASE Cl!user_esp_platform_sent_beacon
    BY <2>2, BeaconKeeps
  <2>3. CASE Cl!SettingsChanged
    BY <2>3 DEF Cl!SettingsChanged, Cl!net, LinkInv, TimerIdle, LeadsOn
  <2>4. CASE Cl!user_esp_platform_set_token
    BY <2>4 DEF Cl!user_esp_platform_set_token, Cl!net, LinkInv, TimerIdle, LeadsOn
  <2>5. CASE \/ Cl!dns_found_Null \/ Cl!dns_found_Addr
             \/ Cl!user_esp_platform_connect_cb \/ Cl!ConnectionEnds
    BY <2>5, ConnectionKeeps
  <2>6. CASE Cl!user_esp_platform_recv_cb
    BY <2>6, ReceivedKeeps
  <2>7. CASE Cl!user_esp_platform_upgrade_rsp
    BY <2>7 DEF Cl!user_esp_platform_upgrade_rsp, Cl!net, LinkInv, TimerIdle, LeadsOn
  <2>8. CASE \E s \in {"connecting", "got_ip", "failed"} : Cl!StationChanges(s)
    BY <2>8 DEF Cl!StationChanges, Cl!net, LinkInv, TimerIdle, LeadsOn
  <2>9. CASE UNCHANGED Cl!vars
    BY <2>9 DEF Cl!vars, LinkInv, TimerIdle, LeadsOn
  <2> QED
    BY <2>1, <2>2, <2>3, <2>4, <2>5, <2>6, <2>7, <2>8, <2>9 DEF Cl!Next
<1>3. LinkInv => Cl!NeverGivenUp
  BY DEF LinkInv, TimerIdle, LeadsOn, Cl!NeverGivenUp
<1> QED
  BY <1>1, <1>2, <1>3, PTL DEF Cl!Spec
-----------------------------------------------------------------------------
(* The web server of the IoT example. *)

CONSTANTS Conns, Gets, Posts, MaxBody, MaxBytes, PerPage, Scans

VARIABLES webreq, websettings, webscan, webupgrade, webout, webfault

Web == INSTANCE WebServer WITH req <- webreq, cfg <- websettings, sc <- webscan,
                               up <- webupgrade, out <- webout, fault <- webfault

\* The counters of a request in parts: nothing is kept from one segment to the next
\* but the length that was announced.
RequestInv(r) ==
  /\ r \in [dat : Int, saved : Int, kept : BOOLEAN, split : BOOLEAN]
  /\ r.saved = 0 /\ r.kept = FALSE
  /\ r.dat # 0 => r.split = TRUE

Named(k) == [kind |-> k]

\* The settings and their timer.
SettingsInv(c, f) ==
  /\ c \in [conf : {Web!NULL, Named("sta"), Named("ap")},
            rst : {Web!NULL, Named("REBOOT"), Named("WIFI")},
            timer : BOOLEAN, readBack : BOOLEAN]
  /\ c.rst.kind = "WIFI" /\ f # "conf" =>
       c.timer = TRUE /\ (c.conf = Web!NULL => c.readBack = TRUE)
  /\ f = "conf" => c.readBack = TRUE

ScanInfo == [kind : {"scan"}, page_sn : Int, data_cnt : Int, totalpage : Int]
InfoOrNull == {Web!NULL} \cup ScanInfo
ScanRec == [info : InfoOrNull, busy : BOOLEAN, head : Nat, bss : Int, early : BOOLEAN]

\* The scan and its pages, when no page was asked for while it ran: no entry has been
\* printed while it runs, and afterwards the number of pages is that of the list.
ScanInv(c, f) ==
  /\ c \in ScanRec
  /\ c.early = FALSE /\ c.busy = TRUE => c.info # Web!NULL /\ c.info.data_cnt = 0
  /\ c.early = FALSE /\ c.busy = FALSE /\ c.info # Web!NULL /\ c.head # 0 =>
       /\ c.info.data_cnt >= 0 /\ c.info.data_cnt <= c.head
       /\ c.bss = c.info.data_cnt % c.head
       /\ c.info.totalpage = Web!Total(c.head)
  /\ f = "scan" => c.early = TRUE

UpgradeRec ==
  [lock : BOOLEAN, flag : {"IDLE", "START", "FINISH"}, ready : BOOLEAN,
   timer : {"off", "10 ms", "120 s"}, deinit : BOOLEAN, got : Nat, sum : Int,
   image : Seq(Conns \cup {"head"}), dirty : BOOLEAN]

OneClient(bytes) == \A k \in 1 .. Len(bytes) : bytes[k] = bytes[1]

\* The upgrade: as long as it is clean, what has been counted has been stored.
UpgradeInv(u) ==
  /\ u \in UpgradeRec
  /\ u.lock = TRUE => u.ready = TRUE /\ u.flag = "START"
  /\ u.lock = TRUE /\ u.dirty = FALSE => Len(u.image) = u.got /\ OneClient(u.image)
  /\ u.flag = "FINISH" /\ u.dirty = FALSE => u.image # <<>> /\ OneClient(u.image)

WebInv ==
  /\ RequestInv(webreq) /\ SettingsInv(websettings, webfault)
  /\ ScanInv(webscan, webfault) /\ UpgradeInv(webupgrade)

\* What a segment holds.
LEMMA SegmentIs ==
  ASSUME Web!WebAssumption, NEW s \in Web!Segments
  PROVE  /\ s.conn \in Conns /\ s.head \in {"GET", "POST", "none"}
         /\ s.body \in Nat /\ s.clen \in Int
         /\ s.head = "GET" => s.clen = Web!NoLen /\ s.body = 0
         /\ s.head = "POST" => s.clen \in Nat
         /\ s.head = "none" => s.clen = Web!NoLen
<1>1. MaxBody \in Nat
  BY DEF Web!WebAssumption
<1> QED
  BY <1>1 DEF Web!Segments, Web!NoLen

\* The state of the memory after a start.
LEMMA MemoryCleared ==
  /\ RequestInv(Web!NoRequest)
  /\ \A f : f \notin {"conf", "scan"} =>
       SettingsInv(Web!NoConfig, f) /\ ScanInv(Web!NoScan, f)
  /\ UpgradeInv(Web!NoUpgrade)
<1>1. RequestInv(Web!NoRequest)
  BY DEF RequestInv, Web!NoRequest
<1>2. ASSUME NEW f, f \notin {"conf", "scan"}
      PROVE  SettingsInv(Web!NoConfig, f) /\ ScanInv(Web!NoScan, f)
  <2>1. SettingsInv(Web!NoConfig, f)
    BY <1>2 DEF SettingsInv, Web!NoConfig, Web!NULL, Named
  <2>2. ScanInv(Web!NoScan, f)
    BY <1>2 DEF ScanInv, Web!NoScan, Web!NULL, ScanRec, InfoOrNull
  <2> QED
    BY <2>1, <2>2
<1>3. UpgradeInv(Web!NoUpgrade)
  BY DEF UpgradeInv, UpgradeRec, Web!NoUpgrade
<1> QED
  BY <1>1, <1>2, <1>3

\* save_data leaves no bytes behind: a segment that is not complete in itself
\* does not get that far, and one without head finds no buffer to be added to.
LEMMA SavedKeeps ==
  ASSUME Web!WebAssumption, RequestInv(webreq), NEW s \in Web!Segments,
         Web!check_data(s), Web!Saved(s)
  PROVE  RequestInv(webreq')
<1> DEFINE d == Web!save_data(s)
<1>1. /\ s.head \in {"GET", "POST", "none"} /\ s.body \in Nat /\ s.clen \in Int
      /\ s.head = "GET" => s.clen = Web!NoLen /\ s.body = 0
      /\ s.head = "POST" => s.clen \in Nat /\ s.clen = s.body
  BY SegmentIs DEF Web!check_data, Web!NoLen
<1>2. webreq.saved = 0 /\ webreq.kept = FALSE /\ webreq.dat \in Int /\ webreq.split \in BOOLEAN
      /\ (webreq.dat # 0 => webreq.split = TRUE)
  BY DEF RequestInv
<1>3. webreq.saved + s.body = s.body
  BY <1>1, <1>2
<1>4. d.left.saved = 0 /\ (d.left.dat = 0 \/ d.left.dat = webreq.dat)
  <2>1. CASE s.head = "none"
    BY <1>2, <2>1 DEF Web!save_data
  <2>2. CASE s.head = "GET"
    <3>1. /\ webreq.saved + s.body = 0
          /\ Web!Announced(s) = webreq.dat /\ s.clen = Web!NoLen /\ s.head # "none"
      BY <1>1, <1>2, <2>2 DEF Web!Announced
    <3> QED
      BY <3>1 DEF Web!save_data
  <2>3. CASE s.head = "POST"
    <3>1. Web!Announced(s) = s.body /\ s.clen # Web!NoLen /\ s.head # "none"
      BY <1>1, <2>3 DEF Web!Announced, Web!NoLen
    <3> QED
      BY <1>3, <3>1 DEF Web!save_data
  <2> QED
    BY <1>1, <2>1, <2>2, <2>3
<1>5. webreq' = [dat |-> d.left.dat, saved |-> d.left.saved, kept |-> FALSE,
                 split |-> webreq.split /\ d.left.dat # 0]
  BY DEF Web!Saved
<1> HIDE DEF d
<1>6. (webreq.split /\ d.left.dat # 0) \in BOOLEAN
      /\ (d.left.dat # 0 => (webreq.split /\ d.left.dat # 0) = TRUE)
  BY <1>2, <1>4
<1> QED
  BY <1>2, <1>4, <1>5, <1>6 DEF RequestInv

\* The requests that change the settings.
LEMMA SettingsRequests ==
  ASSUME SettingsInv(websettings, "none"), NEW s,
         \/ Web!GetWifi(s) \/ Web!PostReboot(s)
         \/ \E cmd \in {"wifi_ssid", "wifi_empty"} : Web!PostWifi(s, cmd)
  PROVE  SettingsInv(websettings', "none")
<1> DEFINE c == websettings
<1>1. c.timer \in BOOLEAN /\ c.conf \in {Web!NULL, Named("sta"), Named("ap")}
  BY DEF SettingsInv
<1>2. CASE Web!GetWifi(s)
  <2>1. websettings' = [c EXCEPT !.conf = Web!NULL, !.readBack = c.timer]
    BY <1>2 DEF Web!GetWifi
  <2> QED
    BY <1>1, <2>1 DEF SettingsInv
<1>3. CASE Web!PostReboot(s)
  <2>1. websettings' = [c EXCEPT !.rst = Named("REBOOT"), !.timer = TRUE]
    BY <1>3 DEF Web!PostReboot, Named
  <2> QED
    BY <1>1, <2>1 DEF SettingsInv, Named
<1>4. ASSUME NEW cmd \in {"wifi_ssid", "wifi_empty"}, Web!PostWifi(s, cmd)
      PROVE  SettingsInv(websettings', "none")
  <2>1. PICK conf \in Web!Parsed(cmd) :
          websettings' = IF conf.kind = "empty"
                           THEN [c EXCEPT !.conf = Web!NULL, !.rst = Web!NULL,
                                          !.timer = FALSE, !.readBack = FALSE]
                           ELSE [conf |-> conf, rst |-> Named("WIFI"),
                                 timer |-> TRUE, readBack |-> FALSE]
    BY <1>4 DEF Web!PostWifi, Named
  <2>2. conf \in {Named("empty"), Named("sta"), Named("ap")}
    BY <1>1 DEF Web!Parsed, Web!wifi_station_set, Web!wifi_softap_set, Named, Web!NULL
  <2>3. CASE conf.kind = "empty"
    <3>1. websettings' = [c EXCEPT !.conf = Web!NULL, !.rst = Web!NULL,
                                   !.timer = FALSE, !.readBack = FALSE]
      BY <2>1, <2>3
    <3> QED
      BY <3>1 DEF SettingsInv, Web!NULL
  <2>4. CASE conf.kind # "empty"
    <3>1. conf \in {Named("sta"), Named("ap")}
      BY <2>2, <2>4 DEF Named
    <3>2. websettings' = [conf |-> conf, rst |-> Named("WIFI"), timer |-> TRUE,
                          readBack |-> FALSE]
      BY <2>1, <2>4
    <3>3. conf # Web!NULL
      BY <3>1 DEF Named, Web!NULL
    <3> QED
      BY <3>1, <3>2, <3>3 DEF SettingsInv
  <2> QED
    BY <2>3, <2>4
<1> QED
  BY <1>2, <1>3, <1>4

\* restart_10ms_cb: it meets a null pointer only after the settings were read back.
LEMMA RestartTimerKeeps ==
  ASSUME WebInv, webfault = "none", Web!restart_10ms_cb
  PROVE  WebInv'
<1> DEFINE c == websettings
<1>1. /\ c.timer \in BOOLEAN /\ c.readBack \in BOOLEAN /\ SettingsInv(c, "none")
      /\ ScanInv(webscan, "none")
  BY DEF WebInv, SettingsInv
<1>2. CASE Web!AwaitClose
  <2>1. websettings' \in {[c EXCEPT !.timer = FALSE], c} /\ c.rst.kind = "REBOOT"
    BY <1>2 DEF Web!AwaitClose
  <2>2. SettingsInv(websettings', "none")
    BY <1>1, <2>1 DEF SettingsInv
  <2>3. UNCHANGED <<webreq, webscan, webupgrade, webfault>>
    BY <1>2 DEF Web!AwaitClose
  <2> QED
    BY <2>2, <2>3 DEF WebInv
<1>3. CASE Web!ApplyWifi
  <2>1. CASE c.conf = Web!NULL /\ webfault' = "conf" /\ websettings' = [c EXCEPT !.timer = FALSE]
             /\ UNCHANGED <<webreq, webscan, webupgrade>>
    <3>1. c.readBack = TRUE
      BY <1>1, <1>3, <2>1 DEF Web!ApplyWifi, SettingsInv
    <3>2. SettingsInv(websettings', "conf")
      BY <1>1, <2>1, <3>1 DEF SettingsInv
    <3>3. ScanInv(webscan, "conf")
      BY <1>1 DEF ScanInv
    <3> QED
      BY <2>1, <3>2, <3>3 DEF WebInv
  <2>2. CASE websettings' = Web!NoConfig /\ UNCHANGED <<webreq, webscan, webupgrade, webfault>>
    BY <1>1, <2>2, MemoryCleared DEF WebInv
  <2>3. CASE Web!Restarted /\ UNCHANGED webfault
    BY <2>3, MemoryCleared DEF WebInv, Web!Restarted
  <2> QED
    BY <1>3, <2>1, <2>2, <2>3 DEF Web!ApplyWifi
<1> QED
  BY <1>2, <1>3 DEF Web!restart_10ms_cb

\* A number below its divisor is its own remainder, and the divisor has none.
LEMMA SmallMod ==
  ASSUME NEW h \in Nat, h # 0
  PROVE  /\ h % h = 0
         /\ \A a \in Nat : a < h => a % h = a
OBVIOUS

\* The page of a number within the number of pages has an entry.
LEMMA PageNotEmpty ==
  ASSUME Web!WebAssumption, NEW h \in Nat, NEW n \in Int, n <= Web!Total(h)
  PROVE  h - (n - 1) * PerPage > 0
<1> DEFINE t == Web!Total(h)
<1>1. PerPage \in Nat /\ PerPage > 0
  BY DEF Web!WebAssumption
<1>2. t \in Int /\ t * PerPage <= h + PerPage - 1
  BY <1>1 DEF Web!Total
<1> HIDE DEF t
<1>3. n * PerPage <= t * PerPage
  BY <1>1, <1>2 DEF t
<1>4. (n - 1) * PerPage = n * PerPage - PerPage
  BY <1>1
<1> QED
  BY <1>1, <1>2, <1>3, <1>4

\* The cursor and the counter of a page that is printed move together.
LEMMA CursorFollows ==
  ASSUME NEW h \in Nat, h # 0, NEW a \in Nat, a <= h, NEW b, b = a % h,
         NEW count \in Int, count > 0, a + count <= h
  PROVE  Web!Moved(b, h, count) = (a + count) % h
<1>1. a < h
  OBVIOUS
<1>2. b = a
  BY <1>1, SmallMod
<1> QED
  BY <1>2 DEF Web!Moved

\* json_send of a page, of a scan that has ended before any page was asked for.
LEMMA PageKeeps ==
  ASSUME Web!WebAssumption, ScanInv(webscan, "none"), NEW n \in 1 .. 9,
         webscan.info # Web!NULL, n <= webscan.info.totalpage
  PROVE  ScanInv(Web!json_send_page(n), "none")
<1> DEFINE c == webscan
           i == c.info
           left == c.head - (n - 1) * PerPage
           count == IF left >= PerPage THEN PerPage ELSE left
           busyToo == c.early \/ c.busy
<1>1. /\ c.head \in Nat /\ c.bss \in Int /\ c.early \in BOOLEAN /\ c.busy \in BOOLEAN
      /\ i \in ScanInfo /\ n \in Int /\ PerPage \in Nat /\ PerPage > 0
      /\ busyToo \in BOOLEAN
  BY DEF ScanInv, ScanRec, InfoOrNull, Web!WebAssumption
<1>2. left \in Int /\ count \in Int
  BY <1>1
<1>3. /\ i.page_sn \in Int /\ i.data_cnt \in Int /\ i.totalpage \in Int /\ i # Web!NULL
  BY <1>1 DEF ScanInfo
<1>4. \A x \in ScanInfo : x # Web!NULL
  BY DEF ScanInfo, Web!NULL
<1>5. CASE c.head = 0
  <2>1. Web!json_send_page(n) = [c EXCEPT !.info = Web!NULL, !.early = busyToo]
    BY <1>5 DEF Web!json_send_page
  <2> HIDE DEF busyToo
  <2>2. busyToo = FALSE => c.busy = FALSE
    BY <1>1 DEF busyToo
  <2>3. Web!NULL \in InfoOrNull /\ c \in ScanRec
    BY DEF InfoOrNull, ScanInv
  <2>4. LET q == Web!json_send_page(n)
        IN  q \in ScanRec /\ q.info = Web!NULL /\ q.early = busyToo /\ q.busy = c.busy
    BY <1>1, <2>1, <2>3 DEF ScanRec
  <2> QED
    BY <1>1, <2>2, <2>4 DEF ScanInv
<1>6. CASE c.head # 0
  <2> DEFINE p == Web!Page(i, n)
  <2>1. Web!json_send_page(n) = [p EXCEPT !.early = p.early \/ c.busy]
    BY <1>6 DEF Web!json_send_page
  <2>2. PICK sn \in Int, cnt \in Int, bss \in Int :
          /\ p = [c EXCEPT !.info = [i EXCEPT !.page_sn = sn, !.data_cnt = cnt], !.bss = bss]
          /\ \/ cnt = i.data_cnt /\ bss = c.bss
             \/ /\ cnt = i.data_cnt + count /\ cnt <= c.head
                /\ bss = Web!Moved(c.bss, c.head, count)
    <3>1. \A k \in Int : [c EXCEPT !.info.page_sn = k]
                         = [c EXCEPT !.info = [i EXCEPT !.page_sn = k, !.data_cnt = i.data_cnt],
                                     !.bss = c.bss]
      <4> SUFFICES ASSUME NEW k \in Int
                   PROVE  [c EXCEPT !.info.page_sn = k]
                          = [c EXCEPT !.info = [i EXCEPT !.page_sn = k,
                                                         !.data_cnt = i.data_cnt],
                                      !.bss = c.bss]
        OBVIOUS
      <4>1. [i EXCEPT !.page_sn = k, !.data_cnt = i.data_cnt] = [i EXCEPT !.page_sn = k]
        BY <1>1 DEF ScanInfo
      <4>2. [c EXCEPT !.info.page_sn = k] = [c EXCEPT !.info = [i EXCEPT !.page_sn = k]]
        OBVIOUS
      <4> DEFINE x == [i EXCEPT !.page_sn = k]
      <4>3. \A y : [c EXCEPT !.info = y] = [c EXCEPT !.info = y, !.bss = c.bss]
        BY DEF ScanInv, ScanRec
      <4> QED
        BY <4>1, <4>2, <4>3
    <3>2. CASE i.page_sn = n
      <4>1. p = [c EXCEPT !.info.page_sn = 0]
        BY <3>2 DEF Web!Page
      <4> HIDE DEF p, count
      <4>2. p = [c EXCEPT !.info = [i EXCEPT !.page_sn = 0, !.data_cnt = i.data_cnt],
                          !.bss = c.bss]
        BY <3>1, <4>1
      <4>3. 0 \in Int /\ i.data_cnt \in Int /\ c.bss \in Int
        BY <1>1, <1>3
      <4> QED
        BY <4>2, <4>3, Zenon
    <3>3. CASE i.page_sn # n /\ i.data_cnt + count > c.head
      <4>1. p = [c EXCEPT !.info.page_sn = n]
        <5>1. i.page_sn # n /\ i.data_cnt + count > c.head
          BY <3>3
        <5> QED
          BY <5>1 DEF Web!Page
      <4> HIDE DEF p, count
      <4> QED
        BY <1>1, <1>3, <3>1, <4>1
    <3>4. CASE i.page_sn # n /\ ~ (i.data_cnt + count > c.head)
      <4>1. i.data_cnt + count \in Int /\ i.data_cnt + count <= c.head
        <5>1. i.data_cnt \in Int /\ c.head \in Int
          BY <1>1, <1>3
        <5> HIDE DEF count
        <5> QED
          BY <1>2, <3>4, <5>1
      <4>2. p = [c EXCEPT !.info = [i EXCEPT !.page_sn = n, !.data_cnt = i.data_cnt + count],
                          !.bss = Web!Moved(c.bss, c.head, count)]
        <5>1. p = [c EXCEPT !.info.page_sn = n, !.info.data_cnt = @ + count,
                            !.bss = Web!Moved(@, c.head, count)]
          BY <3>4 DEF Web!Page
        <5> HIDE DEF p, count
        <5>2. \A y : [c EXCEPT !.info.page_sn = n, !.info.data_cnt = @ + count, !.bss = y]
                 = [c EXCEPT !.info = [i EXCEPT !.page_sn = n, !.data_cnt = i.data_cnt + count],
                             !.bss = y]
          BY <1>1 DEF ScanInv, ScanRec, ScanInfo
        <5>3. p = [c EXCEPT !.info.page_sn = n, !.info.data_cnt = @ + count,
                            !.bss = Web!Moved(c.bss, c.head, count)]
          BY <5>1 DEF ScanInv, ScanRec
        <5> QED
          BY <5>2, <5>3
      <4>3. Web!Moved(c.bss, c.head, count) \in Int
        BY <1>1, <1>2, <1>6 DEF Web!Moved
      <4> HIDE DEF p, count
      <4> QED
        BY <1>1, <4>1, <4>2, <4>3
    <3> QED
      BY <3>2, <3>3, <3>4
  <2> DEFINE j == [i EXCEPT !.page_sn = sn, !.data_cnt = cnt]
             e == c.early \/ c.busy
  <2>4. j \in ScanInfo /\ j # Web!NULL /\ j.data_cnt = cnt /\ j.totalpage = i.totalpage
    BY <1>1, <1>3, <1>4, <2>2 DEF ScanInfo
  <2>5. e \in BOOLEAN /\ (e = FALSE => c.early = FALSE /\ c.busy = FALSE)
    BY <1>1
  <2>6. e = FALSE => /\ cnt >= 0 /\ cnt <= c.head /\ bss = cnt % c.head
                     /\ i.totalpage = Web!Total(c.head)
    <3> SUFFICES ASSUME e = FALSE
                 PROVE  /\ cnt >= 0 /\ cnt <= c.head /\ bss = cnt % c.head
                        /\ i.totalpage = Web!Total(c.head)
      OBVIOUS
    <3>1. /\ i.data_cnt >= 0 /\ i.data_cnt <= c.head /\ c.bss = i.data_cnt % c.head
          /\ i.totalpage = Web!Total(c.head)
      BY <1>6, <2>5 DEF ScanInv
    <3>2. CASE cnt = i.data_cnt /\ bss = c.bss
      BY <3>1, <3>2
    <3>3. CASE /\ cnt = i.data_cnt + count /\ cnt <= c.head
               /\ bss = Web!Moved(c.bss, c.head, count)
      <4>1. left > 0
        BY <1>1, <3>1, PageNotEmpty
      <4>2. count > 0
        BY <1>1, <4>1
      <4> HIDE DEF count, left
      <4>3. i.data_cnt \in Nat /\ i.data_cnt + count <= c.head /\ c.head \in Nat /\ c.head # 0
        BY <1>1, <1>3, <1>6, <3>1, <3>3
      <4>4. cnt % c.head = Web!Moved(c.bss, c.head, count)
        BY <1>2, <3>1, <3>3, <4>2, <4>3, CursorFollows
      <4>5. cnt >= 0
        BY <1>2, <3>3, <4>2, <4>3
      <4> QED
        BY <3>1, <3>3, <4>4, <4>5
    <3> QED
      BY <2>2, <3>2, <3>3
  <2>7. Web!json_send_page(n) = [c EXCEPT !.info = j, !.bss = bss, !.early = e]
    <3>1. p = [c EXCEPT !.info = j, !.bss = bss]
      BY <2>2
    <3> HIDE DEF p, j
    <3>2. p.early = c.early
      BY <3>1 DEF ScanInv, ScanRec
    <3>3. [p EXCEPT !.early = e] = [c EXCEPT !.info = j, !.bss = bss, !.early = e]
      BY <3>1
    <3> QED
      BY <2>1, <3>2, <3>3
  <2> HIDE DEF j, e
  <2>8. c \in ScanRec /\ j \in InfoOrNull
    BY <2>4 DEF ScanInv, InfoOrNull
  <2>9. LET q == Web!json_send_page(n)
        IN  /\ q \in ScanRec /\ q.info = j /\ q.early = e /\ q.busy = c.busy
            /\ q.head = c.head /\ q.bss = bss
    BY <2>2, <2>5, <2>7, <2>8 DEF ScanRec
  <2> QED
    BY <2>4, <2>5, <2>6, <2>9 DEF ScanInv
<1> QED
  BY <1>5, <1>6

\* The requests about the scan.
LEMMA ScanRequests ==
  ASSUME Web!WebAssumption, ScanInv(webscan, "none"), NEW s,
         Web!GetScan(s) \/ Web!GetFinish(s) \/ Web!GetPage(s)
  PROVE  ScanInv(webscan', "none")
<1> DEFINE c == webscan
<1>1. CASE Web!GetScan(s)
  <2> DEFINE total == IF c.info = Web!NULL THEN 0 ELSE c.info.totalpage
             i == [kind |-> "scan", page_sn |-> 0, data_cnt |-> 0, totalpage |-> total]
  <2>1. webscan' = [c EXCEPT !.busy = TRUE, !.early = FALSE, !.info = i]
    BY <1>1 DEF Web!GetScan
  <2>2. total \in Int
    BY DEF ScanInv, ScanRec, InfoOrNull, ScanInfo
  <2> HIDE DEF total
  <2>3. i \in ScanInfo /\ i # Web!NULL /\ i.data_cnt = 0
    BY <2>2 DEF ScanInfo, Web!NULL
  <2> HIDE DEF i
  <2>4. c \in ScanRec /\ i \in InfoOrNull
    BY <2>3 DEF ScanInv, InfoOrNull
  <2>5. /\ webscan' \in ScanRec /\ webscan'.busy = TRUE /\ webscan'.early = FALSE
        /\ webscan'.info = i
    BY <2>1, <2>4 DEF ScanRec
  <2> QED
    BY <2>3, <2>5 DEF ScanInv
<1>2. CASE Web!GetFinish(s)
  <2>1. webscan' = [c EXCEPT !.head = 0, !.bss = 0]
    BY <1>2 DEF Web!GetFinish
  <2>2. /\ webscan' \in ScanRec /\ webscan'.busy = c.busy /\ webscan'.early = c.early
        /\ webscan'.info = c.info /\ webscan'.head = 0
    <3>1. /\ c.info \in InfoOrNull /\ c.busy \in BOOLEAN /\ c.early \in BOOLEAN
          /\ webscan' = [info |-> c.info, busy |-> c.busy, head |-> 0, bss |-> 0,
                         early |-> c.early]
      BY <2>1 DEF ScanInv, ScanRec
    <3> QED
      BY <3>1 DEF ScanRec
  <2> QED
    BY <2>2 DEF ScanInv
<1>3. CASE Web!GetPage(s)
  <2>1. PICK n \in 1 .. 9 :
          webscan' = IF c.info = Web!NULL \/ n > c.info.totalpage THEN c
                     ELSE Web!json_send_page(n)
    BY <1>3 DEF Web!GetPage
  <2>2. CASE c.info = Web!NULL \/ n > c.info.totalpage
    BY <2>1, <2>2
  <2>3. CASE ~ (c.info = Web!NULL \/ n > c.info.totalpage)
    <3>1. c.info.totalpage \in Int
      BY <2>3 DEF ScanInv, ScanRec, InfoOrNull, ScanInfo
    <3>2. n <= c.info.totalpage
      BY <2>3, <3>1
    <3> QED
      BY <2>1, <2>3, <3>2, PageKeeps
  <2> QED
    BY <2>2, <2>3
<1> QED
  BY <1>1, <1>2, <1>3

\* json_scan_cb: it meets a null pointer only after a page was asked for meanwhile.
LEMMA ScanEndKeeps ==
  ASSUME Web!WebAssumption, WebInv, webfault = "none", NEW n \in Scans, Web!json_scan_cb(n)
  PROVE  WebInv'
<1> DEFINE c == webscan
<1>1. UNCHANGED <<webreq, websettings, webupgrade>>
  BY DEF Web!json_scan_cb
<1>2. /\ ScanInv(c, "none") /\ SettingsInv(websettings, "none") /\ c.busy = TRUE
      /\ n \in Nat /\ PerPage \in Nat /\ PerPage > 0
  BY DEF WebInv, Web!json_scan_cb, ScanInv, ScanRec, Web!WebAssumption
<1>3. CASE c.info = Web!NULL
  <2>1. webfault' = "scan" /\ webscan' = [c EXCEPT !.busy = FALSE]
    BY <1>3 DEF Web!json_scan_cb
  <2>2. c.early = TRUE
    BY <1>2, <1>3 DEF ScanInv
  <2>3. ScanInv(webscan', "scan")
    BY <1>2, <1>3, <2>1, <2>2 DEF ScanInv, ScanRec
  <2>4. SettingsInv(websettings, "scan")
    BY <1>2 DEF SettingsInv
  <2> QED
    BY <1>1, <2>1, <2>3, <2>4 DEF WebInv
<1>4. CASE c.info # Web!NULL
  <2> DEFINE j == [c.info EXCEPT !.totalpage = Web!Total(n)]
  <2>1. /\ webfault' = "none"
        /\ webscan' = [c EXCEPT !.busy = FALSE, !.head = n, !.bss = 0, !.info = j]
    BY <1>4 DEF Web!json_scan_cb
  <2>2. c.info \in ScanInfo /\ Web!Total(n) \in Int
    BY <1>2, <1>4 DEF ScanInv, ScanRec, InfoOrNull, Web!Total
  <2>3. /\ j \in ScanInfo /\ j # Web!NULL /\ j.data_cnt = c.info.data_cnt
        /\ j.totalpage = Web!Total(n)
    BY <2>2 DEF ScanInfo, Web!NULL
  <2>4. n # 0 => 0 % n = 0
    BY <1>2, SmallMod
  <2>5. c.early = FALSE => c.info.data_cnt = 0
    BY <1>2 DEF ScanInv
  <2> HIDE DEF j
  <2>6. ScanInv(webscan', "none")
    <3>1. c \in ScanRec /\ j \in InfoOrNull
      BY <1>2, <2>3 DEF ScanInv, InfoOrNull
    <3>2. /\ webscan' \in ScanRec
          /\ webscan'.busy = FALSE /\ webscan'.head = n /\ webscan'.bss = 0
          /\ webscan'.info = j /\ webscan'.early = c.early
      <4>1. /\ c.early \in BOOLEAN
            /\ webscan' = [info |-> j, busy |-> FALSE, head |-> n, bss |-> 0,
                           early |-> c.early]
        BY <2>1, <3>1 DEF ScanRec
      <4> QED
        BY <1>2, <3>1, <4>1 DEF ScanRec
    <3> QED
      BY <1>2, <2>3, <2>4, <2>5, <3>1, <3>2 DEF ScanInv
  <2> QED
    BY <1>1, <1>2, <2>1, <2>6 DEF WebInv
<1> QED
  BY <1>3, <1>4

\* Every byte comes from one source.
Only(bytes, tag) == \A k \in 1 .. Len(bytes) : bytes[k] = tag

\* Bytes of one client behind those of the same client are bytes of one client.
LEMMA TagsAppended ==
  ASSUME NEW S, NEW bytes \in Seq(S), NEW tag, Only(bytes, tag),
         NEW t \in Seq(S), Only(t, tag)
  PROVE  /\ bytes \o t \in Seq(S) /\ Len(bytes \o t) = Len(bytes) + Len(t)
         /\ OneClient(bytes \o t)
<1> DEFINE new == bytes \o t
<1>1. Len(bytes) \in Nat /\ Len(t) \in Nat
  OBVIOUS
<1>2. /\ new \in Seq(S) /\ Len(new) = Len(bytes) + Len(t)
      /\ \A k \in 1 .. Len(new) :
           new[k] = IF k <= Len(bytes) THEN bytes[k] ELSE t[k - Len(bytes)]
  BY ConcatProperties
<1> HIDE DEF new
<1>3. \A k \in 1 .. Len(new) : new[k] = tag
  <2> SUFFICES ASSUME NEW k \in 1 .. Len(new) PROVE new[k] = tag
    OBVIOUS
  <2>1. CASE k <= Len(bytes)
    BY <1>1, <1>2, <2>1 DEF Only
  <2>2. CASE ~ (k <= Len(bytes))
    <3>1. k - Len(bytes) \in 1 .. Len(t)
      BY <1>1, <1>2, <2>2
    <3> QED
      BY <1>2, <2>2, <3>1 DEF Only
  <2> QED
    BY <2>1, <2>2
<1>4. OneClient(new)
  <2> SUFFICES ASSUME NEW k \in 1 .. Len(new) PROVE new[k] = new[1]
    BY DEF OneClient
  <2>1. 1 \in 1 .. Len(new)
    BY <1>1, <1>2
  <2> QED
    BY <1>3, <2>1
<1> QED
  BY <1>2, <1>4 DEF new

\* What a segment adds to the image.
LEMMA TakenKeeps ==
  ASSUME Web!WebAssumption, NEW u, UpgradeInv(u), u.lock = TRUE,
         NEW s \in Web!Segments, ~ (u.got = 0 /\ s.head # "none" /\ s.clen = 0)
  PROVE  LET t == Web!Taken(u, s)
         IN  /\ UpgradeInv(t) /\ t.lock = TRUE
             /\ t.dirty = FALSE /\ t.got = t.sum => t.image # <<>>
<1> DEFINE t == Web!Taken(u, s)
           Tagged == Conns \cup {"head"}
<1>1. /\ s.conn \in Tagged /\ s.body \in Nat /\ s.clen \in Int
      /\ s.head \in {"GET", "POST", "none"}
      /\ s.head = "POST" => s.clen \in Nat
      /\ s.head # "POST" => s.clen = Web!NoLen
  BY SegmentIs
<1>2. /\ u.image \in Seq(Tagged) /\ u.got \in Nat /\ u.sum \in Int /\ u.dirty \in BOOLEAN
      /\ u.flag = "START" /\ u.ready = TRUE
      /\ u.dirty = FALSE => Len(u.image) = u.got /\ OneClient(u.image)
  BY DEF UpgradeInv, UpgradeRec, Tagged
<1>3. "head" \in Tagged
  OBVIOUS
<1> HIDE DEF Tagged
<1> DEFINE tags == Web!Tags(s.conn, s.body)
<1>tags. tags \in Seq(Tagged) /\ Len(tags) = s.body /\ Only(tags, s.conn)
  BY <1>1 DEF Web!Tags, Only
<1> HIDE DEF tags
<1>4. CASE u.got = 0 /\ s.head # "none" /\ s.clen # Web!NoLen
  <2> DEFINE bytes == u.image \o tags
  <2>1. t = [u EXCEPT !.sum = s.clen, !.got = s.body, !.image = bytes]
    BY <1>4 DEF Web!Taken, tags
  <2>2. bytes \in Seq(Tagged)
    BY <1>2, <1>tags
  <2>3. u.dirty = FALSE => Len(bytes) = s.body /\ OneClient(bytes)
    <3> SUFFICES ASSUME u.dirty = FALSE PROVE Len(bytes) = s.body /\ OneClient(bytes)
      OBVIOUS
    <3>1. u.image = <<>> /\ Len(u.image) = 0
      BY <1>2, <1>4, EmptySeq
    <3> QED
      <4>1. Only(u.image, s.conn)
        BY <3>1 DEF Only
      <4>2. Len(bytes) = Len(u.image) + Len(tags) /\ OneClient(bytes)
        BY <1>2, <1>tags, <4>1, TagsAppended
      <4> HIDE DEF bytes
      <4> QED
        BY <1>1, <1>tags, <3>1, <4>2
  <2>4. s.clen \in Nat /\ s.clen # 0
    BY <1>1, <1>4
  <2> HIDE DEF bytes, t
  <2>5. /\ t.dirty = u.dirty /\ t.got = s.body /\ t.sum = s.clen /\ t.image = bytes
        /\ t.lock = TRUE /\ t.flag = "START" /\ t.ready = TRUE
    BY <1>2, <2>1 DEF UpgradeInv, UpgradeRec
  <2>6. UpgradeInv(t)
    BY <1>1, <1>2, <2>1, <2>2, <2>3 DEF UpgradeInv, UpgradeRec, Tagged
  <2>7. t.dirty = FALSE /\ t.got = t.sum => t.image # <<>>
    <3> SUFFICES ASSUME u.dirty = FALSE, s.body = s.clen PROVE bytes # <<>>
      BY <2>5
    <3>1. Len(bytes) # 0
      BY <2>3, <2>4
    <3> QED
      BY <2>2, <3>1
  <2> QED
    BY <2>5, <2>6, <2>7 DEF t
<1>5. CASE ~ (u.got = 0 /\ s.head # "none" /\ s.clen # Web!NoLen)
  <2> DEFINE extra == IF s.head = "none" THEN 0 ELSE Web!HeadLen
             bytes == (u.image \o Web!Tags("head", extra)) \o tags
             got == (u.got + s.body) + extra
             dirty == u.dirty \/ s.head # "none" \/ u.got = 0 \/ s.conn # u.image[1]
  <2>1. t = [u EXCEPT !.got = got, !.image = bytes, !.dirty = dirty]
    BY <1>5 DEF Web!Taken, tags
  <2>2. extra \in Nat
    BY DEF Web!HeadLen
  <2>3. bytes \in Seq(Tagged) /\ got \in Nat
    <3> HIDE DEF extra
    <3>1. Web!Tags("head", extra) \in Seq(Tagged)
      BY <1>3, <2>2 DEF Web!Tags
    <3>2. u.image \o Web!Tags("head", extra) \in Seq(Tagged)
      BY <1>2, <3>1
    <3>3. bytes \in Seq(Tagged)
      BY <1>tags, <3>2
    <3> QED
      BY <1>1, <1>2, <2>2, <3>3
  <2>4. dirty = FALSE => /\ Len(bytes) = got /\ OneClient(bytes) /\ got # 0
    <3> SUFFICES ASSUME dirty = FALSE
                 PROVE  Len(bytes) = got /\ OneClient(bytes) /\ got # 0
      OBVIOUS
    <3>1. u.dirty = FALSE /\ s.head = "none" /\ u.got # 0 /\ s.conn = u.image[1]
      BY <1>2
    <3>2. extra = 0
      BY <3>1
    <3>3. bytes = u.image \o tags
      <4>1. Web!Tags("head", extra) = <<>>
        BY <3>2 DEF Web!Tags
      <4> QED
        BY <1>2, <4>1, ConcatEmptySeq
    <3>4. Len(bytes) = Len(u.image) + s.body /\ OneClient(bytes)
      <4>1. Only(u.image, s.conn)
        BY <1>2, <3>1 DEF Only, OneClient
      <4>2. Len(u.image \o tags) = Len(u.image) + Len(tags) /\ OneClient(u.image \o tags)
        BY <1>2, <1>tags, <4>1, TagsAppended
      <4> QED
        BY <1>tags, <3>3, <4>2
    <3>5. u.got \in Nat /\ u.got # 0 /\ Len(u.image) = u.got /\ s.body \in Nat
      BY <1>1, <1>2, <3>1
    <3> HIDE DEF bytes, extra
    <3>6. Len(bytes) = got /\ got # 0
      BY <3>2, <3>4, <3>5
    <3> QED
      BY <3>4, <3>6
  <2>5. dirty \in BOOLEAN
    BY <1>2
  <2> HIDE DEF bytes, got, dirty, t
  <2>6. /\ t.dirty = dirty /\ t.got = got /\ t.image = bytes
        /\ t.lock = TRUE /\ t.flag = "START" /\ t.ready = TRUE
    BY <1>2, <2>1 DEF UpgradeInv, UpgradeRec
  <2>7. UpgradeInv(t)
    BY <1>2, <2>1, <2>3, <2>4, <2>5 DEF UpgradeInv, UpgradeRec, Tagged
  <2>8. t.dirty = FALSE => t.image # <<>>
    <3> SUFFICES ASSUME dirty = FALSE PROVE bytes # <<>>
      BY <2>6
    <3> QED
      BY <2>3, <2>4
  <2> QED
    BY <2>6, <2>7, <2>8 DEF t
<1> QED
  BY <1>4, <1>5

\* An upgrade that has ended with its image complete.
Ended(u) == u.flag = "FINISH" /\ u.dirty = FALSE => u.image # <<>> /\ OneClient(u.image)

\* upgrade_check_func, called at the end of the image or by its timer, gives the
\* lock up unless nothing was locked.
LEMMA CheckKeeps ==
  ASSUME NEW u \in UpgradeRec, Ended(u), u.flag = "IDLE" => u.lock = FALSE
  PROVE  UpgradeInv(Web!upgrade_check_func(u))
<1> DEFINE v == Web!upgrade_check_func(u)
<1>1. CASE u.flag = "START"
  <2>1. v = [u EXCEPT !.timer = "off", !.flag = "IDLE", !.ready = FALSE, !.lock = FALSE]
    BY <1>1 DEF Web!upgrade_check_func
  <2> HIDE DEF v
  <2>2. v \in UpgradeRec /\ v.flag = "IDLE" /\ v.lock = FALSE
    BY <2>1 DEF UpgradeRec
  <2> QED
    BY <2>2 DEF UpgradeInv, v
<1>2. CASE u.flag # "START"
  <2> DEFINE l == IF u.flag = "FINISH" THEN FALSE ELSE u.lock
  <2>1. v = [u EXCEPT !.timer = "off", !.lock = l]
    BY <1>2 DEF Web!upgrade_check_func
  <2>2. l = FALSE
    BY <1>2 DEF UpgradeRec
  <2> HIDE DEF v, l
  <2>3. /\ v \in UpgradeRec /\ v.flag = u.flag /\ v.lock = FALSE /\ v.dirty = u.dirty
        /\ v.image = u.image
    BY <2>1, <2>2 DEF UpgradeRec
  <2> QED
    BY <2>3 DEF UpgradeInv, Ended, v
<1> QED
  BY <1>1, <1>2

\* The actions of the upgrade, and a segment that is taken for image.
LEMMA UpgradeKeeps ==
  ASSUME Web!WebAssumption, UpgradeInv(webupgrade),
         \/ \E s \in Web!Segments :
              \/ Web!PostStart(s)
              \/ webupgrade.lock /\ webupgrade' = Web!local_upgrade_download(s)
         \/ Web!UpgradeTimer \/ Web!local_upgrade_deinit
  PROVE  UpgradeInv(webupgrade')
<1> DEFINE u == webupgrade
<1>1. /\ u \in UpgradeRec /\ u.got \in Nat /\ u.lock \in BOOLEAN
      /\ u.lock = TRUE => u.ready = TRUE /\ u.flag = "START"
  BY DEF UpgradeInv, UpgradeRec
<1>2. ASSUME NEW s \in Web!Segments, Web!PostStart(s) PROVE UpgradeInv(webupgrade')
  <2> DEFINE d == u.got # 0
  <2>1. webupgrade' = [u EXCEPT !.lock = TRUE, !.flag = "START", !.ready = TRUE,
                                !.timer = "120 s", !.image = <<>>, !.dirty = d]
    BY <1>2 DEF Web!PostStart
  <2>2. d \in BOOLEAN /\ (d = FALSE => u.got = 0)
    OBVIOUS
  <2>3. Len(<<>>) = 0 /\ OneClient(<<>>) /\ <<>> \in Seq(Conns \cup {"head"})
    BY DEF OneClient
  <2> HIDE DEF d
  <2>4. /\ webupgrade' \in UpgradeRec /\ webupgrade'.ready = TRUE /\ webupgrade'.flag = "START"
        /\ webupgrade'.got = u.got /\ webupgrade'.image = <<>> /\ webupgrade'.dirty = d
    BY <1>1, <2>1, <2>2, <2>3 DEF UpgradeRec
  <2> QED
    BY <2>2, <2>3, <2>4 DEF UpgradeInv
<1>3. ASSUME NEW s \in Web!Segments, u.lock, webupgrade' = Web!local_upgrade_download(s)
      PROVE  UpgradeInv(webupgrade')
  <2> DEFINE nought == 0
             t == Web!Taken(u, s)
             f == [t EXCEPT !.flag = "FINISH", !.got = nought, !.sum = nought, !.deinit = TRUE]
  <2>0. nought \in Nat /\ nought \in Int
    OBVIOUS
  <2>1. CASE u.got = 0 /\ s.head # "none" /\ s.clen = 0
    <3>1. webupgrade' = [u EXCEPT !.sum = nought, !.timer = "10 ms"]
      BY <1>3, <2>1 DEF Web!local_upgrade_download
    <3> HIDE DEF nought
    <3>2. /\ webupgrade' \in UpgradeRec
          /\ webupgrade'.lock = u.lock /\ webupgrade'.ready = u.ready
          /\ webupgrade'.flag = u.flag /\ webupgrade'.dirty = u.dirty
          /\ webupgrade'.got = u.got /\ webupgrade'.image = u.image
      BY <1>1, <2>0, <3>1 DEF UpgradeRec
    <3> QED
      BY <3>2 DEF UpgradeInv
  <2>2. CASE ~ (u.got = 0 /\ s.head # "none" /\ s.clen = 0)
    <3>1. /\ UpgradeInv(t) /\ t.lock = TRUE
          /\ t.dirty = FALSE /\ t.got = t.sum => t.image # <<>>
      BY <1>1, <1>3, <2>2, TakenKeeps
    <3>2. webupgrade' = IF t.got # t.sum THEN t ELSE Web!upgrade_check_func(f)
      BY <1>3, <2>2 DEF Web!local_upgrade_download
    <3> HIDE DEF t, nought
    <3>3. CASE t.got # t.sum
      BY <3>1, <3>2, <3>3
    <3>4. CASE t.got = t.sum
      <4>1. t \in UpgradeRec /\ (t.dirty = FALSE => t.image # <<>> /\ OneClient(t.image))
        BY <3>1, <3>4 DEF UpgradeInv
      <4>2. /\ f \in UpgradeRec /\ f.flag = "FINISH" /\ f.dirty = t.dirty
            /\ f.image = t.image
        BY <2>0, <4>1 DEF UpgradeRec
      <4> HIDE DEF f
      <4>3. Ended(f)
        BY <4>1, <4>2 DEF Ended
      <4> QED
        BY <3>2, <3>4, <4>2, <4>3, CheckKeeps
    <3> QED
      BY <3>3, <3>4
  <2> QED
    BY <2>1, <2>2
<1>4. CASE Web!UpgradeTimer
  <2>1. webupgrade' = Web!upgrade_check_func(u)
    BY <1>4 DEF Web!UpgradeTimer
  <2>2. Ended(u) /\ (u.flag = "IDLE" => u.lock = FALSE)
    BY <1>1 DEF Ended, UpgradeInv
  <2> QED
    BY <1>1, <2>1, <2>2, CheckKeeps
<1>5. CASE Web!local_upgrade_deinit
  <2> DEFINE r == IF u.flag # "START" THEN FALSE ELSE u.ready
  <2>1. webupgrade' = [u EXCEPT !.deinit = FALSE, !.ready = r]
    BY <1>5 DEF Web!local_upgrade_deinit
  <2>2. r \in BOOLEAN /\ (u.lock = TRUE => r = TRUE)
    BY <1>1 DEF UpgradeRec
  <2> HIDE DEF r
  <2>3. /\ webupgrade' \in UpgradeRec
        /\ webupgrade'.lock = u.lock /\ webupgrade'.ready = r
        /\ webupgrade'.flag = u.flag /\ webupgrade'.dirty = u.dirty
        /\ webupgrade'.got = u.got /\ webupgrade'.image = u.image
    BY <1>1, <2>1, <2>2 DEF UpgradeRec
  <2> QED
    BY <2>2, <2>3 DEF UpgradeInv
<1> QED
  BY <1>2, <1>3, <1>4, <1>5

\* webserver_recv.
LEMMA SegmentKeeps ==
  ASSUME Web!WebAssumption, WebInv, webfault = "none",
         NEW s \in Web!Segments, Web!webserver_recv(s)
  PROVE  WebInv'
<1>1. /\ RequestInv(webreq) /\ SettingsInv(websettings, "none") /\ ScanInv(webscan, "none")
      /\ UpgradeInv(webupgrade)
  BY DEF WebInv
<1>2. CASE Web!Incomplete(s)
  <2>1. /\ webreq' = [webreq EXCEPT !.dat = s.clen, !.split = TRUE] /\ s.clen \in Int
        /\ UNCHANGED <<websettings, webscan, webupgrade, webfault>>
    BY <1>2, SegmentIs DEF Web!Incomplete
  <2>2. RequestInv(webreq')
    BY <1>1, <2>1 DEF RequestInv
  <2> QED
    BY <1>1, <2>1, <2>2 DEF WebInv
<1>3. CASE Web!PostReset(s)
  <2>1. Web!Restarted /\ UNCHANGED webfault
    BY <1>3 DEF Web!PostReset
  <2> QED
    BY <2>1, MemoryCleared DEF Web!Restarted, WebInv
<1>4. CASE Web!Download(s)
  <2>1. /\ webreq' = [webreq EXCEPT !.kept = FALSE] /\ webupgrade.lock
        /\ webupgrade' = Web!local_upgrade_download(s)
        /\ UNCHANGED <<websettings, webscan, webfault>>
    BY <1>4 DEF Web!Download
  <2>2. RequestInv(webreq')
    BY <1>1, <2>1 DEF RequestInv
  <2>3. UpgradeInv(webupgrade')
    BY <1>1, <2>1, UpgradeKeeps
  <2> QED
    BY <1>1, <2>1, <2>2, <2>3 DEF WebInv
<1>5. ASSUME Web!check_data(s), Web!Saved(s) PROVE RequestInv(webreq')
  BY <1>1, <1>5, SavedKeeps
<1>6. CASE Web!Unparsed(s) \/ Web!Answered(s)
  <2>1. /\ Web!check_data(s) /\ Web!Saved(s)
        /\ UNCHANGED <<websettings, webscan, webupgrade, webfault>>
    BY <1>6 DEF Web!Unparsed, Web!Answered, Web!Request, Web!Handled
  <2> QED
    BY <1>1, <1>5, <2>1 DEF WebInv
<1>7. CASE \/ Web!GetWifi(s) \/ Web!PostReboot(s)
           \/ \E cmd \in {"wifi_ssid", "wifi_empty"} : Web!PostWifi(s, cmd)
  <2>1. /\ Web!check_data(s) /\ Web!Saved(s)
        /\ UNCHANGED <<webscan, webupgrade, webfault>>
    BY <1>7 DEF Web!GetWifi, Web!PostReboot, Web!PostWifi, Web!Request, Web!Handled
  <2>2. SettingsInv(websettings', "none")
    BY <1>1, <1>7, SettingsRequests
  <2> QED
    BY <1>1, <1>5, <2>1, <2>2 DEF WebInv
<1>8. CASE Web!GetScan(s) \/ Web!GetFinish(s) \/ Web!GetPage(s)
  <2>1. /\ Web!check_data(s) /\ Web!Saved(s)
        /\ UNCHANGED <<websettings, webupgrade, webfault>>
    BY <1>8 DEF Web!GetScan, Web!GetFinish, Web!GetPage, Web!Request, Web!Handled
  <2>2. ScanInv(webscan', "none")
    BY <1>1, <1>8, ScanRequests
  <2> QED
    BY <1>1, <1>5, <2>1, <2>2 DEF WebInv
<1>9. CASE Web!PostStart(s)
  <2>1. /\ Web!check_data(s) /\ Web!Saved(s)
        /\ UNCHANGED <<websettings, webscan, webfault>>
    BY <1>9 DEF Web!PostStart, Web!Request, Web!Handled
  <2>2. UpgradeInv(webupgrade')
    BY <1>1, <1>9, UpgradeKeeps
  <2> QED
    BY <1>1, <1>5, <2>1, <2>2 DEF WebInv
<1> QED
  BY <1>2, <1>3, <1>4, <1>6, <1>7, <1>8, <1>9 DEF Web!webserver_recv

\* The web server keeps the parts of requests, the settings, the pages of a scan and
\* the image of an upgrade apart, whatever its clients send and in whatever order, for
\* any number of connections, sizes of segments and pages, and lengths of images.
THEOREM WebStaysSound ==
  ASSUME Web!WebAssumption
  PROVE  Web!Spec => []Web!WebSound
<1>1. Web!Init => WebInv
  BY MemoryCleared DEF Web!Init, WebInv
<1>2. WebInv /\ [Web!Next]_Web!vars => WebInv'
  <2> SUFFICES ASSUME WebInv, [Web!Next]_Web!vars PROVE WebInv'
    OBVIOUS
  <2>1. CASE Web!Exception
    BY <2>1, MemoryCleared DEF Web!Exception, Web!Restarted, WebInv
  <2>2. ASSUME webfault = "none", NEW s \in Web!Segments, Web!webserver_recv(s)
        PROVE  WebInv'
    BY <2>2, SegmentKeeps
  <2>3. CASE webfault = "none" /\ Web!restart_10ms_cb
    BY <2>3, RestartTimerKeeps
  <2>4. CASE Web!UpgradeTimer \/ Web!local_upgrade_deinit
    <3>1. UpgradeInv(webupgrade')
      BY <2>4, UpgradeKeeps DEF WebInv
    <3>2. UNCHANGED <<webreq, websettings, webscan, webfault>>
      BY <2>4 DEF Web!UpgradeTimer, Web!local_upgrade_deinit
    <3> QED
      BY <3>1, <3>2 DEF WebInv
  <2>5. ASSUME webfault = "none", NEW n \in Scans, Web!json_scan_cb(n) PROVE WebInv'
    BY <2>5, ScanEndKeeps
  <2>6. CASE UNCHANGED Web!vars
    BY <2>6 DEF Web!vars, WebInv
  <2> QED
    BY <2>1, <2>2, <2>3, <2>4, <2>5, <2>6 DEF Web!Next
<1>3. WebInv => Web!WebSound
  <2> SUFFICES ASSUME WebInv PROVE Web!WebSound
    OBVIOUS
  <2>1. Web!RequestsApart
    BY DEF WebInv, RequestInv, Web!RequestsApart
  <2>2. Web!SettingsKept
    BY DEF WebInv, SettingsInv, Web!SettingsKept
  <2>3. Web!PagesApart
    <3>1. webscan.busy \in BOOLEAN /\ webscan.early \in BOOLEAN /\ ScanInv(webscan, webfault)
      BY DEF WebInv, ScanInv, ScanRec
    <3> QED
      BY <3>1 DEF ScanInv, Web!PagesApart
  <2>4. Web!ImageOfOneClient
    <3>1. webupgrade.lock \in BOOLEAN /\ webupgrade.dirty \in BOOLEAN /\ UpgradeInv(webupgrade)
      BY DEF WebInv, UpgradeInv, UpgradeRec
    <3> QED
      BY <3>1 DEF UpgradeInv, Web!ImageOfOneClient, OneClient
  <2> QED
    BY <2>1, <2>2, <2>3, <2>4 DEF Web!WebSound
<1> QED
  BY <1>1, <1>2, <1>3, PTL DEF Web!Spec

-----------------------------------------------------------------------------
(* The UART.  The bytes under way (in the buffer being filled and in the   *)
(* FIFO) form a chain that ends with the byte the line delivered last; and *)
(* as long as nothing was late, they are the frame on the line so far, or  *)
(* the whole of the last frame until the handler has taken it.             *)

\* The handler never reads more than the FIFO holds.
UartType ==
  /\ line \in [n : 0 .. MaxFrame, k : 0 .. MaxFrame] /\ line.k <= line.n
  /\ line.n # 0 => line.k # 0
  /\ fifo \in Seq(FrameBytes) /\ rx \in Seq(FrameBytes) /\ fifo_len \in Nat
  /\ tout \in BOOLEAN /\ full \in BOOLEAN /\ ovf \in BOOLEAN /\ late \in BOOLEAN
  /\ handler \in {"idle", "read"}
  /\ handler = "read" => Len(rx) <= fifo_len /\ fifo_len - Len(rx) <= Len(fifo)

\* The bytes under way.
On == IF handler = "read" THEN rx \o fifo ELSE fifo

Chain(s) == \A i \in 1 .. Len(s) - 1 : Joined(s[i], s[i + 1])

\* The last byte under way is the last on the line.
EndsWithLine(s) ==
  s # <<>> => IF Silent THEN s[Len(s)].k = s[Len(s)].n
              ELSE s[Len(s)] = Byte(line.n, line.k)

ChainInv == ovf \/ (Chain(On) /\ EndsWithLine(On))

\* The first k bytes of a frame of n.
FrameTo(n, k) == [i \in 1 .. k |-> Byte(n, i)]

\* Nothing was late and nothing too much: one frame at a time.
FrameInv ==
  ~ full /\ ~ ovf /\ ~ late =>
    \/ ~ Silent /\ handler = "idle" /\ ~ tout /\ fifo = FrameTo(line.n, line.k)
    \/ Silent /\ handler = "idle" /\ ~ tout /\ fifo = <<>>
    \/ /\ Silent /\ tout
       /\ \E n \in 1 .. MaxFrame :
            On = FrameTo(n, n) /\ (handler = "read" => fifo_len = n)

\* The inductive invariant.
UartInv ==
  /\ UartType /\ ChainInv /\ FrameInv
  /\ handler = "idle" /\ fifo = <<>> => ~ tout

-----------------------------------------------------------------------------

LEMMA AppendChain ==
  ASSUME NEW s \in Seq(FrameBytes), NEW b \in FrameBytes, Chain(s),
         s # <<>> => Joined(s[Len(s)], b)
  PROVE  /\ Chain(Append(s, b)) /\ Append(s, b) # <<>>
         /\ Append(s, b)[Len(Append(s, b))] = b
<1>1. /\ Len(Append(s, b)) = Len(s) + 1 /\ Len(s) \in Nat
      /\ \A i \in 1 .. Len(s) : Append(s, b)[i] = s[i]
      /\ Append(s, b)[Len(s) + 1] = b
  OBVIOUS
<1>2. ASSUME NEW i \in 1 .. Len(s)
      PROVE  Joined(Append(s, b)[i], Append(s, b)[i + 1])
  <2>1. CASE i = Len(s)
    BY <1>1, <2>1
  <2>2. CASE i # Len(s)
    <3>1. i \in 1 .. Len(s) - 1 /\ i + 1 \in 1 .. Len(s)
      BY <1>1, <2>2
    <3>2. Joined(s[i], s[i + 1])
      BY <3>1 DEF Chain
    <3> QED
      BY <1>1, <3>1, <3>2
  <2> QED
    BY <2>1, <2>2
<1>3. \A i \in 1 .. Len(Append(s, b)) - 1 :
        Joined(Append(s, b)[i], Append(s, b)[i + 1])
  BY <1>1, <1>2
<1>4. Append(s, b) # <<>>
  OBVIOUS
<1> QED
  BY <1>1, <1>3, <1>4 DEF Chain

\* What is read comes off the FIFO and goes to the end of the buffer.
LEMMA MoveHead ==
  ASSUME NEW r \in Seq(FrameBytes), NEW f \in Seq(FrameBytes), f # <<>>
  PROVE  Append(r, Head(f)) \o Tail(f) = r \o f
OBVIOUS

LEMMA ConcatAppend ==
  ASSUME NEW r \in Seq(FrameBytes), NEW f \in Seq(FrameBytes),
         NEW b \in FrameBytes
  PROVE  r \o Append(f, b) = Append(r \o f, b)
OBVIOUS

LEMMA SuffixChain ==
  ASSUME NEW r \in Seq(FrameBytes), NEW f \in Seq(FrameBytes), Chain(r \o f)
  PROVE  Chain(f) /\ (f # <<>> => (r \o f)[Len(r \o f)] = f[Len(f)])
<1>1. /\ Len(r \o f) = Len(r) + Len(f) /\ Len(r) \in Nat /\ Len(f) \in Nat
      /\ \A i \in 1 .. Len(f) : (r \o f)[Len(r) + i] = f[i]
  OBVIOUS
<1>2. ASSUME NEW i \in 1 .. Len(f) - 1
      PROVE  Joined(f[i], f[i + 1])
  <2>1. /\ Len(r) + i \in 1 .. Len(r \o f) - 1
        /\ i \in 1 .. Len(f) /\ i + 1 \in 1 .. Len(f)
    BY <1>1
  <2>2. Joined((r \o f)[Len(r) + i], (r \o f)[Len(r) + i + 1])
    BY <2>1 DEF Chain
  <2>3. Len(r) + i + 1 = Len(r) + (i + 1)
    BY <1>1, <2>1
  <2> QED
    BY <1>1, <2>1, <2>2, <2>3
<1>3. f # <<>> => Len(f) \in 1 .. Len(f)
  BY <1>1
<1> QED
  BY <1>1, <1>2, <1>3 DEF Chain

LEMMA FrameGrows ==
  ASSUME NEW n \in Nat, NEW k \in Nat
  PROVE  Append(FrameTo(n, k), Byte(n, k + 1)) = FrameTo(n, k + 1)
<1>1. FrameTo(n, k) \in Seq([n : {n}, k : Nat]) /\ Len(FrameTo(n, k)) = k
  BY DEF FrameTo, Byte
<1> QED
  BY <1>1 DEF FrameTo

LEMMA FrameBytesOf ==
  ASSUME NEW n \in 1 .. MaxFrame, NEW k \in 1 .. n, MaxFrame \in Nat
  PROVE  Byte(n, k) \in FrameBytes
BY DEF Byte, FrameBytes

-----------------------------------------------------------------------------
(* The steps. *)

\* A byte arrives at the end of the chain.
LEMMA ReceiveChains ==
  ASSUME UartAssumption, UartInv, NEW n \in 1 .. MaxFrame, NEW k \in 1 .. n,
         NEW bad, Receive(n, k, bad), late' \in BOOLEAN,
         On # <<>> /\ ~ ovf => Joined(On[Len(On)], Byte(n, k))
  PROVE  /\ UartType' /\ ChainInv' /\ fifo' # <<>>
         /\ ~ ovf' => ~ ovf /\ fifo' = Append(fifo, Byte(n, k))
<1>1. Byte(n, k) \in FrameBytes
  BY FrameBytesOf DEF UartAssumption
<1>2. /\ line' = [n |-> n, k |-> k] /\ n # 0 /\ ~ Silent'
      /\ UNCHANGED <<tout, handler, fifo_len, rx>>
  BY DEF Receive, Silent
<1>3. \/ fifo' = Append(fifo, Byte(n, k)) /\ ovf' = ovf
      \/ fifo' = fifo /\ ovf' /\ ~ (Len(fifo) < Depth)
  BY DEF Receive, UartInv, UartType
<1>4. full' \in BOOLEAN /\ ovf' \in BOOLEAN
  BY DEF Receive, UartInv, UartType
<1>5. fifo \in Seq(FrameBytes) /\ rx \in Seq(FrameBytes)
  BY DEF UartInv, UartType
<1>6. fifo' \in Seq(FrameBytes) /\ Len(fifo') >= Len(fifo) /\ fifo' # <<>>
  <2>1. CASE fifo' = Append(fifo, Byte(n, k))
    BY <1>1, <1>5, <2>1
  <2>2. CASE fifo' = fifo /\ ~ (Len(fifo) < Depth)
    BY <1>5, <2>2 DEF UartAssumption
  <2> QED
    BY <1>3, <2>1, <2>2
<1>7. UartType'
  <2>1. line' \in [n : 0 .. MaxFrame, k : 0 .. MaxFrame] /\ line'.k <= line'.n
           /\ line'.k # 0
    BY <1>2 DEF UartAssumption
  <2>2. handler' = "read" => Len(rx') <= fifo_len' /\ fifo_len' - Len(rx') <= Len(fifo')
    BY <1>2, <1>5, <1>6 DEF UartInv, UartType
  <2> QED
    BY <1>2, <1>4, <1>5, <1>6, <2>1, <2>2 DEF UartInv, UartType
<1>8. ASSUME ~ ovf' PROVE ~ ovf /\ fifo' = Append(fifo, Byte(n, k))
  BY <1>3, <1>8
<1>9. ASSUME ~ ovf' PROVE Chain(On') /\ EndsWithLine(On)'
  <2>1. On' = Append(On, Byte(n, k)) /\ On \in Seq(FrameBytes)
    <3>1. fifo' = Append(fifo, Byte(n, k)) /\ rx' = rx /\ handler' = handler
      BY <1>2, <1>8, <1>9
    <3>2. rx \o Append(fifo, Byte(n, k)) = Append(rx \o fifo, Byte(n, k))
      BY <1>1, <1>5, ConcatAppend
    <3>3. On \in Seq(FrameBytes)
      BY <1>5 DEF On
    <3> QED
      BY <3>1, <3>2, <3>3 DEF On
  <2>2. Chain(On)
    BY <1>8, <1>9 DEF UartInv, ChainInv
  <2>3. Chain(On') /\ On'[Len(On')] = Byte(n, k)
    BY <1>1, <1>8, <1>9, <2>1, <2>2, AppendChain
  <2> QED
    BY <1>2, <2>3 DEF EndsWithLine
<1>10. ChainInv'
  BY <1>9 DEF ChainInv, Chain
<1> QED
  BY <1>6, <1>7, <1>8, <1>10

LEMMA BeginsKeeps ==
  ASSUME UartAssumption, UartInv, NEW n \in 1 .. MaxFrame, NEW bad,
         FrameBegins(n, bad)
  PROVE  UartInv'
<1>1. /\ Silent /\ Receive(n, 1, bad) /\ late' = (fifo # <<>> \/ handler = "read")
      /\ late' \in BOOLEAN /\ 1 \in 1 .. n
  BY DEF FrameBegins, UartAssumption
<1>2. On # <<>> /\ ~ ovf => Joined(On[Len(On)], Byte(n, 1))
  BY <1>1 DEF UartInv, ChainInv, EndsWithLine, Joined, Byte
<1>3. /\ UartType' /\ ChainInv' /\ fifo' # <<>>
      /\ ~ ovf' => ~ ovf /\ fifo' = Append(fifo, Byte(n, 1))
  BY <1>1, <1>2, ReceiveChains
<1>4. FrameInv'
  <2> SUFFICES ASSUME ~ ovf', ~ late' PROVE FrameInv'
    BY DEF FrameInv
  <2>1. fifo = <<>> /\ handler = "idle" /\ ~ tout
    BY <1>1 DEF UartInv, UartType
  <2>2. Append(FrameTo(n, 0), Byte(n, 0 + 1)) = FrameTo(n, 0 + 1)
    BY FrameGrows
  <2>3. FrameTo(n, 0) = <<>>
    BY DEF FrameTo
  <2>4. fifo' = FrameTo(n, 1)
    BY <1>3, <2>1, <2>2, <2>3
  <2>5. line' = [n |-> n, k |-> 1] /\ ~ Silent' /\ UNCHANGED <<handler, tout>>
    BY <1>1 DEF Receive, Silent
  <2>6. line'.n = n /\ line'.k = 1
    BY <2>5
  <2>7. ~ Silent' /\ handler' = "idle" /\ ~ tout' /\ fifo' = FrameTo(line'.n, line'.k)
    BY <2>1, <2>4, <2>5, <2>6
  <2> QED
    BY <2>7 DEF FrameInv, FrameTo
<1> QED
  BY <1>3, <1>4 DEF UartInv

LEMMA GoesOnKeeps ==
  ASSUME UartAssumption, UartInv, NEW bad, FrameGoesOn(bad)
  PROVE  UartInv'
<1> DEFINE n == line.n
           k == line.k + 1
<1>1. /\ ~ Silent /\ Receive(n, k, bad) /\ UNCHANGED late
      /\ n \in 1 .. MaxFrame /\ k \in 1 .. n /\ line.k \in Nat /\ line.k < n
      /\ late' \in BOOLEAN
  BY DEF FrameGoesOn, UartInv, UartType, Silent, UartAssumption
<1>2. On # <<>> /\ ~ ovf => Joined(On[Len(On)], Byte(n, k))
  <2> SUFFICES ASSUME On # <<>>, ~ ovf PROVE Joined(On[Len(On)], Byte(n, k))
    OBVIOUS
  <2>1. On[Len(On)] = Byte(line.n, line.k)
    BY <1>1 DEF UartInv, ChainInv, EndsWithLine
  <2> QED
    BY <1>1, <2>1 DEF Joined, Byte
<1>3. /\ UartType' /\ ChainInv' /\ fifo' # <<>>
      /\ ~ ovf' => ~ ovf /\ fifo' = Append(fifo, Byte(n, k))
  BY <1>1, <1>2, ReceiveChains
<1>4. FrameInv'
  <2> SUFFICES ASSUME ~ full', ~ ovf', ~ late' PROVE FrameInv'
    BY DEF FrameInv
  <2>1. ~ full /\ ~ ovf /\ ~ late
    BY <1>1, <1>3 DEF Receive
  <2>2. handler = "idle" /\ ~ tout /\ fifo = FrameTo(line.n, line.k)
    BY <1>1, <2>1 DEF UartInv, FrameInv
  <2>3. Append(FrameTo(n, line.k), Byte(n, k)) = FrameTo(n, k)
    <3>1. line.n \in Nat /\ line.k \in Nat
      BY <1>1 DEF UartAssumption
    <3> QED
      BY <3>1, FrameGrows
  <2>4. fifo' = FrameTo(n, k)
    BY <1>3, <2>2, <2>3
  <2>5. line' = [n |-> n, k |-> k] /\ UNCHANGED <<handler, tout>>
    BY <1>1 DEF Receive
  <2>6. line'.n = n /\ line'.k = k /\ ~ Silent'
    BY <1>1, <2>5 DEF Silent
  <2>7. ~ Silent' /\ handler' = "idle" /\ ~ tout' /\ fifo' = FrameTo(line'.n, line'.k)
    BY <2>2, <2>4, <2>5, <2>6
  <2> QED
    BY <2>7 DEF FrameInv, FrameTo
<1> QED
  BY <1>3, <1>4 DEF UartInv

LEMMA SilenceKeeps ==
  ASSUME UartAssumption, UartInv, Silence
  PROVE  UartInv'
<1>1. /\ ~ Silent /\ line.k = line.n /\ handler = "idle"
      /\ line' = [n |-> 0, k |-> 0] /\ tout' = (tout \/ fifo # <<>>)
      /\ UNCHANGED <<fifo, full, ovf, handler, fifo_len, rx, late>>
  BY DEF Silence
<1>2. Silent' /\ On' = On /\ On = fifo
  BY <1>1 DEF Silent, On
<1>3. UartType'
  BY <1>1 DEF UartInv, UartType, UartAssumption
<1>4. ChainInv'
  <2>1. ASSUME ~ ovf, On # <<>> PROVE On[Len(On)].k = On[Len(On)].n
    BY <1>1, <2>1 DEF UartInv, ChainInv, EndsWithLine, Byte
  <2>2. ovf \/ (Chain(On') /\ EndsWithLine(On)')
    BY <1>2, <2>1 DEF UartInv, ChainInv, EndsWithLine
  <2> QED
    BY <1>1, <2>2 DEF ChainInv, Chain
<1>5. FrameInv'
  <2> SUFFICES ASSUME ~ full, ~ ovf, ~ late PROVE FrameInv'
    BY <1>1 DEF FrameInv
  <2>1. fifo = FrameTo(line.n, line.n) /\ line.n \in 1 .. MaxFrame
    BY <1>1 DEF UartInv, FrameInv, UartType, Silent, UartAssumption
  <2>2. fifo # <<>>
    BY <2>1 DEF FrameTo
  <2>3. Silent' /\ tout' /\ \E n \in 1 .. MaxFrame : On' = FrameTo(n, n)
    BY <1>1, <1>2, <2>1, <2>2
  <2> QED
    BY <1>1, <2>3 DEF FrameInv, FrameTo
<1> QED
  BY <1>1, <1>3, <1>4, <1>5 DEF UartInv

\* Steps that leave the line alone.
LEMMA HandlerKeeps ==
  ASSUME UartAssumption, UartInv, uart_intr_handler
  PROVE  UartInv' /\ WholeFrame
<1>0. line' = line /\ late' = late /\ (Silent' <=> Silent)
        /\ UNCHANGED <<full, ovf>>
  BY DEF uart_intr_handler, IntrFrameError, IntrReceive, IntrRead, IntrDone,
         IntrTxEmpty, Silent, status
<1>1. CASE IntrFrameError \/ IntrTxEmpty
  <2>1. UNCHANGED <<fifo, tout, handler, fifo_len, rx>> /\ handler = "idle"
    BY <1>1 DEF IntrFrameError, IntrTxEmpty
  <2>2. On' = On
    BY <2>1 DEF On
  <2>3. UartType'
    BY <1>0, <2>1 DEF UartInv, UartType
  <2>4. ChainInv'
    BY <1>0, <2>2 DEF UartInv, ChainInv, Chain, EndsWithLine
  <2>5. FrameInv'
    BY <1>0, <2>1, <2>2 DEF UartInv, FrameInv, FrameTo
  <2> QED
    BY <2>1, <2>3, <2>4, <2>5 DEF UartInv, WholeFrame
<1>2. CASE IntrReceive
  <2>1. /\ handler = "idle" /\ (tout \/ ovf \/ full) /\ rx' = <<>> /\ fifo_len' = Len(fifo)
        /\ handler' = "read" /\ UNCHANGED <<fifo, tout>>
    BY <1>2 DEF IntrReceive, status
  <2>2. fifo \in Seq(FrameBytes) /\ Len(fifo) \in Nat
    BY DEF UartInv, UartType
  <2>3. On' = On /\ On = fifo
    BY <2>1, <2>2 DEF On
  <2>4. UartType'
    BY <1>0, <2>1, <2>2 DEF UartInv, UartType
  <2>5. ChainInv'
    BY <1>0, <2>3 DEF UartInv, ChainInv, Chain, EndsWithLine
  <2>6. FrameInv'
    <3> SUFFICES ASSUME ~ full, ~ ovf, ~ late PROVE FrameInv'
      BY <1>0 DEF FrameInv
    <3>1. Silent /\ \E n \in 1 .. MaxFrame : On = FrameTo(n, n)
      BY <2>1 DEF UartInv, FrameInv
    <3>2. PICK n \in 1 .. MaxFrame : On = FrameTo(n, n)
      BY <3>1
    <3>3. Len(fifo) = n
      BY <2>3, <3>2 DEF FrameTo, UartAssumption
    <3>4. Silent' /\ tout' /\ On' = FrameTo(n, n) /\ fifo_len' = n
      BY <1>0, <2>1, <2>3, <3>1, <3>2, <3>3
    <3> QED
      BY <3>4 DEF FrameInv, FrameTo
  <2> QED
    BY <2>1, <2>4, <2>5, <2>6 DEF UartInv, WholeFrame
<1>3. CASE IntrRead
  <2>1. /\ handler = "read" /\ Len(rx) < fifo_len /\ rx' = Append(rx, Head(fifo))
        /\ fifo' = Tail(fifo) /\ UNCHANGED <<handler, fifo_len, tout>>
    BY <1>3 DEF IntrRead, status
  <2>2. /\ fifo \in Seq(FrameBytes) /\ rx \in Seq(FrameBytes) /\ fifo_len \in Nat
        /\ fifo_len - Len(rx) <= Len(fifo)
    BY <2>1 DEF UartInv, UartType
  <2>3. fifo # <<>>
    BY <2>1, <2>2
  <2>4. On' = On
    BY <2>1, <2>2, <2>3, MoveHead DEF On
  <2>5. /\ rx' \in Seq(FrameBytes) /\ fifo' \in Seq(FrameBytes)
        /\ Len(rx') = Len(rx) + 1 /\ Len(fifo') = Len(fifo) - 1
    BY <2>1, <2>2, <2>3
  <2>6. UartType'
    BY <1>0, <2>1, <2>2, <2>5 DEF UartInv, UartType
  <2>7. ChainInv'
    BY <1>0, <2>4 DEF UartInv, ChainInv, Chain, EndsWithLine
  <2>8. FrameInv'
    BY <1>0, <2>1, <2>4 DEF UartInv, FrameInv, FrameTo
  <2> QED
    BY <2>1, <2>6, <2>7, <2>8 DEF UartInv, WholeFrame
<1>4. CASE IntrDone
  <2>1. /\ handler = "read" /\ Len(rx) = fifo_len /\ ~ tout' /\ tout' \in BOOLEAN
        /\ handler' = "idle" /\ UNCHANGED <<fifo, fifo_len, rx>>
    BY <1>4 DEF IntrDone
  <2>2. /\ fifo \in Seq(FrameBytes) /\ rx \in Seq(FrameBytes) /\ fifo_len \in Nat
    BY DEF UartInv, UartType
  <2>3. On = rx \o fifo /\ On' = fifo
    BY <2>1 DEF On
  <2>4. UartType'
    BY <1>0, <2>1 DEF UartInv, UartType
  <2>5. ChainInv'
    <3> SUFFICES ASSUME ~ ovf PROVE Chain(On') /\ EndsWithLine(On)'
      BY <1>0 DEF ChainInv, Chain
    <3>1. Chain(rx \o fifo) /\ EndsWithLine(rx \o fifo)
      BY <2>3 DEF UartInv, ChainInv
    <3>2. Chain(fifo)
      BY <2>2, <3>1, SuffixChain
    <3>3. fifo # <<>> => rx \o fifo # <<>>
                           /\ (rx \o fifo)[Len(rx \o fifo)] = fifo[Len(fifo)]
      BY <2>2, <3>1, SuffixChain
    <3>4. EndsWithLine(fifo)
      BY <3>1, <3>3 DEF EndsWithLine
    <3> QED
      BY <1>0, <2>3, <3>2, <3>4 DEF EndsWithLine
  <2>6. ASSUME ~ full, ~ ovf, ~ late
        PROVE  /\ Silent /\ fifo = <<>>
               /\ rx # <<>> /\ Len(rx) = rx[1].n /\ rx[1].k = 1
    <3>1. Silent /\ \E n \in 1 .. MaxFrame : On = FrameTo(n, n) /\ fifo_len = n
      BY <2>1, <2>6 DEF UartInv, FrameInv
    <3>2. PICK n \in 1 .. MaxFrame : On = FrameTo(n, n) /\ fifo_len = n
      BY <3>1
    <3>3. n \in Nat /\ n >= 1 /\ Len(On) = n /\ On[1] = Byte(n, 1)
      BY <3>2 DEF FrameTo, UartAssumption
    <3>4. Len(rx \o fifo) = Len(rx) + Len(fifo) /\ Len(rx) = n
      BY <2>1, <2>2, <3>2
    <3>5. Len(fifo) = 0
      BY <2>2, <2>3, <3>3, <3>4
    <3>6. rx[1] = Byte(n, 1)
      BY <2>2, <2>3, <3>3, <3>4
    <3> QED
      BY <2>2, <3>1, <3>3, <3>4, <3>5, <3>6 DEF Byte
  <2>7. FrameInv'
    <3> SUFFICES ASSUME ~ full, ~ ovf, ~ late PROVE FrameInv'
      BY <1>0 DEF FrameInv
    <3>1. Silent' /\ handler' = "idle" /\ ~ tout' /\ fifo' = <<>>
      BY <1>0, <2>1, <2>6
    <3> QED
      BY <3>1 DEF FrameInv
  <2>8. WholeFrame
    BY <2>1, <2>6 DEF WholeFrame
  <2> QED
    BY <2>1, <2>4, <2>5, <2>7, <2>8 DEF UartInv
<1> QED
  BY <1>1, <1>2, <1>3, <1>4 DEF uart_intr_handler

LEMMA UartNextKeeps ==
  ASSUME UartAssumption, UartInv, [UartNext]_uartVars
  PROVE  UartInv' /\ WholeFrame
<1>1. ASSUME handler' = handler PROVE WholeFrame
  BY <1>1 DEF WholeFrame
<1>2. ASSUME NEW bad, FrameGoesOn(bad) PROVE UartInv' /\ WholeFrame
  BY <1>1, <1>2, GoesOnKeeps DEF FrameGoesOn, Receive
<1>3. ASSUME NEW bad, NEW n \in 1 .. MaxFrame, FrameBegins(n, bad)
      PROVE  UartInv' /\ WholeFrame
  BY <1>1, <1>3, BeginsKeeps DEF FrameBegins, Receive
<1>4. CASE Silence
  BY <1>1, <1>4, SilenceKeeps DEF Silence
<1>5. CASE UNCHANGED uartVars
  <2>1. UartType' /\ handler' = handler /\ fifo' = fifo /\ tout' = tout
    BY <1>5 DEF uartVars, UartInv, UartType
  <2>2. ChainInv'
    BY <1>5 DEF uartVars, UartInv, ChainInv, Chain, EndsWithLine, On, Silent
  <2>3. FrameInv'
    BY <1>5 DEF uartVars, UartInv, FrameInv, FrameTo, On, Silent
  <2> QED
    BY <1>1, <2>1, <2>2, <2>3 DEF UartInv
<1> QED
  BY <1>2, <1>3, <1>4, <1>5, HandlerKeeps DEF UartNext

-----------------------------------------------------------------------------

\* The invariant, for every FIFO depth, threshold and frame length.
THEOREM BytesUnderWay == ASSUME UartAssumption PROVE UartSpec => []UartInv
<1>1. UartInit => UartInv
  <2> SUFFICES ASSUME UartInit PROVE UartInv
    OBVIOUS
  <2>1. UartType
    <3>1. /\ 0 \in 0 .. MaxFrame /\ line = [n |-> 0, k |-> 0]
          /\ fifo \in Seq(FrameBytes) /\ rx \in Seq(FrameBytes)
      BY DEF UartInit, UartAssumption
    <3>2. line \in [n : 0 .. MaxFrame, k : 0 .. MaxFrame]
            /\ line.n = 0 /\ line.k = 0
      BY <3>1
    <3>3. /\ tout \in BOOLEAN /\ full \in BOOLEAN /\ ovf \in BOOLEAN
          /\ late \in BOOLEAN /\ handler = "idle" /\ fifo_len = 0
      BY DEF UartInit
    <3>4. line.k <= line.n /\ (line.n # 0 => line.k # 0) /\ fifo_len \in Nat
      BY <3>2, <3>3
    <3> QED
      BY <3>1, <3>2, <3>3, <3>4, Zenon DEF UartType
  <2>2. On = <<>> /\ Silent /\ handler = "idle" /\ ~ tout /\ fifo = <<>>
    BY DEF UartInit, On, Silent
  <2>3. ChainInv
    BY <2>2 DEF ChainInv, Chain, EndsWithLine
  <2> QED
    BY <2>1, <2>2, <2>3 DEF UartInv, FrameInv
<1>2. UartInv /\ [UartNext]_uartVars => UartInv'
  BY UartNextKeeps
<1> QED
  BY <1>1, <1>2, PTL DEF UartSpec

\* OneFrameAtATime: uart_intr_handler hands uart0_rx_cb one whole frame per
\* call unless the threshold or the end of the FIFO was reached or it came
\* too late, and never moves, doubles or drops a byte unless the FIFO
\* overflows.
THEOREM FramesArriveWhole == ASSUME UartAssumption PROVE UartSpec => OneFrameAtATime
<1>1. UartInv => InOrder
  BY DEF UartInv, ChainInv, Chain, On, InOrder
<1>2. UartInv /\ InOrder' /\ [UartNext]_uartVars => [InOrder' /\ WholeFrame]_uartVars
  BY UartNextKeeps
<1> QED
  BY <1>1, <1>2, BytesUnderWay, PTL DEF UartSpec, OneFrameAtATime
=============================================================================
