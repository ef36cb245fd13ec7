------------------------------ MODULE RingOps ------------------------------
(***************************************************************************)
(* The arithmetic of app/user/user_ringbuffer.c as pure operators, shared  *)
(* by the sequential model (RingBuffer) and by the interrupt/task model of *)
(* the uplink (Uplink).                                                    *)
(*                                                                         *)
(* Memory is a function from addresses to bytes.  The ring's storage pbuf  *)
(* is the addresses 0 .. Size-1; the addresses from Size on stand for      *)
(* whatever the linker placed behind it, so that a copy which runs past    *)
(* the end of the storage is visible as a write to a guard byte.           *)
(***************************************************************************)
EXTENDS Integers, Sequences

CONSTANTS
  Size,     \* p_rb->size, the bytes of storage
  Guard,    \* bytes of foreign memory modelled behind the storage
  Bytes,    \* the values a byte takes
  MaxLen    \* the longest request of one put or get

ASSUME RingAssumption ==
  /\ Size \in Nat \ {0}
  /\ Guard \in Nat
  /\ MaxLen \in Nat
  /\ 0 \in Bytes

Addr == 0 .. Size + Guard - 1
Storage == 0 .. Size - 1
Memory == [Addr -> Bytes]

\* The byte strings a caller may hand to the ring.
Strings == UNION {[1 .. n -> Bytes] : n \in 0 .. MaxLen}

\* if( sz > len ) sz = len;
AtMost(sz, len) == IF sz > len THEN len ELSE sz

\* x += sz; if( x >= size ) x -= size;
Wrap(x) == IF x >= Size THEN x - Size ELSE x

user_rb_unread_size(head, tail) ==
  IF head >= tail THEN head - tail ELSE Size + head - tail

\* The bytes a put accepts: the free space, cut to the request.
PutSize(head, tail, len) ==
  AtMost(IF head >= tail THEN Size + tail - head ELSE tail - head, len)

\* The bytes a get delivers.
GetSize(head, tail, len) == AtMost(user_rb_unread_size(head, tail), len)

\* memcpy( mem + at, src + from, n )
Store(mem, at, src, from, n) ==
  [a \in DOMAIN mem |->
     IF at <= a /\ a < at + n THEN src[from + a - at + 1] ELSE mem[a]]

\* memcpy( des, mem + at, n ) into a buffer of the caller's own
Load(mem, at, n) == [i \in 1 .. n |-> mem[at + i - 1]]

PutMemoryUnsplit(mem, head, tail, src) ==
  Store(mem, head, src, 0, PutSize(head, tail, Len(src)))

PutMemoryRestart(mem, head, tail, src) ==
  LET sz == PutSize(head, tail, Len(src))
      rz == Size - head
  IN  IF head >= tail /\ rz < sz
      THEN Store(Store(mem, head, src, 0, rz), 0, src, 0, sz - rz)
      ELSE Store(mem, head, src, 0, sz)

\* The memory after user_rb_put: one memcpy, or two when the free space wraps.
PutMemory(mem, head, tail, src) ==
  LET sz == PutSize(head, tail, Len(src))
      rz == Size - head
  IN  IF head >= tail /\ rz < sz
      THEN Store(Store(mem, head, src, 0, rz), 0, src, rz, sz - rz)
      ELSE Store(mem, head, src, 0, sz)

\* The first memcpy of a get covers this many bytes, the second the rest.
FirstRun(head, tail, sz) ==
  IF head < tail /\ Size - tail < sz THEN Size - tail ELSE sz

\* memset( pbuf, 0, size )
Zeroed(mem) == [a \in DOMAIN mem |-> IF a \in Storage THEN 0 ELSE mem[a]]
=============================================================================
