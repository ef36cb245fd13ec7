----------------------------- MODULE RingBuffer -----------------------------
(***************************************************************************)
(* user_ringbuffer.c as its callers see it: each function runs to          *)
(* completion, and the destination of a get is a buffer of the caller's    *)
(* own.  (Uplink models the use the gateway really makes of it.)           *)
(***************************************************************************)
EXTENDS RingOps

VARIABLES
  mem,    \* pbuf and the guard bytes behind it
  head,   \* next byte to write
  tail,   \* next byte to read
  lock    \* p_rb->lock, which neither put nor get looks at

(* The last call, as its caller sees it. *)
VARIABLES
  given,  \* the bytes handed to put
  wanted, \* the length asked of get
  des,    \* what get copied out
  ret     \* what put or get returned

vars == <<mem, head, tail, lock, given, wanted, des, ret>>

\* A call with these arguments, and what it delivers.
Call(src, len, out, sz) ==
  given' = src /\ wanted' = len /\ des' = out /\ ret' = sz

\* The state user_rb_init leaves behind, the guard bytes being anything.
Init ==
  /\ mem \in {Zeroed(m) : m \in Memory}
  /\ head = 0
  /\ tail = 0
  /\ lock = FALSE
  /\ given = <<>> /\ wanted = 0 /\ des = <<>> /\ ret = 0

user_rb_put(src) ==
  LET sz == PutSize(head, tail, Len(src))
  IN  /\ mem' = PutMemory(mem, head, tail, src)
      /\ head' = Wrap(head + sz)
      /\ Call(src, 0, <<>>, sz)
      /\ UNCHANGED <<tail, lock>>

user_rb_get(len) ==
  LET sz == GetSize(head, tail, len)
      rz == FirstRun(head, tail, sz)
  IN  /\ tail' = Wrap(tail + sz)
      /\ Call(<<>>, len, Load(mem, tail, rz) \o Load(mem, 0, sz - rz), sz)
      /\ UNCHANGED <<mem, head, lock>>

user_rb_reset ==
  /\ mem' = Zeroed(mem)
  /\ head' = 0
  /\ tail' = 0
  /\ Call(<<>>, 0, <<>>, 0)
  /\ UNCHANGED lock

user_rb_init ==
  /\ mem' = Zeroed(mem)
  /\ head' = 0
  /\ tail' = 0
  /\ lock' = FALSE
  /\ Call(<<>>, 0, <<>>, 0)

\* Spins while the lock is taken, gives up after 50000 rounds and takes it
\* either way.
user_rb_lock ==
  /\ lock' = TRUE
  /\ Call(<<>>, 0, <<>>, 0)
  /\ UNCHANGED <<mem, head, tail>>

user_rb_unlock ==
  /\ lock' = FALSE
  /\ Call(<<>>, 0, <<>>, 0)
  /\ UNCHANGED <<mem, head, tail>>

Next ==
  \/ \E src \in Strings : user_rb_put(src)
  \/ \E len \in 0 .. MaxLen : user_rb_get(len)
  \/ user_rb_reset
  \/ user_rb_init
  \/ user_rb_lock
  \/ user_rb_unlock

Spec == Init /\ [][Next]_vars

-----------------------------------------------------------------------------
(* Properties *)

\* The indices stay inside the storage (head < size and tail < size, which
\* every size computation in put and get relies on).
TypeOK ==
  /\ mem \in Memory
  /\ head \in Storage
  /\ tail \in Storage
  /\ lock \in BOOLEAN
  /\ given \in Strings
  /\ wanted \in 0 .. MaxLen
  /\ des \in Seq(Bytes)
  /\ ret \in 0 .. MaxLen

\* The unread bytes, oldest first: what the ring stands for.
Contents ==
  [i \in 1 .. user_rb_unread_size(head, tail) |-> mem[Wrap(tail + i - 1)]]

\* No memcpy or memset of user_ringbuffer.c ever writes behind the storage:
\* whatever the calls and their lengths, the guard bytes keep their values.
GuardIntact ==
  [][\A a \in Addr \ Storage : mem'[a] = mem[a]]_vars

\* The ring is the bounded byte queue of RingFifo, call for call: bytes come
\* out once, in order and unchanged, a put keeps a prefix of what it is given
\* and returns its length, a get delivers as much of what it is asked for as
\* there is, and the only loss is the one RingFifo states (a put that fills
\* the storage to the last byte leaves head = tail, which reads as empty).
Fifo == INSTANCE RingFifo WITH q <- Contents
ImplementsFifo == Fifo!Spec
=============================================================================
