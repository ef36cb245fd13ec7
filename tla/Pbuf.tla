-------------------------------- MODULE Pbuf --------------------------------
(***************************************************************************)
(* Packet buffers (core/pbuf.c): a heap of reference-counted buffers,      *)
(* linked into chains, each describing len bytes of its memory from an     *)
(* offset on and, in tot_len, the bytes of the chain that starts there.    *)
(* The operations are called the way the stack calls them: by a holder of  *)
(* a reference, on the first buffer of a packet, and with a second packet  *)
(* that has data and is not part of the first (as udp_sendto_if does).     *)
(***************************************************************************)
EXTENDS Integers, Sequences, FiniteSets, FiniteSetsExt, SequencesExt

CONSTANTS
  NumPbufs,  \* the memory blocks mem_malloc and memp_malloc may return
  Lens,      \* the lengths that are asked for
  PoolSize,  \* PBUF_POOL_BUFSIZE
  Room,      \* the bytes pbuf_alloc leaves in front for headers
  MaxOwners, \* bound: references held by the callers together
  MaxFront   \* bound: bytes shown in front of what a REF buffer began with

PbufAssumption ==
  /\ {NumPbufs, PoolSize, Room, MaxOwners, MaxFront} \union Lens \subseteq Nat
  /\ Room < PoolSize

Pbufs == 1 .. NumPbufs

Null == 0

VARIABLES
  heap,    \* the struct pbuf of every block in use
  owners   \* history: the references held outside the heap

vars == <<heap, owners>>

Free == [type |-> "free", next |-> Null, len |-> 0, tot_len |-> 0, ref |-> 0, off |-> 0]

Used(p) == heap[p].type # "free"

\* The block an allocation returns: which of the free ones makes no difference.
Vacant(p) == ~ Used(p) /\ \A q \in 1 .. p - 1 : Used(q)

Bounded == MapThenSumSet(LAMBDA p : owners[p], Pbufs) < MaxOwners

Init ==
  /\ heap = [p \in Pbufs |-> Free]
  /\ owners = [p \in Pbufs |-> 0]

\* The buffers from p to the end of its chain.
RECURSIVE Chain(_, _)
Chain(h, p) == IF p = Null THEN << >> ELSE <<p>> \o Chain(h, h[p].next)

Members(h, p) == ToSet(Chain(h, p))

\* The first buffer of a packet: no other buffer links to it.
IsHead(p) == Used(p) /\ \A q \in Pbufs : Used(q) => heap[q].next # p

-----------------------------------------------------------------------------
\* The chain is freed whole, whoever else holds a part of it.
FreeAll(h, p) ==
  LET c == Chain(h, p) IN [q \in Pbufs |-> IF q \in ToSet(c) THEN Free ELSE h[q]]

\* pbuf_free: give back the buffers from p on that nothing else refers to;
\* the first one that is still referred to loses this reference.
pbuf_free(h, p) ==
  LET c == Chain(h, p)
      kept == {k \in DOMAIN c : h[c[k]].ref > 1}
      last == IF kept = {} THEN Len(c) + 1 ELSE CHOOSE k \in kept : \A j \in kept : k <= j
      gone == {c[k] : k \in 1 .. last - 1}
  IN  [q \in Pbufs |->
         IF q \in gone THEN Free
         ELSE IF last <= Len(c) /\ q = c[last] THEN [h[q] EXCEPT !.ref = @ - 1]
         ELSE h[q]]

\* pbuf_alloc of one buffer.  REF and ROM buffers describe foreign memory.
pbuf_alloc(p, type, len) ==
  /\ Vacant(p) /\ Bounded
  /\ heap' = [heap EXCEPT ![p] = [Free EXCEPT !.type = type, !.len = len, !.tot_len = len,
                                              !.ref = 1, !.off = IF type = "RAM" THEN Room ELSE 0]]
  /\ owners' = [owners EXCEPT ![p] = 1]

\* pbuf_alloc from the pool, of a length that takes two buffers.
PoolAlloc(p, q, len) ==
  LET first == PoolSize - Room IN
  /\ p < q /\ ~ Used(q) /\ Vacant(p) /\ Bounded /\ \A r \in p + 1 .. q - 1 : Used(r)
  /\ first < len /\ len <= first + PoolSize
  /\ heap' = [heap EXCEPT
       ![p] = [type |-> "POOL", next |-> q, len |-> first, tot_len |-> len, ref |-> 1,
               off |-> Room],
       ![q] = [type |-> "POOL", next |-> Null, len |-> len - first, tot_len |-> len - first,
               ref |-> 1, off |-> 0]]
  /\ owners' = [owners EXCEPT ![p] = 1]

pbuf_ref(p) ==
  /\ owners[p] > 0
  /\ Bounded
  /\ heap' = [heap EXCEPT ![p].ref = @ + 1]
  /\ owners' = [owners EXCEPT ![p] = @ + 1]

Release(p) ==
  /\ owners[p] > 0
  /\ heap' = pbuf_free(heap, p)
  /\ owners' = [owners EXCEPT ![p] = @ - 1]

\* pbuf_header: move the start of the data by d bytes, to show a header
\* (d > 0) or to hide one.  A buffer with its own memory keeps what is in
\* front of it; a ROM buffer can only hide; a REF buffer shows whatever is in
\* front of it, in the application's memory (MaxFront bounds how far).
pbuf_header(p, d) ==
  /\ owners[p] > 0 /\ IsHead(p)
  /\ d < 0 => -d <= heap[p].len
  /\ CASE heap[p].type \in {"RAM", "POOL"} -> heap[p].off - d >= 0
       [] heap[p].type = "REF" -> heap[p].off - d >= -MaxFront
       [] heap[p].type = "ROM" -> d < 0
  /\ heap' = [heap EXCEPT ![p].off = @ - d, ![p].len = @ + d, ![p].tot_len = @ + d]
  /\ UNCHANGED owners

\* pbuf_realloc: shorten the packet to n bytes and free what follows.
pbuf_realloc(p, n) ==
  LET c == Chain(heap, p)
      before(k) == FoldLeft(LAMBDA s, q : s + heap[q].len, 0, SubSeq(c, 1, k - 1))
  IN  /\ owners[p] > 0 /\ IsHead(p)
      /\ n < heap[p].tot_len
      /\ \E k \in DOMAIN c :                 \* the buffer the n bytes end in
           /\ n - before(k) <= heap[c[k]].len
           /\ \A i \in 1 .. k - 1 : n - before(i) > heap[c[i]].len
           /\ heap' = pbuf_free(
                [q \in Pbufs |->
                   IF \E i \in 1 .. k - 1 : c[i] = q
                     THEN [heap[q] EXCEPT !.tot_len = @ + n - heap[p].tot_len]
                   ELSE IF q = c[k]
                     THEN [heap[q] EXCEPT !.len = n - before(k),
                                          !.tot_len = n - before(k), !.next = Null]
                   ELSE heap[q]],
                heap[c[k]].next)
      /\ UNCHANGED owners

\* Two packets that can be joined.
Joinable(h, t) ==
  /\ owners[h] > 0 /\ owners[t] > 0
  /\ IsHead(h) /\ IsHead(t)
  /\ heap[t].tot_len > 0
  /\ Members(heap, h) \intersect Members(heap, t) = {}

Joined(h, t) ==
  LET chain == Members(heap, h) IN
  [q \in Pbufs |->
     IF q \in chain
       THEN [heap[q] EXCEPT !.tot_len = @ + heap[t].tot_len,
                            !.next = IF @ = Null THEN t ELSE @]
       ELSE heap[q]]

\* pbuf_cat: the caller's reference to t becomes the chain's.
pbuf_cat(h, t) ==
  /\ Joinable(h, t)
  /\ heap' = Joined(h, t)
  /\ owners' = [owners EXCEPT ![t] = @ - 1]

\* pbuf_chain: the caller keeps its reference to t.
pbuf_chain(h, t) ==
  /\ Joinable(h, t)
  /\ heap' = [Joined(h, t) EXCEPT ![t].ref = @ + 1]
  /\ UNCHANGED owners

\* pbuf_dechain: the first buffer lets the rest of the packet go.
pbuf_dechain(p) ==
  LET q == heap[p].next IN
  /\ owners[p] > 0 /\ IsHead(p) /\ q # Null
  /\ heap' = pbuf_free([heap EXCEPT ![q].tot_len = heap[p].tot_len - heap[p].len,
                                    ![p].next = Null, ![p].tot_len = heap[p].len], q)
  /\ UNCHANGED owners

Next ==
  \/ \E p \in Pbufs :
       \/ \E type \in {"RAM", "ROM", "REF"}, len \in Lens : pbuf_alloc(p, type, len)
       \/ pbuf_ref(p)
       \/ Release(p)
       \/ \E d \in {-1, 1} : pbuf_header(p, d)
       \/ \E n \in 0 .. heap[p].tot_len : pbuf_realloc(p, n)
       \/ pbuf_dechain(p)
  \/ \E p, q \in Pbufs :
       \/ \E len \in PoolSize .. 2 * PoolSize : PoolAlloc(p, q, len)
       \/ pbuf_cat(p, q)
       \/ pbuf_chain(p, q)

Spec == Init /\ [][Next]_vars

-----------------------------------------------------------------------------
(* The copying operations, as functions of the heap.  A byte is named by    *)
(* its buffer and its place there.                                          *)

\* The bytes of a packet, in order.
Contents(p) ==
  LET chain == Chain(heap, p)
  IN  FlattenSeq([k \in DOMAIN chain |->
                    LET q == chain[k]
                    IN  [i \in 1 .. heap[q].len |-> <<q, heap[q].off + i>>]])

Min2(a, b) == IF a <= b THEN a ELSE b

Moved(p, o, n) == [i \in 1 .. n |-> <<p, heap[p].off + o + i>>]

\* The loop of pbuf_copy: the pairs (target byte, source byte) in the order
\* they are copied, and <<"fault">> where it would follow a null pointer.
RECURSIVE Copy(_, _, _, _)
Copy(to, ot, from, of) ==
  IF from = Null THEN << >>
  ELSE IF to = Null THEN <<"fault">>
  ELSE LET n == Min2(heap[to].len - ot, heap[from].len - of)
           here == [i \in 1 .. n |-> <<Moved(to, ot, n)[i], Moved(from, of, n)[i]>>]
           toDone == ot + n = heap[to].len
           fromDone == of + n >= heap[from].len
       IN  here \o Copy(IF toDone THEN heap[to].next ELSE to, IF toDone THEN 0 ELSE ot + n,
                        IF fromDone THEN heap[from].next ELSE from,
                        IF fromDone THEN 0 ELSE of + n)

pbuf_copy(to, from) == Copy(to, 0, from, 0)

\* pbuf_copy_partial: n bytes from an offset of the packet on.
RECURSIVE Partial(_, _, _)
Partial(p, n, offset) ==
  IF n = 0 \/ p = Null THEN << >>
  ELSE IF offset # 0 /\ offset >= heap[p].len
         THEN Partial(heap[p].next, n, offset - heap[p].len)
  ELSE LET m == Min2(heap[p].len - offset, n)
       IN  Moved(p, offset, m) \o Partial(heap[p].next, n - m, 0)

-----------------------------------------------------------------------------
\* However packets were joined, split, shortened and shared: a buffer's ref is
\* the number of references to it, held or linked, so none is used after
\* pbuf_free gave it back and none is lost; and tot_len is the length of the
\* chain from every buffer on ("p->tot_len == p->len + (p->next? ...)").
HeapSound ==
  \A p \in Pbufs :
    IF Used(p)
      THEN /\ heap[p].ref = owners[p] + Cardinality({q \in Pbufs : Used(q) /\ heap[q].next = p})
           /\ heap[p].ref > 0
           /\ heap[p].next # Null =>
                /\ Used(heap[p].next)
                /\ heap[p].tot_len = heap[p].len + heap[heap[p].next].tot_len
           /\ heap[p].next = Null => heap[p].tot_len = heap[p].len
      ELSE owners[p] = 0

\* pbuf_copy of any two such packets, and pbuf_copy_partial of any part of
\* one, move the bytes of the packet in order, whatever the buffers are cut
\* into, and never run past the end of a chain.
CopiesRight ==
  \A p \in Pbufs : IsHead(p) =>
    LET from == Contents(p) IN
    /\ \A q \in Pbufs :
         /\ IsHead(q) /\ q # p /\ heap[q].tot_len >= heap[p].tot_len
         /\ Members(heap, p) \intersect Members(heap, q) = {}
         => LET c == pbuf_copy(q, p)
                to == Contents(q) IN
            /\ Len(c) = heap[p].tot_len
            /\ \A i \in DOMAIN c : c[i] = <<to[i], from[i]>>
    /\ \A n \in 1 .. heap[p].tot_len : \A o \in 0 .. heap[p].tot_len - n :
         Partial(p, n, o) = SubSeq(from, o + 1, o + n)
=============================================================================
