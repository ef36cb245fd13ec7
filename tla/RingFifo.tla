------------------------------ MODULE RingFifo ------------------------------
(***************************************************************************)
(* What user_ringbuffer.c promises, without indices: a queue of at most    *)
(* Size - 1 bytes.  A put keeps the longest prefix that fits in the free   *)
(* space; when that fills the queue to Size bytes, the queue becomes empty *)
(* (the code cannot tell a full ring from an empty one).                   *)
(***************************************************************************)
EXTENDS Integers, Sequences

CONSTANTS Size, Bytes, MaxLen

VARIABLES q, lock, given, wanted, des, ret

vars == <<q, lock, given, wanted, des, ret>>

Strings == UNION {[1 .. n -> Bytes] : n \in 0 .. MaxLen}

AtMost(a, b) == IF a > b THEN b ELSE a

Call(src, len, out, sz) ==
  given' = src /\ wanted' = len /\ des' = out /\ ret' = sz

Init ==
  /\ q = <<>> /\ lock = FALSE
  /\ given = <<>> /\ wanted = 0 /\ des = <<>> /\ ret = 0

Put(src) ==
  LET n == AtMost(Size - Len(q), Len(src))
  IN  /\ q' = IF Len(q) + n = Size THEN <<>> ELSE q \o SubSeq(src, 1, n)
      /\ Call(src, 0, <<>>, n)
      /\ UNCHANGED lock

Get(len) ==
  LET n == AtMost(Len(q), len)
  IN  /\ q' = SubSeq(q, n + 1, Len(q))
      /\ Call(<<>>, len, SubSeq(q, 1, n), n)
      /\ UNCHANGED lock

Empty(unlock) ==
  /\ q' = <<>>
  /\ lock' = IF unlock THEN FALSE ELSE lock
  /\ Call(<<>>, 0, <<>>, 0)

SetLock(b) == lock' = b /\ Call(<<>>, 0, <<>>, 0) /\ UNCHANGED q

Next ==
  \/ \E b \in BOOLEAN : Empty(b) \/ SetLock(b)
  \/ \E len \in 0 .. MaxLen : Get(len)
  \/ \E src \in Strings : Put(src)

Spec == Init /\ [][Next]_vars
=============================================================================
