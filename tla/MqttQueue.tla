----------------------------- MODULE MqttQueue ------------------------------
(***************************************************************************)
(* The MQTT client's message queue (mqtt/queue.c): messages framed and     *)
(* escaped (proto.c) into a ring of bytes (ringbuf.c).  A message that     *)
(* does not fit leaves its beginning in the ring; a publisher then throws  *)
(* old messages away until its own fits, the receive callback does not.    *)
(***************************************************************************)
EXTENDS Integers, Sequences, SequencesExt

CONSTANTS
  RingSize,  \* QUEUE_BUFFER_SIZE
  Messages   \* messages, as byte sequences

QueueAssumption == RingSize \in Nat \ {0, 1} /\ \A m \in Messages : m \in Seq(0 .. 255)

VARIABLES
  rb,       \* the ring: its storage, both indices, and fill_cnt
  pending,  \* history: the messages accepted and neither taken nor thrown away
  gets      \* history: what the last QUEUE_Gets returned, and what was due

vars == <<rb, pending, gets>>

RINGBUF_Init ==
  [mem |-> [i \in 0 .. RingSize - 1 |-> 0], p_r |-> 0, p_w |-> 0, fill_cnt |-> 0]

Init ==
  /\ rb = RINGBUF_Init
  /\ pending = << >>
  /\ gets = [got |-> << >>, due |-> << >>]

-----------------------------------------------------------------------------
RingFull(r) == r.fill_cnt >= RingSize

RINGBUF_Put(r, c) ==
  [r EXCEPT !.fill_cnt = @ + 1, !.mem[r.p_w] = c, !.p_w = (@ + 1) % RingSize]

\* The bytes in the ring, oldest first.
Contents(r) == [k \in 1 .. r.fill_cnt |-> r.mem[(r.p_r + k - 1) % RingSize]]

\* RINGBUF_Get n times.
RINGBUF_Get(r, n) == [r EXCEPT !.fill_cnt = @ - n, !.p_r = (@ + n) % RingSize]

ESC == 125
BEGIN == 126
END == 127

Xor20(c) == IF (c \div 32) % 2 = 1 THEN c - 32 ELSE c + 32

Frame(m) ==
  <<BEGIN>>
  \o FlattenSeq([k \in DOMAIN m |->
       IF m[k] \in {ESC, BEGIN, END} THEN <<ESC, Xor20(m[k])>> ELSE <<m[k]>>])
  \o <<END>>

\* PROTO_AddRb puts byte after byte and gives up where the ring is full.
PROTO_AddRb(r, m) ==
  LET put(x, c) == IF RingFull(x) THEN x ELSE RINGBUF_Put(x, c)
  IN  [rb |-> FoldLeft(put, r, Frame(m)),
       ok |-> Len(Frame(m)) <= RingSize - r.fill_cnt]

\* A mark in the middle is data like any other.
ParseMarkIgnored(p, c) ==
  IF p.done THEN p
  ELSE CASE c = ESC -> [p EXCEPT !.isEsc = TRUE, !.n = @ + 1]
         [] c = BEGIN -> [p EXCEPT !.isBegin = TRUE, !.n = @ + 1]
         [] c = END -> [p EXCEPT !.done = TRUE, !.n = @ + 1]
         [] OTHER ->
              IF ~ p.isBegin THEN [p EXCEPT !.n = @ + 1]
              ELSE [p EXCEPT !.data = Append(@, IF p.isEsc THEN Xor20(c) ELSE c),
                             !.isEsc = FALSE, !.n = @ + 1]

\* PROTO_ParseByte; n counts the bytes taken from the ring.
PROTO_ParseByte(p, c) ==
  IF p.done THEN p
  ELSE CASE c = ESC -> [p EXCEPT !.isEsc = TRUE, !.n = @ + 1]
         [] c = BEGIN -> [p EXCEPT !.data = << >>, !.isEsc = FALSE, !.isBegin = TRUE,
                                   !.n = @ + 1]
         [] c = END -> [p EXCEPT !.done = TRUE, !.n = @ + 1]
         [] OTHER ->
              IF ~ p.isBegin THEN [p EXCEPT !.n = @ + 1]
              ELSE [p EXCEPT !.data = Append(@, IF p.isEsc THEN Xor20(c) ELSE c),
                             !.isEsc = FALSE, !.n = @ + 1]

\* PROTO_ParseRb: take bytes up to the end of a message.  isBegin is on the
\* stack and not initialised.
PROTO_ParseRb(r, isBegin) ==
  FoldLeft(PROTO_ParseByte,
           [data |-> << >>, isEsc |-> FALSE, isBegin |-> isBegin, done |-> FALSE, n |-> 0],
           Contents(r))

-----------------------------------------------------------------------------
\* MQTT_Task and the loop of MQTT_Publish take a message.  Without a complete
\* one the ring is emptied.
QUEUE_Gets(isBegin) ==
  LET p == PROTO_ParseRb(rb, isBegin) IN
  /\ rb.fill_cnt > 0
  /\ rb' = RINGBUF_Get(rb, p.n)
  /\ gets' = [got |-> IF p.done THEN <<p.data>> ELSE << >>,
               due |-> IF pending = << >> THEN << >> ELSE <<Head(pending)>>]
  /\ pending' = IF pending = << >> THEN pending ELSE Tail(pending)

\* The receive callback puts an answer and does not look back.
QUEUE_Puts(m) ==
  LET a == PROTO_AddRb(rb, m) IN
  /\ rb' = a.rb
  /\ pending' = IF a.ok THEN Append(pending, m) ELSE pending
  /\ UNCHANGED gets

\* MQTT_Publish, MQTT_Subscribe, MQTT_UnSubscribe and MQTT_Ping make room: each
\* try that fails is followed by a QUEUE_Gets, until the message fits or the
\* ring held no complete message (the call then returns FALSE).
Tries(m, isBegin) ==
  LET try(s, k) ==
        IF s.over THEN s
        ELSE LET a == PROTO_AddRb(s.rb, m)
                 p == PROTO_ParseRb(a.rb, isBegin)
             IN  IF a.ok THEN [s EXCEPT !.rb = a.rb, !.ok = TRUE, !.over = TRUE]
                 ELSE [s EXCEPT !.rb = RINGBUF_Get(a.rb, p.n),
                                !.thrown = IF p.done THEN @ + 1 ELSE @,
                                !.over = ~ p.done]
  IN  FoldLeft(try, [rb |-> rb, ok |-> FALSE, over |-> FALSE, thrown |-> 0],
               [k \in 1 .. RingSize + 1 |-> k])

MQTT_Publish(m, isBegin) ==
  LET t == Tries(m, isBegin) IN
  /\ rb' = t.rb
  /\ pending' = LET kept == SubSeq(pending, t.thrown + 1, Len(pending))
                IN  IF t.ok THEN Append(kept, m) ELSE kept
  /\ UNCHANGED gets

Next ==
  \/ \E isBegin \in BOOLEAN : QUEUE_Gets(isBegin)
  \/ \E m \in Messages : QUEUE_Puts(m)
  \/ \E m \in Messages, isBegin \in BOOLEAN : MQTT_Publish(m, isBegin)

Spec == Init /\ [][Next]_vars

-----------------------------------------------------------------------------
\* However full the ring was, whatever fragments failed puts left in it and
\* whatever bytes the messages contain: QUEUE_Gets returns the oldest message
\* that was accepted and not thrown away, whole, and it comes back empty-handed
\* only if there is none; no message is thrown away that MQTT_Publish would
\* not report.
QueueSound == gets.got = gets.due
=============================================================================
