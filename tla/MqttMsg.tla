------------------------------ MODULE MqttMsg -------------------------------
(***************************************************************************)
(* MQTT messages (mqtt/mqtt_msg.c) and the receive callback of the client  *)
(* (mqtt/mqtt.c): a TCP segment that holds several messages is taken apart *)
(* message by message, each time from a fresh copy in in_buffer.           *)
(***************************************************************************)
EXTENDS Integers, Sequences, SequencesExt

CONSTANTS
  Topics,     \* topics, as byte sequences
  Payloads,   \* published data, as byte sequences
  BufSize,    \* MQTT_BUF_SIZE
  Ids,        \* message ids
  MaxInSeg,   \* bound: messages in one segment
  MaxSegs     \* bound: segments

MsgAssumption ==
  /\ \A b \in Topics \union Payloads : b \in Seq(0 .. 255)
  /\ {BufSize, MaxInSeg, MaxSegs} \union Ids \subseteq Nat

CONNACK == 2
PUBLISH == 3
PUBACK == 4
PUBREC == 5
PUBREL == 6
PUBCOMP == 7
SUBSCRIBE == 8
SUBACK == 9
UNSUBACK == 11
PINGREQ == 12
PINGRESP == 13

VARIABLES
  pdata,      \* what is left of the segment
  in_buffer,  \* the copy the message is read from; never cleared
  delivered,  \* history: <<topic, data>> handed to dataCb
  queued,     \* history: the answers put into msgQueue
  segment,    \* history: the messages of the segment
  segs        \* segments so far

vars == <<pdata, in_buffer, delivered, queued, segment, segs>>

-----------------------------------------------------------------------------
(* Building a message.  The header is put in front when the length is known *)
(* and takes one or two length bytes; a message that does not fit is empty. *)

fini_message(type, qos, body) ==
  IF Len(body) > 127
    THEN <<type * 16 + qos * 2, 128 + (Len(body) % 128), Len(body) \div 128>> \o body
    ELSE <<type * 16 + qos * 2, Len(body)>> \o body

fail_message == << >>

Word(n) == <<n \div 256, n % 256>>

append_string(s) == Word(Len(s)) \o s

\* MQTT_MAX_FIXED_HEADER_SIZE bytes are reserved for the header.
Fits(body) == 3 + Len(body) <= BufSize

mqtt_msg_publish(topic, data, qos, id) ==
  LET body == append_string(topic) \o (IF qos > 0 THEN Word(id) ELSE << >>) \o data
  IN  IF topic = << >> \/ ~ Fits(body) THEN fail_message
      ELSE fini_message(PUBLISH, qos, body)

mqtt_msg_ack(type, id) == fini_message(type, IF type = PUBREL THEN 1 ELSE 0, Word(id))

mqtt_msg_ping(type) == fini_message(type, 0, << >>)

-----------------------------------------------------------------------------
(* Reading a message, from byte sequence b of which len bytes count.  C     *)
(* counts from 0; At(b, i) is buffer[i].                                    *)

At(b, i) == IF i < Len(b) THEN b[i + 1] ELSE 0

mqtt_get_type(b) == At(b, 0) \div 16

mqtt_get_qos(b) == (At(b, 0) % 8) \div 2

\* The loop over the length bytes: where the body starts, and its length.
HeaderEnd(b, len) ==
  LET ends == {i \in 1 .. len - 1 : At(b, i) < 128} IN
  IF ends = {} THEN len ELSE 1 + CHOOSE i \in ends : \A j \in ends : i <= j

Remaining(b, len) ==
  LET add(s, i) == s + (At(b, i) % 128) * (128 ^ (i - 1))
  IN  FoldLeft(add, 0, [i \in 1 .. HeaderEnd(b, len) - 1 |-> i])

mqtt_get_total_length(b, len) == Remaining(b, len) + HeaderEnd(b, len)

TopicLen(b, i) == At(b, i) * 256 + At(b, i + 1)

BytesAt(b, i, n) == [k \in 1 .. n |-> At(b, i + k - 1)]

mqtt_get_publish_topic(b, len) ==
  LET i == HeaderEnd(b, len) IN
  IF i + 2 >= len \/ i + 2 + TopicLen(b, i) > len THEN << >>
  ELSE BytesAt(b, i + 2, TopicLen(b, i))

mqtt_get_publish_data(b, len) ==
  LET i == HeaderEnd(b, len)
      t == i + 2 + TopicLen(b, i)
      d == IF mqtt_get_qos(b) > 0 THEN t + 2 ELSE t
      total == mqtt_get_total_length(b, len)
  IN  IF \/ i + 2 >= len \/ t >= len
         \/ mqtt_get_qos(b) > 0 /\ t + 2 >= len
         \/ total < d
        THEN << >>
        ELSE BytesAt(b, d, (IF total <= len THEN total ELSE len) - d)

mqtt_get_id(b, len) ==
  LET i == HeaderEnd(b, len)
      t == i + 2 + TopicLen(b, i)
  IN  CASE mqtt_get_type(b) = PUBLISH ->
             IF i + 2 >= len \/ t >= len \/ mqtt_get_qos(b) = 0 \/ t + 2 >= len THEN 0
             ELSE At(b, t) * 256 + At(b, t + 1)
        [] mqtt_get_type(b) \in {PUBACK, PUBREC, PUBREL, PUBCOMP, SUBACK, UNSUBACK, SUBSCRIBE} ->
             IF len >= 4 /\ At(b, 1) < 128 THEN At(b, 2) * 256 + At(b, 3) ELSE 0
        [] OTHER -> 0

-----------------------------------------------------------------------------
(* The messages a broker sends, and what the client makes of them.          *)

BrokerMessages ==
  [type : {PUBLISH}, topic : Topics, data : Payloads, qos : 0 .. 2, id : Ids]
  \union [type : {PUBREC, PUBREL, PUBACK, PINGREQ}, id : Ids]

Encoded(m) ==
  CASE m.type = PUBLISH -> mqtt_msg_publish(m.topic, m.data, m.qos, m.id)
    [] m.type = PINGREQ -> mqtt_msg_ping(m.type)
    [] OTHER -> mqtt_msg_ack(m.type, m.id)

Init ==
  /\ pdata = << >> /\ in_buffer = << >> /\ segment = << >>
  /\ delivered = << >> /\ queued = << >>
  /\ segs = 0

Segment(ms) ==
  /\ pdata = << >> /\ segs < MaxSegs
  /\ Len(FlattenSeq([k \in DOMAIN ms |-> Encoded(ms[k])])) < BufSize
  /\ pdata' = FlattenSeq([k \in DOMAIN ms |-> Encoded(ms[k])])
  /\ segment' = ms
  /\ delivered' = << >> /\ queued' = << >>
  /\ segs' = segs + 1
  /\ UNCHANGED in_buffer

\* The answer to a message, or nothing.
Answer(b) ==
  LET id == mqtt_get_id(b, BufSize) IN
  CASE mqtt_get_type(b) = PUBLISH /\ mqtt_get_qos(b) = 1 -> <<mqtt_msg_ack(PUBACK, id)>>
    [] mqtt_get_type(b) = PUBLISH /\ mqtt_get_qos(b) = 2 -> <<mqtt_msg_ack(PUBREC, id)>>
    [] mqtt_get_type(b) = PUBREC -> <<mqtt_msg_ack(PUBREL, id)>>
    [] mqtt_get_type(b) = PUBREL -> <<mqtt_msg_ack(PUBCOMP, id)>>
    [] mqtt_get_type(b) = PINGREQ -> <<mqtt_msg_ping(PINGRESP)>>
    [] OTHER -> << >>

\* One turn of READPACKET: only a PUBLISH leads to the next message of the
\* segment.
mqtt_tcpclient_recv ==
  LET b == pdata \o SubSeq(in_buffer, Len(pdata) + 1, Len(in_buffer))
      len == Len(pdata)
      total == mqtt_get_total_length(b, len)
      publish == mqtt_get_type(b) = PUBLISH
  IN  /\ len > 0
      /\ in_buffer' = b
      /\ queued' = queued \o Answer(b)
      /\ delivered' = IF publish THEN Append(delivered, <<mqtt_get_publish_topic(b, len),
                                                          mqtt_get_publish_data(b, len)>>)
                      ELSE delivered
      /\ pdata' = IF publish /\ total < len THEN SubSeq(pdata, total + 1, len) ELSE << >>
      /\ UNCHANGED <<segment, segs>>

Next ==
  \/ \E n \in 1 .. MaxInSeg : \E ms \in [1 .. n -> BrokerMessages] : Segment(ms)
  \/ mqtt_tcpclient_recv

Spec == Init /\ [][Next]_vars

-----------------------------------------------------------------------------
\* The messages of the segment up to the first that is not a PUBLISH, that one
\* included: what the client gets to see of it.
Seen ==
  LET others == {k \in DOMAIN segment : segment[k].type # PUBLISH} IN
  IF others = {} THEN segment
  ELSE SubSeq(segment, 1, CHOOSE k \in others : \A j \in others : k <= j)

\* The messages that want an answer.
Answered(m) ==
  \/ m.type \in {PUBREC, PUBREL, PINGREQ}
  \/ m.type = PUBLISH /\ m.qos > 0

\* When a segment has been taken apart, every PUBLISH before the first message
\* of another type was delivered once, whole and in order, whatever bytes of
\* longer messages in_buffer still holds and however long the length field is,
\* and the answers carry the ids of the messages they answer.
SegmentTakenApart ==
  pdata = << >> /\ segment # << >> =>
    LET pubs == SelectSeq(Seen, LAMBDA m : m.type = PUBLISH)
        answers == SelectSeq(Seen, Answered)
    IN  /\ delivered = [k \in DOMAIN pubs |-> <<pubs[k].topic, pubs[k].data>>]
        /\ Len(queued) = Len(answers)
        /\ \A k \in DOMAIN answers :
             /\ mqtt_get_type(queued[k]) =
                  CASE answers[k].type = PUBREC -> PUBREL
                    [] answers[k].type = PUBREL -> PUBCOMP
                    [] answers[k].type = PINGREQ -> PINGRESP
                    [] OTHER -> IF answers[k].qos = 1 THEN PUBACK ELSE PUBREC
             /\ answers[k].type # PINGREQ =>
                  mqtt_get_id(queued[k], Len(queued[k])) = answers[k].id
=============================================================================
