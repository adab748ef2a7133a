------------------------------ MODULE MqttMsg ------------------------------
(***************************************************************************)
(* Building and reading MQTT messages (lib/mqtt_msg.c), and the chunks in  *)
(* which deliver_publish of mqtt_client.c hands a message over.            *)
(*                                                                         *)
(* Bytes are numbers.  A message under construction is the sequence of the *)
(* bytes behind its fixed header, or Failed once something did not fit the *)
(* connection's buffer of `cap' bytes; each msg operator returns the bytes *)
(* that would be written, none for a failed message.  A received buffer is *)
(* a sequence; At reads it with the code's indices, which start at 0.      *)
(***************************************************************************)
EXTENDS Integers, Sequences

MQTT_MAX_FIXED_HEADER_SIZE == 3

\* enum mqtt_message_type
MsgType == [CONNECT |-> 1, CONNACK |-> 2, PUBLISH |-> 3, PUBACK |-> 4, PUBREC |-> 5,
            PUBREL |-> 6, PUBCOMP |-> 7, SUBSCRIBE |-> 8, SUBACK |-> 9,
            UNSUBSCRIBE |-> 10, UNSUBACK |-> 11, PINGREQ |-> 12, PINGRESP |-> 13,
            DISCONNECT |-> 14]

Failed == <<-1>>

-----------------------------------------------------------------------------
(***************************************************************************)
(* Building.                                                               *)
(***************************************************************************)

AppendMutant(body, bytes, cap) ==     \* mutant: the fixed header is not counted
    IF body = Failed \/ Len(body) + Len(bytes) > cap THEN Failed ELSE body \o bytes

\* The checks of append_string, append_message_id and their like.
Appended(body, bytes, cap) ==
    IF body = Failed \/ MQTT_MAX_FIXED_HEADER_SIZE + Len(body) + Len(bytes) > cap
    THEN Failed
    ELSE body \o bytes

TwoBytes(n) == <<(n \div 256) % 256, n % 256>>

AppendString(body, string, cap) == Appended(body, TwoBytes(Len(string)) \o string, cap)

\* append_message_id draws an id if it gets 0; `random' is the id it draws, one of
\* RandomIds.  Publishing and subscribing messages always draw theirs.
RandomIds == {id \in Nat : 0 < id /\ id < 65535}

Identified(id, random) == IF id = 0 THEN random ELSE id

AppendMessageId(body, id, cap) == Appended(body, TwoBytes(id), cap)

\* The length field of fini_message: never more than two bytes.
RemainingLength(n) ==
    IF n > 127 THEN <<128 + (n % 128), (n \div 128) % 256>> ELSE <<n>>

\* fini_message, or fail_message
Finished(body, type, qos, retain) ==
    IF body = Failed THEN <<>>
    ELSE <<type * 16 + (qos % 4) * 2 + (retain % 2)>> \o RemainingLength(Len(body)) \o body

\* A client id or topic that is missing or empty fails the message.
Required(body, string) == IF string = <<>> THEN Failed ELSE body

Optional(body, string, cap) ==
    IF string = <<>> THEN body ELSE AppendString(body, string, cap)

\* mqtt_msg_connect for protocol 3.1.1 (version 4): "MQTT", the flags, the
\* keepalive time, then the strings that are there.
MsgConnect(info, cap) ==
    LET flags == (IF info.username # <<>> THEN 128 ELSE 0)
                 + (IF info.password # <<>> THEN 64 ELSE 0)
                 + (IF info.will_topic # <<>>
                    THEN 4 + 32 * info.will_retain + 8 * (info.will_qos % 4) ELSE 0)
                 + 2 * info.clean_session
        header == Appended(<<>>, <<0, 4, 77, 81, 84, 84, 4, flags>>
                                 \o TwoBytes(info.keepalive), cap)
        id == AppendString(Required(header, info.client_id), info.client_id, cap)
        will == IF info.will_topic = <<>> THEN id
                ELSE AppendString(AppendString(id, info.will_topic, cap),
                                  info.will_message, cap)
    IN  Finished(Optional(Optional(will, info.username, cap), info.password, cap),
                 MsgType.CONNECT, 0, 0)

MsgPublish(topic, data, qos, retain, id, cap) ==
    LET named == AppendString(Required(<<>>, topic), topic, cap)
        identified == IF qos > 0 THEN AppendMessageId(named, id, cap) ELSE named
    IN  Finished(Appended(identified, data, cap), MsgType.PUBLISH, qos, retain)

\* mqtt_msg_puback, _pubrec, _pubrel and _pubcomp
MsgAck(type, id, random, cap) ==
    Finished(AppendMessageId(<<>>, Identified(id, random), cap), type,
             IF type = MsgType.PUBREL THEN 1 ELSE 0, 0)

MsgSubscribe(topic, qos, id, cap) ==
    Finished(Appended(AppendString(AppendMessageId(Required(<<>>, topic), id, cap), topic, cap),
                      <<qos>>, cap), MsgType.SUBSCRIBE, 1, 0)

MsgUnsubscribe(topic, id, cap) ==
    Finished(AppendString(AppendMessageId(Required(<<>>, topic), id, cap), topic, cap),
             MsgType.UNSUBSCRIBE, 1, 0)

\* mqtt_msg_pingreq, _pingresp and _disconnect
MsgEmpty(type) == Finished(<<>>, type, 0, 0)

-----------------------------------------------------------------------------
(***************************************************************************)
(* Reading.                                                                *)
(***************************************************************************)

At(buffer, i) == buffer[i + 1]

GetType(buffer) == At(buffer, 0) \div 16

GetQos(buffer) == (At(buffer, 0) % 8) \div 2

\* Where the loops over the length field stop: behind the first byte without
\* the continuation bit.
HeaderEnd(buffer, length) ==
    LET last == {i \in 1..length - 1 : At(buffer, i) < 128}
    IN  IF last = {} THEN (IF length > 1 THEN length ELSE 1)
        ELSE (CHOOSE i \in last : \A j \in last : i <= j) + 1

GetTotalLength(buffer, length) ==
    LET i == HeaderEnd(buffer, length)
        value[k \in 1..i] ==
            IF k = i THEN 0 ELSE (At(buffer, k) % 128) + 128 * value[k + 1]
    IN  value[1] + i

\* Where the topic starts and how long it says it is; none when the buffer ends
\* before.
NoSlice == [start |-> 0, length |-> 0]

TopicField(buffer, length) ==
    LET i == HeaderEnd(buffer, length)
    IN  IF i + 2 >= length THEN NoSlice
        ELSE [start |-> i + 2, length |-> At(buffer, i) * 256 + At(buffer, i + 1)]

GetPublishTopic(buffer, length) ==
    LET topic == TopicField(buffer, length)
    IN  IF topic.start + topic.length > length THEN NoSlice ELSE topic

GetPublishData(buffer, length) ==
    LET topic == TopicField(buffer, length)
        behind == topic.start + topic.length
        i == IF GetQos(buffer) > 0 THEN behind + 2 ELSE behind
        total == GetTotalLength(buffer, length)
    IN  IF \/ topic = NoSlice \/ behind >= length
           \/ GetQos(buffer) > 0 /\ i >= length
           \/ total < i
        THEN NoSlice
        ELSE [start |-> i, length |-> (IF total <= length THEN total ELSE length) - i]

GetId(buffer, length) ==
    LET topic == TopicField(buffer, length)
        i == topic.start + topic.length
        type == GetType(buffer)
        IdAt(k) == At(buffer, k) * 256 + At(buffer, k + 1)
    IN  CASE type = MsgType.PUBLISH ->
                IF topic = NoSlice \/ GetQos(buffer) = 0 \/ i + 2 >= length THEN 0 ELSE IdAt(i)
          [] type \in {MsgType.PUBACK, MsgType.PUBREC, MsgType.PUBREL, MsgType.PUBCOMP,
                       MsgType.SUBACK, MsgType.UNSUBACK, MsgType.SUBSCRIBE} ->
                IF length >= 4 /\ At(buffer, 1) < 128 THEN IdAt(2) ELSE 0
          [] OTHER -> 0

-----------------------------------------------------------------------------
(***************************************************************************)
(* Delivering.                                                             *)
(***************************************************************************)

UInt16(n) == n % 65536

\* The events of deliver_publish: the first read brought `read' bytes, `data_length'
\* of them data of a message of `message_length'; reads are the lengths of the next
\* ones.  A read that fails ends the delivery.  message_length_read (got), the total
\* and the offset are 16 bits wide: a read may make the first wrap, and a first read
\* that holds more than the message the second.
Deliver(message_length, read, data_length, reads) ==
    LET total == UInt16(message_length - read + data_length)
        got[k \in 0..Len(reads)] == IF k = 0 THEN read ELSE UInt16(got[k - 1] + reads[k])
        events[k \in 0..Len(reads)] ==
            IF k = 0 THEN <<[offset |-> 0, length |-> data_length, total |-> total]>>
            ELSE LET before == events[k - 1]
                     last == before[Len(before)]
                 IN  IF Len(before) < k \/ got[k - 1] >= message_length \/ reads[k] <= 0
                     THEN before
                     ELSE Append(before, [offset |-> UInt16(last.offset + last.length),
                                          length |-> reads[k], total |-> total])
    IN  events[Len(reads)]

=============================================================================
