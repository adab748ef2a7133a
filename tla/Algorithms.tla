---------------------------- MODULE Algorithms ----------------------------
(***************************************************************************)
(* The sequential algorithms of the client and the button against what     *)
(* they are for: message coding, the outbox's list, websocket frames and   *)
(* the debounce test.  A behaviour takes one input after the other; every  *)
(* property speaks of the input at hand.                                   *)
(***************************************************************************)
EXTENDS MqttMsg, MqttOutbox, WsFrame, Debounce

CONSTANT Inputs   \* records; the field `kind' says which algorithm an input is for

Byte == 0..255

Text == Seq(Byte)

\* uint16_t
Short == {n \in Nat : n <= 65535}

\* Two bytes of the length field reach up to 16383 bytes behind the fixed header;
\* the buffer of the firmware has 1024 (CONFIG_MQTT_BUFFER_SIZE).
Buffers == {n \in Nat : n <= 16383 + MQTT_MAX_FIXED_HEADER_SIZE}

Acknowledgements == {MsgType.PUBACK, MsgType.PUBREC, MsgType.PUBREL, MsgType.PUBCOMP}

OutboxItems == [msg_id : Nat, msg_type : Nat, tick : Nat, len : Nat, data : Nat, pending : BOOLEAN]

\* The inputs each algorithm can get.
ValidPublish(i) ==
    /\ i.topic \in Text /\ i.data \in Text /\ i.qos \in 0..2 /\ i.retain \in 0..1
    /\ i.id \in RandomIds /\ i.cap \in Buffers

ValidSubscribe(i) ==
    /\ i.topic \in Text /\ i.qos \in 0..2 /\ i.id \in RandomIds /\ i.cap \in Buffers

ValidConnect(i) ==
    /\ i.client_id \in Text /\ i.will_topic \in Text /\ i.will_message \in Text
    /\ i.username \in Text /\ i.password \in Text /\ i.will_qos \in Nat
    /\ i.will_retain \in 0..1 /\ i.clean_session \in 0..1 /\ i.keepalive \in Short
    /\ i.cap \in Buffers

ValidAck(i) ==
    i.type \in Acknowledgements /\ i.id \in Short /\ i.random \in RandomIds /\ i.cap \in Nat

ValidLength(i) == i.n \in Short

\* The length of a message as it is stored, in 16 bits.
ValidDelivery(i) ==
    /\ i.message_length \in Short /\ i.read \in Short
    /\ i.header \in 0..i.read /\ i.header <= i.message_length
    /\ i.reads \in Seq(Int)

ValidOutbox(i) == i.box \in Seq(OutboxItems)

\* ws_write has no form for lengths of more than 16 bits.
ValidFrame(i) ==
    /\ i.payload \in Text /\ Len(i.payload) <= 65535 /\ i.behind \in Text
    /\ i.mask \in Text /\ Len(i.mask) = 4

\* The handler is done with an edge before the next one comes.
ValidEdges(i) == i.later \in Nat /\ i.gaps \in Seq(Nat) /\ \A k \in DOMAIN i.gaps : i.later <= i.gaps[k]

Valid(i) ==
    /\ i.kind = "publish" => ValidPublish(i)
    /\ i.kind = "subscribe" => ValidSubscribe(i)
    /\ i.kind = "connect" => ValidConnect(i)
    /\ i.kind = "ack" => ValidAck(i)
    /\ i.kind = "length" => ValidLength(i)
    /\ i.kind = "delivery" => ValidDelivery(i)
    /\ i.kind = "outbox" => ValidOutbox(i)
    /\ i.kind = "frame" => ValidFrame(i)
    /\ i.kind = "edges" => ValidEdges(i)

ASSUME InputsAssumption == \A i \in Inputs : Valid(i)

VARIABLE input

None == [kind |-> "none"]

InputInit == input = None

Take == input = None /\ input' \in Inputs

Done == input # None /\ input' = None

InputNext == Take \/ Done

InputSpec == InputInit /\ [][InputNext]_input

Is(kind) == input.kind = kind

-----------------------------------------------------------------------------
(***************************************************************************)
(* The properties.                                                         *)
(***************************************************************************)

Slice(buffer, slice) == SubSeq(buffer, slice.start + 1, slice.start + slice.length)

\* mqtt_msg.c: a publish message is refused exactly when it has no topic or does
\* not fit the buffer with the longest header counted; any other one is read back
\* by the accessors as it was built, but for the id of a message without data,
\* which mqtt_get_id reads as 0.
PublishReadBack ==
    Is("publish") =>
    LET m == MsgPublish(input.topic, input.data, input.qos, input.retain, input.id, input.cap)
        needed == MQTT_MAX_FIXED_HEADER_SIZE + 2 + Len(input.topic)
                  + (IF input.qos > 0 THEN 2 ELSE 0) + Len(input.data)
    IN  IF input.topic = <<>> \/ needed > input.cap THEN m = <<>>
        ELSE /\ Len(m) \in {needed - 1, needed} /\ GetTotalLength(m, Len(m)) = Len(m)
             /\ GetType(m) = MsgType.PUBLISH /\ GetQos(m) = input.qos
             /\ Slice(m, GetPublishData(m, Len(m))) = input.data
             /\ Slice(m, GetPublishTopic(m, Len(m))) = input.topic
             /\ GetId(m, Len(m)) =
                    IF input.qos = 0 \/ input.data = <<>> THEN 0 ELSE input.id

\* mqtt_msg_subscribe and _unsubscribe: the id, the topic and for a subscription the
\* quality of service follow the header; none without a topic, or when it does not
\* fit.
SubscribeReadBack ==
    Is("subscribe") =>
    LET Carries(m, type, behind) ==
            LET i == HeaderEnd(m, Len(m))
                needed == MQTT_MAX_FIXED_HEADER_SIZE + 4 + Len(input.topic) + Len(behind)
            IN  IF input.topic = <<>> \/ needed > input.cap THEN m = <<>>
                ELSE /\ GetTotalLength(m, Len(m)) = Len(m) /\ GetType(m) = type /\ GetQos(m) = 1
                     /\ At(m, i) * 256 + At(m, i + 1) = input.id
                     /\ At(m, i + 2) * 256 + At(m, i + 3) = Len(input.topic)
                     /\ SubSeq(m, i + 5, Len(m)) = input.topic \o behind
    IN  /\ Carries(MsgSubscribe(input.topic, input.qos, input.id, input.cap),
                   MsgType.SUBSCRIBE, <<input.qos>>)
        /\ Carries(MsgUnsubscribe(input.topic, input.id, input.cap), MsgType.UNSUBSCRIBE, <<>>)

\* Where strings that follow each other end, each behind its length in two bytes.
EndsOf(strings) ==
    LET end[k \in 0..Len(strings)] ==
            IF k = 0 THEN 0 ELSE end[k - 1] + 2 + Len(strings[k])
    IN  end

\* From this byte on, and to their end, the bytes are these strings.
Holds(bytes, start, strings) ==
    LET end == EndsOf(strings)
    IN  /\ Len(bytes) = start + end[Len(strings)]
        /\ \A k \in 1..Len(strings) :
               LET i == start + end[k - 1]
               IN  /\ At(bytes, i) * 256 + At(bytes, i + 1) = Len(strings[k])
                   /\ SubSeq(bytes, i + 3, i + 2 + Len(strings[k])) = strings[k]

Given(string) == IF string = <<>> THEN <<>> ELSE <<string>>

\* mqtt_msg_connect: the message has the client's id, then exactly the strings that
\* its flags announce, in the order of the protocol; none without a client id, or
\* when it does not fit.
ConnectReadBack ==
    Is("connect") =>
    LET m == MsgConnect(input, input.cap)
        will == IF input.will_topic = <<>> THEN <<>>
                ELSE <<input.will_topic, input.will_message>>
        strings == <<input.client_id>> \o will \o Given(input.username) \o Given(input.password)
        size == 10 + EndsOf(strings)[Len(strings)]
        i == HeaderEnd(m, Len(m))
        flags == At(m, i + 7)
    IN  IF input.client_id = <<>> \/ MQTT_MAX_FIXED_HEADER_SIZE + size > input.cap THEN m = <<>>
        ELSE /\ GetTotalLength(m, Len(m)) = Len(m) /\ GetType(m) = MsgType.CONNECT
             /\ Holds(m, i + 10, strings)
             /\ At(m, i + 8) * 256 + At(m, i + 9) = input.keepalive
             /\ (flags \div 128 = 1) = (input.username # <<>>)
             /\ ((flags \div 64) % 2 = 1) = (input.password # <<>>)
             /\ ((flags \div 4) % 2 = 1) = (input.will_topic # <<>>)
             /\ (flags \div 2) % 2 = input.clean_session

\* mqtt_msg.c: an acknowledgement that fits carries the id it was given, but a drawn
\* one for the id 0, which mqtt_get_id also makes of a message without data.
AckReadBack ==
    Is("ack") =>
    LET m == MsgAck(input.type, input.id, input.random, input.cap)
    IN  IF input.cap < 5 THEN m = <<>>
        ELSE /\ Len(m) = 4 /\ GetTotalLength(m, 4) = 4 /\ GetType(m) = input.type
             /\ GetId(m, 4) = IF input.id = 0 THEN input.random ELSE input.id

\* mqtt_msg.c: mqtt_get_total_length undoes the length field of fini_message for a
\* body of up to 16383 bytes, and for none beyond.
LengthReadBack ==
    Is("length") =>
    LET m == <<MsgType.PUBLISH * 16>> \o RemainingLength(input.n) \o <<0, 0, 0>>
        header == 1 + Len(RemainingLength(input.n))
    IN  (GetTotalLength(m, Len(m)) = header + input.n) <=> (input.n <= 16383)

\* The largest read that cannot make the 16-bit count wrap while a message of this
\* length is incomplete.
Room(length) == 65536 - length

\* deliver_publish: the chunks of a message follow each other without a gap, all
\* with the same total; they make up the whole message unless a read failed, and
\* exceed it only when one read went beyond the message's end.  This takes a message
\* of at most 65535 bytes, reads too small to make the 16-bit count of what has come
\* wrap (with the client's buffer of 1024 bytes it can wrap from 64513 bytes on), and a
\* first read that ends with the message or before it.  When the first read holds more
\* than the message, there is one event, whose data are the message's but whose total
\* is wrong.
DeliveredInOrder ==
    Is("delivery") =>
    LET size == input.message_length - input.header
        brought == IF input.read > input.message_length THEN input.message_length ELSE input.read
        events == Deliver(input.message_length, input.read, brought - input.header, input.reads)
        last == events[Len(events)]
        served == Len(events) - 1
        small == \A k \in DOMAIN input.reads : input.reads[k] <= Room(input.message_length)
    IN  /\ input.read > input.message_length =>
               Len(events) = 1 /\ last.offset = 0 /\ last.length = size /\ last.total # size
        /\ input.read <= input.message_length /\ small =>
               /\ events[1].offset = 0
               /\ \A i \in 2..Len(events) :
                     events[i].offset = events[i - 1].offset + events[i - 1].length
               /\ \A i \in DOMAIN events : events[i].total = size
               /\ \A i \in 1..served : events[i].offset + events[i].length < size
               /\ (last.offset + last.length < size) =>
                      served = Len(input.reads) \/ input.reads[served + 1] <= 0

\* The messages of the client, built and received: nothing is lost or mistaken at
\* any length, and what does not fit is refused.
MessagesReadBack ==
    /\ PublishReadBack /\ SubscribeReadBack /\ ConnectReadBack /\ AckReadBack
    /\ LengthReadBack /\ DeliveredInOrder

\* The outbox gives up the oldest messages, and only those it must, and an
\* acknowledgement takes out exactly its own.
OutboxKeepsRest ==
    Is("outbox") =>
    /\ DropsOldest(input.box, input.max_size, Cleanup(input.box, input.max_size))
    /\ TakesFirst(input.box, input.msg_id, input.msg_type,
                  Delete(input.box, input.msg_id, input.msg_type))

\* What a server makes of the bytes of a client's frame: the payload, and where the
\* next frame begins.
ServerReads(bytes) ==
    LET n == bytes[2] - 128
        long == n = 126
        length == IF long THEN bytes[3] * 256 + bytes[4] ELSE n
        key == IF long THEN 5 ELSE 3
    IN  [payload |-> [i \in 1..length |-> Xor(ByteAt(bytes, key + 2 + i),
                                          ByteAt(bytes, key - 1 + ((i - 1) % 4)))],
         next |-> key + 4 + length]

\* ws_write: a server reads the payload back and finds the next frame, for either
\* form of the length.
ServerReadsFrame ==
    Is("frame") =>
    ServerReads(Frame(input.payload, input.mask) \o input.behind)
        = [payload |-> input.payload, next |-> Len(Frame(input.payload, input.mask)) + 1]

\* ws_read: a server's frame that one read has brought whole is read back; of what
\* came behind it in the same read nothing is kept.  A masked frame, which a server
\* must not send, comes out right only up to its fourth byte, because unmasking
\* overwrites the mask.
FrameReadBack ==
    Is("frame") =>
    LET masked == Read(Frame(input.payload, input.mask) \o input.behind) IN
    /\ Read(ServerFrame(input.payload) \o input.behind)
           = [length |-> Len(input.payload), data |-> input.payload]
    /\ masked.length = Len(input.payload)
    /\ \A i \in 1..4 : i <= masked.length => masked.data[i] = input.payload[i]

\* Frames keep their payload in both directions and leave the next one intact.
FramesReadBack == ServerReadsFrame /\ FrameReadBack

\* gpio_isr_handler: the presses of these histories are debounced (Debounced says what
\* that means), and the device runs the handler for one edge after the other.
DebounceSpacing ==
    Is("edges") =>
    LET n == Len(input.gaps)
        time[k \in 0..n] == IF k = 0 THEN 0 ELSE time[k - 1] + input.gaps[k]
        edges == [k \in 1..n |-> [at |-> time[k], later |-> input.later]]
        last[k \in 0..n] == IF k = 0 THEN 0 ELSE Handle(last[k - 1], edges[k])
    IN  OneByOne(edges) /\ Handled(edges, last) /\ Debounced(edges, last)

=============================================================================
