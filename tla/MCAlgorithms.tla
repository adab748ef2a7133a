--------------------------- MODULE MCAlgorithms ---------------------------
(***************************************************************************)
(* Inputs for Algorithms; and the text of a packet and the GPS sentence,   *)
(* which are checked in the same way.                                      *)
(***************************************************************************)
EXTENDS Algorithms, Gps

-----------------------------------------------------------------------------
(***************************************************************************)
(* The inputs.                                                             *)
(***************************************************************************)

Bytes(n) == [i \in 1..n |-> (37 * i) % 256]

Topics == {<<>>, <<47>>, <<47, 104>>}

\* Around the limits of the one- and two-byte lengths, and of the buffer.
Sizes == {0, 1, 2, 119, 120, 121, 122, 123, 124, 125, 126, 127, 128, 130, 300}

Publishes == [kind : {"publish"}, topic : Topics, data : {Bytes(n) : n \in Sizes}, qos : 0..2,
              retain : 0..1, id : {1, 258}, cap : {7, 130, 1024}]

Subscriptions == [kind : {"subscribe"}, topic : {<<>>, <<47>>} \cup {Bytes(n) : n \in 121..125},
                  qos : 0..2, id : {1, 65534}, cap : {8, 9, 10, 131, 1024}]

Connects == [kind : {"connect"}, client_id : Topics \cup {Bytes(130)}, username : {<<>>, <<117>>},
             password : {<<>>, <<112, 119>>}, will_topic : {<<>>, <<47, 119>>},
             will_message : {<<>>, <<100>>}, will_qos : {1}, will_retain : 0..1,
             clean_session : 0..1, keepalive : {120, 300}, cap : {16, 20, 64, 1024}]

Acks == [kind : {"ack"}, type : Acknowledgements, id : {0, 1, 255, 256, 65535},
         random : {1, 65534}, cap : {4, 5, 64}]

Lengths == [kind : {"length"},
            n : 0..300 \cup {16382, 16383, 16384, 16385, 32767, 32768, 65535}]

\* The longest message is such that the count of what has come may wrap.
Deliveries == [kind : {"delivery"}, message_length : {10, 40, 65530}, header : {2, 4},
               read : {6, 10, 50, 65520},
               reads : UNION {[1..n -> {-1, 0, 5, 8, 16, 30}] : n \in 0..3}]

Items == [msg_id : 1..2, msg_type : {MsgType.PUBLISH, MsgType.SUBSCRIBE}, tick : {0},
          len : 1..2, data : {0}, pending : BOOLEAN]

Outboxes == [kind : {"outbox"}, box : UNION {[1..n -> Items] : n \in 0..2}
                                      \cup {[i \in 1..4 |-> [msg_id |-> 1, tick |-> 0, len |-> 2,
                                                 msg_type |-> MsgType.PUBLISH, data |-> 0,
                                                 pending |-> i \in waiting]]
                                            : waiting \in SUBSET (1..4)},
             msg_id : 1..2, msg_type : {MsgType.PUBLISH, MsgType.SUBSCRIBE}, max_size : 0..4]

Home == [ssid |-> <<"H">>, bssid |-> <<"h", " ", "h", " ", "h", " ", "h", " ", "h", " ", "h">>,
         rssi |-> <<"-", "6", "1">>]

Cafe == [Home EXCEPT !.ssid = <<"C">>, !.rssi = <<"-", "3", "0">>]

\* %f prints six decimals; a voltage is in millivolts.
Decimals == <<".", "0", "4", "0", "0", "0", "0">>

Readings == [number : {<<"7">>, <<"4", "2">>, <<"6", "5", "5", "3", "5">>}, state : {<<"0">>},
             latitude : {<<"0">> \o Decimals, <<"-", "2", "7">> \o Decimals},
             longitude : {<<"0">> \o Decimals, <<"1", "5", "3">> \o Decimals},
             timestamp : {<<"T">>},
             temperature : {<<"0">> \o Decimals, <<"2", "3">> \o Decimals,
                            <<"-", "1", "2">> \o Decimals},
             humidity : {<<"0">> \o Decimals, <<"4", "5">> \o Decimals},
             outside : {<<"1">>}, tone : {<<"3">>},
             voltage : {<<"0">>, <<"9", "8", "7">>, <<"3", "2", "9", "1">>},
             wifi : {ScanText(<<Home>>, <<>>), ScanText(<<Home, Cafe>>, <<>>)}]

Packets == [kind : {"packet"}, reading : Readings]

\* What may follow the text of a single network in memory.
Leftovers == [kind : {"leftover"},
              leftover : UNION {[1..n -> {"9", "x", ".", " ", ",", ";", "%", "*"}] : n \in 0..2}]

\* Networks one of which has a separator in its name.
Named == [kind : {"name"}, separator : {",", ";", "%", "*"}, first : BOOLEAN, other : BOOLEAN]

\* Two packets far from the prime meridian.
Abroad == {r \in Readings : /\ r.latitude # <<"0">> \o Decimals /\ r.longitude # <<"0">> \o Decimals
                            /\ r.wifi = ScanText(<<Home>>, <<>>)}

Batches == [kind : {"batch"}, first : {r \in Abroad : Len(r.number) = 5},
            second : {r \in Abroad : Len(r.number) # 2 /\ Len(r.voltage) = 4}]

\* A sentence of the receiver: 12 words, as the array expects; the last one holds
\* the checksum.
Sentences == {<<"$GPRMC">> \o w : w \in
                 {Joined(<<<<>>, time, <<status>>, <<"2", "7">>, <<"S">>, <<"1", "5", "3">>,
                           <<"E">>, <<"0">>, <<"9">>, date, <<>>, <<"W", "*", "6", "A">>>>,
                         <<",">>)
                  : time \in {<<"1", "2", "3", "4", "5", "6", ".", "7", "8">>, <<>>,
                              <<"0", "1", "0", "2", "0", "3", ".", "0", "4">>},
                    status \in {"A", "V"}, date \in {<<"2", "8", "0", "5", "1", "8">>, <<>>}}}

\* What one read may find: nothing, another sentence, the end of a sentence that
\* began earlier, one or two sentences, or one whose end has not come yet.
Serials == {<<>>, <<"$GPGGA", ",", "\r", "\n">>}
           \cup {SubSeq(s, 4, Len(s)) \o <<"\r", "\n">> : s \in Sentences}
           \cup {s \o <<"\r", "\n">> : s \in Sentences} \cup Sentences
           \cup {<<"\n">> \o s \o <<"\r", "\n", "$GPGGA", ",", "\r", "\n">> : s \in Sentences}

Reads == [kind : {"gps"}, earlier : Serials, present : Serials]

Frames == [kind : {"frame"}, payload : {Bytes(n) : n \in Sizes}, behind : {<<>>, Bytes(3)},
           mask : {<<18, 52, 86, 120>>}]

\* Edges of the button: the ticks since the edge before, across a wrap of the tick
\* count or a whole turn of it, and whether the tick advances within the handler.
Edges == [kind : {"edges"}, gaps : [1..4 -> {1, 69, 70, 71, 72, 140, 270}], later : {0, 1}]

AllInputs == UNION {Publishes, Subscriptions, Connects, Acks, Lengths, Deliveries, Outboxes,
                    Packets, Leftovers, Named, Batches, Reads, Frames, Edges}

-----------------------------------------------------------------------------
(***************************************************************************)
(* The properties of the text and the sentence.                            *)
(***************************************************************************)

\* The characters by which a packet is longer than the buffer: what the fields
\* take beyond their budget, a separator too few, and the end of the string.
Surplus(r) == (Len(r.number) - 5) + (Len(r.latitude) - 11) + (Len(r.longitude) - 11)
              + (Len(r.temperature) - 4) + (Len(r.humidity) - 3) + (Len(r.voltage) - 6) + 2

Data(r) == <<r.state, r.latitude, r.longitude, r.timestamp, r.temperature, r.humidity, r.outside,
             r.tone, r.voltage, SubSeq(r.wifi, 1, 17)>>

\* construct_packet and Parser.parsePacket: the PC reads back what the device
\* measured, and of the networks the first one, as long as the text is at most five characters too long, which costs
\* only the line's end and zeros of the checksum; one that loses more is ignored
\* and never read with a wrong field.
PacketReadBack ==
    Is("packet") =>
    LET read == ParsePacket(ConstructPacket(input.reading))
    IN  IF Surplus(input.reading) <= 5
        THEN read = [status |-> "OK", number |-> Number(input.reading.number),
                     data |-> Data(input.reading)]
        ELSE read.status = "IGNORED"

\* mc_wifi_scan and Parser.parseData: nobody escapes the separators in the name of
\* a network.  With one of them in a name, the parser raises, or refuses the packet,
\* and never takes a part of the name for another field; only a ";" costs no more
\* than the network itself.  Two ";" are not claimed to be as harmless: they can make
\* parts of the name an address and a strength.
SeparatorInName ==
    Is("name") =>
    LET odd == [Home EXCEPT !.ssid = <<"A", input.separator, "B">>]
        networks == IF ~input.other THEN <<odd>>
                    ELSE IF input.first THEN <<odd, Cafe>> ELSE <<Cafe, odd>>
        r == [(CHOOSE r \in Readings : Surplus(r) <= 5) EXCEPT !.wifi = ScanText(networks, <<>>)]
        read == ParsePacket(ConstructPacket(r))
    IN  CASE input.separator = ";" /\ input.other ->
                read.status = "OK" /\ read.data[10] = NetworkText(Cafe)
          [] input.separator = ";" /\ ~input.other -> read.status = "WRONG FORMAT"
          [] OTHER -> read.status = "RAISED"

\* mc_wifi_scan's unterminated text of a single network: what memory adds may make
\* the parser raise or refuse the packet.  In a packet that is accepted it can have
\* touched nothing but the strength of the network, which it may have lengthened.
LeftoverRead ==
    Is("leftover") =>
    LET r == [(CHOOSE r \in Readings : Surplus(r) <= 5) EXCEPT
                  !.wifi = ScanText(<<Home>>, input.leftover)]
        read == ParsePacket(ConstructPacket(r))
    IN  /\ read.status \in {"OK", "WRONG FORMAT", "RAISED"}
        /\ input.leftover = <<>> => read.status = "OK"
        /\ read.status = "OK" =>
              /\ SubSeq(read.data, 1, 9) = SubSeq(Data(r), 1, 9)
              /\ \E n \in 0..Len(input.leftover) :
                    read.data[10] = NetworkText(Home) \o SubSeq(input.leftover, 1, n)

\* concat_packet_array and Parser.parsePacket: of the packets that are published
\* together the PC reads the first one and drops the others; it drops all of them
\* when the last one has lost its checksum, or the first one its asterisk.
BatchReadsFirst ==
    Is("batch") =>
    LET first == ConstructPacket(input.first)
        second == ConstructPacket(input.second)
        read == ParsePacket(ConcatPacketArray(<<first, second>>))
    IN  IF Surplus(input.second) > 5 THEN read.status = "IGNORED"
        ELSE /\ read.number = Number(input.first.number)
             /\ IF Surplus(input.first) <= 8
                THEN read.status = "OK" /\ read.data = Data(input.first)
                ELSE read.status = "WRONG FORMAT"

\* From the device to the PC: what is accepted is what was measured, through cut
\* ends, separators in names, leftover memory, which can only lengthen a strength,
\* and joined packets; everything else is refused.
TextReadBack == PacketReadBack /\ SeparatorInName /\ LeftoverRead /\ BatchReadsFirst

\* "Choose the strongest signal network from all network" (TP2.py): of an accepted
\* packet's networks the PC keeps one that is not weaker than any other.
StrongestChosen ==
    Is("packet") =>
    LET read == ParsePacket(ConstructPacket(input.reading))
        networks == Split(input.reading.wifi, "%")
        Strength(network) == IntOf(Split(network, ";")[3])
    IN  read.status = "OK" =>
            \A i \in DOMAIN networks : Strength(networks[i]) <= Strength(read.data[10])

\* gps_read: unless a read ends within a sentence, the data after two reads are
\* those of the first whole sentence of the second read, or of the first read when
\* the second has none, an old position being reported like a new one.
GpsKeepsLast ==
    (Is("gps") /\ ~RunsAway(input.earlier) /\ ~RunsAway(input.present)) =>
    LET data == GpsData(Sentence(input.present, Sentence(input.earlier, <<>>)))
        heard(serial) == {s \in Sentences : \E i \in 0..1 :
                              /\ i + Len(s) < Len(serial)
                              /\ SubSeq(serial, i + 1, i + Len(s) + 1) = s \o <<"\r">>}
        last == IF heard(input.present) # {} THEN heard(input.present) ELSE heard(input.earlier)
    IN  IF last = {} THEN data = NoData
        ELSE \E s \in last : LET w == Split(s, ",")
                                 two(word, i) == IF word = <<>> THEN 0
                                                 ELSE Number(SubSeq(word, i, i + 1)) IN
             /\ data.status = Head(w[3]) /\ data.latitude = w[4] /\ data.longitude = w[6]
             /\ data.hours = two(w[2], 1) /\ data.minutes = two(w[2], 3)
             /\ data.seconds = two(w[2], 5) /\ data.hundredths = two(w[2], 8)
             /\ data.day = two(w[10], 1) /\ data.month = two(w[10], 3)
             /\ data.year = two(w[10], 5)

=============================================================================
