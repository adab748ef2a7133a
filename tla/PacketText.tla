---------------------------- MODULE PacketText ----------------------------
(***************************************************************************)
(* The text of a packet: how the device writes it (construct_packet of     *)
(* network.c, after mc_wifi_scan of wifi.c has written the networks), and  *)
(* how the PC reads it (Parser of TP2.py).                                 *)
(*                                                                         *)
(* A text is a sequence of characters.  A character whose value no rule    *)
(* asks for stands for itself ("h" for two hexadecimal digits, "T" for a   *)
(* whole timestamp); the length of a timestamp is not a fixed share of the *)
(* packet, so that such a character may stand for several.                 *)
(***************************************************************************)
EXTENDS Integers, Sequences, SequencesExt, FiniteSets

Digits == {"0", "1", "2", "3", "4", "5", "6", "7", "8", "9"}

DigitValue(c) == CHOOSE n \in 0..9 :
                     c = <<"0", "1", "2", "3", "4", "5", "6", "7", "8", "9">>[n + 1]

\* The number a text of decimal digits writes.
Number(text) == FoldLeft(LAMBDA n, c : 10 * n + DigitValue(c), 0, text)

\* The pieces between the separators; one piece more than separators.
Split(text, separator) ==
    LET Separates(i) == text[i] = separator
        cuts == <<0>> \o SelectSeq([i \in DOMAIN text |-> i], Separates) \o <<Len(text) + 1>>
    IN  [k \in 1..Len(cuts) - 1 |-> SubSeq(text, cuts[k] + 1, cuts[k + 1] - 1)]

Joined(pieces, separator) ==
    IF pieces = <<>> THEN <<>>
    ELSE FoldLeft(LAMBDA text, piece : text \o separator \o piece,
                  Head(pieces), Tail(pieces))

-----------------------------------------------------------------------------
(***************************************************************************)
(* The device.                                                             *)
(***************************************************************************)

\* The networks in mc_wifi_scan; a scan without networks has no text at all.  The
\* text of a single one is not terminated: up to the next zero byte, it goes on with
\* the memory that malloc left behind it.
NetworkText(network) == Joined(<<network.ssid, network.bssid, network.rssi>>, <<";">>)

ScanText(networks, leftover) ==
    Joined([i \in DOMAIN networks |-> NetworkText(networks[i])], <<"%">>)
        \o (IF Len(networks) = 1 THEN leftover ELSE <<>>)

\* The characters each field is given: the MAX_..._STRING_LENGTH of network.c.
Budget == [number |-> 5, newData |-> 1, state |-> 1, latitude |-> 11, longitude |-> 11,
           temperature |-> 4, humidity |-> 3, outside |-> 1, tone |-> 1, voltage |-> 6,
           checksum |-> 4]

\* `length': 13 separators, "$GP03", "*" and the two characters of the end.
Length(r) ==
    FoldFunction(+, 0, Budget)
    + Len(r.timestamp) + Len(r.wifi) + 13 + 5 + 1 + 2

FullText(r) ==
    Joined(<<<<"$", "G", "P", "0", "3">>, r.number, <<"1">>, r.state, r.latitude,
             r.longitude, r.timestamp, r.temperature, r.humidity, r.outside, r.tone,
             r.voltage, r.wifi, <<"*">>, <<"0", "0", "0", "0", "\r", "\n">>>>, <<",">>)

\* snprintf writes at most length - 1 characters.
ConstructPacket(r) ==
    LET text == FullText(r)
        room == Length(r) - 1
    IN  SubSeq(text, 1, IF Len(text) <= room THEN Len(text) ELSE room)

\* concat_packet_array; every strncat has room for what is left.
ConcatPacketArray(packets) == FlattenSeq(packets)

-----------------------------------------------------------------------------
(***************************************************************************)
(* The PC.                                                                 *)
(***************************************************************************)

\* What Python's int() and float() accept, and drop, around a number.
Stripped(text) ==
    LET solid == {i \in DOMAIN text : text[i] \notin {" ", "\r", "\n"}}
    IN  IF solid = {} THEN <<>> ELSE SubSeq(text, Min(solid), Max(solid))

Unsigned(text) == IF text # <<>> /\ Head(text) \in {"-", "+"} THEN Tail(text) ELSE text

AllDigits(text) == text # <<>> /\ \A i \in DOMAIN text : text[i] \in Digits

IsInt(text) == AllDigits(Unsigned(Stripped(text)))

IntOf(text) ==
    LET t == Stripped(text)
    IN  IF Head(t) = "-" THEN -Number(Unsigned(t)) ELSE Number(Unsigned(t))

\* Both parts of a decimal number, the point and one of them being optional.
Parts(text) == Split(Unsigned(Stripped(text)), ".")

IsFloat(text) == /\ Len(Parts(text)) \in 1..2
                 /\ \E i \in DOMAIN Parts(text) : Parts(text)[i] # <<>>
                 /\ \A i \in DOMAIN Parts(text) :
                        Parts(text)[i] = <<>> \/ AllDigits(Parts(text)[i])

\* |number| > bound
Exceeds(text, bound) ==
    LET whole == Number(Parts(text)[1])
    IN  \/ whole > bound
        \/ whole = bound /\ Len(Parts(text)) = 2 /\ Number(Parts(text)[2]) > 0

Skipped == <<"SKIPPED">>

IntIn(text, allowed) == IF IsInt(text) /\ IntOf(text) \in allowed THEN Stripped(text) ELSE Skipped

Within(text, bound) == IF IsFloat(text) /\ ~Exceeds(text, bound) THEN Stripped(text) ELSE Skipped

AnyFloat(text) == IF IsFloat(text) THEN Stripped(text) ELSE Skipped

\* strptime('%Y-%m-%dT%H-%M-%SZ')
Time(text) == IF text = <<"T">> THEN text ELSE Skipped

\* A network's text can be read if it has three pieces; it counts if its rssi is
\* a number and its bssid has six groups (the loop over them skips nothing).
Readable(network) == Len(Split(network, ";")) >= 3

Counts(network) == /\ IsFloat(Split(network, ";")[3])
                   /\ Len(Split(Split(network, ";")[2], " ")) = 6

\* The loop keeps the name, address and strength of the first network that counts:
\* rssi > rssi never holds.
Network(networks) ==
    LET counting == {i \in DOMAIN networks : Counts(networks[i])}
        parts == Split(networks[Min(counting)], ";")
    IN  IF counting = {} THEN Skipped
        ELSE Joined(<<parts[1], parts[2], Stripped(parts[3])>>, <<";">>)

\* parseData: the fields, or nothing when it raises an IndexError.
Raised == <<>>

ParseData(text) ==
    LET f == Split(text, ",")
        networks == Split(f[10], "%")
    IN  IF Len(f) < 10 THEN Raised
        ELSE IF \E i \in DOMAIN networks : ~Readable(networks[i]) THEN Raised
        ELSE <<IntIn(f[1], 0..2), Within(f[2], 90), Within(f[3], 180),
               Time(f[4]), AnyFloat(f[5]), AnyFloat(f[6]), IntIn(f[7], 0..1),
               IntIn(f[8], 0..3), IntIn(f[9], Nat),
               Network(networks)>>

\* The characters of the data in front of the first "*"; none without one.
BeforeStar(text) ==
    LET stars == {i \in DOMAIN text : text[i] = "*"}
    IN  IF stars = {} THEN <<>>
        ELSE SubSeq(text, 1, Min(stars) - 1)

ParsePacketMutant(packet) ==     \* mutant: a wrong field does not mark the packet
    LET f == Split(packet, ",")
        data == ParseData(BeforeStar(Joined(SubSeq(f, 4, Len(f)), <<",">>)))
    IN  [status |-> IF IntOf(f[3]) = 0 THEN "SKIP" ELSE "OK", number |-> IntOf(f[2]), data |-> data]

\* What addData makes of a packet: with IGNORED and WRONG FORMAT it drops it,
\* and RAISED is left to whoever called it.
ParsePacket(packet) ==
    LET f == Split(packet, ",")
        Outcome(status, number, data) == [status |-> status, number |-> number, data |-> data]
        header == /\ packet # <<>> /\ Head(packet) = "$"
                  /\ Len(f) >= 3 /\ IsInt(f[2]) /\ IsInt(f[3]) /\ IsInt(f[Len(f)])
        data == ParseData(BeforeStar(Joined(SubSeq(f, 4, Len(f)), <<",">>)))
    IN  CASE ~header -> Outcome("IGNORED", 0, <<>>)
          [] header /\ IntOf(f[3]) = 0 -> Outcome("SKIP", IntOf(f[2]), <<>>)
          [] header /\ IntOf(f[3]) # 0 /\ data = Raised -> Outcome("RAISED", 0, <<>>)
          [] OTHER -> Outcome(IF \E i \in DOMAIN data : data[i] = Skipped THEN "WRONG FORMAT"
                              ELSE "OK", IntOf(f[2]), data)

=============================================================================
