------------------------------- MODULE Gps -------------------------------
(***************************************************************************)
(* Reading the position sentence of the GPS receiver in the first          *)
(* prototype (mc/src/gps.c).  A text is a sequence of characters, the name *)
(* of a sentence, "$GPRMC" for one, being a single character here.         *)
(***************************************************************************)
EXTENDS Integers, Sequences, PacketText

MAX_WORDS_IN_SENTENCE == 12

\* GPS_GPRMC_ORDER counts from 0; the words here count from 1.
Position == [time |-> 2, status |-> 3, latitude |-> 4, northSouth |-> 5, longitude |-> 6,
             eastWest |-> 7, speed |-> 8, course |-> 9, date |-> 10, variation |-> 11]

\* What is read of a word that tokenise has not written: anything.
Unset == <<"unset">>

\* tokenise, and the array it fills.
Tokenise(sentence) == Split(sentence, ",")

Word(sentence, position) ==
    IF position <= Len(Tokenise(sentence)) THEN Tokenise(sentence)[position] ELSE Unset

\* tokenise writes behind its array.
TooManyWords(sentence) == Len(Tokenise(sentence)) > MAX_WORDS_IN_SENTENCE

\* parse_int and str2int on n characters behind the first `skip' ones: 0 for
\* what is not a number.
ParseInt(word, skip, n) ==
    LET text == SubSeq(word, skip + 1, IF skip + n <= Len(word) THEN skip + n ELSE Len(word))
    IN  IF AllDigits(text) THEN Number(text) ELSE 0

ParseChar(word) == IF word = <<>> THEN "" ELSE Head(word)

Starts(serial) == {i \in DOMAIN serial : serial[i] = "$GPRMC"}

FirstOf(positions) == CHOOSE i \in positions : \A j \in positions : i <= j

Ends(serial, i) == {j \in DOMAIN serial : j > i /\ serial[j] = "\r"}

\* The sentence has begun but its end has not been received yet: the copying
\* loop runs on behind the buffer.
RunsAway(serial) == Starts(serial) # {} /\ Ends(serial, FirstOf(Starts(serial))) = {}

SentenceMutant(serial, old) ==     \* mutant: the first sentence is kept
    IF Starts(serial) = {} \/ old # <<>> THEN old
    ELSE SubSeq(serial, FirstOf(Starts(serial)), FirstOf(Ends(serial, FirstOf(Starts(serial)))) - 1)

\* sentenceBuffer after a read; without a sentence it keeps the one before.
Sentence(serial, old) ==
    IF Starts(serial) = {} THEN old
    ELSE SubSeq(serial, FirstOf(Starts(serial)),
                FirstOf(Ends(serial, FirstOf(Starts(serial)))) - 1)

\* The data that gps_read fills in from a sentence.  numTokens is never 0, so that
\* the read always succeeds, without data if there has been no sentence at all.
NoData == [read |-> FALSE]

GpsData(sentence) ==
    LET W(position) == Word(sentence, Position[position])
    IN  IF Word(sentence, 1) # <<"$GPRMC">> THEN NoData
        ELSE [read |-> TRUE,
              hours |-> ParseInt(W("time"), 0, 2), minutes |-> ParseInt(W("time"), 2, 2),
              seconds |-> ParseInt(W("time"), 4, 2), hundredths |-> ParseInt(W("time"), 7, 2),
              status |-> ParseChar(W("status")),
              latitude |-> W("latitude"), northSouth |-> ParseChar(W("northSouth")),
              longitude |-> W("longitude"), eastWest |-> ParseChar(W("eastWest")),
              speed |-> W("speed"), course |-> W("course"),
              day |-> ParseInt(W("date"), 0, 2), month |-> ParseInt(W("date"), 2, 2),
              year |-> ParseInt(W("date"), 4, 2),
              variation |-> ParseChar(W("variation"))]

=============================================================================
