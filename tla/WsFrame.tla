----------------------------- MODULE WsFrame -----------------------------
(***************************************************************************)
(* Websocket frames as lib/transport_ws.c writes and reads them.  Bytes    *)
(* are numbers; a buffer is a sequence of them.                            *)
(***************************************************************************)
EXTENDS Integers, Sequences

WS_FIN_BINARY == 128 + 2

WS_MASK == 128

\* a ^ b of two bytes, bit by bit.
Differ(a, b) == (a + b) % 2

Xor(a, b) ==
    Differ(a, b) + 2 * Differ(a \div 2, b \div 2) + 4 * Differ(a \div 4, b \div 4)
    + 8 * Differ(a \div 8, b \div 8) + 16 * Differ(a \div 16, b \div 16)
    + 32 * Differ(a \div 32, b \div 32) + 64 * Differ(a \div 64, b \div 64)
    + 128 * Differ(a \div 128, b \div 128)

\* ws_write masks the caller's buffer in place.
Masked(buffer, mask) == [i \in DOMAIN buffer |-> Xor(buffer[i], mask[((i - 1) % 4) + 1])]

HeaderMutant(len, mask) ==     \* mutant: 126 and 127 are written as lengths
    <<WS_FIN_BINARY, WS_MASK + len>> \o mask

\* The header of ws_write; no support for lengths of more than 16 bits.
Header(len, mask) ==
    <<WS_FIN_BINARY>>
    \o (IF len > 125 THEN <<WS_MASK + 126, (len \div 256) % 256, len % 256>>
        ELSE <<WS_MASK + len>>)
    \o mask

Frame(buffer, mask) == Header(Len(buffer), mask) \o Masked(buffer, mask)

\* The same frame as a server sends it: without a mask.
ServerFrame(payload) ==
    <<WS_FIN_BINARY>>
    \o (IF Len(payload) > 125 THEN <<126, Len(payload) \div 256, Len(payload) % 256>>
        ELSE <<Len(payload)>>)
    \o payload

\* The byte with the code's index i of a buffer of which nothing is known behind
\* the bytes that were read.
Unread == 0

ByteAt(buffer, i) == IF i < Len(buffer) THEN buffer[i + 1] ELSE Unread

IsMasked(buffer) == ByteAt(buffer, 1) \div 128 = 1

ShortLength(buffer) == ByteAt(buffer, 1) % 128

\* payload_len; a length of eight bytes is taken from the last four of them, which
\* must leave the top bit clear here.
PayloadLength(buffer) ==
    CASE ShortLength(buffer) = 126 -> ByteAt(buffer, 2) * 256 + ByteAt(buffer, 3)
      [] ShortLength(buffer) = 127 ->
            IF \E i \in 2..5 : ByteAt(buffer, i) # 0 THEN -1
            ELSE ((ByteAt(buffer, 6) * 256 + ByteAt(buffer, 7)) * 256
                  + ByteAt(buffer, 8)) * 256 + ByteAt(buffer, 9)
      [] OTHER -> ShortLength(buffer)

\* Where data_ptr points behind the length.
LengthEnd(buffer) ==
    CASE ShortLength(buffer) = 126 -> 4 [] ShortLength(buffer) = 127 -> 10 [] OTHER -> 2

\* The unmasking loop writes to the front of the buffer it reads the mask from:
\* a byte of the mask that has been overwritten is the payload's by then.
Unmasked(buffer) ==
    LET key == LengthEnd(buffer)
        out[i \in 0..PayloadLength(buffer) - 1] ==
            LET k == key + (i % 4)
            IN  Xor(ByteAt(buffer, key + 4 + i), IF k < i THEN out[k] ELSE ByteAt(buffer, k))
    IN  [i \in 1..PayloadLength(buffer) |-> out[i - 1]]

\* What ws_read returns of the bytes one read has put into the buffer, and the
\* payload the caller then finds at the front of the buffer.
Read(buffer) ==
    LET n == PayloadLength(buffer)
    IN  [length |-> n,
         data |-> IF IsMasked(buffer) THEN Unmasked(buffer)
                  ELSE [i \in 1..n |-> ByteAt(buffer, LengthEnd(buffer) + i - 1)]]

=============================================================================
