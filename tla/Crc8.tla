--------------------------------- MODULE Crc8 ---------------------------------
(***************************************************************************)
(* The CRC of a ROM, modOneWireUpdateCRC of mod_1wire.c.  A byte is the    *)
(* set of its bits that are 1, bit 0 being the low one.                    *)
(***************************************************************************)
EXTENDS Integers

Byte == SUBSET (0 .. 7)

Xor(a, b) == (a \ b) \union (b \ a)
ShiftRight(a) == {i - 1 : i \in a \ {0}}

\* 0x8C: x^8 + x^5 + x^4 + 1, the powers from the top bit down.
Polynomial == {2, 3, 7}

\* One turn of the loop.
CrcBit(c) == IF 0 \in c THEN Xor(ShiftRight(c), Polynomial) ELSE ShiftRight(c)

Twice[c \in Byte] == CrcBit(CrcBit(c))

\* The loop turns eight times.
UpdateCRC(crc, data) == Twice[Twice[Twice[Twice[Xor(crc, data)]]]]

\* The CRC of n bytes, the i-th of them data[i].
Crc(data, n) ==
  LET crc[i \in 0 .. n] == IF i = 0 THEN {} ELSE UpdateCRC(crc[i - 1], data[i])
  IN  crc[n]
=============================================================================
