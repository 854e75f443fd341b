------------------------------ MODULE MCWalkRom ------------------------------
(***************************************************************************)
(* Instances of WalkRom small enough for TLC: a ROM of two bytes, a family *)
(* code and its CRC, without the six bytes of a serial number in between.  *)
(***************************************************************************)
EXTENDS WalkRom

\* Bit n of a number.
BitOf(v, n) == (v \div 2^n) % 2
RomOf(family, crc) ==
  [i \in 1 .. 16 |-> IF i <= 8 THEN BitOf(family, i - 1) ELSE BitOf(crc, i - 9)]

\* Family codes of real devices, which part at the first, the second, the
\* third and the fifth bit, and the forbidden 0, with their CRC.
Attached == {RomOf(0, 0), RomOf(1, 94), RomOf(16, 157), RomOf(29, 96),
             RomOf(34, 159), RomOf(35, 193)}

\* What the search relies on, for a whole ROM of eight bytes: the CRC of a
\* pattern of wrong bits is not 0 when one, two or three bits are wrong, nor
\* when the wrong bits lie within eight of each other.
Pattern(S) == [k \in 1 .. 8 |-> {i \in 0 .. 7 : 8 * k + i - 7 \in S}]
Noticed(S) == Crc(Pattern(S), 8) # {}

ASSUME Attached16 == RomsValid /\ CrcNotices(3)
ASSUME FewWrongBits ==
  \A i \in 1 .. 64 : \A j \in 1 .. i : \A k \in 1 .. j : Noticed({i, j, k})
ASSUME Burst ==
  \A i \in 1 .. 57 : \A S \in SUBSET (i .. i + 7) : i \in S => Noticed(S)
=============================================================================
