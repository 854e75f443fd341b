--------------------------- MODULE MCDrvOneWireDma ---------------------------
(***************************************************************************)
(* Instances of DrvOneWireDma small enough for TLC.                        *)
(***************************************************************************)
EXTENDS DrvOneWireDma, MCTops

\* The bits of a request, low bit first.
Ask(bits) == [bits |-> [i \in Index |->
                          IF i < Len(bits) THEN bits[i + 1] ELSE 0],
              n |-> Len(bits)]

OneBit     == {Ask(<<0>>), Ask(<<1>>)}
OneTwoBits == {Ask(<<1>>), Ask(<<0, 1>>)}
Bits1to3   == OneBit \union {Ask(<<1, 1, 0>>), Ask(<<0, 0, 1>>)}

\* The latest an interrupt may be served.
LagLimits    == PerTop(29, 62, 3, 12)   \* one more and it goes wrong
LagNoise     == PerTop(300, 300, 300, 300)
LagConflicts == PerTop(29, 29, 3, 3)

\* Around a RESET pulse of 960 ticks: a PRESENCE pulse that begins too early,
\* in time, too late, and ends too short, long enough, too long.  In a slot of
\* 242 ticks: a short and a long answer, the last moment to let go of the
\* line.  In overdrive the pulse has 96 ticks and a slot 34.
QuietInstants ==
  PerTop({988, 990, 1080, 1082, 1200, 1530, 1560}, {28, 200, 240},
         {99, 100, 109, 116, 149}, {30, 32})

\* One moment of a slot and two of a PRESENCE pulse.
FewInstants == PerTop({990, 1200}, {200}, {}, {})

\* On a noisy bus also within the pulses, and an end of the PRESENCE pulse
\* that is too late.
NoiseInstants == PerTop({990, 1200, 1480}, {200}, {}, {})

\* On a quiet bus the handlers are in time, those of a RESET and those of a
\* slot, as the proofs for every value of the constants assume.
ASSUME ResetsInTime == NoisyBus \/ HearsInTime
ASSUME SlotsInTime == NoisyBus \/ InTime
=============================================================================
