--------------------------- MODULE MCDrvOneWireIrq ---------------------------
(***************************************************************************)
(* Instances of DrvOneWireIrq small enough for TLC.  The timer counts four *)
(* ticks per microsecond.                                                  *)
(***************************************************************************)
EXTENDS DrvOneWireIrq, MCTops

\* The bits of a request, low bit first; PT_RX_BITS sends ~0, so the bits
\* beyond the count are ones.
Ask(bits) == [bits |-> [i \in Index |->
                          IF i < Len(bits) THEN bits[i + 1] ELSE 1],
              n |-> Len(bits)]

Bits1to3   == {Ask(<<0>>), Ask(<<1>>), Ask(<<1, 0>>),
               Ask(<<0, 1, 1>>), Ask(<<1, 1, 0>>)}
OneTwoBits == {Ask(<<1>>), Ask(<<0, 1>>)}

\* The latest an interrupt may be served, when a device lets go of the line
\* 84 ticks before the slot ends, 8 in overdrive, at the latest.
LagLimits == PerTop(400, 84, 40, 8)   \* one more in a slot and it goes wrong

\* With them the handlers are in time, as the proofs for every value of the
\* constants assume.
ASSUME SlotsInTime == InTime

\* A PRESENCE pulse after a RESET pulse of 1920 ticks.  In a slot of 484:
\* a short answer, a long one, the longest.  In overdrive 192 and 68.
Answers == PerTop({1980, 2400}, {60, 240, 400}, {202, 240}, {60})

\* One moment in a slot.
FewAnswers == PerTop({1980, 2400}, {400}, {}, {})
=============================================================================
