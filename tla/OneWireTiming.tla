---------------------------- MODULE OneWireTiming ----------------------------
(***************************************************************************)
(* The timing constants of the driver (timing.h, drv_1wire.h) and the one  *)
(* decision taken from them, drvOneWireDecodeBit.  Durations are in ticks  *)
(* of TIM3; "od" is the OVERDRIVE flag, 1 for overdrive speed.             *)
(***************************************************************************)
EXTENDS Integers

CONSTANT Ticks  \* TIMER_TICKS_PER_US: 2 with 8-bit DMA, 4 in the other builds

ASSUME TicksAssumption == Ticks \in {2, 4}

Flag == {0, 1}
MaxWord == 65535
Word == 0 .. MaxWord         \* uint16_t
WordSub(a, b) == (a - b) % 65536

ErrorBit == -1               \* drvOneWireDecodeBit returned a negative value

-----------------------------------------------------------------------------
\* timing.h, in microseconds.
TLOWR_MAX(od)          == IF od = 1 THEN 2 ELSE 15
TLOWR_MIN              == 1
TSLOT_MIN(od)          == IF od = 1 THEN 6 ELSE 60
TSLOT_MAX(od)          == IF od = 1 THEN 16 ELSE 120
TREC_MIN               == 1
RESET(od)              == 8 * TSLOT_MIN(od)
PRESENCE_START_MIN(od) == IF od = 1 THEN 2 ELSE 15
PRESENCE_START_MAX(od) == IF od = 1 THEN 6 ELSE 60
PRESENCE_MIN(od)       == IF od = 1 THEN 8 ELSE 60
PRESENCE_MAX(od)       == IF od = 1 THEN 24 ELSE 240
BIT1(od)               == (TLOWR_MIN + TLOWR_MAX(od)) \div 2
BIT0(od)               == (TSLOT_MIN(od) + TSLOT_MAX(od)) \div 2

\* drv_1wire.h, in ticks.
RESET_DURATION(od)        == Ticks * RESET(od)
RESET_PROCEDURE_DURATION(od) ==
    Ticks * (RESET(od) + PRESENCE_START_MAX(od) + PRESENCE_MAX(od))
PRESENCE_MIN_DELAY(od)    == Ticks * PRESENCE_START_MIN(od)
PRESENCE_MAX_DELAY(od)    == Ticks * PRESENCE_START_MAX(od)
PRESENCE_MIN_DURATION(od) == Ticks * PRESENCE_MIN(od)
PRESENCE_MAX_DURATION(od) == Ticks * PRESENCE_MAX(od)
BIT1_MIN_DURATION(od)     == Ticks * TLOWR_MIN
BIT1_MAX_DURATION(od)     == Ticks * TLOWR_MAX(od)
BIT0_MAX_DURATION(od)     == Ticks * TSLOT_MAX(od)
IO_BIT_PROCEDURE_DURATION(od) == Ticks * (TSLOT_MAX(od) + TREC_MIN)
BIT_DURATION(od, bit)     == Ticks * (IF bit = 1 THEN BIT1(od) ELSE BIT0(od))

-----------------------------------------------------------------------------
\* drvOneWireDecodeBit: how long the bus was low decides the bit.  The code
\* returns the bit already shifted to 0x80; the shift is left out.
DecodeBit(od, duration) ==
    IF duration < BIT1_MIN_DURATION(od) \/ duration > BIT0_MAX_DURATION(od)
    THEN ErrorBit
    ELSE IF duration < BIT1_MAX_DURATION(od) THEN 1 ELSE 0

\* Mutants, see PROJECT.json: mistakes the properties must notice.
DelayOk_NoMinimum(od, start) ==
    WordSub(start, RESET_DURATION(od)) <= PRESENCE_MAX_DELAY(od)
PulseOk_NoMaximum(od, start, end) ==
    WordSub(end, start) >= PRESENCE_MIN_DURATION(od)

\* The two checks of a PRESENCE pulse in isrOneWirePwmCapture, on uint16_t
\* differences of captured counter values.
DelayOk(od, start) ==
    WordSub(start, RESET_DURATION(od))
        \in PRESENCE_MIN_DELAY(od) .. PRESENCE_MAX_DELAY(od)
PulseOk(od, start, end) ==
    WordSub(end, start)
        \in PRESENCE_MIN_DURATION(od) .. PRESENCE_MAX_DURATION(od)
=============================================================================
