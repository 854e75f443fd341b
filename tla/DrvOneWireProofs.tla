--------------------------- MODULE DrvOneWireProofs ---------------------------
(***************************************************************************)
(* Proofs about what the two builds of the driver share.  The constants of *)
(* timing.h and drv_1wire.h fit together, in both speeds and both timer    *)
(* resolutions; the hardware and the common handlers keep the types, end   *)
(* an operation at rest, do what OneWireOp allows, and report no PRESENCE  *)
(* that was not on the line, for every value of the constants.             *)
(***************************************************************************)
EXTENDS DrvOneWire, TLAPS

-----------------------------------------------------------------------------
\* Facts about uint16_t and about the constants, for both speeds and both
\* resolutions.
LEMMA WordIsInt ==
  ASSUME NEW x
  PROVE  x \in Word <=> x \in Int /\ 0 <= x /\ x <= 65535
<1>1. MaxWord \in Int /\ MaxWord <= 65535 /\ MaxWord >= 65535
  BY DEF MaxWord
<1> QED BY <1>1 DEF Word

\* DMA elements are bytes or words.
LEMMA DmaModulusValue == DmaModulus = 256 \/ DmaModulus = 65536
BY DEF DmaModulus

\* A time slot, in ticks, fits an element of DMA.
LEMMA SlotValue ==
  ASSUME NEW od \in Flag
  PROVE  LET d == IO_BIT_PROCEDURE_DURATION(od)
         IN  d \in Nat /\ d < DmaModulus /\ d < 65536
<1> USE DEF Flag, IO_BIT_PROCEDURE_DURATION, TSLOT_MAX, TREC_MIN, DmaModulus,
        DmaSize
<1>1. CASE Ticks = 2
  BY <1>1
<1>2. CASE Ticks = 4
  BY <1>2
<1> QED BY <1>1, <1>2, TicksAssumption

\* The durations of a RESET procedure are words.
LEMMA ResetValues ==
  ASSUME NEW od \in Flag
  PROVE  /\ RESET_DURATION(od) \in Nat /\ RESET_DURATION(od) < 3000
         /\ RESET_PROCEDURE_DURATION(od) \in Nat
         /\ RESET_PROCEDURE_DURATION(od) < 4000
         /\ PRESENCE_MIN_DELAY(od) \in Nat \ {0}
         /\ PRESENCE_MAX_DELAY(od) \in Nat
         /\ PRESENCE_MAX_DELAY(od) < 1000
         /\ PRESENCE_MIN_DURATION(od) \in Nat \ {0}
         /\ PRESENCE_MAX_DURATION(od) \in Nat
         /\ PRESENCE_MAX_DURATION(od) < 1000
         /\ RESET_DURATION(od) + PRESENCE_MAX_DELAY(od)
              + PRESENCE_MAX_DURATION(od) = RESET_PROCEDURE_DURATION(od)
<1> USE DEF Flag, RESET_DURATION, RESET_PROCEDURE_DURATION,
        PRESENCE_MIN_DELAY, PRESENCE_MAX_DELAY, PRESENCE_MIN_DURATION,
        PRESENCE_MAX_DURATION, RESET, TSLOT_MIN, PRESENCE_START_MIN,
        PRESENCE_START_MAX, PRESENCE_MIN, PRESENCE_MAX
<1>1. CASE Ticks = 2
  BY <1>1
<1>2. CASE Ticks = 4
  BY <1>2
<1> QED BY <1>1, <1>2, TicksAssumption

\* A pulse is shorter than its slot.
LEMMA BitValues ==
  ASSUME NEW od \in Flag, NEW bit \in Flag
  PROVE  /\ BIT_DURATION(od, bit) \in Nat \ {0}
         /\ BIT_DURATION(od, bit) < IO_BIT_PROCEDURE_DURATION(od)
<1> USE DEF Flag, BIT_DURATION, BIT1, BIT0, TLOWR_MIN, TLOWR_MAX, TSLOT_MIN,
        TSLOT_MAX, IO_BIT_PROCEDURE_DURATION, TREC_MIN
<1>1. CASE Ticks = 2
  BY <1>1
<1>2. CASE Ticks = 4
  BY <1>2
<1> QED BY <1>1, <1>2, TicksAssumption

\* The difference of two counter values of one procedure, on uint16_t.
LEMMA WordSubValue ==
  ASSUME NEW a \in Nat, NEW b \in Nat, a < 4000, b < 4000
  PROVE  WordSub(a, b) = IF a < b THEN a - b + 65536 ELSE a - b
<1> DEFINE x == a - b
<1>1. x \in Int /\ -4000 < x /\ x < 4000
  OBVIOUS
<1>2. x % 65536 = IF x < 0 THEN x + 65536 ELSE x
  <2> HIDE DEF x
  <2>1. CASE x < 0
    BY <1>1, <2>1
  <2>2. CASE x >= 0
    BY <1>1, <2>2
  <2> QED BY <1>1, <2>1, <2>2
<1> QED BY <1>1, <1>2 DEF WordSub

-----------------------------------------------------------------------------
\* The driver reads its own echo: a slot in which no device answers has the
\* duration the driver sent, and drvOneWireDecodeBit turns it back into the
\* bit, in both speeds.
THEOREM EchoDecodes ==
  ASSUME NEW od \in Flag, NEW bit \in Flag
  PROVE  DecodeBit(od, BIT_DURATION(od, bit)) = bit
<1>1. CASE Ticks = 2
  BY <1>1 DEF Flag, DecodeBit, BIT_DURATION, BIT1, BIT0, BIT1_MIN_DURATION,
     BIT0_MAX_DURATION, BIT1_MAX_DURATION, TLOWR_MIN, TLOWR_MAX, TSLOT_MIN,
     TSLOT_MAX
<1>2. CASE Ticks = 4
  BY <1>2 DEF Flag, DecodeBit, BIT_DURATION, BIT1, BIT0, BIT1_MIN_DURATION,
     BIT0_MAX_DURATION, BIT1_MAX_DURATION, TLOWR_MIN, TLOWR_MAX, TSLOT_MIN,
     TSLOT_MAX
<1> QED BY <1>1, <1>2, TicksAssumption

\* The element DMA moves holds any capture of a time slot, the byte of the
\* 8-bit build at 2 ticks per microsecond and the word at 4: truncating to it
\* changes nothing drvOneWireRxBits can see.
THEOREM TruncationIsExact ==
  ASSUME NEW od \in Flag,
         NEW d \in Nat, d <= IO_BIT_PROCEDURE_DURATION(od)
  PROVE  DecodeBit(od, d % DmaModulus) = DecodeBit(od, d)
<1>1. d < DmaModulus
  BY SlotValue, DmaModulusValue
<1>2. d % DmaModulus = d
  BY <1>1, DmaModulusValue
<1> QED BY <1>2

\* The two checks of a PRESENCE pulse subtract on uint16_t.  For counter
\* values of one RESET procedure the wrap-around never lets a wrong pulse
\* through: they accept a fall and a rise exactly when plain arithmetic does.
THEOREM PresenceChecksExact ==
  ASSUME NEW od \in Flag,
         NEW f \in Nat, f <= RESET_PROCEDURE_DURATION(od),
         NEW r \in Nat, r <= RESET_PROCEDURE_DURATION(od)
  PROVE  /\ DelayOk(od, f) <=>
              f - RESET_DURATION(od)
                \in PRESENCE_MIN_DELAY(od) .. PRESENCE_MAX_DELAY(od)
         /\ PulseOk(od, f, r) <=>
              r - f \in PRESENCE_MIN_DURATION(od) .. PRESENCE_MAX_DURATION(od)
<1>1. f < 4000 /\ r < 4000
  BY ResetValues
<1>2. DelayOk(od, f) <=>
        f - RESET_DURATION(od)
          \in PRESENCE_MIN_DELAY(od) .. PRESENCE_MAX_DELAY(od)
  <2>1. /\ RESET_DURATION(od) \in Nat
        /\ PRESENCE_MIN_DELAY(od) \in Nat \ {0}
        /\ PRESENCE_MAX_DELAY(od) \in Nat
        /\ PRESENCE_MAX_DELAY(od) < 1000
        /\ RESET_DURATION(od) < 3000
    BY ResetValues
  <2>2. WordSub(f, RESET_DURATION(od)) =
          IF f < RESET_DURATION(od)
          THEN f - RESET_DURATION(od) + 65536
          ELSE f - RESET_DURATION(od)
    BY <1>1, <2>1, WordSubValue
  <2> QED BY <1>1, <2>1, <2>2 DEF DelayOk
<1>3. PulseOk(od, f, r) <=>
        r - f \in PRESENCE_MIN_DURATION(od) .. PRESENCE_MAX_DURATION(od)
  <2>1. /\ PRESENCE_MIN_DURATION(od) \in Nat \ {0}
        /\ PRESENCE_MAX_DURATION(od) \in Nat
        /\ PRESENCE_MAX_DURATION(od) < 1000
    BY ResetValues
  <2>2. WordSub(r, f) = IF r < f THEN r - f + 65536 ELSE r - f
    BY <1>1, WordSubValue
  <2> QED BY <1>1, <2>1, <2>2 DEF PulseOk
<1> QED BY <1>2, <1>3

\* The procedure lasts until the latest and longest PRESENCE pulse has ended:
\* no legal answer is cut off by its timeout.
THEOREM WindowCoversPresence ==
  ASSUME NEW od \in Flag,
         NEW delay \in PRESENCE_MIN_DELAY(od) .. PRESENCE_MAX_DELAY(od),
         NEW pulse \in PRESENCE_MIN_DURATION(od) .. PRESENCE_MAX_DURATION(od)
  PROVE  RESET_DURATION(od) + delay + pulse <= RESET_PROCEDURE_DURATION(od)
BY ResetValues

-----------------------------------------------------------------------------
\* The functions of Res1Wire keep the registers in their types.
LEMMA TimFlagOps ==
  ASSUME NEW t \in Tim, NEW pull \in BOOLEAN
  PROVE  /\ EnablePwmIrq(t) \in Tim /\ DisablePwmIrq(t) \in Tim
         /\ EnableCaptureIrq(t) \in Tim /\ DisableCaptureIrq(t) \in Tim
         /\ EnableOverflowIrq(t) \in Tim /\ DisableOverflowIrq(t) \in Tim
         /\ ClearOverflow(t) \in Tim /\ ClearPwm(t) \in Tim
         /\ ClearCapture(t) \in Tim /\ ClearPullupConflict(t, pull) \in Tim
         /\ Prepare(t, pull) \in Tim /\ Halt(t) \in Tim
         /\ TimerStart(t) \in Tim /\ TimerStop(t) \in Tim
BY DEF Tim, EnablePwmIrq, DisablePwmIrq, EnableCaptureIrq, DisableCaptureIrq,
   EnableOverflowIrq, DisableOverflowIrq, ClearOverflow, ClearPwm,
   ClearCapture, ClearPullupConflict, Prepare, Halt, TimerStart, TimerStop

\* ... as do those that write a value into one.
LEMMA TimValueOps ==
  ASSUME NEW t \in Tim, NEW pull \in BOOLEAN, NEW v \in Word, NEW p \in Flag
  PROVE  /\ SetTop(t, v) \in Tim /\ SetPwmLevel(t, v) \in Tim
         /\ SetCapturePolarity(t, p) \in Tim
         /\ UpdateEvent(t, pull) \in Tim /\ FireOverflowEvent(t, pull) \in Tim
<1>1. 0 \in Word
  BY WordIsInt
<1> QED
  BY <1>1 DEF Tim, SetTop, SetPwmLevel, SetCapturePolarity, ClearCapture,
     UpdateEvent, FireOverflowEvent

\* Replacing the low byte of a word leaves a word.
LEMMA LowByte ==
  ASSUME NEW c \in Int, c \in Word, NEW v \in Nat, v < 256
  PROVE  (c \div 256) * 256 + v \in Word
BY WordIsInt

\* So does replacing all of it.
LEMMA LowWord ==
  ASSUME NEW c \in Int, c \in Word, NEW v \in Nat, v < 65536
  PROVE  (c \div 65536) * 65536 + v \in Word
BY WordIsInt

\* What DMA writes into CCR1 is a word again.
LEMMA LoadPwmType ==
  ASSUME NEW t \in Tim, NEW v \in 0 .. DmaModulus - 1
  PROVE  LoadPwm(t, v) \in Tim
<1>1. t.ccr1 \in Int /\ t.ccr1 \in Word
  BY WordIsInt DEF Tim
<1>2. v \in Nat /\ v < DmaModulus
  BY DmaModulusValue
<1>3. (t.ccr1 \div DmaModulus) * DmaModulus + v \in Word
  BY <1>1, <1>2, LowByte, LowWord, DmaModulusValue
<1> QED BY <1>3 DEF Tim, LoadPwm

\* DMA as a whole is switched within its type.
LEMMA DmaOps ==
  ASSUME NEW d \in Dma
  PROVE  /\ DmaAttach(d) \in Dma /\ DmaOn(d) \in Dma
         /\ DmaOff(d) \in Dma /\ DmaDetach(d) \in Dma
BY DEF Dma, DmaAttach, DmaOn, DmaOff, DmaDetach

\* Attaching DMA disarms its channels and leaves the timer's requests alone.
LEMMA DmaAttachEffect ==
  ASSUME NEW d \in Dma
  PROVE  /\ DmaAttach(d).cc1de = d.cc1de /\ DmaAttach(d).cc2de = d.cc2de
         /\ ~DmaAttach(d).en1 /\ ~DmaAttach(d).en2
BY DEF Dma, DmaAttach

\* A channel is set up for at most eight transfers.
LEMMA DmaPrepareOps ==
  ASSUME NEW d \in Dma, NEW n \in 0 .. 8
  PROVE  PreparePwmDma(d, n) \in Dma /\ PrepareCaptureDma(d, n) \in Dma
BY DEF Dma, PreparePwmDma, PrepareCaptureDma

\* A served PWM request reads inside the buffer.
LEMMA PwmTransferType ==
  ASSUME NEW d \in Dma, PwmRequestServed(d)
  PROVE  PwmTransfer(d) \in Dma /\ d.n1 - 1 \in Index
<1>1. d.n1 \in 0 .. 8 /\ d.n1 > 0
  BY DEF Dma, PwmRequestServed
<1>2. d.n1 - 1 \in 0 .. 7 /\ d.n1 - 1 \in 0 .. 8
  BY <1>1
<1> QED BY <1>2 DEF Dma, Index, PwmTransfer

\* A served capture request writes inside the buffer.
LEMMA CaptureTransferType ==
  ASSUME NEW d \in Dma, CaptureRequestServed(d)
  PROVE  CaptureTransfer(d) \in Dma /\ d.n2 - 1 \in Index
<1>1. d.n2 \in 0 .. 8 /\ d.n2 > 0
  BY DEF Dma, CaptureRequestServed
<1>2. d.n2 - 1 \in 0 .. 7 /\ d.n2 - 1 \in 0 .. 8
  BY <1>1
<1> QED BY <1>2 DEF Dma, Index, CaptureTransfer
-----------------------------------------------------------------------------
\* Settle, the effect of a hardware event on line and capture.
LEMMA SettleType ==
  ASSUME BusTypeOK,
         NEW t \in Tim, t.cen => t.cnt <= t.arr,
         NEW d \in Dma, NEW h \in BOOLEAN, NEW w \in Trace,
         Settle(t, d, h, w)
  PROVE  /\ tim' \in Tim
         /\ tim'.cen => tim'.cnt <= tim'.arr
         /\ dma' \in Dma
         /\ durations' \in [Index -> 0 .. DmaModulus - 1]
         /\ hold' \in BOOLEAN
         /\ wire' \in Trace
<1>1. tim' \in Tim /\ (tim'.cen => tim'.cnt <= tim'.arr)
  <2>1. [t EXCEPT !.cc2if = TRUE, !.ccr2 = t.cnt] \in Tim
    BY DEF Tim
  <2>2. tim' = t \/ tim' = [t EXCEPT !.cc2if = TRUE, !.ccr2 = t.cnt]
    BY DEF Settle
  <2> QED BY <2>1, <2>2 DEF Tim
<1>2. dma' \in Dma
  BY CaptureTransferType DEF Settle
<1>3. durations' \in [Index -> 0 .. DmaModulus - 1]
  <2>1. t.cnt % DmaModulus \in 0 .. DmaModulus - 1
    <3>1. t.cnt \in Int
      BY WordIsInt DEF Tim
    <3> QED BY <3>1, DmaModulusValue
  <2>2. durations \in [Index -> 0 .. DmaModulus - 1]
    BY DEF BusTypeOK
  <2>3. \/ durations' = durations
        \/ durations' = [durations EXCEPT ![d.n2 - 1] = t.cnt % DmaModulus]
    BY DEF Settle
  <2> QED BY <2>1, <2>2, <2>3
<1>4. hold' \in BOOLEAN
  BY DEF Settle
<1>5. wire' \in Trace
  <2>1. /\ w.pulses \in Seq(Word) /\ w.rises \in Seq(Word)
        /\ w.falls \in Seq(Word)
    BY DEF Trace
  <2>2. t.pwm \in Word /\ t.cnt \in Word
    BY DEF Tim
  <2>3. /\ Append(w.pulses, t.pwm) \in Seq(Word)
        /\ Append(w.rises, t.cnt) \in Seq(Word)
        /\ Append(w.falls, t.cnt) \in Seq(Word)
    BY <2>1, <2>2
  <2>4. /\ wire' = [pulses |-> wire'.pulses, rises |-> wire'.rises,
                    falls |-> wire'.falls, stuck |-> wire'.stuck]
        /\ wire'.stuck = w.stuck
        /\ wire'.pulses \in {w.pulses, Append(w.pulses, t.pwm)}
        /\ wire'.rises \in {w.rises, Append(w.rises, t.cnt)}
        /\ wire'.falls \in {w.falls, Append(w.falls, t.cnt)}
    BY DEF Settle
  <2>5. /\ wire'.pulses \in Seq(Word) /\ wire'.rises \in Seq(Word)
        /\ wire'.falls \in Seq(Word) /\ wire'.stuck \in BOOLEAN
    BY <2>1, <2>3, <2>4 DEF Trace
  <2> QED BY <2>4, <2>5 DEF Trace
<1> QED BY <1>1, <1>2, <1>3, <1>4, <1>5

\* It leaves everything the driver controls alone, and touches no DMA channel
\* that has no request to serve.
LEMMA SettleKeeps ==
  ASSUME NEW t \in Tim, NEW d \in Dma, NEW h, NEW w, Settle(t, d, h, w)
  PROVE  /\ tim'.cen = t.cen /\ tim'.moe = t.moe /\ tim'.aoe = t.aoe
         /\ tim'.uie = t.uie /\ tim'.cc1ie = t.cc1ie /\ tim'.cc2ie = t.cc2ie
         /\ dma'.clk = d.clk /\ dma'.cc1de = d.cc1de /\ dma'.cc2de = d.cc2de
         /\ dma'.en1 = d.en1 /\ dma'.en2 = d.en2
<1>1. tim' = t \/ tim' = [t EXCEPT !.cc2if = TRUE, !.ccr2 = t.cnt]
  BY DEF Settle
<1>2. dma' = d \/ dma' = CaptureTransfer(d)
  BY DEF Settle
<1> QED BY <1>1, <1>2 DEF Tim, Dma, CaptureTransfer

-----------------------------------------------------------------------------
\* The hardware keeps its types.
LEMMA ElapseType ==
  ASSUME BusTypeOK, NEW dt \in Int, dt >= 0, Elapse(dt)
  PROVE  lag' \in Nat
BY DEF BusTypeOK, Elapse

\* The counter, the level and the top are numbers.
LEMMA ClockType ==
  ASSUME BusTypeOK
  PROVE  /\ tim.cnt \in Int /\ tim.pwm \in Int /\ tim.arr \in Int
         /\ 0 <= tim.cnt /\ 0 <= tim.pwm /\ 0 <= tim.arr
BY WordIsInt DEF BusTypeOK, Tim

\* A device acts now or later, before the period ends.
LEMMA MomentType ==
  ASSUME BusTypeOK, NEW m \in Moments
  PROVE  /\ m \in Word /\ m \in Int /\ m - tim.cnt >= 0
         /\ tim.cen => m <= tim.arr
<1>1. tim.cnt \in Word /\ tim.arr \in Word
  BY DEF BusTypeOK, Tim
<1>2. m \in Word
  BY <1>1, BusAssumption DEF Moments
<1>3. m \in Int
  BY <1>2, WordIsInt
<1> QED BY <1>2, <1>3, ClockType DEF Moments

\* The end of a pulse, with the next level fetched.
LEMMA CompareType ==
  ASSUME BusTypeOK, Compare
  PROVE  BusTypeOK'
<1> DEFINE t == [tim EXCEPT !.cnt = tim.pwm, !.cc1if = TRUE]
           u == LoadPwm(t, durations[dma.n1 - 1])
<1>1. lag' \in Nat
  <2>1. tim.pwm - tim.cnt \in Int /\ tim.pwm - tim.cnt >= 0
    BY ClockType DEF Compare
  <2> QED BY <2>1, ElapseType DEF Compare
<1>2. t \in Tim /\ t.cnt <= t.arr
  BY DEF BusTypeOK, Tim, Compare
<1>3. ASSUME PwmRequestServed(dma)
      PROVE  u \in Tim /\ u.cnt <= u.arr /\ PwmTransfer(dma) \in Dma
  <2>1. PwmTransfer(dma) \in Dma /\ dma.n1 - 1 \in Index
    BY <1>3, PwmTransferType DEF BusTypeOK
  <2>2. durations[dma.n1 - 1] \in 0 .. DmaModulus - 1
    BY <2>1 DEF BusTypeOK
  <2>3. u \in Tim
    BY <1>2, <2>2, LoadPwmType
  <2>4. u.cnt = t.cnt /\ u.arr = t.arr
    BY <1>2 DEF LoadPwm, Tim
  <2> QED BY <1>2, <2>1, <2>3, <2>4
<1>4. hold \in BOOLEAN /\ wire \in Trace /\ dma \in Dma
  BY DEF BusTypeOK
<1>5. \/ PwmRequestServed(dma) /\ Settle(u, PwmTransfer(dma), hold, wire)
      \/ Settle(t, dma, hold, wire)
  BY DEF Compare
<1>6. /\ tim' \in Tim
      /\ tim'.cen => tim'.cnt <= tim'.arr
      /\ dma' \in Dma
      /\ durations' \in [Index -> 0 .. DmaModulus - 1]
      /\ hold' \in BOOLEAN
      /\ wire' \in Trace
  <2> HIDE DEF t, u
  <2> QED BY <1>2, <1>3, <1>4, <1>5, SettleType
<1> QED BY <1>1, <1>6 DEF BusTypeOK, Compare

\* The end of a period.
LEMMA OverflowType ==
  ASSUME BusTypeOK, Overflow
  PROVE  BusTypeOK'
<1> DEFINE t == UpdateEvent(tim, pullup)
<1>1. lag' \in Nat
  <2>1. tim.arr + 1 - tim.cnt \in Int /\ tim.arr + 1 - tim.cnt >= 0
    BY ClockType DEF Overflow, BusTypeOK
  <2> QED BY <2>1, ElapseType DEF Overflow
<1>2. t \in Tim
  <2>1. 0 \in Word
    BY WordIsInt
  <2> QED BY <2>1 DEF BusTypeOK, Tim, UpdateEvent
<1>3. t.cnt <= t.arr
  <2>1. t.cnt = 0 /\ t.arr = tim.arr
    BY DEF UpdateEvent, BusTypeOK, Tim
  <2> QED BY <2>1, ClockType
<1> DEFINE w == [wire EXCEPT !.stuck = wire.stuck \/ hold]
<1>4. hold \in BOOLEAN /\ w \in Trace /\ dma \in Dma
  BY DEF BusTypeOK, Trace
<1>5. Settle(t, dma, hold, w)
  BY DEF Overflow
<1>6. /\ tim' \in Tim
      /\ tim'.cen => tim'.cnt <= tim'.arr
      /\ dma' \in Dma
      /\ durations' \in [Index -> 0 .. DmaModulus - 1]
      /\ hold' \in BOOLEAN
      /\ wire' \in Trace
  <2> HIDE DEF t, w
  <2> QED BY <1>2, <1>3, <1>4, <1>5, SettleType
<1> QED BY <1>1, <1>6 DEF BusTypeOK, Overflow

\* A device pulls the line or lets go of it.
LEMMA DeviceType ==
  ASSUME BusTypeOK, NEW m \in Moments, DevicePull(m) \/ DeviceRelease(m)
  PROVE  BusTypeOK'
<1> DEFINE t == [tim EXCEPT !.cnt = m]
<1>1. lag' \in Nat
  <2>1. m - tim.cnt \in Int /\ m - tim.cnt >= 0
    BY MomentType, ClockType
  <2> QED BY <2>1, ElapseType DEF DevicePull, DeviceRelease
<1>2. t \in Tim /\ (t.cen => t.cnt <= t.arr)
  BY MomentType DEF BusTypeOK, Tim
<1>3. wire \in Trace /\ dma \in Dma
  BY DEF BusTypeOK
<1>4. Settle(t, dma, TRUE, wire) \/ Settle(t, dma, FALSE, wire)
  BY DEF DevicePull, DeviceRelease
<1>5. /\ tim' \in Tim
      /\ tim'.cen => tim'.cnt <= tim'.arr
      /\ dma' \in Dma
      /\ durations' \in [Index -> 0 .. DmaModulus - 1]
      /\ hold' \in BOOLEAN
      /\ wire' \in Trace
  <2> HIDE DEF t
  <2> QED BY <1>2, <1>3, <1>4, SettleType
<1> QED BY <1>1, <1>5 DEF BusTypeOK, DevicePull, DeviceRelease

\* All of them together.
LEMMA HardwareType ==
  ASSUME BusTypeOK, Hardware
  PROVE  BusTypeOK'
BY CompareType, OverflowType, DeviceType DEF Hardware

\* The active pull-up is switched.
LEMMA PullupType ==
  ASSUME BusTypeOK, Pullup
  PROVE  BusTypeOK'
<1>1. ASSUME NEW m \in Moments, ActivePullupOn(m)
      PROVE  BusTypeOK'
  <2> DEFINE t == [tim EXCEPT !.cnt = m, !.bif = TRUE, !.moe = FALSE]
  <2>1. lag' \in Nat
    <3>1. m - tim.cnt \in Int /\ m - tim.cnt >= 0
      BY MomentType, ClockType
    <3> QED BY <1>1, <3>1, ElapseType DEF ActivePullupOn
  <2>2. t \in Tim /\ (t.cen => t.cnt <= t.arr)
    BY MomentType DEF BusTypeOK, Tim
  <2>3. hold \in BOOLEAN /\ wire \in Trace /\ dma \in Dma
    BY DEF BusTypeOK
  <2>4. Settle(t, dma, hold, wire)
    BY <1>1 DEF ActivePullupOn
  <2>5. /\ tim' \in Tim
        /\ tim'.cen => tim'.cnt <= tim'.arr
        /\ dma' \in Dma
        /\ durations' \in [Index -> 0 .. DmaModulus - 1]
        /\ hold' \in BOOLEAN
        /\ wire' \in Trace
    <3> HIDE DEF t
    <3> QED BY <2>2, <2>3, <2>4, SettleType
  <2> QED BY <1>1, <2>1, <2>5 DEF BusTypeOK, ActivePullupOn
<1>2. CASE ActivePullupOff
  BY <1>2 DEF BusTypeOK, ActivePullupOff
<1> QED BY <1>1, <1>2 DEF Pullup

-----------------------------------------------------------------------------
\* The hardware arms nothing: neither a device nor the timer starts the timer,
\* enables an interrupt or a DMA request, and the output is only enabled where
\* the driver asked for it.
LEMMA HardwareKeeps ==
  ASSUME BusTypeOK, Hardware \/ Pullup
  PROVE  /\ tim'.cen = tim.cen /\ tim'.aoe = tim.aoe
         /\ tim'.moe => tim.moe \/ tim.aoe
         /\ tim'.uie = tim.uie /\ tim'.cc1ie = tim.cc1ie
         /\ tim'.cc2ie = tim.cc2ie
         /\ dma'.clk = dma.clk /\ dma'.cc1de = dma.cc1de
         /\ dma'.cc2de = dma.cc2de
         /\ dma'.en1 = dma.en1 /\ dma'.en2 = dma.en2
         /\ UNCHANGED call
<1>0. tim \in Tim /\ dma \in Dma
  BY DEF BusTypeOK
<1>1. UNCHANGED call
  BY DEF Hardware, Compare, Overflow, DevicePull, DeviceRelease, Pullup,
     ActivePullupOn, ActivePullupOff
<1>2. /\ dma'.clk = dma.clk /\ dma'.cc1de = dma.cc1de
      /\ dma'.cc2de = dma.cc2de
      /\ dma'.en1 = dma.en1 /\ dma'.en2 = dma.en2
  BY <1>0 DEF Hardware, Compare, Overflow, DevicePull, DeviceRelease, Pullup,
     ActivePullupOn, ActivePullupOff, Settle, CaptureTransfer, PwmTransfer, Dma
<1> DEFINE Kept(t) ==
      /\ t.cen = tim.cen /\ t.aoe = tim.aoe /\ (t.moe => tim.moe \/ tim.aoe)
      /\ t.uie = tim.uie /\ t.cc1ie = tim.cc1ie /\ t.cc2ie = tim.cc2ie
<1>3. ASSUME NEW t \in Tim, NEW d, NEW h, NEW w, Kept(t), Settle(t, d, h, w)
      PROVE  Kept(tim')
  <2>1. tim' = t \/ tim' = [t EXCEPT !.cc2if = TRUE, !.ccr2 = t.cnt]
    BY <1>3 DEF Settle
  <2> QED BY <1>3, <2>1 DEF Tim
<1>4. ASSUME Compare
      PROVE  Kept(tim')
  <2> DEFINE t == [tim EXCEPT !.cnt = tim.pwm, !.cc1if = TRUE]
             u == LoadPwm(t, durations[dma.n1 - 1])
  <2>1. t \in Tim /\ Kept(t)
    BY <1>0 DEF Tim
  <2>2. PwmRequestServed(dma) => u \in Tim
    <3>1. ASSUME PwmRequestServed(dma)
          PROVE  durations[dma.n1 - 1] \in 0 .. DmaModulus - 1
      BY <1>0, <3>1, PwmTransferType DEF BusTypeOK
    <3> QED BY <2>1, <3>1, LoadPwmType
  <2>3. Kept(u)
    BY <2>1 DEF LoadPwm, Tim
  <2>4. \/ /\ PwmRequestServed(dma)
           /\ Settle(u, PwmTransfer(dma), hold, wire)
        \/ Settle(t, dma, hold, wire)
    BY <1>4 DEF Compare
  <2> HIDE DEF t, u, Kept
  <2> QED BY <1>3, <2>1, <2>2, <2>3, <2>4
<1>5. ASSUME Overflow
      PROVE  Kept(tim')
  <2> DEFINE t == UpdateEvent(tim, pullup)
             w == [wire EXCEPT !.stuck = wire.stuck \/ hold]
  <2>1. t \in Tim /\ Kept(t)
    <3>1. 0 \in Word
      BY WordIsInt
    <3> QED BY <1>0, <3>1 DEF UpdateEvent, Tim, BusTypeOK
  <2>2. Settle(t, dma, hold, w)
    BY <1>5 DEF Overflow
  <2> HIDE DEF t, w, Kept
  <2> QED BY <1>3, <2>1, <2>2
<1>6. ASSUME NEW m \in Moments, DevicePull(m) \/ DeviceRelease(m)
      PROVE  Kept(tim')
  <2> DEFINE t == [tim EXCEPT !.cnt = m]
  <2>1. t \in Tim /\ Kept(t)
    BY <1>0, MomentType DEF Tim
  <2>2. Settle(t, dma, TRUE, wire) \/ Settle(t, dma, FALSE, wire)
    BY <1>6 DEF DevicePull, DeviceRelease
  <2> HIDE DEF t, Kept
  <2> QED BY <1>3, <2>1, <2>2
<1>7. ASSUME NEW m \in Moments, ActivePullupOn(m)
      PROVE  Kept(tim')
  <2> DEFINE t == [tim EXCEPT !.cnt = m, !.bif = TRUE, !.moe = FALSE]
  <2>1. t \in Tim /\ Kept(t)
    BY <1>0, MomentType DEF Tim
  <2>2. Settle(t, dma, hold, wire)
    BY <1>7 DEF ActivePullupOn
  <2> HIDE DEF t, Kept
  <2> QED BY <1>3, <2>1, <2>2
<1>8. ASSUME ActivePullupOff
      PROVE  Kept(tim')
  BY <1>8 DEF ActivePullupOff
<1>9. Kept(tim')
  BY <1>4, <1>5, <1>6, <1>7, <1>8 DEF Hardware, Pullup
<1> QED BY <1>1, <1>2, <1>9

-----------------------------------------------------------------------------
\* Types of the driver's variables.
LEMMA OpStatus == Op!PROGRESS = 0 /\ Op!COMPLETE = 1 /\ Op!ERROR = 2
                  /\ Op!Status = {0, 1, 2}
BY DEF Op!PROGRESS, Op!COMPLETE, Op!ERROR, Op!Status

\* The reset state has the types, and is at rest.
LEMMA DrvInitial == DrvInit => DrvTypeOK /\ AtRest
<1> SUFFICES ASSUME DrvInit PROVE DrvTypeOK /\ AtRest
  OBVIOUS
<1>1. 0 \in Word /\ 65535 \in Word
  BY WordIsInt
<1>2. tim \in Tim /\ (tim.cen => tim.cnt <= tim.arr)
  BY <1>1 DEF DrvInit, BusInit, Tim, Flag, Rising
<1>3. dma \in Dma
  BY DEF DrvInit, BusInit, Dma
<1>4. durations \in [Index -> 0 .. DmaModulus - 1]
  BY DmaModulusValue DEF DrvInit, BusInit
<1>5. wire \in Trace
  BY DEF DrvInit, BusInit, Trace, NoTrace
<1>6. BusTypeOK
  <2>1. pullup = FALSE /\ hold = FALSE /\ lag = 0 /\ call = "none"
    BY DEF DrvInit, BusInit
  <2> QED BY <1>2, <1>3, <1>4, <1>5, <2>1 DEF BusTypeOK
<1>7. Op!TypeOK
  BY OpStatus DEF DrvInit, BusInit, Op!Init, Op!TypeOK
<1>8. request \in Request
  BY DEF DrvInit, Request, Flag, Index
<1>9. overdrive \in Flag /\ conflict \in {"never", "some", "all"}
  <2>1. overdrive = 0 /\ conflict = "never"
    BY DEF DrvInit
  <2> QED BY <2>1 DEF Flag
<1>10. mark \in Word
  <2>1. mark = 0
    BY DEF DrvInit
  <2> QED BY <1>1, <2>1
<1>11. AtRest
  BY DEF DrvInit, BusInit, AtRest
<1> QED BY <1>6, <1>7, <1>8, <1>9, <1>10, <1>11 DEF DrvTypeOK

\* What drvOneWireKernelOperationComplete leaves behind.
LEMMA CompleteTimIdle ==
  ASSUME NEW t \in Tim
  PROVE  /\ CompleteTim(t) \in Tim
         /\ ~CompleteTim(t).cen /\ ~CompleteTim(t).moe
         /\ ~CompleteTim(t).aoe /\ ~CompleteTim(t).uie
         /\ ~CompleteTim(t).cc1ie /\ ~CompleteTim(t).cc2ie
BY DEF Tim, CompleteTim, TimerStop, Halt, DisableCaptureIrq, DisablePwmIrq,
   DisableOverflowIrq

\* ... and in the DMA.
LEMMA CompleteDmaIdle ==
  ASSUME NEW d \in Dma
  PROVE  /\ CompleteDma(d) \in Dma
         /\ WithDma => /\ ~CompleteDma(d).clk
                       /\ ~CompleteDma(d).cc1de /\ ~CompleteDma(d).cc2de
BY DEF Dma, CompleteDma, DmaDetach, DmaOff

\* The registers after a step of a handler, which rests the timer when it
\* ends the operation.
Served ==
  /\ tim' \in Tim
  /\ tim'.cen => tim'.cnt <= tim'.arr
  /\ dma' \in Dma
  /\ status' \in Op!Status
  /\ al' \in {0, 1}
  /\ presence' \in {0, 1}
  /\ mark' \in Word
  /\ status' # status => AtRest'

\* Whatever ends an operation leaves the timer at rest.
LEMMA OperationCompleteRests ==
  ASSUME NEW t \in Tim, NEW d \in Dma, NEW result \in Op!Status,
         OperationComplete(t, d, result)
  PROVE  /\ tim' \in Tim /\ (tim'.cen => tim'.cnt <= tim'.arr)
         /\ dma' \in Dma
         /\ status' \in Op!Status /\ al' \in {0, 1}
         /\ AtRest'
BY CompleteTimIdle, CompleteDmaIdle DEF OperationComplete, AtRest

\* Pulses and periods fit the registers and the DMA's memory.
LEMMA BitTypes ==
  ASSUME NEW od \in Flag, NEW bit \in Flag
  PROVE  /\ BIT_DURATION(od, bit) \in Word
         /\ IO_BIT_PROCEDURE_DURATION(od) \in Word
         /\ RESET_DURATION(od) \in Word
         /\ RESET_PROCEDURE_DURATION(od) \in Word
         /\ BIT_DURATION(od, bit) % DmaModulus \in 0 .. DmaModulus - 1
<1>1. /\ BIT_DURATION(od, bit) \in Int
      /\ 0 <= BIT_DURATION(od, bit) /\ BIT_DURATION(od, bit) <= 65535
  BY BitValues, SlotValue
<1>2. BIT_DURATION(od, bit) % DmaModulus \in 0 .. DmaModulus - 1
  BY <1>1, DmaModulusValue
<1> QED BY <1>1, <1>2, SlotValue, ResetValues, WordIsInt

\* The timer, started.
LEMMA StartedType ==
  ASSUME NEW t \in Tim, NEW pull \in BOOLEAN
  PROVE  LET u == FireOverflowEvent(TimerStart(t), pull)
         IN  u \in Tim /\ u.cnt <= u.arr
<1> DEFINE u == FireOverflowEvent(TimerStart(t), pull)
<1>1. TimerStart(t) \in Tim /\ 0 \in Word /\ 0 \in Flag
  BY TimFlagOps, WordIsInt DEF Flag
<1>2. u \in Tim
  BY <1>1, TimValueOps
<1>3. u.cnt = 0
  BY <1>1 DEF FireOverflowEvent, UpdateEvent, Tim
<1>4. u.arr \in Word
  BY <1>2 DEF Tim
<1> QED BY <1>2, <1>3, <1>4, WordIsInt

\* The timer as drvOneWireTxBits prepares it.
LEMMA TxPreparedType ==
  ASSUME DrvTypeOK
  PROVE  TxPrepared \in Tim
<1>1. IO_BIT_PROCEDURE_DURATION(overdrive) \in Word
  BY BitTypes DEF DrvTypeOK, Flag
<1>2. Prepare(tim, pullup) \in Tim
  BY TimFlagOps DEF DrvTypeOK, BusTypeOK
<1>3. SetTop(Prepare(tim, pullup), IO_BIT_PROCEDURE_DURATION(overdrive))
        \in Tim
  BY <1>1, <1>2, TimValueOps DEF DrvTypeOK, BusTypeOK, Flag
<1>4. Rising \in Flag /\ 0 \in Word
  BY WordIsInt DEF Rising, Flag
<1> QED BY <1>3, <1>4, TimValueOps DEF TxPrepared

\* An exchange of bits is started.
LEMMA TxStartedType ==
  ASSUME DrvTypeOK, NEW r \in Request, NEW t \in Tim, t.cnt <= t.arr,
         Begin("io"), TxStarted(r, t),
         dma' \in Dma, durations' \in [Index -> 0 .. DmaModulus - 1]
  PROVE  DrvTypeOK'
<1>1. wire' \in Trace
  <2>1. t.pwm \in Word
    BY DEF Tim
  <2>2. wire' = [NoTrace EXCEPT !.pulses =
                   IF Driving(t) THEN <<t.pwm>> ELSE <<>>]
    BY DEF TxStarted
  <2>3. <<t.pwm>> \in Seq(Word) /\ <<>> \in Seq(Word)
    BY <2>1
  <2>4. \A p \in Seq(Word) : [NoTrace EXCEPT !.pulses = p] \in Trace
    BY <2>3 DEF NoTrace, Trace
  <2> QED BY <2>2, <2>3, <2>4
<1>2. BusTypeOK'
  BY <1>1 DEF DrvTypeOK, BusTypeOK, TxStarted, Begin
<1>3. Op!TypeOK'
  BY OpStatus DEF DrvTypeOK, Op!TypeOK, TxStarted, Begin
<1> QED BY <1>2, <1>3 DEF DrvTypeOK, TxStarted, Begin

\* A RESET is started.
LEMMA ResetType ==
  ASSUME DrvTypeOK, NEW od \in Speeds, Reset(od)
  PROVE  DrvTypeOK'
<1> DEFINE t1 == SetTop(Prepare(tim, pullup), RESET_PROCEDURE_DURATION(od))
           t2 == EnableOverflowIrq(SetPwmLevel(t1, RESET_DURATION(od)))
           t3 == FireOverflowEvent(TimerStart(t2), pullup)
<1>1. od \in Flag /\ pullup \in BOOLEAN /\ tim \in Tim /\ 0 \in Flag
  BY DrvAssumption DEF DrvTypeOK, BusTypeOK, Flag
<1>2. RESET_PROCEDURE_DURATION(od) \in Word /\ RESET_DURATION(od) \in Word
  BY <1>1, BitTypes
<1>3. t1 \in Tim
  BY <1>1, <1>2, TimFlagOps, TimValueOps
<1>4. SetPwmLevel(t1, RESET_DURATION(od)) \in Tim
  BY <1>1, <1>2, <1>3, TimValueOps
<1>5. t2 \in Tim
  BY <1>1, <1>4, TimFlagOps
<1>6. t3 \in Tim /\ t3.cnt <= t3.arr
  BY <1>1, <1>5, StartedType
<1>7. NoTrace \in Trace
  BY DEF NoTrace, Trace
<1>8. /\ tim' \in Tim
      /\ tim'.cen => tim'.cnt <= tim'.arr
      /\ dma' \in Dma
      /\ durations' \in [Index -> 0 .. DmaModulus - 1]
      /\ hold' \in BOOLEAN
      /\ wire' \in Trace
  <2>1. Settle(t3, dma, hold, NoTrace)
    BY DEF Reset
  <2> HIDE DEF t1, t2, t3
  <2> QED BY <1>6, <1>7, <2>1, SettleType DEF DrvTypeOK, BusTypeOK
<1>9. BusTypeOK'
  BY <1>1, <1>8 DEF BusTypeOK, Reset, Begin
<1>10. Op!TypeOK'
  BY OpStatus DEF DrvTypeOK, Op!TypeOK, Reset, Begin
<1> QED BY <1>1, <1>9, <1>10 DEF DrvTypeOK, Reset, Begin

-----------------------------------------------------------------------------
\* Handlers that the builds share.
LEMMA IsrPullupConflictServed ==
  ASSUME DrvTypeOK, IsrPullupConflict
  PROVE  Served
<1>1. ClearPullupConflict(tim, pullup) \in Tim
  BY TimFlagOps DEF DrvTypeOK, BusTypeOK
<1> QED BY <1>1, OperationCompleteRests, OpStatus
    DEF IsrPullupConflict, Served, DrvTypeOK, BusTypeOK, Op!TypeOK

\* An overflow in a RESET.
LEMMA ResetOverflowServed ==
  ASSUME DrvTypeOK, NEW t \in Tim, t.cen = tim.cen, t.cnt = tim.cnt,
         t.arr = tim.arr, ResetOverflow(t)
  PROVE  Served
<1>1. dma \in Dma /\ (tim.cen => tim.cnt <= tim.arr) /\ mark \in Word
      /\ presence \in {0, 1} /\ al \in {0, 1} /\ status \in Op!Status
  BY DEF DrvTypeOK, BusTypeOK, Op!TypeOK
<1>2. CASE tim' = EnablePwmIrq(t) /\ UNCHANGED <<dma, status, al>>
  <2>1. EnablePwmIrq(t) \in Tim
    BY TimFlagOps
  <2>2. tim'.cen = tim.cen /\ tim'.cnt = tim.cnt /\ tim'.arr = tim.arr
    BY <1>2 DEF EnablePwmIrq, Tim
  <2> QED BY <1>1, <1>2, <2>1, <2>2 DEF ResetOverflow, Served
<1>3. CASE OperationComplete(t, dma, Op!ERROR)
  BY <1>1, <1>3, OperationCompleteRests, OpStatus DEF ResetOverflow, Served
<1> QED BY <1>2, <1>3 DEF ResetOverflow

\* The end of a RESET pulse keeps the timer running.
LEMMA EndResetPulseType ==
  ASSUME NEW t \in Tim
  PROVE  LET u == EndResetPulse(t)
         IN  u \in Tim /\ u.cen = t.cen /\ u.cnt = t.cnt /\ u.arr = t.arr
<1>1. 0 \in Word /\ Falling \in Flag
  BY WordIsInt DEF Falling, Flag
<1>2. EndResetPulse(t) \in Tim
  BY <1>1, TimFlagOps, TimValueOps DEF EndResetPulse
<1> QED BY <1>2 DEF EndResetPulse, DisablePwmIrq, EnableCaptureIrq,
    SetCapturePolarity, ClearCapture, SetPwmLevel, ClearPwm, Tim

\* An edge captured in a RESET.
LEMMA PresenceEdgeServed ==
  ASSUME DrvTypeOK, NEW t \in Tim, t.cen = tim.cen, t.cnt = tim.cnt,
         t.arr = tim.arr, PresenceEdge(t)
  PROVE  Served
<1> DEFINE c == ClearCapture(t)
           p == SetCapturePolarity(c, Rising)
<1>1. dma \in Dma /\ (tim.cen => tim.cnt <= tim.arr) /\ mark \in Word
      /\ presence \in {0, 1} /\ al \in {0, 1} /\ status \in Op!Status
  BY DEF DrvTypeOK, BusTypeOK, Op!TypeOK
<1>2. c \in Tim /\ p \in Tim /\ t.ccr2 \in Word
  <2>1. Rising \in Flag /\ 0 \in Word
    BY WordIsInt DEF Rising, Flag
  <2>2. c \in Tim
    BY TimFlagOps
  <2> QED BY <2>1, <2>2, TimValueOps DEF Tim
<1>3. \A u \in {c, p} :
        u.cen = tim.cen /\ u.cnt = tim.cnt /\ u.arr = tim.arr
  BY DEF SetCapturePolarity, ClearCapture, Tim
<1>4. \/ tim' = p /\ UNCHANGED <<dma, status, al>>
      \/ OperationComplete(c, dma, Op!COMPLETE)
      \/ OperationComplete(c, dma, Op!ERROR)
      \/ OperationComplete(p, dma, Op!ERROR)
  BY DEF PresenceEdge
<1>5. /\ presence' = presence \/ presence' = 1
      /\ mark' = mark \/ mark' = t.ccr2
  BY DEF PresenceEdge
<1> HIDE DEF c, p
<1>6. CASE tim' = p /\ UNCHANGED <<dma, status, al>>
  BY <1>1, <1>2, <1>3, <1>5, <1>6 DEF Served
<1>7. CASE \/ OperationComplete(c, dma, Op!COMPLETE)
           \/ OperationComplete(c, dma, Op!ERROR)
           \/ OperationComplete(p, dma, Op!ERROR)
  BY <1>1, <1>2, <1>5, <1>7, OperationCompleteRests, OpStatus DEF Served
<1> QED BY <1>4, <1>6, <1>7

\* After a handler the types are right.
LEMMA ServedType ==
  ASSUME DrvTypeOK, Served, lag' = 0,
         UNCHANGED <<durations, pullup, hold, call, wire>>,
         UNCHANGED <<overdrive, request, conflict>>
  PROVE  DrvTypeOK'
<1>1. BusTypeOK'
  BY DEF Served, DrvTypeOK, BusTypeOK
<1>2. Op!TypeOK'
  BY DEF Served, DrvTypeOK, Op!TypeOK
<1> QED BY <1>1, <1>2 DEF Served, DrvTypeOK

\* Between operations no interrupt of the timer is pending, and the timer
\* itself makes none.
LEMMA AtRestIsIdle ==
  ASSUME AtRest, Op!Ready
  PROVE  ~OverflowPending /\ ~CapComPending /\ ~Compare /\ ~Overflow
BY DEF AtRest, OverflowPending, CapComPending, Compare, Overflow

\* The steps the builds share keep types and rest.
LEMMA CommonStepRests ==
  ASSUME DrvTypeOK, AtRest, CommonStep
  PROVE  DrvTypeOK' /\ AtRest'
<1>1. ASSUME NEW od \in Speeds, Reset(od)
      PROVE  DrvTypeOK' /\ AtRest'
  BY <1>1, ResetType, OpStatus DEF AtRest, Op!Ready, Reset, Begin
<1>2. CASE HardwareStep
  <2>1. BusTypeOK /\ BusTypeOK'
    BY <1>2, HardwareType DEF HardwareStep, DrvTypeOK
  <2>2. UNCHANGED <<call, drvVars>>
    BY <1>2, <2>1, HardwareKeeps DEF HardwareStep
  <2>3. DrvTypeOK'
    BY <2>1, <2>2 DEF drvVars, DrvTypeOK, Op!TypeOK
  <2> QED BY <1>2, <2>1, <2>2, <2>3, HardwareKeeps
          DEF HardwareStep, drvVars, AtRest, Op!Ready
<1>3. CASE PullupStep
  <2>1. BusTypeOK /\ BusTypeOK'
    BY <1>3, PullupType DEF PullupStep, DrvTypeOK
  <2>2. UNCHANGED call
    BY <1>3, <2>1, HardwareKeeps DEF PullupStep
  <2>3. DrvTypeOK'
    BY <1>3, <2>1, <2>2 DEF PullupStep, DrvTypeOK, Op!TypeOK
  <2> QED BY <1>3, <2>1, <2>2, <2>3, HardwareKeeps
          DEF PullupStep, AtRest, Op!Ready
<1>4. CASE SimulatePresence
  BY <1>4 DEF SimulatePresence, Op!SimulatePresence, DrvTypeOK, BusTypeOK,
     Op!TypeOK, AtRest, Op!Ready
<1>5. CASE ConsumeEvent
  BY <1>5 DEF ConsumeEvent, Op!ConsumeEvent, DrvTypeOK, BusTypeOK, Op!TypeOK,
     AtRest, Op!Ready
<1> QED BY <1>1, <1>2, <1>3, <1>4, <1>5 DEF CommonStep

-----------------------------------------------------------------------------
\* The steps the builds share are steps of OneWireOp, or none of it.
LEMMA CommonStepOp ==
  ASSUME DrvTypeOK, CommonStep
  PROVE  [Op!Next]_(Op!vars)
<1> USE DEF Op!Next, Op!vars
<1>1. ASSUME NEW od \in Speeds, Reset(od)
      PROVE  Op!StartReset
  BY <1>1 DEF Reset, Begin, Op!StartReset
<1>2. CASE HardwareStep
  BY <1>2, HardwareKeeps DEF HardwareStep, drvVars, DrvTypeOK
<1>3. CASE PullupStep
  BY <1>3, HardwareKeeps DEF PullupStep, DrvTypeOK
<1>4. CASE SimulatePresence
  BY <1>4 DEF SimulatePresence
<1>5. CASE ConsumeEvent
  BY <1>5 DEF ConsumeEvent
<1> QED BY <1>1, <1>2, <1>3, <1>4, <1>5 DEF CommonStep

\* So is an operation's end, whoever finds it.
LEMMA FinishOp ==
  ASSUME Op!Busy, NEW t, NEW d, NEW result \in {Op!COMPLETE, Op!ERROR},
         OperationComplete(t, d, result), UNCHANGED call,
         IF result = Op!COMPLETE THEN presence' = 1 ELSE UNCHANGED presence
  PROVE  Op!Finish
BY OpStatus DEF OperationComplete, Op!Finish

\* ... by a handler of a RESET or by the protection of the pull-up.
LEMMA CommonServedOp ==
  ASSUME Op!Busy, UNCHANGED call, NEW t,
         IsrPullupConflict \/ ResetOverflow(t) \/ PresenceEdge(t)
  PROVE  Op!Finish \/ UNCHANGED Op!vars
BY FinishOp, OpStatus DEF IsrPullupConflict, ResetOverflow, PresenceEdge,
   Op!vars

-----------------------------------------------------------------------------
\* PRESENCE.  What the hardware does between two handlers is one settling of
\* the line at some value of the counter, with the capture left as it was.
Runs(t, d, h, w) ==
  /\ t \in Tim /\ d \in Dma
  /\ t.cen = tim.cen /\ t.arr = tim.arr /\ (t.cen => t.cnt <= t.arr)
  /\ t.cc2ie = tim.cc2ie /\ t.cc2p = tim.cc2p
  /\ t.cc2if = tim.cc2if /\ t.ccr2 = tim.ccr2
  /\ t.uie = tim.uie /\ (tim.uif => t.uif) /\ (tim.bif => t.bif)
  /\ t.moe => tim.moe \/ ~pullup'
  /\ d.tc2 = dma.tc2
  /\ h => hold \/ NoisyBus \/ Driving(tim) \/ call # "io"
  /\ w.rises = wire.rises /\ w.falls = wire.falls
  /\ Settle(t, d, h, w)

\* Every step of the hardware and of the pull-up runs so, or changes nothing.
LEMMA HardwareRuns ==
  ASSUME BusTypeOK, Hardware \/ Pullup
  PROVE  \/ UNCHANGED <<tim, dma, hold, wire>>
         \/ \E t, d, h, w : Runs(t, d, h, w)
<1>0. tim \in Tim /\ dma \in Dma /\ wire \in Trace
  BY DEF BusTypeOK
<1>1. CASE Compare
  <2> DEFINE t == [tim EXCEPT !.cnt = tim.pwm, !.cc1if = TRUE]
             u == LoadPwm(t, durations[dma.n1 - 1])
  <2>1. t \in Tim /\ t.cnt <= t.arr
    BY <1>0, <1>1 DEF Compare, Tim
  <2>2. CASE PwmRequestServed(dma)
    <3>1. PwmTransfer(dma) \in Dma /\ dma.n1 - 1 \in Index
      BY <1>0, <2>2, PwmTransferType
    <3>2. durations[dma.n1 - 1] \in 0 .. DmaModulus - 1
      BY <3>1 DEF BusTypeOK
    <3>3. u \in Tim
      BY <2>1, <3>2, LoadPwmType
    <3>4. Runs(u, PwmTransfer(dma), hold, wire)
      BY <1>0, <1>1, <2>1, <2>2, <3>1, <3>3
         DEF Runs, Compare, LoadPwm, PwmTransfer, Tim, Dma
    <3> QED BY <3>4
  <2>3. CASE ~PwmRequestServed(dma)
    <3>1. Runs(t, dma, hold, wire)
      BY <1>0, <1>1, <2>1, <2>3 DEF Runs, Compare, Tim
    <3> QED BY <3>1
  <2> QED BY <2>2, <2>3
<1>2. CASE Overflow
  <2> DEFINE t == UpdateEvent(tim, pullup)
             w == [wire EXCEPT !.stuck = wire.stuck \/ hold]
  <2>1. t \in Tim /\ t.cnt = 0
    <3>1. 0 \in Word
      BY WordIsInt
    <3> QED BY <1>0, <3>1 DEF UpdateEvent, Tim, BusTypeOK
  <2>2. t.cnt <= t.arr
    BY <1>0, <2>1, ClockType DEF UpdateEvent, Tim
  <2>3. w.rises = wire.rises /\ w.falls = wire.falls
    BY <1>0 DEF Trace
  <2>4. Runs(t, dma, hold, w)
    BY ZenonT(40), <1>0, <1>2, <2>1, <2>2, <2>3
       DEF Runs, Overflow, UpdateEvent, Tim
  <2> QED BY <2>4
<1>3. ASSUME NEW m \in Moments, DevicePull(m)
      PROVE  Runs([tim EXCEPT !.cnt = m], dma, TRUE, wire)
  BY <1>0, <1>3, MomentType DEF Runs, DevicePull, Tim
<1>4. ASSUME NEW m \in Moments, DeviceRelease(m)
      PROVE  Runs([tim EXCEPT !.cnt = m], dma, FALSE, wire)
  BY <1>0, <1>4, MomentType DEF Runs, DeviceRelease, Tim
<1>5. ASSUME NEW m \in Moments, ActivePullupOn(m)
      PROVE  Runs([tim EXCEPT !.cnt = m, !.bif = TRUE, !.moe = FALSE], dma,
                  hold, wire)
  BY <1>0, <1>5, MomentType DEF Runs, ActivePullupOn, Tim
<1>6. CASE ActivePullupOff
  BY <1>6 DEF ActivePullupOff
<1> QED BY <1>1, <1>2, <1>3, <1>4, <1>5, <1>6 DEF Hardware, Pullup

\* Appending an element to a sequence adds it to the elements.
LEMMA AppendElements ==
  ASSUME NEW s \in Seq(Word), NEW x \in Word
  PROVE  /\ Elements(s) \subseteq Elements(Append(s, x))
         /\ x \in Elements(Append(s, x))
         /\ Elements(Append(s, x)) \subseteq Elements(s) \union {x}
<1>1. /\ Len(s) \in Nat /\ DOMAIN s = 1 .. Len(s)
      /\ DOMAIN Append(s, x) = 1 .. Len(s) + 1
      /\ Append(s, x)[Len(s) + 1] = x
      /\ \A i \in 1 .. Len(s) : Append(s, x)[i] = s[i]
  OBVIOUS
<1>2. \A i \in 1 .. Len(s) : i \in 1 .. Len(s) + 1
  BY <1>1
<1>3. \A i \in 1 .. Len(s) + 1 : i \in 1 .. Len(s) \/ i = Len(s) + 1
  BY <1>1
<1>4. Len(s) + 1 \in 1 .. Len(s) + 1
  BY <1>1
<1> QED BY <1>1, <1>2, <1>3, <1>4 DEF Elements

\* The history of edges only grows, by an edge at the counter's value.
LEMMA EdgesGrow ==
  ASSUME wire \in Trace, NEW t, NEW d, NEW h, NEW w, Runs(t, d, h, w)
  PROVE  /\ wire'.falls \in {wire.falls, Append(wire.falls, t.cnt)}
         /\ wire'.rises \in {wire.rises, Append(wire.rises, t.cnt)}
         /\ Elements(wire.falls) \subseteq Elements(wire'.falls)
         /\ Elements(wire.rises) \subseteq Elements(wire'.rises)
         /\ Elements(wire'.falls) \subseteq Elements(wire.falls) \union {t.cnt}
         /\ Elements(wire'.rises) \subseteq Elements(wire.rises) \union {t.cnt}
         /\ wire'.falls = Append(wire.falls, t.cnt) =>
              t.cnt \in Elements(wire'.falls)
         /\ wire'.rises = Append(wire.rises, t.cnt) =>
              t.cnt \in Elements(wire'.rises)
<1>1. /\ wire.falls \in Seq(Word) /\ wire.rises \in Seq(Word)
      /\ t.cnt \in Word
  BY DEF Trace, Runs, Tim
<1>2. /\ wire'.falls \in {wire.falls, Append(wire.falls, t.cnt)}
      /\ wire'.rises \in {wire.rises, Append(wire.rises, t.cnt)}
  BY DEF Runs, Settle
<1>3. ASSUME NEW s \in Seq(Word), NEW u, u \in {s, Append(s, t.cnt)}
      PROVE  /\ Elements(s) \subseteq Elements(u)
             /\ Elements(u) \subseteq Elements(s) \union {t.cnt}
             /\ u = Append(s, t.cnt) => t.cnt \in Elements(u)
  BY <1>1, <1>3, AppendElements
<1> QED BY <1>1, <1>2, <1>3

\* What is known while a RESET runs: every edge is within its time, the first
\* edge captured is a falling one (or that of the pulse itself), the presence
\* mark is a falling edge at a legal delay, and what is captured after it is
\* a rising edge.
Hearing ==
  /\ presence = 0 /\ tim.cen
  /\ tim.arr = RESET_PROCEDURE_DURATION(overdrive)
  /\ \A x \in Elements(wire.falls) \union Elements(wire.rises) : x <= tim.arr
  /\ tim.cc2ie /\ tim.cc2p = Falling /\ tim.cc2if =>
       tim.ccr2 \in Elements(wire.falls) \union {0}
  /\ tim.cc2ie /\ tim.cc2p = Rising =>
       /\ mark \in Elements(wire.falls) /\ DelayOk(overdrive, mark)
       /\ tim.cc2if => tim.ccr2 \in Elements(wire.rises)

\* That, until the RESET is over, and what the property says from then on.
PresenceKnown ==
  /\ call = "reset" /\ status = Op!PROGRESS => Hearing
  /\ PresenceSound

\* An edge on the line.
LEMMA HearingRuns ==
  ASSUME DrvTypeOK, Hearing, NEW t, NEW d, NEW h, NEW w, Runs(t, d, h, w),
         UNCHANGED <<presence, overdrive, mark>>
  PROVE  Hearing'
<1>1. /\ wire \in Trace /\ tim \in Tim /\ t \in Tim
      /\ wire.falls \in Seq(Word) /\ wire.rises \in Seq(Word)
      /\ t.cnt \in Word /\ t.cnt \in Nat
  BY WordIsInt DEF DrvTypeOK, BusTypeOK, Trace, Runs, Tim
<1>2. /\ tim'.cen = tim.cen /\ tim'.arr = tim.arr /\ tim'.cc2ie = tim.cc2ie
      /\ tim'.cc2p = tim.cc2p
  BY <1>1 DEF Runs, Settle, Tim
<1>3. \A x \in Elements(wire'.falls) \union Elements(wire'.rises) :
        x <= tim'.arr
  <2>1. t.cnt <= tim.arr
    BY DEF Hearing, Runs
  <2>2. \A x \in Elements(wire.falls) \union Elements(wire.rises) :
          x <= tim.arr
    BY DEF Hearing
  <2> QED BY <1>1, <1>2, <2>1, <2>2, EdgesGrow
<1>4. \/ tim'.cc2if = tim.cc2if /\ tim'.ccr2 = tim.ccr2
      \/ /\ tim.cc2p = Falling /\ tim'.ccr2 = t.cnt
         /\ t.cnt > 0 => wire'.falls = Append(wire.falls, t.cnt)
      \/ /\ tim.cc2p = Rising /\ tim'.ccr2 = t.cnt
         /\ wire'.rises = Append(wire.rises, t.cnt)
  BY <1>1 DEF Runs, Settle, Hearing, Tim, Rising, Falling
<1>5. tim'.cc2ie /\ tim'.cc2p = Falling /\ tim'.cc2if =>
        tim'.ccr2 \in Elements(wire'.falls) \union {0}
  <2> SUFFICES ASSUME tim'.cc2ie, tim'.cc2p = Falling, tim'.cc2if
               PROVE  tim'.ccr2 \in Elements(wire'.falls) \union {0}
    OBVIOUS
  <2>1. CASE tim'.cc2if = tim.cc2if /\ tim'.ccr2 = tim.ccr2
    BY <1>1, <1>2, <2>1, EdgesGrow DEF Hearing
  <2>2. CASE tim'.ccr2 = t.cnt /\ wire'.falls = Append(wire.falls, t.cnt)
    BY <1>1, <2>2, EdgesGrow
  <2>3. CASE tim'.ccr2 = t.cnt /\ ~(t.cnt > 0)
    BY <1>1, <2>3
  <2>4. tim.cc2p # Rising
    BY <1>2 DEF Rising, Falling
  <2> QED BY <1>4, <2>1, <2>2, <2>3, <2>4
<1>6. tim'.cc2ie /\ tim'.cc2p = Rising =>
        /\ mark' \in Elements(wire'.falls) /\ DelayOk(overdrive', mark')
        /\ tim'.cc2if => tim'.ccr2 \in Elements(wire'.rises)
  BY <1>1, <1>2, <1>4, EdgesGrow
     DEF Hearing, Rising, Falling
<1> QED BY <1>2, <1>3, <1>5, <1>6 DEF Hearing

\* No edge, and no switch of the pull-up, disturbs it.
LEMMA PresenceKnownHardware ==
  ASSUME DrvTypeOK, PresenceKnown, Hardware \/ Pullup,
         UNCHANGED <<status, presence, overdrive, mark>>
  PROVE  PresenceKnown'
<1>1. UNCHANGED call
  BY HardwareKeeps DEF DrvTypeOK
<1>2. CASE UNCHANGED <<tim, dma, hold, wire>>
  BY <1>1, <1>2 DEF PresenceKnown, Hearing, PresenceSound, ResetComplete,
     Presence
<1>3. ASSUME NEW t, NEW d, NEW h, NEW w, Runs(t, d, h, w)
      PROVE  PresenceKnown'
  <2>1. call' = "reset" /\ status' = Op!PROGRESS => Hearing'
    BY <1>1, <1>3, HearingRuns DEF PresenceKnown
  <2>2. PresenceSound'
    BY <1>1, <1>3, EdgesGrow
       DEF PresenceKnown, PresenceSound, ResetComplete, Presence, DrvTypeOK,
       BusTypeOK
  <2> QED BY <2>1, <2>2 DEF PresenceKnown
<1> QED BY <1>2, <1>3, HardwareRuns DEF DrvTypeOK

\* A RESET begins, with nothing heard and the capture interrupt off.
LEMMA PresenceKnownReset ==
  ASSUME DrvTypeOK, AtRest, NEW od \in Speeds, Reset(od)
  PROVE  PresenceKnown'
<1> DEFINE t1 == SetTop(Prepare(tim, pullup), RESET_PROCEDURE_DURATION(od))
           t2 == EnableOverflowIrq(SetPwmLevel(t1, RESET_DURATION(od)))
           t3 == FireOverflowEvent(TimerStart(t2), pullup)
<1>1. tim \in Tim /\ od \in Flag /\ ~tim.cc2ie /\ pullup \in BOOLEAN
  BY DrvAssumption DEF DrvTypeOK, BusTypeOK, AtRest, Reset
<1>2. /\ t3.cen /\ t3.arr = RESET_PROCEDURE_DURATION(od) /\ ~t3.cc2ie
      /\ t3.cnt = 0
  BY <1>1 DEF SetTop, Prepare, ClearPullupConflict, EnableOverflowIrq,
     SetPwmLevel, TimerStart, FireOverflowEvent, UpdateEvent, Tim
<1>3. /\ Settle(t3, dma, hold, NoTrace)
      /\ call' = "reset" /\ presence' = 0 /\ overdrive' = od
      /\ status' = Op!PROGRESS
  BY DEF Reset, Begin
<1>4. t3 \in Tim
  <2>1. RESET_PROCEDURE_DURATION(od) \in Word /\ RESET_DURATION(od) \in Word
    BY <1>1, BitTypes
  <2>2. t1 \in Tim
    BY <1>1, <2>1, TimFlagOps, TimValueOps
  <2>3. SetPwmLevel(t1, RESET_DURATION(od)) \in Tim
    BY <1>1, <2>1, <2>2, TimValueOps
  <2>4. t2 \in Tim
    BY <1>1, <2>3, TimFlagOps
  <2> QED BY <1>1, <2>4, StartedType
<1> HIDE DEF t1, t2, t3
<1>5. /\ tim'.cen /\ tim'.arr = RESET_PROCEDURE_DURATION(od) /\ ~tim'.cc2ie
  BY <1>2, <1>3, <1>4 DEF Settle, Tim
<1>6. /\ wire'.falls = <<>> /\ wire'.rises \in {<<>>, <<0>>}
  BY <1>2, <1>3 DEF Settle, NoTrace
<1>7. \A x \in Elements(wire'.falls) \union Elements(wire'.rises) : x = 0
  BY <1>6 DEF Elements
<1>8. 0 <= RESET_PROCEDURE_DURATION(od)
  BY <1>1, ResetValues
<1> QED BY <1>3, <1>5, <1>7, <1>8, OpStatus
        DEF PresenceKnown, Hearing, PresenceSound, ResetComplete

\* The two checks of the code, on captured edges, are plain arithmetic.
LEMMA HeardIsPresence ==
  ASSUME DrvTypeOK, Hearing,
         NEW f \in Elements(wire.falls), DelayOk(overdrive, f),
         NEW r \in Elements(wire.rises), PulseOk(overdrive, f, r)
  PROVE  Presence(f, r)
<1>1. /\ overdrive \in Flag /\ f \in Nat /\ r \in Nat
      /\ f <= RESET_PROCEDURE_DURATION(overdrive)
      /\ r <= RESET_PROCEDURE_DURATION(overdrive)
  <2>1. f \in Word /\ r \in Word
    BY DEF Elements, DrvTypeOK, BusTypeOK, Trace
  <2> QED BY <2>1, WordIsInt DEF Hearing, DrvTypeOK
<1> QED BY <1>1, PresenceChecksExact DEF Presence

\* The capture handler, with an edge captured after the RESET pulse.
LEMMA PresenceEdgeKnown ==
  ASSUME DrvTypeOK, call = "reset", status = Op!PROGRESS, Hearing,
         PresenceEdge(tim), tim.cc2ie, tim.cc2if,
         UNCHANGED <<wire, call, overdrive>>
  PROVE  PresenceKnown'
<1>1. /\ tim \in Tim /\ overdrive \in Flag /\ tim.cc2p \in {Rising, Falling}
      /\ Rising # Falling
  BY DEF DrvTypeOK, BusTypeOK, Tim, Flag, Rising, Falling
<1>2. CASE status' = Op!ERROR
  BY <1>2, OpStatus DEF PresenceKnown, PresenceSound, ResetComplete
<1>3. CASE /\ tim.cc2p = Falling /\ DelayOk(overdrive, tim.ccr2)
           /\ tim' = SetCapturePolarity(ClearCapture(tim), Rising)
           /\ mark' = tim.ccr2 /\ UNCHANGED <<status, presence>>
  <2>1. tim.ccr2 \in Elements(wire.falls) \union {0}
    BY <1>3 DEF Hearing
  <2>2. ~DelayOk(overdrive, 0)
    <3>1. /\ 0 <= RESET_PROCEDURE_DURATION(overdrive)
          /\ RESET_DURATION(overdrive) \in Nat
          /\ PRESENCE_MIN_DELAY(overdrive) \in Nat \ {0}
          /\ PRESENCE_MAX_DELAY(overdrive) \in Nat
      BY <1>1, ResetValues
    <3> QED BY <1>1, <3>1, PresenceChecksExact
  <2>3. tim.ccr2 \in Elements(wire.falls)
    BY <1>3, <2>1, <2>2
  <2>4. /\ tim'.cen = tim.cen /\ tim'.arr = tim.arr
        /\ tim'.cc2p = Rising /\ ~tim'.cc2if
    BY <1>1, <1>3 DEF SetCapturePolarity, ClearCapture, Tim
  <2>5. Hearing'
    BY <1>1, <1>3, <2>3, <2>4 DEF Hearing
  <2> QED BY <1>3, <2>5, OpStatus
          DEF PresenceKnown, PresenceSound, ResetComplete
<1>4. CASE /\ tim.cc2p = Rising /\ PulseOk(overdrive, mark, tim.ccr2)
           /\ status' = Op!COMPLETE
  <2>1. /\ mark \in Elements(wire.falls) /\ DelayOk(overdrive, mark)
        /\ tim.ccr2 \in Elements(wire.rises)
    BY <1>4 DEF Hearing
  <2>2. Presence(mark, tim.ccr2)
    BY <1>4, <2>1, HeardIsPresence
  <2> QED BY <1>4, <2>1, <2>2, OpStatus
          DEF PresenceKnown, PresenceSound, Presence
<1>5. ClearCapture(tim).cc2p = tim.cc2p
  BY <1>1 DEF ClearCapture, Tim
<1> QED BY <1>1, <1>2, <1>3, <1>4, <1>5 DEF PresenceEdge, OperationComplete

\* It turns to the falling edge, and forgets what was captured before.
LEMMA EndResetPulseKnown ==
  ASSUME DrvTypeOK, call = "reset", status = Op!PROGRESS, Hearing,
         tim' \in {EndResetPulse(tim), ClearCapture(EndResetPulse(tim))},
         UNCHANGED <<wire, call, overdrive, status, presence, mark>>
  PROVE  PresenceKnown'
<1>1. tim \in Tim
  BY DEF DrvTypeOK, BusTypeOK
<1>2. /\ tim'.cen = tim.cen /\ tim'.arr = tim.arr
      /\ tim'.cc2p = Falling /\ ~tim'.cc2if
  BY <1>1 DEF EndResetPulse, SetCapturePolarity, SetPwmLevel, ClearPwm,
     EnableCaptureIrq, DisablePwmIrq, ClearCapture, Tim
<1>3. Hearing'
  BY <1>2 DEF Hearing, Rising, Falling
<1> QED BY <1>3, OpStatus DEF PresenceKnown, PresenceSound, ResetComplete

\* What both builds do alike.
LEMMA PresenceKnownCommon ==
  ASSUME DrvTypeOK, AtRest, PresenceKnown, CommonStep
  PROVE  PresenceKnown'
<1>1. ASSUME NEW od \in Speeds, Reset(od)
      PROVE  PresenceKnown'
  BY <1>1, PresenceKnownReset
<1>2. CASE HardwareStep \/ PullupStep
  BY <1>2, PresenceKnownHardware DEF HardwareStep, PullupStep, drvVars
<1>3. CASE SimulatePresence
  BY <1>3 DEF SimulatePresence, Op!SimulatePresence, Op!Ready, PresenceKnown,
     PresenceSound, ResetComplete, Presence
<1>4. CASE ConsumeEvent
  BY <1>4 DEF ConsumeEvent, Op!ConsumeEvent, PresenceKnown, Hearing,
     PresenceSound, ResetComplete, Presence
<1> QED BY <1>1, <1>2, <1>3, <1>4 DEF CommonStep

\* They hold at the start, where no operation was called.
LEMMA PresenceKnownInit == DrvInit => PresenceKnown
BY DEF DrvInit, BusInit, PresenceKnown, PresenceSound, ResetComplete

-----------------------------------------------------------------------------
\* No PRESENCE is missed.  How late a handler of a RESET may be, and the edges
\* so far.
Lateness == MaxLag[RESET_PROCEDURE_DURATION(overdrive)]
Fallen == Elements(wire.falls)
Risen == Elements(wire.rises)

\* The five stages of a RESET on a quiet bus: begun, the master's pulse, no
\* answer noticed yet, its end not noticed yet, the window over.  An interrupt
\* waits no longer than since what it is about.
Started ==
  /\ tim.uif /\ ~tim.cc1ie /\ ~tim.cc2ie /\ ~tim.cc1if
  /\ tim.pwm = RESET_DURATION(overdrive)
  /\ tim.ccr1 = RESET_DURATION(overdrive)
  /\ Fallen = {}
  /\ tim.cnt <= lag

Pulsing ==
  /\ ~tim.uif /\ tim.cc1ie /\ ~tim.cc2ie
  /\ tim.pwm = RESET_DURATION(overdrive)
  /\ tim.ccr1 = RESET_DURATION(overdrive)
  /\ IF tim.cnt < tim.pwm THEN ~tim.cc1if /\ Fallen = {}
     ELSE tim.cc1if /\ tim.cnt - tim.pwm <= lag

Turned ==
  tim.cc2ie /\ ~tim.cc1ie /\ ~tim.cc1if /\ tim.ccr1 = 0

Listening ==
  /\ Turned /\ ~tim.uif /\ tim.cc2p = Falling
  /\ tim.pwm = RESET_DURATION(overdrive) /\ tim.pwm <= tim.cnt
  /\ IF tim.cc2if THEN tim.ccr2 \in Fallen /\ tim.cnt - tim.ccr2 <= lag
     ELSE \A f \in Fallen : f - tim.pwm <= Lateness

Measuring ==
  /\ Turned /\ ~tim.uif /\ tim.cc2p = Rising
  /\ tim.pwm = RESET_DURATION(overdrive) /\ tim.pwm <= tim.cnt
  /\ mark \in Fallen
  /\ tim.cc2if => ~hold /\ tim.cnt - tim.ccr2 <= lag
  /\ \A r \in Risen : r - mark > Lateness => tim.cc2if /\ r = tim.ccr2

TimedOut ==
  /\ Turned /\ tim.uif /\ tim.pwm = 0
  /\ tim.cnt <= lag
  /\ \A f \in Fallen, r \in Risen :
       Presence(f, r) => r + Lateness > RESET_PROCEDURE_DURATION(overdrive)

Heeded ==
  /\ ~pullup /\ ~tim.bif /\ tim.uie /\ lag <= Lateness
  /\ tim.cen /\ presence = 0
  /\ tim.arr = RESET_PROCEDURE_DURATION(overdrive)
  /\ \A f, g \in Fallen : f = g
  /\ \A f \in Fallen : f > RESET_DURATION(overdrive)
  /\ tim.pwm # 0 => \A x \in Fallen \union Risen : x <= tim.cnt
  /\ Started \/ Pulsing \/ Listening \/ Measuring \/ TimedOut

\* That, until the RESET is over, and what the property says from then on.
Heeds ==
  /\ call = "reset" /\ status = Op!PROGRESS /\ NoConflict => Heeded
  /\ PresenceNotMissed

\* The constants of a RESET.
LEMMA HeedConstants ==
  ASSUME HearsInTime, overdrive \in Flag
  PROVE  /\ Lateness \in Nat
         /\ RESET_DURATION(overdrive) \in Nat \ {0}
         /\ RESET_PROCEDURE_DURATION(overdrive) \in Nat
         /\ PRESENCE_MIN_DELAY(overdrive) \in Nat
         /\ PRESENCE_MIN_DURATION(overdrive) \in Nat
         /\ Lateness < PRESENCE_MIN_DELAY(overdrive)
         /\ Lateness < PRESENCE_MIN_DURATION(overdrive)
         /\ Lateness < RESET_DURATION(overdrive)
         /\ RESET_DURATION(overdrive) + Lateness
              < RESET_PROCEDURE_DURATION(overdrive)
         /\ RESET_PROCEDURE_DURATION(overdrive) \in Word
<1>1. /\ PRESENCE_MIN_DELAY(overdrive) \in Nat
      /\ PRESENCE_MIN_DELAY(overdrive) <= PRESENCE_MIN_DURATION(overdrive)
      /\ PRESENCE_MIN_DELAY(overdrive) <= RESET_DURATION(overdrive)
      /\ RESET_DURATION(overdrive) + PRESENCE_MIN_DELAY(overdrive)
           < RESET_PROCEDURE_DURATION(overdrive)
      /\ RESET_DURATION(overdrive) > 0
  <2> USE DEF Flag, RESET_DURATION, RESET_PROCEDURE_DURATION,
          PRESENCE_MIN_DELAY, PRESENCE_MIN_DURATION, RESET, TSLOT_MIN,
          PRESENCE_START_MIN, PRESENCE_START_MAX, PRESENCE_MIN, PRESENCE_MAX
  <2>1. CASE Ticks = 2
    BY <2>1
  <2>2. CASE Ticks = 4
    BY <2>2
  <2> QED BY <2>1, <2>2, TicksAssumption
<1>2. RESET_PROCEDURE_DURATION(overdrive) \in Word
  BY ResetValues, WordIsInt
<1>3. /\ Lateness \in Nat
      /\ Lateness < PRESENCE_MIN_DELAY(overdrive)
  BY <1>2, BusAssumption DEF HearsInTime, Lateness
<1> QED BY <1>1, <1>2, <1>3, ResetValues

\* What a pair of edges must be to be a PRESENCE pulse.
LEMMA PresenceBounds ==
  ASSUME overdrive \in Flag, NEW f \in Int, NEW r \in Int, Presence(f, r)
  PROVE  /\ PRESENCE_MIN_DELAY(overdrive) <= f - RESET_DURATION(overdrive)
         /\ PRESENCE_MIN_DURATION(overdrive) <= r - f
<1>1. /\ PRESENCE_MIN_DELAY(overdrive) \in Int
      /\ PRESENCE_MAX_DELAY(overdrive) \in Int
      /\ PRESENCE_MIN_DURATION(overdrive) \in Int
      /\ PRESENCE_MAX_DURATION(overdrive) \in Int
      /\ RESET_DURATION(overdrive) \in Int
  BY ResetValues
<1> QED BY <1>1 DEF Presence

\* Edges are counter values.
LEMMA EdgesType ==
  ASSUME BusTypeOK
  PROVE  /\ \A x \in Fallen \union Risen : x \in Word /\ x \in Nat
         /\ wire.falls = <<>> => Fallen = {}
<1>1. wire.falls \in Seq(Word) /\ wire.rises \in Seq(Word)
  BY DEF BusTypeOK, Trace
<1>2. \A x \in Fallen \union Risen : x \in Word
  BY <1>1 DEF Fallen, Risen, Elements
<1>3. wire.falls = <<>> => Fallen = {}
  BY DEF Fallen, Elements
<1> QED BY <1>2, <1>3, WordIsInt

\* What a settling of the line does to what Heeded speaks of.
Turns(t, h, rise, fall) ==
  /\ tim'.cen = t.cen /\ tim'.uie = t.uie /\ tim'.uif = t.uif
  /\ tim'.bif = t.bif /\ tim'.cc1ie = t.cc1ie /\ tim'.cc2ie = t.cc2ie
  /\ tim'.cc1if = t.cc1if /\ tim'.cc2p = t.cc2p /\ tim'.arr = t.arr
  /\ tim'.cnt = t.cnt /\ tim'.pwm = t.pwm /\ tim'.ccr1 = t.ccr1
  /\ \/ /\ tim'.cc2if /\ tim'.ccr2 = t.cnt
        /\ \/ rise /\ t.cc2p = Rising
           \/ fall /\ t.cc2p = Falling
     \/ /\ tim'.cc2if = t.cc2if /\ tim'.ccr2 = t.ccr2
        /\ ~(rise /\ t.cc2p = Rising) /\ ~(fall /\ t.cc2p = Falling)
  /\ hold' = h
  /\ Fallen' = IF fall /\ t.cnt > 0 THEN Fallen \union {t.cnt} ELSE Fallen
  /\ Risen' = IF rise THEN Risen \union {t.cnt} ELSE Risen

LEMMA SettleTurns ==
  ASSUME BusTypeOK, NEW t \in Tim, t.cen, NEW d, NEW h,
         NEW w, w.rises = wire.rises, w.falls = wire.falls,
         Settle(t, d, h, w)
  PROVE  Turns(t, h, ~High(tim, hold) /\ High(t, h),
               High(tim, hold) /\ ~High(t, h))
<1> DEFINE rise == ~High(tim, hold) /\ High(t, h)
           fall == High(tim, hold) /\ ~High(t, h)
           captured == \/ rise /\ t.cc2p = Rising
                       \/ fall /\ t.cc2p = Falling
<1>1. /\ tim' = IF captured THEN [t EXCEPT !.cc2if = TRUE, !.ccr2 = t.cnt]
                ELSE t
      /\ hold' = h
      /\ wire'.rises = IF rise THEN Append(wire.rises, t.cnt) ELSE wire.rises
      /\ wire'.falls = IF fall /\ t.cnt > 0 THEN Append(wire.falls, t.cnt)
                       ELSE wire.falls
  BY DEF Settle
<1> HIDE DEF rise, fall
<1>2. /\ tim'.cen = t.cen /\ tim'.uie = t.uie /\ tim'.uif = t.uif
      /\ tim'.bif = t.bif /\ tim'.cc1ie = t.cc1ie /\ tim'.cc2ie = t.cc2ie
      /\ tim'.cc1if = t.cc1if /\ tim'.cc2p = t.cc2p /\ tim'.arr = t.arr
      /\ tim'.cnt = t.cnt /\ tim'.pwm = t.pwm /\ tim'.ccr1 = t.ccr1
  BY <1>1 DEF Tim
<1>3. \/ captured /\ tim'.cc2if /\ tim'.ccr2 = t.cnt
      \/ ~captured /\ tim'.cc2if = t.cc2if /\ tim'.ccr2 = t.ccr2
  BY <1>1 DEF Tim
<1>4. \A s \in Seq(Word) :
        Elements(Append(s, t.cnt)) = Elements(s) \union {t.cnt}
  <2>1. t.cnt \in Word
    BY DEF Tim
  <2> QED BY <2>1, AppendElements
<1>5. wire.rises \in Seq(Word) /\ wire.falls \in Seq(Word)
  BY DEF BusTypeOK, Trace
<1>6. /\ Fallen' = IF fall /\ t.cnt > 0 THEN Fallen \union {t.cnt}
                   ELSE Fallen
      /\ Risen' = IF rise THEN Risen \union {t.cnt} ELSE Risen
  BY <1>1, <1>4, <1>5 DEF Fallen, Risen
<1>7. Turns(t, h, rise, fall)
  BY <1>1, <1>2, <1>3, <1>6 DEF Turns
<1> QED BY <1>7 DEF rise, fall

\* The facts about the state that the lemmas of the steps use.
HeedFacts ==
  /\ tim \in Tim /\ dma \in Dma /\ wire \in Trace /\ hold \in BOOLEAN
  /\ overdrive \in Flag /\ lag \in Nat
  /\ tim.cnt \in Nat /\ tim.pwm \in Nat /\ tim.arr \in Nat /\ tim.ccr2 \in Nat
  /\ mark \in Nat /\ tim.cnt <= tim.arr
  /\ \A x \in Fallen \union Risen : x \in Nat
  /\ wire.falls = <<>> => Fallen = {}

LEMMA HeedFactsHold ==
  ASSUME DrvTypeOK, Heeded
  PROVE  HeedFacts
BY EdgesType, WordIsInt DEF DrvTypeOK, BusTypeOK, Heeded, HeedFacts, Tim

\* The pulse ends.
LEMMA HeedsCompare ==
  ASSUME DrvTypeOK, HearsInTime, Heeded, ~PwmRequestServed(dma), Compare,
         UNCHANGED <<presence, overdrive, mark>>
  PROVE  Heeded'
<1> DEFINE t == [tim EXCEPT !.cnt = tim.pwm, !.cc1if = TRUE]
<1>1. HeedFacts
  BY HeedFactsHold
<1>2. Pulsing /\ tim.cnt < tim.pwm
  <2>1. tim.cnt < tim.pwm
    BY DEF Compare
  <2>2. ~Listening /\ ~Measuring /\ ~TimedOut
    BY <1>1, <2>1 DEF Listening, Measuring, TimedOut, HeedFacts
  <2>3. ASSUME Started PROVE FALSE
    <3>1. IrqPending
      BY <2>3 DEF Started, Heeded, IrqPending, OverflowPending
    <3>2. lag + (tim.pwm - tim.cnt) <= Lateness
      BY <3>1 DEF Compare, Elapse, Heeded, Lateness
    <3>3. tim.pwm <= Lateness
      BY <1>1, <2>3, <3>2, HeedConstants DEF Started, HeedFacts
    <3> QED BY <1>1, <2>3, <3>3, HeedConstants DEF Started, HeedFacts
  <2> QED BY <2>1, <2>2, <2>3 DEF Heeded
<1>3. t \in Tim /\ t.cen
  BY <1>1 DEF HeedFacts, Heeded, Tim
<1>4. Settle(t, dma, hold, wire)
  BY DEF Compare
<1>5. /\ t.cen = tim.cen /\ t.uie = tim.uie /\ t.uif = tim.uif
      /\ t.bif = tim.bif /\ t.cc1ie = tim.cc1ie /\ t.cc2ie = tim.cc2ie
      /\ t.cc1if /\ t.arr = tim.arr /\ t.cnt = tim.pwm /\ t.pwm = tim.pwm
      /\ t.ccr1 = tim.ccr1
  BY <1>1 DEF HeedFacts, Tim
<1> HIDE DEF t
<1>6. ~(High(tim, hold) /\ ~High(t, hold))
  BY <1>1, <1>5 DEF High, Driving, HeedFacts
<1>7. Turns(t, hold, ~High(tim, hold) /\ High(t, hold), FALSE)
  BY <1>3, <1>4, <1>6, SettleTurns DEF DrvTypeOK
<1>8. lag' \in Nat /\ lag' <= Lateness' /\ Lateness' = Lateness
  BY <1>1, <1>2, HeedConstants
     DEF Compare, Elapse, HeedFacts, Heeded, Lateness
<1>9. /\ tim'.cnt = tim.pwm /\ tim'.pwm = tim.pwm /\ tim'.cc1if
      /\ ~tim'.uif /\ tim'.cc1ie /\ ~tim'.cc2ie /\ tim'.ccr1 = tim.ccr1
      /\ tim'.cen /\ tim'.uie /\ ~tim'.bif /\ tim'.arr = tim.arr
      /\ Fallen' = {} /\ Risen' \subseteq Risen \union {tim.pwm}
  BY <1>2, <1>5, <1>7 DEF Turns, Heeded, Pulsing
<1>10. Pulsing'
  BY <1>1, <1>2, <1>8, <1>9 DEF Pulsing, HeedFacts
<1>11. \A x \in Fallen' \union Risen' : x <= tim'.cnt
  BY <1>1, <1>2, <1>9 DEF Heeded, HeedFacts, Pulsing
<1> QED BY <1>8, <1>9, <1>10, <1>11 DEF Heeded, Compare

\* A device pulls the line or lets go of it: the instant, and the lag.
LEMMA HeedsMoment ==
  ASSUME DrvTypeOK, HearsInTime, Heeded, HeedFacts, NEW m \in Moments,
         Elapse(m - tim.cnt), UNCHANGED overdrive
  PROVE  /\ m \in Nat /\ m \in Word /\ tim.cnt <= m /\ m <= tim.arr
         /\ tim.cnt < tim.pwm => m < tim.pwm
         /\ lag' \in Nat /\ lag' <= Lateness /\ Lateness' = Lateness
         /\ IrqPending => lag' = lag + m - tim.cnt
<1>1. m \in Nat /\ m \in Word /\ tim.cnt <= m /\ m <= tim.arr
  BY MomentType, WordIsInt DEF DrvTypeOK, Heeded, HeedFacts
<1>2. tim.cnt < tim.pwm => m < tim.pwm
  BY DEF Moments, Heeded
<1>3. Lateness \in Nat /\ Lateness = MaxLag[tim.arr] /\ Lateness' = Lateness
  BY HeedConstants DEF Lateness, Heeded, HeedFacts
<1> QED BY <1>1, <1>2, <1>3 DEF Elapse, HeedFacts

LEMMA HeedsPull ==
  ASSUME DrvTypeOK, HearsInTime, ~NoisyBus, call = "reset", Heeded,
         NEW m \in Moments, DevicePull(m),
         UNCHANGED <<presence, overdrive, mark, pullup>>
  PROVE  Heeded'
<1> DEFINE t == [tim EXCEPT !.cnt = m]
<1>1. HeedFacts
  BY HeedFactsHold
<1>2. /\ m \in Nat /\ m \in Word /\ tim.cnt <= m /\ m <= tim.arr
      /\ lag' \in Nat /\ lag' <= Lateness /\ Lateness' = Lateness
      /\ IrqPending => lag' = lag + m - tim.cnt
  BY <1>1, HeedsMoment DEF DevicePull
<1>3. /\ ~hold /\ Fallen = {} /\ tim.cnt >= tim.pwm /\ tim.pwm > 0
      /\ m > tim.pwm
  BY <1>1 DEF DevicePull, HeedFacts
<1>4. Pulsing \/ Listening
  BY <1>1, <1>3, HeedConstants
     DEF Heeded, Started, Measuring, TimedOut, HeedFacts
<1>5. t \in Tim /\ t.cen
  BY <1>1, <1>2 DEF HeedFacts, Heeded, Tim
<1>6. Settle(t, dma, TRUE, wire)
  BY DEF DevicePull
<1>7. /\ t.cen = tim.cen /\ t.uie = tim.uie /\ t.uif = tim.uif
      /\ t.bif = tim.bif /\ t.cc1ie = tim.cc1ie /\ t.cc2ie = tim.cc2ie
      /\ t.cc1if = tim.cc1if /\ t.arr = tim.arr /\ t.cnt = m
      /\ t.pwm = tim.pwm /\ t.ccr1 = tim.ccr1 /\ t.cc2p = tim.cc2p
      /\ t.cc2if = tim.cc2if /\ t.ccr2 = tim.ccr2
  BY <1>1 DEF HeedFacts, Tim
<1> HIDE DEF t
<1>8. High(tim, hold) /\ ~High(t, TRUE)
  BY <1>1, <1>3 DEF High, Driving, HeedFacts
<1>9. Turns(t, TRUE, FALSE, TRUE)
  BY <1>5, <1>6, <1>8, SettleTurns DEF DrvTypeOK
<1>10. /\ tim'.cen /\ tim'.uie /\ ~tim'.uif /\ ~tim'.bif
       /\ tim'.cc1ie = tim.cc1ie /\ tim'.cc2ie = tim.cc2ie
       /\ tim'.cc1if = tim.cc1if /\ tim'.arr = tim.arr /\ tim'.cnt = m
       /\ tim'.pwm = tim.pwm /\ tim'.ccr1 = tim.ccr1
       /\ tim'.cc2p = tim.cc2p
       /\ Fallen' = {m} /\ Risen' = Risen
       /\ tim.cc2p = Falling => tim'.cc2if /\ tim'.ccr2 = m
  BY <1>1, <1>2, <1>3, <1>4, <1>7, <1>9
     DEF Turns, Heeded, Pulsing, Listening, HeedFacts
<1>11. ASSUME Pulsing PROVE Pulsing'
  <2>1. IrqPending
    BY <1>1, <1>3, <1>11 DEF Pulsing, HeedFacts, IrqPending, CapComPending
  <2>2. Pulsing'
    BY <1>1, <1>2, <1>3, <1>10, <1>11, <2>1 DEF Pulsing, HeedFacts
  <2> QED BY <2>2
<1>12. ASSUME Listening PROVE Listening'
  <2>1. Listening'
    BY <1>1, <1>2, <1>3, <1>10, <1>12 DEF Listening, Turned, HeedFacts
  <2> QED BY <2>1
<1>13. tim.pwm = RESET_DURATION(overdrive)
  BY <1>4 DEF Pulsing, Listening
<1> QED BY <1>1, <1>2, <1>3, <1>4, <1>10, <1>11, <1>12, <1>13
        DEF Heeded, HeedFacts

LEMMA HeedsRelease ==
  ASSUME DrvTypeOK, HearsInTime, Heeded, NEW m \in Moments, DeviceRelease(m),
         UNCHANGED <<presence, overdrive, mark, pullup>>
  PROVE  Heeded'
<1> DEFINE t == [tim EXCEPT !.cnt = m]
           rise == High(t, FALSE)
<1>1. HeedFacts
  BY HeedFactsHold
<1>2. /\ m \in Nat /\ m \in Word /\ tim.cnt <= m /\ m <= tim.arr
      /\ tim.cnt < tim.pwm => m < tim.pwm
      /\ lag' \in Nat /\ lag' <= Lateness /\ Lateness' = Lateness
      /\ IrqPending => lag' = lag + m - tim.cnt
  BY <1>1, HeedsMoment DEF DeviceRelease
<1>3. hold
  BY DEF DeviceRelease
<1>4. t \in Tim /\ t.cen
  BY <1>1, <1>2 DEF HeedFacts, Heeded, Tim
<1>5. Settle(t, dma, FALSE, wire)
  BY DEF DeviceRelease
<1>6. /\ t.cen = tim.cen /\ t.uie = tim.uie /\ t.uif = tim.uif
      /\ t.bif = tim.bif /\ t.cc1ie = tim.cc1ie /\ t.cc2ie = tim.cc2ie
      /\ t.cc1if = tim.cc1if /\ t.arr = tim.arr /\ t.cnt = m
      /\ t.pwm = tim.pwm /\ t.ccr1 = tim.ccr1 /\ t.cc2p = tim.cc2p
      /\ t.cc2if = tim.cc2if /\ t.ccr2 = tim.ccr2
  BY <1>1 DEF HeedFacts, Tim
<1> HIDE DEF t
<1>7. /\ ~High(tim, hold)
      /\ Turns(t, FALSE, ~High(tim, hold) /\ High(t, FALSE),
                         High(tim, hold) /\ ~High(t, FALSE))
  BY <1>3, <1>4, <1>5, SettleTurns DEF DrvTypeOK, High
<1>8. /\ tim'.cen /\ tim'.uie /\ tim'.uif = tim.uif /\ ~tim'.bif
      /\ tim'.cc1ie = tim.cc1ie /\ tim'.cc2ie = tim.cc2ie
      /\ tim'.cc1if = tim.cc1if /\ tim'.arr = tim.arr /\ tim'.cnt = m
      /\ tim'.pwm = tim.pwm /\ tim'.ccr1 = tim.ccr1 /\ tim'.cc2p = tim.cc2p
      /\ Fallen' = Fallen /\ ~hold'
      /\ Risen' = IF rise THEN Risen \union {m} ELSE Risen
      /\ IF rise /\ tim.cc2p = Rising THEN tim'.cc2if /\ tim'.ccr2 = m
         ELSE tim'.cc2if = tim.cc2if /\ tim'.ccr2 = tim.ccr2
  BY <1>6, <1>7 DEF Turns, Heeded
<1> HIDE DEF rise
<1>9. ASSUME Started PROVE Started'
  <2>1. IrqPending
    BY <1>9 DEF Started, Heeded, IrqPending, OverflowPending
  <2> QED BY <1>1, <1>2, <1>8, <1>9, <2>1 DEF Started, HeedFacts
<1>10. ASSUME Pulsing PROVE Pulsing'
  <2>1. CASE tim.cnt < tim.pwm
    BY <1>1, <1>2, <1>8, <1>10, <2>1 DEF Pulsing
  <2>2. CASE ~(tim.cnt < tim.pwm)
    <3>1. IrqPending
      BY <1>10, <2>2 DEF Pulsing, IrqPending, CapComPending
    <3> QED BY <1>1, <1>2, <1>8, <1>10, <2>2, <3>1 DEF Pulsing, HeedFacts
  <2> QED BY <2>1, <2>2
<1>11. ASSUME Listening PROVE Listening'
  <2>1. Turned' /\ ~tim'.uif /\ tim'.cc2p = Falling
    BY <1>8, <1>11 DEF Listening, Turned
  <2>2. /\ tim'.pwm = RESET_DURATION(overdrive) /\ tim'.pwm <= tim'.cnt
        /\ tim'.cc2if = tim.cc2if /\ tim'.ccr2 = tim.ccr2
    BY <1>1, <1>2, <1>8, <1>11 DEF Listening, HeedFacts, Rising, Falling
  <2>3. CASE tim.cc2if
    <3>1. IrqPending
      BY <1>11, <2>3 DEF Listening, Turned, IrqPending, CapComPending
    <3> QED BY <1>1, <1>2, <1>8, <1>11, <2>1, <2>2, <2>3, <3>1
            DEF Listening, HeedFacts
  <2>4. CASE ~tim.cc2if
    BY <1>2, <1>8, <1>11, <2>1, <2>2, <2>4 DEF Listening
  <2> QED BY <2>3, <2>4
<1>12. ASSUME Measuring PROVE Measuring'
  <2>1. ~tim.cc2if
    BY <1>3, <1>12 DEF Measuring
  <2>2. /\ Turned' /\ ~tim'.uif /\ tim'.cc2p = Rising
        /\ tim'.pwm = RESET_DURATION(overdrive) /\ tim'.pwm <= tim'.cnt
        /\ mark' \in Fallen'
    BY <1>1, <1>2, <1>8, <1>12 DEF Measuring, Turned, HeedFacts
  <2>3. tim'.cc2if => ~hold' /\ tim'.cnt - tim'.ccr2 <= lag'
    <3>1. CASE rise /\ tim.cc2p = Rising
      BY <1>2, <1>8, <3>1
    <3>2. CASE ~(rise /\ tim.cc2p = Rising)
      BY <1>8, <2>1, <3>2
    <3> QED BY <3>1, <3>2
  <2>4. \A r \in Risen' : r - mark > Lateness => tim'.cc2if /\ r = tim'.ccr2
    BY <1>8, <1>12, <2>1 DEF Measuring
  <2> QED BY <1>2, <2>2, <2>3, <2>4 DEF Measuring
<1>13. ASSUME TimedOut PROVE TimedOut'
  <2>1. IrqPending
    BY <1>13 DEF TimedOut, Heeded, IrqPending, OverflowPending
  <2>2. Turned' /\ tim'.uif /\ tim'.pwm = 0
    BY <1>8, <1>13 DEF TimedOut, Turned
  <2>3. tim'.cnt <= lag'
    BY <1>1, <1>2, <1>8, <1>13, <2>1 DEF TimedOut, HeedFacts
  <2>4. \A f \in Fallen, r \in Risen' : Presence(f, r) =>
          r + Lateness > RESET_PROCEDURE_DURATION(overdrive)
    <3>1. ASSUME NEW f \in Fallen, Presence(f, m)
          PROVE  FALSE
      <4>1. f \in Nat /\ f > RESET_DURATION(overdrive)
        BY <1>1 DEF HeedFacts, Heeded
      <4>2. PRESENCE_MIN_DURATION(overdrive) <= m - f
        BY <1>1, <1>2, <3>1, <4>1, PresenceBounds DEF HeedFacts
      <4>3. m <= Lateness
        BY <1>1, <1>2, <1>8, <2>3, HeedConstants DEF HeedFacts
      <4> QED BY <1>1, <1>2, <4>1, <4>2, <4>3, HeedConstants DEF HeedFacts
    <3> QED BY <1>8, <1>13, <3>1 DEF TimedOut
  <2>5. \A f, r : Presence(f, r)' <=> Presence(f, r)
    BY DEF Presence
  <2> QED BY <1>2, <1>8, <2>2, <2>3, <2>4, <2>5 DEF TimedOut, Presence
<1>14. tim'.pwm # 0 => \A x \in Fallen' \union Risen' : x <= tim'.cnt
  BY <1>1, <1>2, <1>8 DEF Heeded, HeedFacts
<1>15. Started' \/ Pulsing' \/ Listening' \/ Measuring' \/ TimedOut'
  BY <1>9, <1>10, <1>11, <1>12, <1>13 DEF Heeded
<1> QED BY <1>1, <1>2, <1>8, <1>14, <1>15 DEF Heeded, HeedFacts

\* The window is over, with no answer but one whose end was captured too late.
LEMMA HeedsOverflow ==
  ASSUME DrvTypeOK, HearsInTime, Heeded, Overflow,
         UNCHANGED <<presence, overdrive, mark, pullup>>
  PROVE  Heeded'
<1> DEFINE t == UpdateEvent(tim, pullup)
           w == [wire EXCEPT !.stuck = wire.stuck \/ hold]
           top == RESET_PROCEDURE_DURATION(overdrive)
<1>1. HeedFacts
  BY HeedFactsHold
<1>2. /\ IrqPending => lag + (tim.arr + 1 - tim.cnt) <= Lateness
      /\ lag' \in Nat /\ lag' <= Lateness /\ Lateness' = Lateness
  <2>1. Lateness \in Nat /\ Lateness = MaxLag[tim.arr] /\ Lateness' = Lateness
    BY <1>1, HeedConstants DEF Lateness, Heeded, HeedFacts
  <2>2. Elapse(tim.arr + 1 - tim.cnt)
    BY DEF Overflow
  <2> QED BY <1>1, <2>1, <2>2 DEF Elapse, HeedFacts
<1>3. tim.arr = top /\ tim.cnt <= top /\ (tim.cnt >= tim.pwm \/ tim.pwm > top)
  BY <1>1 DEF Heeded, HeedFacts, Overflow
<1>4. ~Started
  <2> SUFFICES ASSUME Started PROVE FALSE
    OBVIOUS
  <2>1. tim.cnt <= Lateness
    BY <1>1, HeedConstants DEF Started, HeedFacts, Heeded
  <2> QED BY <1>1, <1>3, <2>1, HeedConstants DEF Started, HeedFacts
<1>5. ~Pulsing
  <2> SUFFICES ASSUME Pulsing PROVE FALSE
    OBVIOUS
  <2>1. tim.cnt >= tim.pwm
    BY <1>1, <1>3, HeedConstants DEF Pulsing, HeedFacts
  <2>2. IrqPending
    BY <1>1, <2>1 DEF Pulsing, IrqPending, CapComPending, HeedFacts
  <2> QED BY <1>1, <1>2, <1>3, <2>1, <2>2, HeedConstants
          DEF Pulsing, HeedFacts
<1>6. ~TimedOut
  <2> SUFFICES ASSUME TimedOut PROVE FALSE
    OBVIOUS
  <2>1. IrqPending
    BY DEF TimedOut, Heeded, IrqPending, OverflowPending
  <2> QED BY <1>1, <1>2, <1>3, <2>1, HeedConstants DEF TimedOut, HeedFacts
<1>7. /\ Listening \/ Measuring
      /\ Turned /\ tim.pwm = RESET_DURATION(overdrive)
  BY <1>4, <1>5, <1>6 DEF Heeded, Listening, Measuring
<1>8. \A f \in Fallen, r \in Risen : Presence(f, r) => r + Lateness > top
  <2> SUFFICES ASSUME NEW f \in Fallen, NEW r \in Risen, Presence(f, r)
               PROVE  r + Lateness > top
    OBVIOUS
  <2>1. /\ f \in Nat /\ r \in Nat
        /\ PRESENCE_MIN_DELAY(overdrive) <= f - RESET_DURATION(overdrive)
        /\ PRESENCE_MIN_DURATION(overdrive) <= r - f
    <3>1. f \in Nat /\ r \in Nat
      BY <1>1 DEF HeedFacts
    <3> QED BY <1>1, <3>1, PresenceBounds DEF HeedFacts
  <2>2. CASE Listening
    <3>1. tim.cc2if
      BY <1>1, <2>1, <2>2, HeedConstants DEF Listening, HeedFacts
    <3>2. tim.ccr2 = f /\ tim.cnt - f <= lag
      BY <2>2, <3>1 DEF Listening, Heeded
    <3>3. IrqPending
      BY <2>2, <3>1 DEF Listening, Turned, IrqPending, CapComPending
    <3> QED BY SMTT(20), <1>1, <1>2, <1>3, <2>1, <3>2, <3>3, HeedConstants
            DEF HeedFacts
  <2>3. CASE Measuring
    <3>1. mark = f
      BY <2>3 DEF Measuring, Heeded
    <3>2. tim.cc2if /\ tim.ccr2 = r /\ tim.cnt - r <= lag
      BY <1>1, <2>1, <2>3, <3>1, HeedConstants DEF Measuring, HeedFacts
    <3>3. IrqPending
      BY <2>3, <3>2 DEF Measuring, Turned, IrqPending, CapComPending
    <3> QED BY SMTT(20), <1>1, <1>2, <1>3, <2>1, <3>2, <3>3, HeedConstants
            DEF HeedFacts
  <2> QED BY <1>7, <2>2, <2>3
<1>9. /\ t \in Tim /\ t.cen = tim.cen /\ t.uie = tim.uie /\ t.uif
      /\ t.bif = tim.bif /\ t.cc1ie = tim.cc1ie /\ t.cc2ie = tim.cc2ie
      /\ t.cc1if = tim.cc1if /\ t.arr = tim.arr /\ t.cnt = 0
      /\ t.pwm = tim.ccr1 /\ t.ccr1 = tim.ccr1
  <2>1. 0 \in Word
    BY WordIsInt
  <2> QED BY <1>1, <2>1 DEF HeedFacts, UpdateEvent, Tim
<1>10. w.rises = wire.rises /\ w.falls = wire.falls
  BY <1>1 DEF HeedFacts, Trace
<1>11. Settle(t, dma, hold, w)
  BY DEF Overflow
<1> HIDE DEF t, w
<1>12. Turns(t, hold, ~High(tim, hold) /\ High(t, hold),
                      High(tim, hold) /\ ~High(t, hold))
  BY <1>9, <1>10, <1>11, SettleTurns DEF DrvTypeOK, Heeded
<1>13. /\ tim'.cen /\ tim'.uie /\ tim'.uif /\ ~tim'.bif
       /\ tim'.cc1ie = tim.cc1ie /\ tim'.cc2ie = tim.cc2ie
       /\ tim'.cc1if = tim.cc1if /\ tim'.arr = tim.arr /\ tim'.cnt = 0
       /\ tim'.pwm = tim.ccr1 /\ tim'.ccr1 = tim.ccr1
       /\ Fallen' = Fallen /\ Risen' \subseteq Risen \union {0}
  BY <1>9, <1>12 DEF Turns, Heeded
<1>14. TimedOut'
  <2>1. Turned' /\ tim'.uif /\ tim'.pwm = 0 /\ tim'.cnt <= lag'
    BY <1>2, <1>7, <1>13 DEF Turned
  <2>2. \A f \in Fallen, r \in Risen' : Presence(f, r) => r + Lateness > top
    <3>1. ASSUME NEW f \in Fallen, Presence(f, 0)
          PROVE  FALSE
      <4>1. f \in Nat
        BY <1>1 DEF HeedFacts
      <4>2. PRESENCE_MIN_DURATION(overdrive) <= 0 - f
        BY <1>1, <3>1, <4>1, PresenceBounds DEF HeedFacts
      <4> QED BY <1>1, <4>1, <4>2, HeedConstants DEF HeedFacts
    <3> QED BY <1>8, <1>13, <3>1
  <2> QED BY <1>2, <1>13, <2>1, <2>2 DEF TimedOut, Presence
<1> QED BY <1>2, <1>3, <1>7, <1>13, <1>14 DEF Heeded, Turned

\* With the timer stopped the line is not recorded.
LEMMA StoppedKeeps ==
  ASSUME BusTypeOK, ~tim.cen, Hardware \/ Pullup
  PROVE  wire' = wire /\ tim'.pwm = tim.pwm
<1>1. tim \in Tim /\ wire \in Trace
  BY DEF BusTypeOK
<1>2. ASSUME NEW t \in Tim, ~t.cen, t.pwm = tim.pwm, NEW h,
             Settle(t, dma, h, wire)
      PROVE  wire' = wire /\ tim'.pwm = tim.pwm
  <2>1. wire' = [pulses |-> wire.pulses, rises |-> wire.rises,
                 falls |-> wire.falls, stuck |-> wire.stuck]
    BY <1>2 DEF Settle, Driving
  <2>2. tim'.pwm = tim.pwm
    BY <1>2 DEF Settle, Tim
  <2> QED BY <1>1, <2>1, <2>2 DEF Trace
<1>3. ASSUME NEW m \in Moments, DevicePull(m) \/ DeviceRelease(m)
      PROVE  wire' = wire /\ tim'.pwm = tim.pwm
  <2> DEFINE t == [tim EXCEPT !.cnt = m]
  <2>1. t \in Tim /\ ~t.cen /\ t.pwm = tim.pwm
    BY <1>1, MomentType DEF Tim
  <2>2. Settle(t, dma, TRUE, wire) \/ Settle(t, dma, FALSE, wire)
    BY <1>3 DEF DevicePull, DeviceRelease
  <2> HIDE DEF t
  <2> QED BY <1>2, <2>1, <2>2
<1>4. ASSUME NEW m \in Moments, ActivePullupOn(m)
      PROVE  wire' = wire /\ tim'.pwm = tim.pwm
  <2> DEFINE t == [tim EXCEPT !.cnt = m, !.bif = TRUE, !.moe = FALSE]
  <2>1. t \in Tim /\ ~t.cen /\ t.pwm = tim.pwm
    BY <1>1, MomentType DEF Tim
  <2>2. Settle(t, dma, hold, wire)
    BY <1>4 DEF ActivePullupOn
  <2> HIDE DEF t
  <2> QED BY <1>2, <2>1, <2>2
<1>5. CASE ActivePullupOff
  BY <1>5 DEF ActivePullupOff
<1> QED BY <1>3, <1>4, <1>5 DEF Hardware, Pullup, Compare, Overflow

\* The hardware as a whole, in a RESET and after it.
LEMMA HeedsHardware ==
  ASSUME DrvTypeOK, AtRest, HearsInTime, ~NoisyBus, Heeds, Hardware,
         call = "reset" => ~PwmRequestServed(dma),
         UNCHANGED <<status, presence, overdrive, mark, conflict>>
  PROVE  Heeds'
<1>1. UNCHANGED call
  BY HardwareKeeps DEF DrvTypeOK
<1>2. CASE call = "reset" /\ status = Op!PROGRESS /\ NoConflict
  <2>1. Heeded
    BY <1>2 DEF Heeds
  <2>2. CASE Compare
    BY <1>2, <2>1, <2>2, HeedsCompare
       DEF Heeds, PresenceNotMissed, Op!PROGRESS, Op!ERROR
  <2>3. CASE Overflow
    <3>1. UNCHANGED pullup
      BY <2>3 DEF Overflow
    <3> QED BY <1>2, <2>1, <2>3, <3>1, HeedsOverflow
            DEF Heeds, PresenceNotMissed, Op!PROGRESS, Op!ERROR
  <2>4. ASSUME NEW m \in Moments, DevicePull(m)
        PROVE  Heeds'
    <3>1. UNCHANGED pullup
      BY <2>4 DEF DevicePull
    <3> QED BY <1>2, <2>1, <2>4, <3>1, HeedsPull
            DEF Heeds, PresenceNotMissed, Op!PROGRESS, Op!ERROR
  <2>5. ASSUME NEW m \in Moments, DeviceRelease(m)
        PROVE  Heeds'
    <3>1. UNCHANGED pullup
      BY <2>5 DEF DeviceRelease
    <3> QED BY <1>2, <2>1, <2>5, <3>1, HeedsRelease
            DEF Heeds, PresenceNotMissed, Op!PROGRESS, Op!ERROR
  <2> QED BY <2>2, <2>3, <2>4, <2>5 DEF Hardware
<1>3. CASE call = "reset" /\ status # Op!PROGRESS /\ NoConflict
  <2>1. ~tim.cen
    BY <1>3 DEF AtRest, Op!Ready
  <2>2. wire' = wire /\ tim'.pwm = tim.pwm
    BY <2>1, StoppedKeeps DEF DrvTypeOK
  <2> QED BY <1>1, <1>3, <2>2
          DEF Heeds, PresenceNotMissed, NoConflict, Presence
<1>4. CASE call # "reset" \/ ~NoConflict
  BY <1>1, <1>4 DEF Heeds, PresenceNotMissed, NoConflict
<1> QED BY <1>2, <1>3, <1>4

\* A RESET begins.
LEMMA HeedsReset ==
  ASSUME DrvTypeOK, AtRest, HearsInTime, NEW od \in Speeds, Reset(od)
  PROVE  Heeds'
<1> DEFINE t1 == SetTop(Prepare(tim, pullup), RESET_PROCEDURE_DURATION(od))
           t2 == EnableOverflowIrq(SetPwmLevel(t1, RESET_DURATION(od)))
           t3 == FireOverflowEvent(TimerStart(t2), pullup)
<1>1. /\ tim \in Tim /\ od \in Flag /\ pullup \in BOOLEAN
      /\ ~tim.cc2ie /\ ~tim.cc1ie
  BY DrvAssumption DEF DrvTypeOK, BusTypeOK, AtRest, Reset
<1>2. /\ t3.cen /\ t3.arr = RESET_PROCEDURE_DURATION(od)
      /\ t3.cnt = 0 /\ t3.uif /\ t3.uie /\ ~t3.cc1ie /\ ~t3.cc2ie
      /\ ~t3.cc1if /\ t3.bif = pullup
      /\ t3.pwm = RESET_DURATION(od) /\ t3.ccr1 = RESET_DURATION(od)
  BY <1>1 DEF SetTop, Prepare, ClearPullupConflict, EnableOverflowIrq,
     SetPwmLevel, TimerStart, FireOverflowEvent, UpdateEvent, Tim
<1>3. /\ Settle(t3, dma, hold, NoTrace)
      /\ call' = "reset" /\ presence' = 0 /\ overdrive' = od
      /\ status' = Op!PROGRESS /\ lag' = 0 /\ pullup' = pullup
      /\ conflict' = IF pullup THEN "all" ELSE "never"
  BY DEF Reset, Begin
<1>4. t3 \in Tim
  <2>1. RESET_PROCEDURE_DURATION(od) \in Word /\ RESET_DURATION(od) \in Word
    BY <1>1, BitTypes
  <2>2. t1 \in Tim
    BY <1>1, <2>1, TimFlagOps, TimValueOps
  <2>3. SetPwmLevel(t1, RESET_DURATION(od)) \in Tim
    BY <1>1, <2>1, <2>2, TimValueOps
  <2>4. t2 \in Tim
    BY <1>1, <2>3, TimFlagOps
  <2> QED BY <1>1, <2>4, StartedType
<1> HIDE DEF t1, t2, t3
<1>5. /\ tim'.cen /\ tim'.arr = RESET_PROCEDURE_DURATION(od)
      /\ tim'.cnt = 0 /\ tim'.uif /\ tim'.uie
      /\ ~tim'.cc1ie /\ ~tim'.cc2ie /\ ~tim'.cc1if /\ tim'.bif = pullup
      /\ tim'.pwm = RESET_DURATION(od) /\ tim'.ccr1 = RESET_DURATION(od)
  BY <1>2, <1>3, <1>4 DEF Settle, Tim
<1>6. Fallen' = {} /\ \A x \in Risen' : x = 0
  <2>1. wire'.falls = <<>> /\ wire'.rises \in {<<>>, <<0>>}
    BY <1>2, <1>3 DEF Settle, NoTrace
  <2> QED BY <2>1 DEF Fallen, Risen, Elements
<1>7. ~pullup => Heeded'
  <2>1. Lateness' \in Nat
    <3>1. RESET_PROCEDURE_DURATION(od) \in Word
      BY <1>1, BitTypes
    <3> QED BY <1>3, <3>1, BusAssumption DEF Lateness
  <2> QED BY <1>3, <1>5, <1>6, <2>1 DEF Heeded, Started
<1> QED BY <1>3, <1>7
        DEF Heeds, NoConflict, PresenceNotMissed, Op!PROGRESS, Op!ERROR

\* An operation that is over, or is another one, has nothing to heed.
LEMMA HeedsApart ==
  ASSUME \/ call' # "reset" \/ conflict' # "never" \/ status' = Op!COMPLETE
  PROVE  Heeds'
BY OpStatus DEF Heeds, PresenceNotMissed, NoConflict

\* The rest of what both builds do alike.
LEMMA HeedsCommon ==
  ASSUME DrvTypeOK, AtRest, HearsInTime, ~NoisyBus, Heeds, CommonStep,
         call = "reset" => ~PwmRequestServed(dma)
  PROVE  Heeds'
<1>1. ASSUME NEW od \in Speeds, Reset(od)
      PROVE  Heeds'
  BY <1>1, HeedsReset
<1>2. CASE HardwareStep
  BY <1>2, HeedsHardware DEF HardwareStep, drvVars
<1>3. CASE PullupStep
  <2>1. conflict' # "never"
    BY <1>3 DEF PullupStep, Pullup, ActivePullupOff
  <2> QED BY <2>1, HeedsApart
<1>4. CASE SimulatePresence
  BY <1>4 DEF SimulatePresence, Op!SimulatePresence, Op!Ready, Heeds,
     PresenceNotMissed, NoConflict, Presence
<1>5. CASE ConsumeEvent
  <2>1. Heeded => Heeded'
    BY <1>5 DEF ConsumeEvent, Op!ConsumeEvent, Heeded, Started, Pulsing,
       Listening, Measuring, TimedOut, Turned, Fallen, Risen, Lateness,
       Presence
  <2>2. PresenceNotMissed => PresenceNotMissed'
    BY <1>5 DEF ConsumeEvent, Op!ConsumeEvent, PresenceNotMissed, NoConflict,
       Presence
  <2> QED BY <1>5, <2>1, <2>2
          DEF ConsumeEvent, Op!ConsumeEvent, Heeds, NoConflict
<1> QED BY <1>1, <1>2, <1>3, <1>4, <1>5 DEF CommonStep

-----------------------------------------------------------------------------
\* The handlers.  An overflow: the RESET has begun, or its window is over.
LEMMA HeedsResetOverflow ==
  ASSUME DrvTypeOK, HearsInTime, Heeded, call = "reset",
         status = Op!PROGRESS, OverflowPending,
         ResetOverflow(ClearOverflow(tim)), lag' = 0,
         UNCHANGED <<pullup, hold, call, wire, overdrive, conflict>>
  PROVE  Heeds'
<1>1. HeedFacts
  BY HeedFactsHold
<1>2. Started \/ TimedOut
  BY DEF OverflowPending, Heeded, Pulsing, Listening, Measuring
<1>3. CASE Started
  <2>1. /\ tim' = EnablePwmIrq(ClearOverflow(tim))
        /\ UNCHANGED <<dma, status, al, presence, mark>>
    BY <1>1, <1>3 DEF ResetOverflow, ClearOverflow, Tim, HeedFacts, Started
  <2>2. /\ tim'.cen /\ tim'.uie /\ ~tim'.uif /\ ~tim'.bif
        /\ tim'.cc1ie /\ ~tim'.cc2ie /\ ~tim'.cc1if
        /\ tim'.arr = tim.arr /\ tim'.cnt = tim.cnt
        /\ tim'.pwm = tim.pwm /\ tim'.ccr1 = tim.ccr1
    BY <1>1, <1>3, <2>1
       DEF EnablePwmIrq, ClearOverflow, Tim, HeedFacts, Started, Heeded
  <2>3. tim.cnt < tim.pwm
    BY <1>1, <1>3, HeedConstants DEF Started, HeedFacts, Heeded
  <2>4. /\ Fallen' = Fallen /\ Risen' = Risen /\ Lateness' = Lateness
        /\ Lateness \in Nat
    BY <1>1, HeedConstants DEF Fallen, Risen, Lateness, HeedFacts
  <2>5. Pulsing'
    BY <1>3, <2>2, <2>3, <2>4 DEF Pulsing, Started
  <2>6. \A x \in Fallen \union Risen : x <= tim.cnt
    BY <1>1, <1>3, HeedConstants DEF Heeded, Started, HeedFacts
  <2>7. Heeded'
    BY <2>1, <2>2, <2>4, <2>5, <2>6 DEF Heeded
  <2> QED BY <2>1, <2>7, OpStatus DEF Heeds, PresenceNotMissed
<1>4. CASE TimedOut
  <2>1. OperationComplete(ClearOverflow(tim), dma, Op!ERROR)
    BY <1>1, <1>4
       DEF ResetOverflow, ClearOverflow, Tim, HeedFacts, TimedOut, Turned
  <2>2. tim'.pwm = 0 /\ status' = Op!ERROR
    BY <1>1, <1>4, <2>1
       DEF OperationComplete, CompleteTim, TimerStop, Halt, DisableCaptureIrq,
       DisablePwmIrq, DisableOverflowIrq, ClearOverflow, Tim, HeedFacts,
       TimedOut
  <2>3. Lateness \in Nat /\ RESET_PROCEDURE_DURATION(overdrive) \in Nat
    BY <1>1, HeedConstants DEF HeedFacts
  <2>4. \A f \in Fallen, r \in Risen : Presence(f, r) =>
          ~(r + Lateness <= RESET_PROCEDURE_DURATION(overdrive))
    BY <1>1, <1>4, <2>3 DEF TimedOut, HeedFacts
  <2> QED BY <2>2, <2>4, OpStatus
          DEF Heeds, PresenceNotMissed, Presence, Fallen, Risen, Lateness
<1> QED BY <1>2, <1>3, <1>4

\* The master's pulse has ended: no answer can have begun.
LEMMA HeedsEndPulse ==
  ASSUME DrvTypeOK, HearsInTime, Heeded, call = "reset",
         status = Op!PROGRESS, ~OverflowPending, tim.cc1if, lag' = 0,
         tim' \in {EndResetPulse(tim), ClearCapture(EndResetPulse(tim))},
         UNCHANGED <<status, presence, mark>>,
         UNCHANGED <<pullup, hold, call, wire, overdrive, conflict>>
  PROVE  Heeds'
<1>1. HeedFacts
  BY HeedFactsHold
<1>2. Pulsing /\ tim.pwm <= tim.cnt /\ tim.cnt - tim.pwm <= lag
  BY <1>1 DEF OverflowPending, Heeded, Started, Pulsing, Listening, Measuring,
     TimedOut, Turned, HeedFacts
<1>3. /\ tim'.cen /\ tim'.uie /\ ~tim'.uif /\ ~tim'.bif
      /\ ~tim'.cc1ie /\ tim'.cc2ie /\ ~tim'.cc1if /\ ~tim'.cc2if
      /\ tim'.arr = tim.arr /\ tim'.cnt = tim.cnt /\ tim'.pwm = tim.pwm
      /\ tim'.ccr1 = 0 /\ tim'.cc2p = Falling
  BY ZenonT(40), <1>1, <1>2
     DEF EndResetPulse, SetCapturePolarity, SetPwmLevel, ClearPwm,
     EnableCaptureIrq, DisablePwmIrq, ClearCapture, Tim, HeedFacts, Pulsing,
     Heeded
<1>4. /\ Fallen' = Fallen /\ Risen' = Risen /\ Lateness' = Lateness
      /\ Lateness \in Nat
  BY <1>1, HeedConstants DEF Fallen, Risen, Lateness, HeedFacts
<1>5. \A f \in Fallen : f - tim.pwm <= Lateness
  <2>1. tim.pwm # 0
    BY <1>1, <1>2, HeedConstants DEF Pulsing, HeedFacts
  <2>2. \A f \in Fallen : f \in Nat /\ f <= tim.cnt
    BY <1>1, <2>1 DEF Heeded, HeedFacts
  <2> QED BY <1>1, <1>2, <1>4, <2>2 DEF Heeded, HeedFacts
<1>6. Listening'
  BY <1>2, <1>3, <1>4, <1>5 DEF Listening, Turned, Pulsing
<1>7. Heeded'
  BY <1>3, <1>4, <1>6 DEF Heeded
<1> QED BY <1>7, OpStatus DEF Heeds, PresenceNotMissed

\* The beginning of an answer is noticed, in time for its end; or there was
\* none in time.
LEMMA HeedsFall ==
  ASSUME DrvTypeOK, HearsInTime, Heeded, call = "reset",
         status = Op!PROGRESS, Listening, tim.cc2if, PresenceEdge(tim),
         lag' = 0,
         UNCHANGED <<pullup, hold, call, wire, overdrive, conflict>>
  PROVE  Heeds'
<1>1. HeedFacts
  BY HeedFactsHold
<1>2. /\ Fallen' = Fallen /\ Risen' = Risen /\ Lateness' = Lateness
      /\ Lateness \in Nat
  BY <1>1, HeedConstants DEF Fallen, Risen, Lateness, HeedFacts
<1>3. /\ tim.ccr2 \in Fallen /\ tim.cnt - tim.ccr2 <= Lateness
      /\ tim.cc2p = Falling
  BY <1>1, <1>2 DEF Listening, Heeded, HeedFacts
<1>4. ClearCapture(tim).cc2p = Falling
  BY <1>1, <1>3 DEF ClearCapture, Tim, HeedFacts
<1>5. CASE DelayOk(overdrive, tim.ccr2)
  <2>1. /\ tim' = SetCapturePolarity(ClearCapture(tim), Rising)
        /\ mark' = tim.ccr2
        /\ UNCHANGED <<status, presence>>
    BY <1>4, <1>5 DEF PresenceEdge, Rising, Falling
  <2>2. /\ tim'.cen /\ tim'.uie /\ ~tim'.uif /\ ~tim'.bif
        /\ ~tim'.cc1ie /\ tim'.cc2ie /\ ~tim'.cc1if /\ ~tim'.cc2if
        /\ tim'.arr = tim.arr /\ tim'.cnt = tim.cnt /\ tim'.pwm = tim.pwm
        /\ tim'.ccr1 = 0 /\ tim'.cc2p = Rising
    BY <1>1, <2>1 DEF SetCapturePolarity, ClearCapture, Tim, HeedFacts,
       Heeded, Listening, Turned
  <2>3. \A r \in Risen : ~(r - tim.ccr2 > Lateness)
    <3>1. tim.pwm # 0
      BY <1>1, HeedConstants DEF Listening, HeedFacts
    <3>2. \A r \in Risen : r \in Nat /\ r <= tim.cnt
      BY <1>1, <3>1 DEF Heeded, HeedFacts
    <3> QED BY <1>1, <1>2, <1>3, <3>2 DEF HeedFacts
  <2>4. Measuring'
    BY <1>2, <1>3, <2>1, <2>2, <2>3 DEF Measuring, Turned, Listening
  <2>5. Heeded'
    BY <1>2, <2>1, <2>2, <2>4 DEF Heeded
  <2> QED BY <2>1, <2>5, OpStatus DEF Heeds, PresenceNotMissed
<1>6. CASE ~DelayOk(overdrive, tim.ccr2)
  <2>1. status' = Op!ERROR
    BY <1>4, <1>6 DEF PresenceEdge, OperationComplete, Rising, Falling
  <2>2. \A f \in Fallen, r \in Risen : ~Presence(f, r)
    <3> SUFFICES ASSUME NEW f \in Fallen, NEW r \in Risen, Presence(f, r)
                 PROVE  FALSE
      OBVIOUS
    <3>1. /\ f = tim.ccr2 /\ f \in Nat
          /\ f <= RESET_PROCEDURE_DURATION(overdrive)
      <4>1. f = tim.ccr2 /\ tim.pwm # 0
        BY <1>1, <1>3, HeedConstants DEF Heeded, Listening, HeedFacts
      <4> QED BY <1>1, <4>1 DEF Heeded, HeedFacts
    <3>2. 0 <= RESET_PROCEDURE_DURATION(overdrive)
      BY <1>1, HeedConstants DEF HeedFacts
    <3> QED BY <1>1, <1>6, <3>1, <3>2, PresenceChecksExact
            DEF Presence, HeedFacts
  <2>3. wire.falls # <<>>
    BY <1>1, <1>3 DEF HeedFacts
  <2> QED BY <2>1, <2>2, <2>3, OpStatus
          DEF Heeds, PresenceNotMissed, Presence, Fallen, Risen
<1> QED BY <1>5, <1>6

\* Its end decides.
LEMMA HeedsRise ==
  ASSUME DrvTypeOK, HearsInTime, Heeded, call = "reset",
         status = Op!PROGRESS, Measuring, tim.cc2if, PresenceEdge(tim),
         UNCHANGED <<pullup, hold, call, wire, overdrive, conflict>>
  PROVE  Heeds'
<1>1. HeedFacts
  BY HeedFactsHold
<1>2. ClearCapture(tim).cc2p = Rising
  BY <1>1 DEF ClearCapture, Tim, HeedFacts, Measuring
<1>3. CASE PulseOk(overdrive, mark, tim.ccr2)
  <2>1. status' = Op!COMPLETE
    BY <1>2, <1>3 DEF PresenceEdge, OperationComplete, Rising, Falling
  <2> QED BY <2>1, HeedsApart
<1>4. CASE ~PulseOk(overdrive, mark, tim.ccr2)
  <2>1. status' = Op!ERROR
    BY <1>2, <1>4 DEF PresenceEdge, OperationComplete, Rising, Falling
  <2>2. \A f \in Fallen, r \in Risen : ~Presence(f, r)
    <3> SUFFICES ASSUME NEW f \in Fallen, NEW r \in Risen, Presence(f, r)
                 PROVE  FALSE
      OBVIOUS
    <3>1. f = mark /\ tim.pwm # 0
      BY <1>1, HeedConstants DEF Heeded, Measuring, HeedFacts
    <3>2. /\ f \in Nat /\ f <= RESET_PROCEDURE_DURATION(overdrive)
          /\ r \in Nat /\ r <= RESET_PROCEDURE_DURATION(overdrive)
      <4>1. f \in Nat /\ r \in Nat
        BY <1>1 DEF HeedFacts
      <4>2. f <= tim.cnt /\ r <= tim.cnt
        BY <3>1 DEF Heeded
      <4>3. tim.cnt \in Nat /\ tim.cnt <= RESET_PROCEDURE_DURATION(overdrive)
        BY <1>1 DEF Heeded, HeedFacts
      <4>4. RESET_PROCEDURE_DURATION(overdrive) \in Nat
        BY <1>1, HeedConstants DEF HeedFacts
      <4> QED BY <4>1, <4>2, <4>3, <4>4
    <3>3. PRESENCE_MIN_DURATION(overdrive) <= r - f
      BY <1>1, <3>2, PresenceBounds DEF HeedFacts
    <3>4. r = tim.ccr2
      BY <1>1, <3>1, <3>2, <3>3, HeedConstants DEF Measuring, HeedFacts
    <3> QED BY <1>1, <1>4, <3>1, <3>2, <3>4, PresenceChecksExact
            DEF Presence, HeedFacts
  <2>3. wire.falls # <<>>
    BY <1>1 DEF HeedFacts, Measuring
  <2> QED BY <2>1, <2>2, <2>3, OpStatus
          DEF Heeds, PresenceNotMissed, Presence, Fallen, Risen
<1> QED BY <1>3, <1>4

\* An edge captured after the pulse is one of the two.
LEMMA HeedsEdge ==
  ASSUME DrvTypeOK, HearsInTime, Heeded, call = "reset",
         status = Op!PROGRESS, ~OverflowPending, CapComPending, ~tim.cc1if,
         PresenceEdge(tim), lag' = 0,
         UNCHANGED <<pullup, hold, call, wire, overdrive, conflict>>
  PROVE  Heeds'
<1>1. tim.cc2ie /\ tim.cc2if
  BY DEF CapComPending
<1>2. Listening \/ Measuring
  BY <1>1 DEF OverflowPending, Heeded, Started, Pulsing, TimedOut
<1> QED BY <1>1, <1>2, HeedsFall, HeedsRise

\* They hold at the start, where no operation was called.
LEMMA HeedsInit == DrvInit => Heeds
BY DEF DrvInit, BusInit, Heeds, PresenceNotMissed
=============================================================================
