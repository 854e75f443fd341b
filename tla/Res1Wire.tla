------------------------------ MODULE Res1Wire ------------------------------
(***************************************************************************)
(* The resource layer of the driver (res_1wire.h, res_dma.h): the inline   *)
(* functions that write the registers of TIM3 and of DMA1.                 *)
(*                                                                         *)
(* The registers the driver uses are two records, Tim and Dma; an inline   *)
(* function is an operator from a record to a record, so that a handler    *)
(* that calls several of them composes them in the order of the calls.     *)
(***************************************************************************)
EXTENDS OneWireTiming

\* ONEWIRE_CAPTURE_POLARITY = 0: the capture input sees rising edges.
Rising  == 0
Falling == 1

\* Bytes moved by one DMA request, __DRV_ONEWIRE_DMA, and what fits in them.
DmaSize     == Ticks \div 2
DmaModulus  == IF DmaSize = 1 THEN 256 ELSE 65536

Tim == [uie   : BOOLEAN,  \* TIM3_IER_UIE, overflow interrupt enabled
        cc1ie : BOOLEAN,  \* TIM3_IER_CC1IE, PWM compare interrupt enabled
        cc2ie : BOOLEAN,  \* TIM3_IER_CC2IE, capture interrupt enabled
        uif   : BOOLEAN,  \* TIM3_SR1_UIF, update (overflow or UG) happened
        cc1if : BOOLEAN,  \* TIM3_SR1_CC1IF, counter reached the PWM level
        cc2if : BOOLEAN,  \* TIM3_SR1_CC2IF, an edge was captured
        bif   : BOOLEAN,  \* TIM3_SR1_BIF, active pull-up broke the output
        cen   : BOOLEAN,  \* TIM3_CR1_CEN, counter runs
        aoe   : BOOLEAN,  \* TIM3_BKR_AOE, output enabled by the next update
        moe   : BOOLEAN,  \* TIM3_BKR_MOE, output enabled
        cc2p  : Flag,     \* TIM3_CCER1_CC2P, capture polarity
        arr   : Word,     \* TIM3_ARR, top of the counter
        ccr1  : Word,     \* TIM3_CCR1, preload register of the PWM level
        pwm   : Word,     \* the PWM level in use, loaded by an update
        ccr2  : Word,     \* TIM3_CCR2, last captured counter value
        cnt   : Word]     \* TIM3_CNTR

Dma == [clk   : BOOLEAN,  \* CLK_PCKENR2_PCKEN24, DMA powered
        gen   : BOOLEAN,  \* DMA1_GCSR_GEN
        cc1de : BOOLEAN,  \* TIM3_DER_CC1DE, compare requests DMA
        cc2de : BOOLEAN,  \* TIM3_DER_CC2DE, capture requests DMA
        en1   : BOOLEAN,  \* channel 1 (PWM): enabled with its interrupt
        tc1   : BOOLEAN,  \* DMA1_C1SPR_TCIF
        n1    : 0 .. 8,   \* DMA1_C1NDTR
        en2   : BOOLEAN,  \* channel 2 (capture): enabled with its interrupt
        tc2   : BOOLEAN,  \* DMA1_C2SPR_TCIF
        n2    : 0 .. 8]   \* DMA1_C2NDTR

-----------------------------------------------------------------------------
\* Interrupt enables and flags.
EnablePwmIrq(t)      == [t EXCEPT !.cc1ie = TRUE]
DisablePwmIrq(t)     == [t EXCEPT !.cc1ie = FALSE]
EnableCaptureIrq(t)  == [t EXCEPT !.cc2ie = TRUE]
DisableCaptureIrq(t) == [t EXCEPT !.cc2ie = FALSE]
\* (a mutant: without clearing the flag first)
EnableOverflowIrq_KeepFlag(t) == [t EXCEPT !.uie = TRUE]
EnableOverflowIrq(t) == [t EXCEPT !.uif = FALSE, !.uie = TRUE]
DisableOverflowIrq(t) == [t EXCEPT !.uie = FALSE]

\* The test-and-clear functions are a guard on the flag and one of these.
\* While the pull-up is on its flag cannot be cleared.
ClearOverflow(t)         == [t EXCEPT !.uif = FALSE]
ClearPwm(t)              == [t EXCEPT !.cc1if = FALSE]
ClearCapture(t)          == [t EXCEPT !.cc2if = FALSE]
ClearPullupConflict(t, pull) == [t EXCEPT !.bif = pull]

\* Timer control.
Prepare(t, pull) ==
    [ClearPullupConflict(t, pull) EXCEPT !.aoe = TRUE, !.moe = FALSE]
Halt(t)       == [t EXCEPT !.aoe = FALSE, !.moe = FALSE]
TimerStart(t) == [t EXCEPT !.cc1if = FALSE, !.cc2if = FALSE, !.cen = TRUE]
TimerStop(t)  == [t EXCEPT !.cen = FALSE]
SetTop(t, value)      == [t EXCEPT !.arr = value]
SetPwmLevel(t, value) == [t EXCEPT !.ccr1 = value]
SetCapturePolarity(t, polarity) ==
    ClearCapture([t EXCEPT !.cc2p = polarity])

\* An update event, by overflow or by TIM3_EGR_UG: the PWM level is loaded
\* and the output enabled, unless the pull-up holds the break input.
UpdateEvent(t, pull) ==
    [t EXCEPT !.cnt = 0, !.uif = TRUE, !.pwm = t.ccr1,
              !.moe = t.moe \/ (t.aoe /\ ~pull)]
FireOverflowEvent_Not(t, pull) == t   \* (a mutant: it is not fired)
FireOverflowEvent(t, pull) == UpdateEvent(t, pull)

-----------------------------------------------------------------------------
\* DMA.  resDmaAttach succeeds only when DMA is not powered yet.
DmaBusy(d)   == d.clk
DmaAttach(d) == [d EXCEPT !.clk = TRUE, !.gen = FALSE,
                          !.en1 = FALSE, !.en2 = FALSE]
DmaOn(d)     == [d EXCEPT !.gen = TRUE]
DmaOff(d)    == [d EXCEPT !.gen = FALSE, !.cc1de = FALSE, !.cc2de = FALSE]
DmaDetach(d) == [DmaOff(d) EXCEPT !.clk = FALSE]
PreparePwmDma(d, count) ==
    [d EXCEPT !.en1 = TRUE, !.tc1 = FALSE, !.n1 = count, !.cc1de = TRUE]
\* (a mutant: the count is off by one)
PrepareCaptureDma_OneLess(d, count) ==
    [d EXCEPT !.en2 = TRUE, !.tc2 = FALSE, !.n2 = count - 1, !.cc2de = TRUE]
PrepareCaptureDma(d, count) ==
    [d EXCEPT !.en2 = TRUE, !.tc2 = FALSE, !.n2 = count, !.cc2de = TRUE]

\* A channel serves a request while it has transfers left; the last one
\* raises its transfer-complete flag.  Memory is walked downwards, so the
\* next element is the one the remaining count points at.
PwmRequestServed(d)     == d.clk /\ d.gen /\ d.cc1de /\ d.en1 /\ d.n1 > 0
CaptureRequestServed(d) == d.clk /\ d.gen /\ d.cc2de /\ d.en2 /\ d.n2 > 0
PwmTransfer(d)     == [d EXCEPT !.n1 = d.n1 - 1, !.tc1 = d.tc1 \/ d.n1 = 1]
CaptureTransfer(d) == [d EXCEPT !.n2 = d.n2 - 1, !.tc2 = d.tc2 \/ d.n2 = 1]

\* PWM DMA writes the low byte of CCR1, or all of it in the 16-bit build.
LoadPwm(t, value) ==
    [t EXCEPT !.ccr1 = (t.ccr1 \div DmaModulus) * DmaModulus + value]
=============================================================================
