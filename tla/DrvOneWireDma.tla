---------------------------- MODULE DrvOneWireDma ----------------------------
(***************************************************************************)
(* The driver drv_1wire.c as testPWM.ewp builds it: bits are moved by DMA  *)
(* (__DRV_ONEWIRE_DMA), with the active pull-up as an option.              *)
(*                                                                         *)
(* The main program starts operations; four interrupt handlers carry them  *)
(* on.                                                                     *)
(***************************************************************************)
EXTENDS DrvOneWire

CONSTANTS
  SharedDma   \* does another driver of the program use DMA as well?

ASSUME DmaAssumption ==
  /\ WithDma
  /\ SharedDma \in BOOLEAN

VARIABLES
  other       \* has the other driver attached DMA?

vars == <<busVars, drvVars, other>>

TypeOK == DrvTypeOK /\ other \in BOOLEAN

Init == DrvInit /\ other = FALSE

-----------------------------------------------------------------------------
\* A mutant: the bits in the opposite order.
FillDurations_HighFirst(r) ==
  [i \in Index |-> IF i < r.n - 1
                   THEN BIT_DURATION(overdrive, r.bits[i + 1]) % DmaModulus
                   ELSE durations[i]]

\* The k-th of the bits to send is read from durations[n - 2 - (k - 1)].
FillDurations(r) ==
  [i \in Index |-> IF i < r.n - 1
                   THEN BIT_DURATION(overdrive, r.bits[r.n - 1 - i]) % DmaModulus
                   ELSE durations[i]]

\* drvOneWireTxBits.
TxBits(r) ==
  /\ Op!Ready /\ presence = 1
  /\ ~DmaBusy(dma)
  /\ MayBegin
  /\ Begin("io")
  /\ LET t1 == SetPwmLevel(TxPrepared, BIT_DURATION(overdrive, r.bits[0]))
         d1 == PrepareCaptureDma(DmaAttach(dma), r.n)
         t2 == IF r.n > 1 THEN t1 ELSE EnableOverflowIrq(t1)
         d2 == IF r.n > 1 THEN PreparePwmDma(d1, r.n - 1) ELSE d1
     IN  /\ TxStarted(r, FireOverflowEvent(TimerStart(t2), pullup))
         /\ dma' = DmaOn(d2)
  /\ durations' = FillDurations(r)

\* "DMA resource BUSY, can't continue operation".
TxBitsRefused(r) ==
  /\ Op!Ready /\ presence = 1
  /\ DmaBusy(dma)
  /\ Begin("io")
  /\ OperationComplete(TxPrepared, dma, Op!ERROR)
  /\ request' = r
  /\ wire' = NoTrace
  /\ UNCHANGED <<durations, pullup, hold, presence, overdrive, mark>>

\* drvOneWireRxBits(n) walks the durations downwards from the n-th: the first
\* bit received is the last element.  It fails when any does not decode.
RxOk(n) == \A i \in 0 .. n - 1 : DecodeBit(overdrive, durations[i]) # ErrorBit
RxBit(n, k) == DecodeBit(overdrive, durations[n - 1 - k])

-----------------------------------------------------------------------------
\* (a mutant: the last bit is not watched)
IsrPwmDma_NoWatch ==
  /\ PwmDmaPending
  /\ dma' = [dma EXCEPT !.tc1 = FALSE]
  /\ UNCHANGED <<tim, status, presence, mark, al>>

\* isrOneWirePwmDma: the last level has been fetched, watch the last bit.
IsrPwmDma ==
  /\ PwmDmaPending
  /\ dma' = [dma EXCEPT !.tc1 = FALSE]
  /\ tim' = EnableOverflowIrq(tim)
  /\ UNCHANGED <<status, presence, mark, al>>

\* isrOneWireCaptureDma: all bits have been captured.
IsrCaptureDma ==
  /\ CaptureDmaPending
  /\ OperationComplete(tim, [dma EXCEPT !.tc2 = FALSE], Op!COMPLETE)
  /\ UNCHANGED <<presence, mark>>

\* isrOneWireTimerOverflow: the watch over the last bit while bits are
\* exchanged, the start or the timeout of a RESET otherwise.
BitsOverflow(t) ==
  /\ presence = 1
  /\ \/ /\ t.ccr1 # 0
        /\ tim' = SetPwmLevel(t, 0)
        /\ UNCHANGED <<dma, status, al>>
     \/ /\ t.ccr1 = 0
        /\ OperationComplete(t, dma, Op!ERROR)
  /\ UNCHANGED <<presence, mark>>

IsrOverflow ==
  /\ OverflowPending
  /\ ~PullupConflict
  /\ BitsOverflow(ClearOverflow(tim)) \/ ResetOverflow(ClearOverflow(tim))

\* isrOneWirePwmCapture.  Both flags are tested whether or not their
\* interrupts are enabled; for bits there is nothing to do but clear them.
AfterPwm(t) ==
  IF ~t.cc1if THEN t
  ELSE IF presence = 1 THEN ClearPwm(t)
  ELSE EndResetPulse(t)

IsrPwmCapture ==
  /\ CapComPending
  /\ LET t == AfterPwm(tim)
     IN  \/ /\ ~t.cc2if \/ presence = 1
            /\ tim' = ClearCapture(t)
            /\ UNCHANGED <<dma, status, presence, mark, al>>
         \/ /\ t.cc2if /\ presence = 0
            /\ PresenceEdge(t)

\* The interrupt controller: when several are pending the lowest vector goes
\* first (DMA channel 1, DMA channel 2, TIM3 update, TIM3 capture).
Dispatch ==
  /\ \/ IsrPwmDma
     \/ ~PwmDmaPending /\ IsrCaptureDma
     \/ /\ ~PwmDmaPending /\ ~CaptureDmaPending
        /\ IsrPullupConflict \/ IsrOverflow
     \/ /\ ~PwmDmaPending /\ ~CaptureDmaPending /\ ~OverflowPending
        /\ IsrPwmCapture
  /\ lag' = 0
  /\ UNCHANGED <<durations, pullup, hold, call, wire>>
  /\ UNCHANGED <<overdrive, request, conflict>>

-----------------------------------------------------------------------------
\* Another driver takes and returns DMA with resDmaAttach and resDmaDetach.
OtherAttach ==
  /\ SharedDma /\ ~other
  /\ ~DmaBusy(dma)
  /\ dma' = DmaAttach(dma)
  /\ other' = TRUE
  /\ UNCHANGED <<tim, durations, pullup, hold, lag, call, wire, drvVars>>

OtherDetach ==
  /\ other
  /\ dma' = [dma EXCEPT !.clk = FALSE]
  /\ other' = FALSE
  /\ UNCHANGED <<tim, durations, pullup, hold, lag, call, wire, drvVars>>

DriverStep ==
  \/ CommonStep
  \/ \E r \in Requests : TxBits(r) \/ TxBitsRefused(r)
  \/ Dispatch

Next ==
  \/ DriverStep /\ UNCHANGED other
  \/ OtherAttach
  \/ OtherDetach

Spec == Init /\ [][Next]_vars

\* The timer counts and the CPU serves its interrupts.  Nothing is assumed of
\* the devices: they may hold the line for ever.
FairSpec ==
  /\ Spec
  /\ WF_vars(Compare /\ UNCHANGED <<drvVars, other>>)
  /\ WF_vars(Overflow /\ UNCHANGED <<drvVars, other>>)
  /\ WF_vars(Dispatch /\ UNCHANGED other)

-----------------------------------------------------------------------------
\* The handlers are in time: the interrupt of the last transfer is served in
\* the slot whose pulse caused it, and so is every other.
InTime ==
  \A od, b \in Flag :
    LET top == IO_BIT_PROCEDURE_DURATION(od)
    IN  BIT_DURATION(od, b) + MaxLag[top] <= top

\* Between operations the timer is at rest and none of the driver's DMA
\* requests is armed: DMA is powered only if another driver attached it.
Quiescent ==
  /\ AtRest
  /\ Op!Ready =>
       /\ ~dma.cc1de /\ ~dma.cc2de
       /\ dma.clk => other /\ ~dma.en1 /\ ~dma.en2

\* What drvOneWireRxBits returns after a complete operation is what was on
\* the bus: bit k is decoded from the k-th rising edge, on however noisy a
\* bus, although the buffer it is read from first held the pulses to send.
RxDataOk ==
  IoComplete =>
    /\ Len(wire.rises) >= request.n
    /\ \A k \in 0 .. request.n - 1 :
         RxBit(request.n, k) = DecodeBit(overdrive, wire.rises[k + 1])

\* Why it holds: of request.n - dma.n2 rising edges so far each is stored in
\* its place, the capture channel loses none while it is armed, and it calls
\* its handler only when all are there.
RxTrack ==
  call = "io" /\ status # Op!ERROR =>
    LET stored == request.n - dma.n2
    IN  /\ dma.n2 <= request.n /\ stored <= Len(wire.rises)
        /\ \A k \in 0 .. stored - 1 :
             durations[request.n - 1 - k] = wire.rises[k + 1] % DmaModulus
        /\ \A i \in DOMAIN wire.rises :
             wire.rises[i] <= IO_BIT_PROCEDURE_DURATION(overdrive)
        /\ status = Op!COMPLETE => dma.n2 = 0
        /\ status = Op!PROGRESS =>
             /\ tim.cen /\ tim.cc2p = Rising
             /\ tim.arr = IO_BIT_PROCEDURE_DURATION(overdrive)
             /\ CaptureRequestServed(dma) => stored = Len(wire.rises)
             /\ CaptureDmaPending => dma.n2 = 0

\* "DMA already active, i.e. attached to other drivers": a driver that
\* attached DMA keeps it until it detaches.
OtherKeepsDma == other => dma.clk
=============================================================================
