---------------------------- MODULE DrvOneWireIrq ----------------------------
(***************************************************************************)
(* The driver drv_1wire.c without __DRV_ONEWIRE_DMA: the handlers of the   *)
(* timer move the bits themselves.  One byte, PARAM_VALUE, is shifted out  *)
(* at the low end, a bit per pulse, and filled at the high end with what   *)
(* was captured.                                                           *)
(***************************************************************************)
EXTENDS DrvOneWire

ASSUME IrqAssumption == ~WithDma

VARIABLES
  value,   \* drv_onewire_context.op.io.value, its bits, low bit first
  count    \* drv_onewire_context.op.io.count

vars == <<busVars, drvVars, value, count>>

TypeOK ==
  /\ DrvTypeOK
  /\ value \in [Index -> Flag]
  /\ count \in 0 .. 8

Init ==
  /\ DrvInit
  /\ value = [i \in Index |-> 0]
  /\ count = 0

-----------------------------------------------------------------------------
ShiftOut(v) == [i \in Index |-> IF i < 7 THEN v[i + 1] ELSE 0]

\* drvOneWireKernelBitOperationStart: the level of the lowest bit, for the
\* next period, and (see ShiftOut) the value without it (a mutant: at normal
\* speed always).
BitLevel_NormalSpeed(t, v) == SetPwmLevel(t, BIT_DURATION(0, v[0]))
BitLevel(t, v) == SetPwmLevel(t, BIT_DURATION(overdrive, v[0]))

\* drvOneWireTxBits.
TxBits(r) ==
  /\ Op!Ready /\ presence = 1
  /\ MayBegin
  /\ Begin("io")
  /\ LET t == TimerStart(EnableOverflowIrq(BitLevel(TxPrepared, r.bits)))
     IN  TxStarted(r, FireOverflowEvent(t, pullup))
  /\ value' = ShiftOut(r.bits)
  /\ count' = r.n
  /\ UNCHANGED <<dma, durations>>

\* drvOneWireRxBits(n): PARAM_VALUE >> (8 - n).
RxBit(n, k) == value[k + 8 - n]

-----------------------------------------------------------------------------
\* isrOneWireTimerOverflow while bits are exchanged: a slot has begun, or the
\* last one is over and its bit was not captured (a mutant: decremented
\* without a look at it).
BitsOverflow_Unguarded(t) ==
  /\ presence = 1
  /\ count' = count - 1
  /\ tim' = EnableCaptureIrq(IF count' # 0 THEN EnablePwmIrq(t)
                             ELSE DisablePwmIrq(t))
  /\ UNCHANGED <<dma, status, presence, mark, al>>

BitsOverflow(t) ==
  /\ presence = 1
  /\ \/ /\ count > 0
        /\ count' = count - 1
        /\ tim' = EnableCaptureIrq(IF count' > 0 THEN EnablePwmIrq(t)
                                   ELSE DisablePwmIrq(t))
        /\ UNCHANGED <<dma, status, al>>
     \/ /\ count = 0
        /\ OperationComplete(t, dma, Op!ERROR)
        /\ UNCHANGED count
  /\ UNCHANGED <<presence, mark>>

IsrOverflow ==
  /\ OverflowPending
  /\ ~PullupConflict
  /\ LET t == ClearOverflow(tim)
     IN  \/ BitsOverflow(t)
         \/ ResetOverflow(t) /\ UNCHANGED count
  /\ UNCHANGED value

\* isrOneWirePwmCapture, the part for a pulse that has ended.  Its flag is
\* tested whether or not the interrupt is enabled, so that the capture of the
\* last bit shifts the value as well.
AfterPwm(t) ==
  IF ~t.cc1if THEN t
  ELSE IF presence = 1 THEN BitLevel(ClearPwm(t), value)
  ELSE EndResetPulse(t)

\* (a mutant: shifted for an enabled interrupt only)
ValueAfterPwm_WhenEnabled(t) ==
  IF t.cc1if /\ t.cc1ie /\ presence = 1 THEN ShiftOut(value) ELSE value
ValueAfterPwm(t) == IF t.cc1if /\ presence = 1 THEN ShiftOut(value) ELSE value

\* Was the last bit captured?  (a mutant: it is not noticed)
LastBit_Unnoticed == FALSE
LastBit == count = 0 /\ status = Op!PROGRESS

\* ... and the part for a captured bit, with the timer as t and the value as v.
BitCaptured(t, v) ==
  LET c   == ClearCapture(t)
      bit == DecodeBit(overdrive, t.ccr2)
  IN  \/ /\ bit = ErrorBit
         /\ OperationComplete(c, dma, Op!ERROR)
         /\ value' = v
      \/ /\ bit # ErrorBit
         /\ value' = IF bit = 1 THEN [v EXCEPT ![7] = 1] ELSE v
         /\ IF LastBit
            THEN OperationComplete(c, dma, Op!COMPLETE)
            ELSE tim' = c /\ UNCHANGED <<dma, status, al>>

IsrPwmCapture ==
  /\ CapComPending
  /\ LET t == AfterPwm(tim)
         v == ValueAfterPwm(tim)
     IN  \/ /\ ~t.cc2if
            /\ tim' = t
            /\ value' = v
            /\ UNCHANGED <<dma, status, presence, mark, al>>
         \/ /\ t.cc2if /\ presence = 1
            /\ BitCaptured(t, v)
            /\ UNCHANGED <<presence, mark>>
         \/ /\ t.cc2if /\ presence = 0
            /\ PresenceEdge(t)
            /\ value' = v
  /\ UNCHANGED count

\* The interrupt controller: the vector of the overflow goes first.
Dispatch ==
  /\ \/ IsrPullupConflict /\ UNCHANGED <<value, count>>
     \/ IsrOverflow
     \/ ~OverflowPending /\ IsrPwmCapture
  /\ lag' = 0
  /\ UNCHANGED <<durations, pullup, hold, call, wire>>
  /\ UNCHANGED <<overdrive, request, conflict>>

Next ==
  \/ CommonStep /\ UNCHANGED <<value, count>>
  \/ \E r \in Requests : TxBits(r)
  \/ Dispatch

Spec == Init /\ [][Next]_vars

\* The timer counts and the CPU serves its interrupts, as in the other build.
FairSpec ==
  /\ Spec
  /\ WF_vars(Compare /\ UNCHANGED <<drvVars, value, count>>)
  /\ WF_vars(Overflow /\ UNCHANGED <<drvVars, value, count>>)
  /\ WF_vars(Dispatch)

-----------------------------------------------------------------------------
\* The handlers are in time: what happens in a time slot (its start, the end of
\* its pulse, a device that acts) is served before the slot is over.
InTime ==
  \A od \in Flag :
    LET top == IO_BIT_PROCEDURE_DURATION(od)
    IN  \A t \in Instants[top] \union {0}
                 \union {BIT_DURATION(od, b) : b \in Flag} :
          t + MaxLag[top] <= top

\* Undisturbed by the pull-up, and with a rising edge in every slot, what
\* drvOneWireRxBits returns is what was on the bus: bit k is decoded from the
\* k-th rising edge, whatever the value held above the bits to send, and
\* although it is shifted by one handler and filled by another.
RxDataOk ==
  IoComplete /\ NoConflict /\ ~wire.stuck =>
    /\ Len(wire.rises) = request.n
    /\ \A k \in 0 .. request.n - 1 :
         RxBit(request.n, k) = DecodeBit(overdrive, wire.rises[k + 1])

\* "All bits received successfully": an exchange completes only after a
\* rising edge for each of its bits.
AllBitsReceived == IoComplete => Len(wire.rises) >= request.n
=============================================================================
