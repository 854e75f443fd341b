------------------------------ MODULE DrvOneWire ------------------------------
(***************************************************************************)
(* The driver drv_1wire.c, the part its two builds share: the context, a   *)
(* RESET with its handlers, the protection of the active pull-up, the end  *)
(* of an operation, and what the main program does between operations.     *)
(* DrvOneWireDma and DrvOneWireIrq add how bits are exchanged.             *)
(*                                                                         *)
(* Handlers run at one interrupt level, so they do not nest and each is    *)
(* one step.                                                               *)
(***************************************************************************)
EXTENDS OneWireBus

CONSTANTS
  WithDma,    \* __DRV_ONEWIRE_DMA, a build option
  Requests,   \* what drvOneWireTxBits is asked to send, see Request
  Speeds      \* arguments of drvOneWireReset

\* All eight bits of the value, and how many of them are sent.
Request == [bits : [Index -> Flag], n : 1 .. 8]

ASSUME DrvAssumption ==
  /\ WithDma \in BOOLEAN
  /\ Requests \subseteq Request
  /\ Speeds \subseteq Flag

VARIABLES
  status,     \* drv_onewire_context.status
  presence,   \* drv_onewire_context.presence
  overdrive,  \* drv_onewire_context.overdrive
  mark,       \* drv_onewire_context.op.reset.presencePulseMark
  al,         \* CPU_CFG_GCR_AL, see kernel.h
  request,    \* history: the bits asked for, low bit first, and their count
  conflict    \* history: the pull-up was on at some time of this operation,
              \* "some", or all the time, "all"

drvVars == <<status, presence, overdrive, mark, al, request, conflict>>

Op == INSTANCE OneWireOp

DrvTypeOK ==
  /\ BusTypeOK
  /\ Op!TypeOK
  /\ overdrive \in Flag
  /\ mark \in Word
  /\ request \in Request
  /\ conflict \in {"never", "some", "all"}

DrvInit ==
  /\ BusInit
  /\ Op!Init
  /\ overdrive = 0
  /\ mark = 0
  /\ request = [bits |-> [i \in Index |-> 0], n |-> 1]
  /\ conflict = "never"

-----------------------------------------------------------------------------
\* drvOneWireKernelOperationComplete, as it leaves the registers (and a
\* mutant that forgets the capture interrupt).
CompleteTim_CaptureIrqLeft(t) ==
  TimerStop(Halt(DisablePwmIrq(DisableOverflowIrq(t))))
CompleteTim(t) ==
  TimerStop(Halt(DisableCaptureIrq(DisablePwmIrq(DisableOverflowIrq(t)))))
CompleteDma(d) == IF WithDma THEN DmaDetach(DmaOff(d)) ELSE d

\* (a mutant: the significant event is not fired)
OperationComplete_NoEvent(t, d, result) ==
  /\ tim' = CompleteTim(t)
  /\ dma' = CompleteDma(d)
  /\ status' = result
  /\ UNCHANGED al

OperationComplete(t, d, result) ==
  /\ tim' = CompleteTim(t)
  /\ dma' = CompleteDma(d)
  /\ status' = result
  /\ al' = 0

\* Shared by both operations: the history starts anew.
Begin(kind) ==
  /\ call' = kind
  /\ conflict' = IF pullup THEN "all" ELSE "never"
  /\ lag' = 0

\* drvOneWireReset.
Reset(od) ==
  /\ Op!Ready
  /\ Begin("reset")
  /\ LET t1 == SetTop(Prepare(tim, pullup), RESET_PROCEDURE_DURATION(od))
         t2 == EnableOverflowIrq(SetPwmLevel(t1, RESET_DURATION(od)))
     IN  Settle(FireOverflowEvent(TimerStart(t2), pullup), dma, hold, NoTrace)
  /\ status' = Op!PROGRESS
  /\ overdrive' = od
  /\ presence' = 0
  /\ UNCHANGED <<pullup, mark, al, request>>

\* drvOneWireTxBits, up to the point where the builds differ ...
TxPrepared ==
  SetCapturePolarity(SetTop(Prepare(tim, pullup),
                            IO_BIT_PROCEDURE_DURATION(overdrive)), Rising)

\* ... and where the timer runs, as t: the exchange has begun.
TxStarted(r, t) ==
  /\ tim' = t
  /\ wire' = [NoTrace EXCEPT !.pulses =
                 IF Driving(t) THEN <<t.pwm>> ELSE <<>>]
  /\ request' = r
  /\ status' = Op!PROGRESS
  /\ UNCHANGED <<pullup, hold, presence, overdrive, mark, al>>

-----------------------------------------------------------------------------
\* isrOneWireTimerOverflow, first the check of the pull-up protection (a
\* mutant: it is not looked at).
PullupConflict_Ignored == FALSE
PullupConflict == ActivePullup /\ tim.bif

IsrPullupConflict ==
  /\ OverflowPending
  /\ PullupConflict
  /\ OperationComplete(ClearPullupConflict(tim, pullup), dma, Op!ERROR)
  /\ UNCHANGED <<presence, mark>>

\* Without PRESENCE an overflow is the start of a RESET or its timeout.
ResetOverflow(t) ==
  /\ presence = 0
  /\ \/ /\ ~t.cc2ie
        /\ tim' = EnablePwmIrq(t)
        /\ UNCHANGED <<dma, status, al>>
     \/ /\ t.cc2ie
        /\ OperationComplete(t, dma, Op!ERROR)
  /\ UNCHANGED <<presence, mark>>

\* isrOneWirePwmCapture, the part that ends a RESET pulse: capture turns to
\* the falling edge that begins a PRESENCE pulse (a mutant: it still sees
\* rising edges).
EndResetPulse_SamePolarity(t) ==
  DisablePwmIrq(EnableCaptureIrq(SetPwmLevel(ClearPwm(t), 0)))
EndResetPulse(t) ==
  DisablePwmIrq(EnableCaptureIrq(
    SetCapturePolarity(SetPwmLevel(ClearPwm(t), 0), Falling)))

\* ... and the part that measures the PRESENCE pulse, t being what the first
\* part leaves, with an edge captured.
PresenceEdge(t) ==
  LET c     == ClearCapture(t)
      value == t.ccr2
  IN  \/ /\ c.cc2p = Falling
         /\ IF DelayOk(overdrive, value)
            THEN /\ tim' = SetCapturePolarity(c, Rising)
                 /\ mark' = value
                 /\ UNCHANGED <<dma, status, presence, al>>
            ELSE /\ OperationComplete(SetCapturePolarity(c, Rising), dma,
                                      Op!ERROR)
                 /\ UNCHANGED <<presence, mark>>
      \/ /\ c.cc2p = Rising
         /\ IF PulseOk(overdrive, mark, value)
            THEN /\ presence' = 1
                 /\ OperationComplete(c, dma, Op!COMPLETE)
            ELSE /\ OperationComplete(c, dma, Op!ERROR)
                 /\ UNCHANGED presence
         /\ UNCHANGED mark

-----------------------------------------------------------------------------
\* The main program between operations.
SimulatePresence ==
  /\ ActivePullup /\ pullup
  /\ Op!SimulatePresence
  /\ UNCHANGED <<tim, dma, durations, pullup, hold, lag, wire>>
  /\ UNCHANGED <<overdrive, mark, request, conflict>>

ConsumeEvent ==
  /\ Op!ConsumeEvent
  /\ UNCHANGED <<tim, dma, durations, pullup, hold, lag, wire>>
  /\ UNCHANGED <<overdrive, mark, request, conflict>>

HardwareStep ==
  /\ Hardware
  /\ UNCHANGED drvVars

PullupStep ==
  /\ Pullup
  /\ conflict' = IF conflict = "never" \/ ~pullup' THEN "some" ELSE conflict
  /\ UNCHANGED <<status, presence, overdrive, mark, al, request>>

\* What both builds do alike.
CommonStep ==
  \/ \E od \in Speeds : Reset(od)
  \/ HardwareStep
  \/ PullupStep
  \/ SimulatePresence
  \/ ConsumeEvent

-----------------------------------------------------------------------------
\* An I/O operation or a RESET that ended well.
IoComplete    == call = "io" /\ status = Op!COMPLETE
ResetComplete == call = "reset" /\ status = Op!COMPLETE
NoConflict    == conflict = "never"

\* drvOneWireKernelOperationComplete leaves nothing running: between
\* operations the timer is stopped, its output is idle and none of its
\* interrupts is enabled.  Whatever path ended the operation, a late
\* interrupt cannot touch the next one.
AtRest ==
  Op!Ready =>
    /\ ~tim.cen /\ ~tim.moe /\ ~tim.aoe
    /\ ~tim.uie /\ ~tim.cc1ie /\ ~tim.cc2ie

\* The pulses drvOneWireTxBits drives are those of the bits it was given, low
\* bit first, and all of them before the operation completes.
SentInOrder ==
  call = "io" /\ NoConflict =>
    /\ \A k \in 1 .. Len(wire.pulses) :
         k <= request.n =>
           wire.pulses[k] = BIT_DURATION(overdrive, request.bits[k - 1])
    /\ status = Op!COMPLETE => Len(wire.pulses) >= request.n

\* "Prevent pulse generation after last bit sent": no slot beyond the last
\* bit is ever begun, unless the line was held through one.
NoExtraPulse ==
  call = "io" /\ ~wire.stuck => Len(wire.pulses) <= request.n

\* On a quiet bus, without the pull-up, an exchange of bits that was begun
\* never fails, unless the line was held through a slot: the watch over the
\* last bit does not fire too early.
NoSpuriousError ==
  call = "io" /\ NoConflict /\ wire # NoTrace /\ ~wire.stuck =>
    status # Op!ERROR

\* "In this mode any bits I/O operations or RESET operation are disabled":
\* an operation during which the active pull-up was on never completes.
PullupOpsFail == conflict = "all" => ~(IoComplete \/ ResetComplete)

\* A fall and a rise that make a PRESENCE pulse, by plain arithmetic.
Presence(f, r) ==
  /\ f - RESET_DURATION(overdrive)
       \in PRESENCE_MIN_DELAY(overdrive) .. PRESENCE_MAX_DELAY(overdrive)
  /\ r - f
       \in PRESENCE_MIN_DURATION(overdrive) .. PRESENCE_MAX_DURATION(overdrive)
Elements(s) == {s[i] : i \in DOMAIN s}

\* PRESENCE is never reported unless the line fell and rose as a PRESENCE
\* pulse does, whatever else happened on it and however late the handlers.
PresenceSound ==
  ResetComplete =>
    \E f \in Elements(wire.falls), r \in Elements(wire.rises) : Presence(f, r)

\* The handlers are in time for an answer: the capture is turned over before
\* the earliest PRESENCE pulse begins.
HearsInTime ==
  \A od \in Flag :
    MaxLag[RESET_PROCEDURE_DURATION(od)] < PRESENCE_MIN_DELAY(od)

\* On a quiet bus a RESET fails only for a reason: the window for the answer
\* is over (the level of the next period is loaded) or there was an answer,
\* and no answer was a PRESENCE pulse; no device is missed while the handlers
\* turn the capture over.  The window is exactly as long as the latest and
\* longest answer, so an answer that ends within a handler's lateness of its
\* end can be taken for a timeout; any earlier one is seen.
PresenceNotMissed ==
  call = "reset" /\ NoConflict /\ status = Op!ERROR =>
    /\ tim.pwm = 0 \/ wire.falls # <<>>
    /\ LET top == RESET_PROCEDURE_DURATION(overdrive)
       IN  ~ \E f \in Elements(wire.falls), r \in Elements(wire.rises) :
               Presence(f, r) /\ r + MaxLag[top] <= top

\* The driver does what OneWireOp promises: every step of it is one the
\* caller may expect ...
OpSteps == Op!Init /\ [][Op!Next]_(Op!vars)

\* ... and it is also sure to finish what was started.
OpSpec == Op!Spec
=============================================================================
