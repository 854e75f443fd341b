----------------------------- MODULE OneWireBus -----------------------------
(***************************************************************************)
(* The hardware around the driver: TIM3 and DMA1 running by themselves,    *)
(* the bus line, and the devices on it.  None of this is code of the       *)
(* repository; it is what the code relies on.                              *)
(*                                                                         *)
(* The line is wired-AND: high unless the master drives it (PWM output     *)
(* active) or a device holds it.  Time is the timer's counter, which jumps *)
(* from one event to the next: a compare, an overflow, or a device acting  *)
(* at one of the Instants.                                                 *)
(***************************************************************************)
EXTENDS Res1Wire, Sequences

CONSTANTS
  ActivePullup, \* __DRV_ONEWIRE_ACTIVE_PULLUP, a build option
  NoisyBus,     \* may anything pull the line at any time?
  StuckLine,    \* may a device hold the line beyond its time slot?
  Instants,     \* counter values at which a device may act, and
  MaxLag,       \* ticks an interrupt may wait to be served: functions of the
                \* timer's top, which tells a RESET from an exchange and the
                \* two speeds
  MaxEdges,     \* bound on the noise: rising edges in one operation
  MaxPulses     \* bound on the time slots of one operation: one that never
                \* ends is followed this far

ASSUME BusAssumption ==
  /\ ActivePullup \in BOOLEAN
  /\ NoisyBus \in BOOLEAN /\ StuckLine \in BOOLEAN
  /\ Instants \in [Word -> SUBSET Word]
  /\ MaxLag \in [Word -> Nat]
  /\ MaxEdges \in Nat
  /\ MaxPulses \in Nat

VARIABLES
  tim,        \* registers of TIM3
  dma,        \* registers of DMA1
  durations,  \* drv_onewire_context.op.io.durations, the DMA's memory
  pullup,     \* the active pull-up pin, which is also the break input
  hold,       \* does some device hold the line low?
  lag,        \* ticks that passed while an interrupt was waiting
  call,       \* the operation the master runs: "none", "reset" or "io"
  wire        \* history since the operation began: pulses driven, rising and
              \* falling edges, and did a period end with the line held low?

busVars == <<tim, dma, durations, pullup, hold, lag, call, wire>>

Index == 0 .. 7
Trace == [pulses : Seq(Word), rises : Seq(Word), falls : Seq(Word),
          stuck : BOOLEAN]
NoTrace == [pulses |-> <<>>, rises |-> <<>>, falls |-> <<>>, stuck |-> FALSE]

BusTypeOK ==
  /\ tim \in Tim
  /\ tim.cen => tim.cnt <= tim.arr
  /\ dma \in Dma
  /\ durations \in [Index -> 0 .. DmaModulus - 1]
  /\ pullup \in BOOLEAN
  /\ hold \in BOOLEAN
  /\ lag \in Nat
  /\ call \in {"none", "reset", "io"}
  /\ wire \in Trace

BusInit ==
  /\ tim = [uie |-> FALSE, cc1ie |-> FALSE, cc2ie |-> FALSE,
            uif |-> FALSE, cc1if |-> FALSE, cc2if |-> FALSE, bif |-> FALSE,
            cen |-> FALSE, aoe |-> FALSE, moe |-> FALSE, cc2p |-> Rising,
            arr |-> 65535, ccr1 |-> 0, pwm |-> 0, ccr2 |-> 0, cnt |-> 0]
  /\ dma = [clk |-> FALSE, gen |-> FALSE, cc1de |-> FALSE, cc2de |-> FALSE,
            en1 |-> FALSE, tc1 |-> FALSE, n1 |-> 0,
            en2 |-> FALSE, tc2 |-> FALSE, n2 |-> 0]
  /\ durations = [i \in Index |-> 0]
  /\ pullup = FALSE
  /\ hold = FALSE
  /\ lag = 0
  /\ call = "none"
  /\ wire = NoTrace

-----------------------------------------------------------------------------
\* PWM mode 1: the output is active while the counter is below the level.
Driving(t) == t.moe /\ t.cen /\ t.cnt < t.pwm
High(t, h) == ~Driving(t) /\ ~h

\* The interrupts the four handlers of the driver serve.
OverflowPending   == tim.uie /\ tim.uif
CapComPending     == (tim.cc1ie /\ tim.cc1if) \/ (tim.cc2ie /\ tim.cc2if)
PwmDmaPending     == dma.clk /\ dma.en1 /\ dma.tc1
CaptureDmaPending == dma.clk /\ dma.en2 /\ dma.tc2
IrqPending == \/ OverflowPending
              \/ CapComPending
              \/ PwmDmaPending
              \/ CaptureDmaPending

\* dt ticks pass.  The hardware does not run ahead of the CPU by more than
\* MaxLag.
Elapse(dt) ==
  /\ IrqPending => lag + dt <= MaxLag[tim.arr]
  /\ lag' = IF IrqPending THEN lag + dt ELSE 0

\* The event takes the timer to t, the DMA to d, the devices to h.  An edge
\* of the selected polarity is captured, and the capture channel stores it.
Settle(t, d, h, w) ==
  LET rises    == ~High(tim, hold) /\ High(t, h)
      falls    == High(tim, hold) /\ ~High(t, h)
      captured == (rises /\ t.cc2p = Rising) \/ (falls /\ t.cc2p = Falling)
      stored   == captured /\ CaptureRequestServed(d)
  IN  /\ tim' = IF captured THEN [t EXCEPT !.cc2if = TRUE, !.ccr2 = t.cnt]
                ELSE t
      /\ dma' = IF stored THEN CaptureTransfer(d) ELSE d
      /\ durations' = IF stored
                      THEN [durations EXCEPT ![d.n2 - 1] = t.cnt % DmaModulus]
                      ELSE durations
      /\ hold' = h
      /\ wire' = [pulses |-> IF Driving(t) /\ ~Driving(tim)
                             THEN Append(w.pulses, t.pwm) ELSE w.pulses,
                  rises  |-> IF rises /\ t.cen
                             THEN Append(w.rises, t.cnt) ELSE w.rises,
                  falls  |-> IF falls /\ t.cen /\ t.cnt > 0
                             THEN Append(w.falls, t.cnt) ELSE w.falls,
                  stuck  |-> w.stuck]

\* The counter reaches the PWM level: the pulse ends, and the PWM channel
\* fetches the next level into the preload register.  A level above the top
\* is never reached.
Compare ==
  /\ tim.cen /\ tim.cnt < tim.pwm /\ tim.pwm <= tim.arr
  /\ Elapse(tim.pwm - tim.cnt)
  /\ LET t == [tim EXCEPT !.cnt = tim.pwm, !.cc1if = TRUE]
     IN  IF PwmRequestServed(dma)
         THEN Settle(LoadPwm(t, durations[dma.n1 - 1]), PwmTransfer(dma),
                     hold, wire)
         ELSE Settle(t, dma, hold, wire)
  /\ UNCHANGED <<pullup, call>>

\* Devices of a quiet bus have let go of the line before a time slot begins.
MayBegin == NoisyBus \/ StuckLine \/ ~hold

\* The counter passes the top: a new period begins.
Overflow ==
  /\ tim.cen /\ (tim.cnt >= tim.pwm \/ tim.pwm > tim.arr)
  /\ Len(wire.pulses) < MaxPulses
  /\ Elapse(tim.arr + 1 - tim.cnt)
  /\ call = "reset" \/ MayBegin
  /\ Settle(UpdateEvent(tim, pullup), dma, hold,
            [wire EXCEPT !.stuck = wire.stuck \/ hold])
  /\ UNCHANGED <<pullup, call>>

\* Counter values at which something outside may happen before the timer's
\* own next event.
Moments ==
  IF ~tim.cen THEN {tim.cnt}
  ELSE {t \in Instants[tim.arr] \union {tim.cnt} :
          /\ tim.cnt <= t /\ t <= tim.arr
          /\ tim.cnt < tim.pwm => t < tim.pwm}

\* A device pulls the line.  On a quiet bus it does so during the master's
\* pulse of an I/O slot, or once after a RESET pulse, to answer it.
DevicePull(t) ==
  /\ ~hold
  /\ Elapse(t - tim.cnt)
  /\ IF NoisyBus THEN Len(wire.rises) < MaxEdges
     ELSE \/ call = "io" /\ Driving(tim)
          \/ /\ call = "reset" /\ tim.cen /\ tim.cnt >= tim.pwm
             /\ tim.pwm > 0 /\ t > tim.pwm /\ wire.falls = <<>>
  /\ Settle([tim EXCEPT !.cnt = t], dma, TRUE, wire)
  /\ UNCHANGED <<pullup, call>>

\* It lets go again; in an I/O slot of a quiet bus, in time for the slot's
\* recovery.
DeviceRelease(t) ==
  /\ hold
  /\ Elapse(t - tim.cnt)
  /\ (~NoisyBus /\ call = "io" /\ tim.cen) => t <= tim.arr - Ticks * TREC_MIN
  /\ Settle([tim EXCEPT !.cnt = t], dma, FALSE, wire)
  /\ UNCHANGED <<pullup, call>>

\* drvOneWireActivePullupOn/Off write the pin, and the pin is wired to the
\* break input, which cuts the output off and raises its flag.
ActivePullupOn(t) ==
  /\ ActivePullup /\ ~pullup
  /\ Elapse(t - tim.cnt)
  /\ pullup' = TRUE
  /\ Settle([tim EXCEPT !.cnt = t, !.bif = TRUE, !.moe = FALSE],
            dma, hold, wire)
  /\ UNCHANGED call

ActivePullupOff ==
  /\ ActivePullup /\ pullup
  /\ pullup' = FALSE
  /\ UNCHANGED <<tim, dma, durations, hold, lag, call, wire>>

Hardware ==
  \/ Compare
  \/ Overflow
  \/ \E t \in Moments : DevicePull(t) \/ DeviceRelease(t)

Pullup ==
  \/ \E t \in Moments : ActivePullupOn(t)
  \/ ActivePullupOff
=============================================================================
