------------------------------ MODULE StartMain ------------------------------
(***************************************************************************)
(* main from reset: it asks for a clock (SysClk), waits until the switch is*)
(* over, attaches the driver, which derives the prescaler of its timer from*)
(* the clock it finds, and goes on with the tests (TestMain) whether that  *)
(* succeeded or not.                                                       *)
(*                                                                         *)
(* As built main asks for HSI undivided; the other calls its source names  *)
(* in comments, and every prescaler, are checked too.  A driver that is not*)
(* attached has a timer without clock: operations begin and never end.     *)
(***************************************************************************)
EXTENDS TestMain, SysClk, FiniteSets

CONSTANTS
  Prescalers,   \* those main may ask for
  TickRates     \* TIMER_TICKS_PER_US of the builds: 2 with 8-bit DMA, else 4

ASSUME StartAssumption ==
  /\ Prescalers \subseteq Byte
  /\ TickRates \subseteq {2, 4}

VARIABLES
  phase,      \* what main does next, see Phase
  request,    \* the clock it asks for
  ticks,      \* TIMER_TICKS_PER_US
  timer       \* TIM3: its clock is on, and its prescaler

startVars == <<phase, request, ticks, timer>>

Phase == {"setClock", "busy", "attach", "tests"}

TIMER_PRESCALER_MASK == 7
NotAttached == [on |-> FALSE, PSC |-> 0]

StartTypeOK ==
  /\ ClkTypeOK
  /\ phase \in Phase
  /\ request \in [source : Source, prescaler : Prescalers]
  /\ ticks \in TickRates
  /\ timer \in [on : BOOLEAN, PSC : 0 .. TIMER_PRESCALER_MASK]

StartInit ==
  /\ MainInit
  /\ ClkInit
  /\ phase = "setClock"
  /\ request \in [source : Source, prescaler : Prescalers]
  /\ ticks \in TickRates
  /\ timer = NotAttached

-----------------------------------------------------------------------------
\* drvOneWireAttach.
TIMER_SOURCE_FREQUENCE == ticks * 1000000

\* How often the divider, a byte, is halved until it is 1 or 0 (and a mutant
\* that halves it once too often).
Halvings_OneMore(divider) == Cardinality({k \in 0 .. 7 : 2^k <= divider})
Halvings(divider) == Cardinality({k \in 1 .. 7 : 2^k <= divider})

Divider == (GetSysClk \div TIMER_SOURCE_FREQUENCE) % 256
TooSlow == GetSysClk < TIMER_SOURCE_FREQUENCE

Attach ==
  timer' = IF TooSlow \/ Halvings(Divider) > TIMER_PRESCALER_MASK
           THEN timer
           ELSE [on |-> TRUE, PSC |-> Halvings(Divider)]

\* main.  setSysClkSource also enables interrupts; its result is not looked at,
\* no more than that of drvOneWireAttach.
SetClock ==
  /\ phase = "setClock" /\ phase' = "busy"
  /\ SetSysClkSource(request.source, request.prescaler)
  /\ UNCHANGED timer

\* while(CLK_SWCR_SWBSY) (and a mutant: main does not wait).
BusyOver_NoWait ==
  /\ phase = "busy" /\ phase' = "attach"
  /\ UNCHANGED <<clkVars, timer>>
BusyOver ==
  /\ phase = "busy" /\ clk.SWBSY = 0 /\ phase' = "attach"
  /\ UNCHANGED <<clkVars, timer>>

\* The end of the switch requests the interrupt with the flag main polls, and
\* the handler runs at most an instruction later: long before getSysClk, two
\* calls away, reads the prescaler.
AttachDriver ==
  /\ phase = "attach" /\ phase' = "tests"
  /\ ~SwitchPending
  /\ Attach
  /\ UNCHANGED clkVars

StartUp ==
  /\ SetClock \/ BusyOver \/ AttachDriver
  /\ UNCHANGED <<vars, mainVars, request, ticks>>

Clock ==
  /\ SwitchDone \/ SysclkSwitchComplete
  /\ UNCHANGED <<vars, mainVars, startVars>>

Testing == phase = "tests" /\ UNCHANGED <<clkVars, startVars>>

Tests == MainProgram /\ Testing

\* The interrupts of a timer that runs.
Finish == timer.on /\ MainFinish /\ Testing
Other  == timer.on /\ MainOther /\ Testing

StartNext == StartUp \/ Clock \/ Tests \/ Finish \/ Other

allVars == <<vars, mainVars, clkVars, startVars>>

\* main goes on by itself, HIGH_LEVEL as long as it waits for an operation; an
\* oscillator that starts does so some time and a pending interrupt is served;
\* and an operation whose handlers can run ends, as OneWireOp promises.
StartSpec ==
  /\ StartInit /\ [][StartNext]_allVars
  /\ WF_allVars(StartUp)
  /\ WF_allVars(Clock)
  /\ WF_allVars(Tests /\ (Waiting \/ at # "any"))
  /\ WF_allVars(Finish)

-----------------------------------------------------------------------------
\* "One timer tick is 1us" (by now 1/2 or 1/4): once the driver is attached its
\* timer counts TIMER_TICKS_PER_US each microsecond, and goes on doing so.  An
\* attach before the handler has written the prescaler, or a clock that is no
\* power of two times the rate, would make every duration wrong.
RateRight == timer.on => GetSysClk = TIMER_SOURCE_FREQUENCE * 2^timer.PSC

\* The tests run on the clock main asked for, that of the reset if it asked for
\* a prescaler that does not fit; the driver is attached unless that clock is
\* slower than the timer has to be.
ClockAsRequested ==
  phase = "tests" =>
    /\ IF Refused(request.prescaler)
       THEN clk.SCSR = CLK_SOURCE_HSI /\ clk.CKM = 3
       ELSE clk.SCSR = request.source /\ clk.CKM = request.prescaler
    /\ clk.SWBSY = 0 /\ ~SwitchPending
    /\ ~timer.on <=> GetSysClk < TIMER_SOURCE_FREQUENCE

\* main comes to its tests if it asks for an oscillator that starts.  (If it
\* asks for one that does not, it polls for ever.)
StartUpEnds == starts => <>(phase = "tests")

\* Every wait comes to its end, and the tests do: if the driver was attached.
\* main does not look; without a timer it sleeps in its first wait for ever.
Attached == <>timer.on
AttachedWaitReturns == Attached => WaitReturns
AttachedTestsEnd == Attached => TestsEnd
=============================================================================
