--------------------------- MODULE StartMainProofs ---------------------------
(***************************************************************************)
(* Proofs about the main program from reset: in every build, on any clock, *)
(* it keeps the rules of VosIdle and so never misses the end of an         *)
(* operation, leaves the pull-up off, and runs its tests on the clock it   *)
(* asked for.                                                              *)
(***************************************************************************)
EXTENDS StartMain, FiniteSetTheorems, TLAPS

USE MainAssumption
USE DEF Op!Busy, Op!Ready, Op!PROGRESS, Op!COMPLETE, Op!ERROR, Op!Status

IInv == TypeOK /\ EventNotLost /\ NoLostWakeup

\* The inductive invariant holds at the start.
LEMMA InitIInv == Init => IInv
BY DEF Init, Op!Init, IInv, TypeOK, Op!TypeOK, PC, EventNotLost, NoLostWakeup

\* The main program's own steps, while it is awake.
LEMMA ProgramStep ==
  ASSUME IInv, Program
  PROVE  IInv'
<1> USE DEF IInv, TypeOK, Op!TypeOK, PC, EventNotLost, NoLostWakeup, Program,
            Caller, Wait, opVars
<1>1. CASE StartOperation
  BY <1>1 DEF StartOperation, Op!StartReset, Op!StartIo, Op!RefuseIo
<1>2. CASE SimulatePresence
  BY <1>2 DEF SimulatePresence, Op!SimulatePresence
<1>3. CASE RaiseIrqLevel
  BY <1>3 DEF RaiseIrqLevel
<1>4. CASE ReadStatus
  BY <1>4 DEF ReadStatus
<1>5. CASE LowerIrqLevel
  BY <1>5 DEF LowerIrqLevel
<1>6. CASE DisableInterrupt
  BY <1>6 DEF DisableInterrupt
<1>7. CASE SignificantEvent
  BY <1>7 DEF SignificantEvent
<1>8. CASE ConsumeEvent
  BY <1>8 DEF ConsumeEvent, Op!ConsumeEvent
<1>9. CASE EnableInterrupt
  BY <1>9 DEF EnableInterrupt
<1>10. CASE WaitForInterrupt
  BY <1>10 DEF WaitForInterrupt
<1>11. CASE WaitAgain
  BY <1>11 DEF WaitAgain
<1> QED BY <1>1, <1>2, <1>3, <1>4, <1>5, <1>6, <1>7, <1>8, <1>9, <1>10, <1>11

\* The handlers: one that ends the operation fires the event with it.
LEMMA IsrStep ==
  ASSUME IInv, IsrFinish \/ IsrOther
  PROVE  IInv'
<1> USE DEF IInv, TypeOK, Op!TypeOK, PC, EventNotLost, NoLostWakeup
<1>1. CASE IsrFinish
  BY <1>1 DEF IsrFinish, Op!Finish
<1>2. CASE IsrOther
  BY <1>2 DEF IsrOther, opVars
<1> QED BY <1>1, <1>2

-----------------------------------------------------------------------------
MainTypeOK ==
  /\ build \in Build
  /\ at \in Place
  /\ test \in 0 .. 10
  /\ pullup \in {0, 1}

\* What main knows when it starts the next operation: the result in its hand
\* is the status, the last operation is over, and bits are exchanged only
\* with PRESENCE.
Knows ==
  /\ at = "start" => pc = "ready" /\ call = "none"
  /\ at \notin {"start", "any"} => call # "none"
  /\ at \notin {"start", "any"} /\ pc = "ready" =>
       c = status /\ status # Op!PROGRESS
  /\ at \in {"bits", "conflictBits", "done"} => presence = 1
  /\ at = "done" => status = Op!COMPLETE
  /\ at = "failed" => status # Op!PROGRESS
  /\ call = "reset" /\ status = Op!COMPLETE => presence = 1
  /\ at \in {"overdrive", "normal", "conflictOverdrive", "conflictNormal",
             "againOverdrive", "againNormal"} => call = "reset"
  /\ at \notin {"conflictOverdrive", "conflictNormal", "conflictBits"} =>
       pullup = 0

MInv == IInv /\ MainTypeOK /\ Knows

\* The inductive invariant holds at the start.
LEMMA InitMInv == MainInit => MInv
<1> SUFFICES ASSUME MainInit PROVE MInv
  OBVIOUS
<1>1. IInv
  BY InitIInv DEF MainInit
<1>2. MainTypeOK /\ Knows
  BY DEF MainInit, Init, Op!Init, MainTypeOK, Knows, Build, Place
<1> QED BY <1>1, <1>2 DEF MInv

\* Each step of main between two waits is one VosIdle allows its program, and
\* what main knows carries over to the next.
LEMMA MainStep ==
  ASSUME MInv, pc = "ready", Main, UNCHANGED build
  PROVE  /\ Caller \/ UNCHANGED <<opVars, pc, c, value, masked>>
         /\ (MainTypeOK /\ Knows)'
<1> USE DEF MInv, MainTypeOK, Knows, IInv, TypeOK, Op!TypeOK, PC, Build, Place,
            opVars, Caller, StartOperation, SimulatePresence, WaitAgain,
            Op!StartReset, Op!StartIo, Op!RefuseIo, Op!SimulatePresence,
            CallReset, CallTxBits, NoCall, Error, Go, IndicateError
<1>1. CASE Start
  BY <1>1 DEF Start
<1>2. CASE OverdriveDone
  BY <1>2 DEF OverdriveDone
<1>3. CASE NormalDone
  BY <1>3 DEF NormalDone
<1>4. CASE BitsDone
  BY <1>4 DEF BitsDone
<1>5. CASE ConflictOverdriveDone
  BY <1>5 DEF ConflictOverdriveDone
<1>6. CASE ConflictNormalDone
  BY <1>6 DEF ConflictNormalDone
<1>7. CASE ConflictBitsDone
  BY <1>7 DEF ConflictBitsDone
<1>8. CASE AgainOverdriveDone
  BY <1>8 DEF AgainOverdriveDone
<1>9. CASE AgainNormalDone
  BY <1>9 DEF AgainNormalDone
<1>10. CASE Loop
  BY <1>10 DEF Loop
<1> QED BY <1>1, <1>2, <1>3, <1>4, <1>5, <1>6, <1>7, <1>8, <1>9, <1>10
       DEF Main

\* What main knows is not disturbed by its own waiting, by the operations of
\* HIGH_LEVEL, or by the handlers.
LEMMA OtherSteps ==
  ASSUME MInv, UNCHANGED mainVars,
         Wait \/ (at = "any" /\ Caller) \/ IsrFinish \/ IsrOther
  PROVE  (MainTypeOK /\ Knows)'
<1> USE DEF MInv, MainTypeOK, Knows, IInv, TypeOK, Op!TypeOK, PC, EventNotLost,
            Place, mainVars, opVars
<1>1. CASE Wait
  <2> USE DEF RaiseIrqLevel, ReadStatus, LowerIrqLevel, DisableInterrupt,
              SignificantEvent, ConsumeEvent, Op!ConsumeEvent, EnableInterrupt,
              WaitForInterrupt
  <2> QED BY <1>1 DEF Wait
<1>2. CASE at = "any" /\ Caller
  <2>1. CASE StartOperation
    BY <1>2, <2>1 DEF StartOperation, Op!StartReset, Op!StartIo, Op!RefuseIo
  <2>2. CASE SimulatePresence
    BY <1>2, <2>2 DEF SimulatePresence, Op!SimulatePresence
  <2>3. CASE WaitAgain
    BY <1>2, <2>3 DEF WaitAgain
  <2> QED BY <1>2, <2>1, <2>2, <2>3 DEF Caller
<1>3. CASE IsrFinish
  BY <1>3 DEF IsrFinish, Op!Finish
<1>4. CASE IsrOther
  BY <1>4 DEF IsrOther
<1> QED BY <1>1, <1>2, <1>3, <1>4

\* Every step of the main program is a step of VosIdle's or leaves it alone.
LEMMA MainNextStep ==
  ASSUME MInv, [MainNext]_<<vars, mainVars>>
  PROVE  [Next]_vars /\ MInv'
<1>1. CASE UNCHANGED <<vars, mainVars>>
  BY <1>1 DEF vars, mainVars, opVars, MInv, IInv, TypeOK, Op!TypeOK,
     EventNotLost, NoLostWakeup, MainTypeOK, Knows
<1>2. ASSUME [Next]_vars, (MainTypeOK /\ Knows)' PROVE [Next]_vars /\ MInv'
  <2>1. CASE UNCHANGED vars
    BY <1>2, <2>1 DEF vars, opVars, MInv, IInv, TypeOK, Op!TypeOK, PC,
       EventNotLost, NoLostWakeup
  <2>2. CASE Next
    BY <1>2, <2>2, ProgramStep, IsrStep DEF Next, MInv
  <2> QED BY <1>2, <2>1, <2>2
<1>3. CASE MainProgram
  <2>1. CASE Wait /\ UNCHANGED mainVars
    BY <1>2, <1>3, <2>1, OtherSteps DEF MainProgram, Next, Program
  <2>2. CASE at = "any" /\ Caller /\ UNCHANGED mainVars
    BY <1>2, <1>3, <2>2, OtherSteps DEF MainProgram, Next, Program
  <2>3. CASE pc = "ready" /\ Main /\ UNCHANGED build
    <3>1. /\ Caller \/ UNCHANGED <<opVars, pc, c, value, masked>>
          /\ (MainTypeOK /\ Knows)'
      BY <2>3, MainStep
    <3>2. ~asleep /\ asleep' = FALSE
      BY <1>3, <2>3 DEF MainProgram
    <3>3. [Next]_vars
      BY <2>3, <3>1, <3>2 DEF Next, Program, vars, MInv, IInv, TypeOK
    <3> QED BY <1>2, <3>1, <3>3
  <2> QED BY <1>3, <2>1, <2>2, <2>3 DEF MainProgram
<1>4. CASE MainFinish
  BY <1>2, <1>4, OtherSteps DEF MainFinish, Next
<1>5. CASE MainOther
  BY <1>2, <1>5, OtherSteps DEF MainOther, Next
<1> QED BY <1>1, <1>3, <1>4, <1>5 DEF MainNext

-----------------------------------------------------------------------------
\* From reset on: while main starts up and the clock is switched nothing of
\* the tests changes.
LEMMA StartNextStep ==
  ASSUME MInv, [StartNext]_allVars
  PROVE  [Next]_vars /\ MInv'
<1>1. [MainNext]_<<vars, mainVars>>
  BY DEF StartNext, allVars, StartUp, Clock, Tests, Finish, Other, MainNext
<1>2. QED BY <1>1, MainNextStep

LEMMA MainInvariance == StartSpec => []MInv
<1>1. StartInit => MInv
  BY InitMInv DEF StartInit
<1>2. QED BY <1>1, StartNextStep, PTL DEF StartSpec

\* The CPU sleeps only while an operation is in progress, at whatever moment
\* between two instructions of the main program the handlers run.
THEOREM WakeupNeverLost == StartSpec => []NoLostWakeup
<1>1. MInv => NoLostWakeup
  BY DEF MInv, IInv
<1>2. QED BY <1>1, MainInvariance, PTL

\* An event fired after the status was tested is there when vosIdle asks.
THEOREM EventIsSeen == StartSpec => []EventNotLost
<1>1. MInv => EventNotLost
  BY DEF MInv, IInv
<1>2. QED BY <1>1, MainInvariance, PTL

\* The main program of every build keeps the rules of VosIdle and OneWireOp:
\* bits only after a PRESENCE, nothing before the last operation is over, no
\* wait before the first.
THEOREM MainKeepsRules == StartSpec => CallerKeepsRules
<1>1. StartInit => Init
  BY DEF StartInit, MainInit
<1>2. QED BY <1>1, MainInvariance, StartNextStep, PTL
         DEF StartSpec, CallerKeepsRules, Spec

\* The tests leave the pull-up off, and end well only with devices present.
THEOREM MainLeavesSafe == StartSpec => []LeftSafe
<1>1. MInv => LeftSafe
  BY DEF MInv, MainTypeOK, Knows, LeftSafe
<1>2. QED BY <1>1, MainInvariance, PTL

-----------------------------------------------------------------------------
\* The clock.  A switch is on its way, over with its interrupt pending, or
\* nothing is left of it and the clock is the one asked for.
Asked == ~Refused(request.prescaler) /\ desiredPrescaler = request.prescaler

Switching == Asked /\ clk.SWBSY = 1 /\ clk.SWIF = 0 /\ clk.SWR = request.source
Switched  == /\ Asked /\ clk.SWBSY = 0 /\ clk.SWIF = 1 /\ clk.SWIEN = 1
             /\ clk.SCSR = request.source
Settled ==
  /\ clk.SWBSY = 0 /\ clk.SWIF = 0
  /\ IF Refused(request.prescaler)
     THEN clk.SCSR = CLK_SOURCE_HSI /\ clk.CKM = 3
     ELSE clk.SCSR = request.source /\ clk.CKM = request.prescaler

ClockInv ==
  /\ StartTypeOK
  /\ phase = "setClock" => /\ clk.SWBSY = 0 /\ clk.SWIF = 0
                           /\ clk.SCSR = CLK_SOURCE_HSI /\ clk.CKM = 3
  /\ phase = "busy" => (Switching /\ clk.SWIEN = 1) \/ Switched \/ Settled
  /\ phase = "attach" => Switched \/ Settled
  /\ phase = "tests" => /\ Settled /\ (timer.on <=> ~TooSlow)
                        /\ timer.on => timer.PSC = Halvings(Divider)
  /\ phase # "tests" => timer = NotAttached

LEMMA IntervalSize ==
  ASSUME NEW n \in Nat
  PROVE  IsFiniteSet(1 .. n) /\ Cardinality(1 .. n) = n
<1>1. IsFiniteSet(1 .. n) /\ Cardinality(1 .. n) = IF 1 > n THEN 0 ELSE n - 1 + 1
  BY FS_Interval
<1>2. QED BY <1>1

LEMMA HalvingsType ==
  ASSUME NEW d
  PROVE  Halvings(d) \in 0 .. TIMER_PRESCALER_MASK
<1>1. ASSUME NEW n \in Nat, NEW S \in SUBSET (1 .. n)
      PROVE  Cardinality(S) \in 0 .. n
  <2>1. IsFiniteSet(1 .. n) /\ Cardinality(1 .. n) = n
    BY IntervalSize
  <2>2. IsFiniteSet(S) /\ Cardinality(S) <= n
    BY <2>1, FS_Subset
  <2>3. Cardinality(S) \in Nat
    BY <2>2, FS_CardinalityType
  <2>4. QED BY <2>2, <2>3
<1>2. QED BY <1>1 DEF Halvings, TIMER_PRESCALER_MASK

\* drvOneWireAttach leaves the timer off on a clock that is too slow, and
\* never because of the prescaler.
LEMMA AttachType ==
  ASSUME Attach, timer = NotAttached
  PROVE  /\ timer' \in [on : BOOLEAN, PSC : 0 .. TIMER_PRESCALER_MASK]
         /\ timer'.on <=> ~TooSlow
         /\ timer'.on => timer'.PSC = Halvings(Divider)
<1>1. Halvings(Divider) \in 0 .. TIMER_PRESCALER_MASK
  BY HalvingsType
<1>2. ~(Halvings(Divider) > TIMER_PRESCALER_MASK)
  BY <1>1 DEF TIMER_PRESCALER_MASK
<1>3. timer' = IF TooSlow THEN timer ELSE [on |-> TRUE, PSC |-> Halvings(Divider)]
  BY <1>2 DEF Attach
<1>4. CASE TooSlow
  <2>1. timer' = [on |-> FALSE, PSC |-> 0]
    BY <1>3, <1>4 DEF NotAttached
  <2>2. QED BY <1>4, <2>1 DEF TIMER_PRESCALER_MASK
<1>5. CASE ~TooSlow
  <2>1. timer' = [on |-> TRUE, PSC |-> Halvings(Divider)]
    BY <1>3, <1>5
  <2>2. QED BY <1>1, <1>5, <2>1
<1>6. QED BY <1>4, <1>5

LEMMA ClockStep ==
  ASSUME ClockInv, [StartNext]_allVars
  PROVE  ClockInv'
<1>. USE StartAssumption DEF StartTypeOK, ClkTypeOK, Phase, MASK_CKM, Refused
<1>1. CASE SetClock /\ UNCHANGED <<request, ticks>>
  <2>1. /\ phase = "setClock" /\ phase' = "busy" /\ timer = NotAttached
        /\ clk.SWBSY = 0 /\ clk.SWIF = 0
        /\ clk.SCSR = CLK_SOURCE_HSI /\ clk.CKM = 3
        /\ UNCHANGED <<request, ticks, timer, starts>>
    BY <1>1 DEF SetClock, SetSysClkSource, ClockInv
  <2>2. request.source \in Source /\ request.prescaler \in Byte
    BY DEF ClockInv
  <2>3. CASE Refused(request.prescaler) /\ UNCHANGED <<clk, desiredPrescaler>>
    BY <2>1, <2>3 DEF ClockInv, Settled
  <2>4. CASE /\ ~Refused(request.prescaler) /\ request.source = clk.SCSR
             /\ clk' = [clk EXCEPT !.CKM = request.prescaler]
             /\ UNCHANGED desiredPrescaler
    <3>1. request.prescaler \in 0 .. MASK_CKM
      BY <2>2, <2>4 DEF Byte
    <3>2. QED BY <2>1, <2>4, <3>1 DEF ClockInv, Settled
  <2>5. CASE ~Refused(request.prescaler)
             /\ BeginSwitch(request.source, request.prescaler)
    BY <2>1, <2>2, <2>5 DEF BeginSwitch, ClockInv, Switching, Asked
  <2>6. QED BY <1>1, <2>3, <2>4, <2>5 DEF SetClock, SetSysClkSource
<1>2. CASE BusyOver /\ UNCHANGED <<request, ticks>>
  BY <1>2 DEF BusyOver, clkVars, ClockInv, Switching, Switched, Settled, Asked
<1>3. CASE AttachDriver /\ UNCHANGED <<request, ticks>>
  <2>1. /\ phase = "attach" /\ phase' = "tests" /\ timer = NotAttached
        /\ ~SwitchPending /\ Attach
        /\ UNCHANGED <<request, ticks, clk, desiredPrescaler, starts>>
    BY <1>3 DEF AttachDriver, clkVars, ClockInv
  <2>2. /\ timer' \in [on : BOOLEAN, PSC : 0 .. TIMER_PRESCALER_MASK]
        /\ timer'.on <=> ~TooSlow
        /\ timer'.on => timer'.PSC = Halvings(Divider)
    BY <2>1, AttachType
  <2>3. Settled
    BY <2>1 DEF ClockInv, Switched, SwitchPending
  <2>4. Settled' /\ (TooSlow' <=> TooSlow) /\ Divider' = Divider
    BY <2>1, <2>3 DEF Settled, TooSlow, Divider, GetSysClk,
                      TIMER_SOURCE_FREQUENCE
  <2>5. QED BY <2>1, <2>2, <2>4 DEF ClockInv
<1>4. CASE SwitchDone /\ UNCHANGED startVars
  <2>1. phase = "busy" /\ Switching /\ clk.SWIEN = 1
    BY <1>4 DEF SwitchDone, ClockInv, Switching, Switched, Settled
  <2>2. QED BY <1>4, <2>1 DEF SwitchDone, startVars, ClockInv, Switching,
                              Switched, Asked
<1>5. CASE SysclkSwitchComplete /\ UNCHANGED startVars
  <2>1. phase \in {"busy", "attach"} /\ Switched
    BY <1>5 DEF SysclkSwitchComplete, SwitchPending, ClockInv, Switching,
                Switched, Settled
  <2>2. desiredPrescaler \in 0 .. MASK_CKM
    BY <2>1 DEF ClockInv, Switched, Asked, Byte
  <2>3. QED BY <1>5, <2>1, <2>2 DEF SysclkSwitchComplete, startVars, ClockInv,
                                    Switched, Settled, Asked
<1>6. CASE UNCHANGED <<clkVars, startVars>>
  BY <1>6 DEF ClockInv, clkVars, startVars, Switching, Switched, Settled, Asked,
              TooSlow, Divider, GetSysClk, TIMER_SOURCE_FREQUENCE, NotAttached
<1>7. QED BY <1>1, <1>2, <1>3, <1>4, <1>5, <1>6
  DEF StartNext, StartUp, Clock, Tests, Finish, Other, Testing, allVars

LEMMA ClockInvariance == StartSpec => []ClockInv
<1>1. StartInit => ClockInv
  BY StartAssumption DEF StartInit, ClkInit, ClockInv, StartTypeOK, ClkTypeOK,
     Phase, NotAttached, Source, CLK_SOURCE_HSI, MASK_CKM, Byte,
     TIMER_PRESCALER_MASK
<1>2. QED BY <1>1, ClockStep, PTL DEF StartSpec

\* Whatever clock main asks for its tests run on it, and the driver is attached
\* unless that clock is too slow.
THEOREM ClockIsAsRequested == StartSpec => []ClockAsRequested
<1>1. ClockInv => ClockAsRequested
  BY DEF ClockInv, Settled, ClockAsRequested, TooSlow, SwitchPending
<1>2. QED BY <1>1, ClockInvariance, PTL

-----------------------------------------------------------------------------
\* The halvings of a power of two are counted right ...
LEMMA Powers ==
  /\ 2^0 = 1 /\ 2^1 = 2 /\ 2^2 = 4 /\ 2^3 = 8
  /\ 2^4 = 16 /\ 2^5 = 32 /\ 2^6 = 64 /\ 2^7 = 128
OBVIOUS

LEMMA PowerOf ==
  ASSUME NEW k \in 0 .. 7
  PROVE  \/ k = 0 /\ 2^k = 1
         \/ k = 1 /\ 2^k = 2
         \/ k = 2 /\ 2^k = 4
         \/ k = 3 /\ 2^k = 8
         \/ k \in {4, 5, 6, 7} /\ 2^k \in {16, 32, 64, 128}
<1>1. CASE k = 0
  BY <1>1, Powers
<1>2. CASE k = 1
  BY <1>2, Powers
<1>3. CASE k = 2
  BY <1>3, Powers
<1>4. CASE k = 3
  BY <1>4, Powers
<1>5. CASE k = 4
  BY <1>5, Powers
<1>6. CASE k = 5
  BY <1>6, Powers
<1>7. CASE k = 6
  BY <1>7, Powers
<1>8. CASE k = 7
  BY <1>8, Powers
<1>9. k \in {0, 1, 2, 3, 4, 5, 6, 7}
  OBVIOUS
<1>10. QED BY <1>1, <1>2, <1>3, <1>4, <1>5, <1>6, <1>7, <1>8, <1>9

LEMMA HalvingsOf ==
  ASSUME NEW d, NEW n \in 0 .. 3,
         \A k \in 1 .. 7 : 2^k <= d <=> k <= n
  PROVE  Halvings(d) = n
<1>1. {k \in 1 .. 7 : 2^k <= d} = {k \in 1 .. 7 : k <= n}
  BY Zenon
<1>2. {k \in 1 .. 7 : k <= n} = 1 .. n
  OBVIOUS
<1>3. Halvings(d) = Cardinality(1 .. n)
  BY <1>1, <1>2, Zenon DEF Halvings
<1>4. QED BY <1>3, IntervalSize

LEMMA HalvingsCount ==
  /\ Halvings(1) = 0 /\ Halvings(2) = 1
  /\ Halvings(4) = 2 /\ Halvings(8) = 3
<1>1. ASSUME NEW k \in 1 .. 7
      PROVE  /\ 2^k <= 1 <=> k <= 0
             /\ 2^k <= 2 <=> k <= 1
             /\ 2^k <= 4 <=> k <= 2
             /\ 2^k <= 8 <=> k <= 3
  <2>1. /\ k \in 0 .. 7
        /\ k # 0
    OBVIOUS
  <2>2. \/ k = 1 /\ 2^k = 2
        \/ k = 2 /\ 2^k = 4
        \/ k = 3 /\ 2^k = 8
        \/ k \in {4, 5, 6, 7} /\ 2^k \in {16, 32, 64, 128}
    BY <2>1, PowerOf, Zenon
  <2>3. CASE k \in {4, 5, 6, 7} /\ 2^k \in {16, 32, 64, 128}
    BY <2>3
  <2>4. CASE \/ k = 1 /\ 2^k = 2
             \/ k = 2 /\ 2^k = 4
             \/ k = 3 /\ 2^k = 8
    BY <2>4
  <2>5. QED BY <2>2, <2>3, <2>4
<1>2. QED BY <1>1, HalvingsOf

\* ... and every clock that is not too slow is such a power times the rate:
\* the two fast oscillators are 16 MHz, the others slower than any rate.
LEMMA EveryRate ==
  ASSUME StartTypeOK, ~TooSlow
  PROVE  GetSysClk = TIMER_SOURCE_FREQUENCE * 2^Halvings(Divider)
<1>1. /\ clk.SCSR \in Source /\ clk.CKM \in 0 .. 7 /\ ticks \in {2, 4}
      /\ 2^clk.CKM \in {1, 2, 4, 8, 16, 32, 64, 128}
  <2>1. clk.SCSR \in Source /\ clk.CKM \in 0 .. 7 /\ ticks \in {2, 4}
    BY StartAssumption DEF StartTypeOK, ClkTypeOK, MASK_CKM
  <2>2. QED BY <2>1, PowerOf
<1>2. ~(GetSysClk < ticks * 1000000)
  BY DEF TooSlow, TIMER_SOURCE_FREQUENCE
<1>3. Hz(clk.SCSR) = 16000000
  <2>1. Hz(clk.SCSR) \in {16000000, 38000, 32768}
    BY <1>1 DEF Source, Hz, CLK_SOURCE_HSI, CLK_SOURCE_LSI, CLK_SOURCE_HSE,
                CLK_SOURCE_LSE
  <2>2. ASSUME Hz(clk.SCSR) \in {38000, 32768} PROVE FALSE
    <3>1. GetSysClk <= 38000
      BY <1>1, <2>2 DEF GetSysClk
    <3>2. GetSysClk \in Int
      BY <1>1, <2>2 DEF GetSysClk
    <3>3. QED BY <1>1, <1>2, <3>1, <3>2
  <2>3. QED BY <2>1, <2>2
<1>4. \E n \in {1, 2, 4, 8} : GetSysClk = TIMER_SOURCE_FREQUENCE * n
  <2>1. GetSysClk \in {16000000, 8000000, 4000000, 2000000, 1000000, 500000,
                       250000, 125000}
    BY <1>1, <1>3 DEF GetSysClk
  <2>2. QED BY <1>1, <1>2, <2>1 DEF TIMER_SOURCE_FREQUENCE
<1>5. PICK n \in {1, 2, 4, 8} : GetSysClk = TIMER_SOURCE_FREQUENCE * n
  BY <1>4
<1>6. Divider = n
  BY <1>1, <1>5 DEF Divider, TIMER_SOURCE_FREQUENCE
<1>7. 2^Halvings(n) = n
  BY HalvingsCount, Powers
<1>8. QED BY <1>5, <1>6, <1>7

\* The timer of an attached driver counts at the rate the durations are given
\* in, whichever clock main asked for, in either build: the attach finds the
\* clock after the switch, and its prescaler divides it without a remainder.
THEOREM RateIsRight == StartSpec => []RateRight
<1>1. ClockInv => RateRight
  <2>1. SUFFICES ASSUME ClockInv, timer.on
                 PROVE  GetSysClk = TIMER_SOURCE_FREQUENCE * 2^timer.PSC
    BY DEF RateRight
  <2>2. phase = "tests"
    BY <2>1 DEF ClockInv, NotAttached, StartTypeOK
  <2>3. StartTypeOK /\ ~TooSlow /\ timer.PSC = Halvings(Divider)
    BY <2>1, <2>2 DEF ClockInv
  <2>4. QED BY <2>3, EveryRate
<1>2. QED BY <1>1, ClockInvariance, PTL
=============================================================================
