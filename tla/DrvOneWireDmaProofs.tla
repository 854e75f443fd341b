------------------------- MODULE DrvOneWireDmaProofs -------------------------
(***************************************************************************)
(* Proofs about DrvOneWireDma, for every value of its constants: types,    *)
(* that nothing of the driver runs between operations, that every step is  *)
(* one its caller may expect, that the bits a complete exchange returns    *)
(* are those of the bus, that a PRESENCE is reported if and only if it was *)
(* on the line, and that nothing completes against the active pull-up.     *)
(***************************************************************************)
EXTENDS DrvOneWireDma, DrvOneWireProofs

-----------------------------------------------------------------------------
\* The driver keeps its types, and ends every operation quiescent.
LEMMA CompleteDmaQuiet ==
  ASSUME NEW d \in Dma
  PROVE  ~CompleteDma(d).clk /\ ~CompleteDma(d).cc1de /\ ~CompleteDma(d).cc2de
BY CompleteDmaIdle, DmaAssumption

\* Whatever ends an operation leaves the driver quiescent.
LEMMA CompleteQuiescent ==
  ASSUME NEW t, NEW d \in Dma, NEW result, OperationComplete(t, d, result),
         AtRest'
  PROVE  Quiescent'
BY CompleteDmaQuiet DEF OperationComplete, Quiescent

\* The buffer of pulses to send holds elements of its width.
LEMMA FillDurationsType ==
  ASSUME DrvTypeOK, NEW r \in Request
  PROVE  FillDurations(r) \in [Index -> 0 .. DmaModulus - 1]
<1>1. ASSUME NEW i \in Index
      PROVE  (IF i < r.n - 1
              THEN BIT_DURATION(overdrive, r.bits[r.n - 1 - i]) % DmaModulus
              ELSE durations[i]) \in 0 .. DmaModulus - 1
  <2>1. CASE i < r.n - 1
    <3>1. r.n - 1 - i \in Index
      BY <2>1 DEF Index, Request
    <3>2. r.bits[r.n - 1 - i] \in Flag /\ overdrive \in Flag
      BY <3>1 DEF Request, DrvTypeOK
    <3> QED BY <2>1, <3>2, BitTypes
  <2>2. CASE ~(i < r.n - 1)
    BY <2>2 DEF DrvTypeOK, BusTypeOK
  <2> QED BY <2>1, <2>2
<1> QED BY <1>1 DEF FillDurations

\* One step of the driver or of its caller keeps the types: an exchange
\* of bits is started.
LEMMA TxBitsType ==
  ASSUME TypeOK, NEW r \in Requests, TxBits(r)
  PROVE  DrvTypeOK'
<1> DEFINE t1 == SetPwmLevel(TxPrepared, BIT_DURATION(overdrive, r.bits[0]))
           d1 == PrepareCaptureDma(DmaAttach(dma), r.n)
           t2 == IF r.n > 1 THEN t1 ELSE EnableOverflowIrq(t1)
           d2 == IF r.n > 1 THEN PreparePwmDma(d1, r.n - 1) ELSE d1
           t3 == FireOverflowEvent(TimerStart(t2), pullup)
<1>1. /\ r \in Request /\ pullup \in BOOLEAN /\ overdrive \in Flag
      /\ dma \in Dma /\ DrvTypeOK
  BY DrvAssumption DEF TypeOK, DrvTypeOK, BusTypeOK
<1>2. r.bits[0] \in Flag /\ r.n \in 0 .. 8 /\ (r.n > 1 => r.n - 1 \in 0 .. 8)
  BY <1>1 DEF Request, Index
<1>3. t1 \in Tim
  <2>1. BIT_DURATION(overdrive, r.bits[0]) \in Word
    BY <1>1, <1>2, BitTypes
  <2> QED BY <1>1, <2>1, TxPreparedType, TimValueOps, <1>2
<1>4. t2 \in Tim
  BY <1>1, <1>3, TimFlagOps
<1>5. t3 \in Tim /\ t3.cnt <= t3.arr
  BY <1>1, <1>4, StartedType
<1>6. DmaOn(d2) \in Dma
  <2>1. d1 \in Dma
    BY <1>1, <1>2, DmaOps, DmaPrepareOps
  <2>2. d2 \in Dma
    BY <1>2, <2>1, DmaPrepareOps
  <2> QED BY <2>2, DmaOps
<1>7. dma' = DmaOn(d2) /\ TxStarted(r, t3) /\ Begin("io")
  BY DEF TxBits
<1>8. durations' \in [Index -> 0 .. DmaModulus - 1]
  BY <1>1, FillDurationsType DEF TxBits
<1> HIDE DEF t1, t2, t3, d1, d2
<1> QED BY <1>1, <1>5, <1>6, <1>7, <1>8, TxStartedType

\* It is refused, and leaves the driver quiescent.
LEMMA TxBitsRefusedType ==
  ASSUME TypeOK, NEW r \in Requests, TxBitsRefused(r)
  PROVE  DrvTypeOK' /\ Quiescent'
<1>1. DrvTypeOK /\ TxPrepared \in Tim /\ dma \in Dma
  BY TxPreparedType DEF TypeOK, DrvTypeOK, BusTypeOK
<1>2. /\ tim' \in Tim /\ (tim'.cen => tim'.cnt <= tim'.arr)
      /\ dma' \in Dma
      /\ status' \in Op!Status /\ al' \in {0, 1}
      /\ Quiescent'
  BY <1>1, OperationCompleteRests, CompleteQuiescent, OpStatus
     DEF TxBitsRefused
<1>3. NoTrace \in Trace
  BY DEF NoTrace, Trace
<1>4. BusTypeOK'
  BY <1>1, <1>2, <1>3 DEF DrvTypeOK, BusTypeOK, TxBitsRefused, Begin
<1>5. Op!TypeOK'
  BY <1>1, <1>2 DEF DrvTypeOK, Op!TypeOK, TxBitsRefused, Begin
<1>6. r \in Request
  BY DrvAssumption
<1> QED BY <1>1, <1>2, <1>4, <1>5, <1>6 DEF DrvTypeOK, TxBitsRefused, Begin

\* The timer after the first part of isrOneWirePwmCapture.
LEMMA AfterPwmType ==
  ASSUME NEW t \in Tim
  PROVE  LET u == AfterPwm(t)
         IN  u \in Tim /\ u.cen = t.cen /\ u.cnt = t.cnt /\ u.arr = t.arr
<1>1. ClearPwm(t) \in Tim
  BY TimFlagOps
<1> QED BY <1>1, EndResetPulseType DEF AfterPwm, ClearPwm, Tim

\* A handler keeps the types, and disarms its DMA when it ends an operation.
LEMMA DispatchServed ==
  ASSUME TypeOK, Dispatch
  PROVE  /\ Served
         /\ status' # status => ~dma'.clk /\ ~dma'.cc1de /\ ~dma'.cc2de
<1>1. /\ tim \in Tim /\ dma \in Dma /\ mark \in Word /\ DrvTypeOK
      /\ tim.cen => tim.cnt <= tim.arr
      /\ presence \in {0, 1} /\ al \in {0, 1} /\ status \in Op!Status
  BY DEF TypeOK, DrvTypeOK, BusTypeOK, Op!TypeOK
<1>2. {Op!COMPLETE, Op!ERROR} \subseteq Op!Status
  BY OpStatus
<1>3. \A d \in Dma : ~CompleteDma(d).clk /\ ~CompleteDma(d).cc1de
                                         /\ ~CompleteDma(d).cc2de
  BY CompleteDmaQuiet
<1> DEFINE Goal ==
      /\ Served
      /\ status' # status => ~dma'.clk /\ ~dma'.cc1de /\ ~dma'.cc2de
<1>4. ASSUME IsrPwmDma PROVE Goal
  <2>1. EnableOverflowIrq(tim) \in Tim
    BY <1>1, TimFlagOps
  <2>2. /\ EnableOverflowIrq(tim).cen = tim.cen
        /\ EnableOverflowIrq(tim).cnt = tim.cnt
        /\ EnableOverflowIrq(tim).arr = tim.arr
    BY <1>1 DEF EnableOverflowIrq, Tim
  <2>3. [dma EXCEPT !.tc1 = FALSE] \in Dma
    BY <1>1 DEF Dma
  <2> QED BY <1>1, <1>4, <2>1, <2>2, <2>3 DEF IsrPwmDma, Served
<1>5. ASSUME IsrCaptureDma PROVE Goal
  <2>1. [dma EXCEPT !.tc2 = FALSE] \in Dma
    BY <1>1 DEF Dma
  <2> QED BY <1>1, <1>2, <1>3, <1>5, <2>1, OperationCompleteRests
          DEF IsrCaptureDma, OperationComplete, Served
<1>6. ASSUME IsrPullupConflict PROVE Goal
  BY <1>1, <1>3, <1>6, IsrPullupConflictServed
     DEF IsrPullupConflict, OperationComplete
<1>7. ASSUME IsrOverflow PROVE Goal
  <2> DEFINE t == ClearOverflow(tim)
  <2>1. t \in Tim /\ t.cen = tim.cen /\ t.cnt = tim.cnt /\ t.arr = tim.arr
    BY <1>1, TimFlagOps DEF ClearOverflow, Tim
  <2>2. CASE BitsOverflow(t)
    <3>1. SetPwmLevel(t, 0) \in Tim
      <4>1. 0 \in Word /\ 0 \in Flag
        BY WordIsInt DEF Flag
      <4> QED BY <2>1, <4>1, TimValueOps
    <3>2. CASE tim' = SetPwmLevel(t, 0) /\ UNCHANGED <<dma, status, al>>
      <4>1. tim'.cen = tim.cen /\ tim'.cnt = tim.cnt /\ tim'.arr = tim.arr
        BY <2>1, <3>2 DEF SetPwmLevel, Tim
      <4> QED BY <1>1, <2>2, <3>1, <3>2, <4>1 DEF BitsOverflow, Served
    <3>3. CASE OperationComplete(t, dma, Op!ERROR)
      BY <1>1, <1>2, <1>3, <2>1, <2>2, <3>3, OperationCompleteRests
         DEF BitsOverflow, OperationComplete, Served
    <3> QED BY <2>2, <3>2, <3>3 DEF BitsOverflow
  <2>3. CASE ResetOverflow(t)
    BY <1>1, <1>3, <2>1, <2>3, ResetOverflowServed
       DEF ResetOverflow, OperationComplete
  <2> QED BY <1>7, <2>2, <2>3 DEF IsrOverflow
<1>8. ASSUME IsrPwmCapture PROVE Goal
  <2> DEFINE t == AfterPwm(tim)
  <2>1. t \in Tim /\ t.cen = tim.cen /\ t.cnt = tim.cnt /\ t.arr = tim.arr
    BY <1>1, AfterPwmType
  <2> HIDE DEF t
  <2>2. CASE /\ tim' = ClearCapture(t)
             /\ UNCHANGED <<dma, status, presence, mark, al>>
    <3>1. /\ tim' \in Tim /\ tim'.cen = tim.cen /\ tim'.cnt = tim.cnt
          /\ tim'.arr = tim.arr
      BY <2>1, <2>2, TimFlagOps DEF ClearCapture, Tim
    <3> QED BY <1>1, <2>2, <3>1 DEF Served
  <2>3. CASE PresenceEdge(t)
    BY <1>1, <1>3, <2>1, <2>3, PresenceEdgeServed
       DEF PresenceEdge, OperationComplete
  <2> QED BY <1>8, <2>2, <2>3 DEF IsrPwmCapture, t
<1> QED BY <1>4, <1>5, <1>6, <1>7, <1>8 DEF Dispatch

\* Between operations no handler has anything to serve.
LEMMA QuiescentIsIdle ==
  ASSUME Quiescent, Op!Ready
  PROVE  ~Dispatch /\ ~Compare /\ ~Overflow
BY AtRestIsIdle
   DEF Quiescent, Dispatch, IsrPwmDma, IsrCaptureDma, IsrPullupConflict,
       IsrOverflow, IsrPwmCapture, PwmDmaPending, CaptureDmaPending

Inv == TypeOK /\ Quiescent

\* Every step keeps it.
LEMMA InvNext ==
  ASSUME Inv, [Next]_vars
  PROVE  Inv'
<1>0. /\ TypeOK /\ Quiescent /\ DrvTypeOK /\ AtRest /\ BusTypeOK
      /\ dma \in Dma /\ other \in BOOLEAN
  BY DEF Inv, TypeOK, DrvTypeOK, BusTypeOK, Quiescent
<1>1. ASSUME DriverStep, UNCHANGED other
      PROVE  DrvTypeOK' /\ Quiescent'
  <2>1. CASE CommonStep
    <3>1. DrvTypeOK' /\ AtRest'
      BY <1>0, <2>1, CommonStepRests
    <3>2. ASSUME Op!Ready'
          PROVE  /\ Op!Ready
                 /\ dma'.clk = dma.clk /\ dma'.cc1de = dma.cc1de
                 /\ dma'.cc2de = dma.cc2de
                 /\ dma'.en1 = dma.en1 /\ dma'.en2 = dma.en2
      <4>1. ASSUME NEW od \in Speeds, Reset(od) PROVE FALSE
        BY <3>2, <4>1 DEF Reset, Begin, Op!Ready
      <4>2. CASE HardwareStep
        BY <1>0, <3>2, <4>2, HardwareKeeps DEF HardwareStep, drvVars, Op!Ready
      <4>3. CASE PullupStep
        BY <1>0, <3>2, <4>3, HardwareKeeps DEF PullupStep, Op!Ready
      <4>4. CASE SimulatePresence
        BY <3>2, <4>4 DEF SimulatePresence, Op!SimulatePresence, Op!Ready
      <4>5. CASE ConsumeEvent
        BY <3>2, <4>5 DEF ConsumeEvent, Op!ConsumeEvent, Op!Ready
      <4> QED BY <2>1, <4>1, <4>2, <4>3, <4>4, <4>5 DEF CommonStep
    <3> QED BY <1>0, <1>1, <3>1, <3>2 DEF Quiescent
  <2>2. ASSUME NEW r \in Requests, TxBits(r)
        PROVE  DrvTypeOK' /\ Quiescent'
    <3>1. ~Op!Ready'
      BY <2>2 DEF TxBits, TxStarted, Begin, Op!Ready
    <3> QED BY <1>0, <2>2, <3>1, TxBitsType DEF Quiescent, AtRest
  <2>3. ASSUME NEW r \in Requests, TxBitsRefused(r)
        PROVE  DrvTypeOK' /\ Quiescent'
    BY <1>0, <2>3, TxBitsRefusedType
  <2>4. CASE Dispatch
    <3>1. /\ Served
          /\ status' # status => ~dma'.clk /\ ~dma'.cc1de /\ ~dma'.cc2de
      BY <1>0, <2>4, DispatchServed
    <3>2. DrvTypeOK'
      BY <1>0, <2>4, <3>1, ServedType DEF Dispatch
    <3>3. ~Op!Ready
      BY <1>0, <2>4, QuiescentIsIdle
    <3>4. status' = status => ~Op!Ready'
      BY <2>4, <3>3 DEF Op!Ready, Dispatch
    <3> QED BY <3>1, <3>2, <3>4 DEF Quiescent, AtRest, Served
  <2> QED BY <1>1, <2>1, <2>2, <2>3, <2>4 DEF DriverStep
<1>2. ASSUME OtherAttach
      PROVE  DrvTypeOK' /\ Quiescent'
  <2>1. /\ DmaAttach(dma) \in Dma
        /\ DmaAttach(dma).cc1de = dma.cc1de /\ DmaAttach(dma).cc2de = dma.cc2de
        /\ ~DmaAttach(dma).en1 /\ ~DmaAttach(dma).en2
    BY <1>0, DmaOps, DmaAttachEffect
  <2> QED BY <1>0, <1>2, <2>1 DEF OtherAttach, drvVars, DrvTypeOK, BusTypeOK,
     Op!TypeOK, Quiescent, AtRest, Op!Ready
<1>3. ASSUME OtherDetach
      PROVE  DrvTypeOK' /\ Quiescent'
  <2>1. dma' \in Dma /\ ~dma'.clk
        /\ dma'.cc1de = dma.cc1de /\ dma'.cc2de = dma.cc2de
    BY <1>0, <1>3 DEF OtherDetach, Dma
  <2> QED BY <1>0, <1>3, <2>1 DEF OtherDetach, drvVars, DrvTypeOK, BusTypeOK,
     Op!TypeOK, Quiescent, AtRest, Op!Ready
<1>4. ASSUME UNCHANGED vars
      PROVE  DrvTypeOK' /\ Quiescent'
  BY <1>0, <1>4 DEF vars, busVars, drvVars, DrvTypeOK, BusTypeOK, Op!TypeOK,
     Quiescent, AtRest, Op!Ready
<1>5. other' \in BOOLEAN
  BY <1>0 DEF Next, OtherAttach, OtherDetach, vars
<1> QED BY <1>1, <1>2, <1>3, <1>4, <1>5 DEF Next, Inv, TypeOK

\* It holds at the start.
LEMMA InvInit == Init => Inv
<1>1. Init => Quiescent
  BY DrvInitial DEF Init, DrvInit, BusInit, Quiescent
<1> QED BY <1>1, DrvInitial DEF Init, Inv, TypeOK

\* It holds throughout.
LEMMA Invariance == Spec => []Inv
BY InvInit, InvNext, PTL DEF Spec

\* The registers, the DMA's memory and the driver's context keep their types,
\* and the running counter its range, whatever the constants are.
THEOREM TypeCorrect == Spec => []TypeOK
BY Invariance, PTL DEF Inv

\* Whatever path ends an operation (complete, error, timeout, pull-up
\* conflict, DMA refused), the driver leaves nothing running: between
\* operations no interrupt and no DMA request of its own is armed.
THEOREM AlwaysQuiescent == Spec => []Quiescent
BY Invariance, PTL DEF Inv

\* A handler only ever runs for an operation in progress: no interrupt of an
\* operation that is over reaches its successor or its result.
THEOREM HandlersServeOperations == Spec => [][Dispatch => Op!Busy]_vars
<1>1. Inv /\ [Next]_vars => [Dispatch => Op!Busy]_vars
  BY QuiescentIsIdle DEF Inv, Op!Busy
<1> QED BY <1>1, Invariance, PTL DEF Spec

-----------------------------------------------------------------------------
\* Who uses the DMA channels, and when bits are exchanged.
Roles ==
  /\ Op!Busy /\ call = "io" => presence = 1
  /\ dma.clk /\ (dma.en1 \/ dma.en2) => Op!Busy /\ call = "io"

\* They hold at the start.
LEMMA RolesInit == Init => Roles
BY DEF Init, DrvInit, BusInit, Op!Init, Roles, Op!Busy, Op!Ready

\* Every step keeps them.
LEMMA RolesNext ==
  ASSUME Inv, Roles, [Next]_vars
  PROVE  Roles'
<1> USE DEF Roles, Op!Busy, Op!Ready
<1>0. dma \in Dma /\ tim \in Tim /\ presence \in {0, 1} /\ BusTypeOK
  BY DEF Inv, TypeOK, DrvTypeOK, BusTypeOK, Op!TypeOK
<1>1. CASE CommonStep
  <2>1. ASSUME NEW od \in Speeds, Reset(od)
        PROVE  Roles'
    <3>1. dma'.clk = dma.clk /\ dma'.en1 = dma.en1 /\ dma'.en2 = dma.en2
      BY <1>0, <2>1 DEF Reset, Settle, CaptureTransfer, Dma
    <3> QED BY <2>1, <3>1 DEF Reset, Begin
  <2>2. CASE HardwareStep
    BY <1>0, <2>2, HardwareKeeps DEF HardwareStep, drvVars
  <2>3. CASE PullupStep
    BY <1>0, <2>3, HardwareKeeps DEF PullupStep
  <2>4. CASE SimulatePresence
    BY <2>4 DEF SimulatePresence, Op!SimulatePresence
  <2>5. CASE ConsumeEvent
    BY <2>5 DEF ConsumeEvent, Op!ConsumeEvent
  <2> QED BY <1>1, <2>1, <2>2, <2>3, <2>4, <2>5 DEF CommonStep
<1>2. ASSUME NEW r \in Requests, TxBits(r)
      PROVE  Roles'
  BY <1>2, OpStatus DEF TxBits, TxStarted, Begin
<1>3. ASSUME NEW r \in Requests, TxBitsRefused(r)
      PROVE  Roles'
  BY <1>0, <1>3, CompleteDmaQuiet, OpStatus
     DEF TxBitsRefused, OperationComplete, Begin
<1>4. CASE Dispatch
  <2>1. Op!Busy /\ call' = call
    BY <1>4, QuiescentIsIdle DEF Inv, Dispatch
  <2>2. \/ /\ dma' = dma \/ dma' = [dma EXCEPT !.tc1 = FALSE]
           /\ status' = status
        \/ dma' = CompleteDma(dma)
        \/ dma' = CompleteDma([dma EXCEPT !.tc2 = FALSE])
    BY <1>4 DEF Dispatch, IsrPwmDma, IsrCaptureDma, IsrPullupConflict,
       IsrOverflow, BitsOverflow, ResetOverflow, IsrPwmCapture, PresenceEdge,
       OperationComplete
  <2>3. presence' = presence \/ presence' = 1
    BY <1>4 DEF Dispatch, IsrPwmDma, IsrCaptureDma, IsrPullupConflict,
       IsrOverflow, BitsOverflow, ResetOverflow, IsrPwmCapture, PresenceEdge
  <2>4. [dma EXCEPT !.tc2 = FALSE] \in Dma
    BY <1>0 DEF Dma
  <2>5. ~CompleteDma(dma).clk /\ ~CompleteDma([dma EXCEPT !.tc2 = FALSE]).clk
    BY <1>0, <2>4, CompleteDmaQuiet
  <2> QED BY <1>0, <2>1, <2>2, <2>3, <2>5 DEF Dma
<1>5. CASE OtherAttach
  BY <1>0, <1>5 DEF OtherAttach, drvVars, DmaAttach, Dma
<1>6. CASE OtherDetach
  BY <1>0, <1>6 DEF OtherDetach, drvVars, Dma
<1>7. CASE UNCHANGED vars
  BY <1>7 DEF vars, busVars, drvVars
<1> QED BY <1>1, <1>2, <1>3, <1>4, <1>5, <1>6, <1>7 DEF Next, DriverStep

\* So they hold throughout.
LEMMA RolesInvariance == Spec => [](Inv /\ Roles)
<1>1. Inv /\ Roles /\ [Next]_vars => Inv' /\ Roles'
  BY InvNext, RolesNext
<1> QED BY <1>1, InvInit, RolesInit, PTL DEF Spec

-----------------------------------------------------------------------------
\* A handler's step is a step of OneWireOp: the operation's end, or nothing.
LEMMA DispatchSteps ==
  ASSUME Inv, Roles, Dispatch
  PROVE  Op!Finish \/ UNCHANGED Op!vars
<1>1. Op!Busy /\ call' = call
  BY QuiescentIsIdle DEF Inv, Op!Busy, Dispatch
<1>2. CASE IsrPwmDma
  BY <1>1, <1>2 DEF IsrPwmDma, Op!vars
<1>3. CASE IsrCaptureDma
  <2>1. presence = 1
    BY <1>1, <1>3 DEF Roles, IsrCaptureDma, CaptureDmaPending
  <2> QED BY <1>1, <1>3, <2>1, FinishOp DEF IsrCaptureDma
<1>4. CASE IsrPullupConflict
  BY <1>1, <1>4, CommonServedOp
<1>5. CASE IsrOverflow
  <2>1. CASE BitsOverflow(ClearOverflow(tim))
    BY <1>1, <2>1, FinishOp, OpStatus DEF BitsOverflow, Op!vars
  <2> QED BY <1>1, <1>5, <2>1, CommonServedOp DEF IsrOverflow
<1>6. CASE IsrPwmCapture
  BY <1>1, <1>6, CommonServedOp DEF IsrPwmCapture, Op!vars
<1> QED BY <1>2, <1>3, <1>4, <1>5, <1>6 DEF Dispatch

\* Every step of the driver is a step of OneWireOp or none.
LEMMA StepsNext ==
  ASSUME Inv, Roles, [Next]_vars
  PROVE  [Op!Next]_(Op!vars)
<1> USE DEF Op!Next, Op!vars
<1>1. CASE CommonStep
  BY <1>1, CommonStepOp DEF Inv, TypeOK
<1>2. ASSUME NEW r \in Requests, TxBits(r)
      PROVE  Op!StartIo
  BY <1>2 DEF TxBits, TxStarted, Begin, Op!StartIo
<1>3. ASSUME NEW r \in Requests, TxBitsRefused(r)
      PROVE  Op!RefuseIo
  BY <1>3 DEF TxBitsRefused, Begin, OperationComplete, Op!RefuseIo
<1>4. CASE Dispatch
  BY <1>4, DispatchSteps
<1>5. CASE OtherAttach
  BY <1>5 DEF OtherAttach, drvVars
<1>6. CASE OtherDetach
  BY <1>6 DEF OtherDetach, drvVars
<1>7. CASE UNCHANGED vars
  BY <1>7 DEF vars, busVars, drvVars
<1> QED BY <1>1, <1>2, <1>3, <1>4, <1>5, <1>6, <1>7 DEF Next, DriverStep

\* The driver implements OneWireOp, its liveness apart: an operation starts
\* only when none is in progress, ends once, with the event fired, and PRESENCE
\* is learnt by a RESET alone.
THEOREM DriverImplementsOp == Spec => OpSteps
<1>1. Init => Op!Init
  BY DEF Init, DrvInit
<1>2. Inv /\ Roles /\ [Next]_vars => [Op!Next]_(Op!vars)
  BY StepsNext
<1> QED BY <1>1, <1>2, RolesInvariance, PTL DEF Spec, OpSteps

-----------------------------------------------------------------------------
\* What was on the bus is what is read.  RxTrack is split: what is in place,
\* and how the capture is armed while the exchange runs.
Exchange == call = "io" /\ status # Op!ERROR

Stored == request.n - dma.n2

InPlace ==
  /\ dma.n2 <= request.n /\ Stored <= Len(wire.rises)
  /\ \A k \in 0 .. Stored - 1 :
       durations[request.n - 1 - k] = wire.rises[k + 1] % DmaModulus
  /\ \A i \in DOMAIN wire.rises :
       wire.rises[i] <= IO_BIT_PROCEDURE_DURATION(overdrive)

Armed ==
  /\ tim.cen /\ tim.cc2p = Rising
  /\ tim.arr = IO_BIT_PROCEDURE_DURATION(overdrive)
  /\ CaptureRequestServed(dma) => Stored = Len(wire.rises)
  /\ CaptureDmaPending => dma.n2 = 0

\* The invariant in the parts the proof needs.
LEMMA RxTrackParts ==
  RxTrack <=> (Exchange => /\ InPlace
                           /\ status = Op!COMPLETE => dma.n2 = 0
                           /\ status = Op!PROGRESS => Armed)
BY DEF RxTrack, Exchange, InPlace, Armed, Stored

\* Nothing the invariant speaks of changes.
LEMMA RxTrackFrame ==
  ASSUME RxTrack,
         UNCHANGED <<status, call, request, overdrive, durations, wire>>,
         dma'.n2 = dma.n2, dma'.tc2 = dma.tc2,
         dma'.clk => dma.clk, dma'.gen => dma.gen,
         dma'.cc2de => dma.cc2de, dma'.en2 => dma.en2,
         tim'.cen = tim.cen, tim'.cc2p = tim.cc2p, tim'.arr = tim.arr
  PROVE  RxTrack'
BY DEF RxTrack, CaptureRequestServed, CaptureDmaPending

\* An edge on the line while bits are exchanged: it is stored in its place.
LEMMA RxTrackSettle ==
  ASSUME Inv, RxTrack, Exchange, status = Op!PROGRESS,
         NEW t \in Tim, t.cen = tim.cen, t.cc2p = tim.cc2p, t.arr = tim.arr,
         t.cnt <= t.arr,
         NEW d \in Dma, d.n2 = dma.n2, d.tc2 = dma.tc2, d.clk = dma.clk,
         d.gen = dma.gen, d.cc2de = dma.cc2de, d.en2 = dma.en2, NEW h,
         NEW w, w.rises = wire.rises, Settle(t, d, h, w),
         UNCHANGED <<status, call, request, overdrive>>
  PROVE  RxTrack'
<1>1. InPlace /\ Armed
  BY RxTrackParts
<1>2. /\ dma \in Dma /\ durations \in [Index -> 0 .. DmaModulus - 1]
      /\ wire \in Trace /\ request \in Request
  BY DEF Inv, TypeOK, DrvTypeOK, BusTypeOK
<1>3. Stored \in Int /\ request.n - dma.n2 = Stored
  BY <1>2 DEF Stored, Request, Dma
<1>4. /\ dma.n2 \in Nat /\ request.n \in Nat /\ request.n <= 8
      /\ wire.rises \in Seq(Word) /\ t.cnt \in Word /\ t.cnt \in Int
  BY SMTT(20), <1>2, WordIsInt DEF Dma, Request, Trace, Tim
<1>5. /\ tim'.cen = tim.cen /\ tim'.cc2p = tim.cc2p /\ tim'.arr = tim.arr
  BY DEF Settle, Tim
<1>6. \/ wire'.rises = wire.rises /\ durations' = durations /\ dma' = d
      \/ /\ wire'.rises = Append(wire.rises, t.cnt)
         /\ IF CaptureRequestServed(d)
            THEN /\ dma' = CaptureTransfer(d)
                 /\ durations' =
                      [durations EXCEPT ![d.n2 - 1] = t.cnt % DmaModulus]
            ELSE dma' = d /\ durations' = durations
  BY <1>1 DEF Settle, Armed, Rising, Falling
<1>7. CASE wire'.rises = wire.rises /\ durations' = durations /\ dma' = d
  <2>1. InPlace' /\ Armed'
    BY <1>1, <1>5, <1>7
       DEF InPlace, Armed, Stored, CaptureRequestServed, CaptureDmaPending
  <2> QED BY <2>1, RxTrackParts, OpStatus DEF RxTrack, InPlace, Armed, Stored
<1>8. CASE /\ wire'.rises = Append(wire.rises, t.cnt)
           /\ ~CaptureRequestServed(d)
           /\ dma' = d /\ durations' = durations
  <2>1. /\ Len(wire'.rises) = Len(wire.rises) + 1
        /\ \A i \in 1 .. Len(wire.rises) : wire'.rises[i] = wire.rises[i]
        /\ wire'.rises[Len(wire.rises) + 1] = t.cnt
        /\ DOMAIN wire'.rises = 1 .. Len(wire.rises) + 1
        /\ DOMAIN wire.rises = 1 .. Len(wire.rises)
    BY <1>4, <1>8
  <2>2. Armed'
    BY <1>1, <1>5, <1>8
       DEF Armed, Stored, CaptureRequestServed, CaptureDmaPending
  <2>3. InPlace'
    <3>1. Stored' = Stored /\ dma'.n2 = dma.n2
      BY <1>8 DEF Stored
    <3>2. \A k \in 0 .. Stored - 1 :
            k + 1 \in 1 .. Len(wire.rises)
            /\ wire'.rises[k + 1] = wire.rises[k + 1]
      <4>1. Stored <= Len(wire.rises) /\ Len(wire.rises) \in Nat
        BY <1>1, <1>4 DEF InPlace
      <4>2. \A k \in 0 .. Stored - 1 : k + 1 \in 1 .. Len(wire.rises)
        BY <1>3, <4>1
      <4> QED BY <2>1, <4>2
    <3>3. \A i \in DOMAIN wire'.rises :
            wire'.rises[i] <= IO_BIT_PROCEDURE_DURATION(overdrive)
      BY <1>1, <1>4, <2>1 DEF InPlace, Armed
    <3>4. Stored' <= Len(wire'.rises)
      BY <1>1, <1>3, <1>4, <2>1, <3>1 DEF InPlace
    <3> QED BY <1>1, <1>8, <3>1, <3>2, <3>3, <3>4 DEF InPlace
  <2> QED BY <2>2, <2>3, OpStatus DEF RxTrack, InPlace, Armed, Stored
<1>9. CASE /\ wire'.rises = Append(wire.rises, t.cnt)
           /\ CaptureRequestServed(d)
           /\ dma' = CaptureTransfer(d)
           /\ durations' = [durations EXCEPT ![d.n2 - 1] = t.cnt % DmaModulus]
  <2>1. /\ Len(wire'.rises) = Len(wire.rises) + 1
        /\ \A i \in 1 .. Len(wire.rises) : wire'.rises[i] = wire.rises[i]
        /\ wire'.rises[Len(wire.rises) + 1] = t.cnt
        /\ DOMAIN wire'.rises = 1 .. Len(wire.rises) + 1
        /\ DOMAIN wire.rises = 1 .. Len(wire.rises)
        /\ Len(wire.rises) \in Nat
    BY <1>4, <1>9
  <2>2. Stored = Len(wire.rises) /\ dma.n2 > 0 /\ dma.n2 <= request.n
    BY <1>1, <1>9 DEF Armed, InPlace, CaptureRequestServed
  <2>3. /\ dma'.n2 = dma.n2 - 1 /\ (dma'.tc2 => dma.tc2 \/ dma.n2 = 1)
        /\ dma'.clk = dma.clk /\ dma'.en2 = dma.en2
    BY <1>9 DEF CaptureTransfer, Dma
  <2>4. Armed'
    BY <1>1, <1>4, <1>5, <2>1, <2>2, <2>3
       DEF Armed, Stored, CaptureDmaPending
  <2>5. Stored' = Stored + 1 /\ Stored \in Nat
    BY <1>3, <1>4, <2>1, <2>2, <2>3 DEF Stored
  <2>6. \A k \in 0 .. Stored' - 1 :
          durations'[request.n - 1 - k] = wire'.rises[k + 1] % DmaModulus
    <3> SUFFICES ASSUME NEW k \in 0 .. Stored' - 1
                 PROVE  durations'[request.n - 1 - k]
                          = wire'.rises[k + 1] % DmaModulus
      OBVIOUS
    <3>1. k \in Nat /\ k < Stored + 1 /\ request.n - 1 - k \in Index
      <4>1. k \in Nat /\ k < Stored + 1
        BY <2>5
      <4>2. request.n - 1 - k \in Nat /\ request.n - 1 - k <= 7
        BY <1>3, <1>4, <2>2, <4>1
      <4> QED BY <4>1, <4>2 DEF Index
    <3>2. CASE k = Stored
      <4>1. request.n - 1 - k = d.n2 - 1
        BY <1>3, <1>4, <3>2
      <4>2. wire'.rises[k + 1] = t.cnt
        BY <2>1, <2>2, <3>2
      <4> QED BY <1>2, <1>9, <3>1, <4>1, <4>2
    <3>3. CASE k # Stored
      <4>1. k \in 0 .. Stored - 1 /\ request.n - 1 - k # d.n2 - 1
        BY <1>3, <1>4, <2>5, <3>1, <3>3
      <4>2. wire'.rises[k + 1] = wire.rises[k + 1]
        <5>1. k + 1 \in 1 .. Len(wire.rises)
          BY <2>1, <2>2, <2>5, <4>1
        <5> QED BY <2>1, <5>1
      <4>3. durations'[request.n - 1 - k] = durations[request.n - 1 - k]
        BY <1>2, <1>9, <3>1, <4>1
      <4> QED BY <1>1, <4>1, <4>2, <4>3 DEF InPlace
    <3> QED BY <3>2, <3>3
  <2>7. InPlace'
    <3>1. \A i \in DOMAIN wire'.rises :
            wire'.rises[i] <= IO_BIT_PROCEDURE_DURATION(overdrive)
      BY <1>1, <1>4, <2>1 DEF InPlace, Armed
    <3>2. dma'.n2 <= request.n /\ Stored' <= Len(wire'.rises)
      BY <1>4, <2>1, <2>2, <2>3 DEF Stored
    <3> QED BY <2>6, <3>1, <3>2 DEF InPlace
  <2> QED BY <2>4, <2>7, OpStatus DEF RxTrack, InPlace, Armed, Stored
<1> QED BY <1>6, <1>7, <1>8, <1>9

\* Between operations an edge changes neither the buffer nor the history.
LEMMA RxTrackIdle ==
  ASSUME Inv, RxTrack, Op!Ready,
         NEW t \in Tim, ~t.cen, NEW h,
         Settle(t, dma, h, wire),
         UNCHANGED <<status, call, request, overdrive>>
  PROVE  RxTrack'
<1>1. ~CaptureRequestServed(dma)
  BY DEF Inv, Quiescent, CaptureRequestServed
<1>2. dma' = dma /\ durations' = durations /\ wire'.rises = wire.rises
  BY <1>1 DEF Settle
<1>3. call = "io" => status # Op!PROGRESS
  BY DEF Op!Ready
<1> QED BY <1>2, <1>3, OpStatus DEF RxTrack

\* The hardware keeps it.
LEMMA RxTrackHardware ==
  ASSUME Inv, RxTrack, HardwareStep
  PROVE  RxTrack'
<1>1. UNCHANGED <<status, call, request, overdrive>>
  BY DEF HardwareStep, drvVars, Hardware, Compare, Overflow, DevicePull,
     DeviceRelease
<1>2. /\ tim \in Tim /\ dma \in Dma /\ wire \in Trace
      /\ durations \in [Index -> 0 .. DmaModulus - 1]
      /\ tim.cen => tim.cnt <= tim.arr
  BY DEF Inv, TypeOK, DrvTypeOK, BusTypeOK
<1>3. CASE Exchange /\ status = Op!PROGRESS
  <2>1. CASE Compare
    <3> DEFINE t == [tim EXCEPT !.cnt = tim.pwm, !.cc1if = TRUE]
               u == LoadPwm(t, durations[dma.n1 - 1])
    <3>1. /\ t \in Tim /\ t.cen = tim.cen /\ t.cc2p = tim.cc2p
          /\ t.arr = tim.arr /\ t.cnt <= t.arr
      BY <1>2, <2>1 DEF Compare, Tim
    <3>2. CASE PwmRequestServed(dma)
      <4>1. PwmTransfer(dma) \in Dma /\ dma.n1 - 1 \in Index
        BY <1>2, <3>2, PwmTransferType
      <4>2. u \in Tim
        BY <1>2, <3>1, <4>1, LoadPwmType
      <4>3. /\ u.cen = t.cen /\ u.cc2p = t.cc2p /\ u.arr = t.arr
            /\ u.cnt = t.cnt
        BY <3>1 DEF LoadPwm, Tim
      <4>4. /\ PwmTransfer(dma).n2 = dma.n2 /\ PwmTransfer(dma).tc2 = dma.tc2
            /\ PwmTransfer(dma).clk = dma.clk /\ PwmTransfer(dma).gen = dma.gen
            /\ PwmTransfer(dma).cc2de = dma.cc2de
            /\ PwmTransfer(dma).en2 = dma.en2
        BY <1>2 DEF PwmTransfer, Dma
      <4>5. Settle(u, PwmTransfer(dma), hold, wire)
        BY <2>1, <3>2 DEF Compare
      <4> HIDE DEF t, u
      <4> QED BY <1>1, <1>3, <3>1, <4>1, <4>2, <4>3, <4>4, <4>5, RxTrackSettle
    <3>3. CASE ~PwmRequestServed(dma)
      <4>1. Settle(t, dma, hold, wire)
        BY <2>1, <3>3 DEF Compare
      <4> HIDE DEF t
      <4> QED BY <1>1, <1>2, <1>3, <3>1, <4>1, RxTrackSettle
    <3> QED BY <3>2, <3>3
  <2>2. CASE Overflow
    <3> DEFINE t == UpdateEvent(tim, pullup)
    <3>1. t \in Tim
      <4>1. 0 \in Word
        BY WordIsInt
      <4> QED BY <1>2, <4>1 DEF UpdateEvent, Tim, Inv, TypeOK, DrvTypeOK, BusTypeOK
    <3>2. /\ t.cen = tim.cen /\ t.cc2p = tim.cc2p /\ t.arr = tim.arr
          /\ t.cnt = 0
      BY <1>2 DEF UpdateEvent, Tim
    <3>3. t.cnt <= t.arr
      BY <3>2, ClockType DEF Inv, TypeOK, DrvTypeOK
    <3> DEFINE w == [wire EXCEPT !.stuck = wire.stuck \/ hold]
    <3>4. Settle(t, dma, hold, w) /\ w.rises = wire.rises
      BY <1>2, <2>2 DEF Overflow, Trace
    <3> HIDE DEF t, w
    <3> QED BY <1>1, <1>2, <1>3, <3>1, <3>2, <3>3, <3>4, RxTrackSettle
  <2>3. ASSUME NEW m \in Moments, DevicePull(m) \/ DeviceRelease(m)
        PROVE  RxTrack'
    <3> DEFINE t == [tim EXCEPT !.cnt = m]
    <3>1. tim.cen
      BY <1>3, RxTrackParts DEF Armed
    <3>2. /\ t \in Tim /\ t.cen = tim.cen /\ t.cc2p = tim.cc2p
          /\ t.arr = tim.arr /\ t.cnt <= t.arr
      BY <1>2, <3>1, MomentType DEF Tim, Inv, TypeOK, DrvTypeOK
    <3>3. Settle(t, dma, TRUE, wire) \/ Settle(t, dma, FALSE, wire)
      BY <2>3 DEF DevicePull, DeviceRelease
    <3> HIDE DEF t
    <3> QED BY <1>1, <1>2, <1>3, <3>2, <3>3, RxTrackSettle
  <2> QED BY <2>1, <2>2, <2>3 DEF HardwareStep, Hardware
<1>4. CASE Op!Ready
  <2>1. PICK m \in Moments : DevicePull(m) \/ DeviceRelease(m)
    BY <1>4, QuiescentIsIdle DEF Inv, HardwareStep, Hardware
  <2> DEFINE t == [tim EXCEPT !.cnt = m]
  <2>2. t \in Tim /\ ~t.cen
    BY <1>2, <1>4, MomentType DEF Tim, Inv, TypeOK, DrvTypeOK, Quiescent, AtRest
  <2>3. Settle(t, dma, TRUE, wire) \/ Settle(t, dma, FALSE, wire)
    BY <2>1 DEF DevicePull, DeviceRelease
  <2> HIDE DEF t
  <2> QED BY <1>1, <1>4, <2>2, <2>3, RxTrackIdle
<1>5. CASE ~Exchange
  BY <1>1, <1>5, OpStatus DEF RxTrack, Exchange
<1> QED BY <1>3, <1>4, <1>5 DEF Exchange, Op!Ready

\* So does a switch of the pull-up.
LEMMA RxTrackPullup ==
  ASSUME Inv, RxTrack, PullupStep
  PROVE  RxTrack'
<1>1. UNCHANGED <<status, call, request, overdrive>>
  BY DEF PullupStep, Pullup, ActivePullupOn, ActivePullupOff
<1>2. tim \in Tim /\ dma \in Dma
  BY DEF Inv, TypeOK, DrvTypeOK, BusTypeOK
<1>3. ASSUME NEW m \in Moments, ActivePullupOn(m)
      PROVE  RxTrack'
  <2> DEFINE t == [tim EXCEPT !.cnt = m, !.bif = TRUE, !.moe = FALSE]
  <2>1. /\ t \in Tim /\ t.cen = tim.cen /\ t.cc2p = tim.cc2p
        /\ t.arr = tim.arr /\ (tim.cen => t.cnt <= t.arr)
    BY <1>2, MomentType DEF Tim, Inv, TypeOK, DrvTypeOK
  <2>2. Settle(t, dma, hold, wire)
    BY <1>3 DEF ActivePullupOn
  <2> HIDE DEF t
  <2>3. CASE Exchange /\ status = Op!PROGRESS
    <3>1. tim.cen
      BY <2>3, RxTrackParts DEF Armed
    <3> QED BY <1>1, <1>2, <2>1, <2>2, <2>3, <3>1, RxTrackSettle
  <2>4. CASE Op!Ready
    <3>1. ~tim.cen
      BY <2>4 DEF Inv, Quiescent, AtRest
    <3> QED BY <1>1, <2>1, <2>2, <2>4, <3>1, RxTrackIdle
  <2>5. CASE ~Exchange
    BY <1>1, <2>5, OpStatus DEF RxTrack, Exchange
  <2> QED BY <2>3, <2>4, <2>5 DEF Exchange, Op!Ready
<1>4. CASE ActivePullupOff
  BY <1>1, <1>4, RxTrackFrame DEF ActivePullupOff
<1> QED BY <1>3, <1>4 DEF PullupStep, Pullup

\* A new exchange: nothing captured yet, the channel armed for all its bits.
LEMMA RxTrackTxBits ==
  ASSUME Inv, NEW r \in Requests, TxBits(r)
  PROVE  RxTrack'
<1> DEFINE t1 == SetPwmLevel(TxPrepared, BIT_DURATION(overdrive, r.bits[0]))
           t2 == IF r.n > 1 THEN t1 ELSE EnableOverflowIrq(t1)
           t3 == FireOverflowEvent(TimerStart(t2), pullup)
           d1 == PrepareCaptureDma(DmaAttach(dma), r.n)
           d2 == IF r.n > 1 THEN PreparePwmDma(d1, r.n - 1) ELSE d1
<1>1. dma \in Dma /\ tim \in Tim /\ r.n \in Nat /\ r.n >= 1
  BY DrvAssumption DEF Inv, TypeOK, DrvTypeOK, BusTypeOK, Request
<1>2. TxPrepared.cc2p = Rising /\ TxPrepared.arr = IO_BIT_PROCEDURE_DURATION(overdrive)
  BY <1>1 DEF TxPrepared, SetCapturePolarity, ClearCapture, SetTop, Prepare,
     ClearPullupConflict, Tim
<1>3. TxPrepared \in Tim
  BY TxPreparedType DEF Inv, TypeOK
<1>4. /\ t3.cen /\ t3.cc2p = Rising
      /\ t3.arr = IO_BIT_PROCEDURE_DURATION(overdrive)
  BY <1>2, <1>3 DEF SetPwmLevel, EnableOverflowIrq, TimerStart,
     FireOverflowEvent, UpdateEvent, Tim
<1>5. DmaOn(d2).n2 = r.n /\ ~DmaOn(d2).tc2
  BY <1>1 DEF DmaOn, PreparePwmDma, PrepareCaptureDma, DmaAttach, Dma
<1>6. tim' = t3 /\ dma' = DmaOn(d2)
  BY DEF TxBits, TxStarted
<1>7. wire'.rises = <<>>
  BY DEF TxBits, TxStarted, NoTrace
<1>8. request' = r /\ status' = Op!PROGRESS /\ overdrive' = overdrive
  BY DEF TxBits, TxStarted
<1> HIDE DEF t1, t2, t3, d1, d2
<1>9. tim'.cen /\ tim'.cc2p = Rising
      /\ tim'.arr = IO_BIT_PROCEDURE_DURATION(overdrive')
      /\ dma'.n2 = request'.n /\ ~dma'.tc2 /\ request'.n - dma'.n2 = 0
  BY <1>1, <1>4, <1>5, <1>6, <1>8
<1> QED BY <1>1, <1>7, <1>8, <1>9, OpStatus DEF RxTrack, CaptureDmaPending

\* While bits are exchanged a handler ends the operation or leaves the
\* capture alone; the capture handler ends it when all bits are there.
LEMMA RxTrackDispatch ==
  ASSUME Inv, Roles, RxTrack, Dispatch
  PROVE  RxTrack'
<1>1. Op!Busy /\ tim \in Tim /\ dma \in Dma
  BY QuiescentIsIdle DEF Inv, TypeOK, DrvTypeOK, BusTypeOK, Op!Busy
<1>2. UNCHANGED <<call, request, overdrive, durations, wire>>
  BY DEF Dispatch
<1>3. CASE call # "io"
  BY <1>2, <1>3 DEF RxTrack
<1>4. CASE status' = Op!ERROR
  BY <1>4, OpStatus DEF RxTrack
<1>5. ASSUME call = "io", status' # Op!ERROR
      PROVE  RxTrack'
  <2>1. status = Op!PROGRESS /\ presence = 1
    BY <1>1, <1>5 DEF Roles, Op!Busy, Op!Ready
  <2>2. CASE IsrPwmDma
    BY <1>1, <1>2, <2>2, RxTrackFrame
       DEF IsrPwmDma, EnableOverflowIrq, Tim, Dma
  <2>3. CASE IsrCaptureDma
    <3>1. dma.n2 = 0 /\ InPlace
      BY <1>5, <2>1, <2>3, RxTrackParts, OpStatus
         DEF Exchange, Armed, IsrCaptureDma
    <3>2. dma'.n2 = dma.n2 /\ status' = Op!COMPLETE
      BY <1>1, <2>3 DEF IsrCaptureDma, OperationComplete, CompleteDma,
         DmaDetach, DmaOff, Dma
    <3> QED BY <1>2, <3>1, <3>2, OpStatus DEF RxTrack, InPlace, Stored
  <2>4. CASE IsrPullupConflict
    BY <1>5, <2>4 DEF IsrPullupConflict, OperationComplete
  <2>5. CASE IsrOverflow
    <3>1. tim' = SetPwmLevel(ClearOverflow(tim), 0) /\ UNCHANGED <<dma, status>>
      BY <1>5, <2>1, <2>5
         DEF IsrOverflow, BitsOverflow, ResetOverflow, OperationComplete
    <3> QED BY <1>1, <1>2, <3>1, RxTrackFrame
            DEF SetPwmLevel, ClearOverflow, Tim
  <2>6. CASE IsrPwmCapture
    <3>1. tim' = ClearCapture(AfterPwm(tim)) /\ UNCHANGED <<dma, status>>
      BY <2>1, <2>6 DEF IsrPwmCapture
    <3>2. AfterPwm(tim) \in {tim, ClearPwm(tim)}
      BY <2>1 DEF AfterPwm
    <3>3. /\ tim'.cen = tim.cen /\ tim'.cc2p = tim.cc2p
          /\ tim'.arr = tim.arr
      BY <1>1, <3>1, <3>2 DEF ClearCapture, ClearPwm, Tim
    <3> QED BY <1>2, <3>1, <3>3, RxTrackFrame
  <2> QED BY <2>2, <2>3, <2>4, <2>5, <2>6 DEF Dispatch
<1> QED BY <1>3, <1>4, <1>5

\* Every step keeps it.
LEMMA RxTrackNext ==
  ASSUME Inv, Roles, RxTrack, [Next]_vars
  PROVE  RxTrack'
<1>0. dma \in Dma
  BY DEF Inv, TypeOK, DrvTypeOK, BusTypeOK
<1>1. CASE CommonStep
  <2>1. ASSUME NEW od \in Speeds, Reset(od)
        PROVE  RxTrack'
    BY <2>1 DEF Reset, Begin, RxTrack
  <2>2. CASE HardwareStep
    BY <2>2, RxTrackHardware
  <2>3. CASE PullupStep
    BY <2>3, RxTrackPullup
  <2>4. CASE SimulatePresence
    BY <2>4, RxTrackFrame DEF SimulatePresence, Op!SimulatePresence
  <2>5. CASE ConsumeEvent
    BY <2>5, RxTrackFrame DEF ConsumeEvent, Op!ConsumeEvent
  <2> QED BY <1>1, <2>1, <2>2, <2>3, <2>4, <2>5 DEF CommonStep
<1>2. ASSUME NEW r \in Requests, TxBits(r)
      PROVE  RxTrack'
  BY <1>2, RxTrackTxBits
<1>3. ASSUME NEW r \in Requests, TxBitsRefused(r)
      PROVE  RxTrack'
  BY <1>3 DEF TxBitsRefused, OperationComplete, RxTrack
<1>4. CASE Dispatch
  BY <1>4, RxTrackDispatch
<1>5. CASE OtherAttach
  <2>1. /\ dma'.n2 = dma.n2 /\ dma'.tc2 = dma.tc2
        /\ ~dma'.gen /\ ~dma'.en2
    BY <1>0, <1>5 DEF OtherAttach, DmaAttach, Dma
  <2> QED BY <1>5, <2>1 DEF OtherAttach, drvVars, RxTrack,
          CaptureRequestServed, CaptureDmaPending
<1>6. CASE OtherDetach
  BY <1>0, <1>6, RxTrackFrame DEF OtherDetach, drvVars, Dma
<1>7. CASE UNCHANGED vars
  BY <1>7, RxTrackFrame DEF vars, busVars, drvVars
<1> QED BY <1>1, <1>2, <1>3, <1>4, <1>5, <1>6, <1>7 DEF Next, DriverStep

\* It holds at the start, where no operation was called.
LEMMA RxTrackInit == Init => RxTrack
BY DEF Init, DrvInit, BusInit, RxTrack

\* Each rising edge of an exchange is in its place in the buffer, none is
\* lost, and the operation completes only when all the bits are there: for
\* any number of bits, any noise and any lateness of the handlers, also when
\* another driver takes DMA in between.
THEOREM CapturesTracked == Spec => []RxTrack
<1>1. Inv /\ Roles /\ RxTrack /\ [Next]_vars => RxTrack'
  BY RxTrackNext
<1> QED BY <1>1, RxTrackInit, RolesInvariance, PTL DEF Spec

\* What drvOneWireRxBits reads after a complete exchange is what was on the
\* bus: bit k is decoded from the k-th rising edge.
THEOREM RxDataCorrect == Spec => []RxDataOk
<1>1. ASSUME Inv, RxTrack
      PROVE  RxDataOk
  <2> SUFFICES ASSUME IoComplete
               PROVE  /\ Len(wire.rises) >= request.n
                      /\ \A k \in 0 .. request.n - 1 :
                           RxBit(request.n, k)
                             = DecodeBit(overdrive, wire.rises[k + 1])
    BY DEF RxDataOk
  <2>1. InPlace /\ dma.n2 = 0
    BY <1>1, RxTrackParts, OpStatus DEF IoComplete, Exchange
  <2>2. /\ request.n \in Nat /\ wire.rises \in Seq(Word)
        /\ overdrive \in Flag /\ Len(wire.rises) \in Nat
    BY <1>1 DEF Inv, TypeOK, DrvTypeOK, BusTypeOK, Request, Trace
  <2>3. Stored = request.n
    BY <2>1, <2>2 DEF Stored
  <2>4. Len(wire.rises) >= request.n
    BY <2>1, <2>2, <2>3 DEF InPlace
  <2>5. ASSUME NEW k \in 0 .. request.n - 1
        PROVE  RxBit(request.n, k) = DecodeBit(overdrive, wire.rises[k + 1])
    <3>1. k + 1 \in DOMAIN wire.rises /\ k + 1 \in 1 .. Len(wire.rises)
      BY <2>2, <2>4
    <3>2. wire.rises[k + 1] \in Nat
      BY <2>2, <3>1, WordIsInt
    <3>3. wire.rises[k + 1] <= IO_BIT_PROCEDURE_DURATION(overdrive)
      BY <2>1, <3>1 DEF InPlace
    <3>4. durations[request.n - 1 - k] = wire.rises[k + 1] % DmaModulus
      BY <2>1, <2>3, <2>5 DEF InPlace
    <3> QED BY <2>2, <3>2, <3>3, <3>4, TruncationIsExact DEF RxBit
  <2> QED BY <2>4, <2>5
<1> QED BY <1>1, Invariance, CapturesTracked, PTL

-----------------------------------------------------------------------------
\* PRESENCE: the handlers that run in a RESET keep what it knows.
LEMMA PresenceKnownDispatch ==
  ASSUME Inv, Roles, PresenceKnown, Dispatch
  PROVE  PresenceKnown'
<1>1. /\ Op!Busy /\ tim \in Tim /\ dma \in Dma /\ DrvTypeOK
      /\ UNCHANGED <<call, overdrive, wire>>
  BY QuiescentIsIdle DEF Inv, TypeOK, DrvTypeOK, BusTypeOK, Op!Busy, Dispatch
<1>2. CASE call # "reset"
  BY <1>1, <1>2 DEF PresenceKnown, PresenceSound, ResetComplete
<1>3. CASE status' = Op!ERROR
  BY <1>3, OpStatus DEF PresenceKnown, PresenceSound, ResetComplete
<1>4. ASSUME call = "reset", status' # Op!ERROR
      PROVE  PresenceKnown'
  <2>1. status = Op!PROGRESS /\ Hearing /\ presence = 0
    BY <1>1, <1>4 DEF Op!Busy, Op!Ready, PresenceKnown, Hearing
  <2>2. ~IsrPwmDma /\ ~IsrCaptureDma
    BY <1>4 DEF Roles, IsrPwmDma, IsrCaptureDma, PwmDmaPending,
       CaptureDmaPending
  <2>3. CASE IsrPullupConflict
    BY <1>4, <2>3 DEF IsrPullupConflict, OperationComplete
  <2>4. CASE IsrOverflow
    <3>1. /\ ~tim.cc2ie /\ tim' = EnablePwmIrq(ClearOverflow(tim))
          /\ UNCHANGED <<status, presence, mark>>
      BY <1>1, <1>4, <2>1, <2>4
         DEF IsrOverflow, BitsOverflow, ResetOverflow, OperationComplete,
         ClearOverflow, Tim
    <3>2. Hearing'
      BY <1>1, <2>1, <3>1 DEF Hearing, EnablePwmIrq, ClearOverflow, Tim
    <3> QED BY <1>1, <1>4, <2>1, <3>1, <3>2, OpStatus
            DEF PresenceKnown, PresenceSound, ResetComplete
  <2>5. CASE IsrPwmCapture
    <3>1. CASE tim.cc1if
      <4>1. AfterPwm(tim) = EndResetPulse(tim) /\ ~AfterPwm(tim).cc2if
        BY <1>1, <2>1, <3>1 DEF AfterPwm, EndResetPulse, SetCapturePolarity,
           SetPwmLevel, ClearPwm, EnableCaptureIrq, DisablePwmIrq,
           ClearCapture, Tim
      <4>2. /\ tim' = ClearCapture(EndResetPulse(tim))
            /\ UNCHANGED <<status, presence, mark>>
        BY <2>5, <4>1 DEF IsrPwmCapture
      <4> QED BY <1>1, <1>4, <2>1, <4>2, EndResetPulseKnown
    <3>2. CASE ~tim.cc1if
      <4>1. PresenceEdge(tim) /\ tim.cc2ie /\ tim.cc2if
        BY <2>1, <2>5, <3>2 DEF IsrPwmCapture, AfterPwm, CapComPending
      <4> QED BY <1>1, <1>4, <2>1, <4>1, PresenceEdgeKnown
    <3> QED BY <3>1, <3>2
  <2> QED BY <2>2, <2>3, <2>4, <2>5 DEF Dispatch
<1> QED BY <1>2, <1>3, <1>4

\* And every other step.
LEMMA PresenceKnownNext ==
  ASSUME Inv, Roles, PresenceKnown, [Next]_vars
  PROVE  PresenceKnown'
<1>1. CASE CommonStep
  BY <1>1, PresenceKnownCommon DEF Inv, TypeOK, Quiescent
<1>2. ASSUME NEW r \in Requests, TxBits(r) \/ TxBitsRefused(r)
      PROVE  PresenceKnown'
  BY <1>2 DEF TxBits, TxBitsRefused, Begin, PresenceKnown, PresenceSound,
     ResetComplete
<1>3. CASE Dispatch
  BY <1>3, PresenceKnownDispatch
<1>4. CASE OtherAttach \/ OtherDetach \/ UNCHANGED vars
  BY <1>4 DEF OtherAttach, OtherDetach, vars, busVars, drvVars,
     PresenceKnown, Hearing, PresenceSound, ResetComplete, Presence
<1> QED BY <1>1, <1>2, <1>3, <1>4 DEF Next, DriverStep

\* PRESENCE is never reported unless the line fell and rose as a PRESENCE
\* pulse does, on however noisy a bus, however late the handlers, at both
\* speeds and with the pull-up switched at any time.
THEOREM PresenceIsReal == Spec => []PresenceSound
<1>1. Inv /\ Roles /\ PresenceKnown /\ [Next]_vars => PresenceKnown'
  BY PresenceKnownNext
<1>2. PresenceKnown => PresenceSound
  BY DEF PresenceKnown
<1> QED BY <1>1, <1>2, PresenceKnownInit, RolesInvariance, PTL
        DEF Spec, Init

-----------------------------------------------------------------------------
\* No PRESENCE is missed: the handlers of a RESET.
LEMMA HeedsDispatch ==
  ASSUME Inv, Roles, HearsInTime, Heeds, Dispatch
  PROVE  Heeds'
<1>1. /\ Op!Busy /\ tim \in Tim /\ dma \in Dma /\ DrvTypeOK
      /\ lag' = 0
      /\ UNCHANGED <<pullup, hold, call, wire, overdrive, conflict>>
  BY QuiescentIsIdle DEF Inv, TypeOK, DrvTypeOK, BusTypeOK, Op!Busy, Dispatch
<1>2. CASE call # "reset" \/ conflict # "never"
  BY <1>1, <1>2, HeedsApart
<1>3. ASSUME call = "reset", conflict = "never"
      PROVE  Heeds'
  <2>1. status = Op!PROGRESS /\ Heeded /\ presence = 0
    BY <1>1, <1>3 DEF Op!Busy, Op!Ready, Heeds, Heeded, NoConflict
  <2>2. ~IsrPwmDma /\ ~IsrCaptureDma
    BY <1>3 DEF Roles, IsrPwmDma, IsrCaptureDma, PwmDmaPending,
       CaptureDmaPending
  <2>3. ~IsrPullupConflict
    BY <2>1 DEF IsrPullupConflict, PullupConflict, Heeded
  <2>4. CASE IsrOverflow
    <3>1. OverflowPending /\ ResetOverflow(ClearOverflow(tim))
      BY <2>1, <2>4 DEF IsrOverflow, BitsOverflow
    <3> QED BY <1>1, <1>3, <2>1, <3>1, HeedsResetOverflow
  <2>5. CASE ~OverflowPending /\ IsrPwmCapture
    <3>1. CASE tim.cc1if
      <4>1. AfterPwm(tim) = EndResetPulse(tim) /\ ~AfterPwm(tim).cc2if
        BY <1>1, <2>1, <3>1 DEF AfterPwm, EndResetPulse, SetCapturePolarity,
           SetPwmLevel, ClearPwm, EnableCaptureIrq, DisablePwmIrq,
           ClearCapture, Tim
      <4>2. /\ tim' = ClearCapture(EndResetPulse(tim))
            /\ UNCHANGED <<status, presence, mark>>
        BY <2>5, <4>1 DEF IsrPwmCapture
      <4> QED BY <1>1, <1>3, <2>1, <2>5, <3>1, <4>2, HeedsEndPulse
    <3>2. CASE ~tim.cc1if
      <4>1. CapComPending /\ (PresenceEdge(tim) \/ ~tim.cc2if)
        BY <2>1, <2>5, <3>2 DEF IsrPwmCapture, AfterPwm
      <4>2. PresenceEdge(tim)
        BY <3>2, <4>1 DEF CapComPending
      <4> QED BY <1>1, <1>3, <2>1, <2>5, <3>2, <4>1, <4>2, HeedsEdge
    <3> QED BY <3>1, <3>2
  <2> QED BY <2>2, <2>3, <2>4, <2>5 DEF Dispatch
<1> QED BY <1>2, <1>3 DEF Heeds

\* And every other step.
LEMMA HeedsNext ==
  ASSUME ~NoisyBus, HearsInTime, Inv, Roles, Heeds, [Next]_vars
  PROVE  Heeds'
<1>1. CASE CommonStep
  <2>1. ASSUME call = "reset" PROVE ~PwmRequestServed(dma)
    BY <2>1 DEF Roles, PwmRequestServed
  <2> QED BY <1>1, <2>1, HeedsCommon DEF Inv, TypeOK, Quiescent
<1>2. ASSUME NEW r \in Requests, TxBits(r) \/ TxBitsRefused(r)
      PROVE  Heeds'
  BY <1>2, HeedsApart DEF TxBits, TxBitsRefused, Begin
<1>3. CASE Dispatch
  BY <1>3, HeedsDispatch
<1>4. CASE OtherAttach \/ OtherDetach \/ UNCHANGED vars
  <2>1. /\ UNCHANGED <<tim, hold, pullup, lag, call, wire>>
        /\ UNCHANGED drvVars
    BY <1>4 DEF OtherAttach, OtherDetach, vars, busVars
  <2>2. Heeded => Heeded'
    BY <2>1 DEF drvVars, Heeded, Started, Pulsing, Listening, Measuring,
       TimedOut, Turned, Fallen, Risen, Lateness, Presence
  <2>3. PresenceNotMissed => PresenceNotMissed'
    BY <2>1 DEF drvVars, PresenceNotMissed, NoConflict, Presence
  <2> QED BY <2>1, <2>2, <2>3 DEF drvVars, Heeds, NoConflict
<1> QED BY <1>1, <1>2, <1>3, <1>4 DEF Next, DriverStep

\* On a quiet bus, with handlers in time, a RESET fails only for a reason: no
\* answer that makes a PRESENCE pulse is missed, whenever the devices answer,
\* unless it ends so late that the window may be over.
THEOREM PresenceIsHeard ==
  ASSUME ~NoisyBus, HearsInTime
  PROVE  Spec => []PresenceNotMissed
<1>1. Inv /\ Roles /\ Heeds /\ [Next]_vars => Heeds'
  BY HeedsNext
<1>2. Heeds => PresenceNotMissed
  BY DEF Heeds
<1>3. Init => Heeds
  BY HeedsInit DEF Init
<1> QED BY <1>1, <1>2, <1>3, RolesInvariance, PTL DEF Spec

-----------------------------------------------------------------------------
\* The active pull-up.  An operation begun with it on cannot pulse the line;
\* on a quiet bus the line then has no edge to capture, and the conflict is
\* noticed by the first overflow handler that runs.
Blocked ==
  /\ pullup => ActivePullup
  /\ conflict = "all" =>
       /\ pullup
       /\ status # Op!COMPLETE
       /\ Op!Busy =>
            /\ tim.bif /\ ~tim.moe
            /\ call = "reset" => OverflowPending
            /\ call = "io" => ~hold /\ ~dma.tc2

\* The hardware has nothing to do on a line that stays high.
LEMMA BlockedHardware ==
  ASSUME ~NoisyBus, DrvTypeOK, Blocked, HardwareStep
  PROVE  Blocked'
<1>1. /\ UNCHANGED <<pullup, conflict, status, call>>
      /\ BusTypeOK /\ Hardware
  BY DEF HardwareStep, drvVars, Hardware, Compare, Overflow, DevicePull,
     DeviceRelease, DrvTypeOK
<1>2. CASE UNCHANGED <<tim, dma, hold, wire>>
  BY <1>1, <1>2 DEF Blocked, Op!Busy, Op!Ready, OverflowPending
<1>3. ASSUME NEW t, NEW d, NEW h, NEW w, Runs(t, d, h, w),
             conflict = "all", Op!Busy
      PROVE  /\ tim'.bif /\ ~tim'.moe
             /\ call = "reset" => OverflowPending'
             /\ call = "io" => ~hold' /\ ~dma'.tc2
  <2>1. /\ pullup /\ tim.bif /\ ~tim.moe
        /\ call = "reset" => OverflowPending
        /\ call = "io" => ~hold /\ ~dma.tc2
    BY <1>3 DEF Blocked
  <2>2. t.bif /\ ~t.moe /\ (call = "reset" => t.uie /\ t.uif)
    BY <1>1, <1>3, <2>1 DEF Runs, OverflowPending
  <2>3. /\ tim'.bif = t.bif /\ tim'.moe = t.moe
        /\ tim'.uie = t.uie /\ tim'.uif = t.uif
    BY <1>3 DEF Runs, Settle, Tim
  <2>4. ASSUME call = "io"
        PROVE  ~h /\ dma' = d /\ hold' = h /\ ~d.tc2
    <3>1. ~h /\ ~d.tc2
      BY <1>3, <2>1, <2>4 DEF Runs, Driving
    <3>2. High(tim, hold) /\ High(t, h)
      BY <2>1, <2>2, <2>4, <3>1 DEF High, Driving
    <3> QED BY <1>3, <3>1, <3>2 DEF Runs, Settle
  <2> QED BY <2>2, <2>3, <2>4 DEF OverflowPending
<1> QED BY <1>1, <1>2, <1>3, HardwareRuns DEF Blocked, Op!Busy, Op!Ready

\* An operation begins: the output stays off and the flag cannot be cleared.
LEMMA BlockedBegin ==
  ASSUME ~NoisyBus, ~StuckLine, Inv, Blocked,
         \/ \E od \in Speeds : Reset(od)
         \/ \E r \in Requests : TxBits(r)
  PROVE  Blocked'
<1>0. tim \in Tim /\ dma \in Dma
  BY DEF Inv, TypeOK, DrvTypeOK, BusTypeOK
<1>1. /\ pullup' = pullup /\ status' = Op!PROGRESS
      /\ conflict' = IF pullup THEN "all" ELSE "never"
  BY DEF Reset, TxBits, TxStarted, Begin
<1>2. SUFFICES ASSUME pullup
               PROVE  /\ tim'.bif /\ ~tim'.moe
                      /\ call' = "reset" => OverflowPending'
                      /\ call' = "io" => ~hold' /\ ~dma'.tc2
  BY <1>1, OpStatus DEF Blocked
<1>3. ASSUME NEW od \in Speeds, Reset(od)
      PROVE  tim'.bif /\ ~tim'.moe /\ OverflowPending' /\ call' = "reset"
  <2> DEFINE t1 == SetTop(Prepare(tim, pullup), RESET_PROCEDURE_DURATION(od))
             t2 == EnableOverflowIrq(SetPwmLevel(t1, RESET_DURATION(od)))
             t3 == FireOverflowEvent(TimerStart(t2), pullup)
  <2>1. /\ t3.bif /\ ~t3.moe /\ t3.uie /\ t3.uif
        /\ t3 = [t3 EXCEPT !.bif = TRUE]
        /\ [t3 EXCEPT !.cc2if = TRUE, !.ccr2 = t3.cnt].bif
        /\ ~[t3 EXCEPT !.cc2if = TRUE, !.ccr2 = t3.cnt].moe
        /\ [t3 EXCEPT !.cc2if = TRUE, !.ccr2 = t3.cnt].uie
        /\ [t3 EXCEPT !.cc2if = TRUE, !.ccr2 = t3.cnt].uif
    BY ZenonT(40), <1>0, <1>2 DEF SetTop, Prepare, ClearPullupConflict,
       EnableOverflowIrq, SetPwmLevel, TimerStart, FireOverflowEvent,
       UpdateEvent, Tim
  <2>2. Settle(t3, dma, hold, NoTrace) /\ call' = "reset"
    BY <1>3 DEF Reset, Begin
  <2> HIDE DEF t1, t2, t3
  <2>3. \/ tim' = t3
        \/ tim' = [t3 EXCEPT !.cc2if = TRUE, !.ccr2 = t3.cnt]
    BY <2>2 DEF Settle
  <2> QED BY <2>1, <2>2, <2>3 DEF OverflowPending
<1>4. ASSUME NEW r \in Requests, TxBits(r)
      PROVE  tim'.bif /\ ~tim'.moe /\ ~hold' /\ ~dma'.tc2 /\ call' = "io"
  <2> DEFINE t1 == SetPwmLevel(TxPrepared, BIT_DURATION(overdrive, r.bits[0]))
             t2 == IF r.n > 1 THEN t1 ELSE EnableOverflowIrq(t1)
             t3 == FireOverflowEvent(TimerStart(t2), pullup)
             d1 == PrepareCaptureDma(DmaAttach(dma), r.n)
             d2 == IF r.n > 1 THEN PreparePwmDma(d1, r.n - 1) ELSE d1
  <2>1. TxPrepared.bif /\ ~TxPrepared.moe /\ TxPrepared \in Tim
    BY <1>0, <1>2, TxPreparedType
       DEF TxPrepared, SetTop, Prepare, ClearPullupConflict,
       SetCapturePolarity, ClearCapture, Tim, Inv, TypeOK
  <2>2. t3.bif /\ ~t3.moe
    BY <1>2, <2>1 DEF EnableOverflowIrq, SetPwmLevel, TimerStart,
       FireOverflowEvent, UpdateEvent, Tim
  <2>3. ~DmaOn(d2).tc2
    BY <1>0 DEF DmaOn, PreparePwmDma, PrepareCaptureDma, DmaAttach, Dma
  <2>4. /\ tim' = t3 /\ dma' = DmaOn(d2) /\ hold' = hold /\ ~hold
        /\ call' = "io"
    BY <1>4 DEF TxBits, TxStarted, MayBegin, Begin
  <2> QED BY <2>2, <2>3, <2>4
<1> QED BY <1>3, <1>4

\* No handler ends it but the overflow's, which finds the conflict.
LEMMA BlockedDispatch ==
  ASSUME Inv, Roles, Blocked, Dispatch
  PROVE  Blocked'
<1>1. /\ Op!Busy /\ tim \in Tim /\ dma \in Dma
      /\ UNCHANGED <<call, conflict, pullup, hold>>
  BY QuiescentIsIdle DEF Inv, TypeOK, DrvTypeOK, BusTypeOK, Op!Busy, Dispatch
<1>2. CASE conflict # "all"
  BY <1>1, <1>2 DEF Blocked
<1>3. CASE status' = Op!ERROR
  BY <1>1, <1>3, OpStatus DEF Blocked, Op!Busy, Op!Ready
<1>4. ASSUME conflict = "all", status' # Op!ERROR
      PROVE  Blocked'
  <2>1. /\ pullup /\ PullupConflict /\ tim.bif /\ ~tim.moe
        /\ call = "reset" => OverflowPending
        /\ call = "io" => ~hold /\ ~dma.tc2
        /\ status = Op!PROGRESS /\ call # "none"
    BY <1>1, <1>4 DEF Blocked, PullupConflict, Op!Busy, Op!Ready
  <2>2. ~IsrPullupConflict /\ ~IsrOverflow
    BY <1>4, <2>1 DEF IsrPullupConflict, OperationComplete, IsrOverflow
  <2>3. call = "io" /\ presence = 1
    BY <1>1, <1>4, <2>1, <2>2
       DEF Inv, TypeOK, DrvTypeOK, Op!TypeOK, Roles, Dispatch, IsrPwmDma,
       IsrCaptureDma, PwmDmaPending, CaptureDmaPending
  <2>4. ~IsrCaptureDma
    BY <2>1, <2>3 DEF IsrCaptureDma, CaptureDmaPending
  <2>5. CASE IsrPwmDma
    <3>1. /\ tim'.bif = tim.bif /\ tim'.moe = tim.moe /\ dma'.tc2 = dma.tc2
          /\ status' = status
      BY <1>1, <2>5 DEF IsrPwmDma, EnableOverflowIrq, Tim, Dma
    <3> QED BY <1>1, <2>1, <2>3, <3>1, OpStatus DEF Blocked
  <2>6. CASE IsrPwmCapture
    <3>1. /\ tim' = ClearCapture(AfterPwm(tim))
          /\ AfterPwm(tim) \in {tim, ClearPwm(tim)}
          /\ dma' = dma /\ status' = status
      BY <2>3, <2>6 DEF IsrPwmCapture, AfterPwm
    <3>2. tim'.bif = tim.bif /\ tim'.moe = tim.moe
      BY <1>1, <3>1 DEF ClearCapture, ClearPwm, Tim
    <3> QED BY <1>1, <2>1, <2>3, <3>1, <3>2, OpStatus DEF Blocked
  <2> QED BY <2>2, <2>4, <2>5, <2>6 DEF Dispatch
<1> QED BY <1>2, <1>3, <1>4

\* So no step lets it complete.
LEMMA BlockedNext ==
  ASSUME ~NoisyBus, ~StuckLine, Inv, Roles, Blocked, [Next]_vars
  PROVE  Blocked'
<1>0. DrvTypeOK /\ dma \in Dma
  BY DEF Inv, TypeOK, DrvTypeOK, BusTypeOK
<1>1. CASE (\E od \in Speeds : Reset(od)) \/ (\E r \in Requests : TxBits(r))
  BY <1>1, BlockedBegin
<1>2. CASE HardwareStep
  BY <1>0, <1>2, BlockedHardware
<1>3. CASE PullupStep
  BY <1>3 DEF PullupStep, Pullup, ActivePullupOn, ActivePullupOff, Blocked
<1>4. ASSUME UNCHANGED <<tim, call, status, conflict, pullup, hold>>,
             dma'.tc2 = dma.tc2
      PROVE  Blocked'
  BY <1>4 DEF Blocked, Op!Busy, Op!Ready, OverflowPending
<1>5. CASE SimulatePresence
  BY <1>4, <1>5 DEF SimulatePresence, Op!SimulatePresence
<1>6. CASE ConsumeEvent
  BY <1>4, <1>6 DEF ConsumeEvent, Op!ConsumeEvent
<1>7. ASSUME NEW r \in Requests, TxBitsRefused(r)
      PROVE  Blocked'
  BY <1>7, OpStatus
     DEF TxBitsRefused, OperationComplete, Begin, Blocked, Op!Busy, Op!Ready
<1>8. CASE Dispatch
  BY <1>8, BlockedDispatch
<1>9. CASE OtherAttach \/ OtherDetach
  <2>1. dma'.tc2 = dma.tc2
    BY <1>0, <1>9 DEF OtherAttach, OtherDetach, DmaAttach, Dma
  <2> QED BY <1>4, <1>9, <2>1 DEF OtherAttach, OtherDetach, drvVars
<1>10. CASE UNCHANGED vars
  BY <1>4, <1>10 DEF vars, busVars, drvVars
<1> QED BY <1>1, <1>2, <1>3, <1>5, <1>6, <1>7, <1>8, <1>9, <1>10
        DEF Next, DriverStep, CommonStep

\* At the start the pull-up is off.
LEMMA BlockedInit == Init => Blocked
BY DEF Init, DrvInit, BusInit, Blocked

\* "In this mode any bits I/O operations or RESET operation are disabled": an
\* operation during which the active pull-up was on from its beginning never
\* completes, however late the handlers and whoever takes DMA.  On a noisy bus
\* an exchange can complete from edges that are none of the master's, hence
\* the assumptions.
THEOREM PullupBlocks ==
  ASSUME ~NoisyBus, ~StuckLine
  PROVE  Spec => []PullupOpsFail
<1>1. Inv /\ Roles /\ Blocked /\ [Next]_vars => Blocked'
  BY BlockedNext
<1>2. Blocked => PullupOpsFail
  BY DEF Blocked, PullupOpsFail, IoComplete, ResetComplete
<1> QED BY <1>1, <1>2, BlockedInit, RolesInvariance, PTL DEF Spec
=============================================================================
