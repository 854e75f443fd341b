-------------------------- MODULE DrvOneWireIrqProofs --------------------------
(***************************************************************************)
(* Proofs about DrvOneWireIrq, for every value of its constants: types,    *)
(* that nothing of the driver runs between operations, that every step is  *)
(* one its caller may expect, and that a PRESENCE was on the line.  Then,  *)
(* for a quiet bus and handlers that are in time (InTime), that the bits   *)
(* sent and received are the right ones, and that there are no more.       *)
(***************************************************************************)
EXTENDS DrvOneWireIrq, DrvOneWireProofs

-----------------------------------------------------------------------------
\* PARAM_VALUE stays a byte.
Byte == [Index -> Flag]

LEMMA ByteOps ==
  ASSUME NEW v \in Byte
  PROVE  /\ ShiftOut(v) \in Byte
         /\ [v EXCEPT ![7] = 1] \in Byte
         /\ v[0] \in Flag
<1>1. \A i \in Index : i < 7 => i + 1 \in Index
  BY DEF Index
<1>2. 7 \in Index /\ 0 \in Index /\ 0 \in Flag /\ 1 \in Flag
  BY DEF Index, Flag
<1> QED BY <1>1, <1>2 DEF Byte, ShiftOut

\* The level of a bit, prepared.
LEMMA BitLevelType ==
  ASSUME DrvTypeOK, NEW t \in Tim, NEW v \in Byte
  PROVE  LET u == BitLevel(t, v)
         IN  u \in Tim /\ u.cen = t.cen /\ u.cnt = t.cnt /\ u.arr = t.arr
<1>1. v[0] \in Flag /\ overdrive \in Flag
  BY ByteOps DEF DrvTypeOK
<1>2. BIT_DURATION(overdrive, v[0]) \in Word
  BY <1>1, BitTypes
<1> QED BY <1>2 DEF BitLevel, SetPwmLevel, Tim

\* An exchange of bits is started.
LEMMA TxBitsType ==
  ASSUME TypeOK, NEW r \in Requests, TxBits(r)
  PROVE  TypeOK'
<1> DEFINE t1 == BitLevel(TxPrepared, r.bits)
           t2 == EnableOverflowIrq(t1)
           t3 == FireOverflowEvent(TimerStart(t2), pullup)
<1>1. /\ r \in Request /\ pullup \in BOOLEAN /\ dma \in Dma /\ DrvTypeOK
      /\ durations \in [Index -> 0 .. DmaModulus - 1]
  BY DrvAssumption DEF TypeOK, DrvTypeOK, BusTypeOK
<1>2. r.bits \in Byte /\ r.n \in 0 .. 8
  BY <1>1 DEF Request, Byte
<1>3. t1 \in Tim
  BY <1>1, <1>2, TxPreparedType, BitLevelType
<1>4. t2 \in Tim
  BY <1>1, <1>3, TimFlagOps
<1>5. t3 \in Tim /\ t3.cnt <= t3.arr
  BY <1>1, <1>4, StartedType
<1>6. TxStarted(r, t3) /\ Begin("io") /\ UNCHANGED <<dma, durations>>
  BY DEF TxBits
<1> HIDE DEF t1, t2, t3
<1>7. DrvTypeOK'
  BY <1>1, <1>5, <1>6, TxStartedType
<1>8. value' \in Byte /\ count' \in 0 .. 8
  BY <1>2, ByteOps DEF TxBits
<1> QED BY <1>7, <1>8 DEF TypeOK, Byte

\* A handler keeps the types, and rests the timer when it ends an operation.
LEMMA DispatchServed ==
  ASSUME TypeOK, Dispatch
  PROVE  Served /\ value' \in Byte /\ count' \in 0 .. 8
<1>1. /\ tim \in Tim /\ dma \in Dma /\ mark \in Word /\ DrvTypeOK
      /\ tim.cen => tim.cnt <= tim.arr
      /\ presence \in {0, 1} /\ al \in {0, 1} /\ status \in Op!Status
      /\ value \in Byte /\ count \in 0 .. 8
  BY DEF TypeOK, DrvTypeOK, BusTypeOK, Op!TypeOK, Byte
<1>2. {Op!COMPLETE, Op!ERROR} \subseteq Op!Status
  BY OpStatus
<1> DEFINE Same(t) == t.cen = tim.cen /\ t.cnt = tim.cnt /\ t.arr = tim.arr
           Goal == Served /\ value' \in Byte /\ count' \in 0 .. 8
<1>3. ASSUME IsrPullupConflict /\ UNCHANGED <<value, count>> PROVE Goal
  BY <1>1, <1>3, IsrPullupConflictServed
<1>4. ASSUME IsrOverflow PROVE Goal
  <2> DEFINE t == ClearOverflow(tim)
  <2>1. t \in Tim /\ Same(t) /\ UNCHANGED value
    BY <1>1, <1>4, TimFlagOps DEF ClearOverflow, Tim, IsrOverflow
  <2> HIDE DEF t
  <2>2. CASE BitsOverflow(t)
    <3>1. EnablePwmIrq(t) \in Tim /\ DisablePwmIrq(t) \in Tim
      BY <2>1, TimFlagOps
    <3>2. \A u \in {EnablePwmIrq(t), DisablePwmIrq(t)} :
            EnableCaptureIrq(u) \in Tim /\ Same(EnableCaptureIrq(u))
      BY <2>1, <3>1 DEF EnableCaptureIrq, EnablePwmIrq, DisablePwmIrq, Tim
    <3>3. CASE count > 0
      <4>1. /\ tim' \in Tim /\ Same(tim') /\ count' \in 0 .. 8
            /\ UNCHANGED <<dma, status, al, presence, mark>>
        BY <1>1, <2>2, <3>2, <3>3 DEF BitsOverflow
      <4> QED BY <1>1, <2>1, <4>1 DEF Served
    <3>4. CASE ~(count > 0)
      BY <1>1, <1>2, <2>1, <2>2, <3>4, OperationCompleteRests
         DEF BitsOverflow, Served
    <3> QED BY <3>3, <3>4
  <2>3. CASE ResetOverflow(t) /\ UNCHANGED count
    BY <1>1, <2>1, <2>3, ResetOverflowServed
  <2> QED BY <1>4, <2>2, <2>3 DEF IsrOverflow, t
<1>5. ASSUME IsrPwmCapture PROVE Goal
  <2> DEFINE t == AfterPwm(tim)
             v == ValueAfterPwm(tim)
             c == ClearCapture(t)
  <2>1. t \in Tim /\ Same(t)
    <3>1. ClearPwm(tim) \in Tim /\ Same(ClearPwm(tim))
      BY <1>1, TimFlagOps DEF ClearPwm, Tim
    <3>2. LET u == BitLevel(ClearPwm(tim), value) IN u \in Tim /\ Same(u)
      BY <1>1, <3>1, BitLevelType
    <3>3. LET u == EndResetPulse(tim) IN u \in Tim /\ Same(u)
      BY <1>1, EndResetPulseType
    <3> QED BY <1>1, <3>2, <3>3 DEF AfterPwm
  <2>2. v \in Byte
    BY <1>1, ByteOps DEF ValueAfterPwm
  <2> HIDE DEF t, v
  <2>3. c \in Tim /\ Same(c)
    BY <2>1, TimFlagOps DEF ClearCapture, Tim
  <2>4. UNCHANGED count
    BY <1>5 DEF IsrPwmCapture
  <2>5. CASE /\ tim' = t /\ value' = v
             /\ UNCHANGED <<dma, status, presence, mark, al>>
    BY <1>1, <2>1, <2>2, <2>4, <2>5 DEF Served
  <2>6. CASE BitCaptured(t, v) /\ UNCHANGED <<presence, mark>>
    <3>1. value' \in Byte
      BY <2>2, <2>6, ByteOps DEF BitCaptured
    <3>2. CASE tim' = c /\ UNCHANGED <<dma, status, al>>
      BY <1>1, <2>3, <2>4, <2>6, <3>1, <3>2 DEF Served
    <3>3. CASE \/ OperationComplete(c, dma, Op!ERROR)
               \/ OperationComplete(c, dma, Op!COMPLETE)
      BY <1>1, <1>2, <2>3, <2>4, <2>6, <3>1, <3>3, OperationCompleteRests
         DEF Served
    <3> QED BY <2>6, <3>2, <3>3 DEF BitCaptured
  <2>7. CASE PresenceEdge(t) /\ value' = v
    BY <1>1, <2>1, <2>2, <2>4, <2>7, PresenceEdgeServed
  <2> QED BY <1>5, <2>5, <2>6, <2>7 DEF IsrPwmCapture, t, v
<1> QED BY <1>3, <1>4, <1>5 DEF Dispatch

\* Between operations no handler has anything to serve.
LEMMA AtRestNoDispatch ==
  ASSUME AtRest, Op!Ready
  PROVE  ~Dispatch
BY AtRestIsIdle DEF Dispatch, IsrPullupConflict, IsrOverflow, IsrPwmCapture

Inv == TypeOK /\ AtRest

\* Every step keeps types and rest.
LEMMA InvNext ==
  ASSUME Inv, [Next]_vars
  PROVE  Inv'
<1>0. TypeOK /\ AtRest /\ DrvTypeOK
  BY DEF Inv, TypeOK
<1>1. CASE CommonStep /\ UNCHANGED <<value, count>>
  BY <1>0, <1>1, CommonStepRests DEF Inv, TypeOK
<1>2. ASSUME NEW r \in Requests, TxBits(r)
      PROVE  Inv'
  <2>1. ~Op!Ready'
    BY <1>2 DEF TxBits, TxStarted, Begin, Op!Ready
  <2> QED BY <1>0, <1>2, <2>1, TxBitsType DEF Inv, AtRest
<1>3. CASE Dispatch
  <2>1. Served /\ value' \in Byte /\ count' \in 0 .. 8
    BY <1>0, <1>3, DispatchServed
  <2>2. DrvTypeOK'
    BY <1>0, <1>3, <2>1, ServedType DEF Dispatch
  <2>3. status' = status => ~Op!Ready'
    BY <1>0, <1>3, AtRestNoDispatch DEF Op!Ready, Dispatch
  <2> QED BY <2>1, <2>2, <2>3 DEF Inv, TypeOK, AtRest, Served, Byte
<1>4. CASE UNCHANGED vars
  BY <1>0, <1>4 DEF vars, busVars, drvVars, Inv, TypeOK, DrvTypeOK, BusTypeOK,
     Op!TypeOK, AtRest, Op!Ready
<1> QED BY <1>1, <1>2, <1>3, <1>4 DEF Next

\* They hold at the start.
LEMMA InvInit == Init => Inv
BY DrvInitial, ByteOps DEF Init, Inv, TypeOK, Flag

\* They hold throughout.
LEMMA Invariance == Spec => []Inv
BY InvInit, InvNext, PTL DEF Spec

\* The registers, the context, the byte that is shifted and the count of its
\* bits keep their types and ranges, whatever the constants are.
THEOREM IrqTypeCorrect == Spec => []TypeOK
BY Invariance, PTL DEF Inv

\* Whatever path ends an operation of the interrupt build (complete, a bit
\* that does not decode, a missing edge, a timeout, a pull-up conflict), the
\* timer is left stopped with its output off and its interrupts disabled.
THEOREM IrqAlwaysAtRest == Spec => []AtRest
BY Invariance, PTL DEF Inv

\* Every step of the interrupt build is a step of OneWireOp, or none of it.
LEMMA StepsNext ==
  ASSUME Inv, [Next]_vars
  PROVE  [Op!Next]_(Op!vars)
<1>1. CASE CommonStep /\ UNCHANGED <<value, count>>
  BY <1>1, CommonStepOp DEF Inv, TypeOK
<1>2. ASSUME NEW r \in Requests, TxBits(r)
      PROVE  Op!StartIo
  BY <1>2 DEF TxBits, TxStarted, Begin, Op!StartIo
<1>3. CASE Dispatch
  <2>1. Op!Busy /\ UNCHANGED call
    BY <1>3, AtRestNoDispatch DEF Inv, Op!Busy, Dispatch
  <2>2. CASE IsrPullupConflict
    BY <2>1, <2>2, CommonServedOp DEF Op!Next
  <2>3. CASE IsrOverflow
    <3>1. CASE BitsOverflow(ClearOverflow(tim))
      BY <2>1, <3>1, FinishOp, OpStatus DEF BitsOverflow, Op!Next, Op!vars
    <3> QED BY <2>1, <2>3, <3>1, CommonServedOp DEF IsrOverflow, Op!Next
  <2>4. CASE IsrPwmCapture
    <3> DEFINE t == AfterPwm(tim)
               v == ValueAfterPwm(tim)
    <3>1. CASE BitCaptured(t, v) /\ presence = 1 /\ UNCHANGED presence
      BY <2>1, <3>1, FinishOp, OpStatus DEF BitCaptured, Op!Next, Op!vars
    <3>2. CASE PresenceEdge(t)
      BY <2>1, <3>2, CommonServedOp DEF Op!Next
    <3>3. CASE UNCHANGED <<status, presence, al>>
      BY <2>1, <3>3 DEF Op!vars
    <3> QED BY <2>4, <3>1, <3>2, <3>3 DEF IsrPwmCapture
  <2> QED BY <1>3, <2>2, <2>3, <2>4 DEF Dispatch
<1>4. CASE UNCHANGED vars
  BY <1>4 DEF vars, busVars, drvVars, Op!vars
<1> QED BY <1>1, <1>2, <1>3, <1>4 DEF Next, Op!Next

\* The interrupt build implements OneWireOp as the DMA build does: callers
\* cannot tell which of the two they run on.
THEOREM IrqImplementsOp == Spec => OpSteps
<1>1. Init => Op!Init
  BY DEF Init, DrvInit
<1>2. Inv /\ [Next]_vars => [Op!Next]_(Op!vars)
  BY StepsNext
<1> QED BY <1>1, <1>2, Invariance, PTL DEF Spec, OpSteps

\* A handler only ever runs for an operation in progress.
THEOREM IrqHandlersServeOperations == Spec => [][Dispatch => Op!Busy]_vars
<1>1. Inv /\ [Next]_vars => [Dispatch => Op!Busy]_vars
  BY AtRestNoDispatch DEF Inv, Op!Busy
<1> QED BY <1>1, Invariance, PTL DEF Spec

-----------------------------------------------------------------------------
\* PRESENCE: the handlers that run in a RESET keep what it knows.
LEMMA PresenceKnownDispatch ==
  ASSUME Inv, PresenceKnown, Dispatch
  PROVE  PresenceKnown'
<1>1. /\ Op!Busy /\ tim \in Tim /\ DrvTypeOK
      /\ UNCHANGED <<call, overdrive, wire>>
  BY AtRestNoDispatch DEF Inv, TypeOK, DrvTypeOK, BusTypeOK, Op!Busy, Dispatch
<1>2. CASE call # "reset"
  BY <1>1, <1>2 DEF PresenceKnown, PresenceSound, ResetComplete
<1>3. CASE status' = Op!ERROR
  BY <1>3, OpStatus DEF PresenceKnown, PresenceSound, ResetComplete
<1>4. ASSUME call = "reset", status' # Op!ERROR
      PROVE  PresenceKnown'
  <2>1. status = Op!PROGRESS /\ Hearing /\ presence = 0
    BY <1>1, <1>4 DEF Op!Busy, Op!Ready, PresenceKnown, Hearing
  <2>2. CASE IsrPullupConflict
    BY <1>4, <2>2 DEF IsrPullupConflict, OperationComplete
  <2>3. CASE IsrOverflow
    <3>1. /\ tim' = EnablePwmIrq(ClearOverflow(tim))
          /\ UNCHANGED <<status, presence, mark>>
      BY <1>1, <1>4, <2>1, <2>3
         DEF IsrOverflow, BitsOverflow, ResetOverflow, OperationComplete
    <3>2. Hearing'
      BY <1>1, <2>1, <3>1 DEF Hearing, EnablePwmIrq, ClearOverflow, Tim
    <3> QED BY <1>1, <1>4, <2>1, <3>1, <3>2, OpStatus
            DEF PresenceKnown, PresenceSound, ResetComplete
  <2>4. CASE IsrPwmCapture
    <3>1. CASE tim.cc1if
      <4>1. AfterPwm(tim) = EndResetPulse(tim) /\ ~AfterPwm(tim).cc2if
        BY <1>1, <2>1, <3>1 DEF AfterPwm, EndResetPulse, SetCapturePolarity,
           SetPwmLevel, ClearPwm, EnableCaptureIrq, DisablePwmIrq,
           ClearCapture, Tim
      <4>2. /\ tim' = EndResetPulse(tim)
            /\ UNCHANGED <<status, presence, mark>>
        BY <2>4, <4>1 DEF IsrPwmCapture
      <4> QED BY <1>1, <1>4, <2>1, <4>2, EndResetPulseKnown
    <3>2. CASE ~tim.cc1if
      <4>1. PresenceEdge(tim) /\ tim.cc2ie /\ tim.cc2if
        BY <2>1, <2>4, <3>2 DEF IsrPwmCapture, AfterPwm, CapComPending
      <4> QED BY <1>1, <1>4, <2>1, <4>1, PresenceEdgeKnown
    <3> QED BY <3>1, <3>2
  <2> QED BY <2>2, <2>3, <2>4 DEF Dispatch
<1> QED BY <1>2, <1>3, <1>4

\* And every other step.
LEMMA PresenceKnownNext ==
  ASSUME Inv, PresenceKnown, [Next]_vars
  PROVE  PresenceKnown'
<1>1. CASE CommonStep
  BY <1>1, PresenceKnownCommon DEF Inv, TypeOK
<1>2. ASSUME NEW r \in Requests, TxBits(r)
      PROVE  PresenceKnown'
  BY <1>2 DEF TxBits, Begin, PresenceKnown, PresenceSound, ResetComplete
<1>3. CASE Dispatch
  BY <1>3, PresenceKnownDispatch
<1>4. CASE UNCHANGED vars
  BY <1>4 DEF vars, busVars, drvVars, PresenceKnown, Hearing, PresenceSound,
     ResetComplete, Presence
<1> QED BY <1>1, <1>2, <1>3, <1>4 DEF Next

\* PRESENCE is never reported unless the line fell and rose as a PRESENCE
\* pulse does: the interrupt build runs the same RESET as the DMA build.
THEOREM IrqPresenceIsReal == Spec => []PresenceSound
<1>1. Inv /\ PresenceKnown /\ [Next]_vars => PresenceKnown'
  BY PresenceKnownNext
<1>2. PresenceKnown => PresenceSound
  BY DEF PresenceKnown
<1> QED BY <1>1, <1>2, PresenceKnownInit, Invariance, PTL DEF Spec, Init

-----------------------------------------------------------------------------
\* No PRESENCE is missed: the handlers of a RESET.
LEMMA HeedsDispatch ==
  ASSUME Inv, HearsInTime, Heeds, Dispatch
  PROVE  Heeds'
<1>1. /\ Op!Busy /\ tim \in Tim /\ DrvTypeOK
      /\ lag' = 0
      /\ UNCHANGED <<pullup, hold, call, wire, overdrive, conflict>>
  BY AtRestNoDispatch DEF Inv, TypeOK, DrvTypeOK, BusTypeOK, Op!Busy, Dispatch
<1>2. CASE call # "reset" \/ conflict # "never"
  BY <1>1, <1>2, HeedsApart
<1>3. ASSUME call = "reset", conflict = "never"
      PROVE  Heeds'
  <2>1. status = Op!PROGRESS /\ Heeded /\ presence = 0
    BY <1>1, <1>3 DEF Op!Busy, Op!Ready, Heeds, Heeded, NoConflict
  <2>2. ~IsrPullupConflict
    BY <2>1 DEF IsrPullupConflict, PullupConflict, Heeded
  <2>3. CASE IsrOverflow
    <3>1. OverflowPending /\ ResetOverflow(ClearOverflow(tim))
      BY <2>1, <2>3 DEF IsrOverflow, BitsOverflow
    <3> QED BY <1>1, <1>3, <2>1, <3>1, HeedsResetOverflow
  <2>4. CASE ~OverflowPending /\ IsrPwmCapture
    <3>1. CASE tim.cc1if
      <4>1. AfterPwm(tim) = EndResetPulse(tim) /\ ~AfterPwm(tim).cc2if
        BY <1>1, <2>1, <3>1 DEF AfterPwm, EndResetPulse, SetCapturePolarity,
           SetPwmLevel, ClearPwm, EnableCaptureIrq, DisablePwmIrq,
           ClearCapture, Tim
      <4>2. /\ tim' = EndResetPulse(tim)
            /\ UNCHANGED <<status, presence, mark>>
        BY <2>4, <4>1 DEF IsrPwmCapture
      <4> QED BY <1>1, <1>3, <2>1, <2>4, <3>1, <4>2, HeedsEndPulse
    <3>2. CASE ~tim.cc1if
      <4>1. CapComPending /\ PresenceEdge(tim)
        BY <2>1, <2>4, <3>2 DEF IsrPwmCapture, AfterPwm, CapComPending
      <4> QED BY <1>1, <1>3, <2>1, <2>4, <3>2, <4>1, HeedsEdge
    <3> QED BY <3>1, <3>2
  <2> QED BY <2>2, <2>3, <2>4 DEF Dispatch
<1> QED BY <1>2, <1>3 DEF Heeds

\* And every other step.
LEMMA HeedsNext ==
  ASSUME ~NoisyBus, HearsInTime, Inv, ~dma.clk, Heeds, [Next]_vars
  PROVE  Heeds'
<1>1. CASE CommonStep
  <2>1. ~PwmRequestServed(dma)
    BY DEF PwmRequestServed
  <2> QED BY <1>1, <2>1, HeedsCommon DEF Inv, TypeOK
<1>2. ASSUME NEW r \in Requests, TxBits(r)
      PROVE  Heeds'
  BY <1>2, HeedsApart DEF TxBits, Begin
<1>3. CASE Dispatch
  BY <1>3, HeedsDispatch
<1>4. CASE UNCHANGED vars
  <2>1. Heeded => Heeded'
    BY <1>4 DEF vars, busVars, drvVars, Heeded, Started, Pulsing, Listening,
       Measuring, TimedOut, Turned, Fallen, Risen, Lateness, Presence
  <2>2. PresenceNotMissed => PresenceNotMissed'
    BY <1>4 DEF vars, busVars, drvVars, PresenceNotMissed, NoConflict,
       Presence
  <2> QED BY <1>4, <2>1, <2>2 DEF vars, busVars, drvVars, Heeds, NoConflict
<1> QED BY <1>1, <1>2, <1>3, <1>4 DEF Next

\* DMA is never powered in this build.
NoDma == ~dma.clk

LEMMA NeverDma ==
  ASSUME Inv, NoDma, [Next]_vars
  PROVE  NoDma'
<1> USE DEF NoDma
<1>1. BusTypeOK /\ dma \in Dma
  BY DEF Inv, TypeOK, DrvTypeOK, BusTypeOK
<1>2. ASSUME NEW od \in Speeds, Reset(od)
      PROVE  NoDma'
  BY <1>1, <1>2 DEF Reset, Settle, CaptureTransfer, Dma
<1>3. CASE HardwareStep \/ PullupStep
  BY <1>1, <1>3, HardwareKeeps DEF HardwareStep, PullupStep
<1>4. CASE SimulatePresence \/ ConsumeEvent
  BY <1>4 DEF SimulatePresence, ConsumeEvent
<1>5. ASSUME NEW r \in Requests, TxBits(r)
      PROVE  NoDma'
  BY <1>5 DEF TxBits
<1>6. CASE Dispatch
  <2>1. dma' = dma
    BY <1>6, IrqAssumption
       DEF Dispatch, IsrPullupConflict, IsrOverflow, BitsOverflow,
       ResetOverflow, IsrPwmCapture, PresenceEdge, BitCaptured,
       OperationComplete, CompleteDma
  <2> QED BY <2>1
<1>7. CASE UNCHANGED vars
  BY <1>7 DEF vars, busVars
<1> QED BY <1>2, <1>3, <1>4, <1>5, <1>6, <1>7 DEF Next, CommonStep

\* The interrupt build misses no PRESENCE either.
THEOREM IrqPresenceIsHeard ==
  ASSUME ~NoisyBus, HearsInTime
  PROVE  Spec => []PresenceNotMissed
<1>1. Inv /\ NoDma /\ Heeds /\ [Next]_vars => NoDma' /\ Heeds'
  BY HeedsNext, NeverDma DEF NoDma
<1>2. Heeds => PresenceNotMissed
  BY DEF Heeds
<1>3. Init => NoDma /\ Heeds
  BY HeedsInit DEF Init, DrvInit, BusInit, NoDma
<1> QED BY <1>1, <1>2, <1>3, Invariance, PTL DEF Spec

-----------------------------------------------------------------------------
\* The time slots of an exchange.  What follows holds when the bus is quiet and
\* the handlers are in time.
Top == IO_BIT_PROCEDURE_DURATION(overdrive)
Level(b) == BIT_DURATION(overdrive, b)
Levels == {Level(0), Level(1)}
Exchange == call = "io" /\ status = Op!PROGRESS
Low == Driving(tim) \/ hold
Slots == Len(wire.pulses)
Edges == Len(wire.rises)

\* DMA is never on, and BIF tells whether the pull-up was.
Guarded ==
  /\ ~dma.clk
  /\ tim.bif \/ pullup => ActivePullup
  /\ NoConflict => ~pullup
  /\ Exchange => (pullup => tim.bif) /\ (tim.bif <=> ~NoConflict)

\* The timer in a slot: every event leaves the handlers their time.
Clocked ==
  Exchange =>
    /\ presence = 1
    /\ tim.cen /\ tim.aoe /\ tim.uie /\ tim.cc2p = Rising /\ tim.arr = Top
    /\ tim.cnt + MaxLag[Top] <= Top
    /\ tim.pwm \in Levels /\ tim.ccr1 \in Levels
    /\ tim.uif \/ tim.cc2ie
    /\ ~tim.uif /\ count > 0 => tim.cc1ie
    /\ NoConflict => tim.moe

\* A slot that has begun and is not counted yet.
Begun == IF tim.uif THEN 1 ELSE 0

\* With or without the pull-up: no more slots than bits, and in the last one a
\* rising edge is still to come or to be served.
Watched ==
  /\ Exchange /\ ~wire.stuck =>
       /\ Slots + count <= request.n + Begun
       /\ tim.uif => tim.bif \/ Low \/ tim.cc2if
       /\ count = 0 => ~tim.uif /\ (Low \/ tim.cc2if)
  /\ NoExtraPulse

\* Is the pulse of this slot still to end, or to be served?
Due == tim.cnt < tim.pwm \/ tim.cc1if

\* The bits from the k-th on that are at the low end of the value.
Left(v, k) == \A i \in 0 .. 7 - k : v[i] = request.bits[i + k]

\* The bits that were not sent yet are there, the next one in the preload
\* register once the pulse before it was served.
Sending ==
  /\ Exchange /\ NoConflict =>
       /\ Slots >= 1 /\ Slots + count = request.n + Begun
       /\ Slots <= request.n /\ tim.cc1if => tim.cnt >= tim.pwm
       /\ tim.cc2if => tim.cnt >= tim.pwm
       /\ Slots < request.n =>
            IF Due THEN Left(value, Slots)
            ELSE /\ tim.ccr1 = Level(request.bits[Slots])
                 /\ Left(value, Slots + 1)
  /\ SentInOrder

\* How often the value was shifted since the first slot began, and of how many
\* edges it has the bits, at its high end.
Shifted == IF Due THEN Slots - 1 ELSE Slots
Heard == IF tim.cc2if THEN Edges - 1 ELSE Edges
Got(v, shifted, heard) ==
  /\ \A j \in 1 .. heard :
       v[7 - shifted + j] = DecodeBit(overdrive, wire.rises[j])
  /\ heard < shifted => v[7] = 0

Receiving ==
  /\ Exchange /\ NoConflict /\ ~wire.stuck =>
       /\ Edges = IF Low THEN Slots - 1 ELSE Slots
       /\ tim.cc2if => ~Low /\ tim.ccr2 = wire.rises[Edges]
       /\ ~Low /\ ~tim.cc2if => ~Due
       /\ \A j \in 1 .. Edges :
            wire.rises[j] \in Ticks .. Ticks * TSLOT_MAX(overdrive)
       /\ Got(value, Shifted, Heard)
  /\ RxDataOk
  /\ NoSpuriousError

SlotInv == Guarded /\ Clocked /\ Watched /\ Sending /\ Receiving

\* The constants of a slot.
LEMMA SlotConstants ==
  ASSUME NEW od \in Flag, NEW b \in Flag
  PROVE  /\ BIT_DURATION(od, b) \in Nat /\ Ticks \in Nat
         /\ Ticks <= BIT_DURATION(od, b)
         /\ BIT_DURATION(od, b) <= Ticks * TSLOT_MAX(od)
         /\ Ticks * TSLOT_MAX(od) \in Nat /\ Ticks > 0
         /\ IO_BIT_PROCEDURE_DURATION(od) - Ticks * TREC_MIN
              = Ticks * TSLOT_MAX(od)
         /\ BIT1_MIN_DURATION(od) = Ticks
         /\ BIT0_MAX_DURATION(od) = Ticks * TSLOT_MAX(od)
<1> USE DEF Flag, BIT_DURATION, BIT0, BIT1, TSLOT_MAX, TSLOT_MIN, TLOWR_MIN,
        TLOWR_MAX, IO_BIT_PROCEDURE_DURATION, TREC_MIN, BIT1_MIN_DURATION,
        BIT0_MAX_DURATION
<1>1. CASE Ticks = 2
  BY <1>1
<1>2. CASE Ticks = 4
  BY <1>2
<1> QED BY <1>1, <1>2, TicksAssumption

\* A slot as the state has it.
LEMMA SlotFacts ==
  ASSUME TypeOK, Clocked, Exchange
  PROVE  /\ overdrive \in Flag /\ presence = 1 /\ Exchange
         /\ tim.cen /\ tim.aoe /\ tim.uie /\ tim.cc2p = Rising /\ tim.arr = Top
         /\ tim.cnt \in Int /\ tim.pwm \in Int /\ tim.ccr1 \in Int
         /\ Top \in Word /\ Top \in Int /\ MaxLag[Top] \in Nat
         /\ 0 <= tim.cnt /\ tim.cnt + MaxLag[Top] <= Top
         /\ tim.pwm \in Levels /\ tim.ccr1 \in Levels
         /\ \A l \in Levels : /\ l \in Int /\ Ticks <= l /\ 0 < l
                              /\ l <= Ticks * TSLOT_MAX(overdrive) /\ l < Top
         /\ Ticks * TSLOT_MAX(overdrive) \in Int
         /\ Top - Ticks * TREC_MIN = Ticks * TSLOT_MAX(overdrive)
         /\ Slots \in Nat /\ Edges \in Nat /\ count \in 0 .. 8
         /\ wire.pulses \in Seq(Word) /\ wire.rises \in Seq(Word)
         /\ request.n \in 1 .. 8 /\ request \in Request /\ value \in Byte
         /\ wire \in Trace /\ tim \in Tim /\ dma \in Dma
         /\ hold \in BOOLEAN /\ pullup \in BOOLEAN /\ lag \in Nat
<1>1. /\ overdrive \in Flag /\ request \in Request /\ wire \in Trace
      /\ tim \in Tim /\ dma \in Dma /\ value \in Byte /\ count \in 0 .. 8
      /\ hold \in BOOLEAN /\ pullup \in BOOLEAN /\ lag \in Nat
  BY DEF TypeOK, DrvTypeOK, BusTypeOK, Byte
<1>2. /\ tim.cnt \in Word /\ tim.pwm \in Word /\ tim.ccr1 \in Word
      /\ wire.pulses \in Seq(Word) /\ wire.rises \in Seq(Word)
      /\ request.n \in 1 .. 8
  BY <1>1 DEF Tim, Trace, Request
<1>3. Top \in Word /\ MaxLag[Top] \in Nat
  BY <1>1, BitTypes, BusAssumption DEF Top, Flag
<1>4. \A l \in Levels : /\ l \in Int /\ Ticks <= l /\ 0 < l
                        /\ l <= Ticks * TSLOT_MAX(overdrive) /\ l < Top
  <2>1. \A b \in Flag :
          /\ Level(b) \in Int /\ Ticks <= Level(b) /\ 0 < Level(b)
          /\ Level(b) <= Ticks * TSLOT_MAX(overdrive) /\ Level(b) < Top
    <3>1. SUFFICES ASSUME NEW b \in Flag
                   PROVE  /\ Level(b) \in Int /\ Ticks <= Level(b)
                          /\ 0 < Level(b) /\ Level(b) < Top
                          /\ Level(b) <= Ticks * TSLOT_MAX(overdrive)
      OBVIOUS
    <3>2. Ticks * TREC_MIN = Ticks
      BY TicksAssumption DEF TREC_MIN
    <3>3. Top \in Int
      BY <1>3, WordIsInt
    <3> QED BY <1>1, <3>2, <3>3, SlotConstants DEF Level, Top
  <2> QED BY <2>1 DEF Levels, Flag
<1>5. /\ Ticks * TSLOT_MAX(overdrive) \in Int
      /\ Top - Ticks * TREC_MIN = Ticks * TSLOT_MAX(overdrive)
  BY <1>1, SlotConstants DEF Top, Flag
<1>6. /\ tim.cnt \in Int /\ tim.pwm \in Int /\ tim.ccr1 \in Int /\ Top \in Int
      /\ 0 <= tim.cnt
  BY <1>2, <1>3, WordIsInt
<1> QED BY <1>1, <1>2, <1>3, <1>4, <1>5, <1>6 DEF Clocked, Slots, Edges

\* What an event does to the line of an exchange: it rises or not.
Rise == Low /\ ~Low'
Moves(t, h, w) ==
  /\ tim'.cen = t.cen /\ tim'.aoe = t.aoe /\ tim'.moe = t.moe
  /\ tim'.uie = t.uie /\ tim'.uif = t.uif /\ tim'.bif = t.bif
  /\ tim'.cc1ie = t.cc1ie /\ tim'.cc2ie = t.cc2ie
  /\ tim'.cc1if = t.cc1if /\ tim'.cc2p = t.cc2p
  /\ tim'.arr = t.arr /\ tim'.cnt = t.cnt
  /\ tim'.pwm = t.pwm /\ tim'.ccr1 = t.ccr1
  /\ tim'.cc2if <=> t.cc2if \/ Rise
  /\ tim'.ccr2 = IF Rise THEN t.cnt ELSE t.ccr2
  /\ dma' = dma /\ hold' = h
  /\ Low' <=> Driving(t) \/ h
  /\ wire'.pulses = IF Driving(t) /\ ~Driving(tim)
                    THEN Append(w.pulses, t.pwm) ELSE w.pulses
  /\ wire'.rises = IF Rise THEN Append(w.rises, t.cnt) ELSE w.rises
  /\ wire'.stuck = w.stuck

LEMMA LineEffect ==
  ASSUME TypeOK, ~dma.clk, NEW t \in Tim, NEW h \in BOOLEAN, NEW w \in Trace,
         t.cen, t.cc2p = Rising, Settle(t, dma, h, w)
  PROVE  Moves(t, h, w)
<1> DEFINE rise == Low /\ ~(Driving(t) \/ h)
<1>1. ~CaptureRequestServed(dma)
  BY DEF CaptureRequestServed
<1>2. t.cc2p # Falling
  BY DEF Rising, Falling
<1>3. ~High(tim, hold) /\ High(t, h) <=> rise
  BY DEF High, Low
<1>4. tim' = IF rise THEN [t EXCEPT !.cc2if = TRUE, !.ccr2 = t.cnt] ELSE t
  BY <1>2, <1>3 DEF Settle
<1>5. dma' = dma /\ hold' = h
  BY <1>1 DEF Settle
<1>6. /\ wire'.pulses = IF Driving(t) /\ ~Driving(tim)
                        THEN Append(w.pulses, t.pwm) ELSE w.pulses
      /\ wire'.rises = IF rise THEN Append(w.rises, t.cnt) ELSE w.rises
      /\ wire'.stuck = w.stuck
  BY <1>3 DEF Settle
<1> HIDE DEF rise
<1>7. /\ tim'.cen = t.cen /\ tim'.aoe = t.aoe /\ tim'.moe = t.moe
      /\ tim'.uie = t.uie /\ tim'.uif = t.uif /\ tim'.bif = t.bif
      /\ tim'.cc1ie = t.cc1ie /\ tim'.cc2ie = t.cc2ie
      /\ tim'.cc1if = t.cc1if /\ tim'.cc2p = t.cc2p
      /\ tim'.arr = t.arr /\ tim'.cnt = t.cnt
      /\ tim'.pwm = t.pwm /\ tim'.ccr1 = t.ccr1
      /\ tim'.cc2if <=> t.cc2if \/ rise
      /\ tim'.ccr2 = IF rise THEN t.cnt ELSE t.ccr2
  BY <1>4 DEF Tim
<1>8. Low' <=> Driving(t) \/ h
  BY <1>5, <1>7 DEF Low, Driving
<1>9. Rise <=> rise
  BY <1>8 DEF Rise, rise
<1> QED BY <1>5, <1>6, <1>7, <1>8, <1>9 DEF Moves

\* What the timer does within a slot.
Counts ==
  /\ tim'.cnt \in Int /\ tim.cnt <= tim'.cnt /\ tim'.cnt + MaxLag[Top] <= Top
  /\ tim'.cnt < tim.pwm => tim.cnt < tim.pwm /\ tim'.cc1if = tim.cc1if
  /\ tim.cnt < tim.pwm /\ tim'.cnt >= tim.pwm => tim'.cc1if
  /\ tim.cnt >= tim.pwm => tim'.cc1if = tim.cc1if
  /\ tim'.cen = tim.cen /\ tim'.aoe = tim.aoe
  /\ tim'.uie = tim.uie /\ tim'.uif = tim.uif
  /\ tim'.cc1ie = tim.cc1ie /\ tim'.cc2ie = tim.cc2ie
  /\ tim'.cc2p = tim.cc2p /\ tim'.arr = tim.arr
  /\ tim'.pwm = tim.pwm /\ tim'.ccr1 = tim.ccr1

Hears ==
  /\ Low' => Low
  /\ tim'.cc2if <=> tim.cc2if \/ Rise
  /\ tim'.ccr2 = IF Rise THEN tim'.cnt ELSE tim.ccr2
  /\ wire'.rises = IF Rise THEN Append(wire.rises, tim'.cnt) ELSE wire.rises
  /\ wire'.pulses = wire.pulses /\ wire'.stuck = wire.stuck

Keeps ==
  /\ \/ /\ tim'.moe = tim.moe /\ tim'.bif = tim.bif
        /\ pullup' = pullup /\ conflict' = conflict
        /\ NoConflict /\ Rise =>
             /\ tim'.cnt >= tim.pwm
             /\ tim'.cnt <= Ticks * TSLOT_MAX(overdrive)
     \/ /\ ActivePullup /\ tim'.bif /\ ~NoConflict' /\ pullup'
  /\ UNCHANGED <<dma, value, count>>
  /\ UNCHANGED <<status, presence, overdrive, call, request>>

Within == Counts /\ Hears /\ Keeps

\* When something happens in a slot.
LEMMA MomentInTime ==
  ASSUME TypeOK, Clocked, Exchange, InTime, NEW m \in Moments
  PROVE  /\ m \in Int /\ tim.cnt <= m /\ m <= Top /\ m + MaxLag[Top] <= Top
         /\ tim.cnt < tim.pwm => m < tim.pwm
<1>1. m \in Int /\ m - tim.cnt >= 0
  BY MomentType DEF TypeOK, DrvTypeOK
<1>2. /\ m \in Instants[Top] \/ m = tim.cnt
      /\ tim.cnt < tim.pwm => m < tim.pwm
      /\ m <= Top
  BY SlotFacts DEF Moments
<1>3. \A t \in Instants[Top] : t + MaxLag[Top] <= Top
  BY SlotFacts DEF InTime, Top
<1> QED BY <1>1, <1>2, <1>3, SlotFacts

\* The times the timer sets itself.
LEMMA LevelInTime ==
  ASSUME TypeOK, Clocked, Exchange, InTime
  PROVE  /\ MaxLag[Top] <= Top
         /\ \A l \in Levels : l + MaxLag[Top] <= Top
<1>1. \A t \in {0} \union {BIT_DURATION(overdrive, b) : b \in Flag} :
        t + MaxLag[Top] <= Top
  BY SlotFacts DEF InTime, Top
<1>2. \A b \in Flag : Level(b) + MaxLag[Top] <= Top
  BY <1>1 DEF Level
<1>3. 0 + MaxLag[Top] <= Top
  BY <1>1
<1> QED BY <1>2, <1>3, SlotFacts DEF Levels, Flag

\* The end of a pulse, a device that pulls the line or lets go of it, and the
\* pull-up are such steps.
LEMMA CompareWithin ==
  ASSUME TypeOK, Clocked, Exchange, InTime, ~dma.clk, HardwareStep, Compare,
         UNCHANGED <<value, count>>
  PROVE  Within
<1> DEFINE t == [tim EXCEPT !.cnt = tim.pwm, !.cc1if = TRUE]
<1>1. Settle(t, dma, hold, wire) /\ tim.cnt < tim.pwm
  BY DEF Compare, PwmRequestServed
<1>2. /\ t \in Tim /\ t.cnt = tim.pwm /\ t.cc1if
      /\ t.cen = tim.cen /\ t.aoe = tim.aoe /\ t.moe = tim.moe
      /\ t.uie = tim.uie /\ t.uif = tim.uif /\ t.bif = tim.bif
      /\ t.cc1ie = tim.cc1ie /\ t.cc2ie = tim.cc2ie
      /\ t.cc2if = tim.cc2if /\ t.cc2p = tim.cc2p
      /\ t.arr = tim.arr /\ t.pwm = tim.pwm /\ t.ccr1 = tim.ccr1
      /\ t.ccr2 = tim.ccr2
  BY SlotFacts DEF Tim
<1> HIDE DEF t
<1>3. ~Driving(t)
  BY <1>2, SlotFacts DEF Driving
<1>4. t.cen /\ t.cc2p = Rising
  BY <1>2, SlotFacts
<1>5. tim.pwm + MaxLag[Top] <= Top
  BY SlotFacts, LevelInTime
<1>6. UNCHANGED <<status, presence, overdrive, call, request, pullup, conflict>>
  BY DEF HardwareStep, drvVars, Compare
<1>7. Moves(t, hold, wire)
  BY <1>1, <1>2, <1>4, LineEffect, SlotFacts
<1>8. /\ tim.cnt \in Int /\ tim.pwm \in Int
      /\ tim.pwm <= Ticks * TSLOT_MAX(overdrive)
  BY SlotFacts
<1>9. Low' => Low
  BY <1>3, <1>7 DEF Moves, Low
<1>10. Counts
  <2>1. tim'.cnt = tim.pwm
    BY <1>2, <1>7 DEF Moves
  <2>2. ~(tim'.cnt < tim.pwm) /\ ~(tim.cnt >= tim.pwm)
    BY <1>1, <1>8, <2>1
  <2>3. tim.cnt <= tim.pwm
    BY <1>1, <1>8
  <2>4. tim'.cc1if
    BY <1>2, <1>7 DEF Moves
  <2> QED BY <1>2, <1>5, <1>7, <1>8, <2>1, <2>2, <2>3, <2>4 DEF Counts, Moves
<1>11. Hears
  BY <1>2, <1>3, <1>7, <1>9 DEF Hears, Moves
<1>12. Keeps
  BY <1>2, <1>6, <1>7, <1>8 DEF Keeps, Moves
<1> QED BY <1>10, <1>11, <1>12 DEF Within

LEMMA DeviceWithin ==
  ASSUME TypeOK, Clocked, Exchange, InTime, ~NoisyBus, ~dma.clk, HardwareStep,
         NEW m \in Moments, DevicePull(m) \/ DeviceRelease(m),
         UNCHANGED <<value, count>>
  PROVE  Within
<1> DEFINE t == [tim EXCEPT !.cnt = m]
<1>1. PICK h \in BOOLEAN : /\ Settle(t, dma, h, wire)
                           /\ h => Driving(tim)
                           /\ ~h => m <= Ticks * TSLOT_MAX(overdrive)
  BY SlotFacts DEF DevicePull, DeviceRelease, Exchange
<1>2. /\ t \in Tim /\ t.cnt = m /\ t.cc1if = tim.cc1if
      /\ t.cen = tim.cen /\ t.aoe = tim.aoe /\ t.moe = tim.moe
      /\ t.uie = tim.uie /\ t.uif = tim.uif /\ t.bif = tim.bif
      /\ t.cc1ie = tim.cc1ie /\ t.cc2ie = tim.cc2ie
      /\ t.cc2if = tim.cc2if /\ t.cc2p = tim.cc2p
      /\ t.arr = tim.arr /\ t.pwm = tim.pwm /\ t.ccr1 = tim.ccr1
      /\ t.ccr2 = tim.ccr2
  BY MomentType, SlotFacts DEF Tim, TypeOK, DrvTypeOK
<1> HIDE DEF t
<1>3. Driving(t) = Driving(tim)
  BY <1>2, MomentInTime, SlotFacts DEF Driving
<1>4. t.cen /\ t.cc2p = Rising
  BY <1>2, SlotFacts
<1>5. UNCHANGED <<status, presence, overdrive, call, request, pullup, conflict>>
  BY DEF HardwareStep, drvVars, DevicePull, DeviceRelease
<1>6. Moves(t, h, wire)
  BY <1>1, <1>2, <1>4, LineEffect, SlotFacts
<1>7. Low' => Low
  BY <1>1, <1>3, <1>6 DEF Moves, Low
<1>8. /\ m \in Int /\ tim.cnt <= m /\ m + MaxLag[Top] <= Top
      /\ tim.cnt < tim.pwm => m < tim.pwm
      /\ tim.cnt \in Int /\ tim.pwm \in Int
  BY MomentInTime, SlotFacts
<1>9. NoConflict /\ Rise => m >= tim.pwm /\ m <= Ticks * TSLOT_MAX(overdrive)
  <2>1. NoConflict /\ ~Driving(t) => m >= tim.pwm
    BY <1>2, <1>8, SlotFacts DEF Driving, Clocked
  <2>2. Rise => ~Driving(t) /\ ~h
    BY <1>6 DEF Moves, Rise
  <2> QED BY <1>1, <2>1, <2>2
<1>10. Counts
  BY <1>2, <1>6, <1>8 DEF Counts, Moves
<1>11. Hears
  BY <1>2, <1>3, <1>6, <1>7 DEF Hears, Moves
<1>12. Keeps
  BY <1>2, <1>5, <1>6, <1>9 DEF Keeps, Moves
<1> QED BY <1>10, <1>11, <1>12 DEF Within

LEMMA PullupWithin ==
  ASSUME TypeOK, Clocked, Exchange, InTime, ~dma.clk, PullupStep,
         NEW m \in Moments, ActivePullupOn(m), UNCHANGED <<value, count>>
  PROVE  Within
<1> DEFINE t == [tim EXCEPT !.cnt = m, !.bif = TRUE, !.moe = FALSE]
<1>1. Settle(t, dma, hold, wire)
  BY DEF ActivePullupOn
<1>2. /\ t \in Tim /\ t.cnt = m /\ t.cc1if = tim.cc1if
      /\ t.cen = tim.cen /\ t.aoe = tim.aoe /\ ~t.moe
      /\ t.uie = tim.uie /\ t.uif = tim.uif /\ t.bif
      /\ t.cc1ie = tim.cc1ie /\ t.cc2ie = tim.cc2ie
      /\ t.cc2if = tim.cc2if /\ t.cc2p = tim.cc2p
      /\ t.arr = tim.arr /\ t.pwm = tim.pwm /\ t.ccr1 = tim.ccr1
      /\ t.ccr2 = tim.ccr2
  BY MomentType, SlotFacts DEF Tim, TypeOK, DrvTypeOK
<1> HIDE DEF t
<1>3. ~Driving(t)
  BY <1>2 DEF Driving
<1>4. t.cen /\ t.cc2p = Rising
  BY <1>2, SlotFacts
<1>5. /\ UNCHANGED <<status, presence, overdrive, call, request>>
      /\ ActivePullup /\ pullup' /\ ~NoConflict'
  BY DEF PullupStep, ActivePullupOn, NoConflict
<1>6. Moves(t, hold, wire)
  BY <1>1, <1>2, <1>4, LineEffect, SlotFacts
<1>7. Low' => Low
  BY <1>3, <1>6 DEF Moves, Low
<1>8. /\ m \in Int /\ tim.cnt <= m /\ m + MaxLag[Top] <= Top
      /\ tim.cnt < tim.pwm => m < tim.pwm
      /\ tim.cnt \in Int /\ tim.pwm \in Int
  BY MomentInTime, SlotFacts
<1>9. Counts
  BY <1>2, <1>6, <1>8 DEF Counts, Moves
<1>10. Hears
  BY <1>2, <1>3, <1>6, <1>7 DEF Hears, Moves
<1>11. Keeps
  BY <1>2, <1>5, <1>6, <1>9 DEF Keeps, Moves
<1> QED BY <1>9, <1>10, <1>11 DEF Within

\* A new slot begins.
NewSlot ==
  /\ ~tim.uif /\ ~tim.cc2if /\ tim.cnt >= tim.pwm
  /\ count > 0 => ~tim.cc1if
  /\ Low <=> hold
  /\ tim'.cnt = 0 /\ tim'.uif /\ tim'.pwm = tim.ccr1
  /\ tim'.moe <=> tim.moe \/ ~pullup
  /\ tim'.cen = tim.cen /\ tim'.aoe = tim.aoe /\ tim'.uie = tim.uie
  /\ tim'.cc1ie = tim.cc1ie /\ tim'.cc2ie = tim.cc2ie
  /\ tim'.cc1if = tim.cc1if /\ ~tim'.cc2if
  /\ tim'.cc2p = tim.cc2p /\ tim'.arr = tim.arr
  /\ tim'.ccr1 = tim.ccr1 /\ tim'.bif = tim.bif
  /\ Low' <=> tim'.moe \/ hold
  /\ wire'.pulses = IF tim'.moe THEN Append(wire.pulses, tim.ccr1)
                    ELSE wire.pulses
  /\ wire'.rises = wire.rises
  /\ wire'.stuck = (wire.stuck \/ hold)
  /\ UNCHANGED <<dma, value, count, pullup, conflict>>
  /\ UNCHANGED <<status, presence, overdrive, call, request>>

LEMMA OverflowNewSlot ==
  ASSUME TypeOK, Clocked, Exchange, InTime, ~dma.clk, HardwareStep, Overflow,
         UNCHANGED <<value, count>>
  PROVE  NewSlot
<1> DEFINE t == UpdateEvent(tim, pullup)
           w == [wire EXCEPT !.stuck = wire.stuck \/ hold]
<1>1. /\ Settle(t, dma, hold, w) /\ Elapse(Top + 1 - tim.cnt)
      /\ tim.cnt >= tim.pwm
      /\ UNCHANGED <<pullup, call>>
  BY SlotFacts DEF Overflow
<1>2. ~IrqPending
  BY <1>1, SlotFacts DEF Elapse
<1>3. ~tim.uif /\ ~tim.cc2if /\ (count > 0 => ~tim.cc1if)
  BY <1>2, SlotFacts DEF Clocked, IrqPending, OverflowPending, CapComPending
<1>4. /\ t.cnt = 0 /\ t.uif /\ t.pwm = tim.ccr1
      /\ t.moe <=> tim.moe \/ ~pullup
      /\ t.cen = tim.cen /\ t.aoe = tim.aoe
      /\ t.uie = tim.uie /\ t.bif = tim.bif
      /\ t.cc1ie = tim.cc1ie /\ t.cc2ie = tim.cc2ie
      /\ t.cc1if = tim.cc1if /\ t.cc2if = tim.cc2if /\ t.cc2p = tim.cc2p
      /\ t.arr = tim.arr /\ t.ccr1 = tim.ccr1
  BY SlotFacts DEF UpdateEvent, Tim
<1>5. t \in Tim
  <2>1. 0 \in Word /\ 0 \in Flag
    BY WordIsInt DEF Flag
  <2> QED BY SlotFacts, <2>1, TimValueOps
<1>6. /\ w \in Trace /\ w.pulses = wire.pulses /\ w.rises = wire.rises
      /\ w.stuck = (wire.stuck \/ hold)
  BY SlotFacts DEF Trace
<1> HIDE DEF t, w
<1>7. ~Driving(tim) /\ (Driving(t) <=> t.moe)
  BY <1>1, <1>4, SlotFacts DEF Driving
<1>8. (Low <=> hold) /\ ~(Low /\ ~(Driving(t) \/ hold))
  BY <1>7 DEF Low
<1>9. UNCHANGED <<status, presence, overdrive, request, conflict>>
  BY DEF HardwareStep, drvVars
<1>10. t.cen /\ t.cc2p = Rising /\ hold \in BOOLEAN
  BY <1>4, SlotFacts
<1>11. Moves(t, hold, w)
  BY <1>1, <1>5, <1>6, <1>10, LineEffect
<1>12. ~Rise
  BY <1>8, <1>11 DEF Moves, Rise
<1> QED BY <1>1, <1>3, <1>4, <1>6, <1>7, <1>8, <1>9, <1>11, <1>12
        DEF NewSlot, Moves

\* Within a slot the invariant holds on.
LEMMA WithinSafe ==
  ASSUME TypeOK, SlotInv, Exchange, InTime, Within
  PROVE  SlotInv'
<1>1. /\ Exchange' /\ Top' = Top /\ Levels' = Levels /\ Slots' = Slots
      /\ Begun' = Begun /\ (wire'.stuck <=> wire.stuck)
      /\ \A b : Level(b)' = Level(b)
      /\ NoConflict' => NoConflict /\ tim'.moe = tim.moe
  BY DEF Within, Counts, Hears, Keeps, Exchange, Top, Levels, Level, Slots,
     Begun, NoConflict
<1>2. /\ Guarded /\ Clocked /\ Watched /\ Sending /\ Receiving
  BY DEF SlotInv
<1>3. Guarded'
  BY <1>1, <1>2 DEF Guarded, Within, Counts, Hears, Keeps, NoConflict
<1>4. Clocked'
  <2>1. NoConflict' => tim'.moe
    BY <1>1, <1>2 DEF Clocked
  <2> QED BY <1>1, <1>2, <2>1 DEF Clocked, Within, Counts, Hears, Keeps
<1>5. Watched'
  <2>1. ASSUME Low \/ tim.cc2if PROVE Low' \/ tim'.cc2if
    BY <2>1 DEF Within, Counts, Hears, Keeps, Rise
  <2>2. tim.bif => tim'.bif
    BY DEF Within, Counts, Hears, Keeps
  <2>3. /\ UNCHANGED <<count, request, call>> /\ tim'.uif = tim.uif
        /\ wire'.pulses = wire.pulses
    BY DEF Within, Counts, Hears, Keeps
  <2> QED BY <1>1, <1>2, <2>1, <2>2, <2>3 DEF Watched, NoExtraPulse
<1>6. Due' <=> Due
  <2>1. tim'.pwm = tim.pwm
    BY DEF Within, Counts, Hears, Keeps
  <2> QED BY <2>1, SlotFacts, <1>2 DEF Due, Within, Counts, Hears, Keeps
<1>7. NoConflict' /\ Rise => tim'.cnt >= tim.pwm
  BY <1>1 DEF Within, Counts, Hears, Keeps
<1>8. Sending'
  <2>1. ASSUME NoConflict'
        PROVE  /\ Slots <= request.n /\ tim'.cc1if => tim'.cnt >= tim.pwm
               /\ tim'.cc2if => tim'.cnt >= tim.pwm
    BY <1>1, <1>2, <1>7, <2>1, SlotFacts
       DEF Sending, Within, Counts, Hears, Keeps
  <2>2. \A k : Left(value, k)' <=> Left(value, k)
    BY DEF Left, Within, Counts, Hears, Keeps
  <2>3. /\ UNCHANGED <<count, request, call, value, overdrive, status>>
        /\ wire'.pulses = wire.pulses
        /\ tim'.pwm = tim.pwm /\ tim'.ccr1 = tim.ccr1
    BY DEF Within, Counts, Hears, Keeps
  <2>4. SentInOrder'
    BY <1>1, <1>2, <2>3 DEF Sending, SentInOrder
  <2> QED BY <1>1, <1>2, <1>6, <2>1, <2>2, <2>3, <2>4 DEF Sending
<1>9. Receiving'
  <2>1. SUFFICES ASSUME NoConflict', ~wire'.stuck
                 PROVE
       /\ Edges' = IF Low' THEN Slots - 1 ELSE Slots
       /\ tim'.cc2if => ~Low' /\ tim'.ccr2 = wire'.rises[Edges']
       /\ ~Low' /\ ~tim'.cc2if => ~Due
       /\ \A j \in 1 .. Edges' :
            wire'.rises[j] \in Ticks .. Ticks * TSLOT_MAX(overdrive)
       /\ Got(value, Shifted, Heard)'
    <3>1. overdrive' = overdrive
      BY DEF Within, Counts, Hears, Keeps
    <3>2. RxDataOk' /\ NoSpuriousError'
      BY <1>1, OpStatus DEF RxDataOk, NoSpuriousError, IoComplete, Exchange
    <3>3. (Low' <=> ~~Low') /\ (Due' <=> Due) /\ Slots' = Slots
      BY <1>1, <1>6
    <3> QED BY <2>1, <3>1, <3>2, <3>3 DEF Receiving
  <2>2. /\ Edges = IF Low THEN Slots - 1 ELSE Slots
        /\ tim.cc2if => ~Low /\ tim.ccr2 = wire.rises[Edges]
        /\ ~Low /\ ~tim.cc2if => ~Due
        /\ \A j \in 1 .. Edges :
             wire.rises[j] \in Ticks .. Ticks * TSLOT_MAX(overdrive)
        /\ Got(value, Shifted, Heard) /\ NoConflict
    BY <1>1, <1>2, <2>1 DEF Receiving
  <2>3. Shifted' = Shifted /\ UNCHANGED <<value, overdrive>>
    BY <1>1, <1>6 DEF Shifted, Within, Counts, Hears, Keeps
  <2>4. CASE ~Rise
    <3>1. /\ wire'.rises = wire.rises /\ tim'.ccr2 = tim.ccr2
          /\ (tim'.cc2if <=> tim.cc2if) /\ (Low' <=> Low)
      BY <2>4 DEF Within, Counts, Hears, Keeps, Rise
    <3>2. Edges' = Edges /\ Heard' = Heard
      BY <3>1 DEF Edges, Heard
    <3> QED BY <2>2, <2>3, <3>1, <3>2 DEF Got
  <2>5. CASE Rise
    <3>1. /\ wire'.rises = Append(wire.rises, tim'.cnt)
          /\ tim'.ccr2 = tim'.cnt /\ tim'.cc2if /\ Low /\ ~Low'
          /\ tim.pwm <= tim'.cnt /\ tim'.cnt <= Ticks * TSLOT_MAX(overdrive)
          /\ tim'.cnt \in Int
      BY <1>1, <2>1, <2>5 DEF Within, Counts, Hears, Keeps, Rise
    <3>2. wire.rises \in Seq(Word) /\ Edges \in Nat /\ Slots \in Nat
      BY <1>2, SlotFacts
    <3>3. /\ Edges' = Edges + 1 /\ wire'.rises[Edges + 1] = tim'.cnt
          /\ \A j \in 1 .. Edges : wire'.rises[j] = wire.rises[j]
      BY <3>1, <3>2 DEF Edges
    <3>4. Heard' = Heard /\ Heard = Edges
      BY <2>2, <3>1, <3>2, <3>3 DEF Heard
    <3>5. Got(value, Shifted, Heard)'
      BY <2>2, <2>3, <3>3, <3>4 DEF Got
    <3>6. tim'.cnt \in Ticks .. Ticks * TSLOT_MAX(overdrive)
      BY <1>2, <3>1, SlotFacts, TicksAssumption
    <3>7. \A j \in 1 .. Edges' :
            wire'.rises[j] \in Ticks .. Ticks * TSLOT_MAX(overdrive)
      BY <2>2, <3>2, <3>3, <3>6
    <3>8. Edges' = Slots
      BY <2>2, <3>1, <3>2, <3>3
    <3>9. tim'.ccr2 = wire'.rises[Edges']
      BY <3>1, <3>3
    <3> QED BY <3>1, <3>5, <3>7, <3>8, <3>9
  <2> QED BY <2>4, <2>5
<1> QED BY <1>3, <1>4, <1>5, <1>8, <1>9 DEF SlotInv

\* So it does when a slot begins.
LEMMA NewSlotSafe ==
  ASSUME TypeOK, SlotInv, Exchange, InTime, NewSlot
  PROVE  SlotInv'
<1>1. /\ Exchange' /\ Top' = Top /\ Levels' = Levels
      /\ \A b : Level(b)' = Level(b)
      /\ NoConflict' <=> NoConflict
  BY DEF NewSlot, Exchange, Top, Levels, Level, NoConflict
<1>2. /\ Guarded /\ Clocked /\ Watched /\ Sending /\ Receiving
  BY DEF SlotInv
<1>3. /\ Slots \in Nat /\ Edges \in Nat /\ count \in 0 .. 8
      /\ wire.pulses \in Seq(Word) /\ wire.rises \in Seq(Word)
      /\ request.n \in 1 .. 8 /\ tim.cnt \in Int /\ tim.pwm \in Int
      /\ tim'.cnt = 0 /\ tim'.pwm \in Int /\ 0 < tim'.pwm
  BY <1>2, SlotFacts DEF NewSlot
<1>4. Guarded'
  BY <1>1, <1>2 DEF Guarded, NewSlot
<1>5. Clocked'
  BY <1>1, <1>2, LevelInTime, SlotFacts DEF Clocked, NewSlot
<1>6. /\ Slots' = IF tim'.moe THEN Slots + 1 ELSE Slots
      /\ Begun' = 1 /\ Begun = 0
  BY <1>3 DEF NewSlot, Slots, Begun
<1>7. /\ ~tim.uif /\ ~tim.cc2if /\ tim.cnt >= tim.pwm /\ (Low <=> hold)
      /\ count > 0 => ~tim.cc1if
      /\ UNCHANGED <<count, value, request, overdrive, status, call>>
  BY DEF NewSlot
<1>8. Watched'
  <2>1. ASSUME ~wire'.stuck
        PROVE  /\ Slots' + count <= request.n + 1
               /\ tim'.bif \/ Low' \/ tim'.cc2if
               /\ count # 0 /\ Slots' <= request.n
    <3>1. ~wire.stuck /\ ~hold
      BY <2>1 DEF NewSlot
    <3>2. Slots + count <= request.n /\ count # 0
      BY <1>3, <1>2, <1>6, <1>7, <3>1 DEF Watched
    <3>3. tim'.moe \/ tim'.bif
      BY <1>2 DEF Guarded, NewSlot
    <3>4. tim'.moe => Low'
      BY DEF NewSlot
    <3> QED BY <1>3, <1>6, <3>2, <3>3, <3>4
  <2> QED BY <1>1, <1>6, <1>7, <2>1 DEF Watched, NoExtraPulse, Slots
<1>9. ASSUME NoConflict, Slots < request.n
      PROVE  /\ tim.ccr1 = Level(request.bits[Slots])
             /\ Left(value, Slots + 1) /\ count > 0
  <2>1. count > 0
    BY <1>3, <1>2, <1>6, <1>9 DEF Sending
  <2> QED BY <1>3, <1>2, <1>7, <1>9, <2>1 DEF Sending, Due
<1>10. ASSUME NoConflict
      PROVE  /\ Slots' = Slots + 1 /\ tim'.moe
             /\ wire'.pulses = Append(wire.pulses, tim.ccr1)
  BY <1>2, <1>6, <1>10 DEF Clocked, NewSlot
<1>11. (tim'.cc1if <=> tim.cc1if) /\ ~tim'.cc2if
  BY DEF NewSlot
<1>12. Sending'
  <2>1. SUFFICES ASSUME NoConflict PROVE Sending'
    BY <1>1, OpStatus DEF Sending, SentInOrder
  <2>2. /\ Slots >= 1 /\ Slots + count = request.n
        /\ \A k \in 1 .. Slots :
             k <= request.n => wire.pulses[k] = Level(request.bits[k - 1])
    BY <1>3, <1>2, <1>6, <2>1 DEF Sending, SentInOrder, Exchange, Slots, Level
  <2>3. Due' /\ ~tim'.cc2if
    BY <1>3, <1>7, <1>11 DEF Due
  <2>4. Slots' <= request.n => ~tim'.cc1if
    BY <1>3, <1>7, <1>9, <1>10, <1>11, <2>1
  <2>5. Slots' < request.n => Left(value, Slots)'
    BY SMTT(20), <1>3, <1>7, <1>9, <1>10, <2>1 DEF Left
  <2>6. ASSUME NEW k \in 1 .. Slots + 1, k <= request.n
        PROVE  wire'.pulses[k] = Level(request.bits[k - 1])
    <3>2. CASE k <= Slots
      <4>1. k \in 1 .. Len(wire.pulses)
        BY <1>3, <3>2 DEF Slots
      <4>2. Append(wire.pulses, tim.ccr1)[k] = wire.pulses[k]
        BY <1>3, <4>1
      <4> QED BY <1>10, <2>1, <2>2, <2>6, <4>1, <4>2 DEF Slots
    <3>3. CASE k = Slots + 1
      <4>1. Append(wire.pulses, tim.ccr1)[Slots + 1] = tim.ccr1
        BY <1>3 DEF Slots
      <4>2. k - 1 = Slots /\ Slots < request.n
        BY <1>3, <2>6, <3>3
      <4> QED BY <1>9, <1>10, <2>1, <3>3, <4>1, <4>2
    <3> QED BY <1>3, <3>2, <3>3
  <2>7. SentInOrder'
    BY <1>1, <1>7, <1>10, <2>1, <2>6, OpStatus
       DEF SentInOrder, Slots, Level, Exchange
  <2>8. Slots' + count = request.n + 1 /\ Slots' >= 1
    BY <1>3, <1>10, <2>1, <2>2
  <2>9. Slots' <= request.n /\ tim'.cc1if => tim'.cnt >= tim'.pwm
    BY <2>4
  <2> QED BY <1>1, <1>6, <1>7, <2>3, <2>5, <2>7, <2>8, <2>9 DEF Sending
<1>13. Receiving'
  <2>1. SUFFICES ASSUME NoConflict, ~wire'.stuck
                 PROVE
       /\ Edges' = IF Low' THEN Slots' - 1 ELSE Slots'
       /\ ~tim'.cc2if /\ Low'
       /\ \A j \in 1 .. Edges' :
            wire'.rises[j] \in Ticks .. Ticks * TSLOT_MAX(overdrive)
       /\ Got(value, Shifted, Heard)'
    BY <1>1, <1>7, OpStatus DEF Receiving, RxDataOk, NoSpuriousError,
       IoComplete, Exchange
  <2>2. ~wire.stuck /\ ~Low
    BY <1>7, <2>1 DEF NewSlot
  <2>3. /\ Edges = Slots /\ ~Due /\ Got(value, Shifted, Heard)
        /\ \A j \in 1 .. Edges :
             wire.rises[j] \in Ticks .. Ticks * TSLOT_MAX(overdrive)
    BY <1>2, <1>7, <2>1, <2>2 DEF Receiving
  <2>4. Low' /\ ~tim'.cc2if /\ wire'.rises = wire.rises
    BY <1>10, <2>1 DEF NewSlot
  <2>5. Due'
    BY <1>3 DEF Due
  <2>6. Shifted' = Shifted /\ Heard' = Heard /\ Edges' = Edges
    BY <1>3, <1>7, <1>10, <2>1, <2>3, <2>4, <2>5 DEF Shifted, Heard, Edges
  <2>7. Got(value, Shifted, Heard)'
    BY <1>7, <2>3, <2>4, <2>6 DEF Got
  <2> QED BY <1>3, <1>10, <2>1, <2>3, <2>4, <2>6, <2>7
<1> QED BY <1>4, <1>5, <1>8, <1>12, <1>13 DEF SlotInv

\* The overflow handler counts the slot.
SlotCounted ==
  /\ tim.uif /\ count > 0 /\ ~PullupConflict
  /\ count' = count - 1
  /\ ~tim'.uif /\ tim'.cc2ie /\ (tim'.cc1ie <=> count' > 0)
  /\ tim'.cen = tim.cen /\ tim'.aoe = tim.aoe /\ tim'.moe = tim.moe
  /\ tim'.uie = tim.uie /\ tim'.bif = tim.bif
  /\ tim'.cc1if = tim.cc1if /\ tim'.cc2if = tim.cc2if
  /\ tim'.cc2p = tim.cc2p /\ tim'.arr = tim.arr /\ tim'.cnt = tim.cnt
  /\ tim'.pwm = tim.pwm /\ tim'.ccr1 = tim.ccr1 /\ tim'.ccr2 = tim.ccr2
  /\ UNCHANGED <<value, status, presence, overdrive, call, request>>
  /\ UNCHANGED <<dma, wire, hold, pullup, conflict>>

\* Or the operation is over, which an error ends only for a reason.
OverflowError ==
  /\ status' = Op!ERROR
  /\ tim.uif /\ (PullupConflict \/ count = 0)
  /\ UNCHANGED <<dma, value, call, wire, hold>>
  /\ UNCHANGED <<overdrive, request, pullup, conflict>>
  /\ tim'.bif => tim.bif \/ pullup

\* The end of an operation leaves the flag of the pull-up.
LEMMA CompleteKeeps ==
  ASSUME NEW t \in Tim
  PROVE  CompleteTim(t).bif = t.bif
BY DEF CompleteTim, Tim, TimerStop, Halt, DisableCaptureIrq, DisablePwmIrq,
   DisableOverflowIrq

LEMMA OverflowServed ==
  ASSUME TypeOK, Clocked, Exchange, ~WithDma, Dispatch,
         \/ IsrPullupConflict /\ UNCHANGED <<value, count>>
         \/ IsrOverflow
  PROVE  SlotCounted \/ OverflowError
<1>1. /\ UNCHANGED <<pullup, hold, call, wire>>
      /\ UNCHANGED <<overdrive, request, conflict>>
  BY DEF Dispatch
<1>2. tim.uif /\ tim \in Tim /\ count \in Int /\ 0 <= count
  BY SlotFacts DEF IsrPullupConflict, IsrOverflow, OverflowPending
<1>3. CASE IsrPullupConflict /\ UNCHANGED <<value, count>>
  <2>1. /\ tim' = CompleteTim(ClearPullupConflict(tim, pullup))
        /\ dma' = dma /\ status' = Op!ERROR /\ PullupConflict
    BY <1>3 DEF IsrPullupConflict, OperationComplete, CompleteDma
  <2> DEFINE t == ClearPullupConflict(tim, pullup)
  <2>2. t \in Tim /\ t.bif = pullup
    BY <1>2, SlotFacts DEF ClearPullupConflict, Tim
  <2>3. tim'.bif = pullup
    BY <2>1, <2>2, CompleteKeeps
  <2> QED BY <1>1, <1>2, <1>3, <2>1, <2>3 DEF OverflowError
<1>4. CASE IsrOverflow
  <2> DEFINE t == ClearOverflow(tim)
  <2>1. BitsOverflow(t) /\ UNCHANGED value /\ ~PullupConflict
    BY <1>4, SlotFacts DEF IsrOverflow, ResetOverflow
  <2>2. /\ t \in Tim /\ t.bif = tim.bif
        /\ ~t.uif /\ t.cen = tim.cen /\ t.aoe = tim.aoe /\ t.moe = tim.moe
        /\ t.uie = tim.uie /\ t.cc1if = tim.cc1if /\ t.cc2if = tim.cc2if
        /\ t.cc2p = tim.cc2p /\ t.arr = tim.arr /\ t.cnt = tim.cnt
        /\ t.pwm = tim.pwm /\ t.ccr1 = tim.ccr1 /\ t.ccr2 = tim.ccr2
    BY <1>2 DEF ClearOverflow, Tim
  <2> HIDE DEF t
  <2>3. CASE count > 0
    <3>1. /\ count' = count - 1
          /\ tim' = EnableCaptureIrq(IF count' > 0 THEN EnablePwmIrq(t)
                                     ELSE DisablePwmIrq(t))
          /\ UNCHANGED <<dma, status, presence>>
      BY <1>2, <2>1, <2>3 DEF BitsOverflow
    <3>2. /\ ~tim'.uif /\ tim'.cc2ie /\ (tim'.cc1ie <=> count' > 0)
          /\ tim'.cen = t.cen /\ tim'.aoe = t.aoe /\ tim'.moe = t.moe
          /\ tim'.uie = t.uie /\ tim'.bif = t.bif
          /\ tim'.cc1if = t.cc1if /\ tim'.cc2if = t.cc2if
          /\ tim'.cc2p = t.cc2p /\ tim'.arr = t.arr /\ tim'.cnt = t.cnt
          /\ tim'.pwm = t.pwm /\ tim'.ccr1 = t.ccr1 /\ tim'.ccr2 = t.ccr2
      <4>1. CASE count' > 0
        BY <2>2, <3>1, <4>1 DEF EnableCaptureIrq, EnablePwmIrq, Tim
      <4>2. CASE ~(count' > 0)
        BY <2>2, <3>1, <4>2 DEF EnableCaptureIrq, DisablePwmIrq, Tim
      <4> QED BY <4>1, <4>2
    <3> QED BY <1>1, <1>2, <2>1, <2>2, <2>3, <3>1, <3>2 DEF SlotCounted
  <2>4. CASE count = 0
    <3>1. OperationComplete(t, dma, Op!ERROR)
      BY <2>1, <2>4 DEF BitsOverflow
    <3>2. tim' = CompleteTim(t) /\ dma' = dma /\ status' = Op!ERROR
      BY <3>1 DEF OperationComplete, CompleteDma
    <3>3. tim'.bif = t.bif
      BY <2>2, <3>2, CompleteKeeps
    <3> QED BY <1>1, <1>2, <2>1, <2>2, <2>4, <3>2, <3>3 DEF OverflowError
  <2> QED BY <1>2, <2>3, <2>4
<1> QED BY <1>3, <1>4

\* A counted slot disturbs nothing.
LEMMA SlotCountedSafe ==
  ASSUME TypeOK, SlotInv, Exchange, SlotCounted
  PROVE  SlotInv'
<1>1. /\ Exchange' /\ Top' = Top /\ Levels' = Levels
      /\ \A b : Level(b)' = Level(b)
      /\ NoConflict' <=> NoConflict
      /\ Low' <=> Low
      /\ Slots' = Slots /\ Edges' = Edges /\ Heard' = Heard
      /\ Shifted' = Shifted /\ (Due' <=> Due) /\ Begun = 1 /\ Begun' = 0
      /\ wire' = wire
      /\ UNCHANGED <<value, status, presence, overdrive, call, request>>
  BY DEF SlotCounted, Exchange, Top, Levels, Level, NoConflict, Low, Driving,
     Slots, Edges, Heard, Shifted, Due, Begun
<1>2. /\ Guarded /\ Clocked /\ Watched /\ Sending /\ Receiving
  BY DEF SlotInv
<1>3. Guarded'
  BY <1>1, <1>2 DEF Guarded, SlotCounted
<1>4. Clocked'
  BY <1>1, <1>2 DEF Clocked, SlotCounted
<1>5. Watched'
  <2>1. count' = count - 1 /\ tim.uif /\ ~tim'.uif /\ ~tim.bif
        /\ (tim'.cc2if <=> tim.cc2if) /\ count \in 0 .. 8 /\ count > 0
    BY <1>2, SlotFacts DEF SlotCounted, PullupConflict, Guarded
  <2>2. Slots \in Nat /\ request.n \in Int
    BY <1>2, SlotFacts
  <2>3. NoExtraPulse'
    BY <1>1, <1>2 DEF Watched, NoExtraPulse
  <2>4. ASSUME ~wire.stuck
        PROVE  /\ Slots + (count - 1) <= request.n
               /\ Low \/ tim.cc2if
    BY <1>1, <1>2, <2>1, <2>2, <2>4 DEF Watched
  <2>5. /\ Slots' = Slots /\ wire'.stuck = wire.stuck /\ Begun' = 0
        /\ request' = request /\ (Low' <=> Low)
    BY <1>1
  <2>6. ASSUME ~wire'.stuck
        PROVE  /\ Slots' + count' <= request'.n + Begun'
               /\ Low' \/ tim'.cc2if
    BY <2>1, <2>2, <2>4, <2>5, <2>6
  <2> QED BY <2>1, <2>3, <2>6 DEF Watched
<1>6. Sending'
  <2>1. /\ count' = count - 1 /\ tim'.ccr1 = tim.ccr1
        /\ (tim'.cc1if <=> tim.cc1if) /\ (tim'.cc2if <=> tim.cc2if)
        /\ tim'.cnt = tim.cnt /\ tim'.pwm = tim.pwm
    BY DEF SlotCounted
  <2>2. SentInOrder'
    BY <1>1, <1>2 DEF Sending, SentInOrder
  <2>3. \A k : Left(value, k)' <=> Left(value, k)
    BY <1>1 DEF Left
  <2>4. ASSUME NoConflict'
        PROVE  /\ Slots >= 1 /\ Slots + count = request.n + 1
               /\ Slots <= request.n /\ tim.cc1if => tim.cnt >= tim.pwm
               /\ tim.cc2if => tim.cnt >= tim.pwm
               /\ Slots < request.n =>
                    IF Due THEN Left(value, Slots)
                    ELSE /\ tim.ccr1 = Level(request.bits[Slots])
                         /\ Left(value, Slots + 1)
    BY <1>1, <1>2, <2>4 DEF Sending
  <2>5. NoConflict' => Slots + count' = request.n + 0
    <3>1. Slots \in Int /\ count \in Int /\ request.n \in Int
      BY SMTT(20), <1>2, SlotFacts
    <3> QED BY <2>1, <2>4, <3>1
  <2> QED BY <1>1, <2>1, <2>2, <2>3, <2>4, <2>5 DEF Sending
<1>7. Receiving'
  <2>1. (tim'.cc2if <=> tim.cc2if) /\ tim'.ccr2 = tim.ccr2
    BY DEF SlotCounted
  <2>2. Got(value, Shifted, Heard)' <=> Got(value, Shifted, Heard)
    BY <1>1 DEF Got
  <2> QED BY <1>1, <1>2, <2>1, <2>2, OpStatus DEF Receiving, RxDataOk,
             NoSpuriousError, IoComplete, Exchange
<1> QED BY <1>3, <1>4, <1>5, <1>6, <1>7 DEF SlotInv

\* The capture handler serves the end of a pulse, an edge, or both.
Shift == IF tim.cc1if THEN ShiftOut(value) ELSE value
Bit == DecodeBit(overdrive, tim.ccr2)
Filled == IF tim.cc2if /\ Bit = 1 THEN [Shift EXCEPT ![7] = 1] ELSE Shift

BitServed ==
  /\ tim.cc2if => count # 0 /\ Bit # ErrorBit
  /\ value' = Filled
  /\ ~tim'.cc1if /\ ~tim'.cc2if
  /\ tim'.ccr1 = IF tim.cc1if THEN Level(value[0]) ELSE tim.ccr1
  /\ tim'.cen = tim.cen /\ tim'.aoe = tim.aoe /\ tim'.moe = tim.moe
  /\ tim'.uie = tim.uie /\ tim'.uif = tim.uif /\ tim'.bif = tim.bif
  /\ tim'.cc1ie = tim.cc1ie /\ tim'.cc2ie = tim.cc2ie
  /\ tim'.cc2p = tim.cc2p /\ tim'.arr = tim.arr /\ tim'.cnt = tim.cnt
  /\ tim'.pwm = tim.pwm
  /\ UNCHANGED status

LastServed ==
  /\ tim'.bif = tim.bif
  /\ tim.cc2if
  /\ \/ status' = Op!ERROR /\ Bit = ErrorBit
     \/ /\ status' = Op!COMPLETE /\ count = 0 /\ Bit # ErrorBit
        /\ value' = Filled

LEMMA CaptureServed ==
  ASSUME TypeOK, Clocked, Exchange, ~WithDma, Dispatch, ~OverflowPending,
         IsrPwmCapture
  PROVE  /\ ~tim.uif /\ (tim.cc1if \/ tim.cc2if)
         /\ BitServed \/ LastServed
         /\ UNCHANGED <<dma, count, presence, overdrive, call, request>>
         /\ UNCHANGED <<wire, hold, pullup, conflict>>
<1> DEFINE t == AfterPwm(tim)
           v == ValueAfterPwm(tim)
           c == ClearCapture(t)
<1>1. /\ ~tim.uif /\ (tim.cc1if \/ tim.cc2if) /\ presence = 1
  BY SlotFacts DEF OverflowPending, CapComPending, IsrPwmCapture
<1>2. UNCHANGED <<count, overdrive, call, request, wire, hold, pullup, conflict>>
  BY DEF Dispatch, IsrPwmCapture
<1>3. v = Shift
  BY <1>1 DEF ValueAfterPwm, Shift
<1>4. /\ t \in Tim /\ ~t.cc1if /\ t.cc2if = tim.cc2if /\ t.ccr2 = tim.ccr2
      /\ t.ccr1 = IF tim.cc1if THEN Level(value[0]) ELSE tim.ccr1
      /\ t.cen = tim.cen /\ t.aoe = tim.aoe /\ t.moe = tim.moe
      /\ t.uie = tim.uie /\ t.uif = tim.uif /\ t.bif = tim.bif
      /\ t.cc1ie = tim.cc1ie /\ t.cc2ie = tim.cc2ie
      /\ t.cc2p = tim.cc2p /\ t.arr = tim.arr /\ t.cnt = tim.cnt
      /\ t.pwm = tim.pwm
  <2>1. CASE tim.cc1if
    <3>1. t = BitLevel(ClearPwm(tim), value)
      BY <1>1, <2>1 DEF AfterPwm
    <3>2. t \in Tim
      BY <3>1, SlotFacts, TimFlagOps, BitLevelType DEF TypeOK
    <3> QED BY <2>1, <3>1, <3>2, SlotFacts DEF BitLevel, ClearPwm, SetPwmLevel,
            Level, Tim
  <2>2. CASE ~tim.cc1if
    BY <2>2, SlotFacts DEF AfterPwm, Tim
  <2> QED BY <2>1, <2>2
<1> HIDE DEF t, v
<1>5. CASE ~t.cc2if
  <2>1. tim' = t /\ value' = v /\ UNCHANGED <<dma, status, presence>>
    BY <1>5 DEF IsrPwmCapture, t, v
  <2>2. BitServed
    BY <1>3, <1>4, <1>5, <2>1 DEF BitServed, Filled
  <2> QED BY <1>1, <1>2, <2>1, <2>2
<1>6. CASE t.cc2if
  <2>1. BitCaptured(t, v) /\ UNCHANGED presence
    BY <1>1, <1>6 DEF IsrPwmCapture, t, v
  <2>2. /\ c.bif = t.bif
        /\ ~c.cc1if /\ ~c.cc2if /\ c.ccr1 = t.ccr1
        /\ c.cen = t.cen /\ c.aoe = t.aoe /\ c.moe = t.moe
        /\ c.uie = t.uie /\ c.uif = t.uif
        /\ c.cc1ie = t.cc1ie /\ c.cc2ie = t.cc2ie
        /\ c.cc2p = t.cc2p /\ c.arr = t.arr /\ c.cnt = t.cnt
        /\ c.pwm = t.pwm /\ c \in Tim
    BY <1>4 DEF ClearCapture, Tim
  <2>3. CompleteTim(c).bif = c.bif
    BY <2>2, CompleteKeeps
  <2> HIDE DEF c
  <2>4. Bit = DecodeBit(overdrive, t.ccr2)
    BY <1>4 DEF Bit
  <2>5. Bit # ErrorBit => value' = Filled
    BY <1>3, <1>4, <1>6, <2>1, <2>4 DEF BitCaptured, Filled
  <2>6. CASE /\ tim' = c /\ UNCHANGED <<dma, status, al>>
             /\ ~LastBit /\ Bit # ErrorBit
    <3>1. count # 0
      BY <2>6 DEF LastBit, Exchange
    <3> QED BY <1>1, <1>2, <1>4, <1>6, <2>1, <2>2, <2>5, <2>6, <3>1
            DEF BitServed
  <2>7. CASE OperationComplete(c, dma, Op!COMPLETE) /\ LastBit /\ Bit # ErrorBit
    <3>1. tim' = CompleteTim(c) /\ dma' = dma /\ status' = Op!COMPLETE
          /\ count = 0
      BY <2>7 DEF OperationComplete, CompleteDma, LastBit
    <3> QED BY <1>1, <1>2, <1>4, <1>6, <2>1, <2>2, <2>3, <2>5, <2>7, <3>1
            DEF LastServed
  <2>8. CASE OperationComplete(c, dma, Op!ERROR) /\ Bit = ErrorBit
    <3>1. tim' = CompleteTim(c) /\ dma' = dma /\ status' = Op!ERROR
      BY <2>8 DEF OperationComplete, CompleteDma
    <3> QED BY <1>1, <1>2, <1>4, <1>6, <2>1, <2>2, <2>3, <2>8, <3>1
            DEF LastServed
  <2> QED BY <2>1, <2>4, <2>6, <2>7, <2>8 DEF BitCaptured, c
<1> QED BY <1>5, <1>6

\* The value is shifted and filled.
LEMMA GotShift ==
  ASSUME NEW v \in Byte, NEW s \in 0 .. 7, NEW h \in Int, h <= s, Got(v, s, h)
  PROVE  Got(ShiftOut(v), s + 1, h)
<1>1. 7 \in Index /\ ShiftOut(v)[7] = 0
  BY DEF ShiftOut, Index
<1>2. ASSUME NEW j \in 1 .. h
      PROVE  ShiftOut(v)[7 - (s + 1) + j] = v[7 - s + j]
  <2>1. 7 - (s + 1) + j \in Index /\ 7 - (s + 1) + j < 7
    BY DEF Index
  <2>2. (7 - (s + 1) + j) + 1 = 7 - s + j
    OBVIOUS
  <2> QED BY <2>1, <2>2 DEF ShiftOut
<1> QED BY <1>1, <1>2 DEF Got

LEMMA GotBit ==
  ASSUME NEW v \in Byte, NEW s \in 1 .. 8, Got(v, s, s - 1),
         NEW bit \in Flag, bit = DecodeBit(overdrive, wire.rises[s])
  PROVE  Got(IF bit = 1 THEN [v EXCEPT ![7] = 1] ELSE v, s, s)
<1> DEFINE u == IF bit = 1 THEN [v EXCEPT ![7] = 1] ELSE v
<1>1. 7 \in Index /\ v[7] = 0
  BY DEF Got, Index
<1>2. u[7] = bit /\ \A i \in Index : i # 7 => u[i] = v[i]
  BY <1>1 DEF Byte, Flag
<1> HIDE DEF u
<1>3. ASSUME NEW j \in 1 .. s
      PROVE  u[7 - s + j] = DecodeBit(overdrive, wire.rises[j])
  <2>1. CASE j = s
    <3>1. 7 - s + j = 7
      BY <2>1
    <3> QED BY <1>2, <2>1, <3>1
  <2>2. CASE j # s
    <3>1. j \in 1 .. s - 1 /\ 7 - s + j \in Index /\ 7 - s + j # 7
      BY <2>2 DEF Index
    <3> QED BY <1>2, <3>1 DEF Got
  <2> QED BY <2>1, <2>2
<1>4. Got(u, s, s)
  BY <1>3 DEF Got
<1> QED BY <1>4 DEF u

LEMMA LeftShift ==
  ASSUME NEW v \in Byte, NEW k \in 0 .. 7, Left(v, k)
  PROVE  v[0] = request.bits[k] /\ Left(ShiftOut(v), k + 1)
<1>1. v[0] = request.bits[0 + k] /\ 0 + k = k
  BY DEF Left
<1>2. ASSUME NEW i \in 0 .. 7 - (k + 1)
      PROVE  ShiftOut(v)[i] = request.bits[i + (k + 1)]
  <2>1. i \in Index /\ i < 7 /\ i + 1 \in 0 .. 7 - k
    BY DEF Index
  <2>2. (i + 1) + k = i + (k + 1)
    OBVIOUS
  <2>3. v[i + 1] = request.bits[(i + 1) + k]
    BY <2>1 DEF Left
  <2> QED BY <2>1, <2>2, <2>3 DEF ShiftOut
<1> QED BY <1>1, <1>2 DEF Left

LEMMA LeftFill ==
  ASSUME NEW v \in Byte, NEW k \in 1 .. 8, Left(v, k)
  PROVE  Left([v EXCEPT ![7] = 1], k)
<1>1. ASSUME NEW i \in 0 .. 7 - k
      PROVE  [v EXCEPT ![7] = 1][i] = v[i]
  <2>1. i \in Index /\ i # 7
    BY DEF Index
  <2> QED BY <2>1 DEF Byte
<1> QED BY <1>1 DEF Left

\* What the handler of a capture finds in an exchange without the pull-up.
LEMMA FilledRight ==
  ASSUME TypeOK, SlotInv, Exchange, NoConflict, ~tim.uif,
         tim.cc1if \/ tim.cc2if, Slots <= request.n
  PROVE  /\ tim.cnt >= tim.pwm
         /\ Slots < request.n =>
              /\ Left(Filled, Slots + 1)
              /\ (IF tim.cc1if THEN Level(value[0]) ELSE tim.ccr1)
                   = Level(request.bits[Slots])
         /\ ~wire.stuck =>
              /\ Got(Filled, Slots, Edges)
              /\ tim.cc2if => Edges = Slots /\ Bit \in Flag
<1>1. Sending /\ Receiving /\ Clocked
  BY DEF SlotInv
<1>2. tim.cnt >= tim.pwm
  BY <1>1, SlotFacts DEF Sending
<1>3. Due <=> tim.cc1if
  BY <1>2, <1>1, SlotFacts DEF Due
<1>4. Shift \in Byte /\ value \in Byte /\ Slots \in Nat /\ Edges \in Nat
      /\ request.n \in 1 .. 8 /\ Slots >= 1
  BY <1>1, SlotFacts, ByteOps DEF Shift, Sending
<1>5. ASSUME Slots < request.n
      PROVE  /\ Left(Filled, Slots + 1)
             /\ (IF tim.cc1if THEN Level(value[0]) ELSE tim.ccr1)
                  = Level(request.bits[Slots])
  <2>1. /\ Left(Shift, Slots + 1)
        /\ (IF tim.cc1if THEN Level(value[0]) ELSE tim.ccr1)
             = Level(request.bits[Slots])
    <3>1. CASE tim.cc1if
      <4>1. Left(value, Slots) /\ Slots \in 0 .. 7
        BY <1>1, <1>3, <1>4, <1>5, <3>1 DEF Sending
      <4> QED BY <1>4, <3>1, <4>1, LeftShift DEF Shift
    <3>2. CASE ~tim.cc1if
      BY <1>1, <1>3, <1>5, <3>2 DEF Sending, Shift
    <3> QED BY <3>1, <3>2
  <2>2. Slots + 1 \in 1 .. 8
    BY <1>4, <1>5
  <2> QED BY <1>4, <2>1, <2>2, LeftFill DEF Filled
<1>6. ASSUME ~wire.stuck
      PROVE  /\ Got(Filled, Slots, Edges)
             /\ tim.cc2if => Edges = Slots /\ Bit \in Flag
  <2>1. /\ Edges = IF Low THEN Slots - 1 ELSE Slots
        /\ tim.cc2if => ~Low /\ tim.ccr2 = wire.rises[Edges]
        /\ ~Low /\ ~tim.cc2if => ~Due
        /\ \A j \in 1 .. Edges :
             wire.rises[j] \in Ticks .. Ticks * TSLOT_MAX(overdrive)
        /\ Got(value, Shifted, Heard)
    BY <1>1, <1>6 DEF Receiving
  <2>2. Heard = IF tim.cc2if THEN Slots - 1 ELSE Edges
    BY <2>1 DEF Heard
  <2>3. Got(Shift, Slots, Heard)
    <3>1. CASE tim.cc1if
      <4>1. Shifted = Slots - 1 /\ Slots - 1 \in 0 .. 7 /\ Heard = Slots - 1
        BY <1>3, <1>4, <2>1, <2>2, <3>1 DEF Shifted
      <4>2. Got(ShiftOut(value), (Slots - 1) + 1, Slots - 1)
        BY <1>4, <2>1, <4>1, GotShift
      <4> QED BY <1>4, <3>1, <4>1, <4>2 DEF Shift
    <3>2. CASE ~tim.cc1if
      BY <1>3, <2>1, <3>2 DEF Shifted, Shift
    <3> QED BY <3>1, <3>2
  <2>4. ASSUME tim.cc2if
        PROVE  Edges = Slots /\ Bit \in Flag /\ Got(Filled, Slots, Edges)
    <3>1. Edges = Slots /\ Heard = Slots - 1 /\ Slots \in 1 .. 8
      BY <1>4, <2>1, <2>2, <2>4
    <3>2. Bit = DecodeBit(overdrive, wire.rises[Slots])
      BY <2>1, <2>4, <3>1 DEF Bit
    <3>3. wire.rises[Slots] \in Ticks .. Ticks * TSLOT_MAX(overdrive)
      BY <2>1, <3>1
    <3>4. Bit \in Flag
      <4>1. overdrive \in Flag /\ 0 \in Flag /\ 1 \in Flag
        BY <1>1, SlotFacts DEF Flag
      <4>2. /\ BIT1_MIN_DURATION(overdrive) = Ticks
            /\ BIT0_MAX_DURATION(overdrive) = Ticks * TSLOT_MAX(overdrive)
        BY <4>1, SlotConstants
      <4>3. wire.rises[Slots] \in Int /\ Ticks \in Int
            /\ Ticks * TSLOT_MAX(overdrive) \in Int
        BY <3>3, <4>1, SlotConstants
      <4> QED BY <3>2, <3>3, <4>1, <4>2, <4>3 DEF DecodeBit
    <3> QED BY <1>4, <2>3, <2>4, <3>1, <3>2, <3>4, GotBit DEF Filled
  <2>5. ASSUME ~tim.cc2if
        PROVE  Got(Filled, Slots, Edges)
    BY <2>2, <2>3, <2>5 DEF Filled
  <2> QED BY <2>4, <2>5
<1> QED BY <1>2, <1>5, <1>6

\* A bit was sent or received.
LEMMA BitServedSafe ==
  ASSUME TypeOK, SlotInv, Exchange, BitServed, ~tim.uif, tim.cc1if \/ tim.cc2if,
         UNCHANGED <<dma, count, presence, overdrive, call, request>>,
         UNCHANGED <<wire, hold, pullup, conflict>>
  PROVE  SlotInv'
<1>1. /\ Exchange' /\ Top' = Top /\ Levels' = Levels
      /\ \A b : Level(b)' = Level(b)
      /\ NoConflict' <=> NoConflict
      /\ Low' <=> Low
      /\ Slots' = Slots /\ Edges' = Edges
      /\ Begun = 0 /\ Begun' = 0 /\ Heard' = Edges
      /\ tim'.cnt = tim.cnt /\ tim'.pwm = tim.pwm
      /\ ~tim'.cc1if /\ ~tim'.cc2if /\ ~tim'.uif
      /\ Due' <=> tim.cnt < tim.pwm
  BY DEF BitServed, Exchange, Top, Levels, Level, NoConflict, Low, Driving,
     Slots, Edges, Heard, Due, Begun
<1>2. /\ Guarded /\ Clocked /\ Watched /\ Sending /\ Receiving
  BY DEF SlotInv
<1>3. Guarded'
  BY <1>1, <1>2 DEF Guarded, BitServed
<1>4. Clocked'
  <2>1. tim'.ccr1 \in Levels
    <3>1. value[0] \in {0, 1}
      BY <1>2, SlotFacts, ByteOps DEF Flag
    <3>2. Level(value[0]) \in Levels
      BY <3>1 DEF Levels
    <3> QED BY <1>2, <3>2, SlotFacts DEF BitServed
  <2> QED BY <1>1, <1>2, <2>1 DEF Clocked, BitServed
<1>5. Watched'
  <2>1. count = 0 => ~tim.cc2if
    BY DEF BitServed
  <2> QED BY <1>1, <1>2, <2>1 DEF Watched, NoExtraPulse
<1>6. Sending'
  <2>1. SUFFICES ASSUME NoConflict PROVE Sending'
    BY <1>1, OpStatus DEF Sending, SentInOrder
  <2>2. SentInOrder'
    BY <1>1, <1>2 DEF Sending, SentInOrder, BitServed
  <2>3. ASSUME Slots < request.n
        PROVE  /\ ~Due' /\ Left(value', Slots + 1)
               /\ tim'.ccr1 = Level(request.bits[Slots])
    <3>1. Slots <= request.n
      BY SMTT(20), <1>2, <2>3, SlotFacts
    <3> QED BY <1>1, <1>2, <2>1, <2>3, <3>1, FilledRight, SlotFacts
            DEF BitServed
  <2>4. Left(value', Slots + 1) => Left(value, Slots + 1)'
    BY <1>1 DEF Left
  <2> QED BY <1>1, <1>2, <2>1, <2>2, <2>3, <2>4 DEF Sending
<1>7. Receiving'
  <2>1. SUFFICES ASSUME NoConflict, ~wire.stuck
                 PROVE  /\ Edges = IF Low THEN Slots - 1 ELSE Slots
                        /\ ~Due'
                        /\ \A j \in 1 .. Edges : wire.rises[j]
                             \in Ticks .. Ticks * TSLOT_MAX(overdrive)
                        /\ Got(value, Shifted, Heard)'
    BY <1>1, OpStatus DEF Receiving, RxDataOk, NoSpuriousError, IoComplete,
       Exchange
  <2>2. Slots <= request.n
    BY <1>2, <2>1 DEF Watched, NoExtraPulse, Exchange, Slots
  <2>3. tim.cnt >= tim.pwm /\ Got(Filled, Slots, Edges)
    BY <1>2, <2>1, <2>2, FilledRight
  <2>4. ~Due' /\ Shifted' = Slots
    BY <1>1, <1>2, <2>3, SlotFacts DEF Shifted
  <2>5. Got(value, Shifted, Heard)'
    BY <1>1, <2>3, <2>4 DEF Got, BitServed
  <2> QED BY <1>2, <2>1, <2>4, <2>5 DEF Receiving
<1> QED BY <1>3, <1>4, <1>5, <1>6, <1>7 DEF SlotInv

\* An operation that is over leaves the history as it is.
LEMMA OverSafe ==
  ASSUME Guarded, status' # Op!PROGRESS, call = "io",
         UNCHANGED <<dma, call, wire, request, overdrive, pullup>>,
         tim'.bif => tim.bif \/ pullup,
         NoConflict' => NoConflict,
         NoExtraPulse, SentInOrder,
         status' = Op!COMPLETE /\ NoConflict => Slots >= request.n,
         NoConflict /\ ~wire.stuck => RxDataOk' /\ NoSpuriousError'
  PROVE  SlotInv'
<1>1. ~Exchange'
  BY DEF Exchange
<1>2. Guarded'
  BY <1>1 DEF Guarded
<1>3. NoExtraPulse' /\ SentInOrder'
  BY DEF NoExtraPulse, SentInOrder, Slots
<1>4. RxDataOk' /\ NoSpuriousError'
  BY DEF RxDataOk, NoSpuriousError
<1> QED BY <1>1, <1>2, <1>3, <1>4 DEF SlotInv, Clocked, Watched, Sending,
        Receiving

LEMMA OverflowErrorSafe ==
  ASSUME TypeOK, SlotInv, Exchange, OverflowError
  PROVE  SlotInv'
<1>1. /\ Guarded /\ NoExtraPulse /\ SentInOrder /\ call = "io"
      /\ status' = Op!ERROR /\ tim.uif /\ (PullupConflict \/ count = 0)
      /\ UNCHANGED <<dma, call, wire, request, overdrive, pullup>>
      /\ NoConflict' = NoConflict /\ (tim'.bif => tim.bif \/ pullup)
  BY DEF SlotInv, Watched, Sending, OverflowError, Exchange, NoConflict
<1>2. ~(NoConflict /\ ~wire.stuck)
  BY <1>1 DEF SlotInv, Guarded, Watched, PullupConflict
<1> QED BY <1>1, <1>2, OverSafe, OpStatus

LEMMA LastServedSafe ==
  ASSUME TypeOK, SlotInv, Exchange, LastServed, ~tim.uif,
         UNCHANGED <<dma, count, presence, overdrive, call, request>>,
         UNCHANGED <<wire, hold, pullup, conflict>>
  PROVE  SlotInv'
<1>1. /\ Guarded /\ NoExtraPulse /\ SentInOrder /\ call = "io" /\ Begun = 0
      /\ NoConflict' = NoConflict /\ tim'.bif = tim.bif
      /\ status' # Op!PROGRESS /\ tim.cc2if
  BY OpStatus DEF SlotInv, Watched, Sending, LastServed, Exchange, NoConflict,
     Begun
<1>2. ASSUME status' = Op!COMPLETE, NoConflict
      PROVE  Slots = request.n /\ count = 0
  BY SMTT(20), <1>1, <1>2, SlotFacts, OpStatus DEF SlotInv, Sending, LastServed
<1>3. ASSUME NoConflict, ~wire.stuck
      PROVE  RxDataOk' /\ NoSpuriousError'
  <2>1. Slots <= request.n
    BY <1>1, <1>3 DEF NoExtraPulse, Slots
  <2>2. Got(Filled, Slots, Edges) /\ Edges = Slots /\ Bit \in Flag
    BY <1>1, <1>3, <2>1, FilledRight
  <2>3. Bit # ErrorBit
    BY <2>2 DEF Flag, ErrorBit
  <2>4. status' = Op!COMPLETE /\ value' = Filled
    BY <2>3 DEF LastServed
  <2>5. Slots = request.n
    BY <1>2, <1>3, <2>4
  <2>6. /\ request.n \in 1 .. 8 /\ Len(wire.rises) = request.n
        /\ Got(value', request.n, request.n)
    BY <2>2, <2>4, <2>5, SlotFacts DEF SlotInv, Edges
  <2>7. ASSUME NEW k \in 0 .. request.n - 1
        PROVE  RxBit(request.n, k)' = DecodeBit(overdrive, wire.rises[k + 1])
    <3>1. k + 1 \in 1 .. request.n /\ 7 - request.n + (k + 1) = k + 8 - request.n
      BY <2>6
    <3> QED BY <2>6, <3>1 DEF RxBit, Got
  <2>8. RxDataOk'
    BY <2>6, <2>7 DEF RxDataOk, RxBit
  <2>9. NoSpuriousError'
    BY <2>4, OpStatus DEF NoSpuriousError
  <2> QED BY <2>8, <2>9
<1>4. status' = Op!COMPLETE /\ NoConflict => Slots >= request.n
  BY <1>2, SlotFacts DEF SlotInv
<1> QED BY <1>1, <1>3, <1>4, OverSafe

\* An exchange is started: its first slot has begun.
LEMMA TxBitsSafe ==
  ASSUME TypeOK, AtRest, SlotInv, InTime, ~NoisyBus, NEW r \in Requests,
         TxBits(r)
  PROVE  SlotInv'
<1> DEFINE t0 == TxPrepared
           t1 == BitLevel(t0, r.bits)
           t == FireOverflowEvent(TimerStart(EnableOverflowIrq(t1)), pullup)
<1>1. /\ r \in Request /\ r.bits \in Byte /\ r.n \in 1 .. 8 /\ pullup \in BOOLEAN
      /\ tim \in Tim /\ DrvTypeOK /\ overdrive \in Flag
  BY DrvAssumption DEF Request, Byte, TypeOK, DrvTypeOK, BusTypeOK
<1>2. t0 \in Tim /\ t1 \in Tim
  BY <1>1, TxPreparedType, BitLevelType
<1>3. /\ t0.arr = Top /\ t0.cc2p = Rising /\ t0.aoe /\ ~t0.moe
      /\ t0.bif = pullup
  BY <1>1 DEF TxPrepared, SetCapturePolarity, ClearCapture, SetTop, Prepare,
     ClearPullupConflict, Top, Tim
<1>4. t1.ccr1 = Level(r.bits[0]) /\ t1.arr = t0.arr /\ t1.cc2p = t0.cc2p
      /\ t1.aoe = t0.aoe /\ t1.moe = t0.moe /\ t1.bif = t0.bif
  BY <1>2 DEF BitLevel, SetPwmLevel, Level, Tim
<1> HIDE DEF t0, t1
<1>5. /\ t.cnt = 0 /\ t.uif /\ t.uie /\ t.cen /\ ~t.cc1if /\ ~t.cc2if
      /\ t.pwm = t1.ccr1 /\ t.ccr1 = t1.ccr1 /\ t.arr = t1.arr
      /\ t.cc2p = t1.cc2p /\ t.aoe = t1.aoe /\ t.bif = t1.bif
      /\ t.moe <=> t1.moe \/ (t1.aoe /\ ~pullup)
  BY <1>2 DEF FireOverflowEvent, UpdateEvent, TimerStart, EnableOverflowIrq, Tim
<1>6. /\ Begin("io") /\ TxStarted(r, t)
      /\ value' = ShiftOut(r.bits) /\ count' = r.n
      /\ UNCHANGED <<dma, durations>> /\ presence = 1
  BY DEF TxBits, t, t1, t0
<1> HIDE DEF t
<1>7. /\ tim' = t /\ request' = r /\ status' = Op!PROGRESS /\ call' = "io"
      /\ UNCHANGED <<pullup, hold, presence, overdrive, dma>>
      /\ conflict' = IF pullup THEN "all" ELSE "never"
      /\ wire' = [NoTrace EXCEPT !.pulses = IF Driving(t) THEN <<t.pwm>>
                                           ELSE <<>>]
  BY <1>6 DEF TxStarted, Begin
<1>8. /\ Exchange' /\ Top' = Top /\ Levels' = Levels /\ Begun' = 1
      /\ \A b : Level(b)' = Level(b)
      /\ NoConflict' <=> ~pullup
  BY <1>5, <1>7 DEF Exchange, Top, Levels, Level, Begun, NoConflict
<1>9. r.bits[0] \in Flag
  BY <1>1, ByteOps
<1>10. /\ Level(r.bits[0]) \in Levels /\ Level(r.bits[0]) \in Int
       /\ 0 < Level(r.bits[0]) /\ MaxLag[Top] <= Top /\ Top \in Int
       /\ MaxLag[Top] \in Nat
  <2>1. BIT_DURATION(overdrive, r.bits[0]) \in Nat
        /\ Ticks <= BIT_DURATION(overdrive, r.bits[0]) /\ Ticks > 0
        /\ Ticks \in Nat
    BY <1>1, <1>9, SlotConstants
  <2>2. Top \in Word
    BY <1>1, BitTypes DEF Top, Flag
  <2>3. 0 + MaxLag[Top] <= Top
    BY <1>1 DEF InTime, Top
  <2>4. MaxLag[Top] \in Nat
    BY <2>2, BusAssumption
  <2> QED BY <1>9, <2>1, <2>2, <2>3, <2>4, WordIsInt DEF Level, Levels, Flag
<1>11. Driving(t) <=> ~pullup
  BY <1>3, <1>4, <1>5, <1>10 DEF Driving
<1>12. /\ wire'.pulses = IF pullup THEN <<>> ELSE <<t.pwm>>
       /\ wire'.rises = <<>> /\ ~wire'.stuck
  BY <1>7, <1>11 DEF NoTrace
<1>13. Slots' = (IF pullup THEN 0 ELSE 1) /\ Edges' = 0
  BY <1>12 DEF Slots, Edges
<1>14. Guarded'
  BY <1>3, <1>4, <1>5, <1>7, <1>8 DEF SlotInv, Guarded
<1>15. Clocked'
  <2>1. NoConflict' => tim'.moe
    BY <1>3, <1>4, <1>5, <1>7, <1>8
  <2>2. /\ tim'.cen /\ tim'.aoe /\ tim'.uie /\ tim'.cc2p = Rising
        /\ tim'.arr = Top /\ tim'.cnt = 0 /\ tim'.uif
        /\ tim'.pwm \in Levels /\ tim'.ccr1 \in Levels
    BY <1>3, <1>4, <1>5, <1>7, <1>10
  <2>3. 0 + MaxLag[Top] <= Top /\ presence' = 1
    BY <1>6, <1>7, <1>10
  <2> QED BY <1>8, <2>1, <2>2, <2>3 DEF Clocked
<1>16. Low' <=> ~pullup \/ hold
  BY <1>7, <1>11 DEF Low
<1>17. Watched'
  <2>1. tim'.bif \/ Low'
    BY <1>3, <1>4, <1>5, <1>7, <1>16
  <2> QED BY <1>1, <1>5, <1>6, <1>7, <1>8, <1>13, <2>1
          DEF Watched, NoExtraPulse, Slots
<1>18. Due'
  BY <1>4, <1>5, <1>7, <1>10 DEF Due
<1>19. Sending'
  <2>1. SUFFICES ASSUME ~pullup PROVE Sending'
    BY <1>8, OpStatus DEF Sending, SentInOrder
  <2>2. Left(value, Slots)'
    <3>1. \A i \in 0 .. 6 : ShiftOut(r.bits)[i] = r.bits[i + 1]
      BY DEF ShiftOut, Index
    <3> QED BY <1>6, <1>7, <1>13, <2>1, <3>1 DEF Left
  <2>3. SentInOrder'
    <3>1. ASSUME NEW k \in 1 .. Len(wire'.pulses)
          PROVE  wire'.pulses[k] = Level(request'.bits[k - 1])
      <4>1. k = 1 /\ wire'.pulses = <<t.pwm>>
        BY <1>12, <2>1
      <4> QED BY <1>4, <1>5, <1>7, <4>1
    <3> QED BY <1>7, <3>1, OpStatus DEF SentInOrder, Level
  <2> QED BY <1>1, <1>5, <1>6, <1>7, <1>8, <1>13, <1>18, <2>1, <2>2, <2>3
          DEF Sending
<1>20. Receiving'
  <2>1. ASSUME ~pullup PROVE Low'
    BY <1>16, <2>1
  <2>2. ASSUME ~pullup PROVE Got(value, Shifted, Heard)'
    <3>1. Shifted' = 0 /\ Heard' = 0
      BY <1>5, <1>7, <1>13, <1>18, <2>2 DEF Shifted, Heard
    <3> QED BY <3>1 DEF Got
  <2>3. RxDataOk' /\ NoSpuriousError'
    BY <1>7, OpStatus DEF RxDataOk, NoSpuriousError, IoComplete
  <2> QED BY <1>5, <1>7, <1>8, <1>13, <2>1, <2>2, <2>3 DEF Receiving
<1> QED BY <1>14, <1>15, <1>17, <1>19, <1>20 DEF SlotInv

\* Steps that leave the exchange as it is.
LEMMA SameSafe ==
  ASSUME SlotInv, Guarded', NoConflict' => NoConflict,
         UNCHANGED <<tim, dma, hold, wire, value, count>>,
         UNCHANGED <<status, presence, overdrive, call, request>>
  PROVE  SlotInv'
<1>1. /\ Exchange' <=> Exchange
      /\ Top' = Top /\ Levels' = Levels /\ Slots' = Slots /\ Edges' = Edges
      /\ Begun' = Begun /\ (Low' <=> Low) /\ (Due' <=> Due)
      /\ \A b : Level(b)' = Level(b)
      /\ \A k : Left(value, k)' <=> Left(value, k)
  BY DEF Exchange, Top, Levels, Slots, Edges, Begun, Low, Driving, Due, Level,
     Left
<1>2. Got(value, Shifted, Heard)' <=> Got(value, Shifted, Heard)
  BY DEF Got, Shifted, Due, Heard, Slots, Edges
<1>3. Clocked' /\ Watched'
  BY <1>1 DEF SlotInv, Clocked, Watched, NoExtraPulse
<1>4. Sending'
  BY <1>1 DEF SlotInv, Sending, SentInOrder
<1>5. Receiving'
  BY <1>1, <1>2 DEF SlotInv, Receiving, RxDataOk, RxBit, IoComplete,
     NoSpuriousError
<1> QED BY <1>3, <1>4, <1>5 DEF SlotInv

\* The exchange goes on, or is over.
LEMMA ExchangeSafe ==
  ASSUME TypeOK, SlotInv, Exchange, InTime, ~NoisyBus, ~WithDma, [Next]_vars
  PROVE  SlotInv'
<1>1. ~Op!Ready /\ Clocked /\ Guarded /\ ~dma.clk
  BY DEF Exchange, Op!Ready, SlotInv, Guarded
<1>2. CASE CommonStep /\ UNCHANGED <<value, count>>
  <2>1. ASSUME NEW od \in Speeds PROVE ~Reset(od)
    BY <1>1 DEF Reset
  <2>2. ~SimulatePresence
    BY <1>1 DEF SimulatePresence, Op!SimulatePresence
  <2>3. CASE HardwareStep
    <3>1. CASE Compare
      BY <1>1, <1>2, <2>3, <3>1, CompareWithin, WithinSafe
    <3>2. CASE Overflow
      BY <1>1, <1>2, <2>3, <3>2, OverflowNewSlot, NewSlotSafe
    <3>3. ASSUME NEW m \in Moments, DevicePull(m) \/ DeviceRelease(m)
          PROVE  SlotInv'
      BY <1>1, <1>2, <2>3, <3>3, DeviceWithin, WithinSafe
    <3> QED BY <2>3, <3>1, <3>2, <3>3 DEF HardwareStep, Hardware
  <2>4. CASE PullupStep
    <3>1. ASSUME NEW m \in Moments, ActivePullupOn(m)
          PROVE  SlotInv'
      BY <1>1, <1>2, <2>4, <3>1, PullupWithin, WithinSafe
    <3>2. CASE ActivePullupOff
      <4>1. /\ UNCHANGED <<tim, dma, hold, wire, value, count>>
            /\ UNCHANGED <<status, presence, overdrive, call, request>>
            /\ pullup /\ ~pullup' /\ ~NoConflict' /\ ActivePullup
        BY <1>2, <2>4, <3>2 DEF PullupStep, ActivePullupOff, NoConflict
      <4>2. Guarded'
        BY <1>1, <4>1 DEF Guarded, Exchange
      <4> QED BY <4>1, <4>2, SameSafe
    <3> QED BY <2>4, <3>1, <3>2 DEF PullupStep, Pullup
  <2>5. CASE ConsumeEvent
    <3>1. /\ UNCHANGED <<tim, dma, hold, wire, value, count>>
          /\ UNCHANGED <<status, presence, overdrive, call, request>>
          /\ UNCHANGED <<pullup, conflict>>
      BY <1>2, <2>5 DEF ConsumeEvent, Op!ConsumeEvent
    <3>2. Guarded' /\ (NoConflict' <=> NoConflict)
      BY <1>1, <3>1 DEF Guarded, Exchange, NoConflict
    <3> QED BY <3>1, <3>2, SameSafe
  <2> QED BY <1>2, <2>1, <2>2, <2>3, <2>4, <2>5 DEF CommonStep
<1>3. ASSUME NEW r \in Requests PROVE ~TxBits(r)
  BY <1>1 DEF TxBits
<1>4. CASE Dispatch
  <2>1. CASE \/ IsrPullupConflict /\ UNCHANGED <<value, count>>
             \/ IsrOverflow
    <3>1. SlotCounted \/ OverflowError
      BY <1>1, <1>4, <2>1, OverflowServed
    <3> QED BY <3>1, SlotCountedSafe, OverflowErrorSafe
  <2>2. CASE ~OverflowPending /\ IsrPwmCapture
    <3>1. /\ ~tim.uif /\ (tim.cc1if \/ tim.cc2if)
          /\ BitServed \/ LastServed
          /\ UNCHANGED <<dma, count, presence, overdrive, call, request>>
          /\ UNCHANGED <<wire, hold, pullup, conflict>>
      BY <1>1, <1>4, <2>2, CaptureServed
    <3> QED BY <3>1, BitServedSafe, LastServedSafe
  <2> QED BY <1>4, <2>1, <2>2 DEF Dispatch
<1>5. CASE UNCHANGED vars
  <2>1. /\ UNCHANGED <<tim, dma, hold, wire, value, count>>
        /\ UNCHANGED <<status, presence, overdrive, call, request>>
        /\ UNCHANGED <<pullup, conflict>>
    BY <1>5 DEF vars, busVars, drvVars
  <2>2. Guarded' /\ (NoConflict' <=> NoConflict)
    BY <1>1, <2>1 DEF Guarded, Exchange, NoConflict
  <2> QED BY <2>1, <2>2, SameSafe
<1> QED BY <1>2, <1>3, <1>4, <1>5 DEF Next

\* Outside an exchange: what happens to the line changes no flag of the
\* pull-up, and nothing is recorded while the timer does not count.
LEMMA SettleQuiet ==
  ASSUME NEW t \in Tim, ~dma.clk, NEW h, NEW w \in Trace, Settle(t, dma, h, w)
  PROVE  /\ dma' = dma /\ tim'.bif = t.bif
         /\ ~t.cen => wire' = w
<1>1. ~CaptureRequestServed(dma)
  BY DEF CaptureRequestServed
<1>2. tim' = t \/ tim' = [t EXCEPT !.cc2if = TRUE, !.ccr2 = t.cnt]
  BY DEF Settle
<1>3. ASSUME ~t.cen PROVE wire' = w
  <2>1. wire' = [pulses |-> w.pulses, rises |-> w.rises, falls |-> w.falls,
                 stuck |-> w.stuck]
    BY <1>3 DEF Settle, Driving
  <2> QED BY <2>1 DEF Trace
<1> QED BY <1>1, <1>2, <1>3 DEF Settle, Tim

LEMMA HardwareQuiet ==
  ASSUME TypeOK, ~dma.clk, Hardware \/ Pullup
  PROVE  /\ dma' = dma
         /\ tim'.bif => tim.bif \/ ActivePullup
         /\ ~tim.cen => wire' = wire
<1>1. /\ tim \in Tim /\ wire \in Trace /\ hold \in BOOLEAN
      /\ ~PwmRequestServed(dma)
  BY DEF TypeOK, DrvTypeOK, BusTypeOK, PwmRequestServed
<1>2. CASE Compare
  <2> DEFINE t == [tim EXCEPT !.cnt = tim.pwm, !.cc1if = TRUE]
  <2>1. t \in Tim /\ t.bif = tim.bif /\ t.cen = tim.cen
    BY <1>1 DEF Tim
  <2>2. Settle(t, dma, hold, wire)
    BY <1>1, <1>2 DEF Compare
  <2> HIDE DEF t
  <2> QED BY <1>1, <2>1, <2>2, SettleQuiet
<1>3. CASE Overflow
  <2> DEFINE t == UpdateEvent(tim, pullup)
             w == [wire EXCEPT !.stuck = wire.stuck \/ hold]
  <2>1. t \in Tim /\ t.bif = tim.bif
    <3>1. 0 \in Word /\ 0 \in Flag /\ pullup \in BOOLEAN
      BY WordIsInt DEF Flag, TypeOK, DrvTypeOK, BusTypeOK
    <3>2. t \in Tim
      BY <1>1, <3>1, TimValueOps
    <3> QED BY <1>1, <3>2 DEF UpdateEvent, Tim
  <2>2. Settle(t, dma, hold, w) /\ tim.cen /\ w \in Trace
    BY <1>1, <1>3 DEF Overflow, Trace
  <2> HIDE DEF t, w
  <2> QED BY <2>1, <2>2, SettleQuiet
<1>4. ASSUME NEW m \in Moments,
             DevicePull(m) \/ DeviceRelease(m) \/ ActivePullupOn(m)
      PROVE  /\ dma' = dma
             /\ tim'.bif => tim.bif \/ ActivePullup
             /\ ~tim.cen => wire' = wire
  <2>1. m \in Word
    BY MomentType DEF TypeOK, DrvTypeOK
  <2>2. PICK t \in Tim, h \in BOOLEAN :
          /\ Settle(t, dma, h, wire) /\ t.cen = tim.cen
          /\ t.bif => tim.bif \/ ActivePullup
    <3>1. CASE DevicePull(m) \/ DeviceRelease(m)
      <4> DEFINE t == [tim EXCEPT !.cnt = m]
      <4>1. t \in Tim /\ t.cen = tim.cen /\ t.bif = tim.bif
        BY <1>1, <2>1 DEF Tim
      <4>2. Settle(t, dma, TRUE, wire) \/ Settle(t, dma, FALSE, wire)
        BY <3>1 DEF DevicePull, DeviceRelease
      <4> QED BY <4>1, <4>2
    <3>2. CASE ActivePullupOn(m)
      <4> DEFINE t == [tim EXCEPT !.cnt = m, !.bif = TRUE, !.moe = FALSE]
      <4>1. t \in Tim /\ t.cen = tim.cen
        BY <1>1, <2>1 DEF Tim
      <4>2. Settle(t, dma, hold, wire) /\ ActivePullup
        BY <3>2 DEF ActivePullupOn
      <4> QED BY <1>1, <4>1, <4>2
    <3> QED BY <1>4, <3>1, <3>2
  <2>3. dma' = dma /\ tim'.bif = t.bif /\ (~t.cen => wire' = wire)
    BY <1>1, <2>2, SettleQuiet
  <2> QED BY <2>2, <2>3
<1>5. CASE ActivePullupOff
  BY <1>5 DEF ActivePullupOff
<1> QED BY <1>2, <1>3, <1>4, <1>5 DEF Hardware, Pullup

\* The handlers, whatever they serve.
LEMMA DispatchQuiet ==
  ASSUME TypeOK, ~WithDma, Dispatch
  PROVE  /\ UNCHANGED <<dma, pullup, conflict, call, wire, overdrive, request>>
         /\ tim'.bif => tim.bif \/ pullup
<1>1. /\ tim \in Tim /\ DrvTypeOK /\ value \in Byte
      /\ UNCHANGED <<pullup, conflict, call, wire, overdrive, request>>
  BY DEF TypeOK, DrvTypeOK, BusTypeOK, Byte, Dispatch
<1>2. ASSUME NEW t \in Tim, NEW result, OperationComplete(t, dma, result),
             t.bif => tim.bif \/ pullup
      PROVE  dma' = dma /\ (tim'.bif => tim.bif \/ pullup)
  <2>1. tim' = CompleteTim(t) /\ dma' = dma
    BY <1>2 DEF OperationComplete, CompleteDma
  <2>2. CompleteTim(t).bif = t.bif
    BY CompleteKeeps
  <2> QED BY <1>2, <2>1, <2>2
<1>3. CASE IsrPullupConflict
  <2> DEFINE t == ClearPullupConflict(tim, pullup)
  <2>1. pullup \in BOOLEAN
    BY DEF TypeOK, DrvTypeOK, BusTypeOK
  <2>2. t \in Tim /\ t.bif = pullup
    BY <1>1, <2>1 DEF ClearPullupConflict, Tim
  <2> QED BY <1>1, <1>2, <1>3, <2>2 DEF IsrPullupConflict
<1>4. CASE IsrOverflow
  <2> DEFINE t == ClearOverflow(tim)
  <2>1. t \in Tim /\ t.bif = tim.bif
    BY <1>1 DEF ClearOverflow, Tim
  <2> HIDE DEF t
  <2>2. CASE OperationComplete(t, dma, Op!ERROR)
    BY <1>1, <1>2, <2>1, <2>2
  <2>3. ASSUME ~OperationComplete(t, dma, Op!ERROR)
        PROVE  dma' = dma /\ tim'.bif = t.bif
    <3>1. /\ dma' = dma
          /\ \/ tim' = EnablePwmIrq(t)
             \/ tim' = EnableCaptureIrq(EnablePwmIrq(t))
             \/ tim' = EnableCaptureIrq(DisablePwmIrq(t))
      BY <1>4, <2>3 DEF IsrOverflow, BitsOverflow, ResetOverflow, t
    <3> QED BY <2>1, <3>1 DEF EnableCaptureIrq, EnablePwmIrq, DisablePwmIrq,
            Tim
  <2> QED BY <1>1, <2>1, <2>2, <2>3
<1>5. CASE IsrPwmCapture
  <2> DEFINE t == AfterPwm(tim)
             v == ValueAfterPwm(tim)
             c == ClearCapture(t)
  <2>1. t \in Tim /\ t.bif = tim.bif
    <3>1. ClearPwm(tim) \in Tim /\ ClearPwm(tim).bif = tim.bif
      BY <1>1 DEF ClearPwm, Tim
    <3>2. LET u == BitLevel(ClearPwm(tim), value)
          IN  u \in Tim /\ u.bif = tim.bif
      <4>1. BitLevel(ClearPwm(tim), value) \in Tim
        BY <1>1, <3>1, BitLevelType
      <4> QED BY <3>1, <4>1 DEF BitLevel, SetPwmLevel, Tim
    <3>3. LET u == EndResetPulse(tim) IN u \in Tim /\ u.bif = tim.bif
      <4>1. EndResetPulse(tim) \in Tim
        BY <1>1, EndResetPulseType
      <4> QED BY <1>1, <4>1 DEF EndResetPulse, DisablePwmIrq, EnableCaptureIrq,
              SetCapturePolarity, ClearCapture, SetPwmLevel, ClearPwm, Tim
    <3> QED BY <1>1, <3>2, <3>3 DEF AfterPwm
  <2> HIDE DEF t, v
  <2>2. c \in Tim /\ c.bif = tim.bif
    BY <2>1 DEF ClearCapture, Tim
  <2>3. \A p \in Flag : /\ SetCapturePolarity(c, p) \in Tim
                        /\ SetCapturePolarity(c, p).bif = tim.bif
    BY <2>2 DEF SetCapturePolarity, ClearCapture, Tim
  <2>4. Rising \in Flag
    BY DEF Rising, Flag
  <2> HIDE DEF c
  <2>5. CASE tim' = t /\ dma' = dma
    BY <1>1, <2>1, <2>5
  <2>6. CASE BitCaptured(t, v)
    <3>1. \/ tim' = c /\ dma' = dma
          \/ \E result : OperationComplete(c, dma, result)
      BY <2>6 DEF BitCaptured, c
    <3> QED BY <1>1, <1>2, <2>2, <3>1
  <2>7. CASE PresenceEdge(t)
    <3>1. \/ tim' = SetCapturePolarity(c, Rising) /\ dma' = dma
          \/ \E result : OperationComplete(SetCapturePolarity(c, Rising), dma,
                                           result)
          \/ \E result : OperationComplete(c, dma, result)
      BY <2>7 DEF PresenceEdge, c
    <3> QED BY <1>1, <1>2, <2>2, <2>3, <2>4, <3>1
  <2> QED BY <1>5, <2>5, <2>6, <2>7 DEF IsrPwmCapture, t, v
<1> QED BY <1>3, <1>4, <1>5 DEF Dispatch

\* While no bits are exchanged: the history of the last exchange stays.
Frozen ==
  call' = "io" =>
    /\ UNCHANGED <<call, status, wire, request, overdrive, value>>
    /\ NoConflict' => NoConflict

LEMMA FrozenSafe ==
  ASSUME SlotInv, ~Exchange, Guarded', Frozen
  PROVE  SlotInv'
<1>1. ~Exchange'
  BY DEF Frozen, Exchange
<1>2. NoExtraPulse' /\ SentInOrder'
  BY DEF SlotInv, Watched, Sending, Frozen, NoExtraPulse, SentInOrder
<1>3. RxDataOk' /\ NoSpuriousError'
  BY DEF SlotInv, Receiving, Frozen, RxDataOk, NoSpuriousError, IoComplete,
     RxBit
<1> QED BY <1>1, <1>2, <1>3 DEF SlotInv, Clocked, Watched, Sending, Receiving

\* What is needed of every such step.
Apart ==
  /\ Frozen /\ ~dma'.clk
  /\ tim'.bif \/ pullup' => ActivePullup
  /\ NoConflict' => ~pullup'

LEMMA ResetApart ==
  ASSUME Inv, Guarded, NEW od \in Speeds, Reset(od)
  PROVE  Apart
<1> DEFINE t1 == SetTop(Prepare(tim, pullup), RESET_PROCEDURE_DURATION(od))
           t2 == EnableOverflowIrq(SetPwmLevel(t1, RESET_DURATION(od)))
           t == FireOverflowEvent(TimerStart(t2), pullup)
<1>1. /\ tim \in Tim /\ pullup \in BOOLEAN /\ NoTrace \in Trace
      /\ od \in Flag /\ 0 \in Word
  <2>1. NoTrace \in Trace
    BY DEF NoTrace, Trace
  <2> QED BY <2>1, DrvAssumption, WordIsInt
          DEF Inv, TypeOK, DrvTypeOK, BusTypeOK
<1>2. RESET_PROCEDURE_DURATION(od) \in Word /\ RESET_DURATION(od) \in Word
  BY <1>1, BitTypes
<1>3. Prepare(tim, pullup) \in Tim /\ Prepare(tim, pullup).bif = pullup
  BY <1>1 DEF Prepare, ClearPullupConflict, Tim
<1>4. t1 \in Tim /\ t1.bif = pullup
  BY <1>2, <1>3 DEF SetTop, Tim
<1> HIDE DEF t1
<1>5. t2 \in Tim /\ t2.bif = pullup
  BY <1>2, <1>4 DEF EnableOverflowIrq, SetPwmLevel, Tim
<1> HIDE DEF t2
<1>6. t \in Tim
  BY <1>1, <1>5, StartedType
<1>7. t.bif = pullup
  BY <1>5, <1>6 DEF FireOverflowEvent, UpdateEvent, TimerStart, Tim
<1>8. /\ Settle(t, dma, hold, NoTrace) /\ call' = "reset"
      /\ conflict' = IF pullup THEN "all" ELSE "never"
      /\ UNCHANGED pullup
  BY DEF Reset, Begin, t, t2, t1
<1> HIDE DEF t
<1>9. dma' = dma /\ tim'.bif = pullup
  BY <1>1, <1>6, <1>7, <1>8, SettleQuiet DEF Guarded
<1> QED BY <1>1, <1>8, <1>9 DEF Apart, Frozen, Guarded, NoConflict

LEMMA OtherSafe ==
  ASSUME Inv, SlotInv, ~Exchange, ~WithDma, [Next]_vars,
         ~ \E r \in Requests : TxBits(r)
  PROVE  SlotInv'
<1>1. /\ TypeOK /\ BusTypeOK /\ Guarded /\ ~dma.clk
      /\ tim.bif \/ pullup => ActivePullup
      /\ NoConflict => ~pullup
  BY DEF Inv, TypeOK, DrvTypeOK, SlotInv, Guarded
<1>2. call = "io" => Op!Ready /\ ~tim.cen
  BY DEF Exchange, Op!Ready, Inv, AtRest
<1>3. Apart
  <2>1. CASE CommonStep /\ UNCHANGED <<value, count>>
    <3>1. CASE HardwareStep
      <4>1. /\ dma' = dma /\ (tim'.bif => tim.bif \/ ActivePullup)
            /\ ~tim.cen => wire' = wire
        BY <1>1, <3>1, HardwareQuiet DEF HardwareStep
      <4>2. UNCHANGED <<call, pullup>>
        BY <3>1 DEF HardwareStep, Hardware, Compare, Overflow, DevicePull,
           DeviceRelease
      <4> QED BY <1>1, <1>2, <2>1, <3>1, <4>1, <4>2
              DEF HardwareStep, drvVars, Apart, Frozen, NoConflict
    <3>2. CASE PullupStep
      <4>1. /\ dma' = dma /\ (tim'.bif => tim.bif \/ ActivePullup)
            /\ ~tim.cen => wire' = wire
        BY <1>1, <3>2, HardwareQuiet DEF PullupStep
      <4>2. UNCHANGED call /\ ActivePullup
        BY <3>2 DEF PullupStep, Pullup, ActivePullupOn, ActivePullupOff
      <4>3. ~NoConflict'
        BY <3>2 DEF PullupStep, NoConflict
      <4> QED BY <1>1, <1>2, <2>1, <3>2, <4>1, <4>2, <4>3
              DEF PullupStep, Apart, Frozen
    <3>3. CASE SimulatePresence \/ ConsumeEvent
      BY <1>1, <2>1, <3>3 DEF SimulatePresence, ConsumeEvent,
         Op!SimulatePresence, Op!ConsumeEvent, Apart, Frozen, NoConflict
    <3> QED BY <1>1, <2>1, <3>1, <3>2, <3>3, ResetApart DEF CommonStep
  <2>2. CASE Dispatch
    <3>1. call # "io"
      BY <1>2, <2>2, AtRestNoDispatch DEF Inv
    <3>2. /\ UNCHANGED <<dma, pullup, conflict, call>>
          /\ tim'.bif => tim.bif \/ pullup
      BY <1>1, <2>2, DispatchQuiet
    <3> QED BY <1>1, <3>1, <3>2 DEF Apart, Frozen, NoConflict
  <2>3. CASE UNCHANGED vars
    BY <1>1, <2>3 DEF vars, busVars, drvVars, Apart, Frozen, NoConflict
  <2> QED BY <2>1, <2>2, <2>3 DEF Next
<1>4. ~Exchange'
  BY <1>3 DEF Apart, Frozen, Exchange
<1>5. Guarded'
  BY <1>3, <1>4 DEF Apart, Guarded
<1> QED BY <1>3, <1>5, FrozenSafe DEF Apart

\* It holds at the start, and every step keeps it.
LEMMA SlotInit == Init => SlotInv
<1> SUFFICES ASSUME Init PROVE SlotInv
  OBVIOUS
<1>1. /\ call = "none" /\ ~tim.bif /\ ~pullup /\ ~dma.clk
  BY DEF Init, DrvInit, BusInit
<1> QED BY <1>1 DEF SlotInv, Guarded, Clocked, Watched, Sending, Receiving,
        Exchange, NoExtraPulse, SentInOrder, RxDataOk, NoSpuriousError,
        IoComplete

LEMMA SlotNext ==
  ASSUME ~NoisyBus, InTime, Inv, SlotInv, [Next]_vars
  PROVE  SlotInv'
<1>1. TypeOK /\ AtRest
  BY DEF Inv
<1>2. ASSUME NEW r \in Requests, TxBits(r)
      PROVE  SlotInv'
  BY <1>1, <1>2, TxBitsSafe
<1>3. CASE Exchange
  BY <1>1, <1>3, IrqAssumption, ExchangeSafe
<1>4. CASE ~Exchange /\ ~ \E r \in Requests : TxBits(r)
  BY <1>4, IrqAssumption, OtherSafe
<1> QED BY <1>2, <1>3, <1>4

\* On a quiet bus, with handlers that are in time, it holds throughout.
LEMMA SlotInvariance ==
  ASSUME ~NoisyBus, InTime
  PROVE  Spec => []SlotInv
<1>1. Inv /\ SlotInv /\ [Next]_vars => SlotInv'
  BY SlotNext
<1> QED BY <1>1, SlotInit, Invariance, PTL DEF Spec

\* The interrupt build drives the bits it was asked for, each at its place
\* and with its own length, although the level of a bit is preloaded by the
\* handler of the pulse before it, and all of them before it completes.
THEOREM IrqSentInOrder ==
  ASSUME ~NoisyBus, InTime
  PROVE  Spec => []SentInOrder
BY SlotInvariance, PTL DEF SlotInv, Sending

\* It begins no time slot beyond the last bit: the edge that ends it, or the
\* handler that serves that edge, comes before the timer starts another.
THEOREM IrqNoExtraPulse ==
  ASSUME ~NoisyBus, InTime
  PROVE  Spec => []NoExtraPulse
BY SlotInvariance, PTL DEF SlotInv, Watched

\* What it returns is what was on the bus: the value was shifted once for
\* every slot, and bit k is decoded from the k-th rising edge.
THEOREM IrqRxDataCorrect ==
  ASSUME ~NoisyBus, InTime
  PROVE  Spec => []RxDataOk
BY SlotInvariance, PTL DEF SlotInv, Receiving

\* It gives up no exchange that goes well: every edge is in the window that
\* decodes to a bit, and none is missed.
THEOREM IrqNoSpuriousError ==
  ASSUME ~NoisyBus, InTime
  PROVE  Spec => []NoSpuriousError
BY SlotInvariance, PTL DEF SlotInv, Receiving
=============================================================================
