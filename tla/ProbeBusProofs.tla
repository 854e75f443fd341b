--------------------------- MODULE ProbeBusProofs ---------------------------
(***************************************************************************)
(* Proofs about ProbeBus, for any devices and any faults.                  *)
(***************************************************************************)
EXTENDS ProbeBus, TLAPS

USE ProbeAssumption
USE DEF Op!Busy, Op!Ready, Op!PROGRESS, Op!COMPLETE, Op!ERROR, Op!Status,
        Probing, Returned, PC

\* Which operation the thread waits for at each place, and who takes part.
Waits ==
  /\ pc = "start" => call = "none"
  /\ pc \in {"overdrive", "normal", "search"} => call = "reset"
  /\ pc \in {"target", "power", "bit"} => call = "io" /\ presence = 1
  /\ pc \in Returned => call # "none" /\ status # Op!PROGRESS
  /\ pc = "normal" => overdrive = 0
  /\ call = "reset" /\ status = Op!COMPLETE =>
       active = Listening /\ Listening # {}

\* What is known while bits are exchanged.
Asked ==
  /\ pc \in {"target", "power", "bit"} => Listening # {}
  /\ pc = "target" /\ (status = Op!PROGRESS
                        \/ (status = Op!COMPLETE /\ value = 1)) =>
       active = Listening
  /\ pc \in {"power", "bit"} => active = Listening
  /\ pc = "bit" /\ status = Op!COMPLETE /\ value >= 0 =>
       value = IF told \intersect Parasite = {} THEN 1 ELSE 0

\* The flag, the mode, and why they are right.
IInv == TypeOK /\ Waits /\ Asked /\ ParasiteFlag /\ ModeReaches

\* The inductive invariant holds at the start.
LEMMA InitIInv == Init => IInv
BY DEF Init, Op!Init, IInv, TypeOK, Op!TypeOK, Waits, Asked, ParasiteFlag,
       ModeReaches, Listening

\* The driver and the devices.
LEMMA DriverStep ==
  ASSUME IInv, ResetEnds \/ IoEnds
  PROVE  IInv'
<1> USE DEF IInv, TypeOK, Op!TypeOK, Waits, Asked, ParasiteFlag, ModeReaches,
            Listening, Fault, NoFault
<1>1. CASE ResetEnds
  BY <1>1 DEF ResetEnds, Op!Finish
<1>2. CASE IoEnds
  <2>1. CASE Exchange /\ status' = Op!COMPLETE
    <3>1. CASE pc = "target"
      BY <1>2, <2>1, <3>1 DEF IoEnds, Exchange, Op!Finish
    <3>2. CASE pc = "power"
      BY <1>2, <2>1, <3>2 DEF IoEnds, Exchange, Op!Finish
    <3>3. CASE pc = "bit"
      BY <1>2, <2>1, <3>3 DEF IoEnds, Exchange, Op!Finish
    <3> QED BY <2>1, <3>1, <3>2, <3>3 DEF Exchange
  <2>2. CASE status' = Op!ERROR
    BY <1>2, <2>2 DEF IoEnds, Op!Finish
  <2> QED BY <1>2, <2>1, <2>2 DEF IoEnds
<1> QED BY <1>1, <1>2

\* The thread, and the search's RESET.
LEMMA ThreadStep ==
  ASSUME IInv, Thread
  PROVE  IInv'
<1> USE DEF IInv, TypeOK, Op!TypeOK, Waits, Asked, ParasiteFlag, ModeReaches,
            Listening, Fault, NoFault, Called, IoSuccess, Present, busVars,
            opVars, Reset, TxBits, End
<1>1. CASE Start
  BY <1>1 DEF Start
<1>2. CASE OverdriveDone
  BY <1>2 DEF OverdriveDone
<1>3. CASE NormalDone
  BY <1>3 DEF NormalDone
<1>4. CASE TargetDone
  BY <1>4 DEF TargetDone
<1>5. CASE PowerDone
  BY <1>5 DEF PowerDone
<1>6. CASE BitDone
  BY <1>6 DEF BitDone
<1>7. CASE ModOneWireReset
  BY <1>7 DEF ModOneWireReset
<1>8. CASE SearchDone
  BY <1>8 DEF SearchDone
<1> QED BY <1>1, <1>2, <1>3, <1>4, <1>5, <1>6, <1>7, <1>8 DEF Thread

\* It holds throughout.
LEMMA Invariance == Spec => []IInv
<1>1. IInv /\ [Next]_vars => IInv'
  <2> SUFFICES ASSUME IInv, [Next]_vars PROVE IInv'
    OBVIOUS
  <2>1. CASE UNCHANGED vars
    BY <2>1 DEF vars, busVars, opVars, IInv, TypeOK, Op!TypeOK, Waits, Asked,
       ParasiteFlag, ModeReaches, Listening
  <2> QED BY <2>1, DriverStep, ThreadStep DEF Next
<1> QED BY <1>1, InitIInv, PTL DEF Spec

\* Whatever fails and in whatever step, a probe that completed has asked every
\* device its mode reaches, its flag is their answer, and no flag is left over.
THEOREM FlagIsTheAnswer == Spec => []ParasiteFlag
BY Invariance, PTL DEF IInv

\* A search after a probe, also one that failed, is heard by somebody if there
\* is anybody on the bus.
THEOREM SearchIsHeard == Spec => []ModeReaches
BY Invariance, PTL DEF IInv

\* The thread keeps the rules of OneWireOp: bits are exchanged only after a
\* PRESENCE and never while an operation is in progress.
THEOREM ProbeKeepsRules == Spec => CallsAllowed
<1>1. IInv /\ [Next]_vars => [Op!Next \/ MarkError]_opVars
  <2> SUFFICES ASSUME IInv, [Next]_vars
               PROVE  Op!Next \/ MarkError \/ UNCHANGED opVars
    OBVIOUS
  <2> USE DEF IInv, TypeOK, Op!TypeOK, Waits, opVars, MarkError, Op!Next
  <2>1. CASE UNCHANGED vars
    BY <2>1 DEF vars
  <2>2. CASE ResetEnds \/ IoEnds
    BY <2>2 DEF ResetEnds, IoEnds
  <2>3. ASSUME NEW od, Op!Ready, Reset(od) PROVE Op!StartReset
    BY <2>3 DEF Reset, Op!StartReset
  <2>4. ASSUME NEW next, Op!Ready, presence = 1, TxBits(next)
        PROVE  Op!StartIo \/ Op!RefuseIo
    BY <2>4 DEF TxBits, Op!StartIo, Op!RefuseIo
  <2>5. ASSUME NEW at, Called(at) PROVE Op!Ready
    BY <2>5 DEF Called
  <2>6. CASE Start
    BY <2>6, <2>3 DEF Start
  <2>7. CASE OverdriveDone
    BY <2>7, <2>3, <2>4, <2>5 DEF OverdriveDone, Present
  <2>8. CASE NormalDone
    BY <2>8, <2>4, <2>5 DEF NormalDone, Present
  <2>9. CASE TargetDone
    BY <2>9, <2>4, <2>5 DEF TargetDone, Called, End
  <2>10. CASE PowerDone
    BY <2>10, <2>4, <2>5 DEF PowerDone, Called, End
  <2>11. CASE BitDone
    BY <2>11, <2>5 DEF BitDone, Called, End, IoSuccess
  <2>12. CASE ModOneWireReset
    BY <2>12, <2>3 DEF ModOneWireReset
  <2>13. CASE SearchDone
    BY <2>13 DEF SearchDone
  <2> QED BY <2>1, <2>2, <2>6, <2>7, <2>8, <2>9, <2>10, <2>11, <2>12, <2>13
         DEF Next, Thread
<1> QED BY <1>1, Invariance, PTL DEF Spec, CallsAllowed
=============================================================================
