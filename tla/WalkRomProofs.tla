---------------------------- MODULE WalkRomProofs ----------------------------
(***************************************************************************)
(* The search of the bus, for ROMs of any length and any devices.  As long *)
(* as what goes wrong is noticed (a RESET without answer, an operation that*)
(* fails), each device is returned once and in order, whatever operations  *)
(* fail and however often.  Of what is not noticed at once the CRC keeps   *)
(* ROMs that are not there from being returned, and no device is lost for  *)
(* a bit that is read wrong.                                               *)
(***************************************************************************)
EXTENDS WalkRom, Crc8Proofs, FiniteSetTheorems

\* Only faults the thread notices.
Noticed == Faults \subseteq {"reset", "io"}

Rom == [1 .. Bits -> {0, 1}]

\* r and s agree below bit n.
Same(r, s, n) == \A j \in 1 .. n - 1 : r[j] = s[j]

\* r goes the other way at bit i, where s takes the 0.
Fork(r, s, i) == Same(r, s, i) /\ s[i] = 0 /\ r[i] = 1

\* The bits of romid this pass has decided are those below.
Decided == IF pc = "write" THEN id_bit_number + 1 ELSE id_bit_number

Walking == pc \in {"reset", "command", "read", "write"}
Over    == pc \in {"start", "ended", "exited"}

\* What the search knows from the passes before: the devices up to the latest
\* were found, and if a device is left it parts from the latest at the last
\* discrepancy.
Latest ==
  /\ latest \in found
  /\ \A r \in found : r = latest \/ Enum!Before(r, latest)
  /\ \A r \in devices : Enum!Before(r, latest) => r \in found
  /\ Same(romid, latest, lastDiscrepancy)
  /\ lastDiscrepancy = 0 => found = devices
  /\ lastDiscrepancy > 0 =>
       /\ \E r \in devices : Fork(r, latest, lastDiscrepancy)
       /\ \A r \in devices :
            Same(r, latest, lastDiscrepancy + 1) => r \in found

Memory ==
  /\ Over => lastDiscrepancy = 0 /\ lastDeviceFlag = 0
  /\ pc = "start" => found = {}
  /\ Walking => lastDeviceFlag = 0
  /\ Walking /\ found # {} => lastDiscrepancy > 0
  /\ pc = "yielded" => found # {} /\ (lastDiscrepancy = 0 => lastDeviceFlag = 1)
  /\ ~Over =>
       /\ found \subseteq devices
       /\ found = {} => lastDiscrepancy = 0 /\ lastDeviceFlag = 0
       /\ found # {} => Latest
       /\ lastDeviceFlag = 1 => found # {} /\ lastDiscrepancy = 0

\* What it knows of this pass: a device that is not on the path was found, or
\* comes after it; and one that was not found and is on the path up to the last
\* zero is on it still.
Pass ==
  /\ pc \in {"reset", "command"} => id_bit_number = 1 /\ last_zero = 0
  /\ pc = "command" => active = devices /\ devices # {}
  /\ pc \in {"read", "write"} =>
       /\ active = {r \in devices : Same(r, romid, id_bit_number)}
       /\ \E r \in devices : Same(r, romid, Decided)
       /\ found # {} /\ Decided > lastDiscrepancy => romid[lastDiscrepancy] = 1
       /\ last_zero < Decided
       /\ last_zero > 0 => \E r \in devices : Fork(r, romid, last_zero)
       /\ \A s \in devices :
            \/ Same(s, romid, Decided)
            \/ s \in found
            \/ \E i \in 1 .. Decided - 1 : Fork(s, romid, i)
       /\ \A s \in devices :
            Same(s, romid, last_zero + 1) => Same(s, romid, Decided) \/ s \in found

IInv == TypeOK /\ Memory /\ Pass

-----------------------------------------------------------------------------
\* The order of the ROMs.
LEMMA BeforeIsStrict ==
  ASSUME NEW r \in Rom, NEW s \in Rom, Enum!Before(r, s)
  PROVE  r # s /\ ~Enum!Before(s, r)
<1>. USE RomAssumption
<1>1. PICK i \in 1 .. Bits : /\ r[i] = 0 /\ s[i] = 1
                             /\ \A k \in 1 .. i - 1 : r[k] = s[k]
  BY DEF Enum!Before
<1>2. ASSUME NEW j \in 1 .. Bits, s[j] = 0, r[j] = 1,
             \A k \in 1 .. j - 1 : s[k] = r[k]
      PROVE  FALSE
  <2>1. i < j \/ j < i \/ i = j
    OBVIOUS
  <2>2. QED BY <1>1, <1>2, <2>1
<1>3. QED BY <1>1, <1>2 DEF Enum!Before

LEMMA BeforeIsTransitive ==
  ASSUME NEW r \in Rom, NEW s \in Rom, NEW t \in Rom,
         Enum!Before(r, s), Enum!Before(s, t)
  PROVE  Enum!Before(r, t)
<1>. USE RomAssumption
<1>1. PICK i \in 1 .. Bits : /\ r[i] = 0 /\ s[i] = 1
                             /\ \A k \in 1 .. i - 1 : r[k] = s[k]
  BY DEF Enum!Before
<1>2. PICK j \in 1 .. Bits : /\ s[j] = 0 /\ t[j] = 1
                             /\ \A k \in 1 .. j - 1 : s[k] = t[k]
  BY DEF Enum!Before
<1>3. CASE i < j
  <2>1. r[i] = 0 /\ t[i] = 1 /\ \A k \in 1 .. i - 1 : r[k] = t[k]
    BY <1>1, <1>2, <1>3
  <2>2. QED BY <2>1 DEF Enum!Before
<1>4. CASE j < i
  <2>1. r[j] = 0 /\ t[j] = 1 /\ \A k \in 1 .. j - 1 : r[k] = t[k]
    BY <1>1, <1>2, <1>4
  <2>2. QED BY <2>1 DEF Enum!Before
<1>5. i # j
  BY <1>1, <1>2
<1>6. QED BY <1>3, <1>4, <1>5

LEMMA ForkIsBefore ==
  ASSUME NEW r \in Rom, NEW s \in Rom, NEW i \in 1 .. Bits, Fork(r, s, i)
  PROVE  Enum!Before(s, r)
BY RomAssumption DEF Fork, Same, Enum!Before, Rom

\* A ROM is its bits.
LEMMA SameIsEqual ==
  ASSUME NEW r \in Rom, NEW s \in Rom, Same(r, s, Bits + 1)
  PROVE  r = s
BY RomAssumption DEF Same, Rom

LEMMA StateIs ==
  ASSUME pc \in PC
  PROVE  /\ State = "found" <=> pc = "yielded"
         /\ State = "over" <=> Over
         /\ State = "walking" <=> Walking
BY DEF State, PC, Over, Walking

LEMMA NextStateIs ==
  ASSUME pc' \in PC
  PROVE  /\ State' = "found" <=> pc' = "yielded"
         /\ State' = "over" <=> pc' \in {"start", "ended", "exited"}
         /\ State' = "walking" <=> pc' \in {"reset", "command", "read", "write"}
BY DEF State, PC

-----------------------------------------------------------------------------
\* Types.
LEMMA RomTypes ==
  ASSUME TypeOK
  PROVE  /\ Enum!Rom = Rom /\ devices \subseteq Rom /\ active \subseteq Rom
         /\ romid \in Rom /\ latest \in Rom /\ found \subseteq Rom
BY RomAssumption DEF TypeOK, Rom, Enum!Rom

LEMMA FaultType ==
  ASSUME TypeOK, NEW k, Fault(k) \/ NoFault
  PROVE  FaultsOK'
<1>1. faults \in 0 .. MaxFaults /\ misheard \in BOOLEAN
  BY DEF TypeOK, FaultsOK
<1>2. faults' \in 0 .. MaxFaults
  BY <1>1, FaultAssumption DEF Fault, NoFault
<1>3. misheard' \in BOOLEAN
  BY <1>1, Zenon DEF Fault, NoFault
<1>4. QED BY <1>2, <1>3 DEF FaultsOK

LEMMA BeginPassType ==
  ASSUME TypeOK, BeginPass
  PROVE  pc' \in PC /\ id_bit_number' \in 1 .. Bits /\ last_zero' \in 0 .. Bits
BY RomAssumption DEF BeginPass, PC

LEMMA RetryType ==
  ASSUME TypeOK, Retry, UNCHANGED devices, FaultsOK'
  PROVE  TypeOK'
BY BeginPassType DEF Retry, TypeOK, context, history, Enum!Rom

LEMMA DirectionIsBit ==
  ASSUME TypeOK, NEW b \in {0, 1}, NEW c \in {0, 1}
  PROVE  Direction(b, c) \in {0, 1}
BY RomTypes DEF Direction, Rom, TypeOK

LEMMA EndPassType ==
  ASSUME TypeOK, EndPass, UNCHANGED devices, active' \subseteq devices,
         FaultsOK'
  PROVE  TypeOK'
<1>1. ASSUME BeginPass, UNCHANGED <<context, history>>
      PROVE  TypeOK'
  BY <1>1, BeginPassType DEF TypeOK, context, history, Enum!Rom
<1>2. ASSUME InitWalkROM, pc' = "ended",
             UNCHANGED <<id_bit_number, last_zero, romid, history>>
      PROVE  TypeOK'
  BY <1>2, RomAssumption DEF InitWalkROM, TypeOK, history, PC, Enum!Rom
<1>3. ASSUME lastDiscrepancy' = last_zero,
             lastDeviceFlag' = IF last_zero = 0 THEN 1 ELSE lastDeviceFlag,
             pc' = "yielded",
             found' = found \union {romid}, latest' = romid,
             UNCHANGED <<id_bit_number, last_zero, romid>>
      PROVE  TypeOK'
  BY <1>3 DEF TypeOK, PC, Enum!Rom
<1>4. QED BY <1>1, <1>2, <1>3 DEF EndPass

LEMMA InitType == Init => TypeOK
<1>. SUFFICES ASSUME Init PROVE TypeOK
  OBVIOUS
<1>1. faults \in 0 .. MaxFaults
  BY FaultAssumption DEF Init
<1>2. FaultsOK
  BY <1>1, Zenon DEF Init, FaultsOK
<1>3. QED BY <1>2, RomAssumption DEF Init, TypeOK, PC, Enum!Rom

LEMMA TypeStep ==
  ASSUME TypeOK, [Next]_vars
  PROVE  TypeOK'
<1>. USE RomAssumption, FaultAssumption
<1>1. CASE Start
  <2>1. FaultsOK'
    BY <1>1, FaultType DEF Start
  <2>2. QED BY <1>1, <2>1, BeginPassType DEF Start, TypeOK, context, Enum!Rom
<1>2. CASE Resume
  <2>1. FaultsOK'
    BY <1>2, FaultType DEF Resume
  <2>2. CASE Retry
    BY <1>2, <2>1, <2>2, RetryType DEF Resume
  <2>3. CASE ~Retry
    BY <1>2, <2>1, <2>3 DEF Resume, InitWalkROM, TypeOK, history, PC, Enum!Rom
  <2>4. QED BY <2>2, <2>3
<1>3. CASE ResetDone
  <2>1. FaultsOK'
    BY <1>3, FaultType DEF ResetDone
  <2>2. QED BY <1>3, <2>1 DEF ResetDone, InitWalkROM, TypeOK, context, history,
                             PC, Enum!Rom
<1>4. CASE CommandDone
  <2>1. FaultsOK'
    BY <1>4, FaultType DEF CommandDone
  <2>2. CASE Retry
    BY <1>4, <2>1, <2>2, RetryType DEF CommandDone
  <2>3. CASE ~Retry
    BY <1>4, <2>1, <2>3 DEF CommandDone, TypeOK, context, history, PC, Enum!Rom
  <2>4. QED BY <2>2, <2>3
<1>5. CASE ReadDone
  <2>1. ASSUME NEW b \in {0, 1}, NEW c \in {0, 1}, Read(b, c)
        PROVE  FaultsOK'
    BY <2>1, FaultType DEF Read
  <2>2. CASE Retry
    <3>1. FaultsOK'
      BY <1>5, <2>1, FaultType DEF ReadDone
    <3>2. QED BY <1>5, <2>2, <3>1, RetryType DEF ReadDone
  <2>3. CASE ~Retry
    <3>1. PICK pair \in {<<0, 0>>, <<0, 1>>, <<1, 0>>} :
            /\ Read(pair[1], pair[2])
            /\ romid' = RomBit(Direction(pair[1], pair[2]))
            /\ last_zero' = IF pair = <<0, 0>> /\ Direction(pair[1], pair[2]) = 0
                            THEN id_bit_number ELSE last_zero
            /\ pc' = "write"
            /\ UNCHANGED <<active, id_bit_number, lastDiscrepancy,
                           lastDeviceFlag, history>>
      BY <1>5, <2>3 DEF ReadDone
    <3>2. pair[1] \in {0, 1} /\ pair[2] \in {0, 1}
      OBVIOUS
    <3>3. FaultsOK'
      BY <2>1, <3>1, <3>2
    <3>4. romid' \in Rom
      BY <3>1, <3>2, DirectionIsBit, RomTypes DEF RomBit, Rom
    <3>5. QED BY <1>5, <3>1, <3>3, <3>4, RomTypes
              DEF ReadDone, TypeOK, history, PC
  <2>4. QED BY <2>2, <2>3
<1>6. CASE WriteDone
  <2>1. CASE Fault("io") /\ Retry
    <3>1. FaultsOK'
      BY <2>1, FaultType
    <3>2. QED BY <1>6, <2>1, <3>1, RetryType DEF WriteDone
  <2>2. ASSUME NEW bit \in {0, 1}, Hear(bit)
        PROVE  FaultsOK' /\ active' \subseteq devices
    <3>1. FaultsOK'
      BY <2>2, FaultType DEF Hear
    <3>2. QED BY <2>2, <3>1 DEF Hear, TypeOK
  <2>3. CASE ~(Fault("io") /\ Retry)
    <3>1. PICK bit \in {0, 1} : Hear(bit)
      BY <1>6, <2>3 DEF WriteDone
    <3>2. CASE RomDone
      BY <1>6, <2>2, <2>3, <3>1, <3>2, EndPassType DEF WriteDone
    <3>3. CASE ~RomDone
      BY <1>6, <2>2, <2>3, <3>1, <3>3
      DEF WriteDone, RomDone, TypeOK, context, history, PC, Enum!Rom
    <3>4. QED BY <3>2, <3>3
  <2>4. QED BY <2>1, <2>3
<1>7. CASE UNCHANGED vars
  <2>1. FaultsOK'
    BY <1>7, FaultType DEF vars, NoFault
  <2>2. QED BY <1>7, <2>1 DEF vars, context, history, TypeOK, Enum!Rom
<1>8. QED BY <1>1, <1>2, <1>3, <1>4, <1>5, <1>6, <1>7 DEF Next, Step

\* The variables keep their types, whatever goes wrong: no bit beyond the last
\* is written.
THEOREM SearchTypeCorrect == Spec => []TypeOK
<1>1. Init => TypeOK
  BY InitType
<1>2. QED BY <1>1, TypeStep, PTL DEF Spec

-----------------------------------------------------------------------------
\* The passes.  What is seen of a fault is that the operation failed.
LEMMA LatestStays ==
  ASSUME Latest, UNCHANGED <<devices, romid, lastDiscrepancy, found, latest>>
  PROVE  Latest'
BY DEF Latest, Same, Fork

\* "Repeat procedure from original point".
LEMMA RetryKeeps ==
  ASSUME IInv, BeginPass, UNCHANGED <<devices, context, history>>,
         Walking \/ (pc = "yielded" /\ lastDeviceFlag = 0)
  PROVE  Memory' /\ Pass'
<1>1. pc' = "reset" /\ id_bit_number' = 1 /\ last_zero' = 0
  BY DEF BeginPass
<1>2. UNCHANGED <<devices, romid, lastDiscrepancy, lastDeviceFlag, found, latest>>
  BY DEF context, history
<1>3. found # {} => Latest
  BY DEF IInv, Memory, Walking, Over
<1>4. found' # {} => Latest'
  BY <1>2, <1>3, LatestStays
<1>5. lastDiscrepancy \in Nat
  BY RomAssumption DEF IInv, TypeOK
<1>6. Memory'
  BY <1>1, <1>2, <1>4, <1>5 DEF IInv, Memory, Walking, Over
<1>7. QED BY <1>1, <1>6 DEF Pass

LEMMA StartKeeps ==
  ASSUME IInv, Start
  PROVE  Memory' /\ Pass' /\ Enum!Next
<1>1. /\ pc' = "reset" /\ id_bit_number' = 1 /\ last_zero' = 0
      /\ found' = {} /\ Over
      /\ UNCHANGED <<devices, romid, lastDiscrepancy, lastDeviceFlag>>
  BY DEF Start, BeginPass, context, Over
<1>2. Memory'
  BY <1>1 DEF IInv, Memory, Walking, Over
<1>3. Pass'
  BY <1>1 DEF Pass
<1>4. State = "over" /\ State' = "walking"
  BY <1>1, StateIs, NextStateIs DEF IInv, TypeOK, PC
<1>5. QED BY <1>1, <1>2, <1>3, <1>4 DEF Enum!Next, Enum!Start

LEMMA ResumeKeeps ==
  ASSUME IInv, Resume
  PROVE  Memory' /\ Pass' /\ Enum!Next
<1>1. State = "found" /\ devices' = devices
  BY StateIs DEF Resume, IInv, TypeOK
<1>2. CASE lastDeviceFlag = 0
  <2>1. Retry
    BY <1>2 DEF Resume
  <2>2. Memory' /\ Pass'
    BY <1>1, <1>2, <2>1, RetryKeeps DEF Resume, Retry
  <2>3. State' = "walking" /\ found' = found
    BY <2>1, NextStateIs DEF Retry, BeginPass, history, PC
  <2>4. QED BY <1>1, <2>2, <2>3 DEF Enum!Next, Enum!Continue
<1>3. CASE lastDeviceFlag = 1
  <2>1. /\ pc' = "ended" /\ lastDiscrepancy' = 0 /\ lastDeviceFlag' = 0
        /\ found' = found
    BY <1>3 DEF Resume, InitWalkROM, history
  <2>2. found = devices
    BY <1>3 DEF IInv, Memory, Latest, Resume, Over
  <2>3. State' = "over"
    BY <2>1, NextStateIs DEF PC
  <2>4. Memory' /\ Pass'
    BY <2>1 DEF Memory, Pass, Over, Walking
  <2>5. QED BY <1>1, <2>1, <2>2, <2>3, <2>4 DEF Enum!Next, Enum!Finish
<1>4. QED BY <1>2, <1>3 DEF IInv, TypeOK

\* A retry is not seen by who asked for a device.
LEMMA RetryUnseen ==
  ASSUME IInv, BeginPass, Walking, UNCHANGED <<devices, context, history>>
  PROVE  UNCHANGED Enum!vars
<1>1. State = "walking"
  BY StateIs DEF IInv, TypeOK
<1>2. State' = "walking" /\ found' = found
  BY NextStateIs DEF BeginPass, history, PC
<1>3. QED BY <1>1, <1>2 DEF Enum!vars

LEMMA ResetDoneKeeps ==
  ASSUME IInv, ResetDone
  PROVE  Memory' /\ Pass' /\ (Enum!Next \/ UNCHANGED Enum!vars)
<1>1. /\ pc = "reset" /\ State = "walking"
      /\ UNCHANGED <<devices, id_bit_number, last_zero, found, latest>>
  BY StateIs DEF ResetDone, IInv, TypeOK, history, Walking
<1>2. CASE pc' = "command"
  <2>1. /\ devices # {} /\ active' = devices
        /\ UNCHANGED <<romid, lastDiscrepancy, lastDeviceFlag>>
    BY <1>2 DEF ResetDone, context
  <2>2. found' # {} => Latest'
    BY <1>1, <2>1, LatestStays DEF IInv, Memory, Over
  <2>3. Memory'
    BY <1>1, <1>2, <2>1, <2>2 DEF IInv, Memory, Walking, Over
  <2>4. Pass'
    BY <1>1, <1>2, <2>1 DEF IInv, Pass
  <2>5. State' = "walking"
    BY <1>2, NextStateIs DEF PC
  <2>6. QED BY <1>1, <2>3, <2>4, <2>5 DEF Enum!vars
<1>3. CASE pc' = "exited"
  <2>1. lastDiscrepancy' = 0 /\ lastDeviceFlag' = 0
    BY <1>3 DEF ResetDone, InitWalkROM
  <2>2. Memory' /\ Pass'
    BY <1>3, <2>1 DEF Memory, Pass, Over, Walking
  <2>3. State' = "over"
    BY <1>3, NextStateIs DEF PC
  <2>4. QED BY <1>1, <2>2, <2>3 DEF Enum!Next, Enum!Answer, Enum!GiveUp
<1>4. QED BY <1>2, <1>3 DEF ResetDone

LEMMA CommandDoneKeeps ==
  ASSUME IInv, CommandDone
  PROVE  Memory' /\ Pass' /\ UNCHANGED Enum!vars
<1>1. Walking /\ pc = "command" /\ devices' = devices
  BY DEF CommandDone, Walking
<1>2. CASE Retry
  BY <1>1, <1>2, RetryKeeps, RetryUnseen DEF Retry
<1>3. CASE ~Retry
  <2>1. /\ pc' = "read"
        /\ UNCHANGED <<active, id_bit_number, last_zero, romid, lastDiscrepancy,
                      lastDeviceFlag, found, latest>>
    BY <1>3 DEF CommandDone, context, history
  <2>2. id_bit_number = 1 /\ last_zero = 0 /\ active = devices /\ devices # {}
    BY <1>1 DEF IInv, Pass
  <2>3. found' # {} => Latest'
    BY <1>1, <2>1, LatestStays DEF IInv, Memory, Over
  <2>4. Memory'
    BY <1>1, <2>1, <2>3 DEF IInv, Memory, Walking, Over
  <2>5. Decided' = 1
    BY <2>1, <2>2 DEF Decided
  <2>6. found # {} => lastDiscrepancy > 0 /\ lastDiscrepancy \in Nat
    BY <1>1, RomAssumption DEF IInv, Memory, TypeOK
  <2>7. \A r : Same(r, romid', 1)
    BY DEF Same
  <2>8. Pass'
    BY <1>1, <2>1, <2>2, <2>5, <2>6, <2>7 DEF Pass
  <2>9. State = "walking" /\ State' = "walking"
    BY <1>1, <2>1, StateIs, NextStateIs DEF IInv, TypeOK, PC
  <2>10. QED BY <1>1, <2>1, <2>4, <2>8, <2>9 DEF Enum!vars
<1>4. QED BY <1>2, <1>3

-----------------------------------------------------------------------------
\* A bit.  The direction d goes to a device; where a device was found before it
\* follows the latest up to the last discrepancy, turns there to the 1, and what
\* it leaves aside on a 0 was found.
LEMMA DirectionIsGood ==
  ASSUME IInv, Noticed, pc = "read",
         NEW b \in {0, 1}, NEW c \in {0, 1}, ~(b = 1 /\ c = 1), Read(b, c),
         NEW d, d = Direction(b, c)
  PROVE  /\ d \in {0, 1} /\ NoFault
         /\ \E r \in active : r[id_bit_number] = d
         /\ found # {} /\ id_bit_number < lastDiscrepancy =>
              d = latest[id_bit_number]
         /\ found # {} /\ id_bit_number = lastDiscrepancy => d = 1
         /\ \A s \in active : s[id_bit_number] = 0 /\ d = 1 => s \in found
         /\ b = 0 /\ c = 0 => \E r \in active : r[id_bit_number] = 1
         /\ ~(b = 0 /\ c = 0) => \A s \in active : s[id_bit_number] = d
<1>. DEFINE n == id_bit_number
<1>1. n \in 1 .. Bits /\ lastDiscrepancy \in 0 .. Bits /\ Bits \in Nat
  BY RomAssumption DEF IInv, TypeOK
<1>2. /\ active = {r \in devices : Same(r, romid, n)}
      /\ active # {}
  BY DEF IInv, Pass, Decided
<1>3. \A r \in active : r \in Rom /\ r[n] \in {0, 1}
  BY <1>1, RomTypes DEF IInv, Rom
<1>4. b = WiredAnd(1) /\ c = WiredAnd(0) /\ NoFault
  BY DEF Read, Fault, Noticed
<1>5. d \in {0, 1}
  BY DirectionIsBit DEF IInv
<1>6. b = 0 /\ c = 0 =>
        (\E r \in active : r[n] = 1) /\ (\E r \in active : r[n] = 0)
  BY <1>3, <1>4 DEF WiredAnd
<1>7. ~(b = 0 /\ c = 0) => d = b /\ \A s \in active : s[n] = d
  BY <1>3, <1>4 DEF WiredAnd, Direction
<1>8. \E r \in active : r[n] = d
  BY <1>2, <1>5, <1>6, <1>7
<1>9. ASSUME found # {}
      PROVE  Latest /\ found \subseteq devices /\ lastDiscrepancy > 0
  BY <1>9 DEF IInv, Memory, Over, Walking
<1>10. ASSUME found # {}, n <= lastDiscrepancy
       PROVE  latest \in active
  <2>1. Same(romid, latest, lastDiscrepancy) /\ latest \in devices
    BY <1>9, <1>10 DEF Latest
  <2>2. Same(latest, romid, n)
    BY <1>1, <1>10, <2>1 DEF Same
  <2>3. QED BY <1>2, <2>1, <2>2
<1>11. ASSUME found # {}, n < lastDiscrepancy
       PROVE  d = latest[n] /\ romid[n] = latest[n]
  <2>1. romid[n] = latest[n]
    BY <1>1, <1>9, <1>11 DEF Latest, Same
  <2>2. CASE b = 0 /\ c = 0
    BY <1>1, <1>11, <2>1, <2>2 DEF Direction
  <2>3. CASE ~(b = 0 /\ c = 0)
    BY <1>1, <1>7, <1>10, <1>11, <2>1, <2>3
  <2>4. QED BY <2>2, <2>3
<1>12. ASSUME found # {}, n = lastDiscrepancy
       PROVE  d = 1 /\ latest[n] = 0
  <2>1. PICK r \in devices : Fork(r, latest, n)
    BY <1>9, <1>12 DEF Latest
  <2>2. Same(r, romid, n)
    BY <1>1, <1>9, <1>12, <2>1 DEF Latest, Fork, Same
  <2>3. r \in active /\ r[n] = 1 /\ latest[n] = 0
    BY <1>2, <2>1, <2>2 DEF Fork
  <2>4. latest \in active
    BY <1>1, <1>10, <1>12
  <2>5. b = 0 /\ c = 0
    BY <1>7, <2>3, <2>4
  <2>6. QED BY <1>1, <1>12, <2>3, <2>5 DEF Direction
<1>13. ASSUME NEW s \in active, s[n] = 0, d = 1
       PROVE  s \in found
  <2>1. b = 0 /\ c = 0
    BY <1>7, <1>13
  <2>2. n <= lastDiscrepancy
    BY <1>1, <1>13, <2>1 DEF Direction
  <2>3. found # {}
    BY <1>1, <2>2 DEF IInv, Memory, Over
  <2>4. Same(s, latest, n) /\ s \in devices
    BY <1>1, <1>2, <1>9, <2>2, <2>3 DEF Latest, Same
  <2>5. CASE n < lastDiscrepancy
    <3>1. latest[n] = 1
      BY <1>11, <1>13, <2>3, <2>5
    <3>2. Enum!Before(s, latest)
      BY <1>1, <1>13, <2>4, <3>1 DEF Same, Enum!Before
    <3>3. QED BY <1>9, <2>3, <2>4, <3>2 DEF Latest
  <2>6. CASE n = lastDiscrepancy
    <3>1. Same(s, latest, lastDiscrepancy + 1)
      BY <1>1, <1>12, <1>13, <2>3, <2>4, <2>6 DEF Same
    <3>2. QED BY <1>9, <2>3, <2>4, <3>1 DEF Latest
  <2>7. QED BY <1>1, <2>2, <2>5, <2>6
<1>14. QED BY <1>4, <1>5, <1>6, <1>7, <1>8, <1>11, <1>12, <1>13

\* Writing a bit changes the path from there on only.
LEMMA RomBitPath ==
  ASSUME TypeOK, NEW d \in {0, 1}, romid' = RomBit(d), NEW r
  PROVE  /\ \A m \in 0 .. id_bit_number :
              Same(r, romid', m) <=> Same(r, romid, m)
         /\ Same(r, romid', id_bit_number + 1) <=>
              Same(r, romid, id_bit_number) /\ r[id_bit_number] = d
         /\ \A i \in 1 .. id_bit_number - 1 :
              Fork(r, romid', i) <=> Fork(r, romid, i)
         /\ Fork(r, romid', id_bit_number) <=>
              Same(r, romid, id_bit_number) /\ d = 0 /\ r[id_bit_number] = 1
<1>. DEFINE n == id_bit_number
<1>1. /\ romid \in Rom /\ n \in 1 .. Bits /\ Bits \in Nat
      /\ romid' = [romid EXCEPT ![n] = d]
  BY RomAssumption, RomTypes DEF TypeOK, RomBit
<1>2. romid'[n] = d /\ \A j \in 1 .. n - 1 : romid'[j] = romid[j]
  BY <1>1 DEF Rom
<1>3. \A m \in 0 .. n : Same(r, romid', m) <=> Same(r, romid, m)
  BY <1>1, <1>2 DEF Same
<1>4. Same(r, romid', n + 1) <=> Same(r, romid, n) /\ r[n] = d
  BY <1>1, <1>2 DEF Same
<1>5. \A i \in 1 .. n - 1 : Fork(r, romid', i) <=> Fork(r, romid, i)
  BY <1>1, <1>2 DEF Fork, Same
<1>6. Fork(r, romid', n) <=> Same(r, romid, n) /\ d = 0 /\ r[n] = 1
  BY <1>1, <1>2 DEF Fork, Same
<1>7. QED BY <1>3, <1>4, <1>5, <1>6

LEMMA ReadBitKeeps ==
  ASSUME IInv, Noticed, pc = "read", UNCHANGED devices,
         NEW b \in {0, 1}, NEW c \in {0, 1}, ~(b = 1 /\ c = 1), Read(b, c),
         romid' = RomBit(Direction(b, c)),
         last_zero' = IF b = 0 /\ c = 0 /\ Direction(b, c) = 0
                      THEN id_bit_number ELSE last_zero,
         pc' = "write",
         UNCHANGED <<active, id_bit_number, lastDiscrepancy, lastDeviceFlag,
                     history>>
  PROVE  Memory' /\ Pass'
<1>. DEFINE n == id_bit_number
            d == Direction(b, c)
<1>1. /\ n \in 1 .. Bits /\ lastDiscrepancy \in 0 .. Bits
      /\ last_zero \in 0 .. n - 1 /\ Bits \in Nat
  BY RomAssumption DEF IInv, TypeOK, Pass, Decided
<1>2. /\ d \in {0, 1}
      /\ \E r \in active : r[n] = d
      /\ found # {} /\ n < lastDiscrepancy => d = latest[n]
      /\ found # {} /\ n = lastDiscrepancy => d = 1
      /\ \A s \in active : s[n] = 0 /\ d = 1 => s \in found
      /\ b = 0 /\ c = 0 => \E r \in active : r[n] = 1
      /\ ~(b = 0 /\ c = 0) => \A s \in active : s[n] = d
  BY DirectionIsGood
<1>3. /\ active = {r \in devices : Same(r, romid, n)}
      /\ found # {} /\ n > lastDiscrepancy => romid[lastDiscrepancy] = 1
      /\ last_zero > 0 => \E r \in devices : Fork(r, romid, last_zero)
      /\ \A s \in devices :
           \/ Same(s, romid, n)
           \/ s \in found
           \/ \E i \in 1 .. n - 1 : Fork(s, romid, i)
      /\ \A s \in devices :
           Same(s, romid, last_zero + 1) => Same(s, romid, n) \/ s \in found
  BY DEF IInv, Pass, Decided
<1>4. /\ romid \in Rom /\ romid' = [romid EXCEPT ![n] = d]
      /\ \A s \in devices : s[n] \in {0, 1}
  BY <1>1, RomTypes DEF IInv, RomBit, Rom
<1>5. /\ romid'[n] = d
      /\ \A i \in 1 .. Bits : i # n => romid'[i] = romid[i]
  BY <1>1, <1>4 DEF Rom
<1>6. \A r : /\ \A m \in 0 .. n : Same(r, romid', m) <=> Same(r, romid, m)
             /\ Same(r, romid', n + 1) <=> Same(r, romid, n) /\ r[n] = d
             /\ \A i \in 1 .. n - 1 : Fork(r, romid', i) <=> Fork(r, romid, i)
             /\ Fork(r, romid', n) <=>
                  Same(r, romid, n) /\ d = 0 /\ r[n] = 1
  BY <1>2, RomBitPath DEF IInv
<1>7. UNCHANGED <<devices, id_bit_number, lastDiscrepancy, lastDeviceFlag, found,
                  latest>>
  BY DEF history
<1>. HIDE DEF d
<1>8. ASSUME found # {}
      PROVE  Latest'
  <2>1. Latest
    BY <1>8 DEF IInv, Memory, Over
  <2>2. Same(romid', latest, lastDiscrepancy)
    BY <1>1, <1>2, <1>5, <1>8, <2>1 DEF Latest, Same
  <2>3. QED BY <1>7, <2>1, <2>2 DEF Latest, Same, Fork
<1>9. Memory'
  BY <1>7, <1>8 DEF IInv, Memory, Walking, Over
<1>10. Decided' = n + 1
  BY <1>7 DEF Decided
<1>11. active' = {r \in devices' : Same(r, romid', n)}
  BY <1>1, <1>3, <1>6, <1>7
<1>12. \E r \in devices' : Same(r, romid', n + 1)
  BY <1>2, <1>3, <1>6, <1>7
<1>13. found' # {} /\ n + 1 > lastDiscrepancy' => romid'[lastDiscrepancy'] = 1
  <2>1. CASE lastDiscrepancy = n
    BY <1>2, <1>5, <1>7, <2>1
  <2>2. CASE lastDiscrepancy < n
    <3>1. found # {} => lastDiscrepancy > 0
      BY DEF IInv, Memory, Walking
    <3>2. QED BY <1>1, <1>3, <1>5, <1>7, <2>2, <3>1
  <2>3. QED BY <1>1, <1>7, <2>1, <2>2
<1>14. last_zero' \in 0 .. n
  BY <1>1
<1>15. last_zero' > 0 => \E r \in devices' : Fork(r, romid', last_zero')
  <2>1. CASE b = 0 /\ c = 0 /\ d = 0
    <3>1. last_zero' = n
      BY <2>1 DEF d
    <3>2. QED BY <1>2, <1>3, <1>6, <1>7, <2>1, <3>1
  <2>2. CASE ~(b = 0 /\ c = 0 /\ d = 0)
    <3>1. last_zero' = last_zero
      BY <2>2 DEF d
    <3>2. QED BY <1>1, <1>3, <1>6, <1>7, <3>1
  <2>3. QED BY <2>1, <2>2
<1>16. ASSUME NEW s \in devices
       PROVE  \/ Same(s, romid', n + 1)
              \/ s \in found
              \/ \E i \in 1 .. n : Fork(s, romid', i)
  <2>1. CASE Same(s, romid, n)
    <3>1. s \in active
      BY <1>3, <2>1
    <3>2. CASE s[n] = d
      BY <1>6, <2>1, <3>2
    <3>3. CASE s[n] # d
      <4>1. CASE s[n] = 1 /\ d = 0
        <5>1. Fork(s, romid', n) /\ n \in 1 .. n
          BY <1>1, <1>6, <2>1, <4>1
        <5>2. QED BY <5>1
      <4>2. CASE s[n] = 0 /\ d = 1
        BY <1>2, <3>1, <4>2
      <4>3. QED BY <1>2, <1>4, <3>3, <4>1, <4>2
    <3>4. QED BY <3>2, <3>3
  <2>2. CASE \E i \in 1 .. n - 1 : Fork(s, romid, i)
    BY <1>1, <1>6, <2>2
  <2>3. QED BY <1>3, <2>1, <2>2
<1>17. ASSUME NEW s \in devices, Same(s, romid', last_zero' + 1)
       PROVE  Same(s, romid', n + 1) \/ s \in found
  <2>1. CASE b = 0 /\ c = 0 /\ d = 0
    BY <1>17, <2>1 DEF d
  <2>2. CASE ~(b = 0 /\ c = 0 /\ d = 0)
    <3>1. last_zero' = last_zero
      BY <2>2 DEF d
    <3>2. Same(s, romid, last_zero + 1)
      BY <1>1, <1>6, <1>17, <3>1
    <3>3. Same(s, romid, n) \/ s \in found
      BY <1>3, <3>2
    <3>4. CASE Same(s, romid, n)
      <4>1. s \in active
        BY <1>3, <3>4
      <4>2. s[n] = d \/ (s[n] = 0 /\ d = 1)
        BY <1>2, <1>4, <2>2, <4>1
      <4>3. QED BY <1>2, <1>6, <3>4, <4>1, <4>2
    <3>5. QED BY <3>3, <3>4
  <2>3. QED BY <2>1, <2>2
<1>18. Pass'
  BY <1>1, <1>7, <1>10, <1>11, <1>12, <1>13, <1>14, <1>15, <1>16, <1>17 DEF Pass
<1>19. QED BY <1>9, <1>18

LEMMA ReadDoneKeeps ==
  ASSUME IInv, Noticed, ReadDone
  PROVE  Memory' /\ Pass' /\ UNCHANGED Enum!vars
<1>1. Walking /\ pc = "read" /\ devices' = devices
  BY DEF ReadDone, Walking
<1>2. CASE Retry
  BY <1>1, <1>2, RetryKeeps, RetryUnseen DEF Retry
<1>3. CASE ~Retry
  <2>1. PICK pair \in {<<0, 0>>, <<0, 1>>, <<1, 0>>} :
          /\ Read(pair[1], pair[2])
          /\ romid' = RomBit(Direction(pair[1], pair[2]))
          /\ last_zero' = IF pair = <<0, 0>> /\ Direction(pair[1], pair[2]) = 0
                          THEN id_bit_number ELSE last_zero
          /\ pc' = "write"
          /\ UNCHANGED <<active, id_bit_number, lastDiscrepancy,
                         lastDeviceFlag, history>>
    BY <1>3 DEF ReadDone
  <2>2. /\ pair[1] \in {0, 1} /\ pair[2] \in {0, 1}
        /\ ~(pair[1] = 1 /\ pair[2] = 1)
        /\ pair = <<0, 0>> <=> pair[1] = 0 /\ pair[2] = 0
    OBVIOUS
  <2>3. Memory' /\ Pass'
    BY <1>1, <2>1, <2>2, ReadBitKeeps
  <2>4. State = "walking" /\ State' = "walking"
    BY <1>1, <2>1, StateIs, NextStateIs DEF IInv, TypeOK, PC
  <2>5. found' = found
    BY <2>1 DEF history
  <2>6. QED BY <1>1, <2>3, <2>4, <2>5 DEF Enum!vars
<1>4. QED BY <1>2, <1>3

-----------------------------------------------------------------------------
\* The end of a pass: the device it went to is the next one.
LEMMA PassIsDue ==
  ASSUME IInv, pc = "write", RomDone
  PROVE  /\ romid \in Rom /\ Enum!Due(romid)
         /\ \A r \in found : Enum!Before(r, romid)
<1>1. /\ Decided = Bits + 1 /\ Bits \in Nat \ {0}
      /\ lastDiscrepancy \in 0 .. Bits
  BY RomAssumption DEF Decided, RomDone, IInv, TypeOK
<1>2. /\ romid \in Rom /\ latest \in Rom
      /\ devices \subseteq Rom /\ found \subseteq Rom
  BY RomTypes DEF IInv
<1>3. romid \in devices
  <2>1. PICK r \in devices : Same(r, romid, Bits + 1)
    BY <1>1 DEF IInv, Pass
  <2>2. QED BY <1>2, <2>1, SameIsEqual
<1>4. ASSUME NEW r \in found
      PROVE  Enum!Before(r, romid)
  <2>1. Latest /\ lastDiscrepancy > 0
    BY <1>4 DEF IInv, Memory, Over, Walking
  <2>2. romid[lastDiscrepancy] = 1
    BY <1>1, <1>4 DEF IInv, Pass
  <2>3. Same(romid, latest, lastDiscrepancy) /\ latest[lastDiscrepancy] = 0
    BY <2>1 DEF Latest, Fork
  <2>4. Enum!Before(latest, romid)
    BY <1>1, <2>1, <2>2, <2>3 DEF Enum!Before, Same
  <2>5. r = latest \/ Enum!Before(r, latest)
    BY <1>4, <2>1 DEF Latest
  <2>6. QED BY <1>2, <2>4, <2>5, BeforeIsTransitive
<1>5. romid \notin found
  BY <1>2, <1>4, BeforeIsStrict
<1>6. ASSUME NEW s \in devices \ found
      PROVE  s = romid \/ Enum!Before(romid, s)
  <2>1. \/ Same(s, romid, Bits + 1)
        \/ \E i \in 1 .. Bits : Fork(s, romid, i)
    BY <1>1, <1>6 DEF IInv, Pass
  <2>2. QED BY <1>2, <2>1, SameIsEqual, ForkIsBefore
<1>7. QED BY <1>2, <1>3, <1>4, <1>5, <1>6 DEF Enum!Due

\* What is kept of it leads to the one after that.
LEMMA ReportKeeps ==
  ASSUME IInv, pc = "write", RomDone, UNCHANGED <<devices, romid>>,
         found' = found \union {romid}, latest' = romid,
         lastDiscrepancy' = last_zero
  PROVE  Latest'
<1>1. Decided = Bits + 1 /\ last_zero \in 0 .. Bits
  BY RomAssumption DEF Decided, RomDone, IInv, TypeOK
<1>2. romid \in Rom /\ devices \subseteq Rom /\ found \subseteq devices
  BY RomTypes DEF IInv, Memory, Over
<1>3. /\ Enum!Due(romid)
      /\ \A r \in found : Enum!Before(r, romid)
  BY PassIsDue
<1>4. ASSUME NEW r \in devices, Enum!Before(r, romid)
      PROVE  r \in found
  <2>1. r \in found \/ r = romid \/ Enum!Before(romid, r)
    BY <1>3, <1>4 DEF Enum!Due
  <2>2. QED BY <1>2, <1>4, <2>1, BeforeIsStrict
<1>5. ASSUME NEW r \in devices, Same(r, romid, last_zero + 1)
      PROVE  r \in found \union {romid}
  <2>1. Same(r, romid, Bits + 1) \/ r \in found
    BY <1>1, <1>5 DEF IInv, Pass
  <2>2. QED BY <1>2, <2>1, SameIsEqual
<1>6. last_zero > 0 => \E r \in devices : Fork(r, romid, last_zero)
  BY DEF IInv, Pass
<1>7. last_zero = 0 => found \union {romid} = devices
  <2>1. \A r : Same(r, romid, 1)
    BY DEF Same
  <2>2. QED BY <1>2, <1>3, <1>5, <2>1 DEF Enum!Due
<1>8. /\ latest' \in found'
      /\ \A r \in found' : r = latest' \/ Enum!Before(r, latest')
      /\ \A r \in devices' : Enum!Before(r, latest') => r \in found'
  BY <1>3, <1>4
<1>9. Same(romid', latest', lastDiscrepancy')
  BY DEF Same
<1>10. lastDiscrepancy' = 0 => found' = devices'
  BY <1>7
<1>11. lastDiscrepancy' > 0 =>
         /\ \E r \in devices' : Fork(r, latest', lastDiscrepancy')
         /\ \A r \in devices' :
              Same(r, latest', lastDiscrepancy' + 1) => r \in found'
  BY <1>5, <1>6 DEF Fork, Same
<1>12. QED BY <1>8, <1>9, <1>10, <1>11 DEF Latest

LEMMA WriteDoneKeeps ==
  ASSUME IInv, Noticed, WriteDone
  PROVE  Memory' /\ Pass' /\ (Enum!Next \/ UNCHANGED Enum!vars)
<1>1. Walking /\ pc = "write" /\ devices' = devices /\ State = "walking"
  BY StateIs DEF WriteDone, Walking, IInv, TypeOK
<1>2. CASE Retry
  BY <1>1, <1>2, RetryKeeps, RetryUnseen DEF Retry
<1>3. CASE ~Retry /\ ~RomDone
  <2>1. PICK bit \in {0, 1} : Hear(bit)
    BY <1>3 DEF WriteDone
  <2>2. active' = {r \in active : r[id_bit_number] = romid[id_bit_number]}
    BY <2>1 DEF Hear, Fault, Noticed
  <2>3. /\ id_bit_number' = id_bit_number + 1 /\ pc' = "read"
        /\ UNCHANGED <<last_zero, romid, lastDiscrepancy, lastDeviceFlag, found,
                      latest>>
    BY <1>3 DEF WriteDone, context, history
  <2>4. found' # {} => Latest'
    BY <1>1, <2>3, LatestStays DEF IInv, Memory, Over
  <2>5. Memory'
    BY <1>1, <2>3, <2>4 DEF IInv, Memory, Walking, Over
  <2>6. Decided' = id_bit_number + 1 /\ Decided = id_bit_number + 1
    BY <1>1, <2>3 DEF Decided
  <2>7. active' = {r \in devices' : Same(r, romid', id_bit_number')}
    <3>1. active = {r \in devices : Same(r, romid, id_bit_number)}
      BY <1>1 DEF IInv, Pass
    <3>2. id_bit_number \in 1 .. Bits /\ Bits \in Nat
      BY RomAssumption DEF IInv, TypeOK
    <3>3. \A r : Same(r, romid, id_bit_number + 1) <=>
                   /\ Same(r, romid, id_bit_number)
                   /\ r[id_bit_number] = romid[id_bit_number]
      BY <3>2 DEF Same
    <3>4. QED BY <1>1, <2>2, <2>3, <3>1, <3>3
  <2>8. Pass'
    <3>1. /\ \E r \in devices : Same(r, romid, Decided)
          /\ found # {} /\ Decided > lastDiscrepancy => romid[lastDiscrepancy] = 1
          /\ last_zero < Decided
          /\ last_zero > 0 => \E r \in devices : Fork(r, romid, last_zero)
          /\ \A s \in devices :
               \/ Same(s, romid, Decided)
               \/ s \in found
               \/ \E i \in 1 .. Decided - 1 : Fork(s, romid, i)
          /\ \A s \in devices :
               Same(s, romid, last_zero + 1) => Same(s, romid, Decided) \/ s \in found
      BY <1>1 DEF IInv, Pass
    <3>2. QED BY <1>1, <2>3, <2>6, <2>7, <3>1 DEF Pass, Same, Fork
  <2>9. State' = "walking"
    BY <2>3, NextStateIs DEF PC
  <2>10. QED BY <1>1, <2>3, <2>5, <2>8, <2>9 DEF Enum!vars
<1>4. CASE ~Retry /\ RomDone
  <2>1. EndPass /\ RomDone
    BY <1>4 DEF WriteDone
  <2>2. romid \in devices /\ Enum!Due(romid)
    BY <1>1, <1>4, PassIsDue DEF Enum!Due
  <2>3. CASE ~CrcOk
    BY <1>1, <2>1, <2>3, RetryKeeps, RetryUnseen DEF EndPass
  <2>4. CASE CrcOk /\ Enum!FamilyCode0(romid)
    <3>1. /\ pc' = "ended" /\ lastDiscrepancy' = 0 /\ lastDeviceFlag' = 0
          /\ found' = found
      BY <2>1, <2>4 DEF EndPass, InitWalkROM, history
    <3>2. Memory' /\ Pass'
      BY <3>1 DEF Memory, Pass, Over, Walking
    <3>3. State' = "over"
      BY <3>1, NextStateIs DEF PC
    <3>4. QED BY <1>1, <2>2, <2>4, <3>1, <3>2, <3>3 DEF Enum!Next, Enum!Finish
  <2>5. CASE CrcOk /\ ~Enum!FamilyCode0(romid)
    <3>1. /\ lastDiscrepancy' = last_zero
          /\ lastDeviceFlag' = IF last_zero = 0 THEN 1 ELSE lastDeviceFlag
          /\ pc' = "yielded"
          /\ found' = found \union {romid} /\ latest' = romid
          /\ romid' = romid
      BY <2>1, <2>5 DEF EndPass
    <3>2. Latest'
      BY <1>1, <2>1, <3>1, ReportKeeps
    <3>3. found \subseteq devices /\ lastDeviceFlag = 0
      BY <1>1 DEF IInv, Memory, Over, Walking
    <3>4. Memory'
      BY <1>1, <2>2, <3>1, <3>2, <3>3 DEF Memory, Over, Walking
    <3>5. Pass'
      BY <3>1 DEF Pass
    <3>6. State' = "found"
      BY <3>1, NextStateIs DEF PC
    <3>7. Enum!Report(romid)
      BY <1>1, <2>2, <2>5, <3>1, <3>6 DEF Enum!Report
    <3>8. QED BY <2>2, <3>4, <3>5, <3>7 DEF Enum!Next, Enum!Answer
  <2>6. QED BY <2>3, <2>4, <2>5
<1>5. QED BY <1>2, <1>3, <1>4

-----------------------------------------------------------------------------
LEMMA SearchStep ==
  ASSUME Noticed, IInv, [Next]_vars
  PROVE  IInv' /\ [Enum!Next]_(Enum!vars)
<1>1. TypeOK'
  BY TypeStep DEF IInv
<1>2. CASE Next
  BY <1>1, <1>2, StartKeeps, ResumeKeeps, ResetDoneKeeps, CommandDoneKeeps,
     ReadDoneKeeps, WriteDoneKeeps DEF IInv, Next, Step
<1>3. CASE UNCHANGED vars
  <2>1. Memory' /\ Pass'
    BY <1>3 DEF IInv, Memory, Pass, Latest, Same, Fork, Decided, Walking, Over,
                vars, context, history
  <2>2. UNCHANGED Enum!vars
    BY <1>3 DEF Enum!vars, State, vars, history
  <2>3. QED BY <1>1, <2>1, <2>2 DEF IInv
<1>4. QED BY <1>2, <1>3

LEMMA SearchStarts ==
  ASSUME Init
  PROVE  IInv /\ Enum!Init
<1>1. TypeOK
  BY InitType
<1>2. Memory /\ Pass
  BY DEF Init, Memory, Pass, Walking, Over
<1>3. Enum!Init
  BY DEF Init, Enum!Init, State
<1>4. QED BY <1>1, <1>2, <1>3 DEF IInv

\* The search returns each device once and in order, whatever ROMs are on the
\* bus and however often an operation fails: the loop of ptOneWireWalkROM takes
\* the steps of the enumeration.
THEOREM SearchEnumerates ==
  ASSUME Noticed
  PROVE  Spec => EnumSteps
<1>1. Spec => Enum!Init /\ [][Enum!Next]_(Enum!vars)
  BY SearchStep, SearchStarts, PTL DEF Spec
<1>2. QED BY <1>1 DEF EnumSteps

\* The passes that failed in between did not write over the path to the last
\* discrepancy ("Repeat procedure from original point").
THEOREM OriginalPointKept ==
  ASSUME Noticed
  PROVE  Spec => []OriginalPoint
<1>1. IInv => OriginalPoint
  BY DEF IInv, Memory, Latest, Same, OriginalPoint, Over
<1>2. QED BY <1>1, SearchStep, SearchStarts, PTL DEF Spec

-----------------------------------------------------------------------------
\* A ROM of wrong bits.
Differ(r, s) == {i \in 1 .. Bits : r[i] # s[i]}

LEMMA RomBytesType ==
  ASSUME NEW r
  PROVE  RomBytes(r) \in Data(Bits \div 8) /\ Bits \div 8 \in Nat
BY RomAssumption DEF RomBytes, Data, Byte

\* The place of a bit in its byte.
LEMMA BitPlace ==
  ASSUME NEW k \in 1 .. Bits \div 8, NEW i \in 0 .. 7
  PROVE  8 * k + i - 7 \in 1 .. Bits
BY RomAssumption

LEMMA WrongBitsPattern ==
  ASSUME NEW r \in Rom, NEW s \in Rom
  PROVE  RomBytes(WrongBits(Differ(r, s))) =
           Pattern(RomBytes(r), RomBytes(s), Bits \div 8)
<1>. DEFINE e == WrongBits(Differ(r, s))
<1>1. ASSUME NEW k \in 1 .. Bits \div 8
      PROVE  RomBytes(e)[k] = Xor(RomBytes(r)[k], RomBytes(s)[k])
  <2>1. ASSUME NEW i \in 0 .. 7
        PROVE  e[8 * k + i - 7] = 1 <=>
                 ~(r[8 * k + i - 7] = 1 <=> s[8 * k + i - 7] = 1)
    <3>. DEFINE j == 8 * k + i - 7
    <3>1. j \in 1 .. Bits
      BY BitPlace
    <3>. HIDE DEF j
    <3>2. r[j] \in {0, 1} /\ s[j] \in {0, 1}
      BY <3>1 DEF Rom
    <3>3. e[j] = 1 <=> r[j] # s[j]
      BY <3>1 DEF WrongBits, Differ
    <3>4. e[j] = 1 <=> ~(r[j] = 1 <=> s[j] = 1)
      BY <3>2, <3>3
    <3>5. QED BY <3>4 DEF j
  <2>2. QED BY <2>1 DEF RomBytes, Xor
<1>2. QED BY <1>1 DEF RomBytes, Pattern

\* What turns one valid ROM into another is a valid ROM of wrong bits.
LEMMA ValidDiffer ==
  ASSUME NEW r \in Rom, NEW s \in Rom, Valid(r), Valid(s)
  PROVE  Valid(WrongBits(Differ(r, s)))
<1>1. /\ RomBytes(r) \in Data(Bits \div 8) /\ RomBytes(s) \in Data(Bits \div 8)
      /\ Bits \div 8 \in Nat
  BY RomBytesType
<1>2. Bits \div 8 \in 0 .. Bits \div 8
  BY <1>1
<1>3. Crc(Pattern(RomBytes(r), RomBytes(s), Bits \div 8), Bits \div 8) =
        Xor(Crc(RomBytes(r), Bits \div 8), Crc(RomBytes(s), Bits \div 8))
  BY <1>1, <1>2, CrcLinear
<1>4. Xor({}, {}) = {}
  BY DEF Xor
<1>5. QED BY <1>3, <1>4, WrongBitsPattern DEF Valid

\* Wrong bits within one byte are noticed.
LEMMA ByteNoticed ==
  ASSUME NEW S \in SUBSET (1 .. Bits), S # {}, NEW k \in 1 .. Bits \div 8,
         \A i \in S : i \in 8 * k - 7 .. 8 * k
  PROVE  ~Valid(WrongBits(S))
<1>. DEFINE p == RomBytes(WrongBits(S))
<1>1. p \in Data(Bits \div 8) /\ Bits \div 8 \in Nat
  BY RomBytesType
<1>2. p[k] # {}
  <2>1. PICK i \in S : TRUE
    OBVIOUS
  <2>2. i \in 1 .. Bits /\ i - (8 * k - 7) \in 0 .. 7
        /\ 8 * k + (i - (8 * k - 7)) - 7 = i
    BY <2>1, RomAssumption
  <2>3. WrongBits(S)[i] = 1
    BY <2>1, <2>2 DEF WrongBits
  <2>4. i - (8 * k - 7) \in p[k]
    BY <2>2, <2>3 DEF RomBytes
  <2>5. QED BY <2>4
<1>3. ASSUME NEW j \in 1 .. Bits \div 8, j # k
      PROVE  p[j] = {}
  <2>1. ASSUME NEW i \in 0 .. 7
        PROVE  WrongBits(S)[8 * j + i - 7] # 1
    <3>1. 8 * j + i - 7 \in 1 .. Bits
      BY BitPlace
    <3>2. 8 * j + i - 7 \notin S
      BY <1>3
    <3>3. QED BY <3>1, <3>2 DEF WrongBits
  <2>2. QED BY <2>1 DEF RomBytes
<1>4. Crc(p, Bits \div 8) # {}
  <2>. HIDE DEF p
  <2>. QED BY <1>1, <1>2, <1>3, CrcNoticesByte
<1>5. QED BY <1>4 DEF Valid

\* One wrong bit is noticed in a ROM of any length.
LEMMA OneBitNoticed == CrcNotices(1)
<1>1. SUFFICES ASSUME NEW S \in SUBSET (1 .. Bits), S # {}, Cardinality(S) <= 1
               PROVE  ~Valid(WrongBits(S))
  BY DEF CrcNotices
<1>2. IsFiniteSet(S)
  <2>1. Bits \in Int
    BY RomAssumption
  <2>2. IsFiniteSet(1 .. Bits)
    BY <2>1, FS_Interval
  <2>3. QED BY <2>2, FS_Subset
<1>3. Cardinality(S) = 1
  BY <1>1, <1>2, FS_CardinalityType, FS_EmptySet
<1>4. PICK x : S = {x}
  BY <1>2, <1>3, FS_Singleton
<1>5. x \in 1 .. Bits
  BY <1>4
<1>. DEFINE k == (x + 7) \div 8
<1>6. k \in 1 .. Bits \div 8 /\ x \in 8 * k - 7 .. 8 * k
  BY <1>5, RomAssumption
<1>. HIDE DEF k
<1>7. QED BY <1>4, <1>6, ByteNoticed

-----------------------------------------------------------------------------
\* Whatever goes wrong: a bit of romid that is not the device's costs a fault.
\* The bits of romid below n that are not those of r.
Wrong(r, n) == {i \in 1 .. n - 1 : r[i] # romid[i]}
Cost(r) == Cardinality(Wrong(r, id_bit_number))

WrongPass ==
  /\ pc \in {"reset", "command"} => id_bit_number = 1
  /\ pc = "command" => active = devices /\ devices # {}
  /\ pc \in {"read", "write"} =>
       /\ \A r \in active : Cost(r) <= faults
       /\ \E r \in devices : Cost(r) <= faults
  /\ pc = "write" =>
       \/ \E r \in active : r[id_bit_number] = romid[id_bit_number]
       \/ /\ \A r \in active : Cost(r) + 1 <= faults
          /\ \E r \in devices : Cost(r) + 1 <= faults

WrongInv == TypeOK /\ WrongPass /\ NoPhantom

LEMMA WrongIsFinite ==
  ASSUME NEW r, NEW n \in Nat
  PROVE  IsFiniteSet(Wrong(r, n)) /\ Cardinality(Wrong(r, n)) \in Nat
<1>1. IsFiniteSet(1 .. n - 1)
  BY FS_Interval
<1>2. Wrong(r, n) \in SUBSET (1 .. n - 1)
  BY DEF Wrong
<1>3. IsFiniteSet(Wrong(r, n))
  BY <1>1, <1>2, FS_Subset
<1>4. QED BY <1>3, FS_CardinalityType

\* One bit more, right or wrong.
LEMMA WrongGrows ==
  ASSUME NEW r, NEW n \in Nat \ {0}
  PROVE  /\ Cardinality(Wrong(r, n + 1)) <= Cardinality(Wrong(r, n)) + 1
         /\ r[n] = romid[n] =>
              Cardinality(Wrong(r, n + 1)) = Cardinality(Wrong(r, n))
<1>1. IsFiniteSet(Wrong(r, n)) /\ Cardinality(Wrong(r, n)) \in Nat
  BY WrongIsFinite
<1>2. CASE r[n] = romid[n]
  <2>1. Wrong(r, n + 1) = Wrong(r, n)
    BY <1>2 DEF Wrong
  <2>2. QED BY <1>1, <2>1
<1>3. CASE r[n] # romid[n]
  <2>1. Wrong(r, n + 1) = Wrong(r, n) \union {n}
    BY <1>3 DEF Wrong
  <2>2. QED BY <1>1, <1>3, <2>1, FS_AddElement
<1>4. QED BY <1>2, <1>3

LEMMA WrongAlone ==
  ASSUME NEW r, NEW n, \A i \in 1 .. n - 1 : romid'[i] = romid[i]
  PROVE  Wrong(r, n)' = Wrong(r, n)
BY DEF Wrong

LEMMA FaultCounts ==
  ASSUME TypeOK
  PROVE  /\ faults \in Nat
         /\ \A k : Fault(k) => faults' = faults + 1
         /\ NoFault => faults' = faults
BY FaultAssumption DEF TypeOK, FaultsOK, Fault, NoFault

\* A read without a fault gives a bit that some device sends; when none takes
\* part any more, it gives two ones.
LEMMA ReadIsRight ==
  ASSUME TypeOK, pc = "read", NEW b \in {0, 1}, NEW c \in {0, 1},
         ~(b = 1 /\ c = 1), b = WiredAnd(1), c = WiredAnd(0)
  PROVE  \E r \in active : r[id_bit_number] = Direction(b, c)
<1>. DEFINE n == id_bit_number
<1>1. n \in 1 .. Bits /\ \A r \in active : r[n] \in {0, 1}
  BY RomTypes DEF TypeOK, Rom
<1>2. CASE b = 0 /\ c = 0
  <2>1. (\E r \in active : r[n] = 1) /\ (\E r \in active : r[n] = 0)
    BY <1>1, <1>2 DEF WiredAnd
  <2>2. QED BY <2>1, DirectionIsBit
<1>3. CASE b = 1 /\ c = 0
  <2>1. \E r \in active : r[n] = 1
    BY <1>1, <1>3 DEF WiredAnd
  <2>2. QED BY <1>3, <2>1 DEF Direction
<1>4. CASE b = 0 /\ c = 1
  <2>1. \E r \in active : r[n] = 0
    BY <1>1, <1>4 DEF WiredAnd
  <2>2. QED BY <1>4, <2>1 DEF Direction
<1>5. QED BY <1>2, <1>3, <1>4

LEMMA ReadBitCosts ==
  ASSUME WrongInv, pc = "read",
         NEW b \in {0, 1}, NEW c \in {0, 1}, ~(b = 1 /\ c = 1), Read(b, c),
         romid' = RomBit(Direction(b, c)), pc' = "write",
         UNCHANGED <<devices, active, id_bit_number>>
  PROVE  WrongPass'
<1>. DEFINE n == id_bit_number
            d == Direction(b, c)
<1>1. /\ n \in 1 .. Bits /\ n \in Nat /\ romid \in Rom /\ d \in {0, 1}
      /\ active \subseteq devices
  BY RomAssumption, RomTypes, DirectionIsBit DEF WrongInv, TypeOK
<1>2. romid'[n] = d /\ \A i \in 1 .. n - 1 : romid'[i] = romid[i]
  BY <1>1 DEF RomBit, Rom
<1>3. \A r : Cost(r)' = Cost(r)
  BY <1>2, WrongAlone DEF Cost
<1>4. /\ \A r \in active : Cost(r) <= faults
      /\ \E r \in devices : Cost(r) <= faults
      /\ \A r : Cost(r) \in Nat
  BY <1>1, WrongIsFinite DEF WrongInv, WrongPass, Cost
<1>5. CASE b = WiredAnd(1) /\ c = WiredAnd(0) /\ NoFault
  <2>1. \E r \in active : r[n] = d
    BY <1>5, ReadIsRight DEF WrongInv
  <2>2. faults' = faults
    BY <1>5, FaultCounts DEF WrongInv
  <2>3. QED BY <1>2, <1>3, <1>4, <2>1, <2>2 DEF WrongPass
<1>6. CASE Fault("read")
  <2>1. faults' = faults + 1 /\ faults \in Nat
    BY <1>6, FaultCounts DEF WrongInv
  <2>2. /\ \A r \in active : Cost(r) + 1 <= faults'
        /\ \E r \in devices : Cost(r) + 1 <= faults'
    BY <1>1, <1>4, <2>1
  <2>3. /\ \A r \in active : Cost(r) <= faults'
        /\ \E r \in devices : Cost(r) <= faults'
    BY <1>4, <2>1, <1>1
  <2>4. QED BY <1>3, <2>2, <2>3 DEF WrongPass
<1>7. QED BY <1>5, <1>6 DEF Read

LEMMA WriteBitCosts ==
  ASSUME WrongInv, pc = "write", ~RomDone, NEW bit \in {0, 1}, Hear(bit),
         id_bit_number' = id_bit_number + 1, pc' = "read",
         UNCHANGED <<devices, romid>>
  PROVE  WrongPass'
<1>. DEFINE n == id_bit_number
<1>1. /\ n \in Nat \ {0} /\ n \in Nat /\ faults \in Nat
      /\ active \subseteq devices
  BY RomAssumption, FaultCounts DEF WrongInv, TypeOK
<1>2. /\ active' = {r \in active : r[n] = bit}
      /\ \/ bit = romid[n] /\ faults' = faults
         \/ bit # romid[n] /\ faults' = faults + 1
  BY FaultCounts DEF Hear, WrongInv
<1>3. \A r : /\ Cost(r) \in Nat /\ Cost(r)' \in Nat
             /\ Cost(r)' <= Cost(r) + 1
             /\ r[n] = romid[n] => Cost(r)' = Cost(r)
  <2>1. \A r : Wrong(r, id_bit_number)' = Wrong(r, n + 1)
    BY DEF Wrong
  <2>2. \A r : Cost(r)' = Cardinality(Wrong(r, n + 1))
    BY <2>1 DEF Cost
  <2>3. ASSUME NEW r
        PROVE  /\ Cost(r) \in Nat /\ Cardinality(Wrong(r, n + 1)) \in Nat
               /\ Cardinality(Wrong(r, n + 1)) <= Cost(r) + 1
               /\ r[n] = romid[n] => Cardinality(Wrong(r, n + 1)) = Cost(r)
    <3>1. n + 1 \in Nat
      BY <1>1
    <3>2. QED BY <1>1, <3>1, WrongIsFinite, WrongGrows DEF Cost
  <2>4. QED BY <2>2, <2>3
<1>4. /\ \A r \in active : Cost(r) <= faults
      /\ \E r \in devices : Cost(r) <= faults
      /\ \/ \E r \in active : r[n] = romid[n]
         \/ /\ \A r \in active : Cost(r) + 1 <= faults
            /\ \E r \in devices : Cost(r) + 1 <= faults
  BY DEF WrongInv, WrongPass
<1>5. \A r \in active' : Cost(r)' <= faults'
  BY <1>1, <1>2, <1>3, <1>4
<1>6. \E r \in devices' : Cost(r)' <= faults'
  <2>1. CASE bit # romid[n]
    BY <1>1, <1>2, <1>3, <1>4, <2>1
  <2>2. CASE \E r \in active : r[n] = romid[n]
    BY <1>1, <1>2, <1>3, <1>4, <2>2
  <2>3. CASE \E r \in devices : Cost(r) + 1 <= faults
    BY <1>1, <1>2, <1>3, <2>3
  <2>4. QED BY <1>4, <2>1, <2>2, <2>3
<1>7. QED BY <1>5, <1>6 DEF WrongPass

\* A pass that ends on a ROM that no device has took a fault for each bit it
\* is away from one that is there, and the CRC notices it.
LEMMA EndIsDevice ==
  ASSUME WrongInv, RomsValid, CrcNotices(MaxFaults), pc = "write", RomDone, CrcOk
  PROVE  romid \in devices
<1>1. /\ id_bit_number = Bits /\ Bits \in Nat \ {0} /\ romid \in Rom
      /\ devices \subseteq Rom /\ devices \subseteq Roms /\ active \subseteq devices
      /\ faults \in Nat /\ faults <= MaxFaults /\ MaxFaults \in Nat
  BY RomAssumption, FaultAssumption, RomTypes
  DEF WrongInv, TypeOK, FaultsOK, RomDone
<1>2. PICK r \in devices : Cardinality(Wrong(r, Bits + 1)) <= faults
  <2>1. \A r : /\ Cost(r) \in Nat /\ Cardinality(Wrong(r, Bits + 1)) \in Nat
               /\ Cardinality(Wrong(r, Bits + 1)) <= Cost(r) + 1
               /\ r[Bits] = romid[Bits] =>
                    Cardinality(Wrong(r, Bits + 1)) = Cost(r)
    BY <1>1, WrongIsFinite, WrongGrows DEF Cost
  <2>2. /\ \A r \in active : Cost(r) <= faults
        /\ \E r \in devices : Cost(r) <= faults
        /\ \/ \E r \in active : r[Bits] = romid[Bits]
           \/ \E r \in devices : Cost(r) + 1 <= faults
    BY <1>1 DEF WrongInv, WrongPass
  <2>3. QED BY <1>1, <2>1, <2>2
<1>3. Wrong(r, Bits + 1) = Differ(r, romid)
  BY <1>1 DEF Wrong, Differ
<1>4. Valid(r) /\ Valid(romid) /\ r \in Rom
  BY <1>1 DEF RomsValid, CrcOk
<1>5. Valid(WrongBits(Differ(r, romid)))
  BY <1>1, <1>4, ValidDiffer
<1>6. Cardinality(Differ(r, romid)) <= MaxFaults
  <2>1. Cardinality(Wrong(r, Bits + 1)) \in Nat
    BY <1>1, WrongIsFinite
  <2>2. QED BY <1>1, <1>2, <1>3, <2>1
<1>7. Differ(r, romid) = {}
  <2>1. Differ(r, romid) \in SUBSET (1 .. Bits)
    BY DEF Differ
  <2>2. QED BY <1>5, <1>6, <2>1 DEF CrcNotices
<1>8. r = romid
  BY <1>1, <1>4, <1>7 DEF Differ, Rom
<1>9. QED BY <1>8

LEMMA WrongStep ==
  ASSUME WrongInv, RomsValid, CrcNotices(MaxFaults), [Next]_vars
  PROVE  WrongInv'
<1>1. TypeOK'
  BY TypeStep DEF WrongInv
<1>. SUFFICES WrongPass' /\ NoPhantom'
  BY <1>1 DEF WrongInv
<1>2. ASSUME BeginPass, UNCHANGED <<devices, history>>
      PROVE  WrongPass' /\ NoPhantom'
  <2>1. pc' = "reset" /\ id_bit_number' = 1
    BY <1>2 DEF BeginPass
  <2>2. QED BY <1>2, <2>1 DEF WrongPass, NoPhantom, WrongInv, history
<1>3. CASE Start
  BY <1>3 DEF Start, BeginPass, WrongPass, NoPhantom
<1>4. CASE Resume
  <2>1. CASE Retry
    BY <1>2, <1>4, <2>1 DEF Resume, Retry
  <2>2. CASE ~Retry
    BY <1>4, <2>2 DEF Resume, WrongPass, NoPhantom, WrongInv, history
  <2>3. QED BY <2>1, <2>2
<1>5. CASE ResetDone
  BY <1>5 DEF ResetDone, WrongPass, NoPhantom, WrongInv, history
<1>6. CASE CommandDone
  <2>1. CASE Retry
    BY <1>2, <1>6, <2>1 DEF CommandDone, Retry
  <2>2. CASE ~Retry
    <3>1. /\ pc = "command" /\ pc' = "read"
          /\ UNCHANGED <<devices, active, id_bit_number, found>>
      BY <1>6, <2>2 DEF CommandDone, history
    <3>2. active = devices /\ devices # {} /\ id_bit_number = 1
      BY <3>1 DEF WrongInv, WrongPass
    <3>3. \A r : Wrong(r, 1)' = {}
      BY DEF Wrong
    <3>4. faults' \in Nat
      BY <1>1, FaultAssumption DEF TypeOK, FaultsOK
    <3>5. \A r : Cost(r)' = 0
      BY <3>1, <3>2, <3>3, FS_EmptySet DEF Cost
    <3>6. WrongPass'
      BY <3>1, <3>2, <3>4, <3>5 DEF WrongPass
    <3>7. QED BY <3>1, <3>6 DEF NoPhantom, WrongInv
  <2>3. QED BY <2>1, <2>2
<1>7. CASE ReadDone
  <2>1. CASE Retry
    BY <1>2, <1>7, <2>1 DEF ReadDone, Retry
  <2>2. CASE ~Retry
    <3>1. PICK pair \in {<<0, 0>>, <<0, 1>>, <<1, 0>>} :
            /\ Read(pair[1], pair[2])
            /\ romid' = RomBit(Direction(pair[1], pair[2]))
            /\ pc' = "write"
            /\ UNCHANGED <<active, id_bit_number, lastDiscrepancy,
                           lastDeviceFlag, history>>
      BY <1>7, <2>2 DEF ReadDone
    <3>2. /\ pair[1] \in {0, 1} /\ pair[2] \in {0, 1}
          /\ ~(pair[1] = 1 /\ pair[2] = 1)
      OBVIOUS
    <3>3. pc = "read" /\ devices' = devices /\ found' = found
      BY <1>7, <3>1 DEF ReadDone, history
    <3>4. WrongPass'
      BY <3>1, <3>2, <3>3, ReadBitCosts
    <3>5. QED BY <3>3, <3>4 DEF NoPhantom, WrongInv
  <2>3. QED BY <2>1, <2>2
<1>8. CASE WriteDone
  <2>1. CASE Retry
    BY <1>2, <1>8, <2>1 DEF WriteDone, Retry
  <2>2. CASE ~Retry /\ ~RomDone
    <3>1. PICK bit \in {0, 1} : Hear(bit)
      BY <1>8, <2>2 DEF WriteDone
    <3>2. /\ pc = "write" /\ pc' = "read"
          /\ id_bit_number' = id_bit_number + 1
          /\ UNCHANGED <<devices, romid, found>>
      BY <1>8, <2>2 DEF WriteDone, context, history
    <3>3. WrongPass'
      BY <2>2, <3>1, <3>2, WriteBitCosts
    <3>4. QED BY <3>2, <3>3 DEF NoPhantom, WrongInv
  <2>3. CASE ~Retry /\ RomDone
    <3>1. EndPass /\ RomDone /\ pc = "write" /\ devices' = devices
      BY <1>8, <2>3 DEF WriteDone
    <3>2. CASE ~CrcOk
      BY <1>2, <3>1, <3>2 DEF EndPass
    <3>3. CASE CrcOk
      <4>1. romid \in devices
        BY <3>1, <3>3, EndIsDevice
      <4>2. pc' \in {"ended", "yielded"} /\ found' \subseteq found \union {romid}
        BY <3>1, <3>3 DEF EndPass, history
      <4>3. QED BY <3>1, <4>1, <4>2 DEF WrongPass, NoPhantom, WrongInv
    <3>4. QED BY <3>2, <3>3
  <2>4. QED BY <2>1, <2>2, <2>3
<1>9. CASE UNCHANGED vars
  <2>1. UNCHANGED <<devices, active, pc, id_bit_number, romid, found, faults>>
    BY <1>9 DEF vars, context, history
  <2>2. \A r : Cost(r)' = Cost(r)
    BY <2>1 DEF Cost, Wrong
  <2>3. QED BY <2>1, <2>2 DEF WrongInv, WrongPass, NoPhantom
<1>10. QED BY <1>3, <1>4, <1>5, <1>6, <1>7, <1>8, <1>9 DEF Next, Step

\* Whatever is read or heard wrong, the search returns no ROM that is not on the
\* bus, as long as the CRC notices as many wrong bits as there are faults.
THEOREM PhantomsAreNoticed ==
  ASSUME RomsValid, CrcNotices(MaxFaults)
  PROVE  Spec => []NoPhantom
<1>1. Init => WrongInv
  BY InitType DEF Init, WrongInv, WrongPass, NoPhantom
<1>2. WrongInv => NoPhantom
  BY DEF WrongInv
<1>3. QED BY <1>1, <1>2, WrongStep, PTL DEF Spec

\* One bit that is read or heard wrong is noticed in a ROM of any length.
THEOREM OneFaultIsNoticed ==
  ASSUME RomsValid, MaxFaults <= 1
  PROVE  Spec => []NoPhantom
<1>1. CrcNotices(MaxFaults)
  <2>1. ASSUME NEW S \in SUBSET (1 .. Bits), Cardinality(S) <= MaxFaults
        PROVE  Cardinality(S) <= 1
    <3>1. Bits \in Int
      BY RomAssumption
    <3>2. IsFiniteSet(1 .. Bits)
      BY <3>1, FS_Interval
    <3>3. Cardinality(S) \in Nat
      BY <3>2, FS_Subset, FS_CardinalityType
    <3>4. QED BY <2>1, <3>3, FaultAssumption
  <2>2. QED BY <2>1, OneBitNoticed DEF CrcNotices
<1>2. QED BY <1>1, PhantomsAreNoticed

-----------------------------------------------------------------------------
\* As long as no direction is heard wrong the devices and romid agree about who
\* takes part.  What the search knows then from the passes before: who is on the
\* path of the latest to the last discrepancy, or parts from it on a 1, was found.
Branch ==
  /\ latest \in found
  /\ Same(romid, latest, lastDiscrepancy)
  /\ lastDiscrepancy = 0 => devices \subseteq found
  /\ lastDiscrepancy > 0 =>
       /\ latest[lastDiscrepancy] = 0
       /\ \A r \in devices :
            \/ Same(r, latest, lastDiscrepancy + 1)
            \/ \E i \in 1 .. lastDiscrepancy - 1 : Fork(latest, r, i)
            => r \in found

Flow ==
  /\ Over => lastDiscrepancy = 0 /\ lastDeviceFlag = 0
  /\ pc = "start" => found = {}
  /\ Walking => lastDeviceFlag = 0
  /\ Walking /\ found # {} => lastDiscrepancy > 0
  /\ pc = "yielded" => found # {} /\ (lastDiscrepancy = 0 => lastDeviceFlag = 1)
  /\ ~Over => /\ found = {} => lastDiscrepancy = 0 /\ lastDeviceFlag = 0
              /\ lastDeviceFlag = 1 => found # {} /\ lastDiscrepancy = 0

ReadMemory ==
  /\ Flow
  /\ found \subseteq devices
  /\ ~Over /\ found # {} => Branch
  /\ EndedMeansAllFound

\* romid is the path of a device, or of one up to a bit e from which on each bit
\* took a fault.
OnPath(n) ==
  \/ \E r \in devices : Same(r, romid, n)
  \/ \E e \in 1 .. n - 1 : (\E r \in devices : Same(r, romid, e)) /\ n - e <= faults

Aside(n) ==
  \A s \in devices : \/ Same(s, romid, n)
                     \/ s \in found
                     \/ \E i \in 1 .. n - 1 : Fork(s, romid, i)

Zero(n) ==
  /\ last_zero < n
  /\ last_zero > 0 => romid[last_zero] = 0
  /\ \A s \in devices :
       Same(s, romid, last_zero + 1) => Same(s, romid, n) \/ s \in found

ReadPass ==
  /\ pc \in {"reset", "command"} => id_bit_number = 1 /\ last_zero = 0
  /\ pc = "command" => active = devices /\ devices # {}
  /\ pc \in {"read", "write"} =>
       /\ active = {r \in devices : Same(r, romid, id_bit_number)}
       /\ OnPath(Decided) /\ Aside(Decided) /\ Zero(Decided)

ReadInv == TypeOK /\ (~misheard => ReadMemory /\ ReadPass)

LEMMA HeardBefore ==
  ASSUME [Next]_vars, ~misheard'
  PROVE  ~misheard
<1>1. \A k : Fault(k) => misheard' = (misheard \/ k = "write")
  BY DEF Fault
<1>2. NoFault => misheard' = misheard
  BY DEF NoFault
<1>3. CASE UNCHANGED vars
  BY <1>3 DEF vars
<1>4. \A b, c : Read(b, c) /\ misheard => misheard'
  BY <1>1, <1>2 DEF Read
<1>5. \A b : Hear(b) /\ misheard => misheard'
  BY <1>1, <1>2 DEF Hear
<1>6. CASE Start \/ Resume
  BY <1>2, <1>6 DEF Start, Resume
<1>7. CASE ResetDone
  BY <1>1, <1>2, <1>7 DEF ResetDone
<1>8. CASE CommandDone
  BY <1>1, <1>2, <1>8 DEF CommandDone
<1>9. CASE ReadDone
  BY <1>1, <1>4, <1>9 DEF ReadDone
<1>10. CASE WriteDone
  BY <1>1, <1>5, <1>10 DEF WriteDone
<1>11. QED BY <1>3, <1>6, <1>7, <1>8, <1>9, <1>10 DEF Next, Step

LEMMA BranchStays ==
  ASSUME Branch, UNCHANGED <<devices, romid, lastDiscrepancy, found, latest>>
  PROVE  Branch'
BY DEF Branch, Same, Fork

LEMMA RetryKeepsRead ==
  ASSUME TypeOK, ReadMemory, BeginPass, UNCHANGED <<devices, context, history>>,
         Walking \/ (pc = "yielded" /\ lastDeviceFlag = 0)
  PROVE  ReadMemory' /\ ReadPass'
<1>1. pc' = "reset" /\ id_bit_number' = 1 /\ last_zero' = 0
  BY DEF BeginPass
<1>2. UNCHANGED <<devices, romid, lastDiscrepancy, lastDeviceFlag, found, latest>>
  BY DEF context, history
<1>3. found # {} => Branch
  BY DEF ReadMemory, Walking, Over
<1>4. found' # {} => Branch'
  BY <1>2, <1>3, BranchStays
<1>5. lastDiscrepancy \in Nat
  BY RomAssumption DEF TypeOK
<1>6. Flow'
  BY <1>1, <1>2, <1>5 DEF ReadMemory, Flow, Walking, Over
<1>7. ReadMemory'
  BY <1>1, <1>2, <1>4, <1>6 DEF ReadMemory, EndedMeansAllFound
<1>8. QED BY <1>1, <1>7 DEF ReadPass

LEMMA ReadOutsideStep ==
  ASSUME TypeOK, ReadMemory, ReadPass, Start \/ Resume \/ ResetDone
  PROVE  ReadMemory' /\ ReadPass'
<1>1. CASE Start
  <2>1. /\ pc' = "reset" /\ id_bit_number' = 1 /\ last_zero' = 0
        /\ found' = {} /\ Over
        /\ UNCHANGED <<devices, romid, lastDiscrepancy, lastDeviceFlag>>
    BY <1>1 DEF Start, BeginPass, context, Over
  <2>2. Flow'
    BY <2>1 DEF ReadMemory, Flow, Walking, Over
  <2>3. QED BY <2>1, <2>2 DEF ReadMemory, ReadPass, EndedMeansAllFound
<1>2. CASE Resume /\ lastDeviceFlag = 0
  BY <1>2, RetryKeepsRead DEF Resume, Retry
<1>3. CASE Resume /\ lastDeviceFlag # 0
  <2>1. /\ pc' = "ended" /\ lastDiscrepancy' = 0 /\ lastDeviceFlag' = 0
        /\ found' = found /\ devices' = devices /\ pc = "yielded"
        /\ lastDeviceFlag = 1
    BY <1>3 DEF Resume, InitWalkROM, history
  <2>2. devices \subseteq found
    BY <2>1 DEF ReadMemory, Flow, Branch, Over
  <2>3. Flow'
    BY <2>1 DEF Flow, Over, Walking
  <2>4. QED BY <2>1, <2>2, <2>3 DEF ReadMemory, ReadPass, Over, EndedMeansAllFound
<1>4. CASE ResetDone
  <2>1. /\ pc = "reset"
        /\ UNCHANGED <<devices, id_bit_number, last_zero, found, latest>>
    BY <1>4 DEF ResetDone, history
  <2>2. CASE pc' = "command"
    <3>1. /\ devices # {} /\ active' = devices
          /\ UNCHANGED <<romid, lastDiscrepancy, lastDeviceFlag>>
      BY <1>4, <2>2 DEF ResetDone, context
    <3>2. found' # {} => Branch'
      BY <2>1, <3>1, BranchStays DEF ReadMemory, Over
    <3>3. Flow'
      BY <2>1, <2>2, <3>1 DEF ReadMemory, Flow, Walking, Over
    <3>4. QED BY <2>1, <2>2, <3>1, <3>2, <3>3
              DEF ReadMemory, ReadPass, EndedMeansAllFound
  <2>3. CASE pc' = "exited"
    <3>1. lastDiscrepancy' = 0 /\ lastDeviceFlag' = 0
      BY <1>4, <2>3 DEF ResetDone, InitWalkROM
    <3>2. Flow'
      BY <2>3, <3>1 DEF Flow, Over, Walking
    <3>3. QED BY <2>1, <2>3, <3>2 DEF ReadMemory, ReadPass, Over, EndedMeansAllFound
  <2>4. QED BY <1>4, <2>2, <2>3 DEF ResetDone
<1>5. QED BY <1>1, <1>2, <1>3, <1>4

LEMMA ReadCommandStep ==
  ASSUME TypeOK, ReadMemory, ReadPass, CommandDone
  PROVE  ReadMemory' /\ ReadPass'
<1>1. Walking /\ pc = "command" /\ devices' = devices
  BY DEF CommandDone, Walking
<1>2. CASE Retry
  BY <1>1, <1>2, RetryKeepsRead DEF Retry
<1>3. CASE ~Retry
  <2>1. /\ pc' = "read"
        /\ UNCHANGED <<active, id_bit_number, last_zero, romid, lastDiscrepancy,
                      lastDeviceFlag, found, latest>>
    BY <1>3 DEF CommandDone, context, history
  <2>2. id_bit_number = 1 /\ last_zero = 0 /\ active = devices /\ devices # {}
    BY <1>1 DEF ReadPass
  <2>3. found' # {} => Branch'
    BY <1>1, <2>1, BranchStays DEF ReadMemory, Over
  <2>4. Flow'
    BY <1>1, <2>1 DEF ReadMemory, Flow, Walking, Over
  <2>5. Decided' = 1
    BY <2>1, <2>2 DEF Decided
  <2>6. \A r : Same(r, romid', 1)
    BY DEF Same
  <2>7. OnPath(1)' /\ Aside(1)' /\ Zero(1)'
    BY <1>1, <2>1, <2>2, <2>6 DEF OnPath, Aside, Zero
  <2>8. ReadPass'
    BY <1>1, <2>1, <2>2, <2>5, <2>6, <2>7 DEF ReadPass
  <2>9. QED BY <1>1, <2>1, <2>3, <2>4, <2>8 DEF ReadMemory, EndedMeansAllFound
<1>4. QED BY <1>2, <1>3

\* A bit that may be read wrong: what is read low although all devices let the
\* line up makes a discrepancy of a bit that they agree on, and no more.
LEMMA DirectionIsSafe ==
  ASSUME TypeOK, ReadMemory, ReadPass, pc = "read",
         NEW b \in {0, 1}, NEW c \in {0, 1}, ~(b = 1 /\ c = 1), Read(b, c),
         NEW d, d = Direction(b, c)
  PROVE  /\ \/ \E r \in active : r[id_bit_number] = d
            \/ active # {} /\ faults' >= 1
            \/ active = {} /\ faults' = faults + 1
         /\ found # {} /\ id_bit_number < lastDiscrepancy =>
              d = latest[id_bit_number]
         /\ ~(b = 0 /\ c = 0) => \A s \in active : s[id_bit_number] = d
         /\ \A s \in active : s[id_bit_number] = 0 /\ d = 1 => s \in found
<1>. DEFINE n == id_bit_number
<1>1. n \in 1 .. Bits /\ lastDiscrepancy \in 0 .. Bits /\ Bits \in Nat
  BY RomAssumption DEF TypeOK
<1>2. active = {r \in devices : Same(r, romid, n)}
  BY DEF ReadPass
<1>3. \A r \in active : r \in Rom /\ r[n] \in {0, 1}
  BY <1>1, RomTypes DEF Rom
<1>4. \/ b = WiredAnd(1) /\ c = WiredAnd(0) /\ faults' = faults
      \/ b <= WiredAnd(1) /\ c <= WiredAnd(0) /\ faults' = faults + 1
  BY FaultCounts DEF Read
<1>5. faults \in Nat
  BY FaultCounts
<1>6. ~(b = 0 /\ c = 0) => d = b /\ b # c
  BY DEF Direction
<1>7. ~(b = 0 /\ c = 0) => \A s \in active : s[n] = d
  <2>1. SUFFICES ASSUME ~(b = 0 /\ c = 0), NEW s \in active
                 PROVE  s[n] = d
    OBVIOUS
  <2>2. CASE b = 1 /\ c = 0
    <3>1. WiredAnd(1) = 1
      BY <1>4, <2>2 DEF WiredAnd
    <3>2. QED BY <1>6, <2>1, <2>2, <3>1 DEF WiredAnd
  <2>3. CASE b = 0 /\ c = 1
    <3>1. WiredAnd(0) = 1
      BY <1>4, <2>3 DEF WiredAnd
    <3>2. QED BY <1>6, <2>1, <2>3, <3>1 DEF WiredAnd
  <2>4. QED BY <2>1, <2>2, <2>3
<1>8. \/ \E r \in active : r[n] = d
      \/ active # {} /\ faults' >= 1
      \/ active = {} /\ faults' = faults + 1
  <2>1. CASE faults' = faults + 1
    BY <1>5, <2>1
  <2>2. CASE b = WiredAnd(1) /\ c = WiredAnd(0)
    BY <2>2, ReadIsRight
  <2>3. QED BY <1>4, <2>1, <2>2
<1>9. ASSUME found # {}
      PROVE  Branch /\ found \subseteq devices /\ lastDiscrepancy > 0
  BY <1>9 DEF ReadMemory, Flow, Over, Walking
<1>10. ASSUME found # {}, n < lastDiscrepancy
       PROVE  d = latest[n] /\ romid[n] = latest[n]
  <2>1. romid[n] = latest[n]
    BY <1>1, <1>9, <1>10 DEF Branch, Same
  <2>2. Same(latest, romid, n) /\ latest \in devices
    BY <1>1, <1>9, <1>10 DEF Branch, Same
  <2>3. latest \in active
    BY <1>2, <2>2
  <2>4. CASE b = 0 /\ c = 0
    BY <1>1, <1>10, <2>1, <2>4 DEF Direction
  <2>5. CASE ~(b = 0 /\ c = 0)
    BY <1>7, <2>1, <2>3, <2>5
  <2>6. QED BY <2>1, <2>4, <2>5
<1>11. ASSUME NEW s \in active, s[n] = 0, d = 1
       PROVE  s \in found
  <2>1. b = 0 /\ c = 0
    BY <1>7, <1>11
  <2>2. n <= lastDiscrepancy
    BY <1>1, <1>11, <2>1 DEF Direction
  <2>3. found # {}
    BY <1>1, <2>2 DEF ReadMemory, Flow, Over
  <2>4. s \in devices /\ Same(s, romid, n)
    BY <1>2, <1>11
  <2>5. Same(romid, latest, lastDiscrepancy)
    BY <1>9, <2>3 DEF Branch
  <2>6. Same(s, latest, n)
    BY <1>1, <2>2, <2>4, <2>5 DEF Same
  <2>7. CASE n = lastDiscrepancy
    <3>1. latest[n] = 0
      BY <1>9, <2>3, <2>7 DEF Branch
    <3>2. Same(s, latest, lastDiscrepancy + 1)
      BY <1>1, <1>11, <2>6, <2>7, <3>1 DEF Same
    <3>3. QED BY <1>9, <2>3, <2>4, <3>2 DEF Branch
  <2>8. CASE n < lastDiscrepancy
    <3>1. latest[n] = 1
      BY <1>10, <1>11, <2>3, <2>8
    <3>2. Fork(latest, s, n) /\ n \in 1 .. lastDiscrepancy - 1
      BY <1>1, <1>11, <2>6, <2>8, <3>1 DEF Fork, Same
    <3>3. QED BY <1>9, <2>3, <2>4, <3>2 DEF Branch
  <2>9. QED BY <1>1, <2>2, <2>7, <2>8
<1>12. QED BY <1>7, <1>8, <1>10, <1>11

LEMMA ReadBitSafe ==
  ASSUME TypeOK, ReadMemory, ReadPass, pc = "read", UNCHANGED devices,
         NEW b \in {0, 1}, NEW c \in {0, 1}, ~(b = 1 /\ c = 1), Read(b, c),
         romid' = RomBit(Direction(b, c)),
         last_zero' = IF b = 0 /\ c = 0 /\ Direction(b, c) = 0
                      THEN id_bit_number ELSE last_zero,
         pc' = "write",
         UNCHANGED <<active, id_bit_number, lastDiscrepancy, lastDeviceFlag,
                     history>>
  PROVE  ReadMemory' /\ ReadPass'
<1>. DEFINE n == id_bit_number
            d == Direction(b, c)
<1>1. /\ n \in 1 .. Bits /\ lastDiscrepancy \in 0 .. Bits
      /\ last_zero \in 0 .. n - 1 /\ Bits \in Nat /\ d \in {0, 1}
      /\ faults \in Nat
  BY RomAssumption, DirectionIsBit, FaultCounts DEF TypeOK, ReadPass, Decided, Zero
<1>2. /\ \/ \E r \in active : r[n] = d
         \/ active # {} /\ faults' >= 1
         \/ active = {} /\ faults' = faults + 1
      /\ found # {} /\ n < lastDiscrepancy => d = latest[n]
      /\ ~(b = 0 /\ c = 0) => \A s \in active : s[n] = d
      /\ \A s \in active : s[n] = 0 /\ d = 1 => s \in found
  BY DirectionIsSafe
<1>3. /\ active = {r \in devices : Same(r, romid, n)}
      /\ OnPath(n) /\ Aside(n) /\ Zero(n)
  BY DEF ReadPass, Decided
<1>4. /\ romid \in Rom /\ romid' = [romid EXCEPT ![n] = d]
      /\ \A s \in devices : s[n] \in {0, 1}
  BY <1>1, RomTypes DEF RomBit, Rom
<1>5. /\ romid'[n] = d
      /\ \A i \in 1 .. Bits : i # n => romid'[i] = romid[i]
  BY <1>1, <1>4 DEF Rom
<1>6. \A r : /\ \A m \in 0 .. n : Same(r, romid', m) <=> Same(r, romid, m)
             /\ Same(r, romid', n + 1) <=> Same(r, romid, n) /\ r[n] = d
             /\ \A i \in 1 .. n - 1 : Fork(r, romid', i) <=> Fork(r, romid, i)
             /\ Fork(r, romid', n) <=>
                  Same(r, romid, n) /\ d = 0 /\ r[n] = 1
  BY <1>1, RomBitPath
<1>7. UNCHANGED <<devices, id_bit_number, lastDiscrepancy, lastDeviceFlag, found,
                  latest>>
  BY DEF history
<1>8. faults' = faults \/ faults' = faults + 1
  BY FaultCounts DEF Read
<1>. HIDE DEF d
<1>9. ASSUME found # {}
      PROVE  Branch'
  <2>1. Branch
    BY <1>9 DEF ReadMemory, Over
  <2>2. Same(romid', latest, lastDiscrepancy)
    BY <1>1, <1>2, <1>5, <1>9, <2>1 DEF Branch, Same
  <2>3. QED BY <1>7, <2>1, <2>2 DEF Branch, Same, Fork
<1>10. ReadMemory'
  <2>1. Flow'
    BY <1>7 DEF ReadMemory, Flow, Walking, Over
  <2>2. QED BY <1>7, <1>9, <2>1 DEF ReadMemory, EndedMeansAllFound
<1>11. active' = {r \in devices' : Same(r, romid', n)}
  BY <1>1, <1>3, <1>6, <1>7
<1>12. OnPath(n + 1)'
  <2>1. CASE \E r \in active : r[n] = d
    BY <1>3, <1>6, <1>7, <2>1 DEF OnPath
  <2>2. CASE active # {} /\ faults' >= 1
    <3>1. \E r \in devices : Same(r, romid', n)
      BY <1>1, <1>3, <1>6, <2>2
    <3>2. n \in 1 .. n + 1 - 1 /\ n + 1 - n <= faults'
      BY <1>1, <1>8, <2>2
    <3>3. \E e \in 1 .. n + 1 - 1 : /\ \E r \in devices : Same(r, romid', e)
                                   /\ n + 1 - e <= faults'
      BY <3>1, <3>2
    <3>4. QED BY <1>1, <1>7, <3>3, SMT DEF OnPath, Same
  <2>3. CASE active = {} /\ faults' = faults + 1
    <3>1. PICK e \in 1 .. n - 1 : /\ \E r \in devices : Same(r, romid, e)
                                  /\ n - e <= faults
      BY <1>3, <2>3 DEF OnPath
    <3>2. /\ e \in 1 .. n + 1 - 1 /\ n + 1 - e <= faults'
          /\ \E r \in devices : Same(r, romid', e)
      BY <1>1, <1>6, <2>3, <3>1
    <3>3. QED BY <1>1, <1>7, <3>2, SMT DEF OnPath, Same
  <2>4. QED BY <1>2, <2>1, <2>2, <2>3
<1>13. ASSUME NEW s \in devices
       PROVE  \/ Same(s, romid', n + 1)
              \/ s \in found
              \/ \E i \in 1 .. n : Fork(s, romid', i)
  <2>1. CASE Same(s, romid, n)
    <3>1. s \in active
      BY <1>3, <2>1
    <3>2. CASE s[n] = d
      BY <1>6, <2>1, <3>2
    <3>3. CASE s[n] = 1 /\ d = 0
      BY <1>1, <1>6, <2>1, <3>3
    <3>4. CASE s[n] = 0 /\ d = 1
      BY <1>2, <3>1, <3>4
    <3>5. QED BY <1>1, <1>4, <3>2, <3>3, <3>4
  <2>2. CASE \E i \in 1 .. n - 1 : Fork(s, romid, i)
    BY <1>1, <1>6, <2>2
  <2>3. QED BY <1>3, <2>1, <2>2 DEF Aside
<1>14. Zero(n + 1)'
  <2>1. CASE b = 0 /\ c = 0 /\ d = 0
    <3>1. last_zero' = n
      BY <2>1 DEF d
    <3>2. QED BY <1>1, <1>5, <1>7, <2>1, <3>1 DEF Zero
  <2>2. CASE ~(b = 0 /\ c = 0 /\ d = 0)
    <3>1. last_zero' = last_zero
      BY <2>2 DEF d
    <3>2. last_zero' > 0 => romid'[last_zero'] = 0
      BY <1>1, <1>3, <1>5, <3>1 DEF Zero
    <3>3. ASSUME NEW s \in devices, Same(s, romid', last_zero + 1)
          PROVE  Same(s, romid', n + 1) \/ s \in found
      <4>1. Same(s, romid, last_zero + 1)
        BY <1>1, <1>6, <3>3
      <4>2. Same(s, romid, n) \/ s \in found
        BY <1>3, <4>1 DEF Zero
      <4>3. CASE Same(s, romid, n)
        <5>1. s \in active
          BY <1>3, <4>3
        <5>2. s[n] = d \/ (s[n] = 0 /\ d = 1)
          BY <1>1, <1>2, <1>4, <2>2, <5>1
        <5>3. QED BY <1>2, <1>6, <4>3, <5>1, <5>2
      <4>4. QED BY <4>2, <4>3
    <3>4. QED BY <1>1, <1>7, <3>1, <3>2, <3>3 DEF Zero
  <2>3. QED BY <2>1, <2>2
<1>15. Decided' = n + 1 /\ Aside(n + 1)'
  <2>1. Decided' = n + 1
    BY <1>7 DEF Decided
  <2>2. 1 .. n + 1 - 1 = 1 .. n
    BY <1>1
  <2>3. QED BY <1>1, <1>7, <1>13, <2>1, SMT DEF Aside, Same, Fork
<1>16. ReadPass'
  BY <1>7, <1>11, <1>12, <1>14, <1>15 DEF ReadPass
<1>17. QED BY <1>10, <1>16

LEMMA ReadReadStep ==
  ASSUME TypeOK, ReadMemory, ReadPass, ReadDone
  PROVE  ReadMemory' /\ ReadPass'
<1>1. Walking /\ pc = "read" /\ devices' = devices
  BY DEF ReadDone, Walking
<1>2. CASE Retry
  BY <1>1, <1>2, RetryKeepsRead DEF Retry
<1>3. CASE ~Retry
  <2>1. PICK pair \in {<<0, 0>>, <<0, 1>>, <<1, 0>>} :
          /\ Read(pair[1], pair[2])
          /\ romid' = RomBit(Direction(pair[1], pair[2]))
          /\ last_zero' = IF pair = <<0, 0>> /\ Direction(pair[1], pair[2]) = 0
                          THEN id_bit_number ELSE last_zero
          /\ pc' = "write"
          /\ UNCHANGED <<active, id_bit_number, lastDiscrepancy,
                         lastDeviceFlag, history>>
    BY <1>3 DEF ReadDone
  <2>2. /\ pair[1] \in {0, 1} /\ pair[2] \in {0, 1}
        /\ ~(pair[1] = 1 /\ pair[2] = 1)
        /\ pair = <<0, 0>> <=> pair[1] = 0 /\ pair[2] = 0
    OBVIOUS
  <2>3. QED BY <1>1, <2>1, <2>2, ReadBitSafe
<1>4. QED BY <1>2, <1>3

\* The end of a pass that the CRC lets through: the bits that may be wrong are
\* in the last byte, and there it notices them.
LEMMA PassIsDevice ==
  ASSUME TypeOK, ReadPass, RomsValid, MaxFaults <= 8,
         pc = "write", RomDone, CrcOk
  PROVE  romid \in devices
<1>1. /\ Decided = Bits + 1 /\ Bits \in Nat \ {0} /\ Bits % 8 = 0
      /\ romid \in Rom /\ devices \subseteq Rom /\ devices \subseteq Roms
      /\ faults \in 0 .. MaxFaults /\ MaxFaults \in Nat
  BY RomAssumption, FaultAssumption, RomTypes
  DEF TypeOK, FaultsOK, RomDone, Decided
<1>2. OnPath(Bits + 1)
  BY <1>1 DEF ReadPass
<1>3. CASE \E r \in devices : Same(r, romid, Bits + 1)
  BY <1>1, <1>3, SameIsEqual
<1>4. CASE \E e \in 1 .. Bits : /\ \E r \in devices : Same(r, romid, e)
                                /\ Bits + 1 - e <= faults
  <2>1. PICK e \in 1 .. Bits, r \in devices :
               Same(r, romid, e) /\ Bits + 1 - e <= faults
    BY <1>4
  <2>2. Valid(WrongBits(Differ(r, romid)))
    BY <1>1, ValidDiffer DEF RomsValid, CrcOk
  <2>3. \A i \in Differ(r, romid) : i \in Bits - 7 .. Bits
    BY <1>1, <2>1 DEF Same, Differ
  <2>4. /\ Bits \div 8 \in 1 .. Bits \div 8
        /\ 8 * (Bits \div 8) = Bits
    BY <1>1
  <2>5. Differ(r, romid) \in SUBSET (1 .. Bits)
    BY DEF Differ
  <2>6. Differ(r, romid) = {}
    BY <2>2, <2>3, <2>4, <2>5, ByteNoticed
  <2>7. r = romid
    BY <1>1, <2>6 DEF Differ, Rom
  <2>8. QED BY <2>7
<1>5. QED BY <1>1, <1>2, <1>3, <1>4 DEF OnPath

\* What is kept of it: who is left parts from it at the last zero or before.
LEMMA ReportSafe ==
  ASSUME TypeOK, ReadMemory, ReadPass, pc = "write", RomDone, romid \in devices,
         UNCHANGED <<devices, romid>>,
         found' = found \union {romid}, latest' = romid,
         lastDiscrepancy' = last_zero
  PROVE  Branch'
<1>1. /\ Decided = Bits + 1 /\ last_zero \in 0 .. Bits /\ Bits \in Nat
      /\ romid \in Rom /\ devices \subseteq Rom
  BY RomAssumption, RomTypes DEF Decided, RomDone, TypeOK
<1>2. Aside(Bits + 1) /\ Zero(Bits + 1)
  BY <1>1 DEF ReadPass
<1>3. ASSUME NEW r \in devices, Same(r, romid, last_zero + 1)
      PROVE  r \in found'
  <2>1. Same(r, romid, Bits + 1) \/ r \in found
    BY <1>2, <1>3 DEF Zero
  <2>2. QED BY <1>1, <2>1, SameIsEqual
<1>4. ASSUME NEW r \in devices, NEW i \in 1 .. last_zero - 1, Fork(romid, r, i)
      PROVE  r \in found'
  <2>1. Same(r, romid, i) /\ r[i] = 0 /\ romid[i] = 1
    BY <1>4 DEF Fork, Same
  <2>2. ~Same(r, romid, Bits + 1)
    BY <1>1, <2>1 DEF Same
  <2>3. ASSUME NEW j \in 1 .. Bits, Fork(r, romid, j)
        PROVE  FALSE
    <3>1. Same(r, romid, j) /\ romid[j] = 0 /\ r[j] = 1
      BY <2>3 DEF Fork
    <3>2. i < j \/ j < i \/ i = j
      OBVIOUS
    <3>3. QED BY <2>1, <3>1, <3>2 DEF Same
  <2>4. \/ r \in found
        \/ \E j \in 1 .. Bits : Fork(r, romid, j)
    BY <1>1, <1>2, <2>2 DEF Aside
  <2>5. QED BY <2>3, <2>4
<1>5. last_zero > 0 => romid[last_zero] = 0
  BY <1>2 DEF Zero
<1>6. last_zero = 0 => devices \subseteq found'
  <2>1. \A r : Same(r, romid, 1)
    BY DEF Same
  <2>2. QED BY <1>3, <2>1
<1>7. latest' \in found' /\ Same(romid', latest', lastDiscrepancy')
  BY DEF Same
<1>8. lastDiscrepancy' > 0 =>
        /\ latest'[lastDiscrepancy'] = 0
        /\ \A r \in devices' :
             \/ Same(r, latest', lastDiscrepancy' + 1)
             \/ \E i \in 1 .. lastDiscrepancy' - 1 : Fork(latest', r, i)
             => r \in found'
  BY <1>3, <1>4, <1>5
<1>9. QED BY <1>6, <1>7, <1>8 DEF Branch, Same, Fork

LEMMA ReadWriteStep ==
  ASSUME TypeOK, ReadMemory, ReadPass, RomsValid, MaxFaults <= 8,
         WriteDone, ~misheard'
  PROVE  ReadMemory' /\ ReadPass'
<1>1. Walking /\ pc = "write" /\ devices' = devices
  BY DEF WriteDone, Walking
<1>2. CASE Retry
  BY <1>1, <1>2, RetryKeepsRead DEF Retry
<1>3. CASE ~Retry /\ ~RomDone
  <2>1. PICK bit \in {0, 1} : Hear(bit)
    BY <1>3 DEF WriteDone
  <2>2. /\ active' = {r \in active : r[id_bit_number] = romid[id_bit_number]}
        /\ faults' = faults
    BY <2>1 DEF Hear, Fault, NoFault
  <2>3. /\ id_bit_number' = id_bit_number + 1 /\ pc' = "read"
        /\ UNCHANGED <<last_zero, romid, lastDiscrepancy, lastDeviceFlag, found,
                      latest>>
    BY <1>3 DEF WriteDone, context, history
  <2>4. found' # {} => Branch'
    BY <1>1, <2>3, BranchStays DEF ReadMemory, Over
  <2>5. Flow'
    BY <1>1, <2>3 DEF ReadMemory, Flow, Walking, Over
  <2>6. Decided' = Decided /\ Decided = id_bit_number + 1
    BY <1>1, <2>3 DEF Decided
  <2>7. active' = {r \in devices' : Same(r, romid', id_bit_number')}
    <3>1. active = {r \in devices : Same(r, romid, id_bit_number)}
      BY <1>1 DEF ReadPass
    <3>2. id_bit_number \in 1 .. Bits /\ Bits \in Nat
      BY RomAssumption DEF TypeOK
    <3>3. \A r : Same(r, romid, id_bit_number + 1) <=>
                   /\ Same(r, romid, id_bit_number)
                   /\ r[id_bit_number] = romid[id_bit_number]
      BY <3>2 DEF Same
    <3>4. QED BY <1>1, <2>2, <2>3, <3>1, <3>3
  <2>8. OnPath(Decided) /\ Aside(Decided) /\ Zero(Decided)
    BY <1>1 DEF ReadPass
  <2>9. OnPath(Decided)' /\ Aside(Decided)' /\ Zero(Decided)'
    BY <1>1, <2>2, <2>3, <2>6, <2>8, SMT DEF OnPath, Aside, Zero, Same, Fork
  <2>10. ReadPass'
    BY <2>3, <2>7, <2>9 DEF ReadPass
  <2>11. QED BY <1>1, <2>3, <2>4, <2>5, <2>10 DEF ReadMemory, EndedMeansAllFound
<1>4. CASE ~Retry /\ RomDone
  <2>1. EndPass /\ RomDone
    BY <1>4 DEF WriteDone
  <2>2. CASE ~CrcOk
    BY <1>1, <2>1, <2>2, RetryKeepsRead DEF EndPass
  <2>3. CASE CrcOk /\ Enum!FamilyCode0(romid)
    <3>1. /\ pc' = "ended" /\ lastDiscrepancy' = 0 /\ lastDeviceFlag' = 0
          /\ found' = found /\ romid' = romid
      BY <2>1, <2>3 DEF EndPass, InitWalkROM, history
    <3>2. romid \in devices
      BY <1>1, <2>1, <2>3, PassIsDevice
    <3>3. EndedMeansAllFound'
      BY <1>1, <2>3, <3>1, <3>2 DEF EndedMeansAllFound, Enum!FamilyCode0
    <3>4. Flow'
      BY <3>1 DEF Flow, Over, Walking
    <3>5. QED BY <1>1, <3>1, <3>3, <3>4 DEF ReadMemory, ReadPass, Over
  <2>4. CASE CrcOk /\ ~Enum!FamilyCode0(romid)
    <3>1. /\ lastDiscrepancy' = last_zero
          /\ lastDeviceFlag' = IF last_zero = 0 THEN 1 ELSE lastDeviceFlag
          /\ pc' = "yielded"
          /\ found' = found \union {romid} /\ latest' = romid
          /\ romid' = romid
      BY <2>1, <2>4 DEF EndPass
    <3>2. romid \in devices
      BY <1>1, <2>1, <2>4, PassIsDevice
    <3>3. Branch'
      BY <1>1, <2>1, <3>1, <3>2, ReportSafe
    <3>4. found \subseteq devices /\ lastDeviceFlag = 0
      BY <1>1 DEF ReadMemory, Flow, Walking
    <3>5. Flow'
      BY <3>1, <3>4 DEF Flow, Over, Walking
    <3>6. ReadPass' /\ EndedMeansAllFound'
      BY <3>1 DEF ReadPass, EndedMeansAllFound
    <3>7. QED BY <1>1, <3>1, <3>2, <3>3, <3>4, <3>5, <3>6 DEF ReadMemory
  <2>5. QED BY <2>2, <2>3, <2>4
<1>5. QED BY <1>2, <1>3, <1>4

LEMMA ReadStep ==
  ASSUME ReadInv, RomsValid, MaxFaults <= 8, [Next]_vars
  PROVE  ReadInv'
<1>1. TypeOK'
  BY TypeStep DEF ReadInv
<1>2. SUFFICES ASSUME ~misheard'
               PROVE  ReadMemory' /\ ReadPass'
  BY <1>1 DEF ReadInv
<1>3. TypeOK /\ ReadMemory /\ ReadPass
  BY <1>2, HeardBefore DEF ReadInv
<1>4. CASE Next
  BY <1>2, <1>3, <1>4, ReadOutsideStep, ReadCommandStep, ReadReadStep,
     ReadWriteStep DEF Next, Step
<1>5. CASE UNCHANGED vars
  BY <1>3, <1>5 DEF ReadMemory, ReadPass, Flow, Branch, OnPath, Aside, Zero,
     Same, Fork, Decided, Walking, Over, EndedMeansAllFound, Enum!FamilyCode0,
     vars, context, history
<1>6. QED BY <1>4, <1>5

LEMMA ReadStarts ==
  ASSUME Init
  PROVE  ReadInv
<1>1. TypeOK
  BY InitType
<1>2. ReadMemory /\ ReadPass
  BY DEF Init, ReadMemory, ReadPass, Flow, Walking, Over, EndedMeansAllFound
<1>3. QED BY <1>1, <1>2 DEF ReadInv

\* Whatever is read wrong, up to a byte of bits, no device is skipped for it,
\* whatever ROMs of any length there are; only a direction that a device heard
\* wrong can lose one.
THEOREM NothingIsLost ==
  ASSUME RomsValid, MaxFaults <= 8
  PROVE  Spec => []NothingLost
<1>1. ReadInv => NothingLost
  BY DEF ReadInv, ReadMemory, NothingLost
<1>2. QED BY <1>1, ReadStep, ReadStarts, PTL DEF Spec

\* Nor does what is read wrong alone bring a ROM that no device has.
THEOREM ReadsBringNoPhantom ==
  ASSUME RomsValid, MaxFaults <= 8, "write" \notin Faults
  PROVE  Spec => []NoPhantom
<1>. DEFINE Inv == ReadInv /\ ~misheard
<1>1. Init => Inv
  BY ReadStarts DEF Init
<1>2. ASSUME Inv, [Next]_vars
      PROVE  Inv'
  <2>1. ReadInv'
    BY <1>2, ReadStep
  <2>2. /\ \A k : Fault(k) => ~misheard'
        /\ NoFault => ~misheard'
    BY <1>2 DEF Fault, NoFault
  <2>3. ~misheard'
    BY <1>2, <2>2 DEF Next, Step, Start, Resume, ResetDone, CommandDone, ReadDone,
       WriteDone, Read, Hear, vars
  <2>4. QED BY <2>1, <2>3
<1>3. Inv => NoPhantom
  BY DEF ReadInv, ReadMemory, NoPhantom
<1>. HIDE DEF Inv
<1>4. QED BY <1>1, <1>2, <1>3, PTL DEF Spec
=============================================================================
