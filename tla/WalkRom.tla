------------------------------- MODULE WalkRom -------------------------------
(***************************************************************************)
(* The search of mod_1wire_search.c: the protothread ptOneWireWalkROM and  *)
(* ptOneWireInitWalkROM.                                                   *)
(*                                                                         *)
(* The thread gives up the CPU at each driver operation; an action below   *)
(* is the end of that operation and what the thread does up to the next    *)
(* one.  The devices are not code of the repository: each takes part in a  *)
(* pass from its RESET until a direction is written that is not its bit;   *)
(* the line is wired-AND, so a read gives 1 only when all of them send 1.  *)
(*                                                                         *)
(* rom_byte_number and rom_byte_mask are the position id_bit_number again, *)
(* split for byte access, and lastFamilyDiscrepancy is never read: neither *)
(* is kept.                                                                *)
(***************************************************************************)
EXTENDS Crc8, FiniteSets

CONSTANTS
  Bits, Family, Roms,  \* see RomEnum
  Faults,     \* what may go wrong on the bus, see Fault
  MaxFaults   \* bound on how often

ASSUME RomAssumption ==
  /\ Bits \in Nat \ {0} /\ Bits % 8 = 0
  /\ Family \in 1 .. Bits
  /\ Roms \subseteq [1 .. Bits -> {0, 1}]

ASSUME FaultAssumption ==
  /\ Faults \subseteq {"reset", "io", "read", "write"}
  /\ MaxFaults \in Nat

VARIABLES
  devices,          \* the ROMs on the bus
  active,           \* those that still take part in this pass
  pc,               \* where the thread waits, see PC
  id_bit_number,    \* ROM bit in work, from 1
  last_zero,        \* last discrepancy of this pass where 0 was taken
  lastDiscrepancy,  \* the same of the last successful pass
  lastDeviceFlag,   \* was that pass the last one?
  romid,            \* the ROM bits of this pass, over those of the last one
  found,            \* history: the ROMs this search returned
  latest,           \* history: the last one of them
  faults,           \* faults so far
  misheard          \* history: was one of them a direction heard wrong?

context == <<lastDiscrepancy, lastDeviceFlag, romid>>
history == <<found, latest>>
vars == <<devices, active, pc, id_bit_number, last_zero, context, history,
          faults, misheard>>

PC == {"start",                     \* not called yet, or the search is over
       "reset", "command",          \* waits for RESET, the SEARCH ROM byte
       "read", "write",             \* waits for two bits, for the direction
       "yielded",                   \* PT_YIELD: romid is a device
       "ended", "exited"}           \* PT_END, PT_EXIT

State == CASE pc = "yielded" -> "found"
           [] pc \in {"start", "ended", "exited"} -> "over"
           [] OTHER -> "walking"
Enum == INSTANCE RomEnum WITH state <- State

FaultsOK == faults \in 0 .. MaxFaults /\ misheard \in BOOLEAN

TypeOK ==
  /\ devices \subseteq Roms /\ active \subseteq devices
  /\ pc \in PC
  /\ id_bit_number \in 1 .. Bits
  /\ last_zero \in 0 .. Bits
  /\ lastDiscrepancy \in 0 .. Bits
  /\ lastDeviceFlag \in {0, 1}
  /\ romid \in Enum!Rom
  /\ found \subseteq Enum!Rom /\ latest \in Enum!Rom
  /\ FaultsOK

Init ==
  /\ devices \in SUBSET Roms
  /\ active = {}
  /\ pc = "start"
  /\ id_bit_number = 1
  /\ last_zero = 0
  /\ lastDiscrepancy = 0
  /\ lastDeviceFlag = 0
  /\ romid = [i \in 1 .. Bits |-> 0]
  /\ found = {}
  /\ latest = romid
  /\ faults = 0
  /\ misheard = FALSE

-----------------------------------------------------------------------------
Fault(kind) ==
  /\ kind \in Faults /\ faults < MaxFaults
  /\ faults' = faults + 1
  /\ misheard' = (misheard \/ kind = "write")

NoFault == UNCHANGED <<faults, misheard>>

\* The head of the loop: the variables of a pass, and RESET is issued.
BeginPass ==
  /\ pc' = "reset"
  /\ id_bit_number' = 1
  /\ last_zero' = 0

\* "Repeat procedure from original point": the loop goes round, keeping what
\* the last successful pass left (and a mutant: a failed pass counts too).
Retry_Commit ==
  /\ BeginPass
  /\ lastDiscrepancy' = last_zero
  /\ UNCHANGED <<active, lastDeviceFlag, romid, history>>
Retry ==
  /\ BeginPass
  /\ UNCHANGED <<active, context, history>>

\* ptOneWireInitWalkROM.
InitWalkROM ==
  /\ lastDiscrepancy' = 0
  /\ lastDeviceFlag' = 0

\* The first call of a search.
Start ==
  /\ pc \in {"start", "ended", "exited"}
  /\ BeginPass
  /\ found' = {}
  /\ NoFault
  /\ UNCHANGED <<devices, active, context, latest>>

\* The next call after PT_YIELD: go on, or all devices were found.
Resume ==
  /\ pc = "yielded"
  /\ \/ /\ lastDeviceFlag = 0
        /\ Retry
     \/ /\ lastDeviceFlag = 1
        /\ InitWalkROM
        /\ pc' = "ended"
        /\ UNCHANGED <<active, id_bit_number, last_zero, romid, history>>
  /\ NoFault
  /\ UNCHANGED devices

\* RESET is over: with PRESENCE the command is sent, else PT_EXIT.
ResetDone ==
  /\ pc = "reset"
  /\ \/ /\ devices # {}
        /\ active' = devices
        /\ pc' = "command"
        /\ NoFault
        /\ UNCHANGED context
     \/ /\ \/ devices = {} /\ NoFault
           \/ devices # {} /\ Fault("reset")
        /\ InitWalkROM
        /\ pc' = "exited"
        /\ UNCHANGED <<active, romid>>
  /\ UNCHANGED <<devices, id_bit_number, last_zero, history>>

\* The command byte was sent and its echo compared.
CommandDone ==
  /\ pc = "command"
  /\ \/ /\ pc' = "read"
        /\ NoFault
        /\ UNCHANGED <<active, id_bit_number, last_zero, context, history>>
     \/ Fault("io") /\ Retry
  /\ UNCHANGED devices

\* What the devices send for a bit and its complement.
WiredAnd(b) ==
  IF \A r \in active : r[id_bit_number] = b THEN 1 ELSE 0
\* What is read of it: a fault can hold the line low and turn a 1 into a 0.
Read(id_bit, cmp_id_bit) ==
  LET right == id_bit = WiredAnd(1) /\ cmp_id_bit = WiredAnd(0)
  IN  \/ right /\ NoFault
      \/ /\ ~right /\ id_bit <= WiredAnd(1) /\ cmp_id_bit <= WiredAnd(0)
         /\ Fault("read")

\* Which way to go (and mutants: the direction of the last pass is not
\* followed; the branch not taken then is not taken now either).
Direction_Zero(id_bit, cmp_id_bit) ==
  CASE id_bit # cmp_id_bit -> id_bit
    [] OTHER -> IF id_bit_number = lastDiscrepancy THEN 1 ELSE 0
Direction_SameAgain(id_bit, cmp_id_bit) ==
  CASE id_bit # cmp_id_bit -> id_bit
    [] OTHER -> IF id_bit_number <= lastDiscrepancy
                THEN romid[id_bit_number] ELSE 0
Direction(id_bit, cmp_id_bit) ==
  CASE id_bit # cmp_id_bit -> id_bit
    [] id_bit = cmp_id_bit /\ id_bit_number < lastDiscrepancy
         -> romid[id_bit_number]
    [] OTHER -> IF id_bit_number = lastDiscrepancy THEN 1 ELSE 0

\* The bit is set or cleared in romid (and a mutant: it is never cleared).
RomBit_SetOnly(search_direction) ==
  IF search_direction = 1
  THEN [romid EXCEPT ![id_bit_number] = 1] ELSE romid
RomBit(search_direction) ==
  [romid EXCEPT ![id_bit_number] = search_direction]

\* Two bits were received: both 1 means that no device takes part any more.
ReadDone ==
  /\ pc = "read"
  /\ \/ Fault("io") /\ Retry
     \/ Read(1, 1) /\ Retry
     \/ \E pair \in {<<0, 0>>, <<0, 1>>, <<1, 0>>} :
          /\ Read(pair[1], pair[2])
          /\ LET search_direction == Direction(pair[1], pair[2])
             IN  /\ romid' = RomBit(search_direction)
                 /\ last_zero' = IF pair = <<0, 0>> /\ search_direction = 0
                                 THEN id_bit_number ELSE last_zero
          /\ pc' = "write"
          /\ UNCHANGED <<active, id_bit_number, lastDiscrepancy,
                         lastDeviceFlag, history>>
  /\ UNCHANGED devices

\* The devices hear the direction; a fault can turn a 1 into a 0.
Hear(bit) ==
  /\ \/ bit = romid[id_bit_number] /\ NoFault
     \/ bit = 0 /\ romid[id_bit_number] = 1 /\ Fault("write")
  /\ active' = {r \in active : r[id_bit_number] = bit}

\* ROM_BYTE_NUMBER reached 8 (and a mutant: a bit later).
RomDone_OneMore == id_bit_number > Bits
RomDone == id_bit_number = Bits

\* The bytes of a ROM, and whether their CRC is 0.
RomBytes(r) == [k \in 1 .. Bits \div 8 |-> {i \in 0 .. 7 : r[8 * k + i - 7] = 1}]
Valid(r) == Crc(RomBytes(r), Bits \div 8) = {}
CrcOk == Valid(romid)

\* All bits are done: check the CRC and the family code, return the device
\* (and a mutant: without the CRC).
EndPass_NoCrc ==
  \/ /\ Enum!FamilyCode0(romid)
     /\ InitWalkROM
     /\ pc' = "ended"
     /\ UNCHANGED <<id_bit_number, last_zero, romid, history>>
  \/ /\ ~Enum!FamilyCode0(romid)
     /\ lastDiscrepancy' = last_zero
     /\ lastDeviceFlag' = IF last_zero = 0 THEN 1 ELSE lastDeviceFlag
     /\ pc' = "yielded"
     /\ found' = found \union {romid} /\ latest' = romid
     /\ UNCHANGED <<id_bit_number, last_zero, romid>>
EndPass ==
  \/ /\ ~CrcOk
     /\ BeginPass
     /\ UNCHANGED <<context, history>>
  \/ /\ CrcOk /\ Enum!FamilyCode0(romid)
     /\ InitWalkROM
     /\ pc' = "ended"
     /\ UNCHANGED <<id_bit_number, last_zero, romid, history>>
  \/ /\ CrcOk /\ ~Enum!FamilyCode0(romid)
     /\ lastDiscrepancy' = last_zero
     /\ lastDeviceFlag' = IF last_zero = 0 THEN 1 ELSE lastDeviceFlag
     /\ pc' = "yielded"
     /\ found' = found \union {romid} /\ latest' = romid
     /\ UNCHANGED <<id_bit_number, last_zero, romid>>

\* The direction was sent; its echo is not looked at.
WriteDone ==
  /\ pc = "write"
  /\ \/ Fault("io") /\ Retry
     \/ /\ ~RomDone
        /\ \E bit \in {0, 1} : Hear(bit)
        /\ id_bit_number' = id_bit_number + 1
        /\ pc' = "read"
        /\ UNCHANGED <<last_zero, context, history>>
     \/ /\ RomDone
        /\ \E bit \in {0, 1} : Hear(bit)
        /\ EndPass
  /\ UNCHANGED devices

Step == ResetDone \/ CommandDone \/ ReadDone \/ WriteDone
Next == Start \/ Resume \/ Step

\* Operations end, and the thread is called again when they do.  Whether the
\* caller starts a search or asks for another device is its own business.
Spec == Init /\ [][Next]_vars /\ WF_vars(Step)

-----------------------------------------------------------------------------
\* As long as a fault is seen to be one, whatever operation it hits, the search
\* returns each device once and in order, and never ends before the last one
\* but by giving up, as it does after a RESET that failed (the loop of
\* ptOneWireWalkROM takes the steps of RomEnum) ...
EnumSteps == Enum!Init /\ [][Enum!Next]_(Enum!vars)

\* ... and it always answers.
EnumSpec == Enum!Spec

\* Every pass, also one that repeats a failed pass, starts from where the
\* last device was found: the path to its last discrepancy is still in romid,
\* although the passes in between wrote over it.
OriginalPoint ==
  pc = "reset" /\ found # {} =>
    \A i \in 1 .. lastDiscrepancy - 1 : romid[i] = latest[i]

\* What the search notices such a pass by: every ROM ends in its CRC, and the
\* CRC of a ROM of wrong bits only is not 0 when there are at most n of them.
RomsValid == \A r \in Roms : Valid(r)
WrongBits(S) == [i \in 1 .. Bits |-> IF i \in S THEN 1 ELSE 0]
CrcNotices(n) ==
  \A S \in SUBSET (1 .. Bits) :
    S # {} /\ Cardinality(S) <= n => ~Valid(WrongBits(S))

\* Whichever bits are read or heard wrong, no ROM is returned that is not on
\* the bus: a pass that went astray is cut short or fails the CRC.  This is of
\* at most MaxFaults wrong bits, as many as the CRC notices for certain.
NoPhantom == found \subseteq devices

\* Whatever went wrong, up to MaxFaults times, a search that was asked for a
\* device answers: retries from a corrupted romid do not go round for ever.
\* (With operations that never stop failing they do: nothing limits them.)
Answers == (State = "walking") ~> (State # "walking")

\* "PT_EXITED or PT_ENDED - no more devices at the bus".
EndedMeansAllFound ==
  pc = "ended" => \/ devices \subseteq found
                  \/ \E r \in devices : Enum!FamilyCode0(r)

\* Only a direction heard wrong can do that: whatever is read wrong, also a
\* complement read as 0, which makes a discrepancy where there is none and
\* passes the CRC, no device is skipped for it, although the thread takes the
\* position for its LAST_DISCREPANCY.
NothingLost == ~misheard => EndedMeansAllFound
=============================================================================
