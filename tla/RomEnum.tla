------------------------------- MODULE RomEnum -------------------------------
(***************************************************************************)
(* What a search of the bus promises: each device is found once, in the    *)
(* order of the ROMs read from their first bit on, and the search is over  *)
(* when there is none left, when a ROM with family code 0 comes next, or   *)
(* when a RESET of the bus failed.                                         *)
(***************************************************************************)
EXTENDS Integers

CONSTANTS
  Bits,    \* bits of a ROM: 64
  Family,  \* how many of them, the first, are the family code: 8
  Roms     \* the ROMs a device may have

Rom == [1 .. Bits -> {0, 1}]

VARIABLES
  devices,  \* the ROMs of the devices on the bus
  found,    \* the ROMs reported by this search so far
  state     \* "walking", "found" (one was reported) or "over"

vars == <<devices, found, state>>

\* r is reported before s: they differ first where r has a 0.
Before(r, s) ==
  \E i \in 1 .. Bits :
    /\ r[i] = 0 /\ s[i] = 1
    /\ \A j \in 1 .. i - 1 : r[j] = s[j]

FamilyCode0(r) == \A i \in 1 .. Family : r[i] = 0

\* r is the first of the devices not reported yet.
Due(r) ==
  /\ r \in devices \ found
  /\ \A s \in devices \ found : s = r \/ Before(r, s)

Init ==
  /\ devices \in SUBSET Roms
  /\ found = {}
  /\ state = "over"

Start ==
  /\ state = "over"
  /\ state' = "walking" /\ found' = {}
  /\ UNCHANGED devices

Continue ==
  /\ state = "found"
  /\ state' = "walking"
  /\ UNCHANGED <<devices, found>>

Report(r) ==
  /\ state = "walking"
  /\ Due(r) /\ ~FamilyCode0(r)
  /\ state' = "found" /\ found' = found \union {r}
  /\ UNCHANGED devices

\* All were reported: seen when the search is asked for another one.
Finish ==
  /\ \/ state = "found" /\ found = devices
     \/ state = "walking" /\ \E r \in devices : Due(r) /\ FamilyCode0(r)
  /\ state' = "over"
  /\ UNCHANGED <<devices, found>>

\* A RESET of the bus failed, as it does when there are no devices.
GiveUp ==
  /\ state = "walking"
  /\ state' = "over"
  /\ UNCHANGED <<devices, found>>

Answer == (\E r \in devices : Report(r)) \/ GiveUp \/ (state = "walking" /\ Finish)
Next == Start \/ Continue \/ Answer \/ Finish

\* A search that was asked for a device answers.
Spec == Init /\ [][Next]_vars /\ WF_vars(Answer)
=============================================================================
