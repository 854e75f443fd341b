------------------------------ MODULE ProbeBus ------------------------------
(***************************************************************************)
(* The probing of the bus in mod_1wire.c: the protothread ptOneWireProbeBus*)
(* with ptOneWireTargetAll nested in it, and modOneWireReset, with which a *)
(* search begins its passes in the mode the probe has found.               *)
(*                                                                         *)
(* The driver is OneWireOp, on which devices act; the event that ends a    *)
(* wait is left to VosIdle.  The thread is called again and again, and     *)
(* returns at once while an operation is in progress: an action is what it *)
(* does from the end of one operation to the start of the next.            *)
(*                                                                         *)
(* The devices are not code of the repository.  A RESET in overdrive is    *)
(* answered by those that support it, and only who answered the last RESET *)
(* takes part in what follows.                                             *)
(***************************************************************************)
EXTENDS Integers

CONSTANTS
  Devices,     \* what may be attached to the bus
  Overdrive,   \* the devices that support overdrive,
  Parasite,    \* those without a supply of their own
  Faults,      \* what may go wrong, see Fault
  MaxFaults    \* bound on how often

ASSUME ProbeAssumption ==
  /\ Overdrive \subseteq Devices
  /\ Parasite \subseteq Devices
  /\ Faults \subseteq {"reset", "refuse", "io", "skip", "power", "decode"}
  /\ MaxFaults \in Nat

VARIABLES
  devices,    \* the devices on the bus
  active,     \* those that answered the last RESET
  told,       \* those that heard READ POWER SUPPLY
  status, presence, call,  \* see OneWireOp
  overdrive,  \* drv_onewire_context.overdrive
  parasite,   \* drv_onewire_context.parasite
  value,      \* what drvOneWireRxBits returns after an exchange: of a byte
              \* 1 if it is the one sent and 0 if not, -1 if it does not decode
  pc,         \* what the caller waits for, see PC
  faults      \* faults so far

Op == INSTANCE OneWireOp WITH al <- 0

opVars == <<status, presence, call>>
busVars == <<devices, active, told>>
vars == <<busVars, opVars, overdrive, parasite, value, pc, faults>>

Probing  == {"overdrive", "normal",   \* the two RESETs
             "target",                \* SKIP ROM, of the nested thread
             "power", "bit"}          \* READ POWER SUPPLY, its answer
Returned == {"ended", "exited"}       \* PT_END, PT_EXIT
PC == {"start", "search"} \union Probing \union Returned

TypeOK ==
  /\ devices \subseteq Devices /\ active \subseteq devices
  /\ told \subseteq active
  /\ Op!TypeOK
  /\ overdrive \in {0, 1} /\ parasite \in {0, 1}
  /\ value \in -1 .. 1
  /\ pc \in PC
  /\ faults \in 0 .. MaxFaults

Init ==
  /\ devices = {} /\ active = {} /\ told = {}
  /\ Op!Init
  /\ overdrive = 0 /\ parasite = 0
  /\ value = 0
  /\ pc = "start"
  /\ faults = 0

-----------------------------------------------------------------------------
Fault(kind) ==
  /\ kind \in Faults /\ faults < MaxFaults
  /\ faults' = faults + 1
NoFault == UNCHANGED faults

\* Who hears a RESET of the current speed.
Listening == IF overdrive = 1 THEN devices \intersect Overdrive ELSE devices

\* The driver ends a RESET ...
ResetEnds ==
  /\ call = "reset" /\ Op!Finish
  /\ \/ /\ Listening # {} /\ status' = Op!COMPLETE
        /\ active' = Listening
        /\ NoFault
     \/ /\ status' = Op!ERROR
        /\ active' = {}
        /\ IF Listening = {} THEN NoFault ELSE Fault("reset")
  /\ told' = {}
  /\ UNCHANGED <<devices, overdrive, parasite, value, pc>>

\* ... or an exchange.  The byte of a command can be spoilt on the line: its
\* echo is wrong, and some devices do not hear the command.  Without SKIP ROM
\* they are out of it.  The answer to READ POWER SUPPLY is 0 if any device that
\* heard it sends 0.
Exchange ==
  \/ /\ pc = "target"
     /\ \/ value' = 1 /\ NoFault /\ UNCHANGED active
        \/ value' \in {-1, 0} /\ active' \in SUBSET active /\ Fault("skip")
     /\ told' = {}
  \/ /\ pc = "power"
     /\ \/ value' = 1 /\ told' = active /\ NoFault
        \/ value' \in {-1, 0} /\ told' \in SUBSET active /\ Fault("power")
     /\ UNCHANGED active
  \/ /\ pc = "bit"
     /\ \/ /\ value' = IF told \intersect Parasite = {} THEN 1 ELSE 0
           /\ NoFault
        \/ value' = -1 /\ Fault("decode")
     /\ UNCHANGED <<active, told>>
IoEnds ==
  /\ call = "io" /\ Op!Finish
  /\ \/ status' = Op!COMPLETE /\ Exchange
     \/ status' = Op!ERROR /\ Fault("io") /\ UNCHANGED <<value, active, told>>
  /\ UNCHANGED <<devices, overdrive, parasite, pc>>

-----------------------------------------------------------------------------
\* drvOneWireReset; it never fails to begin.
Reset(od) ==
  /\ status' = Op!PROGRESS /\ presence' = 0 /\ call' = "reset"
  /\ overdrive' = od
  /\ NoFault

\* drvOneWireTxBits: the thread waits at next, or goes on with an ERROR when
\* DMA is busy, which ends it in all three places.
TxBits(next) ==
  /\ call' = "io"
  /\ \/ status' = Op!PROGRESS /\ pc' = next /\ NoFault
     \/ status' = Op!ERROR /\ pc' = "ended" /\ Fault("refuse")
  /\ UNCHANGED <<presence, parasite>>

\* PT_END with this status.
End(result) ==
  /\ status' = result /\ pc' = "ended"
  /\ NoFault
  /\ UNCHANGED <<presence, call>>

\* The first call of the thread.  Devices come and go between two probes.
Start ==
  /\ pc \in {"start"} \union Returned
  /\ devices' \in SUBSET Devices /\ active' = {} /\ told' = {}
  /\ parasite' = 0
  /\ Reset(1)
  /\ pc' = "overdrive"
  /\ UNCHANGED value

\* PT_WAIT_IO_COMPLETE and IO_SUCCESS.
Called(at) == pc = at /\ status # Op!PROGRESS
IoSuccess  == status = Op!COMPLETE
Present    == IoSuccess /\ presence = 1

\* PRESENCE in overdrive: go on in that mode, else try the other (and a
\* mutant: try overdrive again).
OverdriveDone_Again ==
  /\ Called("overdrive")
  /\ \/ /\ Present
        /\ TxBits("target")
        /\ UNCHANGED overdrive
     \/ /\ ~Present
        /\ Reset(1)
        /\ pc' = "normal"
        /\ UNCHANGED parasite
  /\ UNCHANGED <<busVars, value>>
OverdriveDone ==
  /\ Called("overdrive")
  /\ \/ /\ Present
        /\ TxBits("target")
        /\ UNCHANGED overdrive
     \/ /\ ~Present
        /\ Reset(0)
        /\ pc' = "normal"
        /\ UNCHANGED parasite
  /\ UNCHANGED <<busVars, value>>

\* No PRESENCE in either mode: no devices on the bus (and a mutant: go on).
NormalDone_GoOn ==
  /\ Called("normal")
  /\ TxBits("target")
  /\ UNCHANGED <<busVars, value, overdrive>>
NormalDone ==
  /\ Called("normal")
  /\ \/ Present /\ TxBits("target")
     \/ ~Present /\ pc' = "exited" /\ NoFault /\ UNCHANGED <<opVars, parasite>>
  /\ UNCHANGED <<busVars, value, overdrive>>

\* The nested thread stores a wrong echo in STATUS and ends; STATUS is what
\* the outer one looks at (and a mutant: it looks at the exchange's own).
TargetDone_AnyEcho ==
  /\ Called("target")
  /\ \/ IoSuccess /\ TxBits("power")
     \/ ~IoSuccess /\ End(Op!ERROR) /\ UNCHANGED parasite
  /\ UNCHANGED <<busVars, value, overdrive>>
TargetDone ==
  /\ Called("target")
  /\ \/ /\ IoSuccess /\ value = 1
        /\ TxBits("power")
     \/ /\ ~(IoSuccess /\ value = 1)
        /\ End(Op!ERROR)
        /\ UNCHANGED parasite
  /\ UNCHANGED <<busVars, value, overdrive>>

\* The same macro, but now the outer thread looks at its copy of the status
\* before: after a wrong echo it goes on, and STATUS is overwritten.
PowerDone ==
  /\ Called("power")
  /\ \/ IoSuccess /\ TxBits("bit")
     \/ ~IoSuccess /\ End(Op!ERROR) /\ UNCHANGED parasite
  /\ UNCHANGED <<busVars, value, overdrive>>

\* The answer: 0 is parasite power.
BitDone ==
  /\ Called("bit")
  /\ \/ /\ IoSuccess /\ value >= 0
        /\ parasite' = IF value = 0 THEN 1 ELSE 0
        /\ End(status)
     \/ /\ ~(IoSuccess /\ value >= 0)
        /\ End(Op!ERROR)
        /\ UNCHANGED parasite
  /\ UNCHANGED <<busVars, value, overdrive>>

\* A search begins a pass with modOneWireReset; how it goes on is WalkRom.
ModOneWireReset ==
  /\ pc \in Returned
  /\ Reset(overdrive)
  /\ pc' = "search"
  /\ UNCHANGED <<busVars, value, parasite>>

SearchDone ==
  /\ Called("search")
  /\ pc' = "exited"
  /\ UNCHANGED <<busVars, opVars, overdrive, parasite, value, faults>>

Thread ==
  \/ Start \/ OverdriveDone \/ NormalDone \/ TargetDone \/ PowerDone \/ BitDone
  \/ ModOneWireReset \/ SearchDone
Next == ResetEnds \/ IoEnds \/ Thread

Spec == Init /\ [][Next]_vars

-----------------------------------------------------------------------------
\* Every operation is started as OneWireOp asks of its callers: bits only
\* after a PRESENCE, which drvOneWireTxBits does not test itself, and nothing
\* while an operation is in progress.  Between operations the thread may store
\* its own ERROR in STATUS.
MarkError ==
  /\ Op!Ready
  /\ status' = Op!ERROR
  /\ UNCHANGED <<presence, call>>
CallsAllowed == [][Op!Next \/ MarkError]_opVars

\* After a probe that completed every device the RESET could reach was selected,
\* and the flag is what those that heard the command say; when a probe fails, in
\* whatever step, no flag is left over from an earlier one.
ParasiteFlag ==
  /\ pc = "ended" /\ status = Op!COMPLETE =>
       /\ active = Listening
       /\ parasite = 1 <=> told \intersect Parasite # {}
  /\ pc \in Probing \/ (pc = "ended" /\ status # Op!COMPLETE) => parasite = 0

\* The mode a probe leaves behind is one in which somebody listens, if there
\* is anybody at all: a search is not deaf because of a probe that failed.
ModeReaches ==
  pc \in Returned \union {"search"} /\ devices # {} => Listening # {}

\* "If one or mode devices use parasite power then we set appropriate flag":
\* the code compares the echo of READ POWER SUPPLY, so a command that was not
\* heard must not count as an answer.
ParasitePowerFlagged ==
  pc = "ended" /\ status = Op!COMPLETE /\ active \intersect Parasite # {} =>
    parasite = 1
=============================================================================
