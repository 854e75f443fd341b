# A verification of the STM8L 1-Wire bus driver

TLA+ specifications of the driver in both its builds, of the main program from reset on,
and of the bus probing and the ROM search on top of the driver; TLC configurations that
check them on small instances; and theorems, checked by TLAPS, that hold for every value
of the constants. Paths are relative to the repository (`drv_1wire.c` is
`src/vos/drv/1wire/drv_1wire.c`, `res_1wire.h` is `inc/res/stm8/res_1wire.h`,
`mod_1wire.c` and `mod_1wire_search.c` are in `src/vos/mod/1wire/`).

## 1. The system

One microcontroller is the master of a 1-Wire bus. A main program switches the clock,
attaches the driver and starts operations; timer TIM3 produces the low pulses on one pin
(channel 1, PWM) and measures the line on another (channel 2, capture). In one build two
DMA channels feed the first and drain the second, in the other the interrupt handlers do
it bit by bit. The handlers carry an operation from step to step and end it.

| Component | State it keeps | Operations | Interacts through |
|---|---|---|---|
| Bit-level driver, DMA build (`drv_1wire.c`, as `testPWM.ewp:192-193` builds it) | `drv_onewire_context`: status, presence, overdrive, the presence mark, eight durations | Reset, TxBits, RxBits, Status, ActivePullupOn/Off; handlers of timer overflow, PWM/capture, PWM DMA, capture DMA; OperationComplete | timer and DMA registers; `status`; the significant event |
| The same, interrupt build (no `__DRV_ONEWIRE_DMA`) | a byte and a count instead of durations | the same, one handler per bit | the same |
| Resource layer (`res_1wire.h`, `res_dma.h`) | the registers | inline functions that set, clear and test them | hardware |
| Timing (`timing.h`, `drv_1wire.h`) | none | constants, `drvOneWireDecodeBit` | |
| Kernel (`kernel.h`, `kernel.c`) | bit AL of CPU_CFG_GCR | fire and consume the significant event, `vosIdle` | handlers set AL to 0, `vosIdle` reads it and sleeps |
| Clock and attach (`drv_clk.c`, `drvOneWireAttach`) | desired prescaler, clock registers, the timer's prescaler | getSysClk, setSysClkSource, switch interrupt, attach | `main` polls SWBSY, attach reads the frequency |
| ROM search (`mod_1wire_search.c`) | search context: romid, last discrepancy, last-device flag, position | `ptOneWireWalkROM`, `ptOneWireInitWalkROM` | driver operations, a protothread |
| Bus probing, CRC (`mod_1wire.c`) | parasite flag, STATUS | ProbeBus, TargetAll, modOneWireReset, UpdateCRC | driver operations, protothreads |
| Main program (`main.c`) | none of its own | start-up, the test sequence, `waitComplete`, `indicateError` | all of the above |
| Protothread headers, `sys/queue.h` | | third-party; `queue.h`, `graham-pt.h`, `pt-sem.h`, `lc-addrlabels.h` are not used | |

What is hard here: the handlers share registers, flags and one buffer with each
other and with the hardware, which does not wait for them; the end of an
operation races with the main program going to sleep; a RESET's window races
with the answer it waits for; the end of the clock switch races with `main`, which polls
for it; the search must survive failures at every one of its operations with one array
that is both its memory and its scratch space.
`PROJECT.json` lists each hazard at its line, with the properties that cover it.

What makes each part correct:

* driver: an operation that is started ends, once, with the event fired, and
  leaves nothing armed; what it reports (PRESENCE, bits, an error) is what was
  on the line; what it sends is what it was given and no more;
* waiting: the CPU never sleeps when no interrupt will come, every wait returns;
* clock and attach: the timer counts at the rate the constants assume, or not at all;
* search: every device once, in order, whatever fails; nothing that is not on
  the bus; an answer in the end;
* probing: the flag says what the devices said, and only if it was read.

## 2. The modules

    OneWireTiming   constants in ticks, DecodeBit, the PRESENCE checks
       Res1Wire     TIM3 and DMA1 as records, the inline functions on them
          OneWireBus   the timer, DMA, line and devices running by themselves
             DrvOneWire   the driver, what both builds share, and its properties
                DrvOneWireDma   the DMA build        ->  implements OneWireOp
                   MCDrvOneWireDma
                DrvOneWireIrq   the interrupt build  ->  implements OneWireOp
                   MCDrvOneWireIrq
    OneWireOp       what the driver promises its caller
       VosIdle      waitComplete and vosIdle over it
          TestMain  main.c, its tests                ->  implements VosIdle
             StartMain   main.c from reset, with SysClk and the attach
       ProbeBus     mod_1wire.c over it              ->  keeps OneWireOp's rules
          MCProbeBus
    SysClk          drv_clk.c
    RomEnum         what a search promises
    Crc8            the CRC of mod_1wire.c
       WalkRom      mod_1wire_search.c               ->  implements RomEnum
          MCWalkRom

    DrvOneWireProofs (timing, both builds), DrvOneWireDmaProofs, DmaSlotsProofs,
    DrvOneWireIrqProofs, StartMainProofs, ProbeBusProofs, Crc8Proofs, WalkRomProofs

**OneWireTiming, Res1Wire.** `Ticks` is `TIMER_TICKS_PER_US`: 2 in the build with 8-bit
DMA, else 4; `od` is the OVERDRIVE flag. `Tim` and `Dma` are records of the registers the
driver uses, an inline function is an operator from a record to a record, so a handler
that calls several composes them in the order of the calls. Values are `uint16_t`
(`Word`, `WordSub`), the elements of the DMA's buffer a byte or a word (`DmaModulus`).

**OneWireBus** is hardware: none of it is code of the repository. Time is the
timer's counter, which jumps to the next event: a compare, an overflow, or a
device acting at one of `Instants`. The line is wired-AND. On a quiet bus
devices only answer, inside a master's pulse or after a RESET, and let go in time; with
`StuckLine` they may hold the line beyond their slot; with `NoisyBus` anything may pull
the line at any time, until `MaxEdges` rising edges were seen. `MaxLag` bounds how long an
interrupt waits to be served, in ticks: it is the handlers' latency, and without a bound
no property of the real-time part holds. Both `Instants` and `MaxLag` are functions of
the timer's top, which tells a RESET from a slot and one speed from the other.
The active pull-up drives the break input, which cuts off the output and sets
the sticky flag BIF. `wire` records the pulses and edges of the operation and whether a
slot ended with the line held, for the properties only.

**DrvOneWire** is what both builds of `drv_1wire.c` share: the context, Reset, the
handlers of a RESET, the check of the pull-up, OperationComplete, what `main` does
between operations. **DrvOneWireDma** and **DrvOneWireIrq** add TxBits, RxBits and the
handlers of an exchange. Every function that changes state and every handler is one
action, the whole of it: handlers run at one interrupt level and do not nest.
`Dispatch` serves the lowest pending vector first (DMA channel 1, DMA channel 2, TIM3
update, TIM3 capture). A handler tests flags the way the code does, also when their
interrupt is not enabled; in the interrupt build this matters, since the last bit's
compare interrupt is off and the capture handler shifts the byte all the same. The union
`op` is split: the presence mark is read only in a RESET that wrote it. Assumed of
callers: no operation is started while another is in progress, and bits are exchanged only
after PRESENCE, as every caller in the repository does. Assumed of the chip: with the DMA
clock off the transfer-complete flags read 0.

**OneWireOp** is the driver for its caller: status, presence, the event, which
operation was called. Both builds implement it with the variables of the same names (no
mapping is needed); `VosIdle` is built on it.

**VosIdle** takes the main program an instruction of interest at a time:
raise the interrupt level, read the status, lower it, disable interrupts, read
AL, set AL, enable interrupts or WFI. A handler runs between any two of them
unless they are masked. With AL = 1 the end of a handler sends the CPU back to
sleep; whether it does so when the handler interrupted a running program is not
clear from the code, so both are possible. The program may start any operation
whenever it is not waiting, and may wait again for one that is over.

**TestMain** is what `main` does once the driver is attached, in three builds chosen at
the start: the fixed test series with and without the active pull-up, and HIGH_LEVEL,
whose operations are left open (any that VosIdle allows; what probing and searching really
do is in ProbeBus and WalkRom). `at` is the place in `main`, `test` counts the exchanges
of a series. A step of `Main` is what `main` does from the return of one `waitComplete` to
the next. It tests nothing but results, as the code does: that presence was found and
the last operation is over are not guards but what `CallerKeepsRules` shows.

**SysClk** is `drv_clk.c`: `setSysClkSource` refuses a prescaler that does not fit, writes
one for the oscillator in use at once, or begins a switch, which the hardware completes
when the oscillator has started (it may never) and an interrupt handler finishes by
writing the prescaler. The default case of `getSysClk` is never taken: CLK_SCSR always
names one of the four sources. **StartMain** is `main` from reset: `SetClock`, the poll of
SWBSY, `AttachDriver`, the tests. `main` as built asks for HSI undivided; the other
sources and every prescaler, which its comments and the driver's interface name, are
checked too. The switch's interrupt is requested with the flag `main` polls and is served
at most an instruction later, so before `getSysClk`, two calls away, reads the prescaler:
`AttachDriver` waits for it. `Attach` cuts the divider to a byte and halves it as the code
does. Its result is ignored, as `main` ignores it: a timer that is not on never finishes an
operation.

**ProbeBus** is `ptOneWireProbeBus`, with `ptOneWireTargetAll` nested in it. The
thread returns at once while an operation is in progress; an action is what it does
when called after the operation's end. Devices are of four kinds (overdrive or not,
parasite power or not) and change between probes. Faults: a RESET nobody is heard
to answer (`reset`), DMA busy (`refuse`), an exchange that ends in ERROR (`io`), SKIP
ROM or READ POWER SUPPLY spoilt so that the echo is wrong and only some devices hear
it (`skip`, `power`), an answer that does not decode (`decode`). As the comments of
the code have it, a device that supports overdrive answers a RESET of either speed.

**Crc8** is `modOneWireUpdateCRC`, a byte being the set of its 1 bits. **WalkRom** has one
action for the end of each driver operation and what the thread does up to the next one.
`pc` is the protothread's place. The devices are those that still take part in the pass;
the CRC is the real one, of the bytes of `romid`. The faults are: a RESET that fails,
an operation that ends in ERROR or a command whose echo is wrong (`io`), a bit
read as 0 instead of 1 (`read`), a direction heard as 0 instead of 1 (`write`);
`MaxFaults` bounds them. **RomEnum** is the enumeration the search promises: devices in the
order of their ROM bits.

## 3. What is checked

| Run | Instance | Shows |
|---|---|---|
| DmaQuiet | DMA build, both speeds, quiet, RESETs with instants on both sides of the limits of a PRESENCE pulse, exchanges of 1 to 3 bits with devices that answer, `MaxLag` 29 and 62, 3 and 12 in overdrive | `TypeOK`, `PresenceSound`, `PresenceNotMissed`, `SentInOrder`, `NoExtraPulse`, `NoSpuriousError` |
| DmaNoise | noisy, two edges, pull-up, `MaxLag` 300, fairness | `Quiescent`, `RxDataOk`, `PresenceSound`, `OpSpec` |
| DmaConflicts | pull-up switched at any time, DMA shared | `RxTrack`, `PullupOpsFail`, `OpSteps` |
| DmaShared | *violation* of `OtherKeepsDma` | finding 1 |
| IrqBits | interrupt build, both speeds, pull-up, devices that may hold the line beyond a slot, `MaxLag` 84, 8 in overdrive, fairness | `TypeOK`, `AtRest`, `RxDataOk`, `SentInOrder`, `NoExtraPulse`, `NoSpuriousError`, `OpSpec` |
| IrqLost | *violation* of `AllBitsReceived` | finding 2 |
| StartMain | every build, source, prescaler 0 to 8 and tick rate; oscillators that start and that do not; fairness. No bound: its states are finite | `NoLostWakeup`, `EventNotLost`, `LeftSafe`, `RateRight`, `ClockAsRequested`, `CallerKeepsRules`, `StartUpEnds`, `AttachedWaitReturns`, `AttachedTestsEnd` |
| ProbeBus | four kinds of devices, three faults of any kind, any number of probes | `ParasiteFlag`, `ModeReaches`, `CallsAllowed` |
| ProbeEcho | *violation* of `ParasitePowerFlagged` | finding 4 |
| WalkRetry | all sets of six ROMs of a family code and its CRC, two faults that are noticed | `TypeOK`, `OriginalPoint`, `EnumSpec` |
| WalkGarbled | the same with bits read and heard wrong | `NoPhantom`, `NothingLost`, `Answers` |
| WalkStale | *violation* of `EndedMeansAllFound` | finding 3 |

**Why the bounds are enough.** The instants are chosen on both sides of every
limit the code compares with (15, 60, 240 microseconds and their overdrive
counterparts), in a slot within a 1's pulse and a 0's pulse and just before the slot's
end. Three bits are the smallest exchange in which the PWM channel transfers more than
once and the order of the bits can be told. `MaxPulses` ends the history of an exchange
that DMA was taken from and that never ends; in the other runs it is never reached.

The runs also have TLC evaluate what the theorems of section 5 assume of the handlers'
latency: `InTime` of a slot's in IrqBits, IrqLost and the quiet runs of the DMA build,
`HearsInTime` of a RESET's in the latter (`SlotsInTime`, `ResetsInTime`). In a RESET,
IrqBits goes beyond `HearsInTime` on purpose and does not check `PresenceNotMissed`.

The values of `MaxLag` in DmaQuiet and IrqBits are the limits the driver really has, one
tick more violates a property. DMA build, at two ticks per microsecond: at normal speed a
PRESENCE pulse can be missed from a latency of 30 ticks (15 us) on, an extra pulse appears
from 63 ticks on; in overdrive it is 4 ticks (2 us) and 13. `HearsInTime` and `InTime`
allow exactly the latencies below these. The comment at `drv_1wire.c:566-569` warns of the
extra pulse ("possible unexpected pulse if sysclk < 8Mhz. Also unexpected pulse may occured
at overdrive mode"). Interrupt build, at four: 84 ticks
(21 us) in a slot, 8 (2 us) in overdrive. The window of a RESET leaves no slack: the
longest legal answer ends with it, so an answer in the last `MaxLag` ticks may count as a
timeout, and `PresenceNotMissed` says so.

In StartMain prescalers above 7 are refused, so 0 to 8 are all there is to tell apart;
with the four sources and the two tick rates every clock `main` can ask for is checked.
In the walk a ROM has two bytes, family code and CRC, without the serial number between
them: five family codes of real devices, which part at the first, second, third and fifth
bit, and the forbidden 0. `Attached16` says of these ROMs what `PhantomsAreNoticed` assumes:
they end in their CRC, which notices any one, two or three wrong bits. For whole ROMs of
64 bits TLC evaluates the same (`FewWrongBits`), and that any burst within eight bits is
noticed (`Burst`).

**Limits of the properties.** `PullupOpsFail` is of a bus that is quiet and not stuck. On
a noisy one an exchange with the pull-up on can complete from noise edges alone, since the
overflow handler, the only one that looks at BIF, is enabled only after the last level was
fetched; the pull-up is strong, and noise against it is not assumed. `SentInOrder` and
`NoSpuriousError` are of a quiet bus too: extra edges store captures over pulses that are
still to be sent. Where the line may be stuck, `NoExtraPulse`, `NoSpuriousError` and the
interrupt build's `RxDataOk` speak of the exchanges in which it was not.
What an operation's end does to another driver's DMA is `OtherKeepsDma`'s subject and not
`OpSteps`'. `AttachedWaitReturns` and `AttachedTestsEnd` say nothing of a `main` that goes
on without a timer, and `ClockAsRequested` says only when that happens, not that `main`
notices. The divider the attach cuts to a byte exceeds it with none of the four sources.
`EnumSpec` allows the search to give up, so it would not notice one that gave up without a
RESET that failed. `NoPhantom` and `Answers` are of at most `MaxFaults` faults: beyond
what the CRC notices for certain a wrong ROM can be returned, and with errors that never
stop the search never answers.

**Deadlock** is checked in every run but StartMain, where the system may really stop:
`main` polls for ever for an oscillator that does not start, or sleeps in its first wait
over a timer that was not attached.

**Fairness.** `FairSpec` of the driver assumes that the timer counts (`Compare`,
`Overflow`) and that the CPU serves pending interrupts (`Dispatch`): both are the
hardware's. Nothing is assumed of the devices, which may hold the line for ever,
nor of callers. `StartSpec` assumes that the awake main program goes on (in
HIGH_LEVEL, while it waits), that an oscillator that starts does so some time and the
clock's pending interrupt is served, and that an operation on a timer that is on ends,
which is what `OpSpec` shows of the driver. `AttachedWaitReturns` and `AttachedTestsEnd`
speak of the behaviours in which the driver was attached, `StartUpEnds` of those in which
the oscillator starts.
`WalkRom` assumes that driver operations end and that the thread is called again
when they do; not that anyone asks for another device.

## 4. Findings

1. **The end of an operation takes DMA from another driver** (run DmaShared).
   `drvOneWireKernelOperationComplete` (`drv_1wire.c:586-592`) turns DMA off
   and detaches it unconditionally: after a RESET, which never attached it, and
   after a TxBits refused because `resDmaAttach` found it "already active, i.e.
   attached to other drivers" (`res_dma.h:8`). Conversely, a driver that
   detaches in the middle of an exchange stops it for ever, since the timeout is
   enabled by DMA; this is why DmaNoise, which checks `OpSpec`, has DMA unshared.
2. **An exchange completes without one of its bits** (run IrqLost). The interrupt build
   counts the slots it begins, not the bits it captures. If a device holds the line
   through a slot that is not the last, no rising edge comes in it, the bits after it
   shift into the wrong places, and the capture of the last slot ends the exchange
   COMPLETE: "All bits received successfully" (`drv_1wire.c:508-511`). The DMA build
   reports the same line as an error.
3. **A retry can lose devices** (run WalkStale). A pass writes bits into `romid`
   below `lastDiscrepancy` before the CRC has confirmed them, and the echo of a
   direction is not compared. If one direction is heard wrong, the CRC error's
   "Repeat procedure from original point" (`mod_1wire_search.c:200-201`)
   repeats it from the corrupted path, and the thread can end, "no more devices
   at the bus" (line 61), with a device never returned.
4. **A command that was not heard counts as answered** (run ProbeEcho). When the echo
   of READ POWER SUPPLY is wrong, `PT_TX_BYTE_CONST` stores an ERROR in STATUS
   (`mod_1wire.c:36-39`), but `ptOneWireProbeBus` tests its own copy of the status
   (line 92), reads the answer nobody gives, and ends COMPLETE with the parasite flag
   clear. "If one or mode devices use parasite power then we set appropriate flag"
   (lines 52-53). SKIP ROM is sent the same way, but there STATUS is tested (line 89).

Noticed and not stated as properties: one RESET that fails in the middle of a search ends
it like an empty bus (`mod_1wire_search.c:79-88`; `RomEnum` allows it as `GiveUp`); a
complement bit read as 0 makes a discrepancy where there is none, and later passes return
devices again, so `WalkRetry` excludes `read` faults (`NothingLost`: none is skipped for
it, only a direction heard wrong loses one); persistent errors are retried without limit;
`waitComplete` before the first operation would not return, the zero status being PROGRESS
(`CallerKeepsRules` shows that `main` starts one first); on a clock too slow for the timer
(LSI, LSE, or a large prescaler) `main` goes on without a driver and sleeps in its first
wait for ever, since it ignores the result of `drvOneWireAttach` (`main.c:30`).

## 5. What is proved

For every value of the constants: any requests, speeds, instants, noise,
lateness, with or without the pull-up and another DMA user; ROMs of any length and any
devices. The assumptions are the named ASSUMEs of the modules, which TLC evaluates in the
runs, and those a theorem states itself.

* **DrvOneWireProofs** begins with the timing. The constants fit together: a pulse decodes
  as the bit it was sent for (`EchoDecodes`), truncation to a DMA element is harmless
  (`TruncationIsExact`), `uint16_t` wrap-around never accepts a wrong answer
  (`PresenceChecksExact`), no legal answer outlasts the window
  (`WindowCoversPresence`). Then the lemmas of both builds: the hardware and the common
  handlers keep the types (`SettleType` and one lemma per action), an operation's end
  leaves the timer at rest (`OperationCompleteRests`), at rest nothing is enabled that
  could disturb it (`AtRestIsIdle`), the common steps are steps of OneWireOp
  (`CommonStepOp`). `Hearing` is what is known while a RESET runs: every edge is within
  the procedure's time; what is captured first is a falling edge, or the edge of the pulse
  itself at counter 0, which `DelayOk` refuses; once the polarity is turned the mark is a
  falling edge at a legal delay and what is captured is a rising edge. `PresenceSound`
  alone is not inductive, as it speaks of the end only. `Heeds` is the converse, of a quiet
  bus: a RESET goes through five stages (started, pulsing, listening, measuring, timed
  out), in each an interrupt waits no longer than since what caused it, and with a latency
  below the earliest delay of an answer (`HearsInTime`) no edge of the answer comes before
  the capture was turned to it.
* **DrvOneWireDmaProofs.** `Inv == TypeOK /\ Quiescent` is inductive: `TypeCorrect`,
  `AlwaysQuiescent`, `HandlersServeOperations`. `Roles` (bits are exchanged only with
  presence, DMA channels are armed only in an exchange) strengthens `Inv`.
  `DriverImplementsOp`: every step is a step of OneWireOp or a stutter. `CapturesTracked`:
  of `request.n - n2` rising edges each is in its place in the buffer, and the channel
  loses none while armed. `RxDataCorrect` follows from `RxTrack`, the slot's length, and
  `TruncationIsExact`. `PresenceIsReal`: PRESENCE is never reported unless the line fell
  and rose as a PRESENCE pulse does. `PresenceIsHeard`, from `Heeds`: on a quiet bus and
  with `HearsInTime` it is reported if it did. `PullupBlocks`, of a bus that is quiet and
  not stuck: an operation begun with the pull-up on cannot pulse the line (`Blocked`), so
  an exchange captures nothing, a RESET has its overflow pending, and the overflow handler
  finds BIF.
* **DmaSlotsProofs.** The exchange of the DMA build in real time, with the hypotheses
  `~NoisyBus`, `InTime` (a 0's pulse and the latency fit into a slot) and `~SharedDma`,
  since another driver may take DMA away and the exchange then never ends (finding 1).
  The invariant is `Paced`. `Clocked` names the five stages of an exchange: the PWM channel
  feeds the timer, until the interrupt of its last transfer is served (`Fed`); the overflow
  that begins the last slot is watched for (`LastAhead`), and waits to be served
  (`LastBegun`); it was, and the level 0 that sends nothing is in the preload register
  (`Last`); the last slot is over, and the overflow that ends the exchange by a timeout is
  pending (`Beyond`). An interrupt waits no longer than since its cause, hence by `InTime`
  the first stage and the third end within the slots in which their interrupts were
  requested. `Buffered`: the levels not fetched yet are still in the
  buffer, since the channel fetches a slot ahead of the captures that go into the same
  places. `Counted`: `Slot` is the slot the timer is in, as its counter, the preload and
  the channel's count tell it; there are as many pulses as slots and as many edges, one
  less while the line is low. The three properties are part of the invariant, as each
  speaks of what the end of an operation leaves: `SentAsAsked`, `NoSlotBeyond`,
  `FailsForAReason`, for any number of bits, any devices and the pull-up switched at any
  time.
* **DrvOneWireIrqProofs.** The interrupt build: `IrqTypeCorrect` (the count of bits never
  underflows), `IrqAlwaysAtRest`, `IrqImplementsOp`, `IrqHandlersServeOperations`,
  `IrqPresenceIsReal`, and `IrqPresenceIsHeard` from `Heeds`. Then the exchange in real
  time, of a quiet bus and with handlers in time (`~NoisyBus`, `InTime`, the hypotheses of
  the theorems): `SlotInv` relates the counter, the flags, the shifted value and the
  history of the slots. With `InTime` no slot ends while an interrupt waits, hence one
  shift, one rising edge and one capture in each (`Clocked`, `Watched`). `Sending`: the
  bits not yet sent are at the low end of the value, and the next one's pulse is in the
  preload register as soon as that of this slot was served. `Receiving`: the bits heard
  are at the high end, moved by as many shifts as there were since; every edge lies
  between a 1's and a 0's pulse, so that it decodes as what was on the bus. Hence
  `IrqSentInOrder`, `IrqNoExtraPulse`, `IrqRxDataCorrect`, `IrqNoSpuriousError`.
* **StartMainProofs.** `TypeOK /\ EventNotLost /\ NoLostWakeup` is inductive: the
  sleep is safe because an event fired since the status was tested is still there
  when `vosIdle` asks, and interrupts are masked from its answer to the sleep
  (`WakeupNeverLost`, `EventIsSeen`). `Knows` is what `main` knows between two operations
  (the result in its hand is the status, the operation is over, presence where bits
  follow); with it every step of `main` is one of VosIdle's, in every build
  (`MainKeepsRules`), and the pull-up is off however the tests end (`MainLeavesSafe`).
  `ClockInv` follows the switch from the request to the handler: the tests run on the
  clock that was asked for, and the driver is attached unless it is too slow
  (`ClockIsAsRequested`). The prescaler the attach computes divides that clock without a
  remainder (`EveryRate`), so the timer counts at the rate of the durations
  (`RateIsRight`).
* **ProbeBusProofs.** For any set of devices and any faults. `Waits` (which operation
  is waited for at each place) and `Asked` (who took part so far) strengthen the two
  invariants: `FlagIsTheAnswer`, `SearchIsHeard`, `ProbeKeepsRules`.
* **WalkRomProofs.** `SearchTypeCorrect` whatever goes wrong. As long as faults are
  noticed (`Noticed`): `SearchEnumerates`, every step of the search is a step of RomEnum,
  so each device is returned once and in order; `OriginalPointKept`. The invariant has two
  parts. `Memory`, between passes: the devices up to the latest were found, romid holds
  its path up to the last discrepancy, and if a device is left one parts from the latest
  exactly there. `Pass`, within one: a device not on the path was found already or comes
  after it, and one that is on the path up to the last zero and was not found is on it
  still. Neither is inductive without the other: a pass that fails falls back on
  `Memory`, a pass that ends turns `Pass` into the next `Memory`.
  With faults that are not noticed the bits of `romid` below the position may be wrong, and
  both parts fail. Two more invariants take their place. `WrongPass`: a device that still
  takes part differs from `romid` in no more bits than there were faults, since a bit
  that is wrong cost one. So a ROM that is returned either is a device's or differs from
  one in at most `MaxFaults` bits, and by `CrcLinear` its CRC is that of the wrong bits
  alone: `PhantomsAreNoticed`, if the CRC notices that many, and `OneFaultIsNoticed`
  without that condition. `ReadMemory` and `ReadPass`, as long as no direction was heard
  wrong: those who take part are exactly the devices on the path in `romid`; a device off
  it was returned already or comes later (`Aside`, `Zero`); and `romid` is a device's path,
  or one's up to a bit from which on every bit took a fault (`OnPath`). A pass that ends
  off every device has its wrong bits at the end, and with up to eight faults in the last
  byte, which `CrcNoticesByte` refuses. Hence `NothingIsLost` and `ReadsBringNoPhantom`,
  for ROMs of any length.
* **Crc8Proofs.** `CrcLinear`: the CRC of data that differ from others changes by the CRC
  of the difference. `CrcNoticesByte`: bits wrong within one byte are always noticed. Both
  are for data of any length, hence by induction, which the library's theorems do not give
  here; `LeastNumber`, from `WFMin` of WellFoundedInduction, does: a set of numbers that
  is not empty has a least one.

Only model-checked: liveness (`OpSpec`, `StartUpEnds`, `AttachedWaitReturns`,
`AttachedTestsEnd`, the fair part of `EnumSpec`, `Answers`), which is out of the provers'
reach, and that the CRC notices two and three wrong bits of a whole ROM (`FewWrongBits`),
which TLC evaluates. What is proved of a quiet bus only (`PresenceNotMissed`,
`SentInOrder`, `NoExtraPulse`, `NoSpuriousError`, `PullupOpsFail`, the interrupt build's
`RxDataOk`) is not claimed of a noisy one.

## 6. Not modelled, and the plan

Done, in this order: timing and resource layer; bus; driver (DMA build); its
abstract specification; waiting; search; main program; probing; the interrupt build; the
clock and the attach; the CRC; the proofs above. What could still be added:
HIGH_LEVEL's `main` with ProbeBus and WalkRom in the place of its open operations; they
are checked to keep the rules that VosIdle asks of it.

Left out for good: GPIO and LED set-up and the board's pins (`board.h`), with the external
interrupts it enables and nothing in the repository serves (`board.h:76`); the timer's
mode bits (their effect is in OneWireBus); functions of the resource layer nobody calls;
hot-plugging during a search; the order of single register writes inside one inline
function; third-party headers (protothreads, queues, the chip's register definitions).
`lastFamilyDiscrepancy` is written and never read.
