------------------------------ MODULE TestMain ------------------------------
(***************************************************************************)
(* The main program of main.c over the waiting of VosIdle: which operations*)
(* it starts, in which order, and what it does with their results.         *)
(*                                                                         *)
(* As built, main runs a fixed series of tests on a bus with its output    *)
(* looped back, and ends in one of two endless loops; with HIGH_LEVEL it   *)
(* probes and searches the bus, whose operations are any of VosIdle (see   *)
(* ProbeBus and WalkRom).  The values the tests send are left out: what    *)
(* drvOneWireRxBits returns is the value sent or it is not.                *)
(***************************************************************************)
EXTENDS VosIdle

CONSTANT
  Builds   \* the builds of the program, see Build

Build == {"HIGH_LEVEL", "plain",
          "pullup"}   \* with __DRV_ONEWIRE_ACTIVE_PULLUP

ASSUME MainAssumption == Builds \subseteq Build

VARIABLES
  build,
  at,      \* the operation whose end main waits for, see Place
  test,    \* which of a series of exchanges it is
  pullup   \* the active pull-up: 1 is on

mainVars == <<build, at, test, pullup>>

Place == {"start",                           \* before the first operation
          "overdrive", "normal", "bits",
          "conflictOverdrive", "conflictNormal", "conflictBits",
          "againOverdrive", "againNormal",   \* the tests are over when they end
          "done", "failed",                  \* the endless loops
          "any"}                             \* HIGH_LEVEL

MainInit ==
  /\ Init
  /\ build \in Builds
  /\ at = IF build = "HIGH_LEVEL" THEN "any" ELSE "start"
  /\ test = 1
  /\ pullup = 0

-----------------------------------------------------------------------------
\* Calls: drvOneWireReset never fails to begin, drvOneWireTxBits may be
\* refused; waitComplete follows.
CallReset ==
  /\ status' = Op!PROGRESS /\ presence' = 0 /\ call' = "reset"
  /\ pc' = "raise"
  /\ UNCHANGED <<al, c, value, masked>>

CallTxBits ==
  /\ call' = "io"
  /\ \/ status' = Op!PROGRESS /\ UNCHANGED al
     \/ status' = Op!ERROR /\ al' = 0
  /\ pc' = "raise"
  /\ UNCHANGED <<presence, c, value, masked>>

NoCall == UNCHANGED <<opVars, pc, c, value, masked>>

Error == c = Op!ERROR
Go(place, number) == at' = place /\ test' = number

\* indicateError: the pull-up is asserted OFF, then it waits for ever (and a
\* mutant: the pull-up stays).
IndicateError_PullupStays ==
  /\ Go("failed", 1)
  /\ NoCall
  /\ UNCHANGED pullup
IndicateError ==
  /\ Go("failed", 1)
  /\ pullup' = 0
  /\ NoCall

\* "Overdrive presence detection" (and a mutant: main waits first).
Start_WaitFirst ==
  /\ at = "start" /\ Go("overdrive", 1)
  /\ pc' = "raise"
  /\ UNCHANGED <<opVars, c, value, masked, pullup>>
Start ==
  /\ at = "start" /\ Go("overdrive", 1)
  /\ CallReset
  /\ UNCHANGED pullup

\* In the other mode, if there was no PRESENCE in overdrive.
OverdriveDone ==
  /\ at = "overdrive"
  /\ \/ Error /\ CallReset /\ Go("normal", 1)
     \/ ~Error /\ CallTxBits /\ Go("bits", 1)
  /\ UNCHANGED pullup

\* (a mutant: the tests go on without any PRESENCE)
NormalDone_GoOn ==
  /\ at = "normal"
  /\ CallTxBits /\ Go("bits", 1)
  /\ UNCHANGED pullup
NormalDone ==
  /\ at = "normal"
  /\ \/ Error /\ IndicateError
     \/ ~Error /\ CallTxBits /\ Go("bits", 1) /\ UNCHANGED pullup

\* Ten exchanges: each must complete and return what was sent.  Behind the
\* last the pull-up is switched on for the tests of its protection.
BitsDone ==
  /\ at = "bits"
  /\ \/ IndicateError   \* an ERROR or a wrong value
     \/ /\ ~Error
        /\ \/ test < 10 /\ CallTxBits /\ Go("bits", test + 1)
              /\ UNCHANGED pullup
           \/ /\ test = 10 /\ build = "pullup"
              /\ pullup' = 1
              /\ CallReset /\ Go("conflictOverdrive", 1)
           \/ /\ test = 10 /\ build = "plain"
              /\ NoCall /\ Go("done", 1) /\ UNCHANGED pullup

\* "Active-pullup protection test": now every operation must fail.
ConflictOverdriveDone ==
  /\ at = "conflictOverdrive"
  /\ \/ ~Error /\ IndicateError
     \/ Error /\ CallReset /\ Go("conflictNormal", 1) /\ UNCHANGED pullup

\* "Simulate PRESENCE detection", then the first of four exchanges.
ConflictNormalDone ==
  /\ at = "conflictNormal"
  /\ \/ ~Error /\ IndicateError
     \/ /\ Error
        /\ presence' = 1
        /\ UNCHANGED <<status, al, call, pc, c, value, masked>>
        /\ Go("conflictBits", 0) /\ UNCHANGED pullup

ConflictBitsDone ==
  /\ at = "conflictBits"
  /\ \/ test > 0 /\ ~Error /\ IndicateError
     \/ /\ test = 0 \/ Error
        /\ \/ test < 4 /\ CallTxBits /\ Go("conflictBits", test + 1)
              /\ UNCHANGED pullup
           \/ test = 4 /\ CallReset /\ Go("againOverdrive", 1)
              /\ pullup' = 0

\* The devices must be there again.
AgainOverdriveDone ==
  /\ at = "againOverdrive"
  /\ \/ Error /\ CallReset /\ Go("againNormal", 1)
     \/ ~Error /\ NoCall /\ Go("done", 1)
  /\ UNCHANGED pullup

AgainNormalDone ==
  /\ at = "againNormal"
  /\ \/ Error /\ IndicateError
     \/ ~Error /\ NoCall /\ Go("done", 1) /\ UNCHANGED pullup

\* while(1) waitComplete, in main and in indicateError.
Loop ==
  /\ at \in {"done", "failed"}
  /\ pc' = "raise"
  /\ UNCHANGED <<opVars, c, value, masked, at, test, pullup>>

Main ==
  \/ Start \/ OverdriveDone \/ NormalDone \/ BitsDone
  \/ ConflictOverdriveDone \/ ConflictNormalDone \/ ConflictBitsDone
  \/ AgainOverdriveDone \/ AgainNormalDone
  \/ Loop

MainProgram ==
  /\ ~asleep
  /\ asleep' = (pc = "wait")
  /\ \/ Wait /\ UNCHANGED mainVars
     \/ at = "any" /\ Caller /\ UNCHANGED mainVars
     \/ pc = "ready" /\ Main /\ UNCHANGED build

\* The handlers.  Nothing is assumed of what they find on the line, nor of the
\* pull-up's protection: that is what is tested.
MainFinish == IsrFinish /\ UNCHANGED mainVars
MainOther  == IsrOther /\ UNCHANGED mainVars

MainNext == MainProgram \/ MainFinish \/ MainOther

-----------------------------------------------------------------------------
\* main keeps the rules of VosIdle, and so of OneWireOp, although it tests
\* nothing but results: it exchanges bits only after a PRESENCE, found or
\* simulated, never starts an operation before the last one is over, and does
\* not wait before it has started the first.
CallerKeepsRules == Spec

\* However the tests end, the pull-up is off; they end well only if devices
\* answered last.
LeftSafe ==
  /\ at \in {"done", "failed"} => pullup = 0
  /\ at = "done" => status = Op!COMPLETE /\ presence = 1

\* The tests come to an end, well or badly, and the LEDs show which.
TestsEnd == at = "any" \/ <>(at \in {"done", "failed"})
=============================================================================
