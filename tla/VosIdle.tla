------------------------------- MODULE VosIdle -------------------------------
(***************************************************************************)
(* How the main program waits for the driver: waitComplete of main.c, which*)
(* tests the status and calls vosIdle (kernel.c), which puts the CPU to    *)
(* sleep unless a significant event came first.                            *)
(*                                                                         *)
(* The driver is OneWireOp: its interrupt handlers end the operation or do *)
(* something the main program does not see.  They run between any two      *)
(* instructions of the main program unless it has masked them.             *)
(*                                                                         *)
(* AL, the activation level of the CPU: with AL = 0 the end of a handler   *)
(* resumes the main program; with AL = 1 it sends the CPU (back) to sleep. *)
(* Whether that also happens to a handler that interrupted the running     *)
(* program, and did not wake a sleeping one, is left open: both.           *)
(***************************************************************************)
EXTENDS Naturals

VARIABLES
  status, presence, al, call,  \* see OneWireOp
  pc,       \* what the main program does next, see PC
  c,        \* waitComplete's copy of the status
  value,    \* vosKernelSignificantEvent's answer
  masked,   \* interrupts are disabled
  asleep    \* the CPU waits for an interrupt

opVars == <<status, presence, al, call>>
vars == <<opVars, pc, c, value, masked, asleep>>

Op == INSTANCE OneWireOp

PC == {"ready",    \* between two waits: an operation may be started
       "raise", "read", "lower",   \* drvOneWireStatus
       "disable",                  \* vosIdle was called
       "event", "consume",         \* vosKernelSignificantEvent
       "enable",                   \* an event had come
       "wait"}                     \* none had

TypeOK ==
  /\ Op!TypeOK
  /\ pc \in PC
  /\ c \in Op!Status
  /\ value \in BOOLEAN
  /\ masked \in BOOLEAN
  /\ asleep \in BOOLEAN

Init ==
  /\ Op!Init
  /\ pc = "ready"
  /\ c = Op!PROGRESS
  /\ value = FALSE
  /\ masked = FALSE
  /\ asleep = FALSE

-----------------------------------------------------------------------------
\* The main program starts an operation and waits for it.
StartOperation ==
  /\ pc = "ready"
  /\ Op!StartReset \/ Op!StartIo \/ Op!RefuseIo
  /\ pc' = "raise"
  /\ UNCHANGED <<c, value, masked>>

\* Its pull-up test sets the presence flag itself.
SimulatePresence ==
  /\ pc = "ready"
  /\ Op!SimulatePresence
  /\ UNCHANGED <<pc, c, value, masked>>

\* It may also wait once more for an operation that is over.
WaitAgain ==
  /\ pc = "ready" /\ call # "none"
  /\ pc' = "raise"
  /\ UNCHANGED <<opVars, c, value, masked>>

\* waitComplete tests the status drvOneWireStatus read with interrupts raised.
RaiseIrqLevel ==
  /\ pc = "raise" /\ pc' = "read"
  /\ masked' = TRUE
  /\ UNCHANGED <<opVars, c, value>>

ReadStatus ==
  /\ pc = "read" /\ pc' = "lower"
  /\ c' = status
  /\ UNCHANGED <<opVars, value, masked>>

LowerIrqLevel ==
  /\ pc = "lower"
  /\ pc' = IF c = Op!PROGRESS THEN "disable" ELSE "ready"
  /\ masked' = FALSE
  /\ UNCHANGED <<opVars, c, value>>

\* vosIdle (and a mutant that leaves interrupts enabled).
DisableInterrupt_Not ==
  /\ pc = "disable" /\ pc' = "event"
  /\ UNCHANGED <<opVars, c, value, masked>>
DisableInterrupt ==
  /\ pc = "disable" /\ pc' = "event"
  /\ masked' = TRUE
  /\ UNCHANGED <<opVars, c, value>>

\* vosKernelSignificantEvent (and a mutant that forgets the event).
SignificantEvent_Never ==
  /\ pc = "event" /\ pc' = "consume"
  /\ value' = FALSE
  /\ UNCHANGED <<opVars, c, masked>>
SignificantEvent ==
  /\ pc = "event" /\ pc' = "consume"
  /\ value' = (al = 0)
  /\ UNCHANGED <<opVars, c, masked>>

ConsumeEvent ==
  /\ pc = "consume"
  /\ Op!ConsumeEvent
  /\ pc' = IF value THEN "enable" ELSE "wait"
  /\ UNCHANGED <<c, value, masked>>

EnableInterrupt ==
  /\ pc = "enable" /\ pc' = "raise"
  /\ masked' = FALSE
  /\ UNCHANGED <<opVars, c, value>>

\* WFI enables interrupts and sleeps, in one instruction; the program goes on
\* behind it.
WaitForInterrupt ==
  /\ pc = "wait" /\ pc' = "raise"
  /\ masked' = FALSE
  /\ UNCHANGED <<opVars, c, value>>

Caller == StartOperation \/ SimulatePresence \/ WaitAgain
Wait ==
  \/ RaiseIrqLevel \/ ReadStatus \/ LowerIrqLevel
  \/ DisableInterrupt \/ SignificantEvent \/ ConsumeEvent
  \/ EnableInterrupt \/ WaitForInterrupt

Program ==
  /\ ~asleep
  /\ asleep' = (pc = "wait")
  /\ Caller \/ Wait

\* The handler that ends the operation fires the event; the program resumes.
IsrFinish ==
  /\ ~masked
  /\ Op!Finish
  /\ asleep' = FALSE
  /\ UNCHANGED <<pc, c, value, masked>>

\* Any other handler of an operation in progress.
IsrOther ==
  /\ ~masked
  /\ Op!Busy
  /\ asleep' \in IF al = 0 THEN {FALSE} ELSE {asleep, TRUE}
  /\ UNCHANGED <<opVars, pc, c, value, masked>>

Next == Program \/ IsrFinish \/ IsrOther

Spec == Init /\ [][Next]_vars

-----------------------------------------------------------------------------
\* No lost wakeup.  The CPU sleeps only while an operation is in progress:
\* otherwise no interrupt of the driver will come to wake it.  The event may
\* be fired at any moment: after the status was tested and before interrupts
\* are off, when they are on again, or between two waits.
NoLostWakeup == asleep => Op!Busy

\* What keeps it true: an event fired since the status was tested is still
\* there when vosIdle asks for it, and none can come between its answer and
\* the sleep.
EventNotLost ==
  /\ pc # "ready" => call # "none"
  /\ pc = "lower" => c = status
  /\ pc \in {"disable", "event"} => Op!Busy \/ al = 0
  /\ (pc = "consume" /\ ~value) \/ pc = "wait" => Op!Busy
  /\ masked <=> pc \notin {"ready", "raise", "disable"}

\* Every wait comes to its end, in a program that goes on while it waits.
Waiting == pc # "ready"
WaitReturns == Waiting ~> ~Waiting
=============================================================================
