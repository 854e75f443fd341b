------------------------------ MODULE OneWireOp ------------------------------
(***************************************************************************)
(* What the driver promises its caller (the comments of drv_1wire.c and    *)
(* onewire.h): an operation, once started, is in progress until it ends    *)
(* exactly once, COMPLETE or ERROR, and its end is a significant event     *)
(* that wakes the main program.  Presence is learnt from a RESET.          *)
(***************************************************************************)
EXTENDS Naturals

PROGRESS == 0   \* ONEWIRE_STATUS_PROGRESS
COMPLETE == 1   \* ONEWIRE_STATUS_COMPLETE
ERROR    == 2   \* ONEWIRE_STATUS_ERROR
Status   == {PROGRESS, COMPLETE, ERROR}

VARIABLES
  status,    \* drv_onewire_context.status
  presence,  \* drv_onewire_context.presence
  al,        \* CPU_CFG_GCR_AL; 0 is a significant event not yet consumed
  call       \* which operation was started last: "none", "reset" or "io"

vars == <<status, presence, al, call>>

TypeOK ==
  /\ status \in Status
  /\ presence \in {0, 1}
  /\ al \in {0, 1}
  /\ call \in {"none", "reset", "io"}

\* The context is zero-initialised, so the status reads PROGRESS before any
\* operation; the CPU's reset value of AL is 0.
Init ==
  /\ status = PROGRESS /\ presence = 0
  /\ al = 0
  /\ call = "none"

\* May the caller start an operation?
Ready == call = "none" \/ status # PROGRESS
Busy  == ~Ready

StartReset ==
  /\ Ready
  /\ status' = PROGRESS /\ presence' = 0 /\ call' = "reset"
  /\ UNCHANGED al

\* Bits are exchanged with devices known to be present.
StartIo ==
  /\ Ready /\ presence = 1
  /\ status' = PROGRESS /\ call' = "io"
  /\ UNCHANGED <<presence, al>>

\* The operation could not be started: it is over before the call returns.
RefuseIo ==
  /\ Ready /\ presence = 1
  /\ status' = ERROR /\ al' = 0 /\ call' = "io"
  /\ UNCHANGED presence

Finish ==
  /\ Busy
  /\ al' = 0
  /\ \/ /\ status' = COMPLETE
        /\ presence' = 1
     \/ /\ status' = ERROR
        /\ UNCHANGED presence
  /\ UNCHANGED call

\* main.c sets the flag by hand for its pull-up test.
SimulatePresence ==
  /\ Ready
  /\ presence' = 1
  /\ UNCHANGED <<status, al, call>>

\* vosKernelSignificantEvent.
ConsumeEvent ==
  /\ al' = 1
  /\ UNCHANGED <<status, presence, call>>

Next ==
  \/ StartReset \/ StartIo \/ RefuseIo \/ Finish
  \/ SimulatePresence \/ ConsumeEvent

Spec == Init /\ [][Next]_vars /\ WF_vars(Finish)
=============================================================================
