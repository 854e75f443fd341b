------------------------------- MODULE MCTops -------------------------------
(***************************************************************************)
(* Functions of the timer's top, for the instances of both builds.         *)
(***************************************************************************)
EXTENDS OneWireTiming

\* A value for each procedure: RESET and slot, normal and overdrive speed.
PerTop(reset, slot, resetOd, slotOd) ==
  [top \in Word |->
     CASE top = RESET_PROCEDURE_DURATION(0)  -> reset
       [] top = IO_BIT_PROCEDURE_DURATION(0) -> slot
       [] top = RESET_PROCEDURE_DURATION(1)  -> resetOd
       [] OTHER                              -> slotOd]
=============================================================================
