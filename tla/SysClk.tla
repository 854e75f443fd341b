-------------------------------- MODULE SysClk --------------------------------
(***************************************************************************)
(* The system clock of drv_clk.c: which oscillator drives the CPU and the  *)
(* timers, divided by which power of two.                                  *)
(*                                                                         *)
(* setSysClkSource only begins a switch.  The hardware completes it when   *)
(* the oscillator has started, if it ever does, and then an interrupt      *)
(* handler writes the prescaler: until then the new oscillator runs with   *)
(* the old prescaler.                                                      *)
(***************************************************************************)
EXTENDS Integers

VARIABLES
  clk,               \* the registers of the clock controller, see ClkTypeOK
  desiredPrescaler,
  starts             \* the oscillator that is waited for will start

clkVars == <<clk, desiredPrescaler, starts>>

Byte == 0 .. 255

\* The sources, and how fast each is.  There is no other: CLK_SCSR always names
\* the oscillator that runs, the default case of getSysClk is never taken.
CLK_SOURCE_HSI == 1
CLK_SOURCE_LSI == 2
CLK_SOURCE_HSE == 4
CLK_SOURCE_LSE == 8
Source == {CLK_SOURCE_HSI, CLK_SOURCE_LSI, CLK_SOURCE_HSE, CLK_SOURCE_LSE}

Hz(source) == CASE source = CLK_SOURCE_HSI -> 16000000
                [] source = CLK_SOURCE_LSI -> 38000
                [] source = CLK_SOURCE_HSE -> 16000000
                [] source = CLK_SOURCE_LSE -> 32768

MASK_CKM == 7   \* the prescalers the register can hold

\* SCSR is the oscillator in use, SWR the one asked for; SWBSY is 1 while a
\* switch is on its way, SWIF from its end until the handler has run.
ClkTypeOK ==
  /\ clk \in [SCSR : Source, SWR : Source, CKM : 0 .. MASK_CKM,
              SWEN : {0, 1}, SWIEN : {0, 1}, SWBSY : {0, 1}, SWIF : {0, 1}]
  /\ desiredPrescaler \in Byte
  /\ starts \in BOOLEAN

\* Reset: HSI, divided by 8.
ClkInit ==
  /\ clk = [SCSR |-> CLK_SOURCE_HSI, SWR |-> CLK_SOURCE_HSI, CKM |-> 3,
            SWEN |-> 0, SWIEN |-> 0, SWBSY |-> 0, SWIF |-> 0]
  /\ desiredPrescaler = 0
  /\ starts \in BOOLEAN

GetSysClk == Hz(clk.SCSR) \div 2^clk.CKM

-----------------------------------------------------------------------------
\* setSysClkSource, with interrupts disabled from its test to its end: a
\* prescaler that does not fit is refused, a new one for the oscillator in use
\* is written at once; else the write to SWR begins the switch (and a mutant:
\* the switch is not enabled).
Refused(prescaler) == prescaler > MASK_CKM

BeginSwitch_NotEnabled(source, prescaler) ==
  /\ desiredPrescaler' = prescaler
  /\ clk' = [clk EXCEPT !.SWIEN = 1, !.SWR = source, !.SWBSY = 1]
BeginSwitch(source, prescaler) ==
  /\ desiredPrescaler' = prescaler
  /\ clk' = [clk EXCEPT !.SWEN = 1, !.SWIEN = 1, !.SWR = source, !.SWBSY = 1]

SetSysClkSource(source, prescaler) ==
  /\ \/ /\ Refused(prescaler)
        /\ UNCHANGED <<clk, desiredPrescaler>>
     \/ /\ ~Refused(prescaler) /\ source = clk.SCSR
        /\ clk' = [clk EXCEPT !.CKM = prescaler]
        /\ UNCHANGED desiredPrescaler
     \/ /\ ~Refused(prescaler) /\ source # clk.SCSR
        /\ BeginSwitch(source, prescaler)
  /\ UNCHANGED starts

\* The hardware: the oscillator has started and drives the CPU from now on.
SwitchDone ==
  /\ clk.SWBSY = 1 /\ clk.SWEN = 1 /\ starts
  /\ clk' = [clk EXCEPT !.SCSR = clk.SWR, !.SWBSY = 0, !.SWIF = 1]
  /\ UNCHANGED <<desiredPrescaler, starts>>

\* The handler sysclk_switch_complete (and a mutant that leaves the prescaler
\* as it is).
SwitchPending == clk.SWIF = 1 /\ clk.SWIEN = 1

SysclkSwitchComplete_FlagOnly ==
  /\ SwitchPending
  /\ clk' = [clk EXCEPT !.SWIF = 0]
  /\ UNCHANGED <<desiredPrescaler, starts>>
SysclkSwitchComplete ==
  /\ SwitchPending
  /\ clk' = [clk EXCEPT !.SWIF = 0, !.CKM = desiredPrescaler]
  /\ UNCHANGED <<desiredPrescaler, starts>>
=============================================================================
