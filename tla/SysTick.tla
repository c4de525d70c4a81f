------------------------------ MODULE SysTick ------------------------------
(***************************************************************************)
(* The period of the system timer (include/sysdef.h), which the kernel     *)
(* core and the cyclic handlers share.                                     *)
(***************************************************************************)
EXTENDS Integers

CONSTANT TimerPeriod  \* TIMER_PERIOD, milliseconds between two SysTicks

ASSUME TimerAssumption == TimerPeriod \in Nat \ {0}
=============================================================================
