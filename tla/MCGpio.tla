------------------------------- MODULE MCGpio -------------------------------
(***************************************************************************)
(* Gpio with two timers, a cooldown of two ticks on a counter that wraps     *)
(* around after five, and interrupts for rising and for both edges.          *)
(***************************************************************************)
EXTENDS Gpio

CONSTANTS h1, h2

MCTimer == {h1, h2}
MCIrqType == {"rising", "both"}
=============================================================================
