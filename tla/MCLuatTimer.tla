---------------------------- MODULE MCLuatTimer ----------------------------
(***************************************************************************)
(* LuatTimer on two heap blocks, with slots for both, two ids (0 has a     *)
(* path of its own in l_timer_handler), endless, one-shot and counted      *)
(* timers and a bus of two messages, so that it fills up.                  *)
(***************************************************************************)
EXTENDS LuatTimer, TLC

CONSTANTS b1, b2

MCTimerId == {0, 1}
MCRepeat == {-1, 0, 1}
MCBlock == {b1, b2}
MCSymmetry == Permutations(MCBlock)
=============================================================================
