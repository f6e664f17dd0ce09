----------------------------- MODULE MCLuatSys -----------------------------
(***************************************************************************)
(* LuatSys with two tasks, one callback, one topic, two timer blocks and  *)
(* one kind of error.                                                      *)
(***************************************************************************)
EXTENDS LuatSys, TLC

CONSTANTS b1, b2, t1, t2, f1, m1, e1

MCBlock == {b1, b2}
MCTask == {t1, t2}
MCFn == {f1}
MCTraceback == {e1}
MCTopic == {m1}
MCNone == {}
MCTimerId == 0 .. MSG_TIMER_ID_MAX
MCOneShot == {0}
MCLoops == {-1, 0}
MCSymmetry == Permutations(MCBlock) \cup Permutations(MCTask)
=============================================================================
