----------------------------- MODULE MCSysPlus -----------------------------
(***************************************************************************)
(* One mailbox, two kinds of messages and at most four of them.            *)
(***************************************************************************)
EXTENDS SysPlus

MCParam == {"ask", "other"}
MCBoth == {"ask", "none"}
MCAsk == {"ask"}
MCTimed == {TRUE}
=============================================================================
