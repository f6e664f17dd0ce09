----------------------------- MODULE MCBleFile -----------------------------
(***************************************************************************)
(* BleFile with a buffer of two bytes, so that files end within and at the *)
(* end of a buffer, a flash that may refuse writes, one file that is       *)
(* uploaded and a second name for it to be renamed to.                     *)
(***************************************************************************)
EXTENDS BleFile

CONSTANTS f, g

MCName == {f, g}
MCRequest ==
    {[type |-> "fileopen", name |-> f, size |-> n] : n \in {2, 3}}
      \cup {[type |-> "fileopen", name |-> LONG, size |-> 0]}
      \cup {[type |-> t, name |-> f] : t \in {"filedelete", "otaupdate"}}
      \cup {[type |-> "filerename", name |-> f, new |-> g]}
      \cup {[type |-> t] : t \in {"fileclose", "formatspiffs", "filelist"}}
MCLength == {0, 1, 2}
=============================================================================
