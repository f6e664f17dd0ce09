------------------------------- MODULE MCFskv -------------------------------
(* Instances of Fskv: two keys of which one comes before the other in the   *)
(* directory, tables with one field, those with the field set being long,   *)
(* and the empty string.                                                    *)
EXTENDS Fskv

MCKey == 1 .. 2

MCLong == {t \in Table : \E f \in Field : t[f] # None}
=============================================================================
