---------------------------- MODULE MCBleConsole ----------------------------
(***************************************************************************)
(* BleConsole with two pieces of text and a few other packets.             *)
(***************************************************************************)
EXTENDS BleConsole

CONSTANTS c1, c2

MCChunk == {c1, c2}
=============================================================================
