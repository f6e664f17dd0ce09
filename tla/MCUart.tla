------------------------------- MODULE MCUart -------------------------------
(***************************************************************************)
(* Uart with ports 1 and 2, and with ports 0 and 1, chunks of up to two     *)
(* bytes and a buffer of three.                                             *)
(***************************************************************************)
EXTENDS Uart

MCPorts == {1, 2}
MCPortZero == {0, 1}
=============================================================================
