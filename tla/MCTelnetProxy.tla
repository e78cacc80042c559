--------------------------- MODULE MCTelnetProxy ---------------------------
(* A small instance of TelnetProxy for TLC. *)
EXTENDS TelnetProxy

Configurations == [pool : BOOLEAN, spoof : BOOLEAN]
=============================================================================
