------------------------------- MODULE MCProvider ------------------------------
(***************************************************************************)
(* Two sessions that ask one provider, a time limit of two ticks and a     *)
(* credential refreshed twice: both can be refused with the same one, one  *)
(* can reload it first, and a retry can start at the last tick.            *)
(***************************************************************************)
EXTENDS Provider
=============================================================================
