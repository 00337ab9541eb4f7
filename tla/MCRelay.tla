------------------------------ MODULE MCRelay -------------------------------
(***************************************************************************)
(* TLC instance of Relay: two connections compete for one slot, and their  *)
(* peers send, end or reset four times in all, so that either stream may   *)
(* be idle, draining or over when the other fails.                         *)
(***************************************************************************)
EXTENDS Relay
=============================================================================
