------------------------------- MODULE MCGate -------------------------------
(***************************************************************************)
(* TLC instances of Gate.  The delays are scaled down but keep the order   *)
(* of the code's: Interval < Timeout-bounded rounds, and an element that   *)
(* outlives a fast round but not a slow one.                               *)
(***************************************************************************)
EXTENDS Gate
=============================================================================
