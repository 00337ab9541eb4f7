---------------------------- MODULE MCServices -----------------------------
(***************************************************************************)
(* TLC instance of Services: two chains, as in the code.                   *)
(***************************************************************************)
EXTENDS Services
=============================================================================
