---------------------------- MODULE MCScheduler -----------------------------
(***************************************************************************)
(* TLC instances of Scheduler: three days with a week of two, so that both *)
(* kinds of period end and the weekly one ends twice; two requests that    *)
(* overlap each other and a pass; two faults, so that a retry fails too.   *)
(* The two instances of the violated properties inject no faults: every    *)
(* session with the server and every process ends well in them.            *)
(***************************************************************************)
EXTENDS Scheduler
=============================================================================
