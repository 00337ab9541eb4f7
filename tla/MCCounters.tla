----------------------------- MODULE MCCounters -----------------------------
(***************************************************************************)
(* TLC instance of Counters: one destination besides Unknown, a pending    *)
(* limit of one, so that it is met, and two minutes, so that a byte may be *)
(* stamped in one and saved in the next.  Two connections with two bytes   *)
(* between them race for the limit, for a flush and for the stop.          *)
(* CountersProofs covers every other instance of the safety properties but *)
(* PendingBound.                                                           *)
(***************************************************************************)
EXTENDS Counters
=============================================================================
