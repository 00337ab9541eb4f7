------------------------------- MODULE Ledger -------------------------------
(***************************************************************************)
(* What the traffic counters promise: every counted byte is recorded at    *)
(* most once, under the key it was counted for, and a recorded byte stays. *)
(* A crash may lose what is not recorded yet.                              *)
(***************************************************************************)
EXTENDS Naturals

CONSTANT Keys        \* minute and destination of a row

VARIABLES counted,   \* counted[k]: bytes ever counted under k
          recorded   \* recorded[k]: bytes on disk under k

ledgerVars == <<counted, recorded>>

Init ==
    /\ counted = [k \in Keys |-> 0]
    /\ recorded = [k \in Keys |-> 0]

Count(k) ==
    /\ counted' \in [Keys -> Nat]
    /\ counted'[k] > counted[k]
    /\ \A j \in Keys \ {k} : counted'[j] = counted[j]
    /\ UNCHANGED recorded

Record ==
    /\ recorded' \in [Keys -> Nat]
    /\ \A k \in Keys : recorded[k] <= recorded'[k] /\ recorded'[k] <= counted[k]
    /\ UNCHANGED counted

Next == (\E k \in Keys : Count(k)) \/ Record

Spec == Init /\ [][Next]_ledgerVars
=============================================================================
