------------------------------- MODULE Lease -------------------------------
(***************************************************************************)
(* What the traffic gate promises, without its watchdog: a redirect is a   *)
(* lease.  It is granted only on recent evidence that collection works, it *)
(* lapses by itself, and it may be given back at any time.                 *)
(***************************************************************************)
EXTENDS Naturals

CONSTANTS Evidence,  \* the facts a grant rests on
          TTL,       \* how long one grant lasts
          MaxAge     \* MaxAge[f]: the oldest evidence of f a grant may rest on

VARIABLES lease,     \* time left of the current grant, 0 when there is none
          age        \* age[f]: time since f was last known to hold

leaseVars == <<lease, age>>

Init ==
    /\ lease = 0
    /\ age = [f \in Evidence |-> 0]

\* The only step that redirects, and all it may rest on.
Grant ==
    /\ \A f \in Evidence : age[f] <= MaxAge[f]
    /\ lease' = TTL
    /\ UNCHANGED age

Release ==
    /\ lease' = 0
    /\ UNCHANGED age

\* f is observed to hold again.
Renew(f) ==
    /\ age' = [age EXCEPT ![f] = 0]
    /\ UNCHANGED lease

\* Time passes: a fact that fails gets one unit older, the grant one shorter.
Tick ==
    /\ lease' = IF lease = 0 THEN 0 ELSE lease - 1
    /\ age' \in [Evidence -> Nat]
    /\ \A f \in Evidence : age'[f] <= age[f] + 1

Next ==
    \/ Grant
    \/ Release
    \/ \E f \in Evidence : Renew(f)
    \/ Tick

Spec == Init /\ [][Next]_leaseVars

\* While redirecting, no fact has been failing for longer than the oldest
\* evidence a grant accepts plus the part of the grant already spent.
LeaseBound ==
    lease > 0 => \A f \in Evidence : age[f] + lease <= MaxAge[f] + TTL
=============================================================================
