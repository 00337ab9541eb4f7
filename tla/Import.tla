------------------------------- MODULE Import -------------------------------
(***************************************************************************)
(* What the import of access records promises: each entry of the journal   *)
(* is imported at most once and in order, its destination is counted with  *)
(* it, and once the import has begun no entry is passed over but those the *)
(* journal itself has given up.                                            *)
(***************************************************************************)
EXTENDS Naturals, Sequences, FiniteSets

CONSTANTS Domains

VARIABLES
    log,       \* the journal: a destination per entry, or none
    gone,      \* how many of its first entries the journal has given up
    imported,  \* entries that have been imported
    accesses   \* connections recorded for each destination

importVars == <<log, gone, imported, accesses>>

Entries == 1..Len(log)
Tally(S, d) == Cardinality({i \in S : log[i] = d})

Init ==
    /\ log = <<>> /\ gone = 0
    /\ imported = {} /\ accesses = [d \in Domains |-> 0]

\* The journal only grows at its end, and gives up its oldest entries.
Grow ==
    /\ Len(log) <= Len(log') /\ \A i \in Entries : log'[i] = log[i]
    /\ gone' \in gone..Len(log')
    /\ UNCHANGED <<imported, accesses>>

\* Entries that follow all imported ones, without a gap.
Take(S) ==
    /\ S \subseteq Entries
    /\ \A i \in S, j \in imported : j < i
    /\ \A i \in gone + 1 .. Len(log), j \in imported \cup S, k \in S :
          j < i /\ i < k => i \in imported \cup S
    /\ imported' = imported \cup S
    /\ accesses' = [d \in Domains |-> accesses[d] + Tally(S, d)]
    /\ UNCHANGED <<log, gone>>

Next == Grow \/ \E S \in SUBSET Entries : Take(S)

Spec == Init /\ [][Next]_importVars
=============================================================================
