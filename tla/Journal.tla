------------------------------ MODULE Journal -------------------------------
(***************************************************************************)
(* The import of Xray's access records: `ingest' in dashboard/journal.py   *)
(* and the loop of run_traffic_journal.py that calls it.                   *)
(*                                                                         *)
(* `journalctl' runs outside the transaction that commits counts and       *)
(* cursor; a pass may fail, or be killed, before, in or after either.      *)
(***************************************************************************)
EXTENDS Naturals, Sequences, FiniteSets

CONSTANTS
    Domains,     \* destinations
    Other,       \* an entry that is no access record
    MaxRecords,  \* MAX_RECORDS
    MaxEntries,  \* bound: entries of the journal
    MaxFaults    \* bound: failing reads and commits, and kills

ASSUME JournalAssumption ==
    /\ IsFiniteSet(Domains) /\ Other \notin Domains
    /\ MaxRecords \in Nat \ {0}
    /\ {MaxEntries, MaxFaults} \subseteq Nat

VARIABLES
    log, gone,         \* the journal, and how many entries it has given up
    cursor, accesses,  \* the database: JournalState and AccessMinute
    pc,                \* where the command is
    state, last,       \* `state.cursor' as read, and `last_cursor'
    counts,            \* connections found in this pass
    imported,          \* history: entries behind the committed counts
    batch,             \* history: entries behind `counts'
    faults

journalVars == <<log, gone>>
dbVars == <<cursor, accesses, imported>>
passVars == <<state, last, counts, batch>>
vars == <<journalVars, dbVars, pc, passVars, faults>>

Entries == 1..Len(log)
Tally(S) == [d \in Domains |-> Cardinality({i \in S : log[i] = d})]
NoCounts == [d \in Domains |-> 0]
Plus(f, g) == [d \in Domains |-> f[d] + g[d]]
Fault == faults < MaxFaults /\ faults' = faults + 1

\* A cursor names the entry it was read from; 0 is the empty one.
Init ==
    /\ log = <<>> /\ gone = 0
    /\ cursor = 0 /\ accesses = NoCounts /\ imported = {}
    /\ pc = "sleep" /\ state = 0 /\ last = 0 /\ counts = NoCounts /\ batch = {}
    /\ faults = 0

-----------------------------------------------------------------------------
\* The journal.

Log(e) ==
    /\ Len(log) < MaxEntries
    /\ log' = Append(log, e)
    /\ UNCHANGED <<gone, dbVars, pc, passVars, faults>>

\* journald gives up its oldest entries.
Vacuum ==
    /\ gone < Len(log)
    /\ gone' = gone + 1
    /\ UNCHANGED <<log, dbVars, pc, passVars, faults>>

-----------------------------------------------------------------------------
\* ingest.

\* get_or_create reads the row.
Query ==
    /\ pc = "sleep"
    /\ pc' = "reading"
    /\ state' = cursor /\ last' = cursor
    /\ counts' = NoCounts /\ batch' = {}
    /\ UNCHANGED <<journalVars, dbVars, faults>>

\* What `journalctl' prints: after a cursor, the first entries that are left;
\* without one, the latest, as far back as a quarter of an hour.
Printed(from, to) ==
    /\ from <= to /\ to - from <= MaxRecords
    /\ IF state = 0
       THEN gone <= from /\ to = Len(log)
       ELSE /\ from = IF state < gone THEN gone ELSE state
            /\ to - from = MaxRecords \/ to = Len(log)

\* What is printed is parsed and counted.
Read ==
    /\ pc = "reading"
    /\ \E from, to \in 0..Len(log) :
          /\ Printed(from, to)
          /\ batch' = from + 1 .. to /\ counts' = Tally(from + 1 .. to)
          /\ last' = IF from = to THEN last ELSE to
    /\ pc' = "read"
    /\ UNCHANGED <<journalVars, dbVars, state, faults>>

\* `journalctl' fails, takes too long, or prints what cannot be parsed.
ReadFails ==
    /\ pc = "reading" /\ Fault
    /\ pc' = "sleep"
    /\ UNCHANGED <<journalVars, dbVars, passVars>>

\* The cursor is saved after the transaction of the counts.
Commit_CursorLater ==
    /\ pc = "read"
    /\ accesses' = Plus(accesses, counts) /\ imported' = imported \cup batch
    /\ \/ cursor' = last /\ pc' = "sleep" /\ UNCHANGED faults
       \/ Fault /\ pc' = "down" /\ UNCHANGED cursor
    /\ UNCHANGED <<journalVars, passVars>>

\* The cursor names the entry to read next.
Commit_Next ==
    /\ pc = "read"
    /\ accesses' = Plus(accesses, counts)
    /\ cursor' = last + 1 /\ imported' = imported \cup batch
    /\ pc' = "sleep"
    /\ UNCHANGED <<journalVars, passVars, faults>>

\* A pass that has found no access record saves nothing.
Commit_OnlyCounts ==
    /\ pc = "read"
    /\ IF counts = NoCounts
       THEN UNCHANGED dbVars
       ELSE /\ accesses' = Plus(accesses, counts)
            /\ cursor' = last /\ imported' = imported \cup batch
    /\ pc' = "sleep"
    /\ UNCHANGED <<journalVars, passVars, faults>>

\* Counts and cursor in one transaction.
Commit ==
    /\ pc = "read"
    /\ accesses' = Plus(accesses, counts)
    /\ cursor' = last /\ imported' = imported \cup batch
    /\ pc' = "sleep"
    /\ UNCHANGED <<journalVars, passVars, faults>>

\* The process is killed, or an error of the database, which rolls the
\* transaction back, ends it.
Interrupt ==
    /\ pc # "down" /\ Fault
    /\ pc' = "down"
    /\ UNCHANGED <<journalVars, dbVars, passVars>>

Restart ==
    /\ pc = "down"
    /\ pc' = "sleep"
    /\ UNCHANGED <<journalVars, dbVars, passVars, faults>>

Pass == Query \/ Read \/ Commit \/ Restart

Next ==
    \/ \E e \in Domains \cup {Other} : Log(e)
    \/ Vacuum \/ Pass \/ ReadFails \/ Interrupt

Spec == Init /\ [][Next]_vars

\* The loop goes on after its sleep, and the service manager restarts it.
FairSpec == Spec /\ WF_vars(Pass)

-----------------------------------------------------------------------------
\* Properties.

Counts == [Domains -> Nat]

TypeOK ==
    /\ log \in Seq(Domains \cup {Other}) /\ gone \in 0..Len(log)
    /\ cursor \in 0..Len(log) /\ imported \subseteq Entries
    /\ pc \in {"sleep", "reading", "read", "down"}
    /\ state \in 0..Len(log) /\ last \in 0..Len(log) /\ batch \subseteq Entries
    /\ accesses \in Counts /\ counts \in Counts
    /\ faults \in 0..MaxFaults

Promise == INSTANCE Import

\* "The journal cursor and aggregated counts are committed together": however
\* passes fail and are interrupted, no entry is counted twice, out of order, or
\* passed over once the import has begun.
ImplementsImport == Promise!Spec

\* "A failed read leaves the last committed cursor in place for the next
\* attempt": once there is a cursor, every entry is imported in the end, unless
\* the journal gives it up first.
CaughtUp ==
    \A n \in 1..MaxEntries :
        cursor > 0 /\ n \in cursor + 1 .. Len(log) ~> n \in imported \/ n <= gone
=============================================================================
