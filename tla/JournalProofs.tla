---------------------------- MODULE JournalProofs ---------------------------
(***************************************************************************)
(* What holds of Journal for any destinations, batch size and bounds: the  *)
(* cursor is where the imported entries end, and a pass holds the entries  *)
(* that follow it.                                                         *)
(***************************************************************************)
EXTENDS Journal, FiniteSetTheorems, TLAPS

-----------------------------------------------------------------------------
\* The inductive invariant.

\* No entry that is left is missing among those up to n.
Unbroken(S, n) == \A i \in gone + 1 .. n, j \in S : j < i => i \in S

\* The cursor names the last imported entry.
Position == imported \subseteq 1..cursor /\ Unbroken(imported, cursor)

\* A pass that has read holds what follows the cursor.
Holds ==
    /\ pc = "reading" => state = cursor /\ last = cursor
    /\ pc = "read" =>
          /\ counts = Tally(batch)
          /\ batch \subseteq cursor + 1 .. last /\ cursor <= last
          /\ Unbroken(imported \cup batch, last)

JournalInv == TypeOK /\ Position /\ Holds

-----------------------------------------------------------------------------
\* Lemmas.

LEMMA TallyType ==
    ASSUME TypeOK, NEW S, S \subseteq Entries
    PROVE  Tally(S) \in Counts
<1>1. ASSUME NEW d \in Domains PROVE Cardinality({i \in S : log[i] = d}) \in Nat
  <2>1. IsFiniteSet(Entries) BY FS_Interval DEF Entries, TypeOK
  <2>2. IsFiniteSet({i \in S : log[i] = d}) BY <2>1, FS_Subset
  <2> QED BY <2>2, FS_CardinalityType
<1> QED BY <1>1 DEF Tally, Counts

LEMMA LogGrows ==
    ASSUME TypeOK, NEW e \in Domains \cup {Other}, Log(e)
    PROVE  /\ log' \in Seq(Domains \cup {Other}) /\ Len(log') = Len(log) + 1
           /\ \A i \in Entries : log'[i] = log[i]
           /\ \A S \in SUBSET Entries : Tally(S)' = Tally(S)
<1>1. log' = Append(log, e) /\ log \in Seq(Domains \cup {Other}) BY DEF Log, TypeOK
<1>2. log' \in Seq(Domains \cup {Other}) /\ Len(log') = Len(log) + 1
      /\ \A i \in 1..Len(log) : log'[i] = log[i]
  BY <1>1
<1>3. ASSUME NEW S \in SUBSET Entries PROVE Tally(S)' = Tally(S)
  <2>1. \A d \in Domains : {i \in S : log'[i] = d} = {i \in S : log[i] = d}
    BY <1>2 DEF Entries
  <2> QED BY <2>1 DEF Tally
<1> QED BY <1>2, <1>3 DEF Entries

\* What `journalctl' prints is a stretch of the journal that follows the cursor.
LEMMA PrintedFacts ==
    ASSUME TypeOK, Position, pc = "reading", Holds,
           NEW from \in 0..Len(log), NEW to \in 0..Len(log), Printed(from, to)
    PROVE  /\ from + 1 .. to \subseteq Entries /\ from <= to
           /\ state = cursor /\ from >= cursor
           /\ Unbroken(imported \cup (from + 1 .. to), to)
<1>1. state = cursor /\ cursor \in 0..Len(log) /\ gone \in 0..Len(log)
      /\ Len(log) \in Nat
  BY DEF Holds, TypeOK
<1>2. from >= cursor /\ from >= gone /\ from <= to BY <1>1 DEF Printed
<1>3. from + 1 .. to \subseteq Entries BY <1>1 DEF Entries
<1>4. cursor # 0 => from = IF cursor < gone THEN gone ELSE cursor BY <1>1 DEF Printed
<1>5. cursor = 0 => imported = {} BY <1>1 DEF Position
<1>6. ASSUME NEW i \in gone + 1 .. to, NEW j \in imported \cup (from + 1 .. to), j < i
      PROVE  i \in imported \cup (from + 1 .. to)
  <2>1. CASE j \in from + 1 .. to BY <1>1, <1>6, <2>1
  <2>2. CASE j \in imported
    <3>1. cursor # 0 /\ j \in 1..cursor BY <1>5, <2>2 DEF Position
    <3>2. CASE i <= cursor
      <4>1. i \in gone + 1 .. cursor BY <1>1, <3>2
      <4> QED BY <1>6, <2>2, <4>1 DEF Position, Unbroken
    <3>3. CASE i > cursor BY <1>1, <1>4, <3>1, <3>3
    <3> QED BY <1>1, <3>2, <3>3
  <2> QED BY <2>1, <2>2
<1> QED BY <1>1, <1>2, <1>3, <1>6 DEF Unbroken

-----------------------------------------------------------------------------
\* Steps.

LEMMA JournalInit == Init => JournalInv
<1> SUFFICES ASSUME Init PROVE JournalInv OBVIOUS
<1>1. NoCounts \in Counts BY DEF NoCounts, Counts
<1>2. TypeOK BY <1>1, JournalAssumption DEF Init, TypeOK, Entries
<1> QED BY <1>2 DEF Init, JournalInv, Position, Holds, Unbroken

LEMMA LogStep ==
    ASSUME JournalInv, NEW e \in Domains \cup {Other}, Log(e)
    PROVE  JournalInv'
<1> USE DEF JournalInv
<1>1. /\ log' \in Seq(Domains \cup {Other}) /\ Len(log') = Len(log) + 1
      /\ \A S \in SUBSET Entries : Tally(S)' = Tally(S)
  BY LogGrows
<1>2. UNCHANGED <<gone, cursor, accesses, imported, pc, state, last, counts, batch, faults>>
  BY DEF Log, dbVars, passVars
<1>3. Len(log) \in Nat BY DEF TypeOK
<1>4. TypeOK' BY <1>1, <1>2, <1>3 DEF TypeOK, Entries, Counts
<1>5. Position' BY <1>2 DEF Position, Unbroken
<1>6. Tally(batch)' = Tally(batch)
  <2>1. \A S \in SUBSET Entries : S = batch => Tally(S)' = Tally(S) BY <1>1
  <2>2. \A d \in Domains : {i \in batch : log'[i] = d} = {i \in batch : log[i] = d}
    BY LogGrows DEF TypeOK
  <2> QED BY <1>2, <2>2 DEF Tally
<1>7. Holds' BY <1>2, <1>6 DEF Holds, Unbroken
<1> QED BY <1>4, <1>5, <1>7

LEMMA VacuumStep ==
    ASSUME JournalInv, Vacuum
    PROVE  JournalInv'
<1> USE DEF JournalInv
<1>1. gone' = gone + 1 /\ gone < Len(log)
      /\ UNCHANGED <<log, cursor, accesses, imported, pc, state, last, counts, batch, faults>>
  BY DEF Vacuum, dbVars, passVars
<1>2. TypeOK' BY <1>1 DEF TypeOK, Entries, Counts
<1>3. gone \in Nat /\ cursor \in Nat /\ last \in Nat BY DEF TypeOK
<1>4. \A n \in Nat : gone' + 1 .. n \subseteq gone + 1 .. n BY <1>1, <1>3
<1>5. Position' BY <1>1, <1>3, <1>4 DEF Position, Unbroken
<1>6. Tally(batch)' = Tally(batch) BY <1>1 DEF Tally
<1>7. Holds' BY <1>1, <1>3, <1>4, <1>6 DEF Holds, Unbroken
<1> QED BY <1>2, <1>5, <1>7

LEMMA QueryStep ==
    ASSUME JournalInv, Query
    PROVE  JournalInv'
<1> USE DEF JournalInv
<1>1. NoCounts \in Counts BY DEF NoCounts, Counts
<1>2. TypeOK' BY <1>1 DEF Query, TypeOK, Entries, Counts, journalVars, dbVars
<1>3. Position' BY DEF Query, Position, Unbroken, journalVars, dbVars
<1>4. Holds' BY DEF Query, Holds, dbVars
<1> QED BY <1>2, <1>3, <1>4

LEMMA ReadStep ==
    ASSUME JournalInv, Read
    PROVE  JournalInv'
<1> USE DEF JournalInv
<1>1. PICK from \in 0..Len(log), to \in 0..Len(log) :
        /\ Printed(from, to)
        /\ batch' = from + 1 .. to /\ counts' = Tally(from + 1 .. to)
        /\ last' = IF from = to THEN last ELSE to
  BY DEF Read
<1>2. pc = "reading" /\ pc' = "read"
      /\ UNCHANGED <<log, gone, cursor, accesses, imported, state, faults>>
  BY DEF Read, journalVars, dbVars
<1>3. /\ from + 1 .. to \subseteq Entries /\ state = cursor
      /\ from >= cursor /\ from <= to
      /\ Unbroken(imported \cup (from + 1 .. to), to)
  BY <1>1, <1>2, PrintedFacts
<1>4. last = cursor /\ cursor \in 0..Len(log) /\ Len(log) \in Nat
      /\ last \in 0..Len(log) /\ gone \in Nat
  BY <1>2 DEF Holds, TypeOK
<1>5. counts' \in Counts BY <1>1, <1>3, TallyType
<1>6. last' \in 0..Len(log) BY <1>1, <1>4
<1>7. TypeOK' BY <1>1, <1>2, <1>3, <1>5, <1>6 DEF TypeOK, Entries, Counts
<1>8. Position' BY <1>2 DEF Position, Unbroken
<1>9. counts' = Tally(batch)' BY <1>1, <1>2 DEF Tally
<1>10. batch' \subseteq cursor + 1 .. last' /\ cursor <= last'
  BY <1>1, <1>3, <1>4
<1>11. Unbroken(imported \cup batch, last)'
  <2>1. CASE from = to
    <3>1. batch' = {} /\ last' = cursor BY <1>1, <1>4, <2>1
    <3> QED BY <1>2, <3>1 DEF Position, Unbroken
  <2>2. CASE from # to BY <1>1, <1>2, <1>3, <2>2 DEF Unbroken
  <2> QED BY <2>1, <2>2
<1>12. Holds' BY <1>2, <1>9, <1>10, <1>11 DEF Holds
<1> QED BY <1>7, <1>8, <1>12

LEMMA CommitStep ==
    ASSUME JournalInv, Commit
    PROVE  JournalInv'
<1> USE DEF JournalInv
<1>1. /\ pc = "read" /\ pc' = "sleep"
      /\ accesses' = Plus(accesses, counts)
      /\ cursor' = last /\ imported' = imported \cup batch
      /\ UNCHANGED <<log, gone, state, last, counts, batch, faults>>
  BY DEF Commit, journalVars, passVars
<1>2. accesses' \in Counts BY <1>1 DEF Plus, Counts, TypeOK
<1>3. TypeOK' BY <1>1, <1>2 DEF TypeOK, Entries, Counts
<1>4. imported' \subseteq 1..cursor'
  BY <1>1 DEF Position, Holds, TypeOK
<1>5. Position' BY <1>1, <1>4 DEF Position, Holds, Unbroken
<1>6. Holds' BY <1>1 DEF Holds
<1> QED BY <1>3, <1>5, <1>6

LEMMA EndStep ==
    ASSUME JournalInv, ReadFails \/ Interrupt \/ Restart \/ UNCHANGED vars
    PROVE  JournalInv'
<1> USE DEF JournalInv
<1>1. /\ UNCHANGED <<log, gone, cursor, accesses, imported, state, last, counts, batch>>
      /\ pc' \in {"sleep", "down"} \/ pc' = pc
      /\ faults' \in 0..MaxFaults
  BY JournalAssumption DEF ReadFails, Interrupt, Restart, Fault, vars, journalVars,
     dbVars, passVars, TypeOK
<1>2. TypeOK' BY <1>1 DEF TypeOK, Entries, Counts
<1>3. Position' BY <1>1 DEF Position, Unbroken
<1>4. Tally(batch)' = Tally(batch) BY <1>1 DEF Tally
<1>5. Holds' BY <1>1, <1>4 DEF Holds, Unbroken
<1> QED BY <1>2, <1>3, <1>5

LEMMA JournalInvariant == Spec => []JournalInv
<1>1. JournalInv /\ [Next]_vars => JournalInv'
  BY LogStep, VacuumStep, QueryStep, ReadStep, CommitStep, EndStep DEF Next, Pass
<1> QED BY <1>1, JournalInit, PTL DEF Spec

-----------------------------------------------------------------------------
\* Theorems.

\* Cursor, entries and counts keep their types: no pass saves a cursor beyond
\* the entries there are.
THEOREM JournalTypeCorrect == Spec => []TypeOK
<1>1. JournalInv => TypeOK BY DEF JournalInv
<1> QED BY <1>1, JournalInvariant, PTL

LEMMA CommitTakes ==
    ASSUME JournalInv, Commit
    PROVE  Promise!Take(batch)
<1> USE DEF JournalInv
<1>1. /\ pc = "read" /\ accesses' = Plus(accesses, counts)
      /\ imported' = imported \cup batch /\ UNCHANGED <<log, gone>>
  BY DEF Commit, journalVars
<1>2. batch \subseteq Entries BY DEF TypeOK
<1>3. /\ counts = Tally(batch) /\ batch \subseteq cursor + 1 .. last
      /\ Unbroken(imported \cup batch, last)
  BY <1>1 DEF Holds
<1>4. \A i \in batch, j \in imported : j < i BY <1>3 DEF Position, TypeOK
<1>5. \A i \in gone + 1 .. Len(log), j \in imported \cup batch, k \in batch :
        j < i /\ i < k => i \in imported \cup batch
  <2> SUFFICES ASSUME NEW i \in gone + 1 .. Len(log), NEW j \in imported \cup batch,
                      NEW k \in batch, j < i, i < k
               PROVE  i \in imported \cup batch
    OBVIOUS
  <2>1. k \in cursor + 1 .. last BY <1>3
  <2>2. /\ cursor \in Nat /\ last \in Nat /\ gone \in Nat /\ Len(log) \in Nat
    BY DEF TypeOK
  <2>3. i \in gone + 1 .. last BY <2>1, <2>2
  <2> QED BY <1>3, <2>3 DEF Unbroken
<1>6. \A d \in Domains : counts[d] = Promise!Tally(batch, d)
  <2>1. \A d \in Domains : Tally(batch)[d] = Cardinality({i \in batch : log[i] = d})
    BY DEF Tally
  <2>2. \A S : Cardinality(S) = Promise!Cardinality(S)
    BY DEF Cardinality, Promise!Cardinality, IsFiniteSet, Promise!IsFiniteSet
  <2> QED BY <1>3, <2>1, <2>2 DEF Promise!Tally
<1>7. accesses' = [d \in Domains |-> accesses[d] + Promise!Tally(batch, d)]
  BY <1>1, <1>6 DEF Plus
<1> QED BY <1>1, <1>2, <1>4, <1>5, <1>7
    DEF Promise!Take, Promise!Entries, Entries

LEMMA JournalGrows ==
    ASSUME JournalInv, Vacuum \/ \E e \in Domains \cup {Other} : Log(e)
    PROVE  Promise!Grow
<1> USE DEF JournalInv
<1>1. gone \in 0..Len(log) /\ Len(log) \in Nat BY DEF TypeOK
<1>2. CASE Vacuum
  BY <1>1, <1>2 DEF Vacuum, dbVars, Promise!Grow, Promise!Entries
<1>3. CASE \E e \in Domains \cup {Other} : Log(e)
  <2>1. Len(log') = Len(log) + 1 /\ \A i \in Entries : log'[i] = log[i]
    BY <1>3, LogGrows
  <2>2. UNCHANGED <<gone, accesses, imported>> BY <1>3 DEF Log, dbVars
  <2> QED BY <1>1, <2>1, <2>2 DEF Promise!Grow, Promise!Entries, Entries
<1> QED BY <1>2, <1>3

\* The journal command implements the import: whatever fails or is interrupted, no
\* entry is counted twice, out of order or passed over.
THEOREM ImportRefinement == Spec => ImplementsImport
<1>1. Init => Promise!Init BY DEF Init, NoCounts, Promise!Init
<1>2. ASSUME JournalInv, [Next]_vars
      PROVE  [Promise!Next]_Promise!importVars
  <2>1. CASE Commit
    <3>1. batch \in SUBSET Promise!Entries
      BY <1>2 DEF JournalInv, TypeOK, Entries, Promise!Entries
    <3> QED BY <1>2, <2>1, <3>1, CommitTakes DEF Promise!Next
  <2>2. CASE Vacuum \/ \E e \in Domains \cup {Other} : Log(e)
    BY <1>2, <2>2, JournalGrows DEF Promise!Next
  <2>3. CASE \/ Query \/ Read \/ Restart \/ ReadFails \/ Interrupt \/ UNCHANGED vars
    BY <2>3 DEF Query, Read, Restart, ReadFails, Interrupt, vars, journalVars, dbVars,
       Promise!importVars
  <2> QED BY <1>2, <2>1, <2>2, <2>3 DEF Next, Pass
<1> QED BY <1>1, <1>2, JournalInvariant, PTL DEF Spec, Promise!Spec, ImplementsImport

-----------------------------------------------------------------------------
\* What the import amounts to: exact counts, and no entry that is passed over.

\* The connections recorded for a destination are its imported entries.
CountsExact == accesses = Tally(imported)

\* A cursor that has been saved, and the one a pass is about to save, name entries
\* that are imported or about to be.
Anchored ==
    /\ cursor # 0 => cursor \in imported
    /\ pc = "read" => last = cursor \/ last \in batch

PromiseInv == JournalInv /\ CountsExact /\ Anchored

\* The tallies of disjoint sets of entries add up.
LEMMA TallyUnion ==
    ASSUME TypeOK, NEW S, S \subseteq Entries, NEW T, T \subseteq Entries, S \cap T = {}
    PROVE  Tally(S \cup T) = Plus(Tally(S), Tally(T))
<1>1. IsFiniteSet(Entries) BY FS_Interval DEF Entries, TypeOK
<1>2. ASSUME NEW d \in Domains
      PROVE  Cardinality({i \in S \cup T : log[i] = d})
             = Cardinality({i \in S : log[i] = d}) + Cardinality({i \in T : log[i] = d})
  <2> DEFINE A == {i \in S : log[i] = d}
             B == {i \in T : log[i] = d}
  <2>1. {i \in S \cup T : log[i] = d} = A \cup B OBVIOUS
  <2>2. IsFiniteSet(A) /\ IsFiniteSet(B)
    <3>1. A \in SUBSET Entries /\ B \in SUBSET Entries OBVIOUS
    <3> QED BY <1>1, <3>1, FS_Subset
  <2>3. Cardinality(A) \in Nat /\ Cardinality(B) \in Nat
    BY <2>2, FS_CardinalityType
  <2>4. Cardinality(A \cup B) = Cardinality(A) + Cardinality(B) - Cardinality(A \cap B)
    BY <2>2, FS_Union
  <2>5. A \cap B = {} OBVIOUS
  <2>6. Cardinality(A \cap B) = 0 BY <2>5, FS_EmptySet
  <2> HIDE DEF A, B
  <2>7. Cardinality(A \cup B) = Cardinality(A) + Cardinality(B)
    BY <2>3, <2>4, <2>6
  <2> QED BY <2>1, <2>7 DEF A, B
<1> QED BY <1>2 DEF Tally, Plus

LEMMA PromiseInit == Init => PromiseInv
<1> SUFFICES ASSUME Init PROVE PromiseInv OBVIOUS
<1>1. JournalInv BY JournalInit
<1>2. ASSUME NEW d \in Domains PROVE Cardinality({i \in {} : log[i] = d}) = 0
  <2>1. {i \in {} : log[i] = d} = {} OBVIOUS
  <2> QED BY <2>1, FS_EmptySet
<1>3. CountsExact BY <1>2 DEF Init, CountsExact, Tally, NoCounts
<1> QED BY <1>1, <1>3 DEF Init, PromiseInv, Anchored

LEMMA PromiseStep ==
    ASSUME PromiseInv, [Next]_vars
    PROVE  PromiseInv'
<1> USE DEF PromiseInv
<1>1. JournalInv'
  BY LogStep, VacuumStep, QueryStep, ReadStep, CommitStep, EndStep DEF Next, Pass
<1>2. TypeOK /\ imported \subseteq Entries /\ batch \subseteq Entries
  BY DEF JournalInv, TypeOK
<1>3. CASE Commit
  <2>1. /\ pc = "read" /\ pc' = "sleep" /\ accesses' = Plus(accesses, counts)
        /\ cursor' = last /\ imported' = imported \cup batch /\ log' = log
    BY <1>3 DEF Commit, journalVars
  <2>2. counts = Tally(batch) /\ imported \cap batch = {}
    BY <2>1 DEF JournalInv, Holds, Position, TypeOK
  <2>3. accesses' = Tally(imported \cup batch)
    BY <1>2, <2>1, <2>2, TallyUnion DEF CountsExact
  <2>4. CountsExact' BY <2>1, <2>3 DEF CountsExact, Tally
  <2> QED BY <1>1, <2>1, <2>4 DEF Anchored
<1>4. CASE Read
  <2>1. PICK from \in 0..Len(log), to \in 0..Len(log) :
          /\ Printed(from, to) /\ batch' = from + 1 .. to
          /\ last' = IF from = to THEN last ELSE to
    BY <1>4 DEF Read
  <2>2. pc = "reading" /\ UNCHANGED <<log, accesses, imported, cursor>>
    BY <1>4 DEF Read, journalVars, dbVars
  <2>3. last = cursor BY <2>2 DEF JournalInv, Holds
  <2>4. from <= to BY <2>1 DEF Printed
  <2>5. last' = cursor' \/ last' \in batch' BY <1>2, <2>1, <2>2, <2>3, <2>4 DEF TypeOK
  <2>6. CountsExact' BY <2>2 DEF CountsExact, Tally
  <2> QED BY <1>1, <2>2, <2>5, <2>6 DEF Anchored
<1>5. CASE \E e \in Domains \cup {Other} : Log(e)
  <2>1. UNCHANGED <<cursor, imported, accesses, pc, last, batch>>
    BY <1>5 DEF Log, dbVars, passVars
  <2>2. \A d \in Domains :
           {i \in imported : log'[i] = d} = {i \in imported : log[i] = d}
    BY <1>2, <1>5, LogGrows
  <2>3. CountsExact' BY <2>1, <2>2 DEF CountsExact, Tally
  <2> QED BY <1>1, <2>1, <2>3 DEF Anchored
<1>6. CASE \/ Vacuum \/ Query \/ Restart \/ ReadFails \/ Interrupt \/ UNCHANGED vars
  <2>1. /\ UNCHANGED <<log, cursor, imported, accesses>>
        /\ pc' # "read" \/ UNCHANGED <<pc, last, batch>>
    BY <1>6 DEF Vacuum, Query, Restart, ReadFails, Interrupt, vars, journalVars, dbVars,
       passVars
  <2>2. CountsExact' BY <2>1 DEF CountsExact, Tally
  <2> QED BY <1>1, <2>1, <2>2 DEF Anchored
<1> QED BY <1>3, <1>4, <1>5, <1>6 DEF Next, Pass

LEMMA PromiseInvariant == Spec => []PromiseInv
BY PromiseInit, PromiseStep, PTL DEF Spec

\* However passes fail, are killed and are repeated, the recorded connections of
\* every destination are exactly its imported entries: nothing is counted twice,
\* or imported without its count.
THEOREM CountsAreExact == Spec => []CountsExact
<1>1. PromiseInv => CountsExact BY DEF PromiseInv
<1> QED BY <1>1, PromiseInvariant, PTL

\* The cursor never goes back, and of what it moves over, once it has been set,
\* every entry is imported by the same step, or was given up by the journal.
NothingPassedOver ==
    [][/\ cursor <= cursor'
       /\ imported \subseteq imported'
       /\ cursor # 0 =>
             \A n \in cursor + 1 .. cursor' : n \in imported' \/ n <= gone]_vars

\* A failed, interrupted or repeated pass never moves the cursor over an entry that
\* it has not counted: the safety of the promise that a failed read is made good.
THEOREM CursorPassesNothing == Spec => NothingPassedOver
<1>1. ASSUME PromiseInv, [Next]_vars
      PROVE  /\ cursor <= cursor' /\ imported \subseteq imported'
             /\ cursor # 0 =>
                   \A n \in cursor + 1 .. cursor' : n \in imported' \/ n <= gone
  <2> USE <1>1 DEF PromiseInv
  <2>1. cursor \in Nat /\ gone \in Nat /\ last \in Nat BY DEF JournalInv, TypeOK
  <2>2. CASE Commit
    <3>1. pc = "read" /\ cursor' = last /\ imported' = imported \cup batch
      BY <2>2 DEF Commit
    <3>2. cursor <= last /\ Unbroken(imported \cup batch, last)
      BY <3>1 DEF JournalInv, Holds
    <3>3. ASSUME cursor # 0, NEW n \in cursor + 1 .. last, ~(n <= gone)
          PROVE  n \in imported \cup batch
      <4>1. cursor \in imported BY <3>3 DEF Anchored
      <4>2. n \in gone + 1 .. last /\ cursor < n BY <2>1, <3>3
      <4> QED BY <3>2, <4>1, <4>2 DEF Unbroken
    <3> QED BY <3>1, <3>2, <3>3
  <2>3. CASE ~Commit
    <3>1. UNCHANGED <<cursor, imported>>
      BY <1>1, <2>3 DEF Next, Pass, Log, Vacuum, Query, Read, Restart, ReadFails,
         Interrupt, vars, dbVars
    <3> QED BY <2>1, <3>1
  <2> QED BY <2>2, <2>3
<1> QED BY <1>1, PromiseInvariant, PTL DEF Spec, NothingPassedOver

\* A read of a journal that holds something behind the cursor finds some of it.
ReadTakes ==
    [][Read /\ 0 < cursor /\ cursor < Len(log) /\ gone < Len(log)
          => cursor < last' /\ last' \in batch']_vars

\* No pass runs on the spot: as long as entries are left behind the cursor, what a
\* read brings is not empty and the commit that follows it moves the cursor, for any
\* limit of a read and whatever the journal has given up.
THEOREM ReadsAdvance == Spec => ReadTakes
<1>1. ASSUME JournalInv, Read, 0 < cursor, cursor < Len(log), gone < Len(log)
      PROVE  cursor < last' /\ last' \in batch'
  <2> USE <1>1 DEF JournalInv
  <2>1. PICK from \in 0..Len(log), to \in 0..Len(log) :
          /\ Printed(from, to) /\ batch' = from + 1 .. to
          /\ last' = IF from = to THEN last ELSE to
    BY DEF Read
  <2>2. state = cursor /\ cursor \in Nat /\ gone \in Nat /\ Len(log) \in Nat
    BY DEF Read, Holds, TypeOK
  <2>3. from = (IF cursor < gone THEN gone ELSE cursor) /\ from <= to
        /\ (to - from = MaxRecords \/ to = Len(log))
    BY <2>1, <2>2 DEF Printed
  <2>4. MaxRecords \in Nat /\ MaxRecords # 0 BY JournalAssumption
  <2>5. from < to /\ cursor <= from BY <2>2, <2>3, <2>4
  <2> QED BY <2>1, <2>2, <2>5
<1>2. JournalInv /\ [Next]_vars
      => [Read /\ 0 < cursor /\ cursor < Len(log) /\ gone < Len(log)
          => cursor < last' /\ last' \in batch']_vars
  BY <1>1
<1> QED BY <1>2, JournalInvariant, PTL DEF Spec, ReadTakes
=============================================================================
