--------------------------- MODULE SchedulerProofs --------------------------
(***************************************************************************)
(* What holds of Scheduler for any frequencies, requests, weeks and        *)
(* bounds.  Every copy of the settings, in the row, in the pass and in a   *)
(* request, names a delivered period or none: that is the invariant.       *)
(* RepeatsInv adds when a report may be repeated: each repetition needs an *)
(* excuse that was not there before.                                       *)
(***************************************************************************)
EXTENDS Scheduler, TLAPS

-----------------------------------------------------------------------------
\* Lemmas.

LEMMA WeekStart ==
    ASSUME NEW t \in Nat
    PROVE  t - (t % Week) \in 0..t
<1>1. Week \in Nat /\ Week > 0 BY SchedulerAssumption, SMT
<1>2. CASE t < Week
  <2>1. t % Week = t BY <1>1, <1>2, SMT
  <2> QED BY <2>1, SMT
<1>3. CASE t >= Week
  <2>1. t % Week \in 0..(Week - 1) BY <1>1, SMT
  <2> QED BY <1>1, <1>3, <2>1, SMT
<1> QED BY <1>1, <1>2, <1>3, SMT

LEMMA DueIsKey ==
    ASSUME NEW f \in Frequencies, NEW t \in 0..MaxDay
    PROVE  Due(f, t) \in Keys
<1>1. t - (t % Week) \in 0..t BY WeekStart, SMT
<1>2. t - (t % Week) \in 0..MaxDay BY <1>1, SchedulerAssumption, SMT
<1> QED BY <1>2 DEF Due, Keys

LEMMA NoKeyIsNoKey == NoKey \notin Keys
BY SchedulerAssumption DEF NoKey, Keys

-----------------------------------------------------------------------------
\* The inductive invariant.

Mailed(k) == k # NoKey => delivered[k] > 0

\* No copy of the settings claims a period that was not delivered, and a pass
\* that is about to claim one has delivered it.
Claims ==
    /\ Mailed(row.last) /\ Mailed(copy.last)
    /\ \A r \in Requests : Mailed(request[r].read.last)
    /\ pc \in {"sending", "accepted", "failed"} => copy.frequency # "off"
    /\ pc = "accepted" => delivered[Key] > 0

SchedulerInv == TypeOK /\ Claims /\ AdminWins

LEMMA SchedulerInit ==
    ASSUME Init
    PROVE  SchedulerInv
<1> USE SchedulerAssumption
<1>1. PICK c \in Contacts :
        /\ row = [frequency |-> "off", contact |-> c, last |-> NoKey, error |-> FALSE]
        /\ copy = row /\ admin = [frequency |-> "off", contact |-> c]
        /\ request = [r \in Requests |-> [open |-> FALSE, read |-> row]]
  BY DEF Init
<1>2. row \in Settings /\ row.last = NoKey BY <1>1 DEF Settings
<1>3. request \in [Requests -> [open : BOOLEAN, read : Settings]] BY <1>1, <1>2
<1>4. day \in 0..MaxDay /\ now \in 0..day /\ {overlaps, changes, broken} \subseteq Nat
      /\ edits \in 0..MaxEdits /\ faults \in 0..MaxFaults
  BY SMT DEF Init
<1>5. TypeOK
  <2>1. copy \in Settings BY <1>1, <1>2
  <2>2. delivered \in [Keys -> Nat] BY SMT DEF Init
  <2>3. admin \in [frequency : Frequencies \cup {"off"}, contact : Contacts] BY <1>1
  <2>4. pc = "sleep" BY DEF Init
  <2> QED BY <1>2, <1>3, <1>4, <2>1, <2>2, <2>3, <2>4 DEF TypeOK
<1>6. Claims BY <1>1, <1>2 DEF Claims, Mailed, Init
<1>7. AdminWins BY <1>1 DEF AdminWins
<1> QED BY <1>5, <1>6, <1>7 DEF SchedulerInv

\* The steps of a pass that neither read nor write the settings.
LEMMA IdleStep ==
    ASSUME SchedulerInv,
           Begin \/ SendFails \/ Interrupt \/ Restart \/ Tomorrow \/ UNCHANGED vars
    PROVE  SchedulerInv'
<1> USE SchedulerAssumption DEF SchedulerInv
<1>1. /\ UNCHANGED <<row, copy, request, delivered, admin, overlaps, changes, edits>>
      /\ pc' \in {"pruned", "failed", "down", "sleep"} \/ UNCHANGED <<pc, now>>
      /\ pc' = "failed" => pc \in {"sending", "accepted", "failed"}
  BY DEF Begin, SendFails, Interrupt, Restart, Tomorrow, vars, passVars, historyVars
<1>2. day' \in 0..MaxDay /\ now' \in 0..day'
  BY SMT DEF TypeOK, Begin, SendFails, Interrupt, Restart, Tomorrow, vars, passVars
<1>3. broken' \in Nat
  BY SMT DEF TypeOK, Begin, SendFails, Interrupt, Restart, Tomorrow, vars, passVars,
     historyVars
<1>4. faults' \in 0..MaxFaults
  BY SMT DEF TypeOK, Begin, SendFails, Interrupt, Restart, Tomorrow, vars, passVars,
     historyVars, Fault
<1>5. pc' \in {"sleep", "pruned", "sending", "accepted", "failed", "down"}
  BY <1>1 DEF TypeOK
<1>6. TypeOK' BY <1>1, <1>2, <1>3, <1>4, <1>5 DEF TypeOK
<1>7. Claims' BY <1>1, SMT DEF Claims, Mailed, Key
<1>8. AdminWins' BY <1>1 DEF AdminWins
<1> QED BY <1>6, <1>7, <1>8

LEMMA ReadStep ==
    ASSUME SchedulerInv, Read
    PROVE  SchedulerInv'
<1> USE DEF SchedulerInv
<1>1. /\ copy' = row /\ pc' \in {"sleep", "sending"}
      /\ pc' = "sending" => row.frequency # "off"
      /\ UNCHANGED <<day, now, row, request, delivered, admin, overlaps, changes,
                      broken, edits, faults>>
  BY DEF Read, historyVars
<1>2. TypeOK' BY <1>1 DEF TypeOK
<1>3. Claims' BY <1>1 DEF Claims, Mailed
<1>4. AdminWins' BY <1>1 DEF AdminWins
<1> QED BY <1>2, <1>3, <1>4

\* The period a pass works on is one of the periods.
LEMMA KeyIsKey ==
    ASSUME SchedulerInv, pc \in {"sending", "accepted", "failed"}
    PROVE  Key \in Keys
<1>1. copy.frequency \in Frequencies BY DEF SchedulerInv, TypeOK, Settings, Claims
<1>2. now \in 0..MaxDay BY SchedulerAssumption, SMT DEF SchedulerInv, TypeOK
<1> QED BY <1>1, <1>2, DueIsKey DEF Key

LEMMA DeliverStep ==
    ASSUME SchedulerInv, Deliver
    PROVE  SchedulerInv'
<1> USE DEF SchedulerInv
<1>1. /\ pc = "sending" /\ pc' = "accepted"
      /\ delivered' = [delivered EXCEPT ![Key] = @ + 1]
      /\ UNCHANGED <<day, now, row, copy, request, admin, overlaps, changes, broken,
                      edits, faults>>
  BY DEF Deliver, historyVars
<1>2. Key \in Keys /\ Key' = Key BY <1>1, KeyIsKey DEF Key
<1> HIDE DEF Key
<1>3. delivered \in [Keys -> Nat] BY DEF TypeOK
<1>4. /\ delivered' \in [Keys -> Nat] /\ delivered'[Key] > 0
      /\ \A k \in Keys : delivered'[k] >= delivered[k]
  BY <1>1, <1>2, <1>3, SMT
<1>5. ASSUME NEW k \in Keys \cup {NoKey}, Mailed(k) PROVE Mailed(k)'
  BY <1>3, <1>4, <1>5, SMT DEF Mailed
<1>6. TypeOK' BY <1>1, <1>4 DEF TypeOK
<1>7. Claims'
  <2>1. /\ row.last \in Keys \cup {NoKey} /\ copy.last \in Keys \cup {NoKey}
        /\ \A r \in Requests : request[r].read.last \in Keys \cup {NoKey}
    BY DEF TypeOK, Settings
  <2>2. Mailed(row.last)' /\ Mailed(copy.last)' BY <1>1, <1>5, <2>1 DEF Claims, Mailed
  <2>3. \A r \in Requests : Mailed(request[r].read.last)'
    BY <1>1, <1>5, <2>1 DEF Claims, Mailed
  <2>4. copy'.frequency # "off" BY <1>1 DEF Claims
  <2> QED BY <1>1, <1>2, <1>4, <2>2, <2>3, <2>4 DEF Claims
<1>8. AdminWins' BY <1>1 DEF AdminWins
<1> QED BY <1>6, <1>7, <1>8

LEMMA SaveSentStep ==
    ASSUME SchedulerInv, SaveSent
    PROVE  SchedulerInv'
<1> USE DEF SchedulerInv
<1>1. /\ pc = "accepted" /\ pc' = "sleep"
      /\ row' = [row EXCEPT !.last = Key, !.error = FALSE]
      /\ UNCHANGED <<day, now, copy, request, delivered, admin, overlaps, changes,
                      broken, edits, faults>>
  BY DEF SaveSent, historyVars
<1>2. Key \in Keys BY <1>1, KeyIsKey
<1>3. delivered[Key] > 0 BY <1>1 DEF Claims
<1> HIDE DEF Key
<1>4. /\ row' \in Settings /\ row'.last = Key
      /\ row'.frequency = row.frequency /\ row'.contact = row.contact
  BY <1>1, <1>2 DEF TypeOK, Settings
<1>5. TypeOK' BY <1>1, <1>4 DEF TypeOK
<1>6. Claims' BY <1>1, <1>3, <1>4 DEF Claims, Mailed
<1>7. AdminWins' BY <1>1, <1>4 DEF AdminWins
<1> QED BY <1>5, <1>6, <1>7

LEMMA SaveErrorStep ==
    ASSUME SchedulerInv, SaveError
    PROVE  SchedulerInv'
<1> USE DEF SchedulerInv
<1>1. /\ pc' = "sleep" /\ row' = [row EXCEPT !.error = TRUE]
      /\ UNCHANGED <<day, now, copy, request, delivered, admin, overlaps, changes,
                      broken, edits, faults>>
  BY DEF SaveError, historyVars
<1>2. /\ row' \in Settings /\ row'.last = row.last
      /\ row'.frequency = row.frequency /\ row'.contact = row.contact
  BY <1>1 DEF TypeOK, Settings
<1>3. TypeOK' BY <1>1, <1>2 DEF TypeOK
<1>4. Claims' BY <1>1, <1>2 DEF Claims, Mailed
<1>5. AdminWins' BY <1>1, <1>2 DEF AdminWins
<1> QED BY <1>3, <1>4, <1>5

LEMMA RequestStep ==
    ASSUME SchedulerInv, NEW r \in Requests, Open(r) \/ Leave(r)
    PROVE  SchedulerInv'
<1> USE DEF SchedulerInv
<1>1. /\ UNCHANGED <<day, now, pc, row, copy, delivered, admin, overlaps, changes,
                      broken, edits, faults>>
      /\ \/ request' = [request EXCEPT ![r] = [open |-> TRUE, read |-> row]]
         \/ request' = [request EXCEPT ![r] = [request[r] EXCEPT !.open = FALSE]]
  BY DEF Open, Leave, historyVars, passVars, TypeOK
<1>2. /\ request' \in [Requests -> [open : BOOLEAN, read : Settings]]
      /\ \A q \in Requests : request'[q].read \in {request[q].read, row}
  <2>1. CASE request' = [request EXCEPT ![r] = [open |-> TRUE, read |-> row]]
    BY <2>1 DEF TypeOK
  <2>2. CASE request' = [request EXCEPT ![r] = [request[r] EXCEPT !.open = FALSE]]
    BY <2>2 DEF TypeOK
  <2> QED BY <1>1, <2>1, <2>2
<1>3. TypeOK' BY <1>1, <1>2 DEF TypeOK
<1>4. Claims' BY <1>1, <1>2 DEF Claims, Mailed, Key
<1>5. AdminWins' BY <1>1 DEF AdminWins
<1> QED BY <1>3, <1>4, <1>5

LEMMA SaveStep ==
    ASSUME SchedulerInv, NEW r \in Requests, NEW f \in Frequencies \cup {"off"},
           NEW c \in Contacts, Save(r, f, c)
    PROVE  SchedulerInv'
<1> USE SchedulerAssumption DEF SchedulerInv
<1>1. /\ row' = [request[r].read EXCEPT !.frequency = f, !.contact = c]
      /\ request' = [request EXCEPT ![r] = [request[r] EXCEPT !.open = FALSE]]
      /\ admin' = [frequency |-> f, contact |-> c]
      /\ UNCHANGED <<day, now, pc, copy, delivered, broken, faults>>
  BY DEF Save, passVars, TypeOK
<1>2. /\ row' \in Settings /\ row'.last = request[r].read.last
      /\ row'.frequency = f /\ row'.contact = c
  BY <1>1 DEF TypeOK, Settings
<1>3. /\ request' \in [Requests -> [open : BOOLEAN, read : Settings]]
      /\ \A q \in Requests : request'[q].read = request[q].read
  BY <1>1 DEF TypeOK
<1>4. overlaps' \in Nat /\ changes' \in Nat /\ edits' \in 0..MaxEdits
  <2>1. overlaps' \in {overlaps, overlaps + 1} /\ changes' \in {changes, changes + 1}
        /\ edits < MaxEdits /\ edits' = edits + 1
    BY DEF Save
  <2> QED BY <2>1, SMT DEF TypeOK
<1>5. TypeOK' BY <1>1, <1>2, <1>3, <1>4 DEF TypeOK
<1>6. Claims' BY <1>1, <1>2, <1>3 DEF Claims, Mailed, Key
<1>7. AdminWins' BY <1>1, <1>2 DEF AdminWins
<1> QED BY <1>5, <1>6, <1>7

LEMMA SchedulerNext ==
    ASSUME SchedulerInv, [Next]_vars
    PROVE  SchedulerInv'
BY IdleStep, ReadStep, DeliverStep, SaveSentStep, SaveErrorStep, RequestStep, SaveStep
   DEF Next, Pass

LEMMA SchedulerInvariance == Spec => []SchedulerInv
BY SchedulerInit, SchedulerNext, PTL DEF Spec

\* The row, its copies and the counts keep their types.
THEOREM SchedulerTypeCorrect == Spec => []TypeOK
BY SchedulerInvariance, PTL DEF SchedulerInv

\* A pass that started before a save of the form never brings back old settings.
THEOREM AdminAlwaysWins == Spec => []AdminWins
BY SchedulerInvariance, PTL DEF SchedulerInv

\* No period is ever recorded as sent whose report no server accepted.
THEOREM SentWasDelivered == Spec => []SentIsDelivered
<1>1. SchedulerInv => SentIsDelivered
    BY DEF SchedulerInv, Claims, Mailed, SentIsDelivered
<1> QED BY <1>1, SchedulerInvariance, PTL

-----------------------------------------------------------------------------
\* Why a report is repeated.

Excuses == broken + overlaps + changes

\* Of two due periods of one frequency, the later one ends no earlier.
LEMMA DueGrows ==
    ASSUME NEW f, NEW t \in Nat, NEW u \in Nat, t <= u
    PROVE  /\ Due(f, t)[1] = f /\ Due(f, t)[2] \in Nat
           /\ Due(f, t)[2] <= Due(f, u)[2]
<1> DEFINE start(x) == x - (x % Week)
<1>1. Week \in Nat \ {0} BY SchedulerAssumption
<1>2. start(t) \in 0..t /\ start(u) \in 0..u BY WeekStart
<1>3. start(t) <= start(u)
  <2>1. /\ t = Week * (t \div Week) + (t % Week) /\ t % Week \in 0..Week - 1
        /\ u = Week * (u \div Week) + (u % Week) /\ u % Week \in 0..Week - 1
    BY <1>1, SMT
  <2> DEFINE p == t \div Week
             q == u \div Week
  <2>2. p \in Nat /\ q \in Nat BY <1>1, SMT
  <2>3. Week * p \in Nat /\ Week * q \in Nat BY <1>1, <2>2, SMT
  <2>4. start(t) = Week * p /\ start(u) = Week * q BY <2>1, <2>3, SMT
  <2> HIDE DEF p, q
  <2>5. CASE p <= q
    <3>1. PICK d \in Nat : q = p + d
      <4>1. q - p \in Nat /\ q = p + (q - p) BY <2>2, <2>5, SMT
      <4> QED BY <4>1
    <3>2. Week * q = Week * p + Week * d /\ Week * d \in Nat BY <1>1, <2>2, <3>1, SMT
    <3> QED BY <2>3, <2>4, <3>2, SMT
  <2>6. CASE ~(p <= q)
    <3>1. PICK d \in Nat : p = q + 1 + d
      <4>1. p - q - 1 \in Nat /\ p = q + 1 + (p - q - 1) BY <2>2, <2>6, SMT
      <4> QED BY <4>1
    <3>2. Week * p = Week * q + Week + Week * d /\ Week * d \in Nat
      BY <1>1, <2>2, <3>1, SMT
    <3>3. u < Week * q + Week BY <1>1, <2>1, <2>3, <2>4, SMT
    <3>4. t >= Week * p BY <1>2, <2>3, <2>4, SMT
    <3> QED BY <1>1, <2>3, <3>2, <3>3, <3>4, SMT
  <2> QED BY <2>5, <2>6
<1> HIDE DEF start
<1>4. Due(f, t) = <<f, IF f = "weekly" THEN start(t) ELSE t>>
      /\ Due(f, u) = <<f, IF f = "weekly" THEN start(u) ELSE u>>
  BY DEF Due, start
<1> QED BY <1>2, <1>3, <1>4, SMT

\* A period that has been recorded was due no later than the running pass is.
Past(k) == k # NoKey => k[2] <= Due(k[1], now)[2]

\* The report cannot be repeated again without another excuse.
Spent(k) == delivered[k] = Excuses + 1

\* A spent period is the one being recorded, or the schedule has moved past it.
Passed(k) ==
    /\ k[1] = row.frequency
    /\ \/ row.last # NoKey /\ row.last[1] = k[1] /\ k[2] <= row.last[2]
       \/ pc = "accepted" /\ k = Key

RepeatsInv ==
    /\ Past(row.last) /\ \A r \in Requests : Past(request[r].read.last)
    /\ \A k \in Keys : delivered[k] <= Excuses + 1
    /\ \A k \in Keys : Spent(k) => Passed(k)
    /\ pc = "sending" => delivered[Key] <= Excuses
    /\ pc \in {"sending", "accepted"} /\ copy.frequency # row.frequency =>
          \A k \in Keys : ~Spent(k)
    /\ pc = "sending" /\ copy.frequency # row.frequency => delivered[Key] + 1 <= Excuses

LEMMA ExcusesCount ==
    ASSUME SchedulerInv
    PROVE  /\ Excuses \in Nat
           /\ \A k \in Keys : delivered[k] \in Nat
           /\ day \in Nat /\ now \in Nat /\ now <= day
<1>1. overlaps \in Nat /\ changes \in Nat /\ broken \in Nat
  BY DEF SchedulerInv, TypeOK
<1>2. day \in Nat /\ now \in Nat /\ now <= day
  BY SchedulerAssumption, SMT DEF SchedulerInv, TypeOK
<1>3. Excuses \in Nat BY <1>1, SMT DEF Excuses
<1> QED BY <1>2, <1>3 DEF SchedulerInv, TypeOK

LEMMA KeyParts ==
    ASSUME NEW k \in Keys
    PROVE  k # NoKey /\ k[1] \in Frequencies /\ k[2] \in Nat
BY NoKeyIsNoKey, SchedulerAssumption, SMT DEF Keys

\* An excuse more pays for every report that was repeated before.
LEMMA MoreExcuses ==
    ASSUME SchedulerInv, RepeatsInv, delivered' = delivered,
           Excuses' \in Nat, Excuses' > Excuses,
           pc' = "sending" => pc = "sending" /\ Key' = Key,
           Past(row.last)', \A r \in Requests : Past(request[r].read.last)'
    PROVE  RepeatsInv'
<1>1. \A k \in Keys : delivered'[k] <= Excuses'
  BY ExcusesCount, SMT DEF RepeatsInv
<1>2. \A k \in Keys : delivered'[k] <= Excuses' + 1 /\ ~Spent(k)'
  <2>1. \A k \in Keys : delivered'[k] \in Nat BY ExcusesCount
  <2> QED BY <1>1, <2>1, SMT DEF Spent
<1>3. ASSUME pc' = "sending" PROVE delivered'[Key'] + 1 <= Excuses'
  <2>1. pc = "sending" /\ Key' = Key /\ Key \in Keys BY <1>3, KeyIsKey
  <2>2. delivered[Key] <= Excuses BY <2>1 DEF RepeatsInv
  <2> HIDE DEF Key
  <2>3. delivered[Key] \in Nat BY <2>1, ExcusesCount
  <2> QED BY <2>1, <2>2, <2>3, ExcusesCount, SMT
<1>4. ASSUME pc' = "sending" PROVE delivered'[Key'] <= Excuses'
  <2>1. Key' = Key /\ Key \in Keys BY <1>4, KeyIsKey
  <2> HIDE DEF Key
  <2> QED BY <1>1, <2>1
<1> QED BY <1>2, <1>3, <1>4, Zenon DEF RepeatsInv

\* A step that delivers and records nothing, and needs no excuse.
LEMMA SameExcuses ==
    ASSUME SchedulerInv, RepeatsInv, delivered' = delivered, Excuses' = Excuses,
           row'.frequency = row.frequency, row'.last = row.last, copy' = copy,
           \/ UNCHANGED <<pc, now>>
           \/ pc # "accepted" /\ pc' \notin {"sending", "accepted"},
           Past(row.last)', \A r \in Requests : Past(request[r].read.last)'
    PROVE  RepeatsInv'
<1>1. \A k : Spent(k)' <=> Spent(k) BY DEF Spent
<1>2. ASSUME NEW k \in Keys, Spent(k) PROVE Passed(k)'
  BY <1>2, SMT DEF RepeatsInv, Passed, Key
<1>3. \A k \in Keys : delivered'[k] <= Excuses' + 1 BY DEF RepeatsInv
<1>4. CASE UNCHANGED <<pc, now>>
  <2>1. Key' = Key BY <1>4 DEF Key
  <2> QED BY <1>1, <1>2, <1>3, <1>4, <2>1, Zenon DEF RepeatsInv
<1>5. CASE pc' \notin {"sending", "accepted"}
  BY <1>1, <1>2, <1>3, <1>5, Zenon DEF RepeatsInv
<1> QED BY <1>4, <1>5

\* Time only makes more periods past ones.
LEMMA PastStays ==
    ASSUME SchedulerInv, NEW k \in Keys \cup {NoKey}, Past(k), now' \in {now, day}
    PROVE  Past(k)'
<1>1. CASE k = NoKey BY <1>1 DEF Past
<1>2. CASE k \in Keys
  <2>1. k # NoKey /\ k[2] \in Nat BY <1>2, KeyParts
  <2>2. now \in Nat /\ now' \in Nat /\ now <= now' BY ExcusesCount, SMT
  <2>3. /\ Due(k[1], now)[2] \in Nat /\ Due(k[1], now')[2] \in Nat
        /\ Due(k[1], now)[2] <= Due(k[1], now')[2]
    BY <2>2, DueGrows
  <2>4. k[2] <= Due(k[1], now)[2] BY <2>1 DEF Past
  <2> QED BY <2>1, <2>3, <2>4, SMT DEF Past
<1> QED BY <1>1, <1>2

LEMMA LastsAreKeys ==
    ASSUME SchedulerInv
    PROVE  /\ row.last \in Keys \cup {NoKey}
           /\ \A r \in Requests : request[r].read.last \in Keys \cup {NoKey}
BY DEF SchedulerInv, TypeOK, Settings

LEMMA RepeatsIdle ==
    ASSUME SchedulerInv, RepeatsInv,
           \/ Begin \/ SendFails \/ SaveError \/ Interrupt \/ Restart \/ Tomorrow
           \/ UNCHANGED vars
    PROVE  RepeatsInv'
<1>1. /\ UNCHANGED <<copy, request, delivered, overlaps, changes>>
      /\ row'.last = row.last /\ row'.frequency = row.frequency
      /\ now' \in {now, day}
      /\ UNCHANGED <<pc, now>> \/ pc' \notin {"sending", "accepted"}
  BY DEF Begin, SendFails, SaveError, Interrupt, Restart, Tomorrow, vars, passVars,
     historyVars, SchedulerInv, TypeOK, Settings
<1>2. Past(row.last)' /\ \A r \in Requests : Past(request[r].read.last)'
  <2>1. Past(row.last) /\ \A r \in Requests : Past(request[r].read.last)
    BY DEF RepeatsInv
  <2>2. ASSUME NEW k \in Keys \cup {NoKey}, Past(k)
        PROVE  k # NoKey => k[2] <= Due(k[1], now')[2]
    BY <1>1, <2>2, PastStays DEF Past
  <2> QED BY <1>1, <2>1, <2>2, LastsAreKeys DEF Past
<1>3. CASE broken' = broken /\ (UNCHANGED <<pc, now>> \/ pc # "accepted")
  <2>1. Excuses' = Excuses BY <1>1, <1>3 DEF Excuses
  <2> QED BY <1>1, <1>2, <1>3, <2>1, SameExcuses
<1>4. CASE broken' = broken + 1 /\ pc' \in {"failed", "down"}
  <2>1. Excuses' = Excuses + 1 /\ Excuses \in Nat
    BY <1>1, <1>4, SMT DEF Excuses, SchedulerInv, TypeOK
  <2>2. Excuses' \in Nat /\ Excuses' > Excuses BY <2>1, SMT
  <2> QED BY <1>1, <1>2, <1>4, <2>2, MoreExcuses
<1>5. \/ broken' = broken /\ (UNCHANGED <<pc, now>> \/ pc # "accepted")
      \/ broken' = broken + 1 /\ pc' \in {"failed", "down"}
  BY DEF Begin, SendFails, SaveError, Interrupt, Restart, Tomorrow, vars, passVars,
     historyVars
<1> QED BY <1>3, <1>4, <1>5

\* A period that is due again would have to end after the recorded one.
LEMMA RepeatsRead ==
    ASSUME SchedulerInv, RepeatsInv, Read
    PROVE  RepeatsInv'
<1>1. /\ copy' = row /\ pc = "pruned" /\ pc' \in {"sleep", "sending"}
      /\ pc' = "sending" => /\ row.frequency # "off"
                            /\ Due(row.frequency, now) # row.last
      /\ UNCHANGED <<now, row, request, delivered, overlaps, changes, broken>>
  BY DEF Read, historyVars
<1>2. Excuses' = Excuses BY <1>1 DEF Excuses
<1>3. \A k : Spent(k)' <=> Spent(k) BY <1>1, <1>2 DEF Spent
<1>4. Past(row.last)' /\ \A r \in Requests : Past(request[r].read.last)'
  BY <1>1 DEF RepeatsInv, Past
<1>5. \A k \in Keys : Spent(k) => Passed(k)' BY <1>1 DEF RepeatsInv, Passed
<1>6. ASSUME pc' = "sending" PROVE delivered'[Key'] <= Excuses'
  <2> DEFINE due == Due(row.frequency, now)
  <2>1. Key' = due /\ row.frequency \in Frequencies
    BY <1>1, <1>6 DEF Key, SchedulerInv, TypeOK, Settings
  <2>2. now \in 0..MaxDay /\ now \in Nat
    BY SchedulerAssumption, SMT DEF SchedulerInv, TypeOK
  <2>3. due \in Keys BY <2>1, <2>2, DueIsKey
  <2>4. due[1] = row.frequency /\ due = <<due[1], due[2]>> /\ due[2] \in Nat
    BY <2>2, DueGrows DEF Due
  <2>5. ~Spent(due)
    <3> SUFFICES ASSUME Spent(due) PROVE FALSE OBVIOUS
    <3>1. row.last # NoKey /\ row.last[1] = due[1] /\ due[2] <= row.last[2]
      BY <1>1, <2>3 DEF RepeatsInv, Passed
    <3>2. row.last[2] <= due[2] BY <2>4, <3>1 DEF RepeatsInv, Past
    <3>3. row.last \in Keys BY <3>1, LastsAreKeys
    <3>4. row.last = <<row.last[1], row.last[2]>> /\ row.last[2] \in Nat
      BY <3>3, KeyParts DEF Keys
    <3>5. row.last[2] = due[2] BY <2>4, <3>1, <3>2, <3>4, SMT
    <3> QED BY <1>1, <1>6, <2>4, <3>1, <3>4, <3>5
  <2>6. delivered[due] <= Excuses + 1 /\ delivered[due] \in Nat
    BY <2>3, ExcusesCount DEF RepeatsInv
  <2> HIDE DEF due
  <2> QED BY <1>1, <1>2, <2>1, <2>5, <2>6, ExcusesCount, SMT DEF Spent
<1>7. \A k \in Keys : delivered'[k] <= Excuses' + 1 BY <1>1, <1>2 DEF RepeatsInv
<1>8. copy'.frequency = row'.frequency /\ pc' # "accepted" BY <1>1
<1> QED BY <1>3, <1>4, <1>5, <1>6, <1>7, <1>8, Zenon DEF RepeatsInv

LEMMA RepeatsDeliver ==
    ASSUME SchedulerInv, RepeatsInv, Deliver
    PROVE  RepeatsInv'
<1>1. /\ pc = "sending" /\ pc' = "accepted"
      /\ delivered' = [delivered EXCEPT ![Key] = @ + 1]
      /\ UNCHANGED <<now, row, copy, request, overlaps, changes, broken>>
  BY DEF Deliver, historyVars
<1>2. Excuses' = Excuses /\ Key' = Key /\ Key \in Keys
  BY <1>1, KeyIsKey DEF Excuses, Key
<1>3. Key[1] = copy.frequency
  <2>1. now \in Nat BY ExcusesCount
  <2> QED BY <2>1, DueGrows DEF Key
<1>4. /\ delivered[Key] <= Excuses
      /\ copy.frequency # row.frequency =>
            delivered[Key] + 1 <= Excuses /\ \A k \in Keys : ~Spent(k)
      /\ \A k \in Keys : delivered[k] <= Excuses + 1 /\ (Spent(k) => Passed(k))
  BY <1>1 DEF RepeatsInv
<1>5. ASSUME NEW k \in Keys
      PROVE  delivered'[k] = IF k = Key THEN delivered[Key] + 1 ELSE delivered[k]
  <2>1. delivered \in [Keys -> Nat] BY DEF SchedulerInv, TypeOK
  <2> HIDE DEF Key
  <2> QED BY <1>1, <1>2, <2>1
<1> HIDE DEF Key
<1>6. \A k \in Keys : delivered'[k] <= Excuses' + 1
  BY <1>2, <1>4, <1>5, ExcusesCount, SMT
<1>7. ASSUME NEW k \in Keys, Spent(k)'
      PROVE  copy.frequency = row.frequency /\ (k = Key \/ Spent(k))
  BY <1>2, <1>4, <1>5, <1>7, ExcusesCount, SMT DEF Spent
<1>8. ASSUME NEW k \in Keys, Spent(k)' PROVE Passed(k)'
  <2>1. CASE k = Key BY <1>1, <1>2, <1>3, <1>7, <1>8, <2>1 DEF Passed
  <2>2. CASE Spent(k) BY <1>1, <1>4, <2>2 DEF Passed
  <2> QED BY <1>7, <1>8, <2>1, <2>2
<1>9. Past(row.last)' /\ \A r \in Requests : Past(request[r].read.last)'
  BY <1>1 DEF RepeatsInv, Past
<1>10. copy' = copy /\ row' = row BY <1>1
<1> QED BY <1>1, <1>6, <1>7, <1>8, <1>9, <1>10, Zenon DEF RepeatsInv

LEMMA RepeatsSent ==
    ASSUME SchedulerInv, RepeatsInv, SaveSent
    PROVE  RepeatsInv'
<1>1. /\ pc = "accepted" /\ pc' = "sleep"
      /\ row'.last = Key /\ row'.frequency = row.frequency
      /\ UNCHANGED <<now, copy, request, delivered, overlaps, changes, broken>>
  BY DEF SaveSent, historyVars, SchedulerInv, TypeOK, Settings
<1>2. Excuses' = Excuses BY <1>1 DEF Excuses
<1>3. \A k : Spent(k)' <=> Spent(k) BY <1>1, <1>2 DEF Spent
<1>4. Key \in Keys /\ Key # NoKey BY <1>1, KeyIsKey, NoKeyIsNoKey
<1>5. /\ Key[1] = copy.frequency /\ Key[2] \in Nat
      /\ Key[2] = Due(Key[1], now)[2]
  <2>1. now \in Nat BY ExcusesCount
  <2>2. Key[1] = copy.frequency /\ Key[2] \in Nat BY <2>1, DueGrows DEF Key
  <2> QED BY <2>2 DEF Key
<1>6. Past(row.last)' /\ \A r \in Requests : Past(request[r].read.last)'
  <2>1. now' = now /\ request' = request /\ row'.last = Key BY <1>1
  <2>2. Key[2] <= Due(Key[1], now)[2] BY <1>5, SMT
  <2> HIDE DEF Key
  <2> QED BY <2>1, <2>2 DEF RepeatsInv, Past
<1>7. ASSUME NEW k \in Keys, Spent(k) PROVE Passed(k)'
  <2>1. copy.frequency = row.frequency /\ Passed(k) BY <1>1, <1>7 DEF RepeatsInv
  <2>2. k[1] = row.frequency /\ k[2] \in Nat BY <1>7, <2>1, KeyParts DEF Passed
  <2>3. k[2] <= Key[2]
    <3>1. CASE k = Key BY <1>5, <3>1, SMT
    <3>2. CASE row.last # NoKey /\ row.last[1] = k[1] /\ k[2] <= row.last[2]
      <4>1. row.last[2] <= Key[2] BY <1>5, <2>1, <2>2, <3>2 DEF RepeatsInv, Past
      <4>2. row.last[2] \in Nat BY <3>2, LastsAreKeys, KeyParts
      <4> HIDE DEF Key
      <4> QED BY <1>5, <2>2, <3>2, <4>1, <4>2, SMT
    <3> QED BY <2>1, <3>1, <3>2 DEF Passed
  <2> HIDE DEF Key
  <2> QED BY <1>1, <1>4, <1>5, <2>1, <2>2, <2>3 DEF Passed
<1>8. \A k \in Keys : delivered'[k] <= Excuses' + 1 BY <1>1, <1>2 DEF RepeatsInv
<1> QED BY <1>1, <1>3, <1>6, <1>7, <1>8, Zenon DEF RepeatsInv

\* A save of the form keeps the schedule and the last period, or is an excuse.
LEMMA RepeatsRequest ==
    ASSUME SchedulerInv, RepeatsInv, NEW r \in Requests,
           \/ Open(r) \/ Leave(r)
           \/ \E f \in Frequencies \cup {"off"}, c \in Contacts : Save(r, f, c)
    PROVE  RepeatsInv'
<1>1. UNCHANGED <<pc, now, copy, delivered, broken>>
  BY DEF Open, Leave, Save, passVars, historyVars
<1>2. ASSUME NEW q \in Requests
      PROVE  request'[q].read.last \in {request[q].read.last, row.last}
  <2>1. \/ request' = [request EXCEPT ![r] = [open |-> TRUE, read |-> row]]
        \/ request' = [request EXCEPT ![r] = [request[r] EXCEPT !.open = FALSE]]
    BY DEF Open, Leave, Save, SchedulerInv, TypeOK
  <2>2. request'[q].read \in {request[q].read, row}
    <3>1. CASE request' = [request EXCEPT ![r] = [open |-> TRUE, read |-> row]]
      BY <3>1 DEF SchedulerInv, TypeOK
    <3>2. CASE request' = [request EXCEPT ![r] = [request[r] EXCEPT !.open = FALSE]]
      BY <3>2 DEF SchedulerInv, TypeOK
    <3> QED BY <2>1, <3>1, <3>2
  <2> QED BY <2>2
<1>3. row'.last \in {row.last, request[r].read.last}
  BY DEF Open, Leave, Save, SchedulerInv, TypeOK, Settings
<1>4. Past(row.last)' /\ \A q \in Requests : Past(request[q].read.last)'
  BY <1>1, <1>2, <1>3 DEF RepeatsInv, Past
<1>5. /\ overlaps' \in {overlaps, overlaps + 1} /\ changes' \in {changes, changes + 1}
      /\ \/ overlaps' = overlaps /\ changes' = changes
            /\ row'.last = row.last /\ row'.frequency = row.frequency
         \/ overlaps' = overlaps + 1 \/ changes' = changes + 1
  BY DEF Open, Leave, Save, historyVars, SchedulerInv, TypeOK, Settings
<1>6. CASE /\ overlaps' = overlaps /\ changes' = changes
           /\ row'.last = row.last /\ row'.frequency = row.frequency
  <2>1. Excuses' = Excuses BY <1>1, <1>6 DEF Excuses
  <2> QED BY <1>1, <1>4, <1>6, <2>1, SameExcuses
<1>7. CASE overlaps' = overlaps + 1 \/ changes' = changes + 1
  <2>1. Excuses' \in Nat /\ Excuses' > Excuses
    BY <1>1, <1>5, <1>7, SMT DEF Excuses, SchedulerInv, TypeOK
  <2>2. Key' = Key BY <1>1 DEF Key
  <2> QED BY <1>1, <1>4, <2>1, <2>2, MoreExcuses
<1> QED BY <1>5, <1>6, <1>7

LEMMA RepeatsInit ==
    ASSUME Init
    PROVE  RepeatsInv
<1>1. row.last = NoKey /\ pc = "sleep" /\ \A r \in Requests : request[r].read = row
  <2>1. PICK c \in Contacts :
          row = [frequency |-> "off", contact |-> c, last |-> NoKey, error |-> FALSE]
    BY DEF Init
  <2>2. pc = "sleep" /\ request = [r \in Requests |-> [open |-> FALSE, read |-> row]]
    BY DEF Init
  <2> QED BY <2>1, <2>2
<1>2. Excuses = 0 BY SMT DEF Init, Excuses
<1>3. \A k \in Keys : delivered[k] = 0 BY DEF Init
<1>4. \A k \in Keys : delivered[k] <= Excuses + 1 /\ ~Spent(k)
  BY <1>2, <1>3, SMT DEF Spent
<1> QED BY <1>1, <1>4 DEF RepeatsInv, Past

LEMMA RepeatsNext ==
    ASSUME SchedulerInv, RepeatsInv, [Next]_vars
    PROVE  RepeatsInv'
BY RepeatsIdle, RepeatsRead, RepeatsDeliver, RepeatsSent, RepeatsRequest DEF Next, Pass

\* Each repetition of a report has a cause of its own: an accepted report whose
\* pass ended badly, a save of the form across the end of a pass, or a change of
\* the schedule.
THEOREM RepeatsAreExplained == Spec => []RepeatsExplained
<1>1. ASSUME SchedulerInv, RepeatsInv PROVE RepeatsExplained
  <2>1. overlaps \in Nat /\ changes \in Nat /\ broken \in Nat
    BY <1>1 DEF SchedulerInv, TypeOK
  <2>2. \A k \in Keys : delivered[k] <= Excuses + 1 BY <1>1 DEF RepeatsInv
  <2>3. \A k \in Keys : delivered[k] \in Nat BY <1>1, ExcusesCount
  <2> QED BY <2>1, <2>2, <2>3, SMT DEF Excuses, RepeatsExplained
<1> QED BY <1>1, RepeatsInit, RepeatsNext, SchedulerInvariance, PTL DEF Spec

-----------------------------------------------------------------------------
\* Which periods are reported.

\* A weekly period ends a whole number of weeks after the first.
WeekEnd(d) == \E n \in 0..d : d = Week * n

LEMMA WeekStartIsWeekEnd ==
    ASSUME NEW t \in Nat
    PROVE  WeekEnd(t - (t % Week))
<1>1. Week \in Nat /\ Week > 0 BY SchedulerAssumption, SMT
<1>2. t = Week * (t \div Week) + (t % Week) /\ t % Week \in 0..Week - 1 BY <1>1, SMT
<1> DEFINE n == t \div Week
<1>3. n \in Nat BY <1>1, SMT
<1>4. PICK w \in Nat : Week = 1 + w
  <2>1. Week - 1 \in Nat /\ Week = 1 + (Week - 1) BY <1>1, SMT
  <2> QED BY <2>1
<1>5. Week * n = n + w * n /\ w * n \in Nat /\ Week * n \in Nat BY <1>3, <1>4, SMT
<1>6. t - (t % Week) = Week * n BY <1>2, <1>5, SMT
<1>7. n \in 0..(t - (t % Week)) BY <1>3, <1>5, <1>6, SMT
<1> QED BY <1>6, <1>7 DEF WeekEnd

\* A report is sent only for a period that is over, and a weekly one only for
\* whole weeks, whatever the settings were when earlier reports were sent:
\* `scheduled_period' never names a running period, and the pass reports the
\* period of the clock it has read before the settings.
OnlyCompletePeriods ==
    \A k \in Keys : delivered[k] > 0 =>
        k[2] <= day /\ (k[1] = "weekly" => WeekEnd(k[2]))

LEMMA DueIsComplete ==
    ASSUME NEW f \in Frequencies, NEW t \in Nat
    PROVE  /\ Due(f, t)[2] \in Nat /\ Due(f, t)[2] <= t
           /\ Due(f, t)[1] = "weekly" => WeekEnd(Due(f, t)[2])
<1>1. t - (t % Week) \in 0..t BY WeekStart
<1>2. CASE f = "weekly"
  <2>1. Due(f, t)[2] = t - (t % Week) BY <1>2 DEF Due
  <2> QED BY <1>1, <2>1, WeekStartIsWeekEnd, SMT
<1>3. CASE f # "weekly"
  <2>1. Due(f, t)[1] = f /\ Due(f, t)[2] = t BY <1>3 DEF Due
  <2> QED BY <1>3, <2>1, SMT
<1> QED BY <1>2, <1>3

LEMMA CompleteStep ==
    ASSUME SchedulerInv, OnlyCompletePeriods, [Next]_vars
    PROVE  OnlyCompletePeriods'
<1>1. CASE Deliver
  <2>1. /\ pc = "sending" /\ day' = day
        /\ delivered' = [delivered EXCEPT ![Key] = @ + 1]
    BY <1>1 DEF Deliver
  <2>2. copy.frequency \in Frequencies
    BY <2>1 DEF SchedulerInv, Claims, TypeOK, Settings
  <2>3. Key[2] \in Nat /\ Key[2] <= now /\ (Key[1] = "weekly" => WeekEnd(Key[2]))
    BY <2>2, ExcusesCount, DueIsComplete DEF Key
  <2>4. Key[2] <= day BY <2>3, ExcusesCount, SMT
  <2>5. ASSUME NEW k \in Keys, delivered'[k] > 0
        PROVE  k[2] <= day /\ (k[1] = "weekly" => WeekEnd(k[2]))
    <3>1. CASE k = Key BY <2>3, <2>4, <3>1
    <3>2. CASE k # Key
      <4>1. delivered'[k] = delivered[k]
        BY <2>1, <3>2 DEF SchedulerInv, TypeOK
      <4> QED BY <2>5, <4>1 DEF OnlyCompletePeriods
    <3> QED BY <3>1, <3>2
  <2> QED BY <2>1, <2>5 DEF OnlyCompletePeriods, WeekEnd
<1>2. CASE Tomorrow
  <2>1. day' = day + 1 /\ delivered' = delivered BY <1>2 DEF Tomorrow
  <2>2. ASSUME NEW k \in Keys, delivered'[k] > 0
        PROVE  k[2] <= day' /\ (k[1] = "weekly" => WeekEnd(k[2]))
    <3>1. k[2] <= day /\ (k[1] = "weekly" => WeekEnd(k[2]))
      BY <2>1, <2>2 DEF OnlyCompletePeriods
    <3>2. k[2] \in Nat /\ day \in Nat BY KeyParts, ExcusesCount
    <3> QED BY <2>1, <3>1, <3>2, SMT
  <2> QED BY <2>2 DEF OnlyCompletePeriods, WeekEnd
<1>3. CASE day' = day /\ delivered' = delivered
  BY <1>3 DEF OnlyCompletePeriods, WeekEnd
<1> QED
  BY <1>1, <1>2, <1>3
     DEF Next, Pass, Begin, Read, SaveSent, SaveError, SendFails, Interrupt, Restart,
     Open, Leave, Save, vars

\* No report covers a period that is still running.
THEOREM ReportsCoverCompletePeriods == Spec => []OnlyCompletePeriods
<1>1. Init => OnlyCompletePeriods
  <2> SUFFICES ASSUME Init PROVE OnlyCompletePeriods OBVIOUS
  <2>1. \A k \in Keys : delivered[k] = 0 BY DEF Init
  <2> QED BY <2>1, SMT DEF OnlyCompletePeriods
<1> QED BY <1>1, CompleteStep, SchedulerInvariance, PTL DEF Spec

\* The record of what was sent is not lost and does not go back within a
\* schedule, unless a save of the form undoes a write of the pass: an older
\* period is never recorded over a newer one, so it never becomes due again.
RecordMovesForward ==
    [][overlaps' = overlaps /\ row.last # NoKey =>
         /\ row'.last # NoKey
         /\ row'.last[1] = row.last[1] => row.last[2] <= row'.last[2]]_vars

\* Without a save across the end of a pass, the record only moves forward.
THEOREM RecordsMoveForward == Spec => RecordMovesForward
<1>1. SchedulerInv /\ RepeatsInv /\ [Next]_vars =>
        [overlaps' = overlaps /\ row.last # NoKey =>
           /\ row'.last # NoKey
           /\ row'.last[1] = row.last[1] => row.last[2] <= row'.last[2]]_vars
  <2> SUFFICES ASSUME SchedulerInv, RepeatsInv, Next, overlaps' = overlaps,
                      row.last # NoKey
               PROVE  /\ row'.last # NoKey
                      /\ row'.last[1] = row.last[1] => row.last[2] <= row'.last[2]
    OBVIOUS
  <2>1. row.last \in Keys BY LastsAreKeys
  <2>2. row.last[2] \in Nat BY <2>1, KeyParts
  <2>3. CASE SaveSent
    <3>1. row'.last = Key /\ pc = "accepted" BY <2>3 DEF SaveSent, SchedulerInv, TypeOK, Settings
    <3>2. Key \in Keys BY <3>1, KeyIsKey DEF SchedulerInv
    <3>3. Key = Due(copy.frequency, now) /\ Key[1] = copy.frequency
      BY ExcusesCount, DueGrows DEF Key, Due
    <3>4. row.last[2] <= Due(row.last[1], now)[2] BY DEF RepeatsInv, Past
    <3> QED BY <3>1, <3>2, <3>3, <3>4, NoKeyIsNoKey
  <2>4. ASSUME NEW r \in Requests, NEW f, NEW c, Save(r, f, c)
        PROVE  row'.last = row.last
    <3>1. overlaps \in Nat BY DEF SchedulerInv, TypeOK
    <3>2. overlaps + 1 # overlaps BY <3>1, SMT
    <3>3. request[r].read.last = row.last BY <2>4, <3>2 DEF Save
    <3>4. request[r].read \in Settings BY DEF SchedulerInv, TypeOK
    <3> QED BY <2>4, <3>3, <3>4 DEF Save, Settings
  <2>5. CASE row'.last = row.last BY <2>2, <2>5, SMT
  <2>6. CASE SaveError
    <3>1. row'.last = row.last BY <2>6 DEF SaveError, SchedulerInv, TypeOK, Settings
    <3> QED BY <2>2, <3>1, SMT
  <2>7. CASE row' = row BY <2>2, <2>7, SMT
  <2> QED
    BY <2>3, <2>4, <2>5, <2>6, <2>7
       DEF Next, Pass, Begin, Read, Deliver, SendFails, Interrupt, Restart, Open, Leave,
       Tomorrow
<1>2. Spec => []RepeatsInv
  BY RepeatsInit, RepeatsNext, SchedulerInvariance, PTL DEF Spec
<1> QED BY <1>1, <1>2, SchedulerInvariance, PTL DEF Spec, RecordMovesForward
=============================================================================
