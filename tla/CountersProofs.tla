--------------------------- MODULE CountersProofs ---------------------------
(***************************************************************************)
(* What holds of Counters for any destinations, connections and bounds.    *)
(*                                                                         *)
(* The inductive invariant CountersInv adds to the type invariant that     *)
(* bytes are conserved, which keeps differences of counts natural, and     *)
(* what a running flush has swapped out and will vouch for.                *)
(***************************************************************************)
EXTENDS Counters, FiniteSetTheorems, TLAPS

-----------------------------------------------------------------------------
\* Lemmas about dicts of counts.

LEMMA EmptyIsCounts == IsCounts(Empty) /\ \A k : At(Empty, k) = 0
BY DEF IsCounts, Empty, At

LEMMA AtIsNat ==
    ASSUME NEW f, IsCounts(f), NEW k
    PROVE  At(f, k) \in Nat
BY SMT DEF IsCounts, At

LEMMA MergeIsCounts ==
    ASSUME NEW f, NEW g, IsCounts(f), IsCounts(g)
    PROVE  IsCounts(Merge(f, g))
<1> DEFINE D == DOMAIN f \cup DOMAIN g
           m == [k \in D |-> At(f, k) + At(g, k)]
<1>1. D \subseteq Keys BY DEF IsCounts
<1>2. \A k \in D : At(f, k) + At(g, k) \in Nat BY AtIsNat, SMT
<1>3. DOMAIN m = D /\ m = [k \in DOMAIN m |-> m[k]] OBVIOUS
<1>4. \A k \in DOMAIN m : m[k] \in Nat BY <1>2
<1>5. Merge(f, g) = m BY DEF Merge
<1> HIDE DEF m
<1> QED BY <1>1, <1>3, <1>4, <1>5 DEF IsCounts

\* Merging two dicts adds their counts, key by key.
LEMMA AtMerge ==
    ASSUME NEW f, NEW g, IsCounts(f), IsCounts(g), NEW k
    PROVE  At(Merge(f, g), k) = At(f, k) + At(g, k)
<1>1. CASE k \in DOMAIN f \cup DOMAIN g BY <1>1, Zenon DEF At, Merge
<1>2. CASE k \notin DOMAIN f \cup DOMAIN g
  <2>1. At(f, k) = 0 /\ At(g, k) = 0 /\ At(Merge(f, g), k) = 0
    BY <1>2, Zenon DEF At, Merge
  <2> QED BY <2>1, SMT
<1> QED BY <1>1, <1>2

LEMMA SingleIsCounts ==
    ASSUME NEW k \in Keys
    PROVE  /\ IsCounts([j \in {k} |-> 1])
           /\ \A i : At([j \in {k} |-> 1], i) = IF i = k THEN 1 ELSE 0
BY SMT DEF IsCounts, At

LEMMA KeyOfIsKey ==
    ASSUME NEW r, r.minute \in Minutes, r.label \in Labels
    PROVE  KeyOf(r) \in Keys
BY DEF KeyOf, Keys, Labels

-----------------------------------------------------------------------------
\* The inductive invariant.

\* What a flush has swapped out: nothing between two flushes or after the
\* process, and enough to make good the heartbeat it is about to save.
FlushStages ==
    /\ flusher \in {"sleep", "done"} => batch = Empty
    /\ ~Alive => batch = Empty /\ pending = Empty
    /\ flusher \in {"writing", "last"} /\ Alive =>
          \A k \in Keys : snapshot[k] <= At(db, k) + At(batch, k)

CountersInv == TypeOK /\ Conservation /\ FlushStages /\ HeartbeatHonest

\* The actions that touch neither counts nor the flush.
QuietHandler ==
    \E h \in Handlers :
        \/ Accept(h)
        \/ \E d \in Labels : Begin(h, d)
        \/ Forward(h) \/ Stamp(h) \/ End(h) \/ Abandon(h)

Quiet == QuietHandler \/ Sigterm \/ SetStopEvent \/ Minute \/ UNCHANGED vars

LEMMA NextCases ==
    ASSUME [Next]_vars
    PROVE  \/ Quiet
           \/ \E h \in Handlers : Add(h)
           \/ Swap \/ Commit \/ Restore \/ Exit \/ Kill \/ Start
BY DEF Next, Counting, Saving, Quiet, QuietHandler

counts == <<pending, batch, db, heartbeat, snapshot, counted, lost>>

LEMMA QuietFrame ==
    ASSUME TypeOK, Quiet
    PROVE  UNCHANGED <<counts, flusher, failed>> /\ (Alive' <=> Alive)
<1>1. CASE QuietHandler
  <2>1. UNCHANGED <<counts, flusher, failed, main>>
    BY <1>1 DEF QuietHandler, Accept, Begin, Forward, Stamp, End, Abandon, Goto, counts,
       memoryVars, diskVars, historyVars
  <2> QED BY <2>1 DEF Alive
<1>2. CASE Sigterm \/ SetStopEvent
  BY <1>2 DEF Sigterm, SetStopEvent, Alive, counts, memoryVars, diskVars, historyVars
<1>3. CASE Minute \/ UNCHANGED vars
  BY <1>3 DEF Minute, vars, Alive, counts, memoryVars, diskVars, historyVars
<1> QED BY <1>1, <1>2, <1>3 DEF Quiet

-----------------------------------------------------------------------------
\* Types.

HandlerStates == [pc : {"idle", "accepted", "relaying", "forwarded", "stamped"},
                  label : Labels, minute : Minutes]

LEMMA IdleIsState == Idle \in HandlerStates
BY CountersAssumption, SMT DEF Idle, HandlerStates, Labels, Minutes

LEMMA GotoType ==
    ASSUME TypeOK, NEW h \in Handlers,
           NEW s \in {"idle", "accepted", "relaying", "forwarded", "stamped"},
           Goto(h, s)
    PROVE  handler' \in [Handlers -> HandlerStates]
<1>1. handler \in [Handlers -> HandlerStates] BY DEF TypeOK, HandlerStates
<1>2. [handler[h] EXCEPT !.pc = s] \in HandlerStates BY <1>1 DEF HandlerStates
<1>3. handler' = [handler EXCEPT ![h] = [handler[h] EXCEPT !.pc = s]]
  BY DEF Goto
<1> QED BY <1>1, <1>2, <1>3, Zenon

LEMMA QuietType ==
    ASSUME TypeOK, Quiet
    PROVE  TypeOK'
<1> USE CountersAssumption
<1>1. handler' \in [Handlers -> HandlerStates]
  <2>1. handler \in [Handlers -> HandlerStates] BY DEF TypeOK, HandlerStates
  <2>2. ASSUME NEW h \in Handlers, Accept(h) \/ Forward(h)
        PROVE  handler' \in [Handlers -> HandlerStates]
    BY <2>2, GotoType DEF Accept, Forward
  <2>3. ASSUME NEW h \in Handlers, NEW d \in Labels, Begin(h, d)
        PROVE  handler' \in [Handlers -> HandlerStates]
    <3>1. [pc |-> "relaying", label |-> d, minute |-> 0] \in HandlerStates
      BY SMT DEF HandlerStates, Minutes
    <3> QED BY <2>1, <2>3, <3>1, Zenon DEF Begin
  <2>4. ASSUME NEW h \in Handlers, Stamp(h)
        PROVE  handler' \in [Handlers -> HandlerStates]
    <3>1. [handler[h] EXCEPT !.pc = "stamped", !.minute = now] \in HandlerStates
      BY <2>1 DEF HandlerStates, TypeOK
    <3>2. handler' = [handler EXCEPT ![h] =
                        [handler[h] EXCEPT !.pc = "stamped", !.minute = now]]
      BY <2>1, <2>4 DEF Stamp
    <3> QED BY <2>1, <3>1, <3>2, Zenon
  <2>5. ASSUME NEW h \in Handlers, End(h)
        PROVE  handler' \in [Handlers -> HandlerStates]
    BY <2>1, <2>5, IdleIsState, Zenon DEF End
  <2>6. CASE \/ \E h \in Handlers : Abandon(h)
             \/ Sigterm \/ SetStopEvent \/ Minute \/ UNCHANGED vars
    BY <2>1, <2>6 DEF Abandon, Sigterm, SetStopEvent, Minute, vars
  <2> QED BY <2>2, <2>3, <2>4, <2>5, <2>6 DEF Quiet, QuietHandler
<1>2. async' \in BOOLEAN /\ stopEvent' \in BOOLEAN
  BY Zenon DEF Quiet, QuietHandler, Accept, Begin, Forward, Stamp, End, Abandon, Sigterm,
     SetStopEvent, Minute, vars, TypeOK
<1>3. faults' = faults
  BY Zenon DEF Quiet, QuietHandler, Accept, Begin, Forward, Stamp, End, Abandon, Sigterm,
     SetStopEvent, Minute, vars
<1>4. now' \in Minutes
  <2>1. CASE Minute BY <2>1, SMT DEF Minute, TypeOK, Minutes
  <2>2. CASE ~Minute
    <3>1. now' = now
      BY <2>2, Zenon DEF Quiet, QuietHandler, Accept, Begin, Forward, Stamp, End,
         Abandon, Sigterm, SetStopEvent, vars
    <3> QED BY <3>1 DEF TypeOK
  <2> QED BY <2>1, <2>2
<1>5. forwarded' \in 0..MaxBytes
  <2>1. CASE \E h \in Handlers : Forward(h)
    <3>1. forwarded < MaxBytes /\ forwarded' = forwarded + 1
      BY <2>1, Zenon DEF Forward
    <3> QED BY <3>1, SMT DEF TypeOK
  <2>2. CASE ~\E h \in Handlers : Forward(h)
    <3>1. forwarded' = forwarded
      BY <2>2, Zenon DEF Quiet, QuietHandler, Accept, Begin, Stamp, End,
         Abandon, Sigterm, SetStopEvent, Minute, vars
    <3> QED BY <3>1 DEF TypeOK
  <2> QED BY <2>1, <2>2
<1>6. main' \in {"serving", "closing", "joining", "exited", "killed"}
  <2>1. main' \in {main, "closing", "joining"}
    BY Zenon DEF Quiet, QuietHandler, Accept, Begin, Forward, Stamp, End, Abandon, Sigterm,
       SetStopEvent, Minute, vars
  <2> QED BY <2>1 DEF TypeOK
<1>7. stray' \subseteq Handlers
  <2>1. stray' = stray \/ \E h \in Handlers : stray' = stray \cup {h}
    BY Zenon DEF Quiet, QuietHandler, Accept, Begin, Forward, Stamp, End, Abandon, Sigterm,
       SetStopEvent, Minute, vars
  <2> QED BY <2>1 DEF TypeOK
<1> QED BY <1>1, <1>2, <1>3, <1>4, <1>5, <1>6, <1>7, QuietFrame
       DEF TypeOK, HandlerStates, counts, IsCounts

-----------------------------------------------------------------------------
\* The invariant is inductive: one lemma per action that touches the counts.

LEMMA QuietStep ==
    ASSUME CountersInv, Quiet
    PROVE  CountersInv'
<1>1. TypeOK' BY QuietType DEF CountersInv
<1>2. UNCHANGED <<counts, flusher>> /\ (Alive' <=> Alive)
  BY QuietFrame DEF CountersInv
<1>3. Conservation' /\ HeartbeatHonest'
  BY <1>2 DEF CountersInv, Conservation, HeartbeatHonest, counts, At
<1>4. FlushStages'
  BY <1>2, Zenon DEF CountersInv, FlushStages, counts, At
<1> QED BY <1>1, <1>3, <1>4 DEF CountersInv

LEMMA AddStep ==
    ASSUME CountersInv, NEW h \in Handlers, Add(h)
    PROVE  CountersInv'
<1> USE DEF CountersInv
<1> DEFINE key == KeyOf(handler[h])
           one == [j \in {key} |-> 1]
<1>1. key \in Keys
  <2>1. handler[h].minute \in Minutes /\ handler[h].label \in Labels
    BY DEF TypeOK
  <2> QED BY <2>1, KeyOfIsKey
<1>2. /\ pending' = Merge(pending, one)
      /\ counted' = [counted EXCEPT ![key] = @ + 1]
      /\ Goto(h, "relaying") /\ Alive
      /\ UNCHANGED <<async, now, batch, flusher, stopEvent, main, db, heartbeat,
                      snapshot, lost, failed, stray, forwarded, faults>>
  BY Zenon DEF Add, diskVars
<1>3. IsCounts(one) /\ \A i : At(one, i) = IF i = key THEN 1 ELSE 0
  BY <1>1, SingleIsCounts
<1> HIDE DEF one, key
<1>4. IsCounts(pending) BY DEF TypeOK
<1>5. IsCounts(pending)' BY <1>2, <1>3, <1>4, MergeIsCounts DEF IsCounts
<1>6. \A k : At(pending, k)' = At(pending, k) + (IF k = key THEN 1 ELSE 0)
  BY <1>2, <1>3, <1>4, AtMerge DEF At
<1>7. TypeOK'
  <2>1. handler' \in [Handlers -> HandlerStates] BY <1>2, GotoType
  <2>2. counted' \in [Keys -> Nat] BY <1>1, <1>2, SMT DEF TypeOK
  <2>3. IsCounts(batch)' /\ IsCounts(db)' BY <1>2 DEF TypeOK, IsCounts
  <2> QED BY <1>2, <1>5, <2>1, <2>2, <2>3 DEF TypeOK, HandlerStates
<1>8. Conservation'
  <2> SUFFICES ASSUME NEW k \in Keys
               PROVE  counted'[k] = At(db, k)' + At(batch, k)'
                                    + At(pending, k)' + lost'[k]
    BY DEF Conservation
  <2>1. counted[k] = At(db, k) + At(batch, k) + At(pending, k) + lost[k]
    BY DEF Conservation
  <2>2. counted'[k] = counted[k] + (IF k = key THEN 1 ELSE 0)
    BY <1>1, <1>2, SMT DEF TypeOK
  <2>3. At(db, k) \in Nat /\ At(batch, k) \in Nat /\ At(pending, k) \in Nat
        /\ lost[k] \in Nat
    BY AtIsNat DEF TypeOK
  <2>4. At(db, k)' = At(db, k) /\ At(batch, k)' = At(batch, k) /\ lost' = lost
    BY <1>2 DEF At
  <2>5. At(pending, k)' = At(pending, k) + (IF k = key THEN 1 ELSE 0) BY <1>6
  <2> QED BY <2>1, <2>2, <2>3, <2>4, <2>5, SMT
<1>9. FlushStages' BY <1>2, Zenon DEF FlushStages, Alive, At
<1>10. HeartbeatHonest' BY <1>2 DEF HeartbeatHonest, At
<1> QED BY <1>7, <1>8, <1>9, <1>10

LEMMA SwapStep ==
    ASSUME CountersInv, Swap
    PROVE  CountersInv'
<1> USE DEF CountersInv
<1>1. /\ batch' = pending /\ pending' = Empty /\ batch = Empty /\ Alive
      /\ flusher' \in {"writing", "last"}
      /\ snapshot' = [k \in Keys |-> counted[k] - lost[k]]
      /\ UNCHANGED <<async, now, handler, stopEvent, main, db, heartbeat, counted,
                      lost, failed, stray, forwarded, faults>>
  BY DEF Swap, FlushStages, diskVars
<1>2. ASSUME NEW k \in Keys
      PROVE  /\ {At(db, k), At(pending, k), lost[k]} \subseteq Nat
             /\ At(batch, k) = 0 /\ At(pending, k)' = 0
             /\ At(batch, k)' = At(pending, k) /\ At(db, k)' = At(db, k)
             /\ snapshot'[k] = counted[k] - lost[k]
             /\ counted[k] = At(db, k) + At(batch, k) + At(pending, k) + lost[k]
  <2>1. {At(db, k), At(pending, k), lost[k]} \subseteq Nat BY AtIsNat DEF TypeOK
  <2>2. At(batch, k) = 0 /\ At(pending, k)' = 0 BY <1>1, EmptyIsCounts DEF At
  <2>3. At(batch, k)' = At(pending, k) /\ At(db, k)' = At(db, k) BY <1>1 DEF At
  <2> QED BY <1>1, <2>1, <2>2, <2>3 DEF Conservation
<1>3. TypeOK'
  <2>1. \A k \in Keys : counted[k] - lost[k] \in Nat BY <1>2, SMT
  <2>2. snapshot' \in [Keys -> Nat] BY <1>1, <2>1
  <2>3. IsCounts(batch)' /\ IsCounts(pending)' /\ IsCounts(db)'
    BY <1>1, EmptyIsCounts DEF TypeOK, IsCounts
  <2> QED BY <1>1, <2>2, <2>3 DEF TypeOK
<1>4. Conservation' BY <1>1, <1>2, SMT DEF Conservation
<1>5. FlushStages'
  <2>1. \A k \in Keys : snapshot'[k] <= At(db, k)' + At(batch, k)' BY <1>2, SMT
  <2>2. Alive' BY <1>1 DEF Alive
  <2> QED BY <1>1, <2>1, <2>2 DEF FlushStages
<1>6. HeartbeatHonest' BY <1>1 DEF HeartbeatHonest, At
<1> QED BY <1>3, <1>4, <1>5, <1>6

LEMMA CommitStep ==
    ASSUME CountersInv, Commit
    PROVE  CountersInv'
<1> USE DEF CountersInv
<1>1. /\ db' = Merge(db, batch) /\ batch' = Empty /\ heartbeat' = snapshot
      /\ flusher \in {"writing", "last"} /\ flusher' \in {"sleep", "done"}
      /\ Alive /\ failed' = 0
      /\ UNCHANGED <<async, now, handler, pending, stopEvent, main, snapshot,
                      counted, lost, stray, forwarded, faults>>
  BY DEF Commit, Flushed
<1>2. ASSUME NEW k \in Keys
      PROVE  /\ {At(db, k), At(batch, k), At(pending, k), lost[k]} \subseteq Nat
             /\ At(db, k)' = At(db, k) + At(batch, k)
             /\ At(batch, k)' = 0 /\ At(pending, k)' = At(pending, k)
             /\ snapshot[k] <= At(db, k) + At(batch, k)
             /\ counted[k] = At(db, k) + At(batch, k) + At(pending, k) + lost[k]
  <2>1. {At(db, k), At(batch, k), At(pending, k), lost[k]} \subseteq Nat
    BY AtIsNat DEF TypeOK
  <2>2. At(db, k)' = At(db, k) + At(batch, k) BY <1>1, AtMerge DEF TypeOK, At
  <2>3. At(batch, k)' = 0 /\ At(pending, k)' = At(pending, k)
    BY <1>1, EmptyIsCounts DEF At
  <2> QED BY <1>1, <2>1, <2>2, <2>3 DEF Conservation, FlushStages
<1>3. TypeOK'
  <2>1. IsCounts(batch)' /\ IsCounts(pending)' BY <1>1, EmptyIsCounts DEF TypeOK, IsCounts
  <2>2. IsCounts(db)' BY <1>1, MergeIsCounts DEF TypeOK, IsCounts
  <2> QED BY <1>1, <2>1, <2>2 DEF TypeOK
<1>4. Conservation' BY <1>1, <1>2, SMT DEF Conservation
<1>5. FlushStages' BY <1>1 DEF FlushStages, Alive
<1>6. HeartbeatHonest'
  <2>1. \A k \in Keys : snapshot[k] <= At(db, k)' BY <1>2, SMT
  <2> QED BY <1>1, <2>1 DEF HeartbeatHonest
<1> QED BY <1>3, <1>4, <1>5, <1>6

LEMMA RestoreStep ==
    ASSUME CountersInv, Restore
    PROVE  CountersInv'
<1> USE DEF CountersInv
<1>1. /\ pending' = Merge(pending, batch) /\ batch' = Empty
      /\ flusher' \in {"sleep", "done"} /\ Alive
      /\ failed' = failed + 1 /\ faults < MaxFaults /\ faults' = faults + 1
      /\ UNCHANGED <<async, now, handler, stopEvent, main, db, heartbeat, snapshot,
                      counted, lost, stray, forwarded>>
  BY DEF Restore, Flushed, Fault, diskVars
<1>2. ASSUME NEW k \in Keys
      PROVE  /\ {At(db, k), At(batch, k), At(pending, k), lost[k]} \subseteq Nat
             /\ At(pending, k)' = At(pending, k) + At(batch, k)
             /\ At(batch, k)' = 0 /\ At(db, k)' = At(db, k)
             /\ counted[k] = At(db, k) + At(batch, k) + At(pending, k) + lost[k]
  <2>1. {At(db, k), At(batch, k), At(pending, k), lost[k]} \subseteq Nat
    BY AtIsNat DEF TypeOK
  <2>2. At(pending, k)' = At(pending, k) + At(batch, k)
    BY <1>1, AtMerge DEF TypeOK, At
  <2>3. At(batch, k)' = 0 /\ At(db, k)' = At(db, k)
    BY <1>1, EmptyIsCounts DEF At
  <2> QED BY <2>1, <2>2, <2>3 DEF Conservation
<1>3. TypeOK'
  <2>1. IsCounts(batch)' /\ IsCounts(db)' BY <1>1, EmptyIsCounts DEF TypeOK, IsCounts
  <2>2. IsCounts(pending)' BY <1>1, MergeIsCounts DEF TypeOK, IsCounts
  <2>3. failed' \in Nat /\ faults' \in 0..MaxFaults
    BY <1>1, CountersAssumption, SMT DEF TypeOK
  <2> QED BY <1>1, <2>1, <2>2, <2>3 DEF TypeOK
<1>4. Conservation' BY <1>1, <1>2, SMT DEF Conservation
<1>5. FlushStages' BY <1>1 DEF FlushStages, Alive
<1>6. HeartbeatHonest' BY <1>1 DEF HeartbeatHonest, At
<1> QED BY <1>3, <1>4, <1>5, <1>6

\* The end of a process, as far as the counts in memory go.
LEMMA ForgetFacts ==
    ASSUME TypeOK, Forget
    PROVE  /\ IsCounts(pending)' /\ IsCounts(batch)'
           /\ lost' \in [Keys -> Nat]
           /\ handler' \in [Handlers -> HandlerStates]
           /\ \A k \in Keys :
                 /\ lost'[k] = lost[k] + At(pending, k) + At(batch, k)
                 /\ At(pending, k)' = 0 /\ At(batch, k)' = 0
<1>1. pending' = Empty /\ batch' = Empty BY DEF Forget
<1>2. \A k \in Keys : {At(pending, k), At(batch, k), lost[k]} \subseteq Nat
  BY AtIsNat DEF TypeOK
<1>3. \A k \in Keys : At(Owed, k) = At(pending, k) + At(batch, k)
  BY AtMerge DEF TypeOK, Owed
<1>4. \A k \in Keys : lost'[k] = lost[k] + At(pending, k) + At(batch, k)
  <2> SUFFICES ASSUME NEW k \in Keys
               PROVE  lost'[k] = lost[k] + At(pending, k) + At(batch, k)
    OBVIOUS
  <2>1. lost'[k] = lost[k] + At(Owed, k) BY DEF Forget
  <2> QED BY <1>2, <1>3, <2>1, SMT
<1>5. lost' \in [Keys -> Nat]
  <2>1. \A k \in Keys : lost[k] + At(Owed, k) \in Nat BY <1>2, <1>3, SMT
  <2> QED BY <2>1 DEF Forget
<1>6. handler' \in [Handlers -> HandlerStates] BY IdleIsState DEF Forget
<1>7. \A k : At(pending, k)' = 0 /\ At(batch, k)' = 0
  BY <1>1, EmptyIsCounts DEF At
<1>8. IsCounts(pending)' /\ IsCounts(batch)' BY <1>1, EmptyIsCounts DEF IsCounts
<1> QED BY <1>4, <1>5, <1>6, <1>7, <1>8

\* A process that ends without another transaction keeps the invariant.
LEMMA LossStep ==
    ASSUME CountersInv, Forget, main' \in {"exited", "killed"},
           faults' \in 0..MaxFaults,
           UNCHANGED <<async, now, flusher, stopEvent, db, heartbeat, snapshot,
                       counted, failed, stray, forwarded>>
    PROVE  CountersInv'
<1> USE DEF CountersInv
<1>1. pending' = Empty /\ batch' = Empty /\ ~Alive' BY DEF Forget, Alive
<1>2. IsCounts(db)' /\ \A k \in Keys : At(db, k)' = At(db, k) /\ At(db, k) \in Nat
  BY AtIsNat DEF TypeOK, At, IsCounts
<1>3. TypeOK' BY <1>2, ForgetFacts DEF TypeOK, HandlerStates
<1>4. Conservation'
  <2>1. \A k \in Keys : {At(pending, k), At(batch, k), lost[k]} \subseteq Nat
    BY AtIsNat DEF TypeOK
  <2> QED BY <1>2, <2>1, ForgetFacts, SMT DEF Conservation
<1>5. FlushStages' BY <1>1 DEF FlushStages
<1>6. HeartbeatHonest' BY DEF HeartbeatHonest, At
<1> QED BY <1>3, <1>4, <1>5, <1>6

LEMMA ExitStep ==
    ASSUME CountersInv, Exit
    PROVE  CountersInv'
<1>1. faults' \in 0..MaxFaults
  BY CountersAssumption, SMT DEF Exit, Fault, CountersInv, TypeOK
<1>2. /\ Forget /\ main' = "exited"
      /\ UNCHANGED <<async, now, flusher, stopEvent, db, heartbeat, snapshot,
                      counted, failed, stray, forwarded>>
  BY DEF Exit, diskVars
<1> QED BY <1>1, <1>2, LossStep

LEMMA KillStep ==
    ASSUME CountersInv, Kill
    PROVE  CountersInv'
<1> USE DEF CountersInv
<1>1. /\ main' = "killed" /\ faults' \in 0..MaxFaults /\ Alive
      /\ UNCHANGED <<async, now, flusher, stopEvent, snapshot, counted, failed,
                      stray, forwarded>>
  BY CountersAssumption, SMT DEF Kill, Fault, TypeOK
<1>2. CASE Forget /\ UNCHANGED diskVars BY <1>1, <1>2, LossStep DEF diskVars
<1>3. CASE /\ flusher \in {"writing", "last"}
           /\ db' = Merge(db, batch) /\ heartbeat' = snapshot
           /\ lost' = [k \in Keys |-> lost[k] + At(pending, k)]
           /\ pending' = Empty /\ batch' = Empty
           /\ handler' = [h \in Handlers |-> Idle]
  <2>1. ASSUME NEW k \in Keys
        PROVE  /\ {At(db, k), At(batch, k), At(pending, k), lost[k]} \subseteq Nat
               /\ At(db, k)' = At(db, k) + At(batch, k)
               /\ At(batch, k)' = 0 /\ At(pending, k)' = 0
               /\ lost'[k] = lost[k] + At(pending, k)
               /\ snapshot[k] <= At(db, k) + At(batch, k)
               /\ counted[k] = At(db, k) + At(batch, k) + At(pending, k) + lost[k]
    <3>1. {At(db, k), At(batch, k), At(pending, k), lost[k]} \subseteq Nat
      BY AtIsNat DEF TypeOK
    <3>2. At(db, k)' = At(db, k) + At(batch, k) BY <1>3, AtMerge DEF TypeOK, At
    <3>3. At(batch, k)' = 0 /\ At(pending, k)' = 0 BY <1>3, EmptyIsCounts DEF At
    <3>4. lost'[k] = lost[k] + At(pending, k) BY <1>3
    <3> QED BY <1>1, <1>3, <3>1, <3>2, <3>3, <3>4 DEF Conservation, FlushStages
  <2>2. TypeOK'
    <3>1. IsCounts(batch)' /\ IsCounts(pending)' BY <1>3, EmptyIsCounts DEF IsCounts
    <3>2. IsCounts(db)' BY <1>3, MergeIsCounts DEF TypeOK, IsCounts
    <3>3. \A k \in Keys : lost[k] + At(pending, k) \in Nat BY <2>1, SMT
    <3>4. lost' \in [Keys -> Nat] BY <1>3, <3>3
    <3>5. handler' \in [Handlers -> HandlerStates] BY <1>3, IdleIsState
    <3> QED BY <1>1, <1>3, <3>1, <3>2, <3>4, <3>5 DEF TypeOK, HandlerStates
  <2>3. Conservation' BY <1>1, <2>1, SMT DEF Conservation
  <2>4. FlushStages' BY <1>1, <1>3 DEF FlushStages, Alive
  <2>5. HeartbeatHonest'
    <3>1. \A k \in Keys : snapshot[k] <= At(db, k)' BY <2>1, SMT
    <3> QED BY <1>3, <3>1 DEF HeartbeatHonest
  <2> QED BY <2>2, <2>3, <2>4, <2>5
<1> QED BY <1>2, <1>3 DEF Kill

LEMMA StartStep ==
    ASSUME CountersInv, Start
    PROVE  CountersInv'
<1> USE DEF CountersInv
<1>1. /\ flusher' = "sleep" /\ main' = "serving" /\ ~Alive
      /\ batch = Empty /\ pending = Empty
      /\ UNCHANGED <<counts, handler, async, now, forwarded, faults>>
      /\ stopEvent' = FALSE /\ stray' = {} /\ failed' = 0
  BY DEF Start, FlushStages, counts, memoryVars, diskVars
<1>2. TypeOK' BY <1>1 DEF TypeOK, counts, IsCounts
<1>3. Conservation' /\ HeartbeatHonest'
  BY <1>1 DEF Conservation, HeartbeatHonest, counts, At
<1>4. FlushStages' BY <1>1 DEF FlushStages, Alive, counts
<1> QED BY <1>2, <1>3, <1>4

LEMMA InitInv ==
    ASSUME Init
    PROVE  CountersInv
<1> USE CountersAssumption DEF Init
<1>1. IsCounts(Empty) /\ \A k : At(Empty, k) = 0 BY EmptyIsCounts
<1>2. handler \in [Handlers -> HandlerStates] BY IdleIsState
<1>3. Zero \in [Keys -> Nat] /\ \A k \in Keys : Zero[k] = 0 BY DEF Zero
<1>4. TypeOK
  <2>1. now \in Minutes /\ forwarded \in 0..MaxBytes /\ faults \in 0..MaxFaults
        /\ failed \in Nat
    BY SMT DEF Minutes
  <2> QED BY <1>1, <1>2, <1>3, <2>1 DEF TypeOK, HandlerStates
<1>5. Conservation BY <1>1, <1>3, SMT DEF Conservation
<1>6. HeartbeatHonest BY <1>1, <1>3, SMT DEF HeartbeatHonest
<1>7. FlushStages BY DEF FlushStages, Alive
<1> QED BY <1>4, <1>5, <1>6, <1>7 DEF CountersInv

LEMMA NextInv ==
    ASSUME CountersInv, [Next]_vars
    PROVE  CountersInv'
BY NextCases, QuietStep, AddStep, SwapStep, CommitStep, RestoreStep, ExitStep,
   KillStep, StartStep

LEMMA Invariance == Spec => []CountersInv
BY InitInv, NextInv, PTL DEF Spec

\* The collector's variables keep their types.
THEOREM CountersTypeCorrect == Spec => []TypeOK
BY Invariance, PTL DEF CountersInv

\* A counted byte is always in exactly one place, through failed transactions,
\* retries, kills and restarts.
THEOREM Conserved == Spec => []Conservation
BY Invariance, PTL DEF CountersInv

\* A heartbeat the watchdog reads as "collecting" vouches for saved counts.
THEOREM HeartbeatsAreHonest == Spec => []HeartbeatHonest
BY Invariance, PTL DEF CountersInv

-----------------------------------------------------------------------------
\* Counters implements Ledger.

onDisk == [k \in Keys |-> At(db, k)]

LEMMA BookUnchanged ==
    ASSUME UNCHANGED <<counted, db>>
    PROVE  UNCHANGED Book!ledgerVars
BY DEF Book!ledgerVars, At

LEMMA AddCounts ==
    ASSUME CountersInv, NEW h \in Handlers, Add(h)
    PROVE  \E k \in Keys : Book!Count(k)
<1> DEFINE key == KeyOf(handler[h])
<1>1. key \in Keys
  <2>1. handler[h].minute \in Minutes /\ handler[h].label \in Labels
    BY DEF CountersInv, TypeOK
  <2> QED BY <2>1, KeyOfIsKey
<1>2. counted' = [counted EXCEPT ![key] = @ + 1] /\ db' = db
  BY Zenon DEF Add, diskVars
<1> HIDE DEF key
<1>3. counted \in [Keys -> Nat] BY DEF CountersInv, TypeOK
<1>4. /\ counted' \in [Keys -> Nat]
      /\ counted'[key] > counted[key]
      /\ \A j \in Keys \ {key} : counted'[j] = counted[j]
  BY <1>1, <1>2, <1>3, SMT
<1>5. UNCHANGED onDisk BY <1>2 DEF onDisk, At
<1> QED BY <1>1, <1>4, <1>5, Zenon DEF Book!Count, onDisk

\* A transaction that becomes durable records what was counted, no more.
LEMMA DurableRecords ==
    ASSUME CountersInv, db' = Merge(db, batch), counted' = counted
    PROVE  Book!Record
<1> USE DEF CountersInv
<1>1. ASSUME NEW k \in Keys
      PROVE  /\ At(db, k)' \in Nat
             /\ At(db, k) <= At(db, k)' /\ At(db, k)' <= counted[k]
  <2>1. {At(db, k), At(batch, k), At(pending, k), lost[k]} \subseteq Nat
    BY AtIsNat DEF TypeOK
  <2>2. At(db, k)' = At(db, k) + At(batch, k) BY AtMerge DEF TypeOK, At
  <2>3. counted[k] = At(db, k) + At(batch, k) + At(pending, k) + lost[k]
    BY DEF Conservation
  <2> QED BY <2>1, <2>2, <2>3, SMT
<1>2. onDisk' \in [Keys -> Nat] BY <1>1 DEF onDisk
<1>3. \A k \in Keys : onDisk[k] <= onDisk'[k] /\ onDisk'[k] <= counted[k]
  BY <1>1 DEF onDisk
<1> QED BY <1>2, <1>3, Zenon DEF Book!Record, onDisk

LEMMA BookStep ==
    ASSUME CountersInv, [Next]_vars
    PROVE  [Book!Next]_(Book!ledgerVars)
<1>1. CASE \E h \in Handlers : Add(h) BY <1>1, AddCounts DEF Book!Next
<1>2. CASE Commit BY <1>2, DurableRecords DEF Commit, Book!Next
<1>3. CASE Kill
  <2>1. CASE db' = Merge(db, batch) BY <1>3, <2>1, DurableRecords DEF Kill, Book!Next
  <2>2. CASE db' = db BY <1>3, <2>2, BookUnchanged DEF Kill
  <2> QED BY <1>3, <2>1, <2>2 DEF Kill, diskVars
<1>4. CASE Quiet
  <2>1. UNCHANGED <<counted, db>> BY <1>4, QuietFrame DEF CountersInv, counts
  <2> QED BY <2>1, BookUnchanged
<1>5. CASE Swap \/ Restore \/ Exit \/ Start
  <2>1. UNCHANGED <<counted, db>>
    BY <1>5 DEF Swap, Restore, Exit, Start, diskVars
  <2> QED BY <2>1, BookUnchanged
<1> QED BY <1>1, <1>2, <1>3, <1>4, <1>5, NextCases

\* Counting, failing, retrying, killing and restarting never record a byte
\* twice, move it to another key or take it back.
THEOREM LedgerRefinement == Spec => ImplementsLedger
<1>1. Init => Book!Init
  <2> SUFFICES ASSUME Init PROVE Book!Init OBVIOUS
  <2>1. counted = [k \in Keys |-> 0] BY DEF Init, Zero
  <2>2. \A k \in Keys : At(db, k) = 0 BY EmptyIsCounts DEF Init
  <2> QED BY <2>1, <2>2 DEF Book!Init
<1>2. CountersInv /\ [Next]_vars => [Book!Next]_(Book!ledgerVars) BY BookStep
<1> QED BY <1>1, <1>2, Invariance, PTL DEF Spec, Book!Spec, ImplementsLedger

-----------------------------------------------------------------------------
\* The last flush of the asynchronous collector.

\* Once its tasks have ended, no handler it knew of is still counting.
Drained ==
    /\ flusher \in {"last", "done"} => stopEvent
    /\ stopEvent => main \notin {"serving", "closing"}
    /\ async /\ stopEvent /\ stray = {} =>
          \A h \in Handlers : handler[h].pc \in {"idle", "accepted"}
    /\ async /\ flusher = "last" /\ stray = {} => pending = Empty
    /\ async /\ flusher = "done" /\ stray = {} /\ failed = 0 => pending = Empty

LEMMA DrainedHandlerStep ==
    ASSUME TypeOK, Drained, NEW h \in Handlers,
           \/ Accept(h) \/ Forward(h) \/ Stamp(h) \/ Add(h) \/ End(h) \/ Abandon(h)
           \/ \E d \in Labels : Begin(h, d)
    PROVE  Drained'
<1>1. /\ UNCHANGED <<async, flusher, stopEvent, main, failed>>
      /\ stray \subseteq stray'
      /\ \A j \in Handlers \ {h} : handler'[j] = handler[j]
  BY DEF Accept, Forward, Stamp, Add, End, Abandon, Begin, Goto, historyVars, TypeOK
<1>2. CASE End(h)
  <2>1. handler'[h].pc = "idle" /\ stray' = stray /\ pending' = pending
    BY <1>2 DEF End, Idle, TypeOK, memoryVars
  <2> QED BY <1>1, <2>1, Zenon DEF Drained
<1>3. CASE ~(async /\ stopEvent /\ stray' = {})
  <2>1. pending' = pending \/ Add(h)
    BY Zenon DEF Accept, Forward, Stamp, End, Abandon, Begin, memoryVars
  <2>2. flusher \in {"last", "done"} => stopEvent BY DEF Drained
  <2> QED BY <1>1, <1>3, <2>2, Zenon DEF Drained
<1>4. CASE async /\ stopEvent /\ stray' = {} /\ ~End(h)
  <2>1. stray = {} BY <1>1, <1>4
  <2>2. handler[h].pc \in {"idle", "accepted"} /\ main \notin {"serving", "closing"}
    BY <1>4, <2>1, Zenon DEF Drained
  <2>3. ~Accept(h) /\ ~Abandon(h) BY <2>2 DEF Accept, Abandon
  <2>4. ~Forward(h) /\ ~Stamp(h) /\ ~Add(h) BY <2>2 DEF Forward, Stamp, Add
  <2>5. ASSUME NEW d \in Labels, Begin(h, d) PROVE FALSE
    <3>1. stray' = stray \cup {h} BY <2>2, <2>5, Zenon DEF Begin
    <3> QED BY <1>4, <3>1
  <2> QED BY <1>4, <2>3, <2>4, <2>5
<1> QED BY <1>2, <1>3, <1>4

LEMMA DrainedStep ==
    ASSUME TypeOK, Drained, [Next]_vars
    PROVE  Drained'
<1>1. CASE Counting BY <1>1, DrainedHandlerStep DEF Counting
<1>2. CASE Swap
  <2>1. /\ pending' = Empty /\ flusher' = IF stopEvent THEN "last" ELSE "writing"
        /\ UNCHANGED <<async, handler, stopEvent, main, stray, failed>>
    BY <1>2 DEF Swap
  <2> QED BY <2>1 DEF Drained
<1>3. CASE Commit
  <2>1. /\ flusher' = IF flusher = "last" THEN "done" ELSE "sleep"
        /\ UNCHANGED <<async, handler, pending, stopEvent, main, stray>>
    BY <1>3 DEF Commit, Flushed
  <2> QED BY <2>1, Zenon DEF Drained
<1>4. CASE Restore
  <2>1. /\ flusher' = IF flusher = "last" THEN "done" ELSE "sleep"
        /\ UNCHANGED <<async, handler, stopEvent, main, stray>>
        /\ failed' = failed + 1
    BY <1>4 DEF Restore, Flushed
  <2>2. failed' # 0 BY <2>1, SMT DEF TypeOK
  <2> QED BY <2>1, <2>2, Zenon DEF Drained
<1>5. CASE Sigterm
  <2>1. main = "serving" /\ UNCHANGED <<async, handler, pending, stopEvent,
                                         stray, flusher, failed>>
    BY <1>5 DEF Sigterm, memoryVars, historyVars
  <2> QED BY <2>1, Zenon DEF Drained
<1>6. CASE SetStopEvent
  <2>1. /\ main' = "joining" /\ main = "closing" /\ stopEvent'
        /\ async => \A h \in Handlers : ~Known(h)
        /\ UNCHANGED <<async, handler, pending, stray, flusher, failed>>
    BY <1>6 DEF SetStopEvent, memoryVars, historyVars
  <2>2. async /\ stray = {} =>
           \A h \in Handlers : handler[h].pc \in {"idle", "accepted"}
    BY <2>1 DEF Known
  <2> QED BY <2>1, <2>2, Zenon DEF Drained
<1>7. CASE Exit \/ Kill
  <2>1. /\ pending' = Empty /\ handler' = [h \in Handlers |-> Idle]
        /\ main' \in {"exited", "killed"}
        /\ UNCHANGED <<async, flusher, stopEvent>>
    BY <1>7 DEF Exit, Kill, Forget
  <2>2. \A h \in Handlers : handler'[h].pc = "idle" BY <2>1 DEF Idle
  <2> QED BY <2>1, <2>2, Zenon DEF Drained
<1>8. CASE Start
  <2>1. flusher' = "sleep" /\ ~stopEvent' BY <1>8 DEF Start
  <2> QED BY <2>1 DEF Drained
<1>9. CASE Minute \/ UNCHANGED vars
  <2>1. UNCHANGED <<async, handler, pending, stopEvent, main, stray, flusher, failed>>
    BY <1>9 DEF Minute, vars, memoryVars, historyVars
  <2> QED BY <2>1, Zenon DEF Drained
<1> QED BY <1>1, <1>2, <1>3, <1>4, <1>5, <1>6, <1>7, <1>8, <1>9 DEF Next, Saving

LEMMA DrainedInvariant == Spec => []Drained
<1>1. Init => Drained BY DEF Init, Drained
<1>2. TypeOK /\ Drained /\ [Next]_vars => Drained' BY DrainedStep
<1> QED BY <1>1, <1>2, CountersTypeCorrect, PTL DEF Spec

\* After a stop whose last flush worked, the asynchronous collector has saved
\* everything, unless a connection began after the server closed or the clean-up
\* of a UDP association was interrupted.
THEOREM LastFlushIsComplete == Spec => []LastFlushComplete
<1>1. Drained => LastFlushComplete BY DEF Drained, LastFlushComplete
<1> QED BY <1>1, DrainedInvariant, PTL

\* The join has returned after a last flush that worked.
CleanStop == Exit /\ async /\ flusher = "done" /\ failed = 0 /\ stray = {}

\* When the asynchronous collector exits that way, nothing counted is lost with it,
\* and no handler is at a byte it has forwarded: each has counted all it forwarded,
\* or never forwarded any.
CleanStopLosesNothing ==
    [][CleanStop =>
          /\ lost' = lost
          /\ \A h \in Handlers : handler[h].pc \in {"idle", "accepted"}]_vars

\* A clean stop of the asynchronous collector loses no byte: none that is counted,
\* and none that a handler has forwarded and was still to count.
THEOREM CleanStopIsLossless == Spec => CleanStopLosesNothing
<1>1. ASSUME CountersInv, Drained, CleanStop
      PROVE  /\ lost' = lost
             /\ \A h \in Handlers : handler[h].pc \in {"idle", "accepted"}
  <2>1. pending = Empty /\ batch = Empty
    BY <1>1 DEF CleanStop, Drained, CountersInv, FlushStages
  <2>2. lost' = [k \in Keys |-> lost[k] + At(Owed, k)]
    BY <1>1 DEF CleanStop, Exit, Forget
  <2>3. \A k \in Keys : At(Owed, k) = 0 BY <2>1, EmptyIsCounts, AtMerge, SMT DEF Owed
  <2>4. lost \in [Keys -> Nat] BY <1>1 DEF CountersInv, TypeOK
  <2>5. \A k \in Keys : lost[k] + At(Owed, k) = lost[k] BY <2>3, <2>4, SMT
  <2>6. lost' = lost BY <2>2, <2>4, <2>5, Zenon
  <2>7. \A h \in Handlers : handler[h].pc \in {"idle", "accepted"}
    BY <1>1 DEF CleanStop, Drained
  <2> QED BY <2>6, <2>7
<1>2. CountersInv /\ Drained /\ [Next]_vars
      => [CleanStop =>
             /\ lost' = lost
             /\ \A h \in Handlers : handler[h].pc \in {"idle", "accepted"}]_vars
  BY <1>1
<1> QED BY <1>2, Invariance, DrainedInvariant, PTL DEF Spec, CleanStopLosesNothing

-----------------------------------------------------------------------------
\* What a crash can cost.

\* What ended with processes was counted after the flush of the last heartbeat had
\* begun.
LossBound == \A k \in Keys : heartbeat[k] + lost[k] <= counted[k]

\* What the heartbeat says is saved outlives every later crash: only bytes counted
\* since its flush began can be lost.
THEOREM LossIsBounded == Spec => []LossBound
<1>1. CountersInv => LossBound
  <2> SUFFICES ASSUME CountersInv, NEW k \in Keys
               PROVE  heartbeat[k] + lost[k] <= counted[k]
    BY DEF LossBound
  <2> USE DEF CountersInv
  <2>1. {At(db, k), At(batch, k), At(pending, k), lost[k], heartbeat[k]} \subseteq Nat
    BY AtIsNat DEF TypeOK
  <2>2. counted[k] = At(db, k) + At(batch, k) + At(pending, k) + lost[k]
    BY DEF Conservation
  <2>3. heartbeat[k] <= At(db, k) BY DEF HeartbeatHonest
  <2> QED BY <2>1, <2>2, <2>3, SMT
<1> QED BY <1>1, Invariance, PTL

\* A flush under way will vouch for no less than the last one.
Vouching ==
    flusher \in {"writing", "last"} /\ Alive =>
        \A k \in Keys : heartbeat[k] <= snapshot[k]

\* What `traffic_heartbeat' vouches for and what the rows of the database hold are
\* never taken back: no batch that is given back, no crash and no restart lowers
\* either of them.
HeartbeatsOnlyGrow ==
    [][\A k \in Keys : heartbeat[k] <= heartbeat'[k] /\ At(db, k) <= At(db, k)']_vars

LEMMA VouchingStep ==
    ASSUME CountersInv, Vouching, [Next]_vars
    PROVE  /\ Vouching'
           /\ \A k \in Keys : heartbeat[k] <= heartbeat'[k] /\ At(db, k) <= At(db, k)'
<1> USE DEF CountersInv
<1>1. \A k \in Keys : {heartbeat[k], snapshot[k], At(db, k), At(batch, k)} \subseteq Nat
  BY AtIsNat DEF TypeOK
<1>2. CASE Quiet \/ (\E h \in Handlers : Add(h)) \/ Restore \/ Exit \/ Start
  <2>1. /\ UNCHANGED <<heartbeat, db, snapshot>>
        /\ flusher' \in {"writing", "last"} /\ Alive'
              => flusher \in {"writing", "last"} /\ Alive
    <3>1. CASE Quiet BY <3>1, QuietFrame DEF counts
    <3>2. CASE \E h \in Handlers : Add(h) BY <3>2 DEF Add, diskVars, Alive
    <3>3. CASE Restore BY <3>3 DEF Restore, Flushed, diskVars
    <3>4. CASE Exit BY <3>4 DEF Exit, diskVars, Alive
    <3>5. CASE Start BY <3>5 DEF Start, diskVars
    <3> QED BY <1>2, <3>1, <3>2, <3>3, <3>4, <3>5
  <2>2. Vouching' BY <2>1 DEF Vouching
  <2> QED BY <1>1, <2>1, <2>2, SMT DEF At
<1>3. CASE Swap
  <2>1. snapshot' = [k \in Keys |-> counted[k] - lost[k]]
        /\ UNCHANGED <<heartbeat, db>>
    BY <1>3 DEF Swap, diskVars
  <2>2. ASSUME NEW k \in Keys PROVE heartbeat[k] <= counted[k] - lost[k]
    <3>1. {At(db, k), At(batch, k), At(pending, k), lost[k], heartbeat[k]} \subseteq Nat
      BY AtIsNat DEF TypeOK
    <3>2. counted[k] = At(db, k) + At(batch, k) + At(pending, k) + lost[k]
          /\ heartbeat[k] <= At(db, k)
      BY DEF Conservation, HeartbeatHonest
    <3> QED BY <3>1, <3>2, SMT
  <2>3. Vouching' BY <2>1, <2>2 DEF Vouching
  <2> QED BY <1>1, <2>1, <2>3, SMT DEF At
<1>4. CASE db' = Merge(db, batch) /\ heartbeat' = snapshot
           /\ flusher \in {"writing", "last"} /\ Alive
           /\ ~(flusher' \in {"writing", "last"} /\ Alive')
  <2>1. \A k \in Keys : At(db, k)' = At(db, k) + At(batch, k)
    BY <1>4, AtMerge DEF TypeOK, At
  <2>2. \A k \in Keys : heartbeat[k] <= heartbeat'[k] BY <1>4 DEF Vouching
  <2>3. Vouching' BY <1>4 DEF Vouching
  <2>4. \A k \in Keys : At(db, k) <= At(db, k)' BY <1>1, <2>1, SMT
  <2> QED BY <2>2, <2>3, <2>4
<1>5. CASE Commit
  <2>1. flusher' \in {"sleep", "done"} BY <1>5 DEF Commit, Flushed
  <2> QED BY <1>4, <1>5, <2>1 DEF Commit
<1>6. CASE Kill
  <2>1. ~Alive' BY <1>6 DEF Kill, Alive
  <2>2. CASE UNCHANGED diskVars
    <3>1. Vouching' BY <2>1 DEF Vouching
    <3> QED BY <1>1, <2>2, <3>1, SMT DEF diskVars, At
  <2>3. CASE ~UNCHANGED diskVars BY <1>4, <1>6, <2>1, <2>3 DEF Kill
  <2> QED BY <2>2, <2>3
<1> QED BY <1>2, <1>3, <1>5, <1>6, NextCases

\* Rows are never taken back, and no heartbeat vouches for less than an earlier one,
\* not even the first one after a crash that lost what was in memory.
THEOREM HeartbeatsGrow == Spec => HeartbeatsOnlyGrow
<1>1. Init => Vouching BY DEF Init, Vouching
<1>2. CountersInv /\ Vouching /\ [Next]_vars => Vouching' BY VouchingStep
<1>3. CountersInv /\ Vouching /\ [Next]_vars
      => [\A k \in Keys : heartbeat[k] <= heartbeat'[k] /\ At(db, k) <= At(db, k)']_vars
  BY VouchingStep
<1> QED BY <1>1, <1>2, <1>3, Invariance, PTL DEF Spec, HeartbeatsOnlyGrow

-----------------------------------------------------------------------------
\* The bound on named destinations.

Named(f) == {k \in DOMAIN f : k[2] # "Unknown"}

\* A batch that has been swapped out leaves a dict that is filled anew.
NamedBounded ==
    /\ IsFiniteSet(DOMAIN pending) /\ IsFiniteSet(DOMAIN batch)
    /\ Cardinality(Named(pending)) <= (failed + 1) * MaxPending
    /\ Cardinality(Named(batch)) <= (failed + 1) * MaxPending
    /\ flusher \in {"writing", "last"} => Cardinality(Named(pending)) <= MaxPending

LEMMA NamedFinite ==
    ASSUME NEW f, IsFiniteSet(DOMAIN f)
    PROVE  /\ IsFiniteSet(Named(f)) /\ Cardinality(Named(f)) \in Nat
           /\ Cardinality(DOMAIN f) \in Nat
           /\ Cardinality(Named(f)) <= Cardinality(DOMAIN f)
<1>1. Named(f) \in SUBSET DOMAIN f BY DEF Named
<1> QED BY <1>1, FS_Subset, FS_CardinalityType

LEMMA NamedEmpty == IsFiniteSet(DOMAIN Empty) /\ Cardinality(Named(Empty)) = 0
<1>1. DOMAIN Empty = {} /\ Named(Empty) = {} BY DEF Empty, Named
<1> QED BY <1>1, FS_EmptySet

LEMMA NamedMerge ==
    ASSUME NEW f, NEW g, IsFiniteSet(DOMAIN f), IsFiniteSet(DOMAIN g)
    PROVE  /\ IsFiniteSet(DOMAIN Merge(f, g))
           /\ Cardinality(Named(Merge(f, g)))
                 <= Cardinality(Named(f)) + Cardinality(Named(g))
<1>1. DOMAIN Merge(f, g) = DOMAIN f \cup DOMAIN g BY DEF Merge
<1>2. Named(Merge(f, g)) = Named(f) \cup Named(g) BY <1>1 DEF Named
<1>3. IsFiniteSet(DOMAIN f \cup DOMAIN g) BY FS_Union
<1>4. IsFiniteSet(Named(f)) /\ IsFiniteSet(Named(g)) BY NamedFinite
<1>5. Named(f) \cap Named(g) \in SUBSET Named(f) OBVIOUS
<1>6. Cardinality(Named(f) \cap Named(g)) \in Nat
  BY <1>4, <1>5, FS_Subset, FS_CardinalityType
<1>7. Cardinality(Named(f) \cup Named(g))
        = Cardinality(Named(f)) + Cardinality(Named(g))
          - Cardinality(Named(f) \cap Named(g))
  BY <1>4, FS_Union
<1>8. Cardinality(Named(f)) \in Nat /\ Cardinality(Named(g)) \in Nat BY NamedFinite
<1> QED BY <1>1, <1>2, <1>3, <1>6, <1>7, <1>8

LEMMA BoundGrows ==
    ASSUME NEW n \in Nat
    PROVE  /\ (n + 1) * MaxPending \in Nat
           /\ MaxPending <= (n + 1) * MaxPending
           /\ (n + 1 + 1) * MaxPending = (n + 1) * MaxPending + MaxPending
BY CountersAssumption, SMT

\* `add' lets a new named key in only below the limit.
LEMMA NamedAdd ==
    ASSUME CountersInv, NamedBounded, NEW h \in Handlers, Add(h)
    PROVE  NamedBounded'
<1> DEFINE key == KeyOf(handler[h])
           one == [j \in {key} |-> 1]
<1>1. /\ pending' = Merge(pending, one)
      /\ UNCHANGED <<batch, flusher, failed>>
  BY DEF Add
<1>2. DOMAIN one = {key} /\ IsFiniteSet(DOMAIN one) BY FS_Singleton
<1>3. IsFiniteSet(DOMAIN pending) BY DEF NamedBounded
<1>4. IsFiniteSet(DOMAIN pending') BY <1>1, <1>2, <1>3, NamedMerge
<1>5. failed \in Nat BY DEF CountersInv, TypeOK
<1>6. \/ Cardinality(Named(pending')) = Cardinality(Named(pending))
      \/ Cardinality(Named(pending')) <= MaxPending
  <2>1. DOMAIN pending' = DOMAIN pending \cup {key} BY <1>1, <1>2 DEF Merge
  <2>2. CASE key[2] = "Unknown" \/ key \in DOMAIN pending
    <3>1. Named(pending') = Named(pending) BY <2>1, <2>2 DEF Named
    <3> QED BY <3>1
  <2>3. CASE key[2] # "Unknown" /\ key \notin DOMAIN pending
    <3>1. ~(Cardinality(DOMAIN pending) >= MaxPending)
      <4>1. \/ key = <<handler[h].minute, "Unknown">>
            \/ key = <<handler[h].minute, handler[h].label>>
        BY DEF KeyOf
      <4> QED BY <2>3, <4>1 DEF KeyOf
    <3>2. Cardinality(Named(one)) <= 1
      <4>1. Cardinality(DOMAIN one) = 1 BY <1>2, FS_Singleton
      <4> QED BY <1>2, <4>1, NamedFinite
    <3>3. Cardinality(Named(pending'))
             <= Cardinality(Named(pending)) + Cardinality(Named(one))
      BY <1>1, <1>2, <1>3, NamedMerge
    <3> HIDE DEF one, key
    <3>4. /\ Cardinality(Named(pending)) \in Nat /\ Cardinality(DOMAIN pending) \in Nat
          /\ Cardinality(Named(pending)) <= Cardinality(DOMAIN pending)
          /\ Cardinality(Named(pending')) \in Nat /\ Cardinality(Named(one)) \in Nat
      BY <1>2, <1>3, <1>4, NamedFinite
    <3> QED BY <3>1, <3>2, <3>3, <3>4, CountersAssumption, SMT
  <2> QED BY <2>2, <2>3
<1> HIDE DEF key, one
<1>7. Cardinality(Named(pending')) \in Nat BY <1>4, NamedFinite
<1>8. (failed + 1) * MaxPending \in Nat /\ MaxPending <= (failed + 1) * MaxPending
  BY <1>5, BoundGrows
<1>9. /\ Cardinality(Named(pending')) <= (failed + 1) * MaxPending
      /\ flusher \in {"writing", "last"} => Cardinality(Named(pending')) <= MaxPending
  BY <1>6, <1>7, <1>8, CountersAssumption, SMT DEF NamedBounded
<1> QED BY <1>1, <1>4, <1>9 DEF NamedBounded, Named

LEMMA NamedNext ==
    ASSUME CountersInv, NamedBounded, [Next]_vars
    PROVE  NamedBounded'
<1>1. failed \in Nat /\ failed' \in Nat BY NextInv DEF CountersInv, TypeOK
<1> DEFINE bound == (failed + 1) * MaxPending
<1>2. bound \in Nat /\ MaxPending \in Nat /\ bound' \in Nat
      /\ MaxPending <= bound /\ MaxPending <= bound'
  BY <1>1, BoundGrows, CountersAssumption
<1>3. CASE Quiet
  <2>1. UNCHANGED <<pending, batch, flusher, failed>>
    BY <1>3, QuietFrame DEF CountersInv, counts
  <2> QED BY <2>1 DEF NamedBounded, Named
<1>4. CASE \E h \in Handlers : Add(h) BY <1>4, NamedAdd
<1>5. CASE Swap
  <2>1. batch' = pending /\ pending' = Empty /\ UNCHANGED failed BY <1>5 DEF Swap
  <2>2. /\ IsFiniteSet(DOMAIN pending') /\ IsFiniteSet(DOMAIN batch')
        /\ Cardinality(Named(pending')) = 0
        /\ Cardinality(Named(batch')) <= bound
    BY <2>1, NamedEmpty DEF NamedBounded, Named
  <2> QED BY <1>2, <2>1, <2>2, SMT DEF NamedBounded, Named
<1>6. CASE Commit
  <2>1. /\ pending' = pending /\ batch' = Empty /\ failed' = 0
        /\ flusher \in {"writing", "last"} /\ flusher' \in {"sleep", "done"}
    BY <1>6 DEF Commit, Flushed
  <2>2. /\ IsFiniteSet(DOMAIN pending') /\ IsFiniteSet(DOMAIN batch')
        /\ Cardinality(Named(batch')) = 0
        /\ Cardinality(Named(pending')) <= MaxPending
    BY <2>1, NamedEmpty DEF NamedBounded, Named
  <2>3. Cardinality(Named(pending')) \in Nat BY <2>2, NamedFinite
  <2> QED BY <1>2, <2>1, <2>2, <2>3, SMT DEF NamedBounded, Named
<1>7. CASE Restore
  <2>1. /\ pending' = Merge(pending, batch) /\ batch' = Empty /\ failed' = failed + 1
        /\ flusher \in {"writing", "last"} /\ flusher' \in {"sleep", "done"}
    BY <1>7 DEF Restore, Flushed
  <2>2. /\ IsFiniteSet(DOMAIN pending') /\ IsFiniteSet(DOMAIN batch')
        /\ Cardinality(Named(batch')) = 0
        /\ Cardinality(Named(pending'))
              <= Cardinality(Named(pending)) + Cardinality(Named(batch))
    BY <2>1, NamedEmpty, NamedMerge DEF NamedBounded, Named
  <2>3. bound' = bound + MaxPending BY <1>1, <2>1, BoundGrows
  <2>4. /\ Cardinality(Named(pending)) \in Nat /\ Cardinality(Named(batch)) \in Nat
        /\ Cardinality(Named(pending')) \in Nat
    BY <2>2, NamedFinite DEF NamedBounded
  <2>5. Cardinality(Named(pending)) <= MaxPending /\ Cardinality(Named(batch)) <= bound
    BY <2>1 DEF NamedBounded
  <2>6. Cardinality(Named(pending')) <= bound' BY <1>2, <2>2, <2>3, <2>4, <2>5, SMT
  <2> QED BY <1>2, <2>1, <2>2, <2>6 DEF NamedBounded, Named
<1>8. CASE Exit \/ Kill \/ Start
  <2>1. pending' = Empty /\ batch' = Empty
    BY <1>8 DEF Exit, Kill, Start, Forget, CountersInv, FlushStages, memoryVars
  <2>2. /\ IsFiniteSet(DOMAIN pending') /\ IsFiniteSet(DOMAIN batch')
        /\ Cardinality(Named(pending')) = 0 /\ Cardinality(Named(batch')) = 0
    BY <2>1, NamedEmpty
  <2> QED BY <1>2, <2>2, SMT DEF NamedBounded, Named
<1> QED BY <1>3, <1>4, <1>5, <1>6, <1>7, <1>8, NextCases

\* However often flushes fail, memory holds at most the limit of named keys for
\* each of them and for the dict that is being filled.
THEOREM PendingIsBounded == Spec => []PendingBound
<1>1. ASSUME Init PROVE NamedBounded
  <2>1. pending = Empty /\ batch = Empty /\ failed = 0 BY <1>1 DEF Init
  <2>2. (0 + 1) * MaxPending \in Nat /\ MaxPending \in Nat BY BoundGrows, CountersAssumption
  <2> QED BY <2>1, <2>2, NamedEmpty, SMT DEF NamedBounded
<1>2. NamedBounded => PendingBound BY DEF NamedBounded, PendingBound, Named
<1> QED BY <1>1, <1>2, NamedNext, Invariance, PTL DEF Spec
=============================================================================
