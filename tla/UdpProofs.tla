----------------------------- MODULE UdpProofs ------------------------------
(***************************************************************************)
(* What holds of UdpAssociation for any packets, destinations and limits.  *)
(* The core is that a socket is registered under its destination from its  *)
(* creation to its end: then the limit on `targets' is one on sockets, and *)
(* closing what `targets' has closes everything.                           *)
(***************************************************************************)
EXTENDS UdpAssociation, FiniteSetTheorems, FunctionTheorems, TLAPS

-----------------------------------------------------------------------------
\* The inductive invariant.

\* Only a finished creation has an open socket, only an open one is idle.
SocketStages ==
    /\ \A c \in Packets : socket[c] = "open" => create[c] = "ready"
    /\ idle \subseteq {c \in Packets : socket[c] = "open"}

RegisteredBounded == Cardinality(Registered) <= MaxTargets

\* From `close' on there are no tasks left that could create a socket.
ClosingStages ==
    /\ control \in {"closing", "ended"} =>
         closed /\ Tasks = {} /\ \A c \in Packets : create[c] # "running"
    /\ control = "ended" => \A c \in Packets : socket[c] # "open"

WaitsForCreation == \A p \in Packets : task[p] = "waiting" => via[p] \in Packets

UdpInv ==
    /\ TypeOK /\ NoOrphan /\ SocketStages /\ RegisteredBounded /\ ClosingStages
    /\ WaitsForCreation

LEMMA RegisteredFinite ==
    IsFiniteSet(Registered) /\ Cardinality(Registered) \in Nat
<1>1. Registered \subseteq Dests BY DEF Registered
<1>2. IsFiniteSet(Registered) BY <1>1, FS_Subset, UdpAssumption
<1> QED BY <1>2, FS_CardinalityType

\* What leaves `targets' alone, or only takes places away, keeps to its limit.
LEMMA FewerRegistered ==
    ASSUME RegisteredBounded, Registered' \subseteq Registered
    PROVE  RegisteredBounded'
<1>1. IsFiniteSet(Registered) /\ Cardinality(Registered) \in Nat BY RegisteredFinite
<1>2. IsFiniteSet(Registered') /\ Cardinality(Registered') <= Cardinality(Registered)
  BY <1>1, FS_Subset
<1>3. Cardinality(Registered') \in Nat BY <1>2, FS_CardinalityType
<1> QED BY <1>1, <1>2, <1>3, UdpAssumption, SMT DEF RegisteredBounded

LEMMA UdpInit ==
    ASSUME Init
    PROVE  UdpInv
<1>1. TypeOK BY DEF Init, TypeOK
<1>2. NoOrphan /\ SocketStages /\ ClosingStages
  BY DEF Init, NoOrphan, Live, SocketStages, ClosingStages
<1>3. Registered = {} BY DEF Init, Registered
<1>4. RegisteredBounded
  BY <1>3, FS_EmptySet, UdpAssumption, SMT DEF RegisteredBounded
<1>5. WaitsForCreation BY DEF Init, WaitsForCreation
<1> QED BY <1>1, <1>2, <1>4, <1>5 DEF UdpInv

-----------------------------------------------------------------------------
\* Each action preserves the invariant.

LEMMA ReceiveStep ==
    ASSUME UdpInv, NEW p \in Packets, Receive(p)
    PROVE  UdpInv'
<1> USE DEF UdpInv, Receive, taskVars, targetVars, historyVars
<1>1. TypeOK' BY DEF TypeOK
<1>2. NoOrphan' /\ SocketStages' BY DEF NoOrphan, Live, SocketStages
<1>3. ClosingStages' BY DEF ClosingStages
<1>4. RegisteredBounded' BY DEF RegisteredBounded, Registered
<1>5. WaitsForCreation' BY DEF WaitsForCreation, TypeOK
<1> QED BY <1>1, <1>2, <1>3, <1>4, <1>5

\* A task that ends with a creation takes nothing from a live socket.
LEMMA UseStep ==
    ASSUME UdpInv, NEW p \in Packets, NEW c \in Packets, Use(p, c),
           task[p] \in {"new", "waiting"},
           control' = control, closed' = closed, dest' = dest,
           via' = via, create' = create, socket' = socket
    PROVE  UdpInv'
<1>1. task' = [task EXCEPT ![p] = "done"] BY DEF Use
<1>4. WaitsForCreation' BY <1>1 DEF WaitsForCreation, UdpInv, TypeOK
<1>2. CASE create[c] = "ready" /\ UNCHANGED targets
  <2>1. idle' \subseteq idle /\ sent' \in {sent, sent \cup {p}}
        /\ counted' \in {counted, counted \cup {p}}
    BY <1>2 DEF Use
  <2>2. TypeOK' BY <1>1, <1>2, <2>1 DEF TypeOK, UdpInv
  <2>3. NoOrphan' /\ SocketStages' BY <1>2, <2>1 DEF NoOrphan, Live, SocketStages, UdpInv
  <2>4. ClosingStages' BY <1>1 DEF ClosingStages, UdpInv, Tasks
  <2>5. RegisteredBounded' BY <1>2 DEF RegisteredBounded, Registered, UdpInv
  <2> QED BY <1>4, <2>2, <2>3, <2>4, <2>5 DEF UdpInv
<1>3. CASE /\ create[c] = "failed"
           /\ targets' = [targets EXCEPT ![dest[p]] = IF @ = c THEN None ELSE @]
           /\ UNCHANGED <<idle, historyVars>>
  <2>0. dest[p] \in Dests /\ targets \in [Dests -> Packets \cup {None}]
    BY DEF UdpInv, TypeOK
  <2>1. \A d \in Dests : targets'[d] = IF d = dest[p] /\ targets[d] = c THEN None ELSE targets[d]
    BY <1>3, <2>0
  <2>2. TypeOK' BY <1>1, <1>3, <2>0 DEF TypeOK, UdpInv, historyVars
  <2>3. Live' = Live BY DEF Live
  <2>4. c \notin Live BY <1>3 DEF Live, UdpInv, SocketStages
  <2>5. NoOrphan'
    BY <2>1, <2>3, <2>4 DEF NoOrphan, UdpInv, TypeOK, Live
  <2>6. SocketStages' BY <1>3 DEF SocketStages, UdpInv
  <2>7. ClosingStages' BY <1>1 DEF ClosingStages, UdpInv, Tasks
  <2>8. Registered' \subseteq Registered BY <2>1 DEF Registered
  <2>9. RegisteredBounded' BY <2>8, FewerRegistered DEF UdpInv
  <2> QED BY <1>4, <2>2, <2>5, <2>6, <2>7, <2>9 DEF UdpInv
<1> QED BY <1>2, <1>3 DEF Use

LEMMA StartStep ==
    ASSUME UdpInv, NEW p \in Packets, StartTarget(p), task[p] = "new",
           targets[dest[p]] = None, Cardinality(Registered) < MaxTargets,
           UNCHANGED <<control, closed, dest>>
    PROVE  UdpInv'
<1> USE DEF StartTarget
<1>0. dest[p] \in Dests /\ targets \in [Dests -> Packets \cup {None}] /\ p # None
  BY UdpAssumption DEF UdpInv, TypeOK
<1>1. p \in Tasks BY DEF Tasks
<1>2. control \notin {"closing", "ended"} BY <1>1 DEF UdpInv, ClosingStages
<1>3. TypeOK' BY <1>0 DEF TypeOK, UdpInv, historyVars
<1>4. \A d \in Dests : targets'[d] = IF d = dest[p] THEN p ELSE targets[d] BY <1>0
<1>5. p \notin Live BY <1>0 DEF UdpInv, NoOrphan
<1>6. Live' = Live \cup {p} BY <1>5 DEF Live, UdpInv, TypeOK
<1>7. NoOrphan'
  <2> SUFFICES ASSUME NEW c \in Live'
               PROVE  targets'[dest[c]] = c
    BY DEF NoOrphan
  <2>1. CASE c = p BY <2>1, <1>0, <1>4
  <2>2. CASE c # p
    <3>1. c \in Live /\ c \in Packets BY <1>6, <2>2 DEF Live
    <3>2. targets[dest[c]] = c BY <3>1 DEF UdpInv, NoOrphan
    <3>3. c # None BY <3>1, UdpAssumption
    <3>4. dest[c] # dest[p] /\ dest[c] \in Dests BY <3>1, <3>2, <3>3 DEF UdpInv, TypeOK
    <3> QED BY <1>4, <3>2, <3>4
  <2> QED BY <2>1, <2>2
<1>8. SocketStages' BY <1>5 DEF SocketStages, UdpInv, TypeOK, Live
<1>9. ClosingStages' BY <1>2 DEF ClosingStages
<1>10. RegisteredBounded'
  <2>1. Registered' = Registered \cup {dest[p]} BY <1>0, <1>4 DEF Registered
  <2>2. IsFiniteSet(Registered) /\ Cardinality(Registered) \in Nat BY RegisteredFinite
  <2>3. Cardinality(Registered') <= Cardinality(Registered) + 1
    BY <2>1, <2>2, FS_AddElement
  <2>4. Cardinality(Registered') \in Nat
    BY <2>1, <2>2, FS_AddElement, FS_CardinalityType
  <2>5. Cardinality(Registered) + 1 <= MaxTargets BY <2>2, UdpAssumption, SMT
  <2> QED BY <2>2, <2>3, <2>4, <2>5, UdpAssumption, SMT DEF RegisteredBounded
<1>11. WaitsForCreation' BY DEF WaitsForCreation, UdpInv, TypeOK
<1> QED BY <1>3, <1>7, <1>8, <1>9, <1>10, <1>11 DEF UdpInv

LEMMA ForwardStep ==
    ASSUME UdpInv, NEW p \in Packets, Forward(p)
    PROVE  UdpInv'
<1> DEFINE c == targets[dest[p]]
<1>0. task[p] = "new" /\ UNCHANGED <<control, closed, dest>> BY DEF Forward
<1>00. c \in Packets \cup {None} /\ task \in [Packets -> {"unsent", "new", "waiting", "done"}]
  BY DEF UdpInv, TypeOK
<1>1. CASE c = None /\ Cardinality(Registered) < MaxTargets /\ StartTarget(p)
  BY <1>0, <1>1, StartStep
<1>2. CASE UNCHANGED <<targetVars, historyVars>>
           /\ \/ task' = [task EXCEPT ![p] = "done"] /\ via' = via
              \/ /\ task' = [task EXCEPT ![p] = "waiting"]
                 /\ c # None /\ via' = [via EXCEPT ![p] = c]
  <2> USE <1>0, <1>2 DEF UdpInv, targetVars, historyVars
  <2>1. TypeOK' BY <1>00 DEF TypeOK
  <2>2. NoOrphan' /\ SocketStages' BY DEF NoOrphan, Live, SocketStages
  <2>3. ClosingStages' BY <1>00 DEF ClosingStages, Tasks
  <2>4. RegisteredBounded' BY DEF RegisteredBounded, Registered
  <2>5. WaitsForCreation' BY <1>00 DEF WaitsForCreation, TypeOK
  <2> QED BY <2>1, <2>2, <2>3, <2>4, <2>5
<1>3. CASE c # None /\ Use(p, c) /\ UNCHANGED <<via, create, socket>>
  <2>1. c \in Packets BY <1>00, <1>3
  <2> QED BY <1>0, <1>3, <2>1, UseStep
<1> QED BY <1>1, <1>2, <1>3 DEF Forward

LEMMA ResumeStep ==
    ASSUME UdpInv, NEW p \in Packets, Resume(p)
    PROVE  UdpInv'
<1>1. via[p] \in Packets BY DEF UdpInv, WaitsForCreation, Resume
<1> QED BY <1>1, UseStep DEF Resume

\* What happens to one creation and its socket, without any task.
LEMMA CreationStep ==
    ASSUME UdpInv, NEW c \in Packets,
           Created(c) \/ CreateFails(c) \/ Respond(c) \/ Idle(c)
    PROVE  UdpInv'
<1> USE DEF UdpInv, Created, CreateFails, Respond, Idle, taskVars, historyVars
<1>1. TypeOK' BY DEF TypeOK
<1>2. targets' = targets /\ dest' = dest /\ Live' \subseteq Live BY DEF Live, TypeOK
<1>3. NoOrphan' BY <1>2 DEF NoOrphan
<1>4. SocketStages' BY DEF SocketStages, TypeOK
<1>5. ClosingStages' BY DEF ClosingStages, Tasks, TypeOK, SocketStages
<1>6. RegisteredBounded' BY <1>2 DEF RegisteredBounded, Registered
<1>7. WaitsForCreation' BY DEF WaitsForCreation
<1> QED BY <1>1, <1>3, <1>4, <1>5, <1>6, <1>7

LEMMA ReapStep ==
    ASSUME UdpInv, Reap
    PROVE  UdpInv'
<1> DEFINE old == {c \in idle : \E d \in Dests : targets[d] = c}
<1>1. /\ targets' = [d \in Dests |-> IF targets[d] \in old THEN None ELSE targets[d]]
      /\ socket' = [c \in Packets |-> IF c \in old THEN "closed" ELSE socket[c]]
      /\ idle' = idle \ old
      /\ UNCHANGED <<control, closed, taskVars, create, historyVars>>
  BY DEF Reap
<1> HIDE DEF old
<1> USE <1>1 DEF UdpInv, taskVars, historyVars
<1>2. TypeOK' BY DEF TypeOK
<1>3. \A c \in Live' : c \in Live /\ c \notin old
  <2> SUFFICES ASSUME NEW c \in Live' PROVE c \in Live /\ c \notin old
    OBVIOUS
  <2>1. c \in Packets /\ (create[c] = "running" \/ socket'[c] = "open") BY DEF Live
  <2>2. c \in old => c \in idle BY DEF old
  <2>3. c \in old => create[c] = "ready" BY <2>2 DEF SocketStages
  <2> QED BY <2>1, <2>3 DEF Live
<1>4. NoOrphan'
  <2> SUFFICES ASSUME NEW c \in Live' PROVE targets'[dest[c]] = c
    BY DEF NoOrphan
  <2>1. c \in Live /\ c \notin old BY <1>3
  <2>2. dest[c] \in Dests /\ targets[dest[c]] = c
    BY <2>1 DEF NoOrphan, TypeOK, Live
  <2> QED BY <2>1, <2>2
<1>5. SocketStages' BY DEF SocketStages
<1>6. ClosingStages' BY DEF ClosingStages, Reap, Tasks
<1>7. Registered' \subseteq Registered BY DEF Registered
<1>8. RegisteredBounded' BY <1>7, FewerRegistered
<1>9. WaitsForCreation' BY DEF WaitsForCreation
<1> QED BY <1>2, <1>4, <1>5, <1>6, <1>8, <1>9

\* Every running creation is registered, so `close' cancels every one.
LEMMA CloseStep ==
    ASSUME UdpInv, Close
    PROVE  UdpInv'
<1> DEFINE registered == {targets[d] : d \in Registered}
<1>1. /\ control = "reaping" /\ control' = "closing" /\ closed' = TRUE
      /\ task' = [p \in Packets |-> IF p \in Tasks THEN "done" ELSE task[p]]
      /\ create' = [c \in Packets |->
           IF c \in registered /\ create[c] = "running" THEN "cancelled" ELSE create[c]]
      /\ UNCHANGED <<dest, via, socket, targets, idle, historyVars>>
  BY DEF Close
<1>2. \A c \in Packets : create[c] = "running" => c \in registered
  <2> SUFFICES ASSUME NEW c \in Packets, create[c] = "running" PROVE c \in registered
    OBVIOUS
  <2>1. targets[dest[c]] = c /\ dest[c] \in Dests BY DEF UdpInv, NoOrphan, Live, TypeOK
  <2>2. dest[c] \in Registered BY <2>1, UdpAssumption DEF Registered
  <2> QED BY <2>1, <2>2
<1> HIDE DEF registered
<1> USE <1>1 DEF UdpInv, historyVars
<1>3. TypeOK' BY DEF TypeOK
<1>4. Tasks' = {} BY DEF Tasks
<1>5. NoOrphan' BY DEF NoOrphan, Live
<1>6. SocketStages' BY DEF SocketStages
<1>7. ClosingStages' BY <1>2, <1>4 DEF ClosingStages
<1>8. RegisteredBounded' BY DEF RegisteredBounded, Registered
<1>9. WaitsForCreation' BY DEF WaitsForCreation, Tasks
<1> QED BY <1>3, <1>5, <1>6, <1>7, <1>8, <1>9

\* Every open socket is registered, so the end of `close' closes every one.
LEMMA ReleaseStep ==
    ASSUME UdpInv, Release
    PROVE  UdpInv'
<1> USE DEF UdpInv, Release, taskVars, historyVars
<1>1. TypeOK' BY DEF TypeOK
<1>2. \A c \in Packets : socket[c] = "open" =>
        create[c] = "ready" /\ \E d \in Dests : targets[d] = c
  BY DEF SocketStages, NoOrphan, Live, TypeOK
<1>3. \A c \in Packets : socket'[c] # "open" BY <1>2
<1>4. \A c \in Packets : create'[c] # "running" BY DEF ClosingStages
<1>5. NoOrphan' BY <1>3, <1>4 DEF NoOrphan, Live
<1>6. SocketStages' BY <1>3 DEF SocketStages
<1>7. ClosingStages' BY <1>3, <1>4 DEF ClosingStages, Tasks
<1>8. Registered' \subseteq Registered BY DEF Registered
<1>9. RegisteredBounded' BY <1>8, FewerRegistered
<1>10. WaitsForCreation' BY DEF WaitsForCreation
<1> QED BY <1>1, <1>5, <1>6, <1>7, <1>9, <1>10

LEMMA ControlStep ==
    ASSUME UdpInv, EndControl \/ Abandon \/ UNCHANGED vars
    PROVE  UdpInv'
<1> USE DEF UdpInv, EndControl, Abandon, vars, taskVars, targetVars, historyVars
<1>1. TypeOK' BY DEF TypeOK
<1>2. NoOrphan' /\ SocketStages' BY DEF NoOrphan, Live, SocketStages
<1>3. ClosingStages' BY DEF ClosingStages, Tasks
<1>4. RegisteredBounded' BY DEF RegisteredBounded, Registered
<1>5. WaitsForCreation' BY DEF WaitsForCreation
<1> QED BY <1>1, <1>2, <1>3, <1>4, <1>5

LEMMA UdpStep ==
    ASSUME UdpInv, [Next]_vars
    PROVE  UdpInv'
<1>1. ASSUME NEW p \in Packets, Forward(p) \/ Resume(p) \/ Receive(p)
      PROVE  UdpInv'
  BY <1>1, ForwardStep, ResumeStep, ReceiveStep
<1>2. ASSUME NEW c \in Packets, Created(c) \/ CreateFails(c) \/ Respond(c) \/ Idle(c)
      PROVE  UdpInv'
  BY <1>2, CreationStep
<1>3. CASE Reap BY <1>3, ReapStep
<1>4. CASE Close BY <1>4, CloseStep
<1>5. CASE Release BY <1>5, ReleaseStep
<1>6. CASE EndControl \/ Abandon \/ UNCHANGED vars BY <1>6, ControlStep
<1> QED BY <1>1, <1>2, <1>3, <1>4, <1>5, <1>6 DEF Next, Step

LEMMA UdpInvariant == Spec => []UdpInv
<1>1. Init => UdpInv BY UdpInit
<1>2. UdpInv /\ [Next]_vars => UdpInv' BY UdpStep
<1> QED BY <1>1, <1>2, PTL DEF Spec

-----------------------------------------------------------------------------
\* Theorems.

\* The tasks, sockets and tables of an association keep their types: whatever
\* `targets' holds is a task that a packet of this association has started.
THEOREM UdpTypeCorrect == Spec => []TypeOK
<1>1. UdpInv => TypeOK BY DEF UdpInv
<1> QED BY <1>1, UdpInvariant, PTL

\* A socket is in `targets' under its destination as long as it exists, so that
\* packets share it and the reaper and `close' find it (forward, reap, close).
THEOREM SocketsRegistered == Spec => []NoOrphan
<1>1. UdpInv => NoOrphan BY DEF UdpInv
<1> QED BY <1>1, UdpInvariant, PTL

\* The test of len(self.targets) in `forward' bounds the sockets an association
\* really holds, those being created included.
THEOREM SocketLimit == Spec => []SocketsBounded
<1>1. ASSUME UdpInv PROVE SocketsBounded
  <2> DEFINE f == [c \in Live |-> dest[c]]
  <2>1. \A c \in Live : dest[c] \in Registered /\ targets[dest[c]] = c
    BY <1>1, UdpAssumption DEF UdpInv, NoOrphan, Live, Registered, TypeOK
  <2>2. f \in Injection(Live, Registered) BY <2>1 DEF Injection, IsInjective
  <2>3. IsFiniteSet(Registered) /\ Cardinality(Registered) \in Nat BY RegisteredFinite
  <2>4. IsFiniteSet(Live) /\ Cardinality(Live) <= Cardinality(Registered)
    BY <2>2, <2>3, FS_Injection
  <2>5. Cardinality(Live) \in Nat BY <2>4, FS_CardinalityType
  <2>6. Cardinality(Registered) <= MaxTargets BY <1>1 DEF UdpInv, RegisteredBounded
  <2> QED BY <2>3, <2>4, <2>5, <2>6, UdpAssumption, SMT DEF SocketsBounded
<1> QED BY <1>1, UdpInvariant, PTL

\* `close' leaves no socket, no creation and no task behind when it returns.
THEOREM CloseLeavesNothing == Spec => []LeavesNothing
<1>1. UdpInv => LeavesNothing BY DEF UdpInv, ClosingStages, LeavesNothing, Live
<1> QED BY <1>1, UdpInvariant, PTL

-----------------------------------------------------------------------------
\* What `targets' holds, and what packets wait for.

\* A place in `targets' is its destination's: of a socket that is open, or of a
\* creation whose packet waits for it and will give the place back if it fails.
Places ==
    \A d \in Dests : targets[d] # None =>
        /\ dest[targets[d]] = d
        /\ create[targets[d]] # "none"
        /\ create[targets[d]] = "cancelled" => closed
        /\ create[targets[d]] = "ready" => socket[targets[d]] = "open"
        /\ create[targets[d]] \in {"running", "failed"} /\ ~closed =>
              task[targets[d]] = "waiting" /\ via[targets[d]] = targets[d]

\* A packet waits for a creation for its own destination that runs or has ended by
\* itself, and whose socket nobody takes away meanwhile.
Waiters ==
    /\ closed => Tasks = {}
    /\ \A p \in Packets : task[p] = "waiting" =>
          /\ via[p] \in Packets
          /\ dest[via[p]] = dest[p]
          /\ create[via[p]] \in {"running", "ready", "failed"}
          /\ create[via[p]] = "ready" => socket[via[p]] = "open" /\ via[p] \notin idle

PlacesInv == UdpInv /\ Places /\ Waiters

LEMMA UsePlaces ==
    ASSUME PlacesInv, NEW p \in Packets, NEW c \in Packets, Use(p, c),
           dest[c] = dest[p],
           \/ task[p] = "new"
           \/ task[p] = "waiting" /\ via[p] = c,
           UNCHANGED <<closed, dest, via, create, socket>>
    PROVE  Places' /\ Waiters'
<1> USE DEF PlacesInv
<1>1. TypeOK BY DEF UdpInv
<1>2. task' = [task EXCEPT ![p] = "done"] /\ idle' \subseteq idle
      /\ \/ create[c] = "ready" /\ UNCHANGED targets
         \/ /\ create[c] = "failed"
            /\ targets' = [targets EXCEPT ![dest[p]] = IF @ = c THEN None ELSE @]
  BY DEF Use
<1>3. ~closed
  <2>1. p \in Tasks BY DEF Tasks
  <2> QED BY <2>1 DEF Waiters
<1>4. Waiters'
  <2>1. \A q \in Packets : task'[q] = "waiting" => task[q] = "waiting" BY <1>1, <1>2 DEF TypeOK
  <2> QED BY <1>2, <1>3, <2>1 DEF Waiters
<1>5. \A d \in Dests : targets'[d] # None => targets'[d] = targets[d]
  BY <1>1, <1>2 DEF TypeOK
<1>6. ASSUME NEW d \in Dests, targets'[d] # None, targets[d] = p,
             create[p] \in {"running", "failed"}
      PROVE  FALSE
  <2>1. task[p] = "waiting" /\ via[p] = p /\ dest[p] = d
    BY <1>3, <1>5, <1>6 DEF Places
  <2>2. c = p BY <2>1
  <2>3. targets' = [targets EXCEPT ![d] = IF @ = p THEN None ELSE @]
    BY <1>2, <1>6, <2>1, <2>2
  <2> QED BY <1>1, <1>6, <2>3 DEF TypeOK
<1>7. Places'
  <2> SUFFICES ASSUME NEW d \in Dests, targets'[d] # None
               PROVE  /\ dest[targets'[d]] = d
                      /\ create[targets'[d]] # "none"
                      /\ create[targets'[d]] = "cancelled" => closed
                      /\ create[targets'[d]] = "ready" => socket[targets'[d]] = "open"
                      /\ create[targets'[d]] \in {"running", "failed"} /\ ~closed =>
                            /\ task'[targets'[d]] = "waiting"
                            /\ via[targets'[d]] = targets'[d]
    BY DEF Places
  <2>1. targets'[d] = targets[d] /\ targets[d] \in Packets BY <1>1, <1>5 DEF TypeOK
  <2>2. create[targets[d]] \in {"running", "failed"} => targets[d] # p
    BY <1>6, <2>1
  <2>3. targets[d] # p => task'[targets[d]] = task[targets[d]] BY <1>1, <1>2, <2>1 DEF TypeOK
  <2> QED BY <2>1, <2>2, <2>3 DEF Places
<1> QED BY <1>4, <1>7

LEMMA ForwardPlaces ==
    ASSUME PlacesInv, NEW p \in Packets, Forward(p)
    PROVE  Places' /\ Waiters'
<1> USE DEF PlacesInv
<1> DEFINE c == targets[dest[p]]
<1>1. TypeOK BY DEF UdpInv
<1>2. task[p] = "new" /\ UNCHANGED <<control, closed, dest>> /\ dest[p] \in Dests
      /\ c \in Packets \cup {None} /\ None \notin Packets
  BY <1>1, UdpAssumption DEF Forward, TypeOK
<1>3. ~closed
  <2>1. p \in Tasks BY <1>2 DEF Tasks
  <2> QED BY <2>1 DEF Waiters
<1>4. CASE c = None /\ StartTarget(p)
  <2>1. /\ task' = [task EXCEPT ![p] = "waiting"] /\ via' = [via EXCEPT ![p] = p]
        /\ create' = [create EXCEPT ![p] = "running"]
        /\ targets' = [targets EXCEPT ![dest[p]] = p]
        /\ UNCHANGED <<socket, idle>>
    BY <1>4 DEF StartTarget
  <2>2. \A d \in Dests \ {dest[p]} : targets[d] # None => targets[d] # p
    BY <1>2 DEF Places
  <2>3. Places'
    <3>1. ASSUME NEW d \in Dests, d # dest[p], targets[d] # None
          PROVE  /\ targets'[d] = targets[d] /\ targets[d] \in Packets /\ targets[d] # p
                 /\ task'[targets[d]] = task[targets[d]]
                 /\ via'[targets[d]] = via[targets[d]]
                 /\ create'[targets[d]] = create[targets[d]]
      BY <1>1, <2>1, <2>2, <3>1 DEF TypeOK
    <3>2. targets'[dest[p]] = p /\ task'[p] = "waiting" /\ via'[p] = p
          /\ create'[p] = "running"
      BY <1>1, <1>2, <2>1 DEF TypeOK
    <3>3. \A d \in Dests : d # dest[p] /\ targets'[d] # None => targets[d] # None
      BY <1>1, <2>1 DEF TypeOK
    <3> QED BY <1>2, <2>1, <3>1, <3>2, <3>3 DEF Places
  <2>4. Waiters'
    <3>1. ASSUME NEW q \in Packets, q # p, task'[q] = "waiting"
          PROVE  task[q] = "waiting" /\ via'[q] = via[q]
                 /\ create'[via[q]] \in {create[via[q]], "running"}
      BY <1>1, <2>1, <3>1 DEF TypeOK
    <3>2. via'[p] = p /\ create'[p] = "running" BY <1>1, <2>1 DEF TypeOK
    <3> QED BY <1>2, <1>3, <2>1, <3>1, <3>2 DEF Waiters
  <2> QED BY <2>3, <2>4
<1>5. CASE task' = [task EXCEPT ![p] = "done"] /\ UNCHANGED <<via, targetVars>>
  <2>1. \A q \in Packets : task'[q] = "waiting" => task[q] = "waiting"
    BY <1>1, <1>5 DEF TypeOK
  <2>2. \A q \in Packets : task[q] = "waiting" => task'[q] = "waiting"
    BY <1>1, <1>2, <1>5 DEF TypeOK
  <2>3. Places' BY <1>1, <1>2, <1>5, <2>2 DEF Places, targetVars, TypeOK
  <2>4. Waiters' BY <1>2, <1>3, <1>5, <2>1 DEF Waiters, targetVars
  <2> QED BY <2>3, <2>4
<1>6. CASE /\ c # None /\ create[c] = "running"
           /\ task' = [task EXCEPT ![p] = "waiting"] /\ via' = [via EXCEPT ![p] = c]
           /\ UNCHANGED targetVars
  <2>1. c \in Packets /\ dest[c] = dest[p] BY <1>2, <1>6 DEF Places
  <2>2. task[c] = "waiting" /\ c # p BY <1>2, <1>3, <1>6 DEF Places
  <2>3. \A q \in Packets \ {p} : task'[q] = task[q] /\ via'[q] = via[q]
    BY <1>1, <1>6 DEF TypeOK
  <2>4. task'[p] = "waiting" /\ via'[p] = c BY <1>1, <1>6 DEF TypeOK
  <2>5. Waiters' BY <1>2, <1>3, <1>6, <2>1, <2>3, <2>4 DEF Waiters, targetVars
  <2>6. \A d \in Dests : targets[d] # None /\ create[targets[d]] \in {"running", "failed"}
           => targets[d] # p
    BY <1>2, <1>3 DEF Places
  <2>7. Places'
    BY <1>1, <1>2, <1>6, <2>3, <2>6 DEF Places, targetVars, TypeOK
  <2> QED BY <2>5, <2>7
<1>7. CASE c # None /\ Use(p, c) /\ UNCHANGED <<via, create, socket>>
  <2>1. c \in Packets /\ dest[c] = dest[p] BY <1>2, <1>7 DEF Places
  <2> QED BY <1>2, <1>7, <2>1, UsePlaces
<1> QED BY <1>4, <1>5, <1>6, <1>7 DEF Forward

LEMMA ResumePlaces ==
    ASSUME PlacesInv, NEW p \in Packets, Resume(p)
    PROVE  Places' /\ Waiters'
<1>1. via[p] \in Packets /\ dest[via[p]] = dest[p] BY DEF PlacesInv, Waiters, Resume
<1> QED BY <1>1, UsePlaces DEF Resume

LEMMA CreationPlaces ==
    ASSUME PlacesInv, NEW c \in Packets,
           Created(c) \/ CreateFails(c) \/ Respond(c) \/ Idle(c)
    PROVE  Places' /\ Waiters'
<1> USE DEF PlacesInv
<1>1. TypeOK /\ SocketStages BY DEF UdpInv
<1>2. UNCHANGED <<closed, task, dest, via, targets>> /\ Tasks' = Tasks
  BY DEF Created, CreateFails, Respond, Idle, taskVars, Tasks
<1>3. CASE Created(c)
  <2>1. create[c] = "running" /\ create' = [create EXCEPT ![c] = "ready"]
        /\ socket' = [socket EXCEPT ![c] = "open"] /\ idle' = idle
    BY <1>3 DEF Created
  <2>2. c \notin idle BY <1>1, <2>1 DEF SocketStages
  <2>3. Places' BY <1>1, <1>2, <2>1 DEF Places, TypeOK
  <2>4. Waiters' BY <1>1, <1>2, <2>1, <2>2 DEF Waiters, TypeOK
  <2> QED BY <2>3, <2>4
<1>4. CASE CreateFails(c)
  <2>1. create[c] = "running" /\ create' = [create EXCEPT ![c] = "failed"]
        /\ UNCHANGED <<socket, idle>>
    BY <1>4 DEF CreateFails
  <2>2. Places' BY <1>1, <1>2, <2>1 DEF Places, TypeOK
  <2>3. Waiters' BY <1>1, <1>2, <2>1 DEF Waiters, TypeOK
  <2> QED BY <2>2, <2>3
<1>5. CASE Respond(c) \/ Idle(c)
  <2>1. UNCHANGED <<create, socket>> BY <1>5 DEF Respond, Idle
  <2>2. \A p \in Packets : task[p] = "waiting" /\ via[p] \in idle' => via[p] \in idle
    <3>1. \A p \in Packets : task[p] = "waiting" => p \in Tasks BY DEF Tasks
    <3> QED BY <1>5, <3>1 DEF Respond, Idle
  <2>3. Places' BY <1>2, <2>1 DEF Places
  <2>4. Waiters' BY <1>2, <2>1, <2>2 DEF Waiters
  <2> QED BY <2>3, <2>4
<1> QED BY <1>3, <1>4, <1>5

LEMMA ReapPlaces ==
    ASSUME PlacesInv, Reap
    PROVE  Places' /\ Waiters'
<1> USE DEF PlacesInv
<1> DEFINE old == {c \in idle : \E d \in Dests : targets[d] = c}
<1>1. /\ targets' = [d \in Dests |-> IF targets[d] \in old THEN None ELSE targets[d]]
      /\ socket' = [c \in Packets |-> IF c \in old THEN "closed" ELSE socket[c]]
      /\ idle' = idle \ old /\ old \subseteq idle
      /\ UNCHANGED <<closed, task, dest, via, create>>
  BY DEF Reap, taskVars
<1> HIDE DEF old
<1>2. TypeOK BY DEF UdpInv
<1>3. Places' BY <1>1, <1>2 DEF Places, TypeOK
<1>4. Waiters' BY <1>1, <1>2 DEF Waiters, Tasks
<1> QED BY <1>3, <1>4

LEMMA ClosePlaces ==
    ASSUME PlacesInv, Close \/ Release
    PROVE  Places' /\ Waiters'
<1> USE DEF PlacesInv
<1>1. TypeOK /\ ClosingStages BY DEF UdpInv
<1>2. CASE Close
  <2>1. /\ closed' = TRUE /\ UNCHANGED <<dest, via, socket, targets, idle>>
        /\ task' = [p \in Packets |-> IF p \in Tasks THEN "done" ELSE task[p]]
        /\ \A c \in Packets : create'[c] = create[c] \/ create'[c] = "cancelled"
    BY <1>2 DEF Close
  <2>2. Tasks' = {} BY <2>1 DEF Tasks
  <2>3. Waiters' BY <2>2 DEF Waiters, Tasks
  <2>4. Places' BY <1>1, <2>1 DEF Places, TypeOK
  <2> QED BY <2>3, <2>4
<1>3. CASE Release
  <2>1. targets' = [d \in Dests |-> None] /\ UNCHANGED <<closed, task>> /\ Tasks = {}
    BY <1>1, <1>3 DEF Release, ClosingStages, taskVars
  <2>2. Tasks' = {} BY <2>1 DEF Tasks
  <2>3. Waiters' BY <2>2 DEF Waiters, Tasks
  <2>4. Places' BY <2>1 DEF Places
  <2> QED BY <2>3, <2>4
<1> QED BY <1>2, <1>3

LEMMA QuietPlaces ==
    ASSUME PlacesInv, EndControl \/ Abandon \/ UNCHANGED vars \/ \E p \in Packets : Receive(p)
    PROVE  Places' /\ Waiters'
<1> USE DEF PlacesInv
<1>1. TypeOK BY DEF UdpInv
<1>2. UNCHANGED <<closed, dest, via, create, socket, targets, idle>>
  BY DEF EndControl, Abandon, vars, Receive, taskVars, targetVars
<1>3. CASE task' = task BY <1>2, <1>3 DEF Places, Waiters, Tasks
<1>4. ASSUME NEW p \in Packets, Receive(p)
      PROVE  Places' /\ Waiters'
  <2>1. task[p] = "unsent" /\ ~closed /\ task' = [task EXCEPT ![p] = "new"]
    BY <1>4 DEF Receive
  <2>2. \A q \in Packets : task'[q] = "waiting" <=> task[q] = "waiting"
    BY <1>1, <2>1 DEF TypeOK
  <2>3. \A d \in Dests : targets[d] # None => targets[d] \in Packets BY <1>1 DEF TypeOK
  <2>4. Places' BY <1>2, <2>2, <2>3 DEF Places
  <2>5. Waiters' BY <1>2, <2>1, <2>2 DEF Waiters
  <2> QED BY <2>4, <2>5
<1> QED BY <1>3, <1>4 DEF EndControl, Abandon, vars, taskVars

LEMMA PlacesInvariant == Spec => []PlacesInv
<1>1. Init => Places /\ Waiters BY DEF Init, Places, Waiters, Tasks
<1>2. PlacesInv /\ [Next]_vars => PlacesInv'
  BY UdpStep, ForwardPlaces, ResumePlaces, CreationPlaces, ReapPlaces, ClosePlaces,
     QuietPlaces DEF Next, Step, PlacesInv
<1> QED BY <1>1, <1>2, UdpInit, PTL DEF Spec, PlacesInv

\* The converse of NoOrphan: no place of an association that is not being closed is
\* lost to a socket that is gone.
PlacesAreUsed ==
    ~closed => \A d \in Registered :
        \/ targets[d] \in Live
        \/ /\ create[targets[d]] = "failed"
           /\ task[targets[d]] = "waiting" /\ via[targets[d]] = targets[d]

\* MAX_UDP_TARGETS is never used up by what no longer exists: each place is that of
\* a socket, or of a failed creation that its own packet is about to take out.
THEOREM PlacesComeBack == Spec => []PlacesAreUsed
<1>1. PlacesInv => PlacesAreUsed
  <2> SUFFICES ASSUME PlacesInv, ~closed, NEW d \in Registered
               PROVE  \/ targets[d] \in Live
                      \/ /\ create[targets[d]] = "failed"
                         /\ task[targets[d]] = "waiting" /\ via[targets[d]] = targets[d]
    BY DEF PlacesAreUsed
  <2>1. d \in Dests /\ targets[d] \in Packets
    BY DEF Registered, PlacesInv, UdpInv, TypeOK
  <2>2. create[targets[d]] \in {"running", "ready", "failed"}
    BY <2>1 DEF PlacesInv, Places, UdpInv, TypeOK, Registered
  <2> QED BY <2>1, <2>2 DEF PlacesInv, Places, Live, Registered
<1> QED BY <1>1, PlacesInvariant, PTL

\* No packet waits for what cannot end.
NoTaskStranded ==
    \A p \in Packets : task[p] = "waiting" =>
        dest[via[p]] = dest[p] /\ create[via[p]] \in {"running", "ready", "failed"}

\* A packet that waits for another packet's creation waits for one to its own
\* destination that still runs or has ended, never for one that `close' cancelled:
\* what TasksEnd rests on.
THEOREM WaitersAreServed == Spec => []NoTaskStranded
<1>1. PlacesInv => NoTaskStranded BY DEF PlacesInv, Waiters, NoTaskStranded
<1> QED BY <1>1, PlacesInvariant, PTL

\* When `forward' counts a packet, a socket that was made for the packet's own
\* destination is open.
CountedOnItsSocket ==
    [][\A p \in counted' \ counted :
          \E c \in Packets : dest[c] = dest[p] /\ socket[c] = "open"]_vars

\* A packet is only ever counted while a socket to its own destination is open,
\* though other packets, the reaper and `close' act between its arrival, its wait
\* and its turn.
THEOREM CountedOnOpenSocket == Spec => CountedOnItsSocket
<1>1. ASSUME PlacesInv, [Next]_vars, NEW p \in counted' \ counted
      PROVE  \E c \in Packets : dest[c] = dest[p] /\ socket[c] = "open"
  <2> USE <1>1 DEF PlacesInv
  <2>1. ASSUME NEW q \in Packets, NEW c \in Packets, Use(q, c), dest[c] = dest[q],
               create[c] = "ready" => socket[c] = "open"
        PROVE  \E b \in Packets : dest[b] = dest[p] /\ socket[b] = "open"
    BY <1>1, <2>1 DEF Use, historyVars
  <2>2. CASE \E q \in Packets : Forward(q)
    <3>1. PICK q \in Packets : Forward(q) BY <2>2
    <3>2. dest[q] \in Dests BY DEF UdpInv, TypeOK
    <3>3. targets[dest[q]] # None /\ Use(q, targets[dest[q]])
      BY <1>1, <3>1 DEF Forward, StartTarget, historyVars
    <3>4. targets[dest[q]] \in Packets BY <3>2, <3>3 DEF UdpInv, TypeOK
    <3> QED BY <2>1, <3>2, <3>3, <3>4 DEF Places
  <2>3. CASE \E q \in Packets : Resume(q)
    <3>1. PICK q \in Packets : Resume(q) BY <2>3
    <3>2. task[q] = "waiting" /\ Use(q, via[q]) BY <3>1 DEF Resume
    <3> QED BY <2>1, <3>2 DEF Waiters
  <2>4. CASE ~\E q \in Packets : Forward(q) \/ Resume(q)
    <3>1. counted' = counted
      BY <1>1, <2>4 DEF Next, Step, Receive, Created, CreateFails, Respond, Idle, Reap,
         EndControl, Close, Release, Abandon, vars, historyVars
    <3> QED BY <1>1, <3>1
  <2> QED BY <2>2, <2>3, <2>4
<1>2. PlacesInv /\ [Next]_vars
      => [\A p \in counted' \ counted :
             \E c \in Packets : dest[c] = dest[p] /\ socket[c] = "open"]_vars
  BY <1>1
<1> QED BY <1>2, PlacesInvariant, PTL DEF Spec, CountedOnItsSocket
=============================================================================
