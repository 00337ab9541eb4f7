----------------------------- MODULE GateProofs -----------------------------
(***************************************************************************)
(* Proofs about Gate for every value of its constants.                     *)
(***************************************************************************)
EXTENDS Gate, Integers, TLAPS

-----------------------------------------------------------------------------
\* The inductive invariant.

\* Time from the start of a round to a stage of it, at most.
Elapsed(s) ==
    CASE s = "heartbeat" -> 0
      [] s = "config"    -> DbTimeout
      [] s = "firewall"  -> DbTimeout
      [] s = "rules"     -> DbTimeout + Timeout
      [] s = "open"      -> DbTimeout + 3 * Timeout
      [] s = "ping"      -> DbTimeout + 3 * Timeout + OpenTimeout
      [] s = "refresh"   -> DbTimeout + 5 * Timeout + OpenTimeout
      [] OTHER           -> 0

\* What a round has established so far is no older than the round.
RoundEvidence ==
    activate =>
        /\ pc \in {"config", "firewall", "rules", "open", "ping", "refresh"} =>
              age["heartbeat"] <= Heartbeat - 1 + Elapsed(pc) + timer
        /\ pc \in {"firewall", "rules", "open", "ping", "refresh"} =>
              age["config"] <= Elapsed(pc) - DbTimeout + timer
        /\ pc \in {"rules", "open", "ping", "refresh"} =>
              age["firewall"] <= Elapsed(pc) - DbTimeout + timer
        /\ pc = "ping" => \A p \in Paths \ waiting : age[p] <= timer
        /\ pc = "refresh" => \A p \in Paths : age[p] <= 2 * Timeout + timer

\* The stages a shadow watchdog never reaches.
ShadowStages ==
    ~activate => ttl = 0 /\ pc \notin {"config", "firewall", "rules", "refresh", "clear"}

GateInv ==
    /\ TypeOK
    /\ RedirectRestsOnEvidence
    /\ RoundEvidence
    /\ ShadowStages

-----------------------------------------------------------------------------
\* Every await has a finite limit.
LEMMA LimitIsNat ==
    ASSUME NEW s
    PROVE  Limit(s) \in Nat
BY GateAssumption DEF Limit, Commands

\* Type correctness: every step keeps each variable in the set it ranges over
\* and never lets an await outlive its limit.
LEMMA TypeInit == Init => TypeOK
<1> SUFFICES ASSUME Init PROVE TypeOK
    OBVIOUS
<1> USE GateAssumption, LimitIsNat DEF Init
<1>1. /\ activate \in BOOLEAN /\ protect \in BOOLEAN
      /\ opened \in BOOLEAN /\ applied \in BOOLEAN /\ stop \in BOOLEAN
    OBVIOUS
<1>2. pc \in Stages /\ timer \in Nat /\ timer <= Limit(pc)
    BY DEF Stages, Round
<1>3. /\ live \subseteq Paths /\ waiting \subseteq Paths
      /\ state \in {"fallback", "shadow", "active", "healthy"}
    BY DEF Default
<1>4. /\ ttl \in 0..TTL /\ faults \in 0..MaxFaults
      /\ bad \subseteq Facts /\ age \in [Facts -> Nat]
    OBVIOUS
<1>5. status \in [state : {"none", "fallback", "shadow", "active", "healthy"},
                  age : Nat]
    OBVIOUS
<1> QED BY <1>1, <1>2, <1>3, <1>4, <1>5 DEF TypeOK

\* The Boolean variables, apart from the rest: SMT handles the one kind badly,
\* Zenon the other.
LEMMA FlagStep ==
    ASSUME TypeOK, [Next]_vars
    PROVE  /\ activate' \in BOOLEAN /\ protect' \in BOOLEAN
           /\ opened' \in BOOLEAN /\ applied' \in BOOLEAN /\ stop' \in BOOLEAN
<1> USE DEF TypeOK, Unhealthy, CloseProbes, envVars, options
<1>1. activate' \in BOOLEAN /\ protect' \in BOOLEAN /\ stop' \in BOOLEAN
    BY Zenon DEF Next, Watchdog, CheckHeartbeat, CheckConfig, CheckFirewall,
       CheckRules, OpenProbe, Opened, Ping, Pinged, CheckFails, Apply, Refreshed,
       RefreshFails, Cleared, WriteStatus, Wait, UncaughtError, Final, Closed,
       Kill, Crash, Restart, Stop, Break, Repair, Tick, vars
<1>2. opened' \in BOOLEAN
    BY Zenon DEF Next, Watchdog, CheckHeartbeat, CheckConfig, CheckFirewall,
       CheckRules, OpenProbe, Opened, Ping, Pinged, CheckFails, Apply, Refreshed,
       RefreshFails, Cleared, WriteStatus, Wait, UncaughtError, Final, Closed,
       Kill, Crash, Restart, Stop, Break, Repair, Tick, vars, watchdogVars
<1>3. applied' \in BOOLEAN
    BY Zenon DEF Next, Watchdog, CheckHeartbeat, CheckConfig, CheckFirewall,
       CheckRules, OpenProbe, Opened, Ping, Pinged, CheckFails, Apply, Refreshed,
       RefreshFails, Cleared, WriteStatus, Wait, UncaughtError, Final, Closed,
       Kill, Crash, Restart, Stop, Break, Repair, Tick, vars, watchdogVars
<1> QED BY <1>1, <1>2, <1>3

LEMMA TypeStep == TypeOK /\ [Next]_vars => TypeOK'
<1> DEFINE Ranges ==
      /\ pc \in Stages /\ timer \in Nat /\ timer <= Limit(pc)
      /\ live \subseteq Paths /\ waiting \subseteq Paths
      /\ state \in {"fallback", "shadow", "active", "healthy"}
      /\ ttl \in 0..TTL
      /\ status \in [state : {"none", "fallback", "shadow", "active", "healthy"},
                     age : Nat]
      /\ bad \subseteq Facts /\ age \in [Facts -> Nat]
      /\ faults \in 0..MaxFaults
<1> SUFFICES ASSUME TypeOK, [Next]_vars PROVE Ranges'
    BY FlagStep DEF TypeOK
<1> USE GateAssumption, LimitIsNat DEF TypeOK, Enter, Fault, MayFail, AfterChecks,
        CloseProbes, Unhealthy, Default, Stages, Round, Commands, options, envVars
<1>1. CASE CheckHeartbeat BY <1>1 DEF CheckHeartbeat
<1>2. CASE CheckConfig BY <1>2 DEF CheckConfig
<1>3. CASE CheckFirewall BY <1>3 DEF CheckFirewall
<1>4. CASE CheckRules BY <1>4 DEF CheckRules
<1>5. ASSUME NEW p \in Paths, OpenProbe(p) PROVE Ranges'
    BY <1>5 DEF OpenProbe
<1>6. CASE Opened BY <1>6 DEF Opened
<1>7. ASSUME NEW p \in Paths, Ping(p) PROVE Ranges'
    BY <1>7 DEF Ping
<1>8. CASE Pinged BY <1>8 DEF Pinged
<1>9. CASE CheckFails BY <1>9 DEF CheckFails
<1>10. CASE Apply BY <1>10 DEF Apply
<1>11. CASE Refreshed BY <1>11 DEF Refreshed
<1>12. CASE RefreshFails BY <1>12 DEF RefreshFails
<1>13. CASE Cleared BY <1>13 DEF Cleared
<1>14. CASE WriteStatus BY <1>14 DEF WriteStatus
<1>15. CASE Wait BY <1>15 DEF Wait
<1>16. CASE UncaughtError BY <1>16 DEF UncaughtError
<1>17. CASE Final BY <1>17 DEF Final
<1>18. CASE Crash BY <1>18 DEF Crash, Terminated
<1>25. CASE Closed \/ Kill BY <1>25 DEF Closed, Kill, Terminated
<1>19. CASE Restart BY <1>19 DEF Restart
<1>20. CASE Stop BY <1>20 DEF Stop
<1>21. ASSUME NEW f \in Facts, Break(f) PROVE Ranges'
    BY <1>21 DEF Break
<1>22. ASSUME NEW f \in Facts, Repair(f) PROVE Ranges'
    BY <1>22 DEF Repair, watchdogVars
<1>23. CASE Tick
  <2>1. age' \in [Facts -> Nat]
    BY <1>23, SMT DEF Tick, Older
  <2>2. ttl' \in 0..TTL
    BY <1>23, SMT DEF Tick, Expire
  <2>3. timer' \in Nat /\ timer' <= Limit(pc')
    BY <1>23, SMT DEF Tick
  <2> QED BY <1>23, <2>1, <2>2, <2>3, SMT DEF Tick
<1>24. CASE UNCHANGED vars BY <1>24 DEF vars, watchdogVars
<1> QED
    BY <1>1, <1>2, <1>3, <1>4, <1>5, <1>6, <1>7, <1>8, <1>9, <1>10, <1>11, <1>12,
       <1>13, <1>14, <1>15, <1>16, <1>17, <1>18, <1>19, <1>20, <1>21, <1>22, <1>23,
       <1>24, <1>25 DEF Next, Watchdog

\* Every variable of the watchdog keeps its type, and no await outlives its limit.
THEOREM TypeCorrect == Spec => []TypeOK
BY TypeInit, TypeStep, PTL DEF Spec

-----------------------------------------------------------------------------
\* Shadow mode.

\* The command line does not change while the service runs.
LEMMA OptionsStep ==
    ASSUME [Next]_vars
    PROVE  activate' = activate /\ protect' = protect
BY Zenon DEF Next, Watchdog, CheckHeartbeat, CheckConfig, CheckFirewall,
   CheckRules, OpenProbe, Opened, Ping, Pinged, CheckFails, Apply, Refreshed,
   RefreshFails, Cleared, WriteStatus, Wait, UncaughtError, Final, Closed, Kill,
   Crash, Restart, Stop, Break, Repair, Tick, vars, envVars, options

LEMMA ShadowStep == TypeOK /\ ShadowStages /\ [Next]_vars => ShadowStages'
<1> SUFFICES ASSUME TypeOK, ShadowStages, [Next]_vars, ~activate
             PROVE  ttl' = 0 /\ pc' \notin {"config", "firewall", "rules", "refresh", "clear"}
    BY OptionsStep DEF ShadowStages
<1> USE DEF ShadowStages, Enter, AfterChecks, Unhealthy, envVars, Commands
<1>1. CASE Watchdog
    BY <1>1 DEF Watchdog, CheckHeartbeat, CheckConfig, CheckFirewall, CheckRules,
       OpenProbe, Opened, Ping, Pinged, CheckFails, Apply, Refreshed, RefreshFails,
       Cleared, WriteStatus, Wait, UncaughtError, Final
<1>2. CASE Closed \/ Crash \/ Kill \/ Restart \/ Stop
    BY <1>2 DEF Closed, Crash, Kill, Restart, Stop, Terminated
<1>3. CASE \E f \in Facts : Break(f) \/ Repair(f)
    BY <1>3 DEF Break, Repair, watchdogVars
<1>4. CASE Tick
    BY <1>4 DEF Tick, Expire
<1>5. CASE UNCHANGED vars
    BY <1>5 DEF vars, watchdogVars
<1> QED BY <1>1, <1>2, <1>3, <1>4, <1>5 DEF Next

\* A shadow watchdog never redirects, whatever fails.
THEOREM ShadowSafe == Spec => []ShadowNeverRedirects
<1>1. Init => ShadowStages
    BY DEF Init, ShadowStages
<1>2. ShadowStages => ShadowNeverRedirects
    BY DEF ShadowStages, ShadowNeverRedirects, Redirecting
<1> QED BY <1>1, <1>2, TypeCorrect, ShadowStep, PTL DEF Spec

-----------------------------------------------------------------------------
\* The evidence collected by a round.

\* A Tick inside a round makes the current await and the evidence older together.
LEMMA EvidenceTick ==
    ASSUME TypeOK, RoundEvidence, Tick
    PROVE  RoundEvidence'
<1>0. activate' = activate
    BY Zenon DEF Tick, options
<1> SUFFICES ASSUME activate PROVE RoundEvidence'
    BY <1>0, Zenon DEF RoundEvidence
<1>1. pc' = pc /\ waiting' = waiting
    BY DEF Tick
<1>2. \A f \in Facts : age'[f] <= age[f] + 1
    BY SMT DEF Tick, TypeOK, Older
<1>3. CASE pc \in Round \cup {"refresh"}
  <2>1. timer' = timer + 1
    BY <1>3, LimitIsNat, SMT DEF Tick, Ready, TypeOK, Round
  <2>2. \A f \in Facts : age[f] \in Nat /\ age'[f] \in Nat
      BY SMT DEF Tick, TypeOK, Older, AgeCap
  <2>3. Elapsed(pc) \in Nat /\ timer \in Nat
      BY GateAssumption, SMT DEF Elapsed, TypeOK
  <2>5. pc \in {"config", "firewall", "rules", "open", "ping", "refresh"} =>
          age'["heartbeat"] <= Heartbeat - 1 + Elapsed(pc) + timer'
      BY <1>2, <2>1, <2>2, <2>3, GateAssumption, SMT DEF RoundEvidence, Facts
  <2>6. pc \in {"firewall", "rules", "open", "ping", "refresh"} =>
          age'["config"] <= Elapsed(pc) - DbTimeout + timer'
      BY <1>2, <2>1, <2>2, <2>3, GateAssumption, SMT DEF RoundEvidence, Facts
  <2>7. pc \in {"rules", "open", "ping", "refresh"} =>
          age'["firewall"] <= Elapsed(pc) - DbTimeout + timer'
      BY <1>2, <2>1, <2>2, <2>3, GateAssumption, SMT DEF RoundEvidence, Facts
  <2>8. ASSUME pc = "ping", NEW p \in Paths \ waiting
        PROVE  age'[p] <= timer'
    <3>1. age[p] <= timer
        BY <2>8 DEF RoundEvidence
    <3>2. p \in Facts
        BY DEF Facts
    <3> QED BY <1>2, <2>1, <2>2, <2>3, <3>1, <3>2, SMT
  <2>9. ASSUME pc = "refresh", NEW p \in Paths
        PROVE  age'[p] <= 2 * Timeout + timer'
    <3>1. age[p] <= 2 * Timeout + timer
        BY <2>9 DEF RoundEvidence
    <3>2. p \in Facts /\ Timeout \in Nat
        BY GateAssumption DEF Facts
    <3> QED BY <1>2, <2>1, <2>2, <2>3, <3>1, <3>2, SMT
  <2>10. Elapsed(pc)' = Elapsed(pc)
      BY <1>1 DEF Elapsed
  <2> QED
      BY <1>1, <2>5, <2>6, <2>7, <2>8, <2>9, <2>10, Zenon DEF RoundEvidence
<1>4. CASE pc \notin Round \cup {"refresh"}
    BY <1>1, <1>4 DEF RoundEvidence, Round
<1> QED BY <1>3, <1>4

LEMMA EvidenceStep ==
    ASSUME TypeOK, RoundEvidence, [Next]_vars
    PROVE  RoundEvidence'
<1> SUFFICES ASSUME activate PROVE RoundEvidence'
    BY OptionsStep DEF RoundEvidence
<1> USE GateAssumption
    DEF TypeOK, RoundEvidence, Elapsed, Limit, Enter, AfterChecks, Seen, Window,
        Unhealthy, envVars, Facts, Paths, Commands
<1>1. CASE CheckHeartbeat BY <1>1, SMT DEF CheckHeartbeat
<1>2. CASE CheckConfig BY <1>2, SMT DEF CheckConfig
<1>3. CASE CheckFirewall BY <1>3, SMT DEF CheckFirewall
<1>4. CASE CheckRules BY <1>4, SMT DEF CheckRules
<1>5. ASSUME NEW p \in Paths, OpenProbe(p) PROVE RoundEvidence'
    BY <1>5, SMT DEF OpenProbe
<1>6. CASE Opened BY <1>6, SMT DEF Opened
<1>7. ASSUME NEW p \in Paths, Ping(p) PROVE RoundEvidence'
    BY <1>7, SMT DEF Ping
<1>8. CASE Pinged BY <1>8, SMT DEF Pinged
<1>9. CASE CheckFails BY <1>9, SMT DEF CheckFails
<1>10. CASE Apply BY <1>10, SMT DEF Apply
<1>11. CASE Refreshed BY <1>11, SMT DEF Refreshed
<1>12. CASE RefreshFails BY <1>12, SMT DEF RefreshFails
<1>13. CASE Cleared BY <1>13, SMT DEF Cleared
<1>14. CASE WriteStatus BY <1>14, SMT DEF WriteStatus
<1>15. CASE Wait BY <1>15, SMT DEF Wait
<1>16. CASE UncaughtError BY <1>16, SMT DEF UncaughtError
<1>17. CASE Final BY <1>17, SMT DEF Final
<1>18. CASE Crash BY <1>18, SMT DEF Crash, Terminated
<1>25. CASE Closed \/ Kill BY <1>25, SMT DEF Closed, Kill, Terminated
<1>19. CASE Restart BY <1>19, SMT DEF Restart
<1>20. CASE Stop BY <1>20, SMT DEF Stop
<1>21. ASSUME NEW f \in Facts, Break(f) PROVE RoundEvidence'
    BY <1>21, SMT DEF Break, options
<1>22. ASSUME NEW f \in Facts, Repair(f) PROVE RoundEvidence'
    BY <1>22, SMT DEF Repair, watchdogVars, options
<1>23. CASE Tick BY <1>23, EvidenceTick
<1>24. CASE UNCHANGED vars BY <1>24, SMT DEF vars, watchdogVars, options
<1> QED
    BY <1>1, <1>2, <1>3, <1>4, <1>5, <1>6, <1>7, <1>8, <1>9, <1>10, <1>11, <1>12,
       <1>13, <1>14, <1>15, <1>16, <1>17, <1>18, <1>19, <1>20, <1>21, <1>22, <1>23,
       <1>24, <1>25 DEF Next, Watchdog

\* When the nft command that grants the redirect runs, every fact is recent.
LEMMA GrantEvidence ==
    ASSUME TypeOK, RoundEvidence, activate, pc = "refresh", NEW f \in Facts
    PROVE  age[f] <= GrantAge[f]
<1> USE GateAssumption
    DEF TypeOK, RoundEvidence, Elapsed, Limit, Facts, Paths, Commands, RoundTime
<1>1. CASE f = "heartbeat" BY <1>1, SMT DEF GrantAge
<1>2. CASE f \in {"config", "firewall"} BY <1>2, SMT DEF GrantAge
<1>3. CASE f \in Paths BY <1>3, SMT DEF GrantAge
<1> QED BY <1>1, <1>2, <1>3

-----------------------------------------------------------------------------
\* The redirect itself.

LEMMA BoundStep ==
    ASSUME TypeOK, RoundEvidence, ShadowStages, RedirectRestsOnEvidence,
           [Next]_vars
    PROVE  RedirectRestsOnEvidence'
<1> SUFFICES ASSUME ttl' > 0, NEW f \in Facts
             PROVE  age'[f] + ttl' <= GrantAge[f] + TTL
    BY DEF RedirectRestsOnEvidence, Redirect!LeaseBound
<1> USE GateAssumption DEF TypeOK
<1>1. GrantAge[f] \in Nat
    BY SMT DEF GrantAge, RoundTime, Facts
<1>2. ttl > 0 => age[f] + ttl <= GrantAge[f] + TTL
    BY DEF RedirectRestsOnEvidence, Redirect!LeaseBound
<1>3. CASE ttl' = TTL /\ pc = "refresh" /\ UNCHANGED age
    BY <1>1, <1>3, GrantEvidence, SMT DEF ShadowStages
<1>4. CASE ttl' = ttl /\ age' = age
    BY <1>2, <1>4
<1>5. CASE \E g \in Facts : Repair(g)
    BY <1>1, <1>2, <1>5, SMT DEF Repair
<1>6. CASE Tick
    BY <1>1, <1>2, <1>6, SMT DEF Tick, Expire, Older
<1>7. \/ ttl' = TTL /\ pc = "refresh" /\ UNCHANGED age
      \/ ttl' = ttl /\ age' = age
      \/ \E g \in Facts : Repair(g)
      \/ Tick
    BY SMT
       DEF Next, Watchdog, CheckHeartbeat, CheckConfig, CheckFirewall, CheckRules,
       OpenProbe, Opened, Ping, Pinged, CheckFails, Apply, Refreshed, RefreshFails,
       Cleared, WriteStatus, Wait, UncaughtError, Final, Closed, Kill, Crash,
       Restart, Stop, Break, vars, envVars
<1> QED BY <1>3, <1>4, <1>5, <1>6, <1>7

LEMMA GateInvariant == Spec => []GateInv
<1>1. Init => GateInv
  <2> SUFFICES ASSUME Init PROVE GateInv
      OBVIOUS
  <2>1. RedirectRestsOnEvidence
      BY DEF Init, RedirectRestsOnEvidence, Redirect!LeaseBound
  <2>2. RoundEvidence /\ ShadowStages
      BY DEF Init, RoundEvidence, ShadowStages
  <2> QED BY <2>1, <2>2, TypeInit DEF GateInv
<1>2. GateInv /\ [Next]_vars => GateInv'
    BY TypeStep, EvidenceStep, ShadowStep, BoundStep DEF GateInv
<1> QED BY <1>1, <1>2, PTL DEF Spec

\* For all delays: while new connections are redirected, no checked fact has
\* been failing for longer than a slow round plus the spent part of the element.
THEOREM EvidenceBound == Spec => []RedirectRestsOnEvidence
BY GateInvariant, PTL DEF GateInv

-----------------------------------------------------------------------------
\* Gate implements Lease.

LEMMA LeaseStep ==
    ASSUME GateInv, [Next]_vars
    PROVE  [Redirect!Next]_Redirect!leaseVars
<1> USE GateAssumption DEF GateInv, TypeOK, Redirect!leaseVars
<1>1. CASE ttl' = TTL /\ pc = "refresh" /\ UNCHANGED age
    BY <1>1, GrantEvidence DEF Redirect!Next, Redirect!Grant, ShadowStages
<1>2. CASE ttl' = 0 /\ UNCHANGED age
    BY <1>2 DEF Redirect!Next, Redirect!Release
<1>3. CASE UNCHANGED <<ttl, age>>
    BY <1>3
<1>4. ASSUME NEW f \in Facts, Repair(f)
      PROVE  [Redirect!Next]_Redirect!leaseVars
    BY <1>4 DEF Redirect!Next, Redirect!Renew, Repair
<1>5. CASE Tick
  <2>1. age' \in [Facts -> Nat] /\ \A f \in Facts : age'[f] <= age[f] + 1
      BY <1>5, SMT DEF Tick, Older
  <2>2. ttl' = IF ttl = 0 THEN 0 ELSE ttl - 1
      BY <1>5 DEF Tick, Expire
  <2> QED BY <2>1, <2>2 DEF Redirect!Next, Redirect!Tick
<1>6. \/ ttl' = TTL /\ pc = "refresh" /\ UNCHANGED age
      \/ ttl' = 0 /\ UNCHANGED age
      \/ UNCHANGED <<ttl, age>>
      \/ \E f \in Facts : Repair(f)
      \/ Tick
    BY SMT
       DEF Next, Watchdog, CheckHeartbeat, CheckConfig, CheckFirewall, CheckRules,
       OpenProbe, Opened, Ping, Pinged, CheckFails, Apply, Refreshed, RefreshFails,
       Cleared, WriteStatus, Wait, UncaughtError, Final, Closed, Kill, Crash,
       Restart, Stop, Break, vars, envVars
<1> QED BY <1>1, <1>2, <1>3, <1>4, <1>5, <1>6

\* The watchdog implements the abstract lease, for every value of the delays.
THEOREM Refinement == Spec => ImplementsLease
<1>1. Init => Redirect!Init
    BY DEF Init, Redirect!Init
<1>2. GateInv /\ [Next]_vars => [Redirect!Next]_Redirect!leaseVars
    BY LeaseStep
<1> QED BY <1>1, <1>2, GateInvariant, PTL DEF Spec, ImplementsLease, Redirect!Spec

-----------------------------------------------------------------------------
\* What the status file says, and what becomes of the redirect when the
\* watchdog is not there.

\* What a step can do to the redirect, the status file and the stage.
LEMMA StatusFrame ==
    ASSUME TypeOK, [Next]_vars
    PROVE  \/ WriteStatus
           \/ Tick
           \/ Apply
           \/ status'.state = "none" /\ ttl' \in {0, ttl, TTL} /\ timer' = 0
           \/ /\ status' = status /\ ttl' \in {0, ttl}
              /\ pc' # pc => timer' = 0
              /\ pc \in {"refresh", "clear", "status", "final"} =>
                 \/ pc' \in {"refresh", "clear", "status", "final"}
                 \/ pc = "final" /\ pc' = "closing"
              /\ pc = "closing" => pc' = "closing"
              /\ pc' = pc => timer' \in {0, timer}
BY SMT
   DEF TypeOK, Next, Watchdog, CheckHeartbeat, CheckConfig, CheckFirewall,
   CheckRules, OpenProbe, Opened, Ping, Pinged, CheckFails, Refreshed,
   RefreshFails, Cleared, Wait, UncaughtError, Final, Closed, Kill, Crash,
   Restart, Stop, Break, Repair, vars, envVars, watchdogVars, Enter,
   AfterChecks, Unhealthy, Terminated, Stages, Round, Commands

\* Only the kernel's side of an nft command sets `applied'.
LEMMA AppliedFrame ==
    ASSUME [Next]_vars, ~Apply
    PROVE  applied' => applied
BY Zenon
   DEF Next, Watchdog, CheckHeartbeat, CheckConfig, CheckFirewall, CheckRules,
   OpenProbe, Opened, Ping, Pinged, CheckFails, Refreshed, RefreshFails, Cleared,
   WriteStatus, Wait, UncaughtError, Final, Closed, Kill, Crash, Restart, Stop,
   Break, Repair, Tick, vars, envVars, watchdogVars, Enter, AfterChecks,
   Unhealthy, Terminated

\* A clear that took effect left nothing to redirect, up to the status it
\* leads to, or the end of the process.
ClearedStages ==
    /\ pc = "final" /\ applied => ~Redirecting
    /\ pc = "clear" /\ applied => ~Redirecting
    /\ pc = "status" /\ state = "fallback" /\ applied => ~Redirecting

\* How a step comes to, or stays in, the three stages.
LEMMA ClearedFrame ==
    ASSUME TypeOK, [Next]_vars, ~Apply
    PROVE  /\ pc' = "clear" => pc = "clear" \/ ~applied'
           /\ pc' = "final" => pc = "final" \/ ~applied'
           /\ pc' = "status" /\ state' = "fallback" =>
                 \/ pc = "status" /\ state = "fallback"
                 \/ pc = "clear"
                 \/ ~applied'
           /\ ttl' > 0 => ttl > 0 \/ pc' \in {"down", "exited"}
<1> USE GateAssumption DEF TypeOK
<1>1. CASE Tick BY <1>1, SMT DEF Tick, Expire
<1>2. CASE Crash BY <1>2, SMT DEF Crash, Terminated, Enter
<1>3. CASE UNCHANGED vars BY <1>3 DEF vars, watchdogVars, envVars, options
<1>4. CASE ~Tick /\ ~Crash /\ Next
  <2>1. /\ pc' = "clear" => pc = "clear" \/ ~applied'
        /\ pc' = "final" => pc = "final" \/ ~applied'
    BY <1>4, SMT
       DEF Next, Watchdog, CheckHeartbeat, CheckConfig, CheckFirewall, CheckRules,
       OpenProbe, Opened, Ping, Pinged, CheckFails, Refreshed, RefreshFails,
       Cleared, WriteStatus, Wait, UncaughtError, Final, Closed, Kill, Restart,
       Stop, Break, Repair, envVars, watchdogVars, Enter, AfterChecks,
       Unhealthy, Terminated
  <2>2. pc' = "status" /\ state' = "fallback" =>
           \/ pc = "status" /\ state = "fallback"
           \/ pc = "clear"
           \/ ~applied'
    BY <1>4, SMT
       DEF Next, Watchdog, CheckHeartbeat, CheckConfig, CheckFirewall, CheckRules,
       OpenProbe, Opened, Ping, Pinged, CheckFails, Refreshed, RefreshFails,
       Cleared, WriteStatus, Wait, UncaughtError, Final, Closed, Kill, Restart,
       Stop, Break, Repair, envVars, watchdogVars, Enter, AfterChecks,
       Unhealthy, Terminated
  <2>3. ttl' \in {0, ttl}
    BY <1>4, SMT
       DEF Next, Watchdog, CheckHeartbeat, CheckConfig, CheckFirewall, CheckRules,
       OpenProbe, Opened, Ping, Pinged, CheckFails, Refreshed, RefreshFails,
       Cleared, WriteStatus, Wait, UncaughtError, Final, Closed, Kill, Restart,
       Stop, Break, Repair, envVars, watchdogVars, Enter, AfterChecks,
       Unhealthy, Terminated
  <2> QED BY <2>1, <2>2, <2>3, SMT
<1> QED BY <1>1, <1>2, <1>3, <1>4

LEMMA ClearedStep ==
    ASSUME TypeOK, ClearedStages, [Next]_vars
    PROVE  ClearedStages'
<1>1. CASE Apply
  <2>1. pc' = pc /\ state' = state /\ (pc \in {"clear", "status", "final"} => ttl' = 0)
    BY <1>1 DEF Apply, Commands
  <2>2. ~(0 > 0) BY SMT
  <2> QED BY <2>1, <2>2 DEF ClearedStages, Redirecting
<1>2. CASE ~Apply
  <2>1. applied' => applied BY <1>2, AppliedFrame
  <2>2. /\ pc' = "clear" => pc = "clear" \/ ~applied'
        /\ pc' = "final" => pc = "final" \/ ~applied'
        /\ pc' = "status" /\ state' = "fallback" =>
              \/ pc = "status" /\ state = "fallback"
              \/ pc = "clear"
              \/ ~applied'
        /\ ttl' > 0 => ttl > 0 \/ pc' \in {"down", "exited"}
    BY <1>2, ClearedFrame
  <2> QED BY <2>1, <2>2, Zenon DEF ClearedStages, Redirecting
<1> QED BY <1>1, <1>2

LEMMA FallbackStep ==
    ASSUME TypeOK, ClearedStages, FallbackStatusHonest, [Next]_vars
    PROVE  FallbackStatusHonest'
<1> USE GateAssumption DEF FallbackStatusHonest, Redirecting
<1>1. CASE WriteStatus
  <2>1. /\ pc = "status" /\ status'.state = state /\ status'.age = 0
        /\ ttl' = ttl /\ applied' = applied
    BY <1>1 DEF WriteStatus
  <2>2. ttl' + status'.age <= TTL BY <2>1, SMT DEF TypeOK
  <2> QED BY <2>1, <2>2, Zenon DEF ClearedStages
<1>2. CASE Tick
  <2>1. applied' = applied /\ pc' = pc BY <1>2 DEF Tick
  <2>2. /\ ttl' > 0 => ttl > 0
        /\ status'.state = status.state
        /\ ttl' > 0 /\ ttl + status.age <= TTL => ttl' + status'.age <= TTL
    BY <1>2, SMT DEF Tick, Expire, TypeOK
  <2> QED BY <2>1, <2>2, Zenon
<1>3. CASE Apply
  <2>1. pc' = pc /\ pc \in {"refresh", "clear", "final"}
    BY <1>3 DEF Apply, Commands
  <2> QED BY <2>1
<1>4. CASE status'.state = "none" BY <1>4
<1>5. CASE /\ ~Apply
           /\ status' = status /\ ttl' \in {0, ttl}
           /\ pc \in {"refresh", "clear", "status", "final"} =>
                 \/ pc' \in {"refresh", "clear", "status", "final"}
                 \/ pc = "final" /\ pc' = "closing"
           /\ pc = "closing" => pc' = "closing"
  <2>1. applied' => applied BY <1>5, AppliedFrame
  <2>2. ttl' > 0 => ttl' = ttl BY <1>5, SMT
  <2>3. pc = "final" /\ applied => ~(ttl > 0) BY DEF ClearedStages
  <2> QED BY <1>5, <2>1, <2>2, <2>3, Zenon
<1> QED BY <1>1, <1>2, <1>3, <1>4, <1>5, StatusFrame

\* "direct fallback" is shown over a redirect only for the rest of an element
\* whose clearing failed, or while a granted refresh is being published.
THEOREM FallbackHonest == Spec => []FallbackStatusHonest
<1>1. Init => ClearedStages /\ FallbackStatusHonest
    BY DEF Init, ClearedStages, FallbackStatusHonest
<1>2. TypeOK /\ ClearedStages /\ FallbackStatusHonest /\ [Next]_vars
         => (ClearedStages /\ FallbackStatusHonest)'
    BY FallbackStep, ClearedStep
<1> QED BY <1>1, <1>2, TypeCorrect, PTL DEF Spec

LEMMA LapseStep ==
    ASSUME TypeOK, TypeOK', LapsesAfterStop, [Next]_vars
    PROVE  LapsesAfterStop'
<1> USE GateAssumption DEF LapsesAfterStop, Redirecting, TypeOK
<1>1. CASE WriteStatus BY <1>1, SMT DEF WriteStatus, Enter
<1>2. CASE Tick
  <2>1. timer' \in {timer, timer + 1} /\ pc' = pc BY <1>2, SMT DEF Tick
  <2>2. ttl' > 0 => ttl > 0 /\ ttl' = ttl - 1 BY <1>2, SMT DEF Tick, Expire
  <2> QED BY <2>1, <2>2, SMT
<1>3. CASE Apply BY <1>3, SMT DEF Apply, Commands
<1>4. CASE timer' = 0 BY <1>4, SMT
<1>5. CASE ttl' \in {0, ttl} /\ pc' = pc /\ timer' \in {0, timer}
    BY <1>5, SMT
<1> QED BY <1>1, <1>2, <1>3, <1>4, <1>5, StatusFrame

\* "The redirect expires within 12 seconds if the watchdog stops": whatever ends
\* the watchdog, even in the middle of an nft command.
THEOREM Lapses == Spec => []LapsesAfterStop
<1>1. Init => LapsesAfterStop
    BY DEF Init, LapsesAfterStop
<1>2. TypeOK /\ TypeOK' /\ LapsesAfterStop /\ [Next]_vars => LapsesAfterStop'
    BY LapseStep
<1> QED BY <1>1, <1>2, TypeCorrect, PTL DEF Spec

-----------------------------------------------------------------------------
\* How long "capturing new connections" outlives the redirect.

\* While an element the watchdog granted is there, what is left of it and the
\* time since the grant make up its whole lifetime.
ActiveInv ==
    /\ pc = "refresh" /\ applied /\ Redirecting => ttl + timer >= TTL
    /\ pc = "status" /\ state = "active" /\ Redirecting => ttl + Timeout >= TTL
    /\ status.state = "active" /\ Redirecting => ttl + status.age + Timeout >= TTL
    /\ pc = "clear" => state # "active"

LEMMA ActiveStep ==
    ASSUME TypeOK, ActiveInv, [Next]_vars
    PROVE  ActiveInv'
<1> USE GateAssumption
    DEF TypeOK, ActiveInv, Redirecting, Enter, Limit, Commands
<1>1. CASE CheckHeartbeat \/ CheckConfig \/ CheckFirewall \/ CheckRules
    BY <1>1, SMT DEF CheckHeartbeat, CheckConfig, CheckFirewall, CheckRules,
       AfterChecks, envVars
<1>2. ASSUME NEW p \in Paths, OpenProbe(p) \/ Ping(p) PROVE ActiveInv'
    BY <1>2, SMT DEF OpenProbe, Ping, envVars
<1>3. CASE Opened BY <1>3, SMT DEF Opened, Default, envVars
<1>4. CASE Pinged BY <1>4, SMT DEF Pinged, envVars
<1>5. CASE CheckFails \/ RefreshFails
    BY <1>5, SMT DEF CheckFails, RefreshFails, Unhealthy, Default, envVars
<1>6. CASE Apply BY <1>6, SMT DEF Apply, envVars
<1>7. CASE Refreshed BY <1>7, SMT DEF Refreshed, envVars
<1>8. CASE Cleared BY <1>8, SMT DEF Cleared, envVars
<1>9. CASE WriteStatus BY <1>9, SMT DEF WriteStatus, envVars
<1>10. CASE Wait \/ UncaughtError \/ Restart
    BY <1>10, SMT DEF Wait, UncaughtError, Restart, envVars
<1>11. CASE Final \/ Closed \/ Crash \/ Kill
    BY <1>11, SMT DEF Final, Closed, Crash, Kill, Terminated, envVars
<1>12. CASE Stop BY <1>12, SMT DEF Stop
<1>13. ASSUME NEW f \in Facts, Break(f) \/ Repair(f) PROVE ActiveInv'
    BY <1>13, SMT DEF Break, Repair, watchdogVars
<1>14. CASE Tick
  <2>1. timer' >= timer /\ (pc = "refresh" => timer' = timer + 1)
      BY <1>14, SMT DEF Tick, Ready
  <2> QED BY <1>14, <2>1, SMT DEF Tick, Ready, Expire
<1>15. CASE UNCHANGED vars BY <1>15, SMT DEF vars, watchdogVars
<1> QED
    BY <1>1, <1>2, <1>3, <1>4, <1>5, <1>6, <1>7, <1>8, <1>9, <1>10, <1>11, <1>12,
       <1>13, <1>14, <1>15 DEF Next, Watchdog

\* While "capturing new connections" is shown, the redirect ends only by the
\* watchdog's command, by a change of the firewall, or within one command of the
\* age at which the dashboard stops showing the status.
THEOREM ActiveHonest == Spec => ActiveStatusHonest
<1>1. Init => ActiveInv
    BY DEF Init, ActiveInv, Redirecting
<1>2. TypeOK /\ ActiveInv /\ [Next]_vars => ActiveInv'
    BY ActiveStep
<1>3. TypeOK /\ ActiveInv /\ [Next]_vars =>
        [status.state = "active" /\ Redirecting /\ ~Redirecting' =>
           \/ pc \in Commands
           \/ bad' # bad
           \/ status.age + Timeout + 1 >= TTL]_vars
  <2> SUFFICES ASSUME TypeOK, ActiveInv, Next,
                      status.state = "active", ttl > 0, ~(ttl' > 0),
                      pc \notin Commands, bad' = bad
               PROVE  status.age + Timeout + 1 >= TTL
      BY DEF Redirecting
  <2>1. CASE Tick
      BY <2>1, GateAssumption, SMT DEF Tick, Expire, TypeOK, ActiveInv, Redirecting
  <2>2. ttl' = ttl \/ Tick \/ bad' # bad
      BY SMT
         DEF Next, Watchdog, CheckHeartbeat, CheckConfig, CheckFirewall,
         CheckRules, OpenProbe, Opened, Ping, Pinged, CheckFails, Apply,
         Refreshed, RefreshFails, Cleared, WriteStatus, Wait, UncaughtError,
         Final, Closed, Kill, Crash, Restart, Stop, Break, Repair, envVars, Commands
  <2> QED BY <2>1, <2>2
<1> QED BY <1>1, <1>2, <1>3, TypeCorrect, PTL DEF Spec, ActiveStatusHonest

-----------------------------------------------------------------------------
\* The probes.

\* The two streams are opened, used and dropped together.
ProbeInv ==
    /\ live # {} => opened \/ pc = "open"
    /\ pc \in {"ping", "refresh"} => opened
    /\ pc \in {"open", "closing", "down", "exited"} => ~opened

\* `open_probes' keeps both streams or neither, and a failed round, a crash and
\* the finally clause leave none behind: a stream is held only while it is
\* being opened, or by a watchdog that has the pair.
NoProbeLeaks == live # {} => pc = "open" \/ (opened /\ pc \notin {"closing", "down", "exited"})

\* The redirect is installed or renewed by `refresh_gate' only, after a ping of
\* both streams, and never in shadow mode: not even by a command that outlives
\* a killed watchdog.
GrantNeedsProbes ==
    [][ttl' > ttl => pc = "refresh" /\ activate /\ opened]_vars

LEMMA ProbeStep ==
    ASSUME TypeOK, ProbeInv, [Next]_vars
    PROVE  ProbeInv'
<1> USE DEF TypeOK, ProbeInv, Enter, CloseProbes, envVars
<1>1. CASE CheckHeartbeat BY <1>1 DEF CheckHeartbeat, AfterChecks
<1>2. CASE CheckConfig BY <1>2 DEF CheckConfig
<1>3. CASE CheckFirewall BY <1>3 DEF CheckFirewall, AfterChecks
<1>4. CASE CheckRules BY <1>4 DEF CheckRules, AfterChecks
<1>5. ASSUME NEW p \in Paths, OpenProbe(p) PROVE ProbeInv'
    BY <1>5 DEF OpenProbe
<1>6. CASE Opened BY <1>6 DEF Opened
<1>7. ASSUME NEW p \in Paths, Ping(p) PROVE ProbeInv'
    BY <1>7 DEF Ping
<1>8. CASE Pinged BY <1>8 DEF Pinged
<1>9. CASE CheckFails BY <1>9 DEF CheckFails, Unhealthy, Round
<1>10. CASE Apply BY <1>10 DEF Apply, Commands
<1>11. CASE Refreshed BY <1>11 DEF Refreshed
<1>12. CASE RefreshFails BY <1>12 DEF RefreshFails, Unhealthy
<1>13. CASE Cleared BY <1>13 DEF Cleared
<1>14. CASE WriteStatus BY <1>14 DEF WriteStatus
<1>15. CASE Wait BY <1>15 DEF Wait
<1>16. CASE UncaughtError BY <1>16 DEF UncaughtError
<1>17. CASE Final BY <1>17 DEF Final
<1>18. CASE Crash BY <1>18 DEF Crash, Terminated
<1>25. CASE Closed \/ Kill BY <1>25 DEF Closed, Kill, Terminated
<1>19. CASE Restart BY <1>19 DEF Restart
<1>20. CASE Stop BY <1>20 DEF Stop
<1>21. ASSUME NEW f \in Facts, Break(f) PROVE ProbeInv'
    BY <1>21 DEF Break
<1>22. ASSUME NEW f \in Facts, Repair(f) PROVE ProbeInv'
    BY <1>22 DEF Repair, watchdogVars
<1>23. CASE Tick BY <1>23 DEF Tick
<1>24. CASE UNCHANGED vars BY <1>24 DEF vars, watchdogVars
<1> QED
    BY <1>1, <1>2, <1>3, <1>4, <1>5, <1>6, <1>7, <1>8, <1>9, <1>10, <1>11, <1>12,
       <1>13, <1>14, <1>15, <1>16, <1>17, <1>18, <1>19, <1>20, <1>21, <1>22, <1>23,
       <1>24, <1>25 DEF Next, Watchdog

LEMMA ProbeInvariant == Spec => []ProbeInv
<1>1. Init => ProbeInv BY DEF Init, ProbeInv
<1>2. TypeOK /\ ProbeInv /\ [Next]_vars => ProbeInv' BY ProbeStep
<1> QED BY <1>1, <1>2, TypeCorrect, PTL DEF Spec

\* No probe stream outlives the attempt, the round or the process it belongs to.
THEOREM ProbesAreKeptTogether == Spec => []NoProbeLeaks
<1>1. ProbeInv => NoProbeLeaks BY DEF ProbeInv, NoProbeLeaks
<1> QED BY <1>1, ProbeInvariant, PTL

\* Every step that installs or renews the redirect belongs to a round that has
\* pinged a pair of streams.
THEOREM GrantsAreProbed == Spec => GrantNeedsProbes
<1>1. TypeOK /\ ShadowStages /\ ProbeInv /\ [Next]_vars
         => [ttl' > ttl => pc = "refresh" /\ activate /\ opened]_vars
  <2> SUFFICES ASSUME TypeOK, ShadowStages, ProbeInv, Next, ttl' > ttl
               PROVE  pc = "refresh" /\ activate /\ opened
      OBVIOUS
  <2>1. TTL \in Nat /\ ttl \in Nat BY GateAssumption DEF TypeOK
  <2>2. pc = "refresh"
    <3>1. CASE Apply \/ Crash BY <2>1, <3>1, SMT DEF Apply, Crash
    <3>2. CASE Tick BY <2>1, <3>2, SMT DEF Tick, Expire
    <3>3. CASE \E f \in Facts : Break(f) \/ Repair(f)
      BY <2>1, <3>3, SMT DEF Break, Repair
    <3>4. CASE ttl' = ttl BY <2>1, <3>4, SMT
    <3> QED
      BY <3>1, <3>2, <3>3, <3>4
         DEF Next, Watchdog, CheckHeartbeat, CheckConfig, CheckFirewall, CheckRules,
         OpenProbe, Opened, Ping, Pinged, CheckFails, Refreshed, RefreshFails, Cleared,
         WriteStatus, Wait, UncaughtError, Final, Closed, Kill, Restart, Stop
  <2> QED BY <2>2 DEF TypeOK, ShadowStages, ProbeInv
<1>2. GateInv => TypeOK /\ ShadowStages BY DEF GateInv
<1> QED BY <1>1, <1>2, GateInvariant, ProbeInvariant, PTL DEF Spec, GrantNeedsProbes

-----------------------------------------------------------------------------
\* How long a stop takes.

\* Time from entering a stage to the await of server.wait_closed(), at most,
\* when the stop event is set: every check, command and clear at its limit.
Left(s) ==
    CASE s = "heartbeat" -> DbTimeout + OpenTimeout + 8 * Timeout
      [] s = "config"    -> OpenTimeout + 8 * Timeout
      [] s = "firewall"  -> OpenTimeout + 8 * Timeout
      [] s = "rules"     -> OpenTimeout + 7 * Timeout
      [] s = "open"      -> OpenTimeout + 5 * Timeout
      [] s = "ping"      -> 5 * Timeout
      [] s = "refresh"   -> 3 * Timeout
      [] s = "clear"     -> 2 * Timeout
      [] s = "status"    -> Timeout
      [] s = "wait"      -> Timeout
      [] s = "final"     -> Timeout
      [] OTHER           -> 0

\* The rest of it.  The wait between two rounds ends with the stop.
Busy == Left(pc) - (IF pc = "wait" THEN 0 ELSE timer)

\* What is left of the redirect, at most.  Nothing renews it once the finally
\* clause has come to its last await, however long that lasts.
RedirectLeft == IF pc \in {"closing", "exited"} THEN ttl ELSE Busy + TTL

\* What is left of the process, at most: since Python 3.12.1 its last await may
\* have no end but the kill by the service manager.
ProcessLeft ==
    CASE pc = "exited"  -> 0
      [] pc = "closing" -> StopTimeout - timer
      [] OTHER          -> Busy + StopTimeout

\* The slowest stop comes when a round has just begun.
SlowestRound == DbTimeout + OpenTimeout + 8 * Timeout

\* After a request to stop, the redirect is gone after a slowest round and the
\* lifetime of an element, and the process has ended, or is to be killed before
\* any more time passes, after a slowest round and the service manager's limit.
StopIsBounded ==
    stop => /\ RedirectLeft \in 0..(SlowestRound + TTL)
            /\ RedirectLeft = 0 => ~Redirecting
            /\ ProcessLeft \in 0..(SlowestRound + StopTimeout)
            /\ ProcessLeft = 0 =>
                  pc = "exited" \/ (pc = "closing" /\ timer = StopTimeout)

\* A stop is never taken back, no step of the watchdog or of its environment
\* adds to what is left of the redirect or of the process, and time that passes
\* is taken from both until each is gone: no failing check, suppressed clear,
\* hanging path, crash or restart begins another round.
StopAdvances ==
    [][stop =>
         /\ stop'
         /\ RedirectLeft' <= RedirectLeft
         /\ ProcessLeft' <= ProcessLeft
         /\ Tick => /\ RedirectLeft' < RedirectLeft \/ RedirectLeft = 0
                    /\ ProcessLeft' < ProcessLeft \/ pc = "exited"]_vars

\* A stopped service is not started again.
StopInv == stop => pc # "down"

LEMMA LeftIsNat ==
    ASSUME NEW s
    PROVE  Left(s) \in Nat
BY GateAssumption, SMT DEF Left

\* A stage takes no more than its limit from what is left when it is entered.
LEMMA BusyAfter ==
    ASSUME TypeOK, pc \notin {"wait", "closing", "down", "exited"}
    PROVE  /\ Busy \in 0..SlowestRound
           /\ pc \in Round \cup {"refresh"} => Busy >= Left("clear")
           /\ pc \in Round \cup {"refresh", "clear"} => Busy >= Left("status")
           /\ pc # "final" => Busy >= Left("final")
           /\ pc = "heartbeat" => Busy >= Left("config")
           /\ pc = "config" => Busy >= Left("firewall")
           /\ pc = "firewall" => Busy >= Left("rules")
           /\ pc \in {"heartbeat", "firewall", "rules"} => Busy >= Left("open")
           /\ pc \in {"heartbeat", "firewall", "rules", "open"} => Busy >= Left("ping")
           /\ pc = "ping" => Busy >= Left("refresh")
<1> USE GateAssumption
    DEF TypeOK, Left, Limit, Busy, SlowestRound, Commands, Round, Stages
<1>1. CASE pc = "heartbeat" BY <1>1, SMT
<1>2. CASE pc = "config" BY <1>2, SMT
<1>3. CASE pc = "firewall" BY <1>3, SMT
<1>4. CASE pc = "rules" BY <1>4, SMT
<1>5. CASE pc = "open" BY <1>5, SMT
<1>6. CASE pc = "ping" BY <1>6, SMT
<1>7. CASE pc = "refresh" BY <1>7, SMT
<1>8. CASE pc = "clear" BY <1>8, SMT
<1>9. CASE pc = "status" BY <1>9, SMT
<1>10. CASE pc = "final" BY <1>10, SMT
<1> QED BY <1>1, <1>2, <1>3, <1>4, <1>5, <1>6, <1>7, <1>8, <1>9, <1>10

LEMMA BusyInWait ==
    ASSUME pc = "wait"
    PROVE  Busy = Left("final") /\ Busy \in 0..SlowestRound
BY GateAssumption, SMT DEF Busy, Left, SlowestRound

LEMMA BusyBounded ==
    ASSUME TypeOK, pc \notin {"closing", "down", "exited"}
    PROVE  Busy \in 0..SlowestRound
BY BusyAfter, BusyInWait

\* What is left at the moment a stage is entered.
LEMMA BusyOnEntry ==
    ASSUME NEW s, Enter(s)
    PROVE  Busy' = Left(s)
<1>1. Left(s) \in Nat BY LeftIsNat
<1>2. pc' = s /\ timer' = 0 BY DEF Enter
<1>3. Busy' = Left(pc') - (IF pc' = "wait" THEN 0 ELSE timer') BY DEF Busy, Left
<1> QED BY <1>1, <1>2, <1>3, SMT

LEMMA StopInvStep ==
    ASSUME StopInv, [Next]_vars
    PROVE  StopInv'
<1> USE DEF StopInv, Enter, Unhealthy, AfterChecks, Terminated, envVars
<1>1. CASE Watchdog
    BY <1>1 DEF Watchdog, CheckHeartbeat, CheckConfig, CheckFirewall, CheckRules,
       OpenProbe, Opened, Ping, Pinged, CheckFails, Apply, Refreshed, RefreshFails,
       Cleared, WriteStatus, Wait, UncaughtError, Final
<1>2. CASE Closed \/ Crash \/ Kill \/ Restart \/ Stop
    BY <1>2 DEF Closed, Crash, Kill, Restart, Stop
<1>3. CASE \E f \in Facts : Break(f) \/ Repair(f)
    BY <1>3 DEF Break, Repair, watchdogVars
<1>4. CASE Tick BY <1>4 DEF Tick
<1>5. CASE UNCHANGED vars BY <1>5 DEF vars, watchdogVars
<1> QED BY <1>1, <1>2, <1>3, <1>4, <1>5 DEF Next

\* A step that enters another stage goes on towards the last await.
LEMMA BusyDescends ==
    ASSUME TypeOK, stop, Next, ~Tick, ~(pc' = pc /\ timer' = timer),
           pc \notin {"closing", "down", "exited"}, pc' \notin {"closing", "exited"}
    PROVE  Busy' <= Busy
<1>1. Left("wait") = Left("final") /\ Left("status") = Left("final") /\ Left("final") \in Nat
    BY GateAssumption, SMT DEF Left
<1>2. CASE CheckHeartbeat
  <2>1. pc = "heartbeat" /\ (Enter("config") \/ Enter("ping") \/ Enter("open"))
      BY <1>2 DEF CheckHeartbeat, AfterChecks
  <2> QED BY <2>1, BusyAfter, BusyOnEntry
<1>3. CASE CheckConfig
  <2>1. pc = "config" /\ Enter("firewall") BY <1>3 DEF CheckConfig
  <2> QED BY <2>1, BusyAfter, BusyOnEntry
<1>4. CASE CheckFirewall
  <2>1. pc = "firewall" /\ (Enter("rules") \/ Enter("ping") \/ Enter("open"))
      BY <1>4 DEF CheckFirewall, AfterChecks
  <2> QED BY <2>1, BusyAfter, BusyOnEntry
<1>5. CASE CheckRules
  <2>1. pc = "rules" /\ (Enter("ping") \/ Enter("open"))
      BY <1>5 DEF CheckRules, AfterChecks
  <2> QED BY <2>1, BusyAfter, BusyOnEntry
<1>6. CASE Opened
  <2>1. pc = "open" /\ (Enter("ping") \/ Enter("clear") \/ Enter("status"))
      BY <1>6 DEF Opened
  <2> QED BY <2>1, BusyAfter, BusyOnEntry DEF Round
<1>7. CASE Pinged
  <2>1. pc = "ping" /\ (Enter("refresh") \/ Enter("status")) BY <1>7 DEF Pinged
  <2> QED BY <2>1, BusyAfter, BusyOnEntry DEF Round
<1>8. CASE CheckFails \/ RefreshFails
  <2>1. pc \in Round \cup {"refresh"} /\ (Enter("clear") \/ Enter("status"))
      BY <1>8 DEF CheckFails, RefreshFails, Unhealthy
  <2> QED BY <2>1, BusyAfter, BusyOnEntry DEF Round
<1>9. CASE Refreshed \/ Cleared
  <2>1. pc \in {"refresh", "clear"} /\ Enter("status") BY <1>9 DEF Refreshed, Cleared
  <2> QED BY <2>1, BusyAfter, BusyOnEntry DEF Round
<1>10. CASE WriteStatus
  <2>1. pc = "status" /\ Enter("wait") BY <1>10 DEF WriteStatus
  <2> QED BY <2>1, <1>1, BusyAfter, BusyOnEntry
<1>11. CASE Wait
  <2>1. pc = "wait" /\ Enter("final") BY <1>11 DEF Wait
  <2> QED BY <2>1, <1>1, BusyInWait, BusyOnEntry, SMT
<1>12. CASE UncaughtError
  <2>1. pc \in {"firewall", "status"} /\ Enter("final") BY <1>12 DEF UncaughtError
  <2> QED BY <2>1, BusyAfter, BusyOnEntry
<1>13. ~Final /\ ~Closed /\ ~Crash /\ ~Kill /\ ~Restart /\ ~Stop
    BY DEF Final, Closed, Crash, Kill, Restart, Stop, Terminated, Enter
<1>14. ASSUME Apply \/ (\E p \in Paths : OpenProbe(p) \/ Ping(p))
                \/ (\E f \in Facts : Break(f) \/ Repair(f))
       PROVE  FALSE
    BY <1>14 DEF Apply, OpenProbe, Ping, Break, Repair, watchdogVars
<1> QED
    BY <1>2, <1>3, <1>4, <1>5, <1>6, <1>7, <1>8, <1>9, <1>10, <1>11, <1>12, <1>13,
       <1>14 DEF Next, Watchdog

\* Where a stopped watchdog goes from its last await.
LEMMA ClosingFrame ==
    ASSUME TypeOK, stop, pc \in {"closing", "exited"}, Next, ~Tick
    PROVE  /\ ttl' \in {0, ttl}
           /\ \/ pc' = pc /\ timer' = timer
              \/ pc' = "exited"
<1>1. CASE Closed \/ Crash \/ Kill
    BY <1>1, SMT DEF Closed, Crash, Kill, Terminated, Enter, Commands
<1>2. ASSUME NEW f \in Facts, Break(f) \/ Repair(f)
      PROVE  ttl' \in {0, ttl} /\ pc' = pc /\ timer' = timer
    BY <1>2, Zenon DEF Break, Repair, watchdogVars
<1>3. ~Watchdog
    BY Zenon DEF Watchdog, CheckHeartbeat, CheckConfig, CheckFirewall, CheckRules,
       OpenProbe, Opened, Ping, Pinged, CheckFails, Apply, Refreshed, RefreshFails,
       Cleared, WriteStatus, Wait, UncaughtError, Final, Round, Commands
<1>4. ~Restart /\ ~Stop BY DEF Restart, Stop
<1> QED BY <1>1, <1>2, <1>3, <1>4, Zenon DEF Next

\* A stage is entered with its timer at zero.
LEMMA EntryFrame ==
    ASSUME TypeOK, Next, pc # "closing", pc' = "closing"
    PROVE  timer' = 0
BY SMT
   DEF TypeOK, Next, Watchdog, CheckHeartbeat, CheckConfig, CheckFirewall,
   CheckRules, OpenProbe, Opened, Ping, Pinged, CheckFails, Apply, Refreshed,
   RefreshFails, Cleared, WriteStatus, Wait, UncaughtError, Final, Closed, Kill,
   Crash, Restart, Stop, Break, Repair, Tick, Terminated, Enter, AfterChecks,
   Unhealthy, watchdogVars

\* No step but time adds to, or takes back from, either end of a stop.
LEMMA StopDescends ==
    ASSUME TypeOK, TypeOK', StopInv, StopInv', stop, stop', Next, ~Tick
    PROVE  RedirectLeft' <= RedirectLeft /\ ProcessLeft' <= ProcessLeft
<1>1. /\ ttl \in 0..TTL /\ ttl' \in 0..TTL /\ TTL \in Nat /\ StopTimeout \in Nat
      /\ timer \in Nat /\ timer' \in Nat
      /\ pc = "closing" => timer <= StopTimeout
    BY GateAssumption, SMT DEF TypeOK, Limit, Commands
<1>2. pc # "down" /\ pc' # "down" BY DEF StopInv
<1>3. /\ RedirectLeft' = IF pc' \in {"closing", "exited"} THEN ttl' ELSE Busy' + TTL
      /\ ProcessLeft' = CASE pc' = "exited"  -> 0
                          [] pc' = "closing" -> StopTimeout - timer'
                          [] OTHER           -> Busy' + StopTimeout
    BY DEF RedirectLeft, ProcessLeft
<1>4. CASE pc \in {"closing", "exited"}
  <2>1. ttl' \in {0, ttl} /\ ((pc' = pc /\ timer' = timer) \/ pc' = "exited")
      BY <1>4, ClosingFrame
  <2> QED BY <1>1, <1>3, <1>4, <2>1, SMT DEF RedirectLeft, ProcessLeft
<1>5. CASE pc \notin {"closing", "exited"} /\ pc' \in {"closing", "exited"}
  <2>1. Busy \in Nat BY <1>2, <1>5, BusyBounded, GateAssumption, SMT DEF SlowestRound
  <2>2. pc' = "closing" => timer' = 0 BY <1>5, EntryFrame
  <2> QED BY <1>1, <1>3, <1>5, <2>1, <2>2, SMT DEF RedirectLeft, ProcessLeft
<1>6. CASE pc \notin {"closing", "exited"} /\ pc' \notin {"closing", "exited"}
  <2>1. Busy \in Nat BY <1>2, <1>6, BusyBounded, GateAssumption, SMT DEF SlowestRound
  <2>2. Busy' <= Busy /\ Busy' \in Int
    <3>1. CASE pc' = pc /\ timer' = timer
      <4>1. Busy' = Busy BY <3>1 DEF Busy, Left
      <4> QED BY <2>1, <4>1, SMT
    <3>2. CASE ~(pc' = pc /\ timer' = timer)
      <4>1. Busy' <= Busy BY <1>2, <1>6, <3>2, BusyDescends
      <4>2. Left(pc') \in Nat BY LeftIsNat
      <4>3. Busy' = Left(pc') - (IF pc' = "wait" THEN 0 ELSE timer') BY DEF Busy, Left
      <4> QED BY <1>1, <4>1, <4>2, <4>3, SMT
    <3> QED BY <3>1, <3>2
  <2> QED BY <1>1, <1>3, <1>6, <2>1, <2>2, SMT DEF RedirectLeft, ProcessLeft
<1> QED BY <1>4, <1>5, <1>6

\* Time that passes is taken from both, until each is gone.
LEMMA StopTicks ==
    ASSUME TypeOK, StopInv, stop, Tick
    PROVE  /\ RedirectLeft' <= RedirectLeft /\ ProcessLeft' <= ProcessLeft
           /\ RedirectLeft' < RedirectLeft \/ RedirectLeft = 0
           /\ ProcessLeft' < ProcessLeft \/ pc = "exited"
<1>1. /\ ttl \in Nat /\ TTL \in Nat /\ StopTimeout \in Nat /\ timer \in Nat
      /\ pc # "down" /\ pc # "wait" /\ pc' = pc
    BY GateAssumption DEF TypeOK, StopInv, Tick, Ready
<1>2. ttl' = IF ttl = 0 THEN 0 ELSE ttl - 1 BY DEF Tick, Expire
<1>3. pc # "exited" => timer' = timer + 1
    BY LimitIsNat, SMT DEF Tick, Ready, TypeOK
<1>4. /\ RedirectLeft' = IF pc' \in {"closing", "exited"} THEN ttl' ELSE Busy' + TTL
      /\ ProcessLeft' = CASE pc' = "exited"  -> 0
                          [] pc' = "closing" -> StopTimeout - timer'
                          [] OTHER           -> Busy' + StopTimeout
    BY DEF RedirectLeft, ProcessLeft
<1>5. CASE pc \in {"closing", "exited"}
    BY <1>1, <1>2, <1>3, <1>4, <1>5, SMT DEF RedirectLeft, ProcessLeft
<1>6. CASE pc \notin {"closing", "exited"}
  <2>1. Busy \in Nat BY <1>1, <1>6, BusyBounded, GateAssumption, SMT DEF SlowestRound
  <2>2. Busy = Left(pc) - timer /\ Busy' = Left(pc) - timer'
      BY <1>1 DEF Busy, Left
  <2>3. Left(pc) \in Nat BY LeftIsNat
  <2>4. Busy' = Busy - 1 BY <1>1, <1>3, <1>6, <2>2, <2>3, SMT
  <2> QED BY <1>1, <1>4, <1>6, <2>1, <2>4, SMT DEF RedirectLeft, ProcessLeft
<1> QED BY <1>5, <1>6

LEMMA StopInvariant == Spec => []StopInv
<1>1. Init => StopInv BY DEF Init, StopInv
<1> QED BY <1>1, StopInvStep, PTL DEF Spec

\* After a request to stop, the redirect is gone within a slowest round and the
\* lifetime of an element, whatever fails from then on and however long the last
\* await takes; and the process has ended, or the service manager is about to
\* kill it, within a slowest round and the service manager's limit: these are
\* the bounds ...
THEOREM StopIsBoundedAlways == Spec => []StopIsBounded
<1>1. TypeOK /\ StopInv => StopIsBounded
  <2> SUFFICES ASSUME TypeOK, StopInv, stop
               PROVE  /\ RedirectLeft \in 0..(SlowestRound + TTL)
                      /\ RedirectLeft = 0 => ~Redirecting
                      /\ ProcessLeft \in 0..(SlowestRound + StopTimeout)
                      /\ ProcessLeft = 0 =>
                            pc = "exited" \/ (pc = "closing" /\ timer = StopTimeout)
      BY DEF StopIsBounded
  <2>1. /\ TTL \in Nat \ {0} /\ StopTimeout \in Nat \ {0} /\ SlowestRound \in Nat
        /\ ttl \in 0..TTL /\ timer \in Nat
        /\ pc = "closing" => timer <= StopTimeout
      BY GateAssumption, SMT DEF TypeOK, SlowestRound, Limit, Commands
  <2>2. CASE pc \in {"closing", "exited"}
      BY <2>1, <2>2, SMT DEF RedirectLeft, ProcessLeft, Redirecting
  <2>3. CASE pc \notin {"closing", "exited"}
    <3>1. Busy \in 0..SlowestRound BY <2>3, BusyBounded DEF StopInv
    <3> QED BY <2>1, <2>3, <3>1, SMT DEF RedirectLeft, ProcessLeft
  <2> QED BY <2>2, <2>3
<1> QED BY <1>1, TypeCorrect, StopInvariant, PTL

\* ... and every unit of time that passes is taken from them.
THEOREM StopAlwaysAdvances == Spec => StopAdvances
<1>1. TypeOK /\ TypeOK' /\ StopInv /\ StopInv' /\ [Next]_vars =>
        [stop =>
           /\ stop'
           /\ RedirectLeft' <= RedirectLeft
           /\ ProcessLeft' <= ProcessLeft
           /\ Tick => /\ RedirectLeft' < RedirectLeft \/ RedirectLeft = 0
                      /\ ProcessLeft' < ProcessLeft \/ pc = "exited"]_vars
  <2> SUFFICES ASSUME TypeOK, TypeOK', StopInv, StopInv', Next, stop
               PROVE  /\ stop'
                      /\ RedirectLeft' <= RedirectLeft
                      /\ ProcessLeft' <= ProcessLeft
                      /\ Tick => /\ RedirectLeft' < RedirectLeft \/ RedirectLeft = 0
                                 /\ ProcessLeft' < ProcessLeft \/ pc = "exited"
      OBVIOUS
  <2>1. stop'
      BY DEF Next, Watchdog, CheckHeartbeat, CheckConfig, CheckFirewall, CheckRules,
         OpenProbe, Opened, Ping, Pinged, CheckFails, Apply, Refreshed, RefreshFails,
         Cleared, WriteStatus, Wait, UncaughtError, Final, Closed, Crash, Kill,
         Restart, Stop, Break, Repair, Tick, envVars
  <2>2. CASE Tick BY <2>1, <2>2, StopTicks
  <2>3. CASE ~Tick BY <2>1, <2>3, StopDescends
  <2> QED BY <2>2, <2>3
<1> QED BY <1>1, TypeCorrect, StopInvariant, PTL DEF Spec, StopAdvances
=============================================================================
