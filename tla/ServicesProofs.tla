--------------------------- MODULE ServicesProofs ---------------------------
(***************************************************************************)
(* What holds of GateSetup and Services for any number of chains and of    *)
(* faults: what a script leaves, what a running gate rests on, and what a  *)
(* failed installation takes back and keeps.                               *)
(***************************************************************************)
EXTENDS Services, TLAPS

-----------------------------------------------------------------------------
\* The inductive invariant.

\* What the script has made at each of its steps.
SetupInv ==
    /\ step = "save" => hash = "empty" /\ ~table /\ rules = {} /\ installed = 0 /\ ~tabled
    /\ step = "table" =>
          hash \in Policies /\ ~table /\ rules = {} /\ installed = 0 /\ ~tabled
    /\ step = "rule" => hash \in Policies /\ table /\ tabled /\ rules = 1..installed
    /\ step = "undo" /\ ~cut => (table <=> tabled) /\ rules = 1..installed
    /\ CleanUnlessCut

\* The installer starts the firewall unit once, and nothing verifies the gate
\* before that unit has started.
OrderInv ==
    /\ pc \in {"web", "site", "reload", "port", "units"} => fw = "inactive" /\ net = "inactive"
    /\ net \in {"starting", "verified"} => fw = "active"
    /\ gate # "none" \/ net = "verified" => Everything /\ ~Installing

\* What is there is flagged, until the roll-back has taken it back.
WithdrawInv ==
    ~missed =>
       /\ port = "open" => "firewall" \in flags
       /\ site => "site" \in flags
       /\ served => site /\ pc \notin {"web", "site", "reload"}
       /\ pc \in {"withdraw", "disable", "failed"} => port = "closed"
       /\ pc \in {"disable", "failed"} => ~site
       /\ pc = "failed" => enabled = "none"

\* A redirect needs a collector, which only the other branch stops.
CarryInv ==
    /\ redirected /\ pc \notin {"stop_units", "close", "withdraw", "disable", "failed", "killed"}
          => capture \in {"active", "waiting"}
    /\ carrying => capture \in {"active", "waiting"} /\ pc # "stop_units"
    /\ carrying => pc \in {"stop_gate", "close", "withdraw", "disable", "failed", "killed"}

Inv == TypeOK /\ SetupInv /\ OrderInv /\ WithdrawInv /\ CarryInv

-----------------------------------------------------------------------------
\* Type correctness.

BooleansOK ==
    /\ table \in BOOLEAN /\ tabled \in BOOLEAN /\ cut \in BOOLEAN
    /\ site \in BOOLEAN /\ served \in BOOLEAN /\ redirected \in BOOLEAN
    /\ booted \in BOOLEAN /\ missed \in BOOLEAN /\ carrying \in BOOLEAN

OthersOK ==
    /\ port \in Policies /\ digest \in Policies
    /\ hash \in {"absent", "empty"} \cup Policies
    /\ rules \subseteq 1..Chains /\ installed \in 0..Chains
    /\ Installing \/ step \in {"idle", "start", "verify", "verified", "failed"}
    /\ fw \in {"inactive", "starting", "active", "waiting"}
    /\ fw = "starting" <=> step # "idle"
    /\ capture \in {"inactive", "queued", "active", "waiting"}
    /\ net \in {"inactive", "queued", "starting", "verified", "active", "waiting"}
    /\ gate \in {"none", "running", "restarting"}
    /\ flags \subseteq {"site", "firewall", "gate"}
    /\ enabled \in {"none", "some", "all"}
    /\ faults \in 0..MaxFaults

LEMMA Types == TypeOK <=> BooleansOK /\ OthersOK
BY DEF TypeOK, BooleansOK, OthersOK

LEMMA ScriptBooleans ==
    ASSUME TypeOK, RunScript
    PROVE  BooleansOK'
<1> USE DEF BooleansOK, Succeeds, Ignored, setupVars, madeVars, localVars, hostVars, unitVars, histVars, RunScript
<1>1. CASE Refuse BY <1>1, Types DEF Refuse
<1>2. CASE Create BY <1>2, Types DEF Create
<1>3. CASE Save BY <1>3, Types DEF Save
<1>4. CASE AddTable BY <1>4, Types DEF AddTable
<1>5. CASE AddRule BY <1>5, Types DEF AddRule
<1>6. CASE Installed BY <1>6, Types DEF Installed
<1>7. CASE UndoRule BY <1>7, Types DEF UndoRule
<1>8. CASE UndoTable BY <1>8, Types DEF UndoTable
<1>9. CASE Unlink BY <1>9, Types DEF Unlink
<1>10. CASE Reuse BY <1>10, Types DEF Reuse
<1>11. CASE Verify BY <1>11, Types DEF Verify
<1>12. CASE VerifyFails BY <1>12, Types DEF VerifyFails
<1>13. CASE PreparationFails BY <1>13, Types DEF PreparationFails
<1>14. CASE CommandFails BY <1>14, Types DEF CommandFails
<1>15. CASE TimesOut BY <1>15, Types DEF TimesOut
<1>16. CASE UndoTimesOut BY <1>16, Types DEF UndoTimesOut
<1>17. CASE Killed BY <1>17, Types DEF Killed
<1> QED BY <1>1, <1>2, <1>3, <1>4, <1>5, <1>6, <1>7, <1>8, <1>9, <1>10, <1>11, <1>12, <1>13, <1>14, <1>15, <1>16, <1>17 DEF RunScript, Script, ScriptFails

LEMMA ScriptOthers ==
    ASSUME TypeOK, RunScript
    PROVE  OthersOK'
<1> USE SetupAssumption DEF OthersOK, Goes, Fails, Fault, Succeeds, Ignored, Requested, Installing, Policies,
       setupVars, madeVars, localVars, hostVars, unitVars, histVars, RunScript
<1>1. CASE Refuse BY <1>1, Types DEF Refuse
<1>2. CASE Create BY <1>2, Types DEF Create
<1>3. CASE Save BY <1>3, Types DEF Save
<1>4. CASE AddTable BY <1>4, Types DEF AddTable
<1>5. CASE AddRule BY <1>5, Types DEF AddRule
<1>6. CASE Installed BY <1>6, Types DEF Installed
<1>7. CASE UndoRule BY <1>7, Types DEF UndoRule
<1>8. CASE UndoTable BY <1>8, Types DEF UndoTable
<1>9. CASE Unlink BY <1>9, Types DEF Unlink
<1>10. CASE Reuse BY <1>10, Types DEF Reuse
<1>11. CASE Verify BY <1>11, Types DEF Verify
<1>12. CASE VerifyFails BY <1>12, Types DEF VerifyFails
<1>13. CASE PreparationFails BY <1>13, Types DEF PreparationFails
<1>14. CASE CommandFails BY <1>14, Types DEF CommandFails
<1>15. CASE TimesOut BY <1>15, Types DEF TimesOut
<1>16. CASE UndoTimesOut BY <1>16, Types DEF UndoTimesOut
<1>17. CASE Killed BY <1>17, Types DEF Killed
<1> QED BY <1>1, <1>2, <1>3, <1>4, <1>5, <1>6, <1>7, <1>8, <1>9, <1>10, <1>11, <1>12, <1>13, <1>14, <1>15, <1>16, <1>17 DEF RunScript, Script, ScriptFails

LEMMA InstallerBooleans ==
    ASSUME TypeOK, Installer \/ Interrupt
    PROVE  BooleansOK'
<1> USE DEF BooleansOK, Succeeds, Ignored, setupVars, madeVars, localVars, hostVars, unitVars, histVars
<1>1. CASE StartWeb BY <1>1, Types DEF StartWeb
<1>2. CASE WriteSite BY <1>2, Types DEF WriteSite
<1>3. CASE Reload BY <1>3, Types DEF Reload
<1>4. CASE Allow BY <1>4, Types DEF Allow
<1>5. CASE StartUnits BY <1>5, Types DEF StartUnits
<1>6. CASE UnitsStarted BY <1>6, Types DEF UnitsStarted
<1>7. CASE StartNetwork BY <1>7, Types DEF StartNetwork
<1>8. CASE NetworkStarted BY <1>8, Types DEF NetworkStarted
<1>9. CASE AwaitHealth BY <1>9, Types DEF AwaitHealth
<1>10. CASE Enable BY <1>10, Types DEF Enable
<1>11. CASE Interrupt BY <1>11, Types DEF Interrupt
<1> QED BY <1>1, <1>2, <1>3, <1>4, <1>5, <1>6, <1>7, <1>8, <1>9, <1>10, <1>11 DEF Installer

LEMMA InstallerOthers ==
    ASSUME TypeOK, Installer \/ Interrupt
    PROVE  OthersOK'
<1> USE SetupAssumption DEF OthersOK, Goes, Fails, Fault, Succeeds, Ignored, Requested, Installing, Policies,
       setupVars, madeVars, localVars, hostVars, unitVars, histVars
<1>1. CASE StartWeb BY <1>1, Types DEF StartWeb
<1>2. CASE WriteSite BY <1>2, Types DEF WriteSite
<1>3. CASE Reload BY <1>3, Types DEF Reload
<1>4. CASE Allow BY <1>4, Types DEF Allow
<1>5. CASE StartUnits BY <1>5, Types DEF StartUnits
<1>6. CASE UnitsStarted BY <1>6, Types DEF UnitsStarted
<1>7. CASE StartNetwork BY <1>7, Types DEF StartNetwork
<1>8. CASE NetworkStarted BY <1>8, Types DEF NetworkStarted
<1>9. CASE AwaitHealth BY <1>9, Types DEF AwaitHealth
<1>10. CASE Enable BY <1>10, Types DEF Enable
<1>11. CASE Interrupt BY <1>11, Types DEF Interrupt
<1> QED BY <1>1, <1>2, <1>3, <1>4, <1>5, <1>6, <1>7, <1>8, <1>9, <1>10, <1>11 DEF Installer

LEMMA RollbackBooleans ==
    ASSUME TypeOK, Rollback
    PROVE  BooleansOK'
<1> USE DEF BooleansOK, Succeeds, Ignored, setupVars, madeVars, localVars, hostVars, unitVars, histVars
<1>1. CASE Decide BY <1>1, Types DEF Decide, Healthy
<1>2. CASE StopGate BY <1>2, Types DEF StopGate
<1>3. CASE StopUnits BY <1>3, Types DEF StopUnits
<1>4. CASE Close BY <1>4, Types DEF Close
<1>5. CASE Withdraw BY <1>5, Types DEF Withdraw
<1>6. CASE Disable BY <1>6, Types DEF Disable
<1> QED BY <1>1, <1>2, <1>3, <1>4, <1>5, <1>6 DEF Rollback

LEMMA RollbackOthers ==
    ASSUME TypeOK, Rollback
    PROVE  OthersOK'
<1> USE SetupAssumption DEF OthersOK, Goes, Fails, Fault, Succeeds, Ignored, Requested, Installing, Policies,
       setupVars, madeVars, localVars, hostVars, unitVars, histVars
<1>1. CASE Decide BY <1>1, Types DEF Decide
<1>2. CASE StopGate BY <1>2, Types DEF StopGate
<1>3. CASE StopUnits BY <1>3, Types DEF StopUnits
<1>4. CASE Close BY <1>4, Types DEF Close
<1>5. CASE Withdraw BY <1>5, Types DEF Withdraw
<1>6. CASE Disable BY <1>6, Types DEF Disable
<1> QED BY <1>1, <1>2, <1>3, <1>4, <1>5, <1>6 DEF Rollback

LEMMA UnitsBooleans ==
    ASSUME TypeOK, Units \/ CaptureCrash \/ GateCrash \/ Reboot, ~RunScript
    PROVE  BooleansOK'
<1> USE DEF BooleansOK, Succeeds, Ignored, setupVars, madeVars, localVars, hostVars, unitVars, histVars
<1>1. CASE FirewallFails BY <1>1, Types DEF FirewallFails
<1>2. CASE FirewallStarted BY <1>2, Types DEF FirewallStarted
<1>3. CASE FirewallRetry BY <1>3, Types DEF FirewallRetry
<1>4. CASE CaptureStarts BY <1>4, Types DEF CaptureStarts
<1>5. CASE CaptureRetry BY <1>5, Types DEF CaptureRetry
<1>6. CASE CaptureCrash BY <1>6, Types DEF CaptureCrash
<1>7. CASE NetworkStarts BY <1>7, Types DEF NetworkStarts
<1>8. CASE NetworkVerifies BY <1>8, Types DEF NetworkVerifies
<1>9. CASE StartGate BY <1>9, Types DEF StartGate
<1>10. CASE NetworkFails BY <1>10, Types DEF NetworkFails
<1>11. CASE NetworkRetry BY <1>11, Types DEF NetworkRetry
<1>12. CASE GateCrash BY <1>12, Types DEF GateCrash
<1>13. CASE GateRestart BY <1>13, Types DEF GateRestart
<1>14. CASE Grant BY <1>14, Types DEF Grant, Ready
<1>15. CASE Reboot BY <1>15, Types DEF Reboot
<1> QED BY <1>1, <1>2, <1>3, <1>4, <1>5, <1>6, <1>7, <1>8, <1>9, <1>10, <1>11, <1>12, <1>13, <1>14, <1>15 DEF Units, Firewall, Capture, Network, Gate

LEMMA UnitsOthers ==
    ASSUME TypeOK, Units \/ CaptureCrash \/ GateCrash \/ Reboot, ~RunScript
    PROVE  OthersOK'
<1> USE SetupAssumption DEF OthersOK, Goes, Fails, Fault, Succeeds, Ignored, Requested, Installing, Policies,
       setupVars, madeVars, localVars, hostVars, unitVars, histVars
<1>1. CASE FirewallFails BY <1>1, Types DEF FirewallFails
<1>2. CASE FirewallStarted BY <1>2, Types DEF FirewallStarted
<1>3. CASE FirewallRetry BY <1>3, Types DEF FirewallRetry
<1>4. CASE CaptureStarts BY <1>4, Types DEF CaptureStarts
<1>5. CASE CaptureRetry BY <1>5, Types DEF CaptureRetry
<1>6. CASE CaptureCrash BY <1>6, Types DEF CaptureCrash
<1>7. CASE NetworkStarts BY <1>7, Types DEF NetworkStarts
<1>8. CASE NetworkVerifies BY <1>8, Types DEF NetworkVerifies
<1>9. CASE StartGate BY <1>9, Types DEF StartGate
<1>10. CASE NetworkFails BY <1>10, Types DEF NetworkFails
<1>11. CASE NetworkRetry BY <1>11, Types DEF NetworkRetry
<1>12. CASE GateCrash BY <1>12, Types DEF GateCrash
<1>13. CASE GateRestart BY <1>13, Types DEF GateRestart
<1>14. CASE Grant BY <1>14, Types DEF Grant
<1>15. CASE Reboot BY <1>15, Types DEF Reboot
<1> QED BY <1>1, <1>2, <1>3, <1>4, <1>5, <1>6, <1>7, <1>8, <1>9, <1>10, <1>11, <1>12, <1>13, <1>14, <1>15 DEF Units, Firewall, Capture, Network, Gate

LEMMA TypeStep ==
    ASSUME TypeOK, [Next]_vars
    PROVE  TypeOK'
<1> SUFFICES BooleansOK' /\ OthersOK' BY DEF TypeOK, BooleansOK, OthersOK
<1>5. CASE UNCHANGED vars
  BY <1>5, Types DEF BooleansOK, OthersOK, vars, setupVars, hostVars, unitVars, histVars,
     Installing
<1>1. CASE RunScript BY <1>1, ScriptBooleans, ScriptOthers
<1>2. CASE Installer \/ Interrupt BY <1>2, InstallerBooleans, InstallerOthers
<1>3. CASE Rollback BY <1>3, RollbackBooleans, RollbackOthers
<1>4. CASE (Units \/ CaptureCrash \/ GateCrash \/ Reboot) /\ ~RunScript
  BY <1>4, UnitsBooleans, UnitsOthers
<1> QED BY <1>1, <1>2, <1>3, <1>4, <1>5 DEF Next

-----------------------------------------------------------------------------
\* What the script leaves.

LEMMA Intervals ==
    ASSUME NEW n \in Nat
    PROVE  /\ (1..n) \cup {n + 1} = 1..(n + 1)
           /\ n > 0 => (1..n) \ {n} = 1..(n - 1)
OBVIOUS

LEMMA ScriptSteps ==
    ASSUME TypeOK, SetupInv, RunScript
    PROVE  SetupInv'
<1>1. installed \in Nat /\ digest \in Policies /\ port \in Policies BY DEF TypeOK
<1>2. 1..0 = {} OBVIOUS
<1> USE <1>1, <1>2 DEF SetupInv, CleanUnlessCut, Installing, Nothing, Everything, Policies, madeVars,
       localVars
<1>3. CASE Refuse BY <1>3 DEF Refuse
<1>4. CASE Create BY <1>4 DEF Create
<1>5. CASE Save BY <1>5 DEF Save
<1>6. CASE AddTable BY <1>6 DEF AddTable
<1>7. CASE AddRule BY <1>7, Intervals DEF AddRule
<1>8. CASE Installed BY <1>8 DEF Installed
<1>9. CASE UndoRule
  <2>1. step' = "undo" /\ installed' = installed - 1 /\ UNCHANGED <<table, tabled>>
        /\ (cut' \/ (UNCHANGED cut /\ rules' = rules \ {installed})) /\ installed > 0
    BY <1>9 DEF UndoRule
  <2>2. (1..installed) \ {installed} = 1..(installed - 1) BY <2>1, Intervals
  <2>3. ~cut => (table <=> tabled) /\ rules = 1..installed BY <1>9 DEF UndoRule
  <2>4. ~cut' => ~cut /\ rules' = rules \ {installed} BY <2>1
  <2>5. ~cut' => (table' <=> tabled') /\ rules' = 1..installed' BY <2>1, <2>2, <2>3, <2>4
  <2> QED BY <2>1, <2>5
<1>10. CASE UndoTable BY <1>10 DEF UndoTable
<1>11. CASE Unlink BY <1>11 DEF Unlink
<1>12. CASE Reuse BY <1>12 DEF Reuse
<1>13. CASE Verify BY <1>13 DEF Verify, Ready
<1>14. CASE VerifyFails BY <1>14 DEF VerifyFails, Ready
<1>15. CASE PreparationFails BY <1>15 DEF PreparationFails
<1>16. CASE CommandFails BY <1>16 DEF CommandFails
<1>17. CASE TimesOut BY <1>17 DEF TimesOut
<1>18. CASE UndoTimesOut BY <1>18 DEF UndoTimesOut
<1>19. CASE Killed BY <1>19 DEF Killed
<1> QED BY <1>3, <1>4, <1>5, <1>6, <1>7, <1>8, <1>9, <1>10, <1>11, <1>12, <1>13, <1>14, <1>15, <1>16, <1>17, <1>18, <1>19 DEF RunScript, Script, ScriptFails

LEMMA SetupStep ==
    ASSUME TypeOK, SetupInv, OrderInv, [Next]_vars
    PROVE  SetupInv'
<1>1. CASE UNCHANGED setupVars
  BY <1>1 DEF SetupInv, CleanUnlessCut, Installing, Nothing, Everything, setupVars
<1>2. CASE /\ UNCHANGED <<madeVars, localVars, cut>> /\ ~Installing /\ ~Installing'
  BY <1>2 DEF SetupInv, CleanUnlessCut, Installing, Nothing, Everything, madeVars, localVars
<1>3. CASE Reboot
  BY <1>3 DEF Reboot, SetupInv, CleanUnlessCut, Installing, Nothing
<1>4. CASE RunScript BY <1>4, ScriptSteps
<1>5. CASE StartUnits
  BY <1>2, <1>5 DEF StartUnits, Goes, OrderInv, TypeOK, Installing
<1>6. CASE FirewallFails \/ FirewallStarted \/ FirewallRetry
  BY <1>2, <1>6 DEF FirewallFails, FirewallStarted, FirewallRetry, TypeOK, Installing
<1>7. CASE Installer /\ ~StartUnits
  BY <1>1, <1>7 DEF Installer, StartWeb, WriteSite, Reload, Allow, UnitsStarted, StartNetwork,
     NetworkStarted, AwaitHealth, Enable
<1>8. CASE Rollback \/ Interrupt
  BY <1>1, <1>8 DEF Rollback, Decide, StopGate, StopUnits, Close, Withdraw, Disable, Interrupt
<1>9. CASE Capture \/ Network \/ Gate \/ CaptureCrash \/ GateCrash
  BY <1>1, <1>9 DEF Capture, CaptureStarts, CaptureRetry, CaptureCrash, Network, NetworkStarts,
     NetworkVerifies, StartGate, NetworkFails, NetworkRetry, Gate, GateCrash, GateRestart, Grant
<1>10. CASE UNCHANGED vars BY <1>1, <1>10 DEF vars
<1> QED BY <1>3, <1>4, <1>5, <1>6, <1>7, <1>8, <1>9, <1>10 DEF Next, Units, Firewall

-----------------------------------------------------------------------------
\* What a roll-back takes back, and what it keeps.

LEMMA WithdrawStep ==
    ASSUME TypeOK, WithdrawInv, [Next]_vars
    PROVE  WithdrawInv'
<1> USE DEF TypeOK, WithdrawInv, Goes, Fails, Succeeds, Ignored, Report, Policies, hostVars, histVars, Ended
<1>1. CASE StartWeb BY <1>1 DEF StartWeb
<1>2. CASE WriteSite
  <2>1. pc = "site" /\ pc' \in {"reload", "rollback"} /\ UNCHANGED <<port, served, enabled>>
    BY <1>2 DEF WriteSite
  <2>2. CASE site' = TRUE /\ UNCHANGED missed /\ flags' = flags \cup {"site"}
    BY <2>1, <2>2
  <2>3. CASE missed' = (missed \/ site') /\ site' \in BOOLEAN /\ UNCHANGED flags
    BY <2>1, <2>3
  <2> QED BY <1>2, <2>2, <2>3 DEF WriteSite
<1>3. CASE Reload BY <1>3 DEF Reload
<1>4. CASE Allow BY <1>4 DEF Allow
<1>5. CASE StartUnits BY <1>5 DEF StartUnits
<1>6. CASE UnitsStarted BY <1>6 DEF UnitsStarted
<1>7. CASE StartNetwork BY <1>7 DEF StartNetwork
<1>8. CASE NetworkStarted BY <1>8 DEF NetworkStarted
<1>9. CASE AwaitHealth BY <1>9 DEF AwaitHealth
<1>10. CASE Enable BY <1>10 DEF Enable
<1>11. CASE Interrupt BY <1>11 DEF Interrupt
<1>12. CASE Decide BY <1>12 DEF Decide, Healthy
<1>13. CASE StopGate BY <1>13 DEF StopGate
<1>14. CASE StopUnits BY <1>14 DEF StopUnits
<1>15. CASE Close BY <1>15 DEF Close
<1>16. CASE Withdraw BY <1>16 DEF Withdraw
<1>17. CASE Disable BY <1>17 DEF Disable
<1>18. CASE RunScript BY <1>18 DEF RunScript
<1>19. CASE FirewallFails BY <1>19 DEF FirewallFails
<1>20. CASE FirewallStarted BY <1>20 DEF FirewallStarted
<1>21. CASE FirewallRetry BY <1>21 DEF FirewallRetry
<1>22. CASE CaptureStarts BY <1>22 DEF CaptureStarts
<1>23. CASE CaptureRetry BY <1>23 DEF CaptureRetry
<1>24. CASE CaptureCrash BY <1>24 DEF CaptureCrash
<1>25. CASE NetworkStarts BY <1>25 DEF NetworkStarts
<1>26. CASE NetworkVerifies BY <1>26 DEF NetworkVerifies
<1>27. CASE StartGate BY <1>27 DEF StartGate
<1>28. CASE NetworkFails BY <1>28 DEF NetworkFails
<1>29. CASE NetworkRetry BY <1>29 DEF NetworkRetry
<1>30. CASE GateCrash BY <1>30 DEF GateCrash
<1>31. CASE GateRestart BY <1>31 DEF GateRestart
<1>32. CASE Grant BY <1>32 DEF Grant
<1>33. CASE Reboot BY <1>33 DEF Reboot
<1>34. CASE UNCHANGED vars BY <1>34 DEF vars
<1> QED BY <1>1, <1>2, <1>3, <1>4, <1>5, <1>6, <1>7, <1>8, <1>9, <1>10, <1>11,
     <1>12, <1>13, <1>14, <1>15, <1>16, <1>17, <1>18, <1>19, <1>20, <1>21, <1>22,
     <1>23, <1>24, <1>25, <1>26, <1>27, <1>28, <1>29, <1>30, <1>31, <1>32, <1>33,
     <1>34 DEF Next, Installer, Rollback, Units, Firewall, Capture, Network, Gate

LEMMA CarryStep ==
    ASSUME TypeOK, CarryInv, [Next]_vars
    PROVE  CarryInv'
<1> USE DEF TypeOK, CarryInv, Goes, Fails, Report, Requested, Ended, unitVars, histVars
<1>1. CASE StartWeb BY <1>1 DEF StartWeb
<1>2. CASE WriteSite BY <1>2 DEF WriteSite
<1>3. CASE Reload BY <1>3 DEF Reload
<1>4. CASE Allow BY <1>4 DEF Allow
<1>5. CASE StartUnits BY <1>5 DEF StartUnits
<1>6. CASE UnitsStarted BY <1>6 DEF UnitsStarted
<1>7. CASE StartNetwork BY <1>7 DEF StartNetwork
<1>8. CASE NetworkStarted BY <1>8 DEF NetworkStarted
<1>9. CASE AwaitHealth BY <1>9 DEF AwaitHealth
<1>10. CASE Enable BY <1>10 DEF Enable
<1>11. CASE Interrupt BY <1>11 DEF Interrupt
<1>12. CASE Decide BY <1>12 DEF Decide, Healthy
<1>13. CASE StopGate BY <1>13 DEF StopGate
<1>14. CASE StopUnits BY <1>14 DEF StopUnits
<1>15. CASE Close BY <1>15 DEF Close
<1>16. CASE Withdraw BY <1>16 DEF Withdraw
<1>17. CASE Disable BY <1>17 DEF Disable
<1>18. CASE RunScript BY <1>18 DEF RunScript
<1>19. CASE FirewallFails BY <1>19 DEF FirewallFails
<1>20. CASE FirewallStarted BY <1>20 DEF FirewallStarted
<1>21. CASE FirewallRetry BY <1>21 DEF FirewallRetry
<1>22. CASE CaptureStarts BY <1>22 DEF CaptureStarts
<1>23. CASE CaptureRetry BY <1>23 DEF CaptureRetry
<1>24. CASE CaptureCrash BY <1>24 DEF CaptureCrash
<1>25. CASE NetworkStarts BY <1>25 DEF NetworkStarts
<1>26. CASE NetworkVerifies BY <1>26 DEF NetworkVerifies
<1>27. CASE StartGate BY <1>27 DEF StartGate
<1>28. CASE NetworkFails BY <1>28 DEF NetworkFails
<1>29. CASE NetworkRetry BY <1>29 DEF NetworkRetry
<1>30. CASE GateCrash BY <1>30 DEF GateCrash
<1>31. CASE GateRestart BY <1>31 DEF GateRestart
<1>32. CASE Grant BY <1>32 DEF Grant
<1>33. CASE Reboot BY <1>33 DEF Reboot
<1>34. CASE UNCHANGED vars BY <1>34 DEF vars
<1> QED BY <1>1, <1>2, <1>3, <1>4, <1>5, <1>6, <1>7, <1>8, <1>9, <1>10, <1>11,
     <1>12, <1>13, <1>14, <1>15, <1>16, <1>17, <1>18, <1>19, <1>20, <1>21, <1>22,
     <1>23, <1>24, <1>25, <1>26, <1>27, <1>28, <1>29, <1>30, <1>31, <1>32, <1>33,
     <1>34 DEF Next, Installer, Rollback, Units, Firewall, Capture, Network, Gate

-----------------------------------------------------------------------------
\* What a gate rests on.

LEMMA ScriptKeeps ==
    ASSUME RunScript, Everything, ~Installing
    PROVE  Everything' /\ ~Installing'
<1> USE DEF Everything, Installing, Policies, madeVars
<1>1. CASE Script BY <1>1 DEF Script, Refuse, Create, Save, AddTable, AddRule, Installed, UndoRule,
     UndoTable, Unlink, Reuse, Verify, VerifyFails
<1>2. CASE ScriptFails BY <1>2 DEF ScriptFails, PreparationFails, CommandFails, TimesOut,
     UndoTimesOut, Killed
<1> QED BY <1>1, <1>2 DEF RunScript

LEMMA OrderStep ==
    ASSUME TypeOK, SetupInv, OrderInv, [Next]_vars
    PROVE  OrderInv'
<1> USE DEF TypeOK, OrderInv, Goes, Fails, Report, Requested, Ended, setupVars, madeVars, localVars,
       unitVars, Everything, Installing
<1>1. CASE StartWeb BY <1>1 DEF StartWeb
<1>2. CASE WriteSite BY <1>2 DEF WriteSite
<1>3. CASE Reload BY <1>3 DEF Reload
<1>4. CASE Allow BY <1>4 DEF Allow
<1>5. CASE StartUnits BY <1>5 DEF StartUnits
<1>6. CASE UnitsStarted BY <1>6 DEF UnitsStarted
<1>7. CASE StartNetwork BY <1>7 DEF StartNetwork
<1>8. CASE NetworkStarted BY <1>8 DEF NetworkStarted
<1>9. CASE AwaitHealth BY <1>9 DEF AwaitHealth
<1>10. CASE Enable BY <1>10 DEF Enable
<1>11. CASE Interrupt BY <1>11 DEF Interrupt
<1>12. CASE Decide BY <1>12 DEF Decide, Healthy
<1>13. CASE StopGate BY <1>13 DEF StopGate
<1>14. CASE StopUnits BY <1>14 DEF StopUnits
<1>15. CASE Close BY <1>15 DEF Close
<1>16. CASE Withdraw BY <1>16 DEF Withdraw
<1>17. CASE Disable BY <1>17 DEF Disable
<1>18. CASE RunScript BY <1>18, ScriptKeeps DEF RunScript
<1>19. CASE FirewallFails BY <1>19 DEF FirewallFails
<1>20. CASE FirewallStarted BY <1>20 DEF FirewallStarted
<1>21. CASE FirewallRetry BY <1>21 DEF FirewallRetry
<1>22. CASE CaptureStarts BY <1>22 DEF CaptureStarts
<1>23. CASE CaptureRetry BY <1>23 DEF CaptureRetry
<1>24. CASE CaptureCrash BY <1>24 DEF CaptureCrash
<1>25. CASE NetworkStarts BY <1>25 DEF NetworkStarts
<1>26. CASE NetworkVerifies BY <1>26 DEF NetworkVerifies, Ready
<1>27. CASE StartGate BY <1>27 DEF StartGate
<1>28. CASE NetworkFails BY <1>28 DEF NetworkFails
<1>29. CASE NetworkRetry BY <1>29 DEF NetworkRetry
<1>30. CASE GateCrash BY <1>30 DEF GateCrash
<1>31. CASE GateRestart BY <1>31 DEF GateRestart
<1>32. CASE Grant BY <1>32 DEF Grant
<1>33. CASE Reboot BY <1>33 DEF Reboot
<1>34. CASE UNCHANGED vars BY <1>34 DEF vars
<1> QED BY <1>1, <1>2, <1>3, <1>4, <1>5, <1>6, <1>7, <1>8, <1>9, <1>10, <1>11,
     <1>12, <1>13, <1>14, <1>15, <1>16, <1>17, <1>18, <1>19, <1>20, <1>21, <1>22,
     <1>23, <1>24, <1>25, <1>26, <1>27, <1>28, <1>29, <1>30, <1>31, <1>32, <1>33,
     <1>34 DEF Next, Installer, Rollback, Units, Firewall, Capture, Network, Gate

-----------------------------------------------------------------------------
\* Theorems.

LEMMA Invariant == Spec => []Inv
<1>1. Init => Inv
  <2>1. 0 \in 0..Chains /\ 0 \in 0..MaxFaults /\ {} \subseteq 1..Chains BY SetupAssumption
  <2>2. Init => BooleansOK
    BY DEF Init, SetupInit, BooleansOK
  <2>3. Init => OthersOK
    BY <2>1 DEF Init, SetupInit, OthersOK, Policies, Installing
  <2>4. Init => SetupInv /\ OrderInv /\ WithdrawInv /\ CarryInv
    BY DEF Init, SetupInit, SetupInv, OrderInv, WithdrawInv, CarryInv, CleanUnlessCut,
       Installing, Nothing
  <2> QED BY <2>2, <2>3, <2>4, Types DEF Inv
<1>2. Inv /\ [Next]_vars => Inv'
  BY TypeStep, SetupStep, OrderStep, WithdrawStep, CarryStep DEF Inv
<1> QED BY <1>1, <1>2, PTL DEF Spec

\* Files, rules, flags and units keep their types: no roll-back removes a rule
\* that was not installed, and the firewall unit runs one script at a time.
THEOREM ServicesTypeCorrect == Spec => []TypeOK
<1>1. Inv => TypeOK BY DEF Inv
<1> QED BY <1>1, Invariant, PTL

\* Whatever command of the firewall script fails, its roll-back leaves all or
\* nothing, unless it was killed or could not undo what it had done.
THEOREM SetupLeavesAllOrNothing == Spec => []CleanUnlessCut
<1>1. Inv => CleanUnlessCut BY DEF Inv, SetupInv
<1> QED BY <1>1, Invariant, PTL

\* No gate runs without the whole of its verified firewall rules, however often
\* units fail and are started again.
THEOREM GateIsVerified == Spec => []VerifiedBeforeGate
<1>1. Inv => VerifiedBeforeGate BY DEF Inv, OrderInv, VerifiedBeforeGate
<1> QED BY <1>1, Invariant, PTL

\* A failed installation has closed the port, removed the site and disabled the
\* units, wherever it failed.
THEOREM FailureWithdraws == Spec => []Withdrawn
<1>1. Inv => Withdrawn
  BY DEF Inv, TypeOK, Policies, WithdrawInv, Withdrawn
<1> QED BY <1>1, Invariant, PTL

\* The roll-back never stops a collector that carries redirected connections.
THEOREM RollbackKeepsCollector == Spec => []CollectorKept
<1>1. Inv => CollectorKept BY DEF Inv, CarryInv, CollectorKept
<1> QED BY <1>1, Invariant, PTL

-----------------------------------------------------------------------------
\* What a successful installation leaves, and what its units wait for.

UnitStages == {"units_wait", "network", "network_wait", "health", "enable", "done"}

\* A stage of the installer rests on the stages before it, and no failing unit
\* takes anything of them back.
DoneInv ==
    /\ pc \in {"reload", "port", "units"} \cup UnitStages => site
    /\ pc \in {"port", "units"} \cup UnitStages => served
    /\ pc \in {"units"} \cup UnitStages => port = "open"
    /\ pc = "done" <=> enabled = "all"

\* A unit that is started asks for the units that wait for it, and nothing but
\* the roll-back takes their jobs back.
JobsInv ==
    /\ pc \in UnitStages => fw # "inactive"
    /\ pc \in UnitStages /\ fw = "active" => capture # "inactive" /\ net # "inactive"
    /\ net = "active" => gate # "none" \/ pc \in {"close", "withdraw", "disable", "failed", "killed"}

\* An installer that ends well has opened the port for a site that is served and
\* has enabled all of its units: it never reports a half-installed dashboard.
SuccessIsWhole == pc = "done" => site /\ served /\ port = "open" /\ enabled = "all"

\* What the activation rests on: while enabled units have not started the gate,
\* the firewall unit runs or waits to run again, or it has started and the
\* network unit, and the collector it needs, have a job, run, or wait to run
\* again.  The units never come to rest without the gate.
NobodyIsStranded ==
    enabled = "all" /\ gate = "none" =>
       \/ fw \in {"starting", "waiting"}
       \/ /\ fw = "active" /\ capture \in {"queued", "active", "waiting"}
          /\ net \in {"queued", "starting", "verified", "waiting"}

LEMMA DoneStep ==
    ASSUME TypeOK, DoneInv, [Next]_vars
    PROVE  DoneInv'
<1> USE DEF TypeOK, DoneInv, UnitStages, Policies, Goes, Fails, Report, Ended, Succeeds,
       Ignored, hostVars, unitVars, histVars
<1>1. CASE StartWeb BY <1>1 DEF StartWeb
<1>2. CASE WriteSite BY <1>2 DEF WriteSite
<1>3. CASE Reload BY <1>3 DEF Reload
<1>4. CASE Allow BY <1>4 DEF Allow
<1>5. CASE StartUnits BY <1>5 DEF StartUnits
<1>6. CASE UnitsStarted BY <1>6 DEF UnitsStarted
<1>7. CASE StartNetwork BY <1>7 DEF StartNetwork
<1>8. CASE NetworkStarted BY <1>8 DEF NetworkStarted
<1>9. CASE AwaitHealth BY <1>9 DEF AwaitHealth
<1>10. CASE Enable BY <1>10 DEF Enable
<1>11. CASE Interrupt BY <1>11 DEF Interrupt
<1>12. CASE Decide BY <1>12 DEF Decide
<1>13. CASE StopGate BY <1>13 DEF StopGate
<1>14. CASE StopUnits BY <1>14 DEF StopUnits
<1>15. CASE Close BY <1>15 DEF Close
<1>16. CASE Withdraw BY <1>16 DEF Withdraw
<1>17. CASE Disable BY <1>17 DEF Disable
<1>18. CASE RunScript BY <1>18 DEF RunScript
<1>19. CASE FirewallFails BY <1>19 DEF FirewallFails
<1>20. CASE FirewallStarted BY <1>20 DEF FirewallStarted
<1>21. CASE FirewallRetry BY <1>21 DEF FirewallRetry
<1>22. CASE CaptureStarts BY <1>22 DEF CaptureStarts
<1>23. CASE CaptureRetry BY <1>23 DEF CaptureRetry
<1>24. CASE CaptureCrash BY <1>24 DEF CaptureCrash
<1>25. CASE NetworkStarts BY <1>25 DEF NetworkStarts
<1>26. CASE NetworkVerifies BY <1>26 DEF NetworkVerifies
<1>27. CASE StartGate BY <1>27 DEF StartGate
<1>28. CASE NetworkFails BY <1>28 DEF NetworkFails
<1>29. CASE NetworkRetry BY <1>29 DEF NetworkRetry
<1>30. CASE GateCrash BY <1>30 DEF GateCrash
<1>31. CASE GateRestart BY <1>31 DEF GateRestart
<1>32. CASE Grant BY <1>32 DEF Grant
<1>33. CASE Reboot BY <1>33 DEF Reboot
<1>34. CASE UNCHANGED vars BY <1>34 DEF vars
<1> QED BY <1>1, <1>2, <1>3, <1>4, <1>5, <1>6, <1>7, <1>8, <1>9, <1>10, <1>11,
     <1>12, <1>13, <1>14, <1>15, <1>16, <1>17, <1>18, <1>19, <1>20, <1>21, <1>22,
     <1>23, <1>24, <1>25, <1>26, <1>27, <1>28, <1>29, <1>30, <1>31, <1>32, <1>33,
     <1>34 DEF Next, Installer, Rollback, Units, Firewall, Capture, Network, Gate

LEMMA JobsStep ==
    ASSUME TypeOK, OrderInv, DoneInv, JobsInv, [Next]_vars
    PROVE  JobsInv'
<1> USE DEF TypeOK, OrderInv, DoneInv, JobsInv, UnitStages, Goes, Fails, Report, Requested,
       Ended, unitVars
<1>1. CASE StartWeb BY <1>1 DEF StartWeb
<1>2. CASE WriteSite BY <1>2 DEF WriteSite
<1>3. CASE Reload BY <1>3 DEF Reload
<1>4. CASE Allow BY <1>4 DEF Allow
<1>5. CASE StartUnits BY <1>5 DEF StartUnits
<1>6. CASE UnitsStarted BY <1>6 DEF UnitsStarted
<1>7. CASE StartNetwork BY <1>7 DEF StartNetwork
<1>8. CASE NetworkStarted BY <1>8 DEF NetworkStarted
<1>9. CASE AwaitHealth BY <1>9 DEF AwaitHealth
<1>10. CASE Enable BY <1>10 DEF Enable
<1>11. CASE Interrupt BY <1>11 DEF Interrupt
<1>12. CASE Decide BY <1>12 DEF Decide
<1>13. CASE StopGate BY <1>13 DEF StopGate
<1>14. CASE StopUnits BY <1>14 DEF StopUnits
<1>15. CASE Close BY <1>15 DEF Close
<1>16. CASE Withdraw BY <1>16 DEF Withdraw
<1>17. CASE Disable BY <1>17 DEF Disable
<1>18. CASE RunScript BY <1>18 DEF RunScript
<1>19. CASE FirewallFails BY <1>19 DEF FirewallFails
<1>20. CASE FirewallStarted BY <1>20 DEF FirewallStarted
<1>21. CASE FirewallRetry BY <1>21 DEF FirewallRetry
<1>22. CASE CaptureStarts BY <1>22 DEF CaptureStarts
<1>23. CASE CaptureRetry BY <1>23 DEF CaptureRetry
<1>24. CASE CaptureCrash BY <1>24 DEF CaptureCrash
<1>25. CASE NetworkStarts BY <1>25 DEF NetworkStarts
<1>26. CASE NetworkVerifies BY <1>26 DEF NetworkVerifies
<1>27. CASE StartGate BY <1>27 DEF StartGate
<1>28. CASE NetworkFails BY <1>28 DEF NetworkFails
<1>29. CASE NetworkRetry BY <1>29 DEF NetworkRetry
<1>30. CASE GateCrash BY <1>30 DEF GateCrash
<1>31. CASE GateRestart BY <1>31 DEF GateRestart
<1>32. CASE Grant BY <1>32 DEF Grant
<1>33. CASE Reboot BY <1>33 DEF Reboot
<1>34. CASE UNCHANGED vars BY <1>34 DEF vars
<1> QED BY <1>1, <1>2, <1>3, <1>4, <1>5, <1>6, <1>7, <1>8, <1>9, <1>10, <1>11,
     <1>12, <1>13, <1>14, <1>15, <1>16, <1>17, <1>18, <1>19, <1>20, <1>21, <1>22,
     <1>23, <1>24, <1>25, <1>26, <1>27, <1>28, <1>29, <1>30, <1>31, <1>32, <1>33,
     <1>34 DEF Next, Installer, Rollback, Units, Firewall, Capture, Network, Gate

LEMMA JobsInvariant == Spec => [](DoneInv /\ JobsInv)
<1>1. Init => DoneInv /\ JobsInv
  BY DEF Init, SetupInit, DoneInv, JobsInv, UnitStages
<1>2. Inv /\ DoneInv /\ JobsInv /\ [Next]_vars => (DoneInv /\ JobsInv)'
  BY DoneStep, JobsStep DEF Inv
<1> QED BY <1>1, <1>2, Invariant, PTL DEF Spec

\* An installation that reports success is whole.
THEOREM SuccessIsComplete == Spec => []SuccessIsWhole
<1>1. DoneInv => SuccessIsWhole BY DEF DoneInv, UnitStages, SuccessIsWhole
<1> QED BY <1>1, JobsInvariant, PTL

\* Enabled units that have not started the gate yet always have work left,
\* whatever failed before.
THEOREM ActivationIsNeverStranded == Spec => []NobodyIsStranded
<1>1. TypeOK /\ DoneInv /\ JobsInv => NobodyIsStranded
  BY DEF TypeOK, DoneInv, JobsInv, UnitStages, NobodyIsStranded
<1>2. Inv => TypeOK BY DEF Inv
<1> QED BY <1>1, <1>2, Invariant, JobsInvariant, PTL

-----------------------------------------------------------------------------
\* What a redirect rests on.

\* New connections are redirected only under the whole firewall, the running
\* gate's or the one its stopped predecessor leaves: no roll-back and no retry
\* of a unit takes a rule away under a redirect.
RedirectIsGuarded == redirected => Everything /\ ~Installing

LEMMA GuardStep ==
    ASSUME TypeOK, OrderInv, RedirectIsGuarded, [Next]_vars
    PROVE  RedirectIsGuarded'
<1> USE DEF TypeOK, OrderInv, RedirectIsGuarded, Goes, Fails, setupVars, madeVars, localVars,
       unitVars, Everything, Installing
<1>1. CASE StartWeb BY <1>1 DEF StartWeb
<1>2. CASE WriteSite BY <1>2 DEF WriteSite
<1>3. CASE Reload BY <1>3 DEF Reload
<1>4. CASE Allow BY <1>4 DEF Allow
<1>5. CASE StartUnits BY <1>5 DEF StartUnits
<1>6. CASE UnitsStarted BY <1>6 DEF UnitsStarted
<1>7. CASE StartNetwork BY <1>7 DEF StartNetwork
<1>8. CASE NetworkStarted BY <1>8 DEF NetworkStarted
<1>9. CASE AwaitHealth BY <1>9 DEF AwaitHealth
<1>10. CASE Enable BY <1>10 DEF Enable
<1>11. CASE Interrupt BY <1>11 DEF Interrupt
<1>12. CASE Decide BY <1>12 DEF Decide
<1>13. CASE StopGate BY <1>13 DEF StopGate
<1>14. CASE StopUnits BY <1>14 DEF StopUnits
<1>15. CASE Close BY <1>15 DEF Close
<1>16. CASE Withdraw BY <1>16 DEF Withdraw
<1>17. CASE Disable BY <1>17 DEF Disable
<1>18. CASE RunScript BY <1>18, ScriptKeeps DEF RunScript
<1>19. CASE FirewallFails BY <1>19 DEF FirewallFails
<1>20. CASE FirewallStarted BY <1>20 DEF FirewallStarted
<1>21. CASE FirewallRetry BY <1>21 DEF FirewallRetry
<1>22. CASE CaptureStarts BY <1>22 DEF CaptureStarts
<1>23. CASE CaptureRetry BY <1>23 DEF CaptureRetry
<1>24. CASE CaptureCrash BY <1>24 DEF CaptureCrash
<1>25. CASE NetworkStarts BY <1>25 DEF NetworkStarts
<1>26. CASE NetworkVerifies BY <1>26 DEF NetworkVerifies
<1>27. CASE StartGate BY <1>27 DEF StartGate
<1>28. CASE NetworkFails BY <1>28 DEF NetworkFails
<1>29. CASE NetworkRetry BY <1>29 DEF NetworkRetry
<1>30. CASE GateCrash BY <1>30 DEF GateCrash
<1>31. CASE GateRestart BY <1>31 DEF GateRestart
<1>32. CASE Grant BY <1>32 DEF Grant
<1>33. CASE Reboot BY <1>33 DEF Reboot
<1>34. CASE UNCHANGED vars BY <1>34 DEF vars
<1> QED BY <1>1, <1>2, <1>3, <1>4, <1>5, <1>6, <1>7, <1>8, <1>9, <1>10, <1>11,
     <1>12, <1>13, <1>14, <1>15, <1>16, <1>17, <1>18, <1>19, <1>20, <1>21, <1>22,
     <1>23, <1>24, <1>25, <1>26, <1>27, <1>28, <1>29, <1>30, <1>31, <1>32, <1>33,
     <1>34 DEF Next, Installer, Rollback, Units, Firewall, Capture, Network, Gate

\* However an installation, its roll-back and the restarts of the units
\* interleave, no redirect is left without the rules it was verified with.
THEOREM RedirectsAreGuarded == Spec => []RedirectIsGuarded
<1>1. Init => RedirectIsGuarded BY DEF Init, RedirectIsGuarded
<1>2. Inv /\ RedirectIsGuarded /\ [Next]_vars => RedirectIsGuarded'
  BY GuardStep DEF Inv
<1> QED BY <1>1, <1>2, Invariant, PTL DEF Spec

-----------------------------------------------------------------------------
\* What an interrupted roll-back leaves.

\* Something the script has made and no longer knows of.
Leftover == (table /\ ~tabled) \/ \E i \in rules : i > installed

CutInv ==
    /\ Installing => hash # "absent"
    /\ cut /\ Installing => step = "undo" /\ Leftover
    /\ cut /\ ~Installing => ~Nothing

\* What an interrupted roll-back has left stays as it is until a reboot: no later
\* run of the script, retry of the unit or roll-back of the installer installs
\* over it, completes it or takes any of it away.  If it is less than everything,
\* no gate starts on it.  It may be everything, when the command of the last rule
\* took effect and timed out, and then the first one of the roll-back timed out
\* without any: the next run of the script reuses and verifies that, and the gate
\* starts without a reboot.
OnlyRebootRepairs ==
    [][cut /\ ~Installing =>
         \/ Reboot
         \/ /\ UNCHANGED madeVars /\ cut' /\ ~Installing'
            /\ ~Everything => gate' = "none"]_vars

LEMMA CutScript ==
    ASSUME TypeOK, SetupInv, CutInv, RunScript
    PROVE  CutInv'
<1>1. installed \in Nat /\ digest \in Policies /\ port \in Policies BY DEF TypeOK
<1>2. "absent" \notin Policies /\ "empty" \notin Policies BY DEF Policies
<1> USE <1>1, <1>2 DEF CutInv, Leftover, Installing, Nothing, madeVars, localVars
<1>3. CASE Refuse BY <1>3 DEF Refuse
<1>4. CASE Create BY <1>4 DEF Create
<1>5. CASE Save BY <1>5 DEF Save
<1>6. CASE AddTable BY <1>6 DEF AddTable
<1>7. CASE AddRule BY <1>7 DEF AddRule
<1>8. CASE Installed BY <1>8 DEF Installed
<1>9. CASE UndoRule
  <2>1. /\ step = "undo" /\ step' = "undo" /\ installed > 0 /\ installed' = installed - 1
        /\ UNCHANGED <<hash, table, tabled>>
        /\ \/ rules' = rules \ {installed} /\ UNCHANGED cut
           \/ cut' = TRUE /\ UNCHANGED rules
    BY <1>9 DEF UndoRule
  <2>2. hash' # "absent" BY <2>1
  <2>3. CASE rules' = rules \ {installed} /\ UNCHANGED cut
    <3>1. \A i \in rules : i \in Nat BY SetupAssumption DEF TypeOK
    <3>2. ASSUME NEW i \in rules, i > installed
          PROVE  i \in rules' /\ i > installed'
      BY <2>1, <2>3, <3>1, <3>2
    <3>3. Leftover => Leftover' BY <2>1, <3>2
    <3> QED BY <2>1, <2>2, <2>3, <3>3
  <2>4. CASE cut' = TRUE /\ UNCHANGED rules
    <3>1. cut \/ (rules = 1..installed /\ (table <=> tabled)) BY <2>1 DEF SetupInv
    <3>2. CASE cut
      <4>1. \A i \in rules : i \in Nat BY SetupAssumption DEF TypeOK
      <4>2. ASSUME NEW i \in rules, i > installed
            PROVE  i \in rules' /\ i > installed'
        BY <2>1, <2>4, <4>1, <4>2
      <4>3. Leftover => Leftover' BY <2>1, <4>2
      <4> QED BY <2>1, <2>2, <2>4, <3>2, <4>3
    <3>3. CASE rules = 1..installed
      <4>1. installed \in rules' /\ installed > installed' BY <2>1, <2>4, <3>3
      <4> QED BY <2>1, <2>2, <2>4, <4>1
    <3> QED BY <3>1, <3>2, <3>3
  <2> QED BY <2>1, <2>3, <2>4
<1>10. CASE UndoTable
  <2>1. /\ step = "undo" /\ step' = "undo" /\ tabled /\ ~tabled'
        /\ UNCHANGED <<hash, rules, installed>>
        /\ \/ ~table' /\ UNCHANGED cut
           \/ cut' = TRUE /\ UNCHANGED table
    BY <1>10 DEF UndoTable
  <2>2. CASE ~table' /\ UNCHANGED cut
    <3>1. cut => \E i \in rules : i > installed BY <2>1
    <3> QED BY <2>1, <2>2, <3>1
  <2>3. CASE cut' = TRUE /\ UNCHANGED table
    <3>1. cut \/ table BY <2>1 DEF SetupInv
    <3>2. (table' /\ ~tabled') \/ \E i \in rules' : i > installed' BY <2>1, <2>3, <3>1
    <3> QED BY <2>1, <2>3, <3>2
  <2> QED BY <2>2, <2>3, <2>1
<1>11. CASE Unlink BY <1>11 DEF Unlink
<1>12. CASE Reuse BY <1>12 DEF Reuse
<1>13. CASE Verify BY <1>13 DEF Verify
<1>14. CASE VerifyFails BY <1>14 DEF VerifyFails
<1>15. CASE PreparationFails BY <1>15 DEF PreparationFails
<1>16. CASE CommandFails BY <1>16 DEF CommandFails
<1>17. CASE TimesOut
  <2>1. CASE step = "table" /\ table' = TRUE /\ UNCHANGED rules
    BY <1>17, <2>1 DEF TimesOut, SetupInv
  <2>2. CASE rules' = rules \cup {installed + 1}
    <3>1. installed + 1 \in rules' /\ installed + 1 > installed' BY <1>17, <2>2 DEF TimesOut
    <3> QED BY <1>17, <3>1 DEF TimesOut
  <2> QED BY <1>17, <2>1, <2>2 DEF TimesOut
<1>18. CASE UndoTimesOut BY <1>18 DEF UndoTimesOut
<1>19. CASE Killed BY <1>19 DEF Killed
<1> QED BY <1>3, <1>4, <1>5, <1>6, <1>7, <1>8, <1>9, <1>10, <1>11, <1>12, <1>13, <1>14, <1>15, <1>16, <1>17, <1>18, <1>19 DEF RunScript, Script, ScriptFails

LEMMA CutStep ==
    ASSUME TypeOK, SetupInv, OrderInv, CutInv, [Next]_vars
    PROVE  CutInv'
<1>1. CASE UNCHANGED setupVars
  BY <1>1 DEF CutInv, Leftover, Installing, Nothing, setupVars
<1>2. CASE /\ UNCHANGED <<madeVars, localVars, cut>> /\ ~Installing /\ ~Installing'
  BY <1>2 DEF CutInv, Installing, Nothing, madeVars, localVars
<1>3. CASE Reboot BY <1>3 DEF Reboot, CutInv, Installing
<1>4. CASE RunScript BY <1>4, CutScript
<1>5. CASE StartUnits
  BY <1>2, <1>5 DEF StartUnits, Goes, OrderInv, TypeOK, Installing
<1>6. CASE FirewallFails \/ FirewallStarted \/ FirewallRetry
  BY <1>2, <1>6 DEF FirewallFails, FirewallStarted, FirewallRetry, TypeOK, Installing
<1>7. CASE Installer /\ ~StartUnits
  BY <1>1, <1>7 DEF Installer, StartWeb, WriteSite, Reload, Allow, UnitsStarted, StartNetwork,
     NetworkStarted, AwaitHealth, Enable
<1>8. CASE Rollback \/ Interrupt
  BY <1>1, <1>8 DEF Rollback, Decide, StopGate, StopUnits, Close, Withdraw, Disable, Interrupt
<1>9. CASE Capture \/ Network \/ Gate \/ CaptureCrash \/ GateCrash
  BY <1>1, <1>9 DEF Capture, CaptureStarts, CaptureRetry, CaptureCrash, Network, NetworkStarts,
     NetworkVerifies, StartGate, NetworkFails, NetworkRetry, Gate, GateCrash, GateRestart, Grant
<1>10. CASE UNCHANGED vars BY <1>1, <1>10 DEF vars
<1> QED BY <1>3, <1>4, <1>5, <1>6, <1>7, <1>8, <1>9, <1>10 DEF Next, Units, Firewall

\* Outside an installation, a run of the script changes nothing it finds.
LEMMA RefusedScript ==
    ASSUME CutInv, RunScript, cut, ~Installing
    PROVE  /\ UNCHANGED madeVars /\ cut' /\ ~Installing'
<1> USE DEF CutInv, Installing, Nothing, madeVars, localVars
<1>1. CASE Script BY <1>1 DEF Script, Refuse, Create, Save, AddTable, AddRule, Installed, UndoRule,
     UndoTable, Unlink, Reuse, Verify, VerifyFails
<1>2. CASE ScriptFails BY <1>2 DEF ScriptFails, PreparationFails, CommandFails, TimesOut,
     UndoTimesOut, Killed
<1> QED BY <1>1, <1>2 DEF RunScript

\* Of the other steps, only a reboot changes what the script has made.
LEMMA OthersKeep ==
    ASSUME TypeOK, OrderInv, Next, ~RunScript, ~Reboot, ~Installing
    PROVE  UNCHANGED <<madeVars, cut>> /\ ~Installing'
<1> USE DEF TypeOK, OrderInv, Installing, setupVars, madeVars, Goes
<1>1. CASE Installer
  BY <1>1 DEF Installer, StartWeb, WriteSite, Reload, Allow, StartUnits, UnitsStarted,
     StartNetwork, NetworkStarted, AwaitHealth, Enable
<1>2. CASE Rollback \/ Interrupt
  BY <1>2 DEF Rollback, Decide, StopGate, StopUnits, Close, Withdraw, Disable, Interrupt
<1>3. CASE FirewallFails \/ FirewallStarted \/ FirewallRetry
  BY <1>3 DEF FirewallFails, FirewallStarted, FirewallRetry
<1>4. CASE Capture \/ Network \/ Gate \/ CaptureCrash \/ GateCrash
  BY <1>4 DEF Capture, CaptureStarts, CaptureRetry, CaptureCrash, Network, NetworkStarts,
     NetworkVerifies, StartGate, NetworkFails, NetworkRetry, Gate, GateCrash, GateRestart, Grant
<1> QED BY <1>1, <1>2, <1>3, <1>4 DEF Next, Units, Firewall

\* Nothing but a reboot changes what an interrupted roll-back leaves, and no gate
\* starts on it unless it is everything.
THEOREM CutNeedsReboot == Spec => OnlyRebootRepairs
<1>1. Init => CutInv BY DEF Init, SetupInit, CutInv, Installing
<1>2. Inv /\ CutInv /\ [Next]_vars => CutInv' BY CutStep DEF Inv
<1>3. Inv /\ Inv' /\ CutInv /\ [Next]_vars =>
        [cut /\ ~Installing =>
           \/ Reboot
           \/ /\ UNCHANGED madeVars /\ cut' /\ ~Installing'
              /\ ~Everything => gate' = "none"]_vars
  <2> SUFFICES ASSUME Inv, Inv', CutInv, Next, cut, ~Installing, ~Reboot
               PROVE  /\ UNCHANGED madeVars /\ cut' /\ ~Installing'
                      /\ ~Everything => gate' = "none"
    OBVIOUS
  <2>1. UNCHANGED madeVars /\ cut' /\ ~Installing'
    BY RefusedScript, OthersKeep DEF Inv
  <2>2. ASSUME ~Everything PROVE gate' = "none"
    <3>1. ~Everything' BY <2>1, <2>2 DEF madeVars, Everything
    <3> QED BY <3>1 DEF Inv, OrderInv
  <2> QED BY <2>1, <2>2
<1> QED BY <1>1, <1>2, <1>3, Invariant, PTL DEF Spec, OnlyRebootRepairs
=============================================================================
