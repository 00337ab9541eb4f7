------------------------------ MODULE Services ------------------------------
(***************************************************************************)
(* The installation of the dashboard (install.sh, from the first service   *)
(* it starts) with its roll-back, and the units that prepare the firewall  *)
(* and start the gate, at installation and at boot.                        *)
(*                                                                         *)
(* A unit that is `queued' has a start job; one that has failed is         *)
(* `waiting' until the service manager starts it again.                    *)
(***************************************************************************)
EXTENDS GateSetup

VARIABLES
    pc,        \* where the installer is
    flags,     \* `site_installed', `firewall_added' and `gate_started'
    site,      \* the dashboard's site file
    served,    \* has Caddy loaded it
    enabled,   \* how many of the units are enabled
    fw, capture, net, gate,  \* the units
    redirected,  \* new connections go to the collector
    booted,
    missed,    \* history: a command failed and left its effect
    carrying   \* history: the gate was redirecting when the roll-back decided

hostVars == <<port, site, served, enabled>>
unitVars == <<fw, capture, net, gate, redirected>>
histVars == <<missed, carrying>>
vars == <<setupVars, hostVars, faults, pc, flags, unitVars, booted, histVars>>

Init ==
    /\ SetupInit
    /\ pc = "web" /\ flags = {}
    /\ site = FALSE /\ served = FALSE /\ enabled = "none"
    /\ fw = "inactive" /\ capture = "inactive" /\ net = "inactive" /\ gate = "none"
    /\ redirected = FALSE /\ booted = FALSE /\ missed = FALSE /\ carrying = FALSE

\* A unit that is active or waits to be started gets no job of its own.
Requested(unit) == IF unit = "inactive" THEN "queued" ELSE unit

\* A job that fails ends the `systemctl start' that waits for it.
Report(stage) == pc' = IF pc = stage THEN "rollback" ELSE pc

-----------------------------------------------------------------------------
\* install.sh.

Goes(from, to) == pc = from /\ pc' = to /\ UNCHANGED faults
Fails(from) == pc = from /\ pc' = "rollback" /\ Fault

StartWeb ==
    /\ Goes("web", "site") \/ Fails("web")
    /\ UNCHANGED <<setupVars, hostVars, flags, unitVars, booted, histVars>>

\* A write that fails may leave a file the flag does not tell of.
WriteSite ==
    /\ \/ Goes("site", "reload") /\ site' = TRUE /\ UNCHANGED missed
          /\ flags' = flags \cup {"site"}
       \/ Fails("site") /\ site' \in BOOLEAN /\ missed' = (missed \/ site')
          /\ UNCHANGED flags
    /\ UNCHANGED <<setupVars, port, served, enabled, unitVars, booted, carrying>>

\* Caddy loads the site, which has to answer.
Reload ==
    /\ \/ Goes("reload", "port") /\ served' = site
       \/ Fails("reload") /\ served' \in {served, site}
    /\ UNCHANGED <<setupVars, port, site, enabled, flags, unitVars, booted, histVars>>

Allow ==
    /\ \/ Goes("port", "units") /\ port' = "open" /\ UNCHANGED missed
          /\ flags' = flags \cup {"firewall"}
       \/ Fails("port") /\ port' \in Policies /\ missed' = (missed \/ port' = "open")
          /\ UNCHANGED flags
    /\ UNCHANGED <<setupVars, site, served, enabled, unitVars, booted, carrying>>

StartUnits ==
    /\ Goes("units", "units_wait")
    /\ fw' = "starting" /\ step' = "start" /\ capture' = Requested(capture)
    /\ UNCHANGED <<madeVars, localVars, cut, hostVars, flags, net, gate, redirected,
                   booted, histVars>>

\* The journal or the scheduler may be what does not start.
UnitsStarted ==
    /\ fw = "active" /\ capture \in {"active", "waiting"}
    /\ Goes("units_wait", "network") \/ Fails("units_wait")
    /\ UNCHANGED <<setupVars, hostVars, flags, unitVars, booted, histVars>>

StartNetwork ==
    /\ Goes("network", "network_wait")
    /\ net' = Requested(net) /\ capture' = Requested(capture)
    /\ UNCHANGED <<setupVars, hostVars, flags, fw, gate, redirected, booted, histVars>>

NetworkStarted ==
    /\ net = "active" /\ Goes("network_wait", "health")
    /\ flags' = flags \cup {"gate"}
    /\ UNCHANGED <<setupVars, hostVars, unitVars, booted, histVars>>

Healthy == gate = "running" /\ redirected

AwaitHealth ==
    /\ (Healthy /\ Goes("health", "enable")) \/ (~Healthy /\ Fails("health"))
    /\ UNCHANGED <<setupVars, hostVars, flags, unitVars, booted, histVars>>

\* The trap is removed before the units are enabled.
Enable_Untrapped ==
    /\ \/ Goes("enable", "done") /\ enabled' = "all"
       \/ /\ pc = "enable" /\ pc' = "failed" /\ Fault
          /\ enabled' \in {"none", "some"}
    /\ UNCHANGED <<setupVars, port, site, served, flags, unitVars, booted, histVars>>

Enable ==
    /\ \/ Goes("enable", "done") /\ enabled' = "all"
       \/ Fails("enable") /\ enabled' \in {"none", "some"}
    /\ UNCHANGED <<setupVars, port, site, served, flags, unitVars, booted, histVars>>

Ended == {"done", "failed", "killed"}

\* Only a failing command starts the roll-back.
Interrupt ==
    /\ pc \notin Ended /\ Fault
    /\ pc' = "killed"
    /\ UNCHANGED <<setupVars, hostVars, flags, unitVars, booted, histVars>>

Installer ==
    \/ StartWeb \/ WriteSite \/ Reload \/ Allow \/ StartUnits \/ UnitsStarted
    \/ StartNetwork \/ NetworkStarted \/ AwaitHealth \/ Enable

-----------------------------------------------------------------------------
\* Its roll-back. A failing command of it is ignored.

Ignored == Fault /\ missed' = TRUE
Succeeds == UNCHANGED <<faults, missed>>

\* Only the installer's own flag tells that the gate runs.
Decide_ByFlag ==
    /\ pc = "rollback"
    /\ pc' = IF "gate" \in flags THEN "stop_gate" ELSE "stop_units"
    /\ carrying' = Healthy
    /\ UNCHANGED <<setupVars, hostVars, faults, flags, unitVars, booted, missed>>

\* A gate that runs is stopped alone, or else the units that would start it.
Decide ==
    /\ pc = "rollback"
    /\ pc' = IF "gate" \in flags \/ gate = "running" THEN "stop_gate" ELSE "stop_units"
    /\ carrying' = Healthy
    /\ UNCHANGED <<setupVars, hostVars, faults, flags, unitVars, booted, missed>>

StopGate ==
    /\ pc = "stop_gate" /\ pc' = "close"
    /\ (Succeeds /\ gate' = "none") \/ (Ignored /\ UNCHANGED gate)
    /\ UNCHANGED <<setupVars, hostVars, flags, fw, capture, net, redirected, booted,
                   carrying>>

StopUnits ==
    /\ pc = "stop_units" /\ pc' = "close"
    /\ \/ Succeeds /\ capture' = "inactive" /\ net' = "inactive"
       \/ Ignored /\ UNCHANGED <<capture, net>>
    /\ UNCHANGED <<setupVars, hostVars, flags, fw, gate, redirected, booted, carrying>>

Close ==
    /\ pc = "close" /\ pc' = "withdraw"
    /\ IF "firewall" \in flags
       THEN (Succeeds /\ port' = "closed") \/ (Ignored /\ UNCHANGED port)
       ELSE Succeeds /\ UNCHANGED port
    /\ UNCHANGED <<setupVars, site, served, enabled, flags, unitVars, booted, carrying>>

Withdraw ==
    /\ pc = "withdraw" /\ pc' = "disable"
    /\ IF "site" \in flags
       THEN \/ Succeeds /\ site' = FALSE /\ served' = FALSE
            \/ Ignored /\ site' \in BOOLEAN /\ served' \in {served, site'}
       ELSE Succeeds /\ UNCHANGED <<site, served>>
    /\ UNCHANGED <<setupVars, port, enabled, flags, unitVars, booted, carrying>>

Disable ==
    /\ pc = "disable" /\ pc' = "failed"
    /\ (Succeeds /\ enabled' = "none") \/ (Ignored /\ UNCHANGED enabled)
    /\ UNCHANGED <<setupVars, port, site, served, flags, unitVars, booted, carrying>>

Rollback == Decide \/ StopGate \/ StopUnits \/ Close \/ Withdraw \/ Disable

-----------------------------------------------------------------------------
\* clash-traffic-firewall.service.

RunScript ==
    /\ Script \/ ScriptFails
    /\ UNCHANGED <<hostVars, pc, flags, unitVars, booted, histVars>>

\* What waits for the unit is not started.
FirewallFails ==
    /\ step = "failed" /\ step' = "idle"
    /\ fw' = "waiting"
    /\ capture' = IF capture = "queued" THEN "inactive" ELSE capture
    /\ net' = IF net = "queued" THEN "inactive" ELSE net
    /\ Report("units_wait")
    /\ UNCHANGED <<madeVars, localVars, cut, hostVars, faults, flags, gate, redirected,
                   booted, histVars>>

\* The unit has no ExecStartPost.
FirewallStarted_Alone ==
    /\ step = "verified" /\ step' = "idle"
    /\ fw' = "active"
    /\ UNCHANGED <<madeVars, localVars, cut, hostVars, faults, pc, flags, capture, net,
                   gate, redirected, booted, histVars>>

\* ExecStartPost asks for the network unit, and with it for the collector.
FirewallStarted ==
    /\ step = "verified" /\ step' = "idle"
    /\ fw' = "active"
    /\ capture' = Requested(capture) /\ net' = Requested(net)
    /\ UNCHANGED <<madeVars, localVars, cut, hostVars, faults, pc, flags, gate,
                   redirected, booted, histVars>>

FirewallRetry ==
    /\ fw = "waiting"
    /\ fw' = "starting" /\ step' = "start"
    /\ UNCHANGED <<madeVars, localVars, cut, hostVars, faults, pc, flags, capture, net,
                   gate, redirected, booted, histVars>>

Firewall == RunScript \/ FirewallFails \/ FirewallStarted \/ FirewallRetry

-----------------------------------------------------------------------------
\* clash-traffic-capture.service.

CaptureStarts ==
    /\ capture = "queued" /\ fw = "active"
    /\ capture' = "active"
    /\ UNCHANGED <<setupVars, hostVars, faults, pc, flags, fw, net, gate, redirected,
                   booted, histVars>>

CaptureCrash ==
    /\ capture = "active" /\ Fault
    /\ capture' = "waiting"
    /\ UNCHANGED <<setupVars, hostVars, pc, flags, fw, net, gate, redirected, booted,
                   histVars>>

\* The network unit requires the collector: it is restarted with it.
CaptureRetry ==
    /\ capture = "waiting"
    /\ capture' = "active"
    /\ net' = IF net = "inactive" THEN net ELSE "queued"
    /\ UNCHANGED <<setupVars, hostVars, faults, pc, flags, fw, gate, redirected, booted,
                   histVars>>

Capture == CaptureStarts \/ CaptureRetry

-----------------------------------------------------------------------------
\* clash-traffic-network.service: activate-monitoring.sh and start-gate.sh.

NetworkStarts ==
    /\ net = "queued" /\ fw = "active" /\ capture = "active"
    /\ net' = "starting"
    /\ UNCHANGED <<setupVars, hostVars, faults, pc, flags, fw, capture, gate, redirected,
                   booted, histVars>>

NetworkVerifies ==
    /\ net = "starting" /\ capture = "active" /\ Ready
    /\ net' = "verified"
    /\ UNCHANGED <<setupVars, hostVars, faults, pc, flags, fw, capture, gate, redirected,
                   booted, histVars>>

\* An active gate is left alone.
StartGate ==
    /\ net = "verified" /\ gate \in {"none", "running"}
    /\ net' = "active" /\ gate' = "running"
    /\ UNCHANGED <<setupVars, hostVars, faults, pc, flags, fw, capture, redirected,
                   booted, histVars>>

\* A gate that waits for its restart is not active, yet its unit exists.
NetworkFails ==
    /\ net \in {"starting", "verified"}
    /\ \/ /\ \/ net = "starting" /\ (capture # "active" \/ ~Ready)
             \/ net = "verified" /\ gate = "restarting"
          /\ UNCHANGED faults
       \/ Fault
    /\ net' = "waiting" /\ Report("network_wait")
    /\ UNCHANGED <<setupVars, hostVars, flags, fw, capture, gate, redirected, booted,
                   histVars>>

NetworkRetry ==
    /\ net = "waiting"
    /\ net' = "queued" /\ capture' = Requested(capture)
    /\ UNCHANGED <<setupVars, hostVars, faults, pc, flags, fw, gate, redirected, booted,
                   histVars>>

Network ==
    NetworkStarts \/ NetworkVerifies \/ StartGate \/ NetworkFails \/ NetworkRetry

-----------------------------------------------------------------------------
\* The gate's own service, and the machine.

GateCrash ==
    /\ gate = "running" /\ Fault
    /\ gate' = "restarting"
    /\ UNCHANGED <<setupVars, hostVars, pc, flags, fw, capture, net, redirected, booted,
                   histVars>>

GateRestart ==
    /\ gate = "restarting"
    /\ gate' = "running"
    /\ UNCHANGED <<setupVars, hostVars, faults, pc, flags, fw, capture, net, redirected,
                   booted, histVars>>

\* The gate grants while all is well, and otherwise the grant lapses. Its checks
\* take longer than the installer's next command.
Grant ==
    /\ pc # "stop_units"
    /\ redirected' = (gate = "running" /\ capture = "active" /\ Ready)
    /\ redirected' # redirected
    /\ UNCHANGED <<setupVars, hostVars, faults, pc, flags, fw, capture, net, gate,
                   booted, histVars>>

Gate == GateRestart \/ Grant

\* /run and the rules of the kernel are lost; enabled units are started.
Reboot ==
    /\ Fault
    /\ hash' = "absent" /\ table' = FALSE /\ rules' = {} /\ cut' = FALSE
    /\ \E starts \in IF enabled = "some" THEN BOOLEAN ELSE {enabled = "all"} :
          IF starts
          THEN /\ fw' = "starting" /\ step' = "start"
               /\ capture' = "queued" /\ net' = "queued"
          ELSE /\ fw' = "inactive" /\ step' = "idle"
               /\ capture' = "inactive" /\ net' = "inactive"
    /\ gate' = "none" /\ redirected' = FALSE /\ carrying' = FALSE
    /\ served' = site /\ booted' = TRUE
    /\ pc' = IF pc \in Ended THEN pc ELSE "killed"
    /\ UNCHANGED <<localVars, port, site, enabled, flags, missed>>

Units == Firewall \/ Capture \/ Network \/ Gate

Next ==
    \/ Installer \/ Interrupt \/ Rollback
    \/ Units \/ CaptureCrash \/ GateCrash \/ Reboot

Spec == Init /\ [][Next]_vars

\* The service manager runs the jobs it has and starts again what has failed.
FairSpec == Spec /\ WF_vars(Firewall) /\ WF_vars(Capture) /\ WF_vars(Network) /\ WF_vars(Gate)

-----------------------------------------------------------------------------
\* Properties.

TypeOK ==
    /\ port \in Policies /\ digest \in Policies
    /\ hash \in {"absent", "empty"} \cup Policies
    /\ table \in BOOLEAN /\ rules \subseteq 1..Chains
    /\ installed \in 0..Chains /\ tabled \in BOOLEAN /\ cut \in BOOLEAN
    /\ Installing \/ step \in {"idle", "start", "verify", "verified", "failed"}
    /\ fw \in {"inactive", "starting", "active", "waiting"}
    /\ fw = "starting" <=> step # "idle"
    /\ capture \in {"inactive", "queued", "active", "waiting"}
    /\ net \in {"inactive", "queued", "starting", "verified", "active", "waiting"}
    /\ gate \in {"none", "running", "restarting"}
    /\ flags \subseteq {"site", "firewall", "gate"}
    /\ enabled \in {"none", "some", "all"}
    /\ site \in BOOLEAN /\ served \in BOOLEAN /\ redirected \in BOOLEAN
    /\ booted \in BOOLEAN /\ missed \in BOOLEAN /\ carrying \in BOOLEAN
    /\ faults \in 0..MaxFaults

\* No gate starts before the firewall script has installed and fingerprinted
\* all of it: the network unit requires the firewall unit, orders itself after
\* it and verifies it, at installation, at boot and after any failure.
VerifiedBeforeGate == gate # "none" => Everything

\* "If installation fails, it attempts to disable the new services and remove
\* its dashboard site and firewall opening": an installer that fails at any of
\* its steps has taken back what it added, if its roll-back's commands worked.
Withdrawn ==
    pc = "failed" /\ ~missed =>
        port = "closed" /\ ~site /\ ~served /\ enabled = "none"

\* "When traffic was already redirected, it leaves the collector running so
\* those connections can finish": though the network unit may have started the
\* gate before the installer knows.
CollectorKept == carrying => capture # "inactive"

\* After a boot the enabled units start the gate, whatever failed on the way,
\* unless an interrupted installation of it needs another boot.
Activates == booted /\ enabled = "all" ~> gate = "running" \/ cut

\* "Traffic dashboard installation failed; preserving the existing proxy": after
\* a roll-back whose commands worked, nothing starts the gate.
FailedStaysOff ==
    [][pc = "failed" /\ ~missed => ~(gate = "none" /\ gate' = "running")]_vars
=============================================================================
