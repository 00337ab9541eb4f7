-------------------------------- MODULE Gate --------------------------------
(***************************************************************************)
(* The gate watchdog of server/traffic/gate.py.  It keeps a short-lived    *)
(* nftables element that redirects new connections from the original port  *)
(* to the collecting listener, renews it only after a whole round of       *)
(* checks, and removes it when a check fails.                              *)
(*                                                                         *)
(* `pc' is the await the coroutine `watch' is suspended at; each but the   *)
(* last has a limit after which the code gives up.  Time is a Tick of one  *)
(* unit: it cannot pass that limit, so computing takes no time.            *)
(***************************************************************************)
EXTENDS Naturals

CONSTANTS
    TTL,            \* GATE_TTL_SECONDS
    Heartbeat,      \* HEARTBEAT_SECONDS
    Interval,       \* HEALTH_INTERVAL_SECONDS
    Timeout,        \* HEALTH_TIMEOUT_SECONDS
    DbTimeout,      \* the timeout of the heartbeat query
    OpenTimeout,    \* the sum of the bounded waits of open_probe
    RestartDelay,   \* RestartSec of the service
    StopTimeout,    \* TimeoutStopSec, the service manager's default
    MaxFaults       \* bound: faults the environment may inject

ASSUME GateAssumption ==
    /\ {TTL, Heartbeat, Interval, Timeout, StopTimeout} \subseteq Nat \ {0}
    /\ {DbTimeout, OpenTimeout, RestartDelay, MaxFaults} \subseteq Nat

Paths == {"v4", "v6"}                        \* the two shadow health paths
Facts == {"heartbeat", "config", "firewall"} \cup Paths

\* The awaits, and the points where control is between two of them.
Round == {"heartbeat", "config", "firewall", "rules", "open", "ping"}
Commands == {"refresh", "clear", "final"}    \* an nft command is running
Stages == Round \cup Commands \cup {"status", "wait", "closing", "down", "exited"}

Limit(s) ==
    CASE s = "heartbeat" -> DbTimeout
      [] s = "firewall"  -> Timeout
      [] s = "rules"     -> 2 * Timeout
      [] s = "open"      -> OpenTimeout
      [] s = "ping"      -> 2 * Timeout
      [] s \in Commands  -> Timeout
      [] s = "wait"      -> Interval
      [] s = "closing"   -> StopTimeout
      [] s = "down"      -> RestartDelay
      [] s = "exited"    -> TTL
      [] OTHER           -> 0

VARIABLES
    activate,       \* --activate, or shadow mode; never changes
    protect,        \* TRAFFIC_GATE_PROTECT_DIRECT = 1; never changes
    pc, timer,      \* where the watchdog is, and for how long
    opened, live,   \* `probes' is not empty; the streams that still work
    waiting,        \* paths a gather has no answer from yet
    state,          \* the local of the same name
    applied,        \* the running nft command has taken effect
    stop,           \* the stop event
    ttl,            \* kernel: what is left of the element, 0 when absent
    status,         \* the status file: its state and its age
    bad, age,       \* environment: failing facts, time since each last held
    faults

watchdogVars == <<pc, timer, opened, live, waiting, state, applied>>
options == <<activate, protect>>
envVars == <<options, stop, bad, age>>
vars == <<watchdogVars, envVars, ttl, status, faults>>

\* The slowest round of checks, from its first query to the nft answer.
RoundTime == DbTimeout + 3 * Timeout + OpenTimeout + 2 * Timeout + Timeout

\* Ages saturate just above every bound they are compared with; the age of the
\* status file does so just above the grace of the dashboard, which is TTL.
AgeCap == Heartbeat + RoundTime + TTL

Redirecting == ttl > 0
Default == IF activate THEN "fallback" ELSE "shadow"

Init ==
    /\ activate \in BOOLEAN /\ protect \in BOOLEAN
    /\ pc = "heartbeat" /\ timer = 0
    /\ opened = FALSE /\ live = {} /\ waiting = {}
    /\ state = Default /\ applied = FALSE
    /\ stop = FALSE /\ ttl = 0
    /\ status = [state |-> "none", age |-> 0]
    /\ bad = {} /\ age = [f \in Facts |-> 0]
    /\ faults = 0

-----------------------------------------------------------------------------
\* Building blocks.

\* One deadline for the awaits of a round, not one for each.
Enter_SameDeadline(s) == pc' = s /\ timer' = timer

Enter(s) == pc' = s /\ timer' = 0

Fault == faults < MaxFaults /\ faults' = faults + 1

\* A fault, or a failure that has a cause and costs nothing.
MayFail(cause) == IF cause THEN UNCHANGED faults ELSE Fault

\* The collector's heartbeat stays valid for a while, a fact does not.
Window(f) == IF f = "heartbeat" THEN Heartbeat - 1 ELSE 0

\* f held at some moment of the current await.
Seen(f) == age[f] <= Window(f) + timer

AfterChecks ==
    IF opened THEN Enter("ping") /\ waiting' = Paths
              ELSE Enter("open") /\ waiting' = Paths

CloseProbes == opened' = FALSE /\ live' = {} /\ waiting' = {}

\* The except clause: clear the gate when it is ours, then drop the probes.
Unhealthy ==
    /\ state' = Default
    /\ applied' = FALSE
    /\ IF activate THEN Enter("clear") /\ UNCHANGED <<opened, live, waiting>>
                   ELSE Enter("status") /\ CloseProbes

-----------------------------------------------------------------------------
\* One round of `watch'.

CheckHeartbeat ==
    /\ pc = "heartbeat" /\ Seen("heartbeat")
    /\ state' = Default
    /\ IF activate THEN Enter("config") /\ UNCHANGED waiting ELSE AfterChecks
    /\ UNCHANGED <<envVars, opened, live, applied, ttl, status, faults>>

CheckConfig ==
    /\ pc = "config" /\ Seen("config")
    /\ Enter("firewall")
    /\ UNCHANGED <<envVars, opened, live, waiting, state, applied, ttl,
                   status, faults>>

\* firewall_ready: one snapshot of the ruleset ...
CheckFirewall ==
    /\ pc = "firewall" /\ Seen("firewall")
    /\ IF protect THEN Enter("rules") /\ UNCHANGED waiting ELSE AfterChecks
    /\ UNCHANGED <<envVars, opened, live, state, applied, ttl, status, faults>>

\* ... and one iptables -C per family, which sees only its own rule.
CheckRules ==
    /\ pc = "rules"
    /\ AfterChecks
    /\ UNCHANGED <<envVars, opened, live, state, applied, ttl, status, faults>>

OpenProbe(p) ==
    /\ pc = "open" /\ p \in waiting
    /\ waiting' = waiting \ {p}
    /\ \/ Seen(p) /\ live' = live \cup {p} /\ UNCHANGED faults
       \/ MayFail(p \in bad) /\ UNCHANGED live
    /\ UNCHANGED <<envVars, pc, timer, opened, state, applied, ttl, status>>

\* The gather has both results: keep both streams or neither.
Opened ==
    /\ pc = "open" /\ waiting = {}
    /\ IF live = Paths
       THEN /\ opened' = TRUE
            /\ Enter("ping") /\ waiting' = Paths
            /\ UNCHANGED <<live, state, applied>>
       ELSE /\ live' = {} /\ UNCHANGED <<opened, waiting>>
            /\ state' = Default /\ applied' = FALSE
            /\ IF activate THEN Enter("clear") ELSE Enter("status")
    /\ UNCHANGED <<envVars, ttl, status, faults>>

\* A gather that returns exceptions as results.
Ping_AnyResult(p) ==
    /\ pc = "ping" /\ p \in waiting
    /\ waiting' = waiting \ {p}
    /\ UNCHANGED <<envVars, pc, timer, opened, live, state, applied, ttl,
                   status, faults>>

Ping(p) ==
    /\ pc = "ping" /\ p \in waiting /\ p \in live /\ Seen(p)
    /\ waiting' = waiting \ {p}
    /\ UNCHANGED <<envVars, pc, timer, opened, live, state, applied, ttl,
                   status, faults>>

\* A refresh that forgets it may only observe.
Pinged_AlsoInShadow ==
    /\ pc = "ping" /\ waiting = {}
    /\ Enter("refresh") /\ applied' = FALSE
    /\ UNCHANGED <<envVars, opened, live, waiting, state, ttl, status, faults>>

Pinged ==
    /\ pc = "ping" /\ waiting = {}
    /\ IF activate
       THEN Enter("refresh") /\ applied' = FALSE /\ UNCHANGED state
       ELSE Enter("status") /\ state' = "healthy" /\ UNCHANGED applied
    /\ UNCHANGED <<envVars, opened, live, waiting, ttl, status, faults>>

Cause ==
    CASE pc = "heartbeat" -> age["heartbeat"] >= Heartbeat
      [] pc = "config"    -> "config" \in bad
      [] pc \in {"firewall", "rules"} -> "firewall" \in bad
      [] pc = "ping"      -> \E p \in waiting : p \in bad \/ p \notin live
      [] OTHER            -> FALSE

\* Any check raises: what it looked at fails, or it times out or errs itself.
CheckFails ==
    /\ pc \in Round \ {"open"}
    /\ MayFail(Cause)
    /\ Unhealthy
    /\ UNCHANGED <<envVars, ttl, status>>

-----------------------------------------------------------------------------
\* refresh_gate and clear_gate: one nft transaction each.  The kernel applies
\* it at some moment while the command runs.

\* `add element' without the flush: an element that is there keeps its expiry.
Apply_AddOnly ==
    /\ pc \in Commands /\ ~applied
    /\ pc = "final" => activate
    /\ applied' = TRUE
    /\ ttl' = IF pc # "refresh" THEN 0 ELSE IF Redirecting THEN ttl ELSE TTL
    /\ UNCHANGED <<envVars, pc, timer, opened, live, waiting, state, status,
                   faults>>

Apply ==
    /\ pc \in Commands /\ ~applied
    /\ pc = "final" => activate
    /\ applied' = TRUE
    /\ ttl' = IF pc = "refresh" THEN TTL ELSE 0
    /\ UNCHANGED <<envVars, pc, timer, opened, live, waiting, state, status,
                   faults>>

Refreshed_KeepsState ==
    /\ pc = "refresh" /\ applied
    /\ Enter("status")
    /\ UNCHANGED <<envVars, opened, live, waiting, state, applied, ttl, status,
                   faults>>

Refreshed ==
    /\ pc = "refresh" /\ applied
    /\ state' = "active" /\ Enter("status")
    /\ UNCHANGED <<envVars, opened, live, waiting, applied, ttl, status,
                   faults>>

\* nft reports an error, having changed nothing, or is killed at the limit,
\* whether or not it had taken effect.
RefreshFails ==
    /\ pc = "refresh" /\ (~applied \/ timer = Timeout)
    /\ MayFail("firewall" \in bad)
    /\ Unhealthy
    /\ UNCHANGED <<envVars, ttl, status>>

\* A failing clear is suppressed: the handler goes on as if it had worked.
Cleared_KeepsProbes ==
    /\ pc = "clear"
    /\ \/ applied /\ UNCHANGED faults
       \/ ~applied /\ MayFail("firewall" \in bad)
    /\ Enter("status")
    /\ UNCHANGED <<envVars, opened, live, waiting, state, applied, ttl, status>>

Cleared ==
    /\ pc = "clear"
    /\ \/ applied /\ UNCHANGED faults
       \/ ~applied /\ MayFail("firewall" \in bad)
    /\ CloseProbes
    /\ Enter("status")
    /\ UNCHANGED <<envVars, state, applied, ttl, status>>

WriteStatus ==
    /\ pc = "status"
    /\ status' = [state |-> state, age |-> 0]
    /\ Enter("wait")
    /\ UNCHANGED <<envVars, opened, live, waiting, state, applied, ttl,
                   faults>>

Wait_SkipsHeartbeat ==
    /\ pc = "wait" /\ (stop \/ timer = Interval)
    /\ IF stop THEN Enter("final") /\ applied' = FALSE
       ELSE Enter(IF opened /\ activate THEN "config" ELSE "heartbeat")
            /\ UNCHANGED applied
    /\ UNCHANGED <<envVars, opened, live, waiting, state, ttl, status, faults>>

Wait_IgnoresStop ==
    /\ pc = "wait" /\ (stop \/ timer = Interval)
    /\ Enter("heartbeat")
    /\ UNCHANGED <<envVars, opened, live, waiting, state, applied, ttl, status,
                   faults>>

\* wait_for(stop.wait(), interval), and the test of the loop.
Wait ==
    /\ pc = "wait" /\ (stop \/ timer = Interval)
    /\ IF stop THEN Enter("final") /\ applied' = FALSE
               ELSE Enter("heartbeat") /\ UNCHANGED applied
    /\ UNCHANGED <<envVars, opened, live, waiting, state, ttl, status, faults>>

\* An exception no handler names: parsing the ruleset, writing the file.
UncaughtError ==
    /\ pc \in {"firewall", "status"}
    /\ Fault
    /\ Enter("final") /\ applied' = FALSE
    /\ UNCHANGED <<envVars, opened, live, waiting, state, ttl, status>>

\* The finally clause, up to the await of server.wait_closed().
Final ==
    /\ pc = "final"
    /\ \/ (applied \/ ~activate) /\ UNCHANGED faults
       \/ ~applied /\ activate /\ MayFail("firewall" \in bad)
    /\ CloseProbes
    /\ Enter("closing")
    /\ UNCHANGED <<envVars, state, applied, ttl, status>>

\* systemd removes the runtime directory, and with it the status file, as the
\* process exits; it restarts the service unless stopped.
Terminated == IF stop THEN Enter("exited") ELSE Enter("down")

\* The server is closed and the process ends.  Up to Python 3.12.0 this await
\* returns at once; since 3.12.1 it waits for the connections of `echo', which
\* read until Xray closes them: a path that hangs may hold one for ever.
Closed ==
    /\ pc = "closing"
    /\ Terminated
    /\ status' = [state |-> "none", age |-> 0]
    /\ UNCHANGED <<envVars, opened, live, waiting, state, applied, ttl, faults>>

-----------------------------------------------------------------------------
\* The process and the service manager.

\* The process is killed.  A running nft command may still take effect before
\* the service manager kills it too.
Crash ==
    /\ pc \notin {"down", "exited"}
    /\ Fault
    /\ \/ UNCHANGED ttl
       \/ pc \in Commands /\ ~applied /\ (pc = "final" => activate)
          /\ ttl' = IF pc = "refresh" THEN TTL ELSE 0
    /\ CloseProbes
    /\ Terminated
    /\ status' = [state |-> "none", age |-> 0]
    /\ UNCHANGED <<envVars, state, applied>>

\* The service manager kills a stopped process that has not ended.  Its time
\* runs from the signal, here from the last await on: what comes before that
\* has limits of its own.
Kill ==
    /\ pc = "closing" /\ stop /\ timer = StopTimeout
    /\ Enter("exited")
    /\ status' = [state |-> "none", age |-> 0]
    /\ UNCHANGED <<envVars, opened, live, waiting, state, applied, ttl, faults>>

Restart ==
    /\ pc = "down" /\ timer = RestartDelay
    /\ Enter("heartbeat")
    /\ UNCHANGED <<envVars, opened, live, waiting, state, applied, ttl,
                   status, faults>>

Stop ==
    /\ ~stop /\ stop' = TRUE
    /\ CASE pc = "down"    -> Enter("exited")
         [] pc = "closing" -> Enter("closing")
         [] OTHER          -> UNCHANGED <<pc, timer>>
    /\ UNCHANGED <<options, opened, live, waiting, state, applied, ttl,
                   status, bad, age, faults>>

-----------------------------------------------------------------------------
\* What the watchdog watches.

\* A failing path takes its stream down; replacing the firewall may also drop
\* the element.
Break(f) ==
    /\ f \notin bad /\ Fault
    /\ bad' = bad \cup {f}
    /\ live' = live \ {f}
    /\ \/ UNCHANGED ttl
       \/ f = "firewall" /\ ttl' = 0
    /\ UNCHANGED <<options, pc, timer, opened, waiting, state, applied,
                   stop, status, age>>

Repair(f) ==
    /\ f \in bad
    /\ bad' = bad \ {f}
    /\ age' = [age EXCEPT ![f] = 0]
    /\ UNCHANGED <<options, watchdogVars, stop, ttl, status, faults>>

\* An element added without its timeout.
Expire_Never(n) == n

\* The kernel counts an element down and drops it.
Expire(n) == IF n = 0 THEN 0 ELSE n - 1

Older(n) == IF n < AgeCap THEN n + 1 ELSE n

\* The current await has ended and the coroutine is about to run.
Ready ==
    \/ timer = Limit(pc)
    \/ pc \in {"open", "ping"} /\ waiting = {}
    \/ pc = "wait" /\ stop

Tick ==
    /\ pc = "exited" \/ (pc = "closing" /\ ~stop) \/ ~Ready
    /\ timer' = IF timer < Limit(pc) THEN timer + 1 ELSE timer
    /\ ttl' = Expire(ttl)
    /\ status' = IF status.state = "none" \/ status.age > TTL THEN status
                 ELSE [status EXCEPT !.age = @ + 1]
    /\ age' = [f \in Facts |-> IF f \in bad THEN Older(age[f]) ELSE 0]
    /\ UNCHANGED <<options, pc, opened, live, waiting, state, applied, stop,
                   bad, faults>>

Watchdog ==
    \/ CheckHeartbeat \/ CheckConfig \/ CheckFirewall \/ CheckRules
    \/ \E p \in Paths : OpenProbe(p)
    \/ Opened
    \/ \E p \in Paths : Ping(p)
    \/ Pinged \/ CheckFails
    \/ Apply \/ Refreshed \/ RefreshFails \/ Cleared
    \/ WriteStatus \/ Wait \/ UncaughtError \/ Final

Next ==
    \/ Watchdog
    \/ Closed \/ Crash \/ Kill \/ Restart \/ Stop
    \/ \E f \in Facts : Break(f) \/ Repair(f)
    \/ Tick

Spec == Init /\ [][Next]_vars

\* A path that works ends its connections when their probes are closed.
ClosedByPeers == Closed /\ Paths \cap bad = {}

\* The event loop resumes a coroutine whose await has ended, the service
\* manager kills a stopped service and restarts a failed one, and time passes.
FairSpec ==
    /\ Spec
    /\ WF_vars(Watchdog) /\ WF_vars(ClosedByPeers)
    /\ WF_vars(Kill) /\ WF_vars(Restart) /\ WF_vars(Tick)

-----------------------------------------------------------------------------
\* Properties.

TypeOK ==
    /\ activate \in BOOLEAN /\ protect \in BOOLEAN
    /\ pc \in Stages /\ timer \in Nat /\ timer <= Limit(pc)
    /\ opened \in BOOLEAN /\ live \subseteq Paths /\ waiting \subseteq Paths
    /\ state \in {"fallback", "shadow", "active", "healthy"}
    /\ applied \in BOOLEAN /\ stop \in BOOLEAN
    /\ ttl \in 0..TTL
    /\ status \in [state : {"none", "fallback", "shadow", "active", "healthy"},
                   age : Nat]
    /\ bad \subseteq Facts /\ age \in [Facts -> Nat]
    /\ faults \in 0..MaxFaults

\* The oldest evidence a grant can rest on: what the check accepts, and the
\* slowest way from that check to the nft transaction.
GrantAge == [f \in Facts |->
    CASE f = "heartbeat" -> Heartbeat - 1 + RoundTime
      [] f \in Paths     -> 3 * Timeout
      [] OTHER           -> RoundTime - DbTimeout]

Redirect == INSTANCE Lease
    WITH Evidence <- Facts, MaxAge <- GrantAge, lease <- ttl

\* `watch' keeps the promise of a lease: every step that installs or renews the
\* redirect rests on all the checks of a recent round, whatever fails, times
\* out, is killed or restarts between them.
ImplementsLease == Redirect!Spec

\* While new connections are redirected, no fact the watchdog checks has been
\* failing for longer than one slow round plus the spent part of the element:
\* a dead collector, a changed Xray configuration, a changed firewall or a
\* dead path loses the redirect in bounded time, even if nft keeps failing.
RedirectRestsOnEvidence == Redirect!LeaseBound

\* The dashboard says "direct fallback" while connections are redirected only
\* from a granted refresh to the next status, or when the last nft command did
\* not work, a suppressed clear failure, and then for the rest of the element;
\* or in a watchdog that an uncaught error ends between the two.
FallbackStatusHonest ==
    status.state = "fallback" /\ Redirecting =>
        \/ pc \in {"refresh", "clear", "status", "final"}
        \/ ~applied /\ (pc = "closing" \/ ttl + status.age <= TTL)

\* While the dashboard says "capturing new connections", the redirect ends only
\* by a command of the watchdog, by a change of the firewall, or when the
\* status is within one command of being too old to be shown.
ActiveStatusHonest ==
    [][status.state = "active" /\ Redirecting /\ ~Redirecting' =>
         \/ pc \in Commands
         \/ bad' # bad
         \/ status.age + Timeout + 1 >= TTL]_vars

\* README: "The redirect expires within 12 seconds if the watchdog stops."
LapsesAfterStop ==
    pc \in {"closing", "down", "exited"} /\ Redirecting => ttl + timer <= TTL

\* The watchdog of a shadow installation never redirects, whatever fails.
ShadowNeverRedirects == ~activate => ~Redirecting

\* Once everything it checks works, an activated watchdog that is not stopped
\* redirects again and again: no failure leaves it unable to recover.
Recovers ==
    activate /\ [](~stop) /\ <>[](bad = {}) => []<>Redirecting

\* After a request to stop, the process ends and the redirect is gone, by itself
\* or by the service manager.
StopReleases == stop ~> (pc = "exited" /\ ~Redirecting)
=============================================================================
