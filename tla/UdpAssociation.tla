--------------------------- MODULE UdpAssociation ---------------------------
(***************************************************************************)
(* One UDP association of server/traffic/collector_async.py: the datagrams *)
(* of a client, each with a task of its own, and the destination sockets   *)
(* these tasks share, create, give up, reap when idle and close at the end.*)
(*                                                                         *)
(* An action is what runs on the event loop between two awaits.  A socket  *)
(* and the task that creates it bear the name of the packet that asked for *)
(* them first.                                                             *)
(***************************************************************************)
EXTENDS Naturals, FiniteSets

CONSTANTS
    Packets,       \* datagrams the client sends
    Dests,         \* destinations, host and port
    None,          \* no task in `targets'
    MaxTargets,    \* MAX_UDP_TARGETS
    MaxTasks       \* MAX_UDP_TASKS

ASSUME UdpAssumption ==
    /\ IsFiniteSet(Packets) /\ IsFiniteSet(Dests)
    /\ None \notin Packets
    /\ MaxTargets \in Nat /\ MaxTasks \in Nat

VARIABLES
    control,       \* where udp_associate is
    closed,        \* association.closed
    task,          \* the `forward' task of each packet
    dest, via,     \* its destination, and the creation it waits for
    create,        \* the `create_target' task a packet has started
    socket,        \* and what became of its socket
    targets,       \* association.targets
    idle,          \* sockets not used for UDP_IDLE_SECONDS
    sent, counted  \* history: packets given to the network, and counted

taskVars == <<task, dest, via>>
targetVars == <<create, socket, targets, idle>>
historyVars == <<sent, counted>>
vars == <<control, closed, taskVars, targetVars, historyVars>>

Init ==
    /\ control = "relaying" /\ closed = FALSE
    /\ task = [p \in Packets |-> "unsent"]
    /\ dest \in [Packets -> Dests]
    /\ via = [p \in Packets |-> None]
    /\ create = [p \in Packets |-> "none"]
    /\ socket = [p \in Packets |-> "none"]
    /\ targets = [d \in Dests |-> None]
    /\ idle = {} /\ sent = {} /\ counted = {}

Tasks == {p \in Packets : task[p] \in {"new", "waiting"}}
Registered == {d \in Dests : targets[d] # None}

-----------------------------------------------------------------------------
\* Packets.

\* datagram_received: a task for the packet, unless there are too many.
Receive(p) ==
    /\ task[p] = "unsent" /\ ~closed
    /\ Cardinality(Tasks) < MaxTasks
    /\ task' = [task EXCEPT ![p] = "new"]
    /\ UNCHANGED <<control, closed, dest, via, targetVars, historyVars>>

\* The place is given back whoever has it now.
Use_AnyTask(p, c) ==
    /\ task' = [task EXCEPT ![p] = "done"]
    /\ \/ /\ create[c] = "ready"
          /\ idle' = IF closed THEN idle ELSE idle \ {c}
          /\ sent' \in (IF closed THEN {sent} ELSE {sent, sent \cup {p}})
          /\ counted' = IF closed THEN counted ELSE counted \cup {p}
          /\ UNCHANGED targets
       \/ /\ create[c] = "failed"
          /\ targets' = [targets EXCEPT ![dest[p]] = None]
          /\ UNCHANGED <<idle, historyVars>>

\* A failed creation wakes nobody up.
Use_OnlyReady(p, c) ==
    /\ create[c] = "ready"
    /\ task' = [task EXCEPT ![p] = "done"]
    /\ idle' = IF closed THEN idle ELSE idle \ {c}
    /\ sent' \in (IF closed THEN {sent} ELSE {sent, sent \cup {p}})
    /\ counted' = IF closed THEN counted ELSE counted \cup {p}
    /\ UNCHANGED targets

\* What forward(p) does once the creation c has ended.  A socket takes the
\* packet, or its `send' fails: asyncio reports that to the protocol, which
\* ignores it.  A failed creation loses its place, if it still has it.
Use(p, c) ==
    /\ task' = [task EXCEPT ![p] = "done"]
    /\ \/ /\ create[c] = "ready"
          /\ idle' = IF closed THEN idle ELSE idle \ {c}
          /\ sent' \in (IF closed THEN {sent} ELSE {sent, sent \cup {p}})
          /\ counted' = IF closed THEN counted ELSE counted \cup {p}
          /\ UNCHANGED targets
       \/ /\ create[c] = "failed"
          /\ targets' = [targets EXCEPT ![dest[p]] = IF @ = c THEN None ELSE @]
          /\ UNCHANGED <<idle, historyVars>>

\* The key of a destination where its task is meant.
StartTarget_Key(p) ==
    /\ task' = [task EXCEPT ![p] = "waiting"]
    /\ via' = [via EXCEPT ![p] = dest[p]]
    /\ create' = [create EXCEPT ![p] = "running"]
    /\ targets' = [targets EXCEPT ![dest[p]] = p]
    /\ UNCHANGED <<socket, idle, historyVars>>

\* The destination is new: its creation starts, and later packets share it.
StartTarget(p) ==
    /\ task' = [task EXCEPT ![p] = "waiting"]
    /\ via' = [via EXCEPT ![p] = p]
    /\ create' = [create EXCEPT ![p] = "running"]
    /\ targets' = [targets EXCEPT ![dest[p]] = p]
    /\ UNCHANGED <<socket, idle, historyVars>>

\* forward(p) starts, and goes on at once if its destination is settled.
Forward(p) ==
    /\ task[p] = "new"
    /\ LET c == targets[dest[p]] IN
       \/ /\ c = None /\ Cardinality(Registered) < MaxTargets
          /\ StartTarget(p)
       \/ /\ c = None /\ Cardinality(Registered) >= MaxTargets
          /\ task' = [task EXCEPT ![p] = "done"]
          /\ UNCHANGED <<via, targetVars, historyVars>>
       \/ /\ c # None /\ create[c] = "running"
          /\ task' = [task EXCEPT ![p] = "waiting"]
          /\ via' = [via EXCEPT ![p] = c]
          /\ UNCHANGED <<targetVars, historyVars>>
       \/ /\ c # None
          /\ Use(p, c)
          /\ UNCHANGED <<via, create, socket>>
    /\ UNCHANGED <<control, closed, dest>>

\* forward(p) is resumed by the end of the creation it has waited for.
Resume(p) ==
    /\ task[p] = "waiting"
    /\ Use(p, via[p])
    /\ UNCHANGED <<control, closed, dest, via, create, socket>>

-----------------------------------------------------------------------------
\* Destinations.

Created(c) ==
    /\ create[c] = "running"
    /\ create' = [create EXCEPT ![c] = "ready"]
    /\ socket' = [socket EXCEPT ![c] = "open"]
    /\ UNCHANGED <<control, closed, taskVars, targets, idle, historyVars>>

\* The name does not resolve, or there is no route.
CreateFails(c) ==
    /\ create[c] = "running"
    /\ create' = [create EXCEPT ![c] = "failed"]
    /\ UNCHANGED <<control, closed, taskVars, socket, targets, idle, historyVars>>

\* A response arrives.
Respond(c) ==
    /\ socket[c] = "open"
    /\ idle' = idle \ {c}
    /\ UNCHANGED <<control, closed, taskVars, create, socket, targets, historyVars>>

\* A minute without use.  A packet that waits is resumed much sooner.
Idle(c) ==
    /\ socket[c] = "open"
    /\ \A p \in Tasks : via[p] # c
    /\ idle' = idle \cup {c}
    /\ UNCHANGED <<control, closed, taskVars, create, socket, targets, historyVars>>

\* The idle socket leaves the table and stays open.
Reap_KeepsSocket ==
    /\ control = "relaying" /\ idle # {}
    /\ targets' = [d \in Dests |-> IF targets[d] \in idle THEN None ELSE targets[d]]
    /\ idle' = {}
    /\ UNCHANGED <<control, closed, taskVars, create, socket, historyVars>>

\* One pass of `reap' over all targets.
Reap ==
    /\ control = "relaying" /\ idle # {}
    /\ LET old == {c \in idle : \E d \in Dests : targets[d] = c} IN
       /\ targets' = [d \in Dests |-> IF targets[d] \in old THEN None ELSE targets[d]]
       /\ socket' = [c \in Packets |-> IF c \in old THEN "closed" ELSE socket[c]]
       /\ idle' = idle \ old
    /\ UNCHANGED <<control, closed, taskVars, create, historyVars>>

-----------------------------------------------------------------------------
\* The control connection.

\* It ends, fails, or is cancelled by a shutdown: the reaper is cancelled first.
EndControl ==
    /\ control = "relaying"
    /\ control' = "reaping"
    /\ UNCHANGED <<closed, taskVars, targetVars, historyVars>>

\* Cancelled tasks run no further, and neither do cancelled creations: a socket
\* that is being created is closed by the creation itself.
Close_TasksOnly ==
    /\ control = "reaping"
    /\ control' = "closing" /\ closed' = TRUE
    /\ task' = [p \in Packets |-> IF p \in Tasks THEN "done" ELSE task[p]]
    /\ UNCHANGED <<dest, via, targetVars, historyVars>>

Close ==
    /\ control = "reaping"
    /\ control' = "closing" /\ closed' = TRUE
    /\ task' = [p \in Packets |-> IF p \in Tasks THEN "done" ELSE task[p]]
    /\ LET registered == {targets[d] : d \in Registered} IN
       create' = [c \in Packets |->
           IF c \in registered /\ create[c] = "running" THEN "cancelled" ELSE create[c]]
    /\ UNCHANGED <<dest, via, socket, targets, idle, historyVars>>

\* All of them have ended: the sockets are closed.
Release ==
    /\ control = "closing"
    /\ control' = "ended"
    /\ socket' = [c \in Packets |->
           IF create[c] = "ready" /\ \E d \in Dests : targets[d] = c
           THEN "closed" ELSE socket[c]]
    /\ targets' = [d \in Dests |-> None]
    /\ idle' = {}
    /\ UNCHANGED <<closed, taskVars, create, historyVars>>

\* A shutdown cancels the handler of a control connection that is ending
\* already: the rest of its `finally' is skipped.
Abandon ==
    /\ control \in {"reaping", "closing"}
    /\ control' = "abandoned"
    /\ UNCHANGED <<closed, taskVars, targetVars, historyVars>>

Step ==
    \/ \E p \in Packets : Forward(p) \/ Resume(p)
    \/ \E c \in Packets : Created(c) \/ CreateFails(c)

Next ==
    \/ Step
    \/ \E p \in Packets : Receive(p)
    \/ \E c \in Packets : Respond(c) \/ Idle(c)
    \/ Reap \/ EndControl \/ Close \/ Release \/ Abandon

Spec == Init /\ [][Next]_vars

\* The event loop runs what is ready, a creation ends, and a handler whose
\* cancelled tasks have ended goes on.  Nobody has to send, answer or hang up.
FairSpec == Spec /\ WF_vars(Step) /\ WF_vars(Close) /\ WF_vars(Release)

-----------------------------------------------------------------------------
\* Properties.

TypeOK ==
    /\ control \in {"relaying", "reaping", "closing", "ended", "abandoned"}
    /\ closed \in BOOLEAN
    /\ task \in [Packets -> {"unsent", "new", "waiting", "done"}]
    /\ dest \in [Packets -> Dests]
    /\ via \in [Packets -> Packets \cup {None}]
    /\ create \in [Packets -> {"none", "running", "ready", "failed", "cancelled"}]
    /\ socket \in [Packets -> {"none", "open", "closed"}]
    /\ targets \in [Dests -> Packets \cup {None}]
    /\ idle \subseteq Packets /\ sent \subseteq Packets /\ counted \subseteq Packets

\* Sockets that exist or are on their way.
Live == {c \in Packets : create[c] = "running" \/ socket[c] = "open"}

\* An association never holds more sockets than MAX_UDP_TARGETS, however many
\* destinations are being resolved, failing and being reaped at the same time.
SocketsBounded == Cardinality(Live) <= MaxTargets

\* Every socket that exists or is being created is the one `targets' has for its
\* destination: packets to one destination share it, and the reaper and `close',
\* which only know `targets', will find it.
NoOrphan == \A c \in Live : targets[dest[c]] = c

\* When `close' has returned, nothing is left: no open socket, no creation that
\* could still open one, no task.
LeavesNothing == control = "ended" => Live = {} /\ Tasks = {}

\* A packet that was taken is dealt with: no task waits for ever for a creation
\* that failed, was cancelled or has been replaced by another.
TasksEnd == \A p \in Packets : task[p] = "new" ~> task[p] = "done"

\* Counters.add: its size is a "Successfully forwarded byte count".
CountedWasSent == counted \subseteq sent
=============================================================================
