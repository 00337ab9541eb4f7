# TLA+ models of the proxy and its traffic monitoring

This directory specifies the parts of the repository that decide something over
time: the watchdog that redirects live connections into the traffic collector,
the counters that must not lose or repeat a byte, the connections and the UDP
associations of the collector, the import of access records, the scheduler that mails
reports, and the installation, roll-back and boot of all this. The modules are
translated from `src/server/traffic`; TLC checks them on small instances and TLAPS
proves most of their safety properties for all values of the constants.

Run everything from this directory:

    tlc -workers 2 -config GateSafety.cfg MCGate.tla        # any run of the table below
    tlapm GateProofs.tla       # also CountersProofs, RelayProofs, UdpProofs,
                               # JournalProofs, SchedulerProofs, ServicesProofs

## The system

A VPS runs Xray (VLESS with Reality) for a Clash client. The optional monitoring
adds processes beside it:

    client --443--> nftables redirect (leased) --> second Xray --> SOCKS collector --> Internet
                         ^                                             |
                  gate.py (watchdog)  <---- heartbeat, status ----  SQLite
                                                                      ^
              run_traffic_journal -------------- access counts -------|
              run_traffic_scheduler, web dashboard <------------------+

| Component | State | Operations | Interacts through |
|---|---|---|---|
| Gate watchdog (`gate.py`, `start-gate.sh`) | nft element with a lifetime of 12 s, two probe streams, status file, stop event | one round of checks, refresh or clear of the element, status, signal handler | SQLite heartbeat, `nft`, the two Xray health paths, status file read by `reports.py` |
| Counters (`collector.py`: `Counters`) | pending dict under a lock, stop event, flush thread | `add`, `flush`, `run` | every relay handler; SQLite |
| Collectors (`collector_async.py`, `collector.py`) | connections, tasks or threads, UDP targets | accept, negotiate, CONNECT, UDP ASSOCIATE, shutdown | counters, peers, signals |
| Scheduler (`run_traffic_scheduler.py`, `reports.py`) | one `ReportSettings` row | prune, ingest, read, send, record | SMTP server, the settings form, SQLite |
| Settings form (`forms.py`, `views.py`) | the same row, the copy a request read | open, save | scheduler, by way of the row |
| Journal ingest (`journal.py`, `run_traffic_journal.py`) | cursor and counts per minute | read after the cursor, commit both | journald, SQLite |
| Gate installation (`gate_setup.py`, `prepare-firewall.sh`) | nft table, iptables rules, fingerprint file | install, verify, roll back | firewall; read by the watchdog; run by the firewall unit |
| Prepared configurations and administrator (`prepare_original.py`, `preview.py`, `bootstrap_traffic_admin.py`) | create-only private files, one user | create, validate, roll back | installer |
| Supervisors (`original.py`, `preview.py`) | child processes | start in order, poll, stop all | collector, Xray |
| Services (`install.sh`, `activate-monitoring.sh`, `start-gate.sh`, units) | staged installation, roll-back flags, units and their jobs | install, roll back, boot | all of the above, by way of systemd |
| Server installer (`install-common.sh`) | effective settings file, Xray configuration, services | idempotent steps | operator |
| Rule lists (`clash-rules.sh`, `manage-user-rules.ps1`) | ordered rule files | normalise, add, remove, render | client configuration |

What makes these parts hard, and what makes them correct:

* **Gate.** Every check is an await of up to several seconds, so the evidence a
  redirect rests on ages while the round runs; `nft` can fail, or be killed after
  its transaction took effect; the watchdog can be killed anywhere. Correct means:
  connections are redirected only while collection recently worked, the redirect
  lapses without the watchdog, what the dashboard says of it is true within stated
  limits, and no failure leaves the gate unable to recover or to stop.
* **Counters.** Handlers count while a flush fails, is retried, or races with the
  shutdown; the process may be killed around a commit. Correct means: no byte is
  recorded twice or under another key, bytes are lost only from memory and only
  when a process ends, the heartbeat (which the gate trusts) vouches only for bytes
  on disk, and a regular stop of the asynchronous collector saves everything.
* **Relays.** Either direction of a connection may end, fail or drain while the other
  goes on; a handler may be rejected, fail or be cancelled in any of its awaits, its
  clean-up included. Correct means: the end of one direction does not cut the other,
  each chunk is passed on in turn and counted once, and slots are exact.
* **UDP associations.** Packets to one destination wait for one socket to be
  created; the creation may fail, be replaced, or be cancelled by the end of the
  association, and the reaper removes idle sockets meanwhile. Correct means: both
  limits hold, every socket can be found by whoever must close it, the end leaves
  nothing, and no packet waits for ever.
* **Scheduler.** A pass reads a row, spends up to minutes with an SMTP server and
  writes afterwards; a request writes the whole row it read before. Correct means:
  settings never revert, a period is never marked sent without being accepted, it
  is retried until sent, and it is sent once; the last is where code and
  documentation part.

* **Journal.** `journalctl` runs outside the transaction that saves its results; it
  fails, prints part of what there is, or what there is was vacuumed meanwhile; the
  process is killed between the two. Correct means: no entry is counted twice, out of
  order or passed over, and every entry is counted in the end.
* **Installation and boot.** The installer, the jobs of systemd and the restarts of
  four units go on at the same time; commands fail, or take effect and fail, in the
  installation and in its roll-back, and the machine may reboot anywhere. Correct means:
  no gate runs without the whole of its verified rules, a failed installation takes
  back what it added without cutting live connections, and an enabled one comes up after
  a boot whatever failed on the way. That nothing starts after a failed installation is
  where code and documentation part.

The hazards, each at its line and with the properties about it, are listed in
`PROJECT.json`.

## Modules

| Module | Models | Kind |
|---|---|---|
| `Lease` | what the gate promises: a redirect granted only on recent evidence, which lapses | abstract specification |
| `Gate` | `watch` in `gate.py` and everything it awaits, its process and its service | detailed specification, implements `Lease` |
| `GateProofs` | theorems about `Gate` | proofs |
| `Ledger` | what the counters promise: a counted byte recorded at most once, under its key | abstract specification |
| `Counters` | `Counters` and the shutdown of both collectors | detailed specification, implements `Ledger` |
| `CountersProofs` | theorems about `Counters` | proofs |
| `Tunnel` | what a CONNECT promises: two independent streams, counted chunk by chunk | abstract specification |
| `Relay` | `SocksServer.handle`, `negotiate`, `connect` and the stop in `serve` | detailed specification, implements `Tunnel` |
| `RelayProofs` | theorems about `Relay` | proofs |
| `UdpAssociation` | `UDPAssociation` and `udp_associate` in `collector_async.py` | specification |
| `UdpProofs` | theorems about `UdpAssociation` | proofs |
| `Import` | what the import of access records promises: each entry once, in order | abstract specification |
| `Journal` | `ingest`, `run_traffic_journal` and what journald may do | detailed specification, implements `Import` |
| `JournalProofs` | theorems about `Journal` | proofs |
| `Scheduler` | `run_once`, its loop, the settings view and form | specification |
| `SchedulerProofs` | theorems about `Scheduler` | proofs |
| `GateSetup` | `install` in `gate_setup.py` and `prepare-firewall.sh` around it | specification of one script |
| `Services` | `install.sh` from the first unit it starts, its roll-back, the four units, boots | specification, EXTENDS `GateSetup` |
| `ServicesProofs` | theorems about `Services` and the script within it | proofs |
| `MCGate`, `MCCounters`, `MCRelay`, `MCUdp`, `MCJournal`, `MCScheduler`, `MCServices` | instances for TLC | |

Operators whose name has an underscore (`Ping_AnyResult`, `Restore_Drops`) are
variants of the operator before the underscore with a plausible programming error.
They belong to no specification; replacing the operator by its variant makes TLC
violate the property that is meant to catch the error.

### Gate

`pc` is the await at which the coroutine `watch` is suspended, in the order of the
code: heartbeat query, hash of the Xray configuration, ruleset snapshot, one
`iptables -C` per family (only with `TRAFFIC_GATE_PROTECT_DIRECT`), opening the two
probes, pinging them, then `refresh_gate` or, from the `except` clause,
`clear_gate`, then the status file and the pause. `opened` is "`probes` is not
empty"; `live` are the streams that still work. `applied` says whether the running
`nft` transaction has reached the kernel, so that a command killed at its limit may
or may not have worked. `ttl` is the element in the kernel, which survives the
process. `status` is the file with its age, as `original_gate_status` reads it.

After the final clear comes a stage `closing`, the await of `server.wait_closed()`. What it
does depends on the version of Python, and `install.sh` (line 72) asks for 3.11 or
newer. Up to 3.12.0 it returns at once; since 3.12.1 it waits without a limit for the
open connections of `echo`, which end when Xray closes its side, so that a path that
hangs may hold the process. `Closed` may therefore happen at once or much later. Once a
stop has been requested, `Kill` ends a process that still waits after the service
manager's limit (`StopTimeout`: `start-gate.sh` sets none, so systemd's default of 90
seconds applies). A watchdog that an uncaught error has brought there, with no stop
requested, waits until the path works again, and is restarted only then; the redirect is
gone all the same.

Time is one clock. A `Tick` passes when no await has ended, so `timer` can never
exceed the limit the code sets for the current await (`TypeOK`), and computing takes
no time; `closing` without a stop, which has no limit, is the exception. What the checks look at is five facts that hold or fail
(`heartbeat`, `config`, `firewall`, and the paths `v4` and `v6`); a check passes if
the fact held at some moment of its await. The comparison of fingerprints and rule
structures is one fact.

### Counters

One action is one critical section of the lock, one SQLite transaction, or one step
of a handler between them. `Stamp` and `Add` are the two halves of `Counters.add`:
the minute is read before the lock is taken. `Swap`, then `Commit` or `Restore`, is
`flush`; `Owed` is what a process holds in memory. `async` selects which collector
shuts down: the event loop cancels the tasks it knows and awaits them before the
last flush, the threaded server does not wait for its daemon threads. `Abandon` is a
handler the cancellation meets inside its `finally` clause: `association.close()` is
skipped and its sockets go on counting while the last flush runs. `Kill` ends
the process before or after a running transaction is durable. Upload and download
are one number, since one statement treats both.

### Relay

`handler[c]` is the await at which `handle` is suspended for connection `c`, and
`pump` what the task of each direction is doing. A peer is named by the direction
whose source it is, so a pump reads from its own peer and drains to the other one.
`connections` and `tasks` are the fields of `SocksServer`. `Wait` is the end of
`asyncio.wait(FIRST_COMPLETED)`: it looks at whatever has finished by then, one pump
or both, and cancels the other only after a failure; `Settle` the gather after it,
`Disconnect` the one in the `finally` clause.

`Stop` is `serve` after `stop.wait()`: the server closes and every known handler is
cancelled where it is. `Unwound` says where each goes on. Two details come from
asyncio: a handler cancelled while it gathers its pumps in the `finally` clause skips
the close of its remote stream, and `asyncio.wait_for` up to Python 3.11 drops a
cancellation that meets a result (`Deaf`), after which the handler goes on as if
nothing had happened. `Gathered` is the end of the gather that waits for all of them;
the counters' last flush (`SetStopEvent` in `Counters`) comes after it.

### UdpAssociation

An action is what the event loop runs between two awaits. `Receive` is
`datagram_received`; `Forward` the first step of the task it creates, up to the
await of the shared creation, and `Resume` what follows that await. `create[c]` is
the task in which packet `c` has asked for a socket, `targets` the table that tells
which creation serves a destination, `via[p]` the creation packet `p` waits for: it
may have been replaced in the table by the time it fails. `EndControl`, `Close` and
`Release` are the three steps of the `finally` clause of `udp_associate` and
`close`, and `Abandon` the cancellation that skips what is left of them.

### Journal

A cursor names the entry it was read from; 0 is the empty cursor of a new row. `log` is
the journal, of which the first `gone` entries have been vacuumed. `Query` is
`get_or_create`, `Read` the run of `journalctl` and the parsing of what it prints,
`Commit` the transaction. `Printed` says what `journalctl` prints with `--lines`: after
a cursor the first entries that are left, without one the latest of the last quarter of
an hour. `state` is the cursor the pass has read, `last` its `last_cursor`. `imported`
and `batch` are history: the entries behind the committed and the pending counts. Which
minute an entry counts for belongs to its destination, since both come from the entry.
An error of the database is an `Interrupt`: it ends the command, as a kill does.

### GateSetup and Services

`step` is where the firewall script is: `install` up to `verify`, with the roll-back in
its `except` clause (`undo`), then the verification in `prepare-firewall.sh`. `installed`
counts the rules recorded for the roll-back, `rules` are those in the kernel; a command
that is given up at its limit may have worked without being recorded (`TimesOut`), and
one of the roll-back that is given up raises, which skips the rest (`UndoTimesOut`). `cut`
remembers that a roll-back undid less than was done. Of the fingerprint only one thing
can change: whether the port of the dashboard is open.

`pc` is where `install.sh` is, from the first service it starts (line 175); the stages
whose name ends in `wait` are a `systemctl start` that waits for its jobs. `flags` are
`site_installed`, `firewall_added` and `gate_started`. A unit is `queued` while it has a
start job that waits for what it requires, and `waiting` between its failure and its
restart (`RestartSec`); a start job for such a unit waits with it. `Requested` gives a unit a
job, `Report` ends a `systemctl start` whose job has failed, and what requires a unit
that fails is not started (`FirewallFails`). The network unit requires the collector, so
a restart of the collector restarts it (`CaptureRetry`). `missed` and `carrying` are
history: a command failed and left its effect; the gate redirected when the roll-back
decided what to stop. `redirected` stands for all of `Gate`: it follows what the
watchdog's checks find.

One assumption about time is in `Grant`: the installer's next command after `Decide`,
which is `systemctl stop`, comes before the gate, if it is started in between, has
completed a first round of checks.

### Scheduler

`Begin` is the clock reading, pruning and ingest; `Read` the row and the decision;
`Deliver` the moment the SMTP server accepts the message; `SendFails` an exception
before or after that moment; `SaveSent` and `SaveError` the two saves with
`update_fields`. A request reads the whole row (`Open`) and later writes the whole
row (`Save`): `ModelForm.save` has no `update_fields`, the database setting has no
`ATOMIC_REQUESTS`, and the web service runs two threads. Time counts days: a
schedule is its frequency, and a period is named by frequency and end, as
`last_sent_period` is.

## Runs

| Run | Instance | What it shows |
|---|---|---|
| `gate_safety` | lifetimes 4, 2, 1, 1; two faults; 1.9 million states | the safety properties of `Gate`, and `ImplementsLease` |
| `gate_liveness` | lifetimes 2, 1, 1, 1; two faults; 0.6 million states | `Recovers`, `StopReleases` |
| `counters` | two handlers, two bytes, two minutes, pending limit 1, one fault; 0.5 million states | all properties of `Counters`, `ImplementsLedger`, `EventuallySaved` |
| `relay` | two connections, one slot, four events of their peers; 1.0 million states | all properties of `Relay`, `ImplementsTunnel`, `SlotsComeBack` |
| `udp` | three packets, two destinations, one socket, two tasks; 72 thousand states | all properties of `UdpAssociation` |
| `udp_counted` | the same | violates `CountedWasSent` |
| `journal` | four entries in batches of two, two destinations, two faults; 176 thousand states | `ImplementsImport`, `CaughtUp` |
| `scheduler` | three days, a week of two, two requests, two edits, two faults; 1.8 million states | safety of `Scheduler`, and `Settles` |
| `scheduler_overlap` | one request, two edits, no fault | violates `AtMostOnce` |
| `scheduler_change` | one request, three edits, no fault | violates `AtMostOnceWithoutOverlap` |
| `services` | two chains, four faults; 33 thousand states | all properties of `GateSetup` and `Services`, `Activates` |
| `services_failed` | one fault | violates `FailedStaysOff` |

Why these bounds are enough to be of use. *Gate*: two faults cover a failing fact
together with a failing or killed command, the combinations in which one error hides
another; the delays keep the order of the real ones (a fast round ends within the
lifetime of the element, a slow one does not; in `gate_safety` the service manager's
limit is longer than that lifetime, so a process that is held in `closing` outlives the
element). *Counters*: a limit of one is met by
the second key; two handlers race with each other, a flush and the stop; two minutes
separate stamping from saving. *Relay*: one slot makes the second
connection meet the limit; four events let each direction of a connection carry a
chunk and end, or be reset while the other drains. Connections are finite and may
simply idle, so this run does not check for deadlock. *UDP*: with one socket and two
destinations the limit is met at once; three packets let one wait for a creation that
fails, another replace it and the third learn of the failure last. Packets are finite
and the association may simply idle once they are used up, so this run does not check
for deadlock. *Journal*: four entries in batches of two leave a rest that takes more than
one pass, of which two may fail; the journal loses entries before and behind the
cursor. *Services*: two chains, as in the code, so that a rule may be missing after
another was added; four faults cover a command of the installation, one of its
roll-back, a unit that fails and a reboot in one behaviour. Faults and reboots are
bounded and an installed system at rest does nothing, so this run does not check for
deadlock. *Scheduler*: both kinds of period end, the weekly one
twice; a second fault fails a retry; two requests overlap each other and a pass.
The proofs do not depend on any of these bounds.

### What the four violated runs say

`run_once` promises to "send a due report at most once per period". It does not hold:

1. *Overlap.* A request reads the row, a pass sends and records the period, the
   request saves: `ReportSettingsForm.save` writes all columns, the old
   `last_sent_period` too, and the next pass sends the report again. No failure is
   involved; `README.md` of `server/traffic` names only interruptions as a cause.
2. *Change of schedule.* Only the last period sent is remembered. Daily, sent; then
   weekly, sent; then daily again within the day: the same daily report is sent twice.

A third run is about bytes. `Counters.add` documents its argument as a "successfully
forwarded byte count", but `transport.sendto` raises nothing when the operating
system refuses the datagram: asyncio calls `error_received`, whose inherited default
ignores the error, and the packet is counted (`CountedWasSent`).

A fourth run is about the installation. The roll-back stops every unit except
`clash-traffic-firewall.service` (`install.sh` line 123). When the failure of that unit
is what fails the installation, it waits for its restart 15 seconds later, which
disabling it does not cancel. If what failed was passing, the script now succeeds, and
its `ExecStartPost` starts the network unit, the collector and the gate: connections are
redirected after the installation was withdrawn, and no dashboard shows it
(`FailedStaysOff`). The README of `server/traffic` says of a failed installation that "it
attempts to disable the new services", and the roll-back prints "preserving the existing
proxy".

Of the scheduler, what does hold is `RepeatsExplained` (each repetition has one of
three causes),
`SentIsDelivered` (none is skipped) and `Settles` (it is sent in the end).

### Fairness

* `Gate`: the event loop resumes a coroutine whose await has ended, the service
  manager restarts a failed service (`Restart=on-failure`) and kills a stopped one that
  does not end (`Kill`), time passes. The wait for the server to close is fair only while
  both paths work (`ClosedByPeers`): Xray then ends its side of a connection whose probe
  is closed. Faults, stops and repairs are not fair; `Recovers` assumes in its formula that what the
  watchdog checks works in the end. systemd's limit on the rate of starts is not
  modelled: with `RestartSec=2` a failing service does not reach the default limit.
* `Counters`: the flush thread is scheduled and its transactions end, and a handler
  reaches the end of `add`. Nobody has to connect, send, stop or restart anything,
  and a stop that has begun is not assumed to end: it waits for handlers, whose peers
  need not read what they are sent. Faults are finitely many.
* `Relay`: the event loop runs what is ready. No peer has to send, read or hang up;
  `SlotsComeBack` assumes in its formula, for each connection by itself, that its
  peers read what is left, so a connection cannot be held up by another one.
* `UdpAssociation`: the event loop runs what is ready, a creation succeeds or fails
  (the resolver has a timeout), and a handler whose cancelled tasks have ended goes
  on. Nobody has to send, answer or hang up.
* `Journal`: the command goes on after its sleep, `journalctl` ends (it has a time
  limit), and the service manager restarts the command. Nothing has to be logged.
* `Services`: the service manager runs the jobs it has and starts again what has failed;
  the script it runs goes on. The installer is not assumed to go on, nor is anybody
  assumed to reboot. As with the gate, limits on the rate of starts do not apply: the
  firewall and network units switch them off (`StartLimitIntervalSec=0`), and the delays
  of the others keep below the default limit.
* `Scheduler`: the loop goes on after its sleep, an SMTP session ends (its socket
  has a timeout), the service manager restarts the process. Nobody has to use the
  form, and requests need not end.

## Proofs

All theorems hold for every value of the constants under the named assumptions
(`GateAssumption`, `CountersAssumption`, `RelayAssumption`, `UdpAssumption`,
`JournalAssumption`, `SchedulerAssumption`, `SetupAssumption`): the delays, limits and
bounds are natural numbers, connections, packets and destinations are finitely many,
`"Unknown"` is no destination label, and there is at least one contact.

* **Gate.** `RedirectRestsOnEvidence` is not inductive: it says nothing about a
  round that has not granted yet. `GateInv` adds `RoundEvidence` (how old each fact
  already checked in this round may be, as a function of where the round is) and
  `ShadowStages` (a shadow watchdog reaches no `nft` command). From it follow the
  evidence bound, shadow safety and the refinement: a `refresh` that takes effect is
  a `Grant` because `RoundEvidence` bounds all ages there, `clear` and a dropped
  element are `Release`, all else stutters or ticks. `ClearedStages` relates the
  status, the element and the last command for `FallbackStatusHonest`; `ActiveInv`
  relates the age of an "active" status to what is left of the element for
  `ActiveStatusHonest`. `ProbeInv` keeps the two streams together: none leaks from a
  failed attempt or an ended process (`NoProbeLeaks`), and a grant always follows a ping
  of a pair (`GrantNeedsProbes`). `Left` gives each stage what a stop costs from there up to the last
  await, at most. No step adds to what is left of the redirect or of the process and
  every tick takes from both (`StopAdvances`), neither is more than its bound, and at the
  end of the one the redirect is gone, of the other the process, or it is killed before
  any more time passes (`StopIsBounded`). With the delays of the code the redirect is
  gone some 50 seconds after the request, of which 12 are the element's, even when every
  check and command runs to its limit, every clear fails and a hanging path holds the
  process in `wait_closed`; nothing renews it there. The process is gone after 130: the
  40 of a slowest round and the 90 of the service manager, which in fact counts from the
  request on, so that `closing` gets a longer limit in the model than it has.
* **Counters.** `CountersInv` adds to `Conservation` what the flush is doing
  (`FlushStages`: only a running flush holds a batch) and what its snapshot vouches
  for (`HeartbeatHonest` with the running flush). The refinement to `Ledger` follows
  from conservation: a commit moves a batch to disk, so no row exceeds what was
  counted. `PendingBound` counts what a flush has swapped out as well (`NamedBounded`):
  while it runs, the dict that is filled anew obeys the limit by itself, so what a failed
  flush gives back adds at most one limit to it. `LastFlushComplete` needs `Drained`, a
  statement about handlers known to the event loop while it closes; the same statement
  shows that an exit after a last flush that worked loses no byte, not even one that was
  forwarded and still to be counted (`CleanStopLosesNothing`). What any other end of a
  process loses was counted after the flush of the last saved heartbeat began
  (`LossBound`). By `Vouching` a running flush will vouch for no less than the last one,
  so heartbeats and rows only grow (`HeartbeatsOnlyGrow`).
* **Relay.** `RelayInv` adds to `SlotsExact` what the place of a handler says of its
  pumps and its remote stream (`Stages`), and what a pump is doing says of how far its
  stream has been written and counted (`Flow`). The connections that are broken only
  grow, a stream is cut only in one of them, and every other step leaves the abstract
  variables alone or is one of the steps of `Tunnel`: the refinement. Slots are exact
  because `tasks` is always the set of handlers between `Start` and `Closed`. `Delivery`
  ties each pump to how far its stream is read, written and counted: a tunnel that was
  neither reset nor stopped has delivered and counted everything when its relay is over
  (`WholeUnlessBroken`), and however one ends, at most one written chunk of a stream is
  uncounted (`InFlight`). `HalfWaits` says when a handler may go on waiting for one
  stream: never because the other has failed (`FailureWaitsForNobody`).
* **UDP.** `NoOrphan`, a socket is the one its destination has in the table, holds
  only because a creation that fails gives up no place but its own. `UdpInv` adds
  `SocketStages` (an open socket has a finished creation, and only open sockets are
  idle), `RegisteredBounded` (the table never exceeds the limit), `ClosingStages`
  (from `close` on there is no task and no running creation) and `WaitsForCreation`.
  By `NoOrphan` sockets map injectively into the destinations of the table, which
  gives `SocketsBounded`. `Places` is the converse: a place is that of a live socket, or
  of a failed creation whose own packet is about to give it back, so none is lost
  (`PlacesAreUsed`). It needs `Waiters`, what a packet may be waiting for, which gives
  `NoTaskStranded` and `CountedOnItsSocket` as well.
* **Scheduler.** `SentIsDelivered` needs `Claims`: every copy of
  `last_sent_period` (the row, the pass's copy, each open request's) names a
  delivered period, because an overlapping save may bring any of them back.
  `RepeatsExplained` needs `RepeatsInv`. A report that uses up its excuses (`Spent`) is
  the one being recorded, or the recorded period of the current schedule ends no earlier:
  since time moves on, it is not due again (`DueGrows`). Whatever reverts the recorded
  period or changes the schedule is an excuse more, also for a pass that has read the
  settings before. The same invariant shows that the record never goes back within a
  schedule but by an overlapping save (`RecordMovesForward`). That only complete periods
  are reported (`OnlyCompletePeriods`) rests on what `Due` computes: `WeekStartIsWeekEnd`
  and `DueIsComplete`, for any length of the week.
* **Journal.** `JournalInv` says what the cursor stands for: every imported entry is at
  or before it, and once there is one, what lies before it and after the first import was
  imported or vacuumed (`Position`); and what a pass holds: the tally of a batch that
  follows the cursor without a gap (`Holds`). The commit is then a `Take` of `Import`, the
  rest grows the journal or stutters. With `Anchored`, a saved cursor names an imported
  entry, it follows that the recorded counts are exactly those of the imported entries
  (`CountsExact`), that the cursor never goes back and passes over nothing the journal
  still had (`NothingPassedOver`), and that a read with something behind the cursor takes
  some of it (`ReadTakes`).
* **Installation and boot.** Five parts are proved together. `SetupInv` says at each
  step of the script what there is of table, rules and file, and what the roll-back
  knows of it; from it follows `CleanUnlessCut`. `OrderInv` ties a network unit past its
  verification, and a gate, to a complete and verified set of rules, which nothing but a
  reboot takes away. `WithdrawInv` says, by stage of the installer and of its roll-back,
  what is still there and which flags tell of it, unless a command was missed: the order
  of action, flag and possible failure that `Withdrawn` depends on. `CarryInv` keeps the
  collector through the branch of the roll-back that was chosen. On top of them, `DoneInv`
  says what the stages of a successful installation leave (`SuccessIsWhole`), `JobsInv`
  which units have asked for which, so that enabled units never come to rest without the
  gate (`NobodyIsStranded`), and `OrderInv` also keeps the rules under every redirect
  (`RedirectIsGuarded`). `CutInv` says what an interrupted roll-back leaves: never
  nothing, so a later run of the script installs nothing over it, completes nothing and
  takes nothing away, until a reboot (`OnlyRebootRepairs`). No gate starts on less than
  everything, and that is the exception `Activates` makes. Everything can be left, too:
  when the command of the last rule took effect and timed out, and then the first one of
  the roll-back timed out without effect. The next run of the script reuses that,
  verifies it, and the gate starts without a reboot.

Model-checked only: the liveness properties (`Recovers`, `StopReleases`,
`EventuallySaved`, `SlotsComeBack`, `TasksEnd`, `CaughtUp`, `Settles`, `Activates`),
since fairness and `ENABLED` are out of the prover's reach. What some of them rest on is
proved: for `StopReleases` the bounds above, which leave only that time passes and the
service manager kills; for
`SlotsComeBack`, `TasksEnd`, `CaughtUp` and `Activates` that nobody is left waiting for
what cannot happen (`FailureWaitsForNobody`, `NoTaskStranded`, `ReadTakes`,
`NobodyIsStranded`). These, and the other properties that are defined in the proof modules
and named above, are theorems only and belong to no run.

## Abstractions to know

* One clock that never jumps. The code compares wall clocks of two processes; a
  clock that is set back is a hazard listed, not modelled.
* `server.wait_closed()` is a stage of its own in `Gate`. In `Counters` and `Relay` it
  comes after the gather of the cancelled handlers and changes nothing; since Python
  3.12.1 it may delay the last flush until a handler that the stop missed has ended, or
  for ever. Both are behaviours the models have, since a stop that has begun need not go
  on.
* An exception that is no `sqlite3.Error` ends the flush thread; it is not modelled.
* SQLite is serial: one transaction is one step, atomic under a kill.
* In `Relay`, the sizes of chunks and the bytes of the handshake are left out, and so is
  the health endpoint, whose bytes are relayed but not counted. What a `drain` waits for
  is a step of the peer that reads; buffers in the kernel are part of the peer. The end
  of a cancelled pump is one step with its cancellation, since it has no `finally`
  clause and runs no further.
* In `UdpAssociation`, the end of a task and the callback that takes it out of the set
  of tasks are one step; `close` cancels its tasks at once, since a cancelled task runs
  no further; a packet that waits for a ready socket is resumed long before the socket
  has been idle for a minute. Which client address an association is bound to, the
  encoding of datagrams and the relaying of responses are left out.
* In `Services`, `VerifiedBeforeGate` is about the gate's own rules; what the watchdog
  does when the policy changes later is in `Gate`. The web and the journal and scheduler
  units matter only as commands that may fail. Creating accounts, files and the virtual
  environment (`install.sh` lines 136 to 173) comes before anything is started and is
  never taken back; the model starts after it. A gate that has crashed and waits two
  seconds for its restart is not active for `systemctl is-active`: a roll-back that meets
  this moment stops the collector, which `CollectorKept` does not exclude, since it is
  about a gate that runs.
* In `Journal`, what makes a read fail passes. An entry that could never be parsed would
  stay behind the cursor and fail every later pass; `CaughtUp` says nothing of it.
* The run `scheduler` has two edits of the schedule, so a repeat after a change there and
  back, which takes three, is met by `scheduler_change`, and by the theorem about
  `RepeatsExplained`, which has no such bound.
* In `Journal`, one command runs. The scheduler of the older preview ingests too;
  with the settings of the installed services (`TRAFFIC_EXTERNAL_JOURNAL`) it does not, so
  two readers of one cursor do not meet.
* One settings row exists from the start; `get_or_create` creates it once.

## Order of the work, and what is left

The models were written in the order of what can be lost: traffic (`Gate`, `Counters`),
connections (`Relay`, `UdpAssociation`), records and mail (`Journal`, `Scheduler`), then
installation and boot (`GateSetup`, `Services`). Next, if the project goes on:

1. The threaded collector beside `Relay` and `UdpAssociation`: its relay threads with
   their semaphore, and its blocking association.
2. A composition of `Gate`, `Counters` and the dashboard, from a dead flush thread to the
   end of the redirect, and of `Relay` and `Counters`: which bytes of a stream the last
   flush contains.
3. The minute arithmetic of `scheduled_period` around clock changes, and a blank
   password in two overlapping forms, both listed as hazards.

## Not modelled

* *Prepared configurations and the administrator's account* (`prepare_original.py`,
  `preview.py --prepare`, `bootstrap_traffic_admin.py`), *the preflight* and *the server
  installer*: sequential commands that a person runs once and runs again after a
  failure, with nothing beside them. Most of their code builds or compares configuration
  documents.
* *Supervisors* (`original.py`, `preview.py`): they start their children in order and
  stop all of them when one ends. What that does to the others is in `Counters` (a kill
  at any moment of the last flush) and `Services` (a crash of the collector).
* *The threaded collector's relays*: the preview's collector; the installed services run
  the asynchronous one, which is modelled. Its counters and its shutdown are in
  `Counters`.
* *Views, queries, report texts and client configurations*: rendering of stored rows.
  Request routing and authentication are framework code.
* *Rule lists*: text processing in shell and PowerShell that keeps no state.
* *Uninstaller and firewall scripts*: commands in a fixed order that do not depend on
  earlier results.
