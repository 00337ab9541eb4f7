------------------------------ MODULE Counters ------------------------------
(***************************************************************************)
(* The byte counters of server/traffic/collector.py and the shutdown of    *)
(* the two collectors that use them: handlers that count what they have    *)
(* forwarded, the thread that saves the counts once a second, and the main *)
(* thread (or event loop) that stops both.                                 *)
(*                                                                         *)
(* Upload and download are counted by the same statements, so one number   *)
(* stands for both.  One action is one critical section of Counters.lock,  *)
(* one SQLite transaction, or one step of a handler between them.          *)
(***************************************************************************)
EXTENDS Naturals, FiniteSets

CONSTANTS
    Domains,       \* destination labels, not counting Unknown
    Handlers,      \* slots for connections
    MaxPending,    \* MAX_PENDING
    MaxMinute,     \* bound: minutes that may pass
    MaxBytes,      \* bound: bytes that are forwarded
    MaxFaults      \* bound: database errors, kills and slow exits

ASSUME CountersAssumption ==
    /\ "Unknown" \notin Domains
    /\ MaxPending \in Nat \ {0}
    /\ MaxMinute \in Nat /\ MaxBytes \in Nat /\ MaxFaults \in Nat

Labels == Domains \cup {"Unknown"}
Minutes == 0..MaxMinute
Keys == Minutes \X Labels

VARIABLES
    async,         \* collector_async.py, or the threads of collector.py
    now,           \* the current UTC minute
    handler,       \* what each connection is doing
    pending,       \* Counters.pending: bytes of the keys present
    batch,         \* the dict a running flush has swapped out
    flusher,       \* where the thread of Counters.run is
    stopEvent,     \* Counters.stop_event
    main,          \* where the main thread is
    db,            \* rows on disk
    heartbeat,     \* history: what the last saved heartbeat vouches for
    snapshot,      \* history: what the running flush will vouch for
    counted, lost, \* history: bytes ever counted, and lost from memory
    stray,         \* history: connections the shutdown does not wait for
    failed,        \* history: flushes failed since the last success
    forwarded, faults

memoryVars == <<pending, batch>>
diskVars == <<db, heartbeat>>
historyVars == <<snapshot, counted, lost, failed>>
vars == <<async, now, handler, memoryVars, flusher, stopEvent, main, diskVars,
          historyVars, stray, forwarded, faults>>

-----------------------------------------------------------------------------
\* A dict of counts is a function on the keys that are present.

Empty == [k \in {} |-> 0]
At(f, k) == IF k \in DOMAIN f THEN f[k] ELSE 0
Merge(f, g) == [k \in DOMAIN f \cup DOMAIN g |-> At(f, k) + At(g, k)]
Zero == [k \in Keys |-> 0]

Fault == faults < MaxFaults /\ faults' = faults + 1

Idle == [pc |-> "idle", label |-> "Unknown", minute |-> 0]
Alive == main \notin {"exited", "killed"}

Init ==
    /\ async \in BOOLEAN
    /\ now = 0
    /\ handler = [h \in Handlers |-> Idle]
    /\ pending = Empty /\ batch = Empty
    /\ flusher = "sleep" /\ stopEvent = FALSE /\ main = "serving"
    /\ db = Empty /\ heartbeat = Zero
    /\ snapshot = Zero /\ counted = Zero /\ lost = Zero
    /\ stray = {} /\ failed = 0 /\ forwarded = 0 /\ faults = 0

-----------------------------------------------------------------------------
\* Handlers.

Goto(h, s) == handler' = [handler EXCEPT ![h].pc = s]

\* A connection is accepted; its thread or task has not run yet.
Accept(h) ==
    /\ main = "serving" /\ handler[h].pc = "idle"
    /\ Goto(h, "accepted")
    /\ UNCHANGED <<async, now, memoryVars, flusher, stopEvent, main, diskVars,
                   historyVars, stray, forwarded, faults>>

\* The handler runs: from here on the asynchronous server knows its task.
Begin(h, d) ==
    /\ Alive /\ handler[h].pc = "accepted"
    /\ handler' = [handler EXCEPT ![h] =
                      [pc |-> "relaying", label |-> d, minute |-> 0]]
    /\ stray' = IF main = "serving" THEN stray ELSE stray \cup {h}
    /\ UNCHANGED <<async, now, memoryVars, flusher, stopEvent, main, diskVars,
                   historyVars, forwarded, faults>>

\* Bytes are on their way to the peer, but not counted.
Forward(h) ==
    /\ Alive /\ handler[h].pc = "relaying" /\ forwarded < MaxBytes
    /\ Goto(h, "forwarded")
    /\ forwarded' = forwarded + 1
    /\ UNCHANGED <<async, now, memoryVars, flusher, stopEvent, main, diskVars,
                   historyVars, stray, faults>>

\* Counters.add reads the clock before it takes the lock.
Stamp(h) ==
    /\ Alive /\ handler[h].pc = "forwarded"
    /\ handler' = [handler EXCEPT ![h].pc = "stamped", ![h].minute = now]
    /\ UNCHANGED <<async, now, memoryVars, flusher, stopEvent, main, diskVars,
                   historyVars, stray, forwarded, faults>>

\* The parts of a key in the wrong order.
KeyOf_Swapped(r) == <<r.label, r.minute>>

\* A check that does not count the keys it lets in.
KeyOf_Unlimited(r) == <<r.minute, r.label>>

KeyOf(r) ==
    IF /\ <<r.minute, r.label>> \notin DOMAIN pending
       /\ Cardinality(DOMAIN pending) >= MaxPending
    THEN <<r.minute, "Unknown">>
    ELSE <<r.minute, r.label>>

\* ... and adds to the pending counts under the lock.
Add(h) ==
    /\ Alive /\ handler[h].pc = "stamped"
    /\ LET k == KeyOf(handler[h]) IN
       /\ pending' = Merge(pending, [j \in {k} |-> 1])
       /\ counted' = [counted EXCEPT ![k] = @ + 1]
    /\ Goto(h, "relaying")
    /\ UNCHANGED <<async, now, batch, flusher, stopEvent, main, diskVars,
                   snapshot, lost, failed, stray, forwarded, faults>>

\* A stream ends, or a task is cancelled while it waits for the peer to drain:
\* then what it has written is never counted.
End(h) ==
    /\ Alive
    /\ handler[h].pc \in {"accepted", "relaying"} \cup (IF async THEN {"forwarded"} ELSE {})
    /\ handler' = [handler EXCEPT ![h] = Idle]
    /\ UNCHANGED <<async, now, memoryVars, flusher, stopEvent, main, diskVars,
                   historyVars, stray, forwarded, faults>>

-----------------------------------------------------------------------------
\* Counters.run and Counters.flush.

\* A wait without its timeout.
Swap_WaitsForStop ==
    /\ Alive /\ flusher = "sleep" /\ stopEvent
    /\ batch' = pending /\ pending' = Empty
    /\ flusher' = "last"
    /\ snapshot' = [k \in Keys |-> counted[k] - lost[k]]
    /\ UNCHANGED <<async, now, handler, stopEvent, main, diskVars, counted, lost,
                   failed, stray, forwarded, faults>>

\* The wait for the stop event times out, or ends because it is set: then this
\* is the last flush.
Swap ==
    /\ Alive /\ flusher = "sleep"
    /\ batch' = pending /\ pending' = Empty
    /\ flusher' = IF stopEvent THEN "last" ELSE "writing"
    /\ snapshot' = [k \in Keys |-> counted[k] - lost[k]]
    /\ UNCHANGED <<async, now, handler, stopEvent, main, diskVars, counted, lost,
                   failed, stray, forwarded, faults>>

Flushed == flusher' = IF flusher = "last" THEN "done" ELSE "sleep"

\* One transaction adds the batch to the rows and writes the heartbeat.
Commit ==
    /\ Alive /\ flusher \in {"writing", "last"}
    /\ db' = Merge(db, batch)
    /\ heartbeat' = snapshot
    /\ batch' = Empty
    /\ failed' = 0
    /\ Flushed
    /\ UNCHANGED <<async, now, handler, pending, stopEvent, main, snapshot,
                   counted, lost, stray, forwarded, faults>>

\* A handler that only logs: the exception has already emptied the counts.
Restore_Drops ==
    /\ Alive /\ flusher \in {"writing", "last"}
    /\ Fault
    /\ batch' = Empty
    /\ failed' = failed + 1
    /\ Flushed
    /\ UNCHANGED <<async, now, handler, pending, stopEvent, main, diskVars,
                   snapshot, counted, lost, stray, forwarded>>

\* A heartbeat in a transaction of its own, written even when the counts fail.
Restore_BeatsAnyway ==
    /\ Alive /\ flusher \in {"writing", "last"}
    /\ Fault
    /\ pending' = Merge(pending, batch)
    /\ batch' = Empty
    /\ heartbeat' = snapshot
    /\ failed' = failed + 1
    /\ Flushed
    /\ UNCHANGED <<async, now, handler, stopEvent, main, db, snapshot,
                   counted, lost, stray, forwarded>>

\* Autocommit: the rows stay although the batch is kept for a retry.
Restore_NotRolledBack ==
    /\ Alive /\ flusher \in {"writing", "last"}
    /\ Fault
    /\ db' = Merge(db, batch)
    /\ pending' = Merge(pending, batch)
    /\ batch' = Empty
    /\ failed' = failed + 1
    /\ Flushed
    /\ UNCHANGED <<async, now, handler, stopEvent, main, heartbeat,
                   snapshot, counted, lost, stray, forwarded>>

\* The transaction is rolled back and the batch returns to the pending counts.
Restore ==
    /\ Alive /\ flusher \in {"writing", "last"}
    /\ Fault
    /\ pending' = Merge(pending, batch)
    /\ batch' = Empty
    /\ failed' = failed + 1
    /\ Flushed
    /\ UNCHANGED <<async, now, handler, stopEvent, main, diskVars, snapshot,
                   counted, lost, stray, forwarded>>

-----------------------------------------------------------------------------
\* The process.

\* SIGTERM ends serve_forever, or sets the event `serve' waits for.
Sigterm ==
    /\ main = "serving"
    /\ main' = "closing"
    /\ UNCHANGED <<async, now, handler, memoryVars, flusher, stopEvent, diskVars,
                   historyVars, stray, forwarded, faults>>

\* The tasks the server knows: those of handlers that began in time.
Known(h) == handler[h].pc \notin {"idle", "accepted"} /\ h \notin stray

\* The cancellation meets a UDP association whose control stream has just ended,
\* waiting for its reaper: `close' is skipped and its sockets go on counting.
Abandon(h) ==
    /\ main = "closing" /\ async /\ Known(h)
    /\ stray' = stray \cup {h}
    /\ UNCHANGED <<async, now, handler, memoryVars, flusher, stopEvent, main,
                   diskVars, historyVars, forwarded, faults>>

\* Cancelled tasks are not awaited.
SetStopEvent_AtOnce ==
    /\ main = "closing"
    /\ stopEvent' = TRUE
    /\ main' = "joining"
    /\ UNCHANGED <<async, now, handler, memoryVars, flusher, diskVars,
                   historyVars, stray, forwarded, faults>>

\* The event loop cancels its tasks and waits for them; threads are left alone.
SetStopEvent ==
    /\ main = "closing"
    /\ async => \A h \in Handlers : ~Known(h)
    /\ stopEvent' = TRUE
    /\ main' = "joining"
    /\ UNCHANGED <<async, now, handler, memoryVars, flusher, diskVars,
                   historyVars, stray, forwarded, faults>>

Owed == Merge(pending, batch)

\* What ends the process loses what is in memory.
Forget ==
    /\ lost' = [k \in Keys |-> lost[k] + At(Owed, k)]
    /\ pending' = Empty /\ batch' = Empty
    /\ handler' = [h \in Handlers |-> Idle]

\* The join returns, or gives up on a slow database after fifteen seconds.
Exit ==
    /\ main = "joining"
    /\ \/ flusher = "done" /\ UNCHANGED faults
       \/ flusher # "done" /\ Fault
    /\ main' = "exited"
    /\ Forget
    /\ UNCHANGED <<async, now, flusher, stopEvent, diskVars, snapshot, counted,
                   failed, stray, forwarded>>

\* The process is killed, before or after a running transaction is durable.
Kill ==
    /\ Alive /\ Fault
    /\ main' = "killed"
    /\ \/ Forget /\ UNCHANGED diskVars
       \/ /\ flusher \in {"writing", "last"}
          /\ db' = Merge(db, batch) /\ heartbeat' = snapshot
          /\ lost' = [k \in Keys |-> lost[k] + At(pending, k)]
          /\ pending' = Empty /\ batch' = Empty
          /\ handler' = [h \in Handlers |-> Idle]
    /\ UNCHANGED <<async, now, flusher, stopEvent, snapshot, counted, failed,
                   stray, forwarded>>

Start ==
    /\ ~Alive
    /\ flusher' = "sleep" /\ stopEvent' = FALSE /\ main' = "serving"
    /\ stray' = {} /\ failed' = 0
    /\ UNCHANGED <<async, now, handler, memoryVars, diskVars, snapshot, counted,
                   lost, forwarded, faults>>

Minute ==
    /\ now < MaxMinute
    /\ now' = now + 1
    /\ UNCHANGED <<async, handler, memoryVars, flusher, stopEvent, main, diskVars,
                   historyVars, stray, forwarded, faults>>

Counting ==
    \E h \in Handlers :
        \/ Accept(h)
        \/ \E d \in Labels : Begin(h, d)
        \/ Forward(h) \/ Stamp(h) \/ Add(h) \/ End(h) \/ Abandon(h)

Saving == Swap \/ Commit \/ Restore

Next == Counting \/ Saving \/ Sigterm \/ SetStopEvent \/ Exit \/ Kill \/ Start \/ Minute

Spec == Init /\ [][Next]_vars

\* The flush thread is scheduled and its transactions end; a counting handler
\* reaches the end of `add'.  A stop may take for ever: it waits for handlers whose
\* peers need not read what they are sent.
FairSpec ==
    /\ Spec
    /\ WF_vars(Swap) /\ WF_vars(Commit)
    /\ \A h \in Handlers : WF_vars(Stamp(h)) /\ WF_vars(Add(h))

-----------------------------------------------------------------------------
\* Properties.

IsCounts(f) ==
    /\ DOMAIN f \subseteq Keys
    /\ f = [k \in DOMAIN f |-> f[k]]
    /\ \A k \in DOMAIN f : f[k] \in Nat

TypeOK ==
    /\ async \in BOOLEAN /\ stopEvent \in BOOLEAN
    /\ now \in Minutes
    /\ handler \in [Handlers ->
          [pc : {"idle", "accepted", "relaying", "forwarded", "stamped"},
           label : Labels, minute : Minutes]]
    /\ IsCounts(pending) /\ IsCounts(batch) /\ IsCounts(db)
    /\ flusher \in {"sleep", "writing", "last", "done"}
    /\ main \in {"serving", "closing", "joining", "exited", "killed"}
    /\ heartbeat \in [Keys -> Nat] /\ snapshot \in [Keys -> Nat]
    /\ counted \in [Keys -> Nat] /\ lost \in [Keys -> Nat]
    /\ stray \subseteq Handlers
    /\ failed \in Nat /\ forwarded \in 0..MaxBytes /\ faults \in 0..MaxFaults

\* Every byte counted under a key is in exactly one place: pending, in the batch
\* of a running flush, on disk, or lost with a process that ended.
Conservation ==
    \A k \in Keys :
        counted[k] = At(db, k) + At(batch, k) + At(pending, k) + lost[k]

\* A heartbeat on disk vouches for the bytes: everything counted before its
\* flush began, and not lost by an earlier process, is on disk with it.
HeartbeatHonest == \A k \in Keys : heartbeat[k] <= At(db, k)

\* MAX_PENDING bounds the named destinations in memory only while the database
\* works: a batch that comes back joins a pending dict that was filled anew, so
\* each failed flush may add as many again.
PendingBound ==
    Cardinality({k \in DOMAIN pending : k[2] # "Unknown"})
        <= (failed + 1) * MaxPending

\* After a clean stop of the asynchronous collector whose last flush worked, only
\* a connection that began after the server closed, or a UDP association whose
\* clean-up the stop interrupted, can have left counts.
LastFlushComplete ==
    async /\ flusher = "done" /\ failed = 0 /\ stray = {} => pending = Empty

Book == INSTANCE Ledger WITH recorded <- [k \in Keys |-> At(db, k)]

\* Counting, failing, retrying, killing and restarting never record a byte twice,
\* move it to another key or take it back.
ImplementsLedger == Book!Spec

\* Whatever is counted while the process lives reaches the disk in the end, or
\* the flush thread has made its last attempt: a failed flush is tried again.
EventuallySaved ==
    <>[](\/ ~Alive
         \/ pending = Empty /\ batch = Empty
         \/ flusher = "done")
=============================================================================
