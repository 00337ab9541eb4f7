------------------------------- MODULE Relay --------------------------------
(***************************************************************************)
(* The connections of server/traffic/collector_async.py: the slots of      *)
(* SocksServer.handle, the CONNECT relay with its two pumps, and the stop  *)
(* of the server in `serve', which cancels the handlers it knows.          *)
(*                                                                         *)
(* An action is what runs on the event loop between two awaits.  A peer is *)
(* named by the direction whose source it is: "up" is the client, "down"   *)
(* the destination.                                                        *)
(***************************************************************************)
EXTENDS Naturals, FiniteSets

CONSTANTS
    Conns,           \* connections to the proxy
    MaxConnections,  \* MAX_CONNECTIONS
    MaxEvents        \* bound: chunks, ends and resets of all peers

ASSUME RelayAssumption ==
    /\ IsFiniteSet(Conns)
    /\ MaxConnections \in Nat \ {0} /\ MaxEvents \in Nat

Dirs == {"up", "down"}
Other(d) == IF d = "up" THEN "down" ELSE "up"

VARIABLES
    handler,         \* the await `handle' is suspended at
    connections,     \* SocksServer.connections
    tasks,           \* SocksServer.tasks
    remote,          \* remote_writer
    pump,            \* the task of each direction
    server,          \* where `serve' is
    cancelled,       \* the handlers `serve' has cancelled
    offered,         \* chunks each peer has sent
    eof, reset,      \* peers that have ended their stream, or are gone
    events,          \* chunks, ends and resets so far
    written, counted,
    ended            \* history: streams whose end was passed on

slotVars == <<connections, tasks>>
serverVars == <<server, cancelled>>
peerVars == <<offered, eof, reset, events>>
dataVars == <<written, counted, ended>>
vars == <<handler, slotVars, remote, pump, serverVars, peerVars, dataVars>>

Streams == Conns \X Dirs

Init ==
    /\ handler = [c \in Conns |-> "idle"]
    /\ connections = 0 /\ tasks = {}
    /\ remote = [c \in Conns |-> "none"]
    /\ pump = [s \in Streams |-> "none"]
    /\ server = "serving" /\ cancelled = {}
    /\ offered = [s \in Streams |-> 0]
    /\ eof = {} /\ reset = {} /\ events = 0
    /\ written = [s \in Streams |-> 0] /\ counted = [s \in Streams |-> 0]
    /\ ended = {}

Goto(c, s) == handler' = [handler EXCEPT ![c] = s]

-----------------------------------------------------------------------------
\* Slots.

\* The server accepts until it is closed.
Accept(c) ==
    /\ server = "serving" /\ handler[c] = "idle"
    /\ Goto(c, "accepted")
    /\ UNCHANGED <<slotVars, remote, pump, serverVars, peerVars, dataVars>>

\* A limit that is off by one.
Start_OneMore(c) ==
    /\ handler[c] = "accepted"
    /\ IF connections > MaxConnections
       THEN Goto(c, "rejected") /\ UNCHANGED slotVars
       ELSE /\ Goto(c, "negotiating")
            /\ connections' = connections + 1
            /\ tasks' = tasks \cup {c}
    /\ UNCHANGED <<remote, pump, serverVars, peerVars, dataVars>>

\* The handler runs: it is rejected, or takes a slot.
Start(c) ==
    /\ handler[c] = "accepted"
    /\ IF connections >= MaxConnections
       THEN Goto(c, "rejected") /\ UNCHANGED slotVars
       ELSE /\ Goto(c, "negotiating")
            /\ connections' = connections + 1
            /\ tasks' = tasks \cup {c}
    /\ UNCHANGED <<remote, pump, serverVars, peerVars, dataVars>>

\* The finally clause around the check as well.
Rejected_Releases(c) ==
    /\ handler[c] = "rejected"
    /\ Goto(c, "done")
    /\ connections' = connections - 1
    /\ tasks' = tasks \ {c}
    /\ UNCHANGED <<remote, pump, serverVars, peerVars, dataVars>>

Rejected(c) ==
    /\ handler[c] = "rejected"
    /\ Goto(c, "done")
    /\ UNCHANGED <<slotVars, remote, pump, serverVars, peerVars, dataVars>>

\* The client's stream is closed, whatever happened: the slot is free.
Closed(c) ==
    /\ handler[c] = "closing"
    /\ Goto(c, "done")
    /\ connections' = connections - 1
    /\ tasks' = tasks \ {c}
    /\ UNCHANGED <<remote, pump, serverVars, peerVars, dataVars>>

-----------------------------------------------------------------------------
\* A connection.

\* Every read of the handshake has a timeout; what is no CONNECT ends here.
Negotiate(c) ==
    /\ handler[c] = "negotiating"
    /\ Goto(c, "connecting") \/ Goto(c, "closing")
    /\ UNCHANGED <<slotVars, remote, pump, serverVars, peerVars, dataVars>>

Connect(c) ==
    /\ handler[c] = "connecting"
    /\ \/ Goto(c, "replying") /\ remote' = [remote EXCEPT ![c] = "open"]
       \/ Goto(c, "refusing") /\ UNCHANGED remote
    /\ UNCHANGED <<slotVars, pump, serverVars, peerVars, dataVars>>

Refuse(c) ==
    /\ handler[c] = "refusing"
    /\ Goto(c, "closing")
    /\ UNCHANGED <<slotVars, remote, pump, serverVars, peerVars, dataVars>>

\* The reply is sent, and the pumps start; or the client is gone.
Reply(c) ==
    /\ handler[c] = "replying"
    /\ \/ /\ Goto(c, "relaying")
          /\ pump' = [s \in Streams |-> IF s[1] = c THEN "reading" ELSE pump[s]]
          /\ UNCHANGED remote
       \/ /\ Goto(c, "disconnecting")
          /\ remote' = [remote EXCEPT ![c] = "closed"]
          /\ UNCHANGED pump
    /\ UNCHANGED <<slotVars, serverVars, peerVars, dataVars>>

Busy == {"reading", "draining", "ending"}
Finished(c) == {d \in Dirs : pump[<<c, d>>] \notin Busy}
Cancel(P, c) == [s \in Streams |-> IF s[1] = c /\ P[s] \in Busy THEN "cancelled" ELSE P[s]]

\* The relay ends with its first stream, as if nobody half-closed.
Wait_CancelsBoth(c) ==
    /\ handler[c] = "relaying" /\ Finished(c) # {}
    /\ Goto(c, "settling")
    /\ pump' = Cancel(pump, c)
    /\ UNCHANGED <<slotVars, remote, serverVars, peerVars, dataVars>>

\* Both streams are awaited, even when one has failed.
Wait_ForBoth(c) ==
    /\ handler[c] = "relaying" /\ Finished(c) # {}
    /\ Goto(c, "settling")
    /\ UNCHANGED <<slotVars, remote, pump, serverVars, peerVars, dataVars>>

\* One pump has finished, or both have: a failure cancels the other.
Wait(c) ==
    /\ handler[c] = "relaying" /\ Finished(c) # {}
    /\ Goto(c, "settling")
    /\ pump' = IF \E d \in Finished(c) : pump[<<c, d>>] = "failed"
               THEN Cancel(pump, c) ELSE pump
    /\ UNCHANGED <<slotVars, remote, serverVars, peerVars, dataVars>>

\* The destination is closed after the relay, but not in a finally clause.
Settle_NoFinally(c) ==
    /\ handler[c] = "settling" /\ Finished(c) = Dirs
    /\ Goto(c, IF \E d \in Dirs : pump[<<c, d>>] = "failed" THEN "closing" ELSE "cleaning")
    /\ UNCHANGED <<slotVars, remote, pump, serverVars, peerVars, dataVars>>

Settle(c) ==
    /\ handler[c] = "settling" /\ Finished(c) = Dirs
    /\ Goto(c, "cleaning")
    /\ UNCHANGED <<slotVars, remote, pump, serverVars, peerVars, dataVars>>

\* Both pumps have been gathered.
Disconnect(c) ==
    /\ handler[c] = "cleaning" /\ Finished(c) = Dirs
    /\ Goto(c, "disconnecting")
    /\ remote' = [remote EXCEPT ![c] = "closed"]
    /\ UNCHANGED <<slotVars, pump, serverVars, peerVars, dataVars>>

Disconnected(c) ==
    /\ handler[c] = "disconnecting"
    /\ Goto(c, "closing")
    /\ UNCHANGED <<slotVars, remote, pump, serverVars, peerVars, dataVars>>

-----------------------------------------------------------------------------
\* The pumps.

Move(s, p) == pump' = [pump EXCEPT ![s] = p]

\* Bytes are counted before they are known to be gone.
Read_Counts(s) ==
    /\ pump[s] = "reading" /\ s \notin reset /\ written[s] < offered[s]
    /\ Move(s, "draining")
    /\ written' = [written EXCEPT ![s] = @ + 1]
    /\ counted' = [counted EXCEPT ![s] = @ + 1]
    /\ UNCHANGED <<handler, slotVars, remote, serverVars, peerVars, ended>>

Read(s) ==
    /\ pump[s] = "reading" /\ s \notin reset /\ written[s] < offered[s]
    /\ Move(s, "draining")
    /\ written' = [written EXCEPT ![s] = @ + 1]
    /\ UNCHANGED <<handler, slotVars, remote, serverVars, peerVars, counted, ended>>

Drained(s) ==
    /\ pump[s] = "draining"
    /\ Move(s, "reading")
    /\ counted' = [counted EXCEPT ![s] = @ + 1]
    /\ UNCHANGED <<handler, slotVars, remote, serverVars, peerVars, written, ended>>

\* The source has ended its stream: write_eof.
ReadEof(s) ==
    /\ pump[s] = "reading" /\ s \notin reset /\ s \in eof /\ written[s] = offered[s]
    /\ Move(s, "ending")
    /\ ended' = ended \cup {s}
    /\ UNCHANGED <<handler, slotVars, remote, serverVars, peerVars, written, counted>>

EofDrained(s) ==
    /\ pump[s] = "ending"
    /\ Move(s, "ended")
    /\ UNCHANGED <<handler, slotVars, remote, serverVars, peerVars, dataVars>>

\* A reset peer fails the pump that reads from it or waits for it to drain.
Fail(s) ==
    /\ \/ pump[s] = "reading" /\ s \in reset
       \/ pump[s] \in {"draining", "ending"} /\ <<s[1], Other(s[2])>> \in reset
    /\ Move(s, "failed")
    /\ UNCHANGED <<handler, slotVars, remote, serverVars, peerVars, dataVars>>

-----------------------------------------------------------------------------
\* Peers.

Event(s) ==
    /\ handler[s[1]] \in {"relaying", "settling"} /\ s \notin reset
    /\ events < MaxEvents /\ events' = events + 1

Send(s) ==
    /\ Event(s) /\ s \notin eof
    /\ offered' = [offered EXCEPT ![s] = @ + 1]
    /\ UNCHANGED <<handler, slotVars, remote, pump, serverVars, eof, reset, dataVars>>

HalfClose(s) ==
    /\ Event(s) /\ s \notin eof
    /\ eof' = eof \cup {s}
    /\ UNCHANGED <<handler, slotVars, remote, pump, serverVars, offered, reset, dataVars>>

Reset(s) ==
    /\ Event(s)
    /\ reset' = reset \cup {s}
    /\ UNCHANGED <<handler, slotVars, remote, pump, serverVars, offered, eof, dataVars>>

-----------------------------------------------------------------------------
\* The stop.

\* Where a cancelled handler goes on: its finally clauses run, but one that is
\* itself waiting for its pumps is left with the rest undone.
Unwound(h) ==
    CASE h = "replying"                  -> "disconnecting"
      [] h \in {"relaying", "settling"}  -> "cleaning"
      [] OTHER                           -> "closing"

\* asyncio.wait_for up to Python 3.11 drops a cancellation that meets the result.
Deaf == {c \in tasks : handler[c] \in {"negotiating", "connecting"}}

\* `serve' cancels the handlers it knows.
Stop ==
    /\ server = "serving"
    /\ server' = "closing" /\ cancelled' = tasks
    /\ \E deaf \in SUBSET Deaf :
          handler' = [c \in Conns |->
              IF c \in tasks \ deaf THEN Unwound(handler[c]) ELSE handler[c]]
    /\ remote' = [c \in Conns |-> IF handler[c] = "replying" THEN "closed" ELSE remote[c]]
    /\ pump' = [s \in Streams |->
           IF s[1] \in tasks /\ pump[s] \in Busy THEN "cancelled" ELSE pump[s]]
    /\ UNCHANGED <<slotVars, peerVars, dataVars>>

\* ... and waits for all of them.
Gathered ==
    /\ server = "closing" /\ \A c \in cancelled : handler[c] = "done"
    /\ server' = "stopped"
    /\ UNCHANGED <<handler, slotVars, remote, pump, cancelled, peerVars, dataVars>>

-----------------------------------------------------------------------------

StreamsOf(c) == {c} \X Dirs

\* What the event loop does by itself, and what waits for a peer to read.
LoopStep(c) ==
    \/ Start(c) \/ Rejected(c) \/ Negotiate(c) \/ Connect(c)
    \/ Wait(c) \/ Settle(c) \/ Disconnect(c)
    \/ \E s \in StreamsOf(c) : Read(s) \/ ReadEof(s) \/ Fail(s)

PeerStep(c) ==
    \/ Refuse(c) \/ Reply(c) \/ Disconnected(c) \/ Closed(c)
    \/ \E s \in StreamsOf(c) : Drained(s) \/ EofDrained(s)

Peer(s) == Send(s) \/ HalfClose(s) \/ Reset(s)

Next ==
    \/ \E c \in Conns : Accept(c) \/ LoopStep(c) \/ PeerStep(c)
    \/ \E s \in Streams : Peer(s)
    \/ Stop \/ Gathered

Spec == Init /\ [][Next]_vars

\* The event loop runs what is ready.  No peer has to send, read or hang up.
FairSpec == Spec /\ \A c \in Conns : WF_vars(LoopStep(c))

-----------------------------------------------------------------------------
\* Properties.

HandlerStates == {"idle", "accepted", "rejected", "negotiating", "connecting",
                  "refusing", "replying", "relaying", "settling", "cleaning",
                  "disconnecting", "closing", "done"}

PumpStates == Busy \cup {"none", "ended", "failed", "cancelled"}

TypeOK ==
    /\ handler \in [Conns -> HandlerStates]
    /\ connections \in Nat /\ tasks \subseteq Conns
    /\ remote \in [Conns -> {"none", "open", "closed"}]
    /\ pump \in [Streams -> PumpStates]
    /\ server \in {"serving", "closing", "stopped"} /\ cancelled \subseteq Conns
    /\ offered \in [Streams -> Nat] /\ events \in 0..MaxEvents
    /\ written \in [Streams -> Nat] /\ counted \in [Streams -> Nat]
    /\ eof \subseteq Streams /\ reset \subseteq Streams /\ ended \subseteq Streams

Holders == {c \in Conns : handler[c] \notin {"idle", "accepted", "rejected", "done"}}

\* A slot is taken and given back exactly once, however a connection is rejected,
\* ends, fails or is cancelled, and `tasks' is who holds one.
SlotsExact ==
    /\ tasks = Holders
    /\ connections = Cardinality(Holders)
    /\ connections <= MaxConnections

\* A connection that has given its slot back has left nothing running: its pumps
\* have ended and its remote stream is closed, but for a handler that was
\* cancelled while it was gathering its pumps.
NothingOutlivesSlot ==
    \A c \in Conns : handler[c] = "done" =>
        /\ Finished(c) = Dirs
        /\ remote[c] = "open" => c \in cancelled

Broken == {c \in Conns : c \in cancelled \/ StreamsOf(c) \cap reset # {}}
Cut == {s \in Streams : pump[s] \in {"failed", "cancelled"} /\ s \notin ended}

Wire == INSTANCE Tunnel WITH
    passed <- written, recorded <- counted, finished <- eof, broken <- Broken, cut <- Cut

\* Chunks are passed on in turn and counted once, the end of a stream follows its
\* last counted chunk, and one stream's end or failure to end cuts no other: only
\* a reset or a stop does.
ImplementsTunnel == Wire!Spec

\* A peer is gone, or both have ended their streams.
Over(c) ==
    \/ \E s \in StreamsOf(c) : pump[s] = "failed"
    \/ handler[c] \in {"relaying", "settling"} /\ StreamsOf(c) \subseteq eof \cup reset

\* A connection whose streams are over gives its slot back, if what its peers have
\* to read, they read.
SlotsComeBack ==
    \A c \in Conns : WF_vars(PeerStep(c)) => (Over(c) ~> handler[c] = "done")
=============================================================================
