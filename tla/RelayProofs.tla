---------------------------- MODULE RelayProofs -----------------------------
(***************************************************************************)
(* What holds of Relay for any connections and limits.                     *)
(*                                                                         *)
(* Slots are counted by who holds one; where a handler is tells what its   *)
(* pumps and its remote stream may be; and what a pump does tells how far  *)
(* its stream has been passed on and counted, which gives the refinement.  *)
(***************************************************************************)
EXTENDS Relay, FiniteSetTheorems, TLAPS

-----------------------------------------------------------------------------
\* The inductive invariant.

Early == {"idle", "accepted", "rejected", "negotiating", "connecting",
          "refusing", "replying"}

\* What a handler's stage says of its pumps and its remote stream.
StagesOf(c) ==
    /\ handler[c] \in Early => \A d \in Dirs : pump[<<c, d>>] = "none"
    /\ handler[c] \notin {"relaying", "settling"} =>
          \A d \in Dirs : pump[<<c, d>>] \notin Busy
    /\ handler[c] = "disconnecting" => remote[c] = "closed"
    /\ handler[c] \in {"idle", "accepted", "rejected", "negotiating",
                       "connecting", "refusing"} => remote[c] = "none"
    /\ handler[c] \in {"closing", "done"} /\ remote[c] = "open" => c \in cancelled

Stages ==
    /\ server = "serving" => cancelled = {}
    /\ \A c \in Conns : StagesOf(c)

\* How far a stream has got, by what its pump is doing.
Flow ==
    \A s \in Streams :
        /\ pump[s] \in {"none", "reading"} => counted[s] = written[s] /\ s \notin ended
        /\ pump[s] = "draining" => written[s] = counted[s] + 1 /\ s \notin ended
        /\ pump[s] \in {"failed", "cancelled"} => s[1] \in Broken

RelayInv == TypeOK /\ SlotsExact /\ Stages /\ Flow

LEMMA StreamFacts ==
    /\ \A s \in Streams : s[1] \in Conns /\ s[2] \in Dirs /\ s = <<s[1], s[2]>>
    /\ \A c \in Conns : StreamsOf(c) \subseteq Streams
    /\ \A c \in Conns : \A d \in Dirs : <<c, d>> \in Streams
BY DEF Streams, StreamsOf

LEMMA UnwoundIsState ==
    ASSUME NEW h
    PROVE  Unwound(h) \in {"closing", "disconnecting", "cleaning"}
BY DEF Unwound

-----------------------------------------------------------------------------
\* Slots.

LEMMA HoldersFinite ==
    IsFiniteSet(Holders) /\ Cardinality(Holders) \in Nat
<1>1. IsFiniteSet(Holders) BY FS_Subset, RelayAssumption DEF Holders
<1> QED BY <1>1, FS_CardinalityType

\* The steps of a connection that keep its slot, or its lack of one.
LEMMA SameHolders ==
    ASSUME TypeOK, SlotsExact, UNCHANGED slotVars,
           \A c \in Conns : \/ handler'[c] = handler[c]
                            \/ c \in Holders /\ handler'[c] \notin
                                   {"idle", "accepted", "rejected", "done"}
                            \/ c \notin Holders /\ handler'[c] \in
                                   {"idle", "accepted", "rejected", "done"}
    PROVE  SlotsExact'
<1>1. Holders' = Holders BY DEF Holders
<1> QED BY <1>1 DEF SlotsExact, slotVars

LEMMA StartSlots ==
    ASSUME TypeOK, SlotsExact, NEW c \in Conns, Start(c)
    PROVE  SlotsExact' /\ connections' \in Nat /\ tasks' \subseteq Conns
<1>1. CASE connections >= MaxConnections
  <2>1. SlotsExact' BY <1>1, SameHolders DEF Start, Goto, TypeOK, Holders
  <2> QED BY <1>1, <2>1 DEF Start, TypeOK, slotVars
<1>2. CASE ~(connections >= MaxConnections)
  <2>1. /\ handler' = [handler EXCEPT ![c] = "negotiating"] /\ handler[c] = "accepted"
        /\ connections' = connections + 1 /\ tasks' = tasks \cup {c}
    BY <1>2 DEF Start, Goto
  <2>2. Holders' = Holders \cup {c} /\ c \notin Holders BY <2>1 DEF Holders, TypeOK
  <2>3. Cardinality(Holders \cup {c}) = Cardinality(Holders) + 1
    BY <2>2, HoldersFinite, FS_AddElement
  <2>4. connections + 1 <= MaxConnections
    BY <1>2, RelayAssumption, SMT DEF TypeOK
  <2> QED BY <2>1, <2>2, <2>3, <2>4 DEF SlotsExact, TypeOK
<1> QED BY <1>1, <1>2

LEMMA ClosedSlots ==
    ASSUME TypeOK, SlotsExact, NEW c \in Conns, Closed(c)
    PROVE  SlotsExact' /\ connections' \in Nat /\ tasks' \subseteq Conns
<1>1. /\ handler' = [handler EXCEPT ![c] = "done"] /\ handler[c] = "closing"
      /\ connections' = connections - 1 /\ tasks' = tasks \ {c}
  BY DEF Closed, Goto
<1>2. Holders' = Holders \ {c} /\ c \in Holders BY <1>1 DEF Holders, TypeOK
<1>3. Cardinality(Holders \ {c}) = Cardinality(Holders) - 1
  BY <1>2, HoldersFinite, FS_RemoveElement
<1>4. IsFiniteSet(Holders \ {c}) BY HoldersFinite, FS_Subset
<1>5. Cardinality(Holders \ {c}) \in Nat BY <1>4, FS_CardinalityType
<1>6. connections' = Cardinality(Holders \ {c}) /\ connections' <= MaxConnections
  BY <1>1, <1>3, RelayAssumption, SMT DEF SlotsExact, TypeOK
<1> QED BY <1>1, <1>2, <1>5, <1>6 DEF SlotsExact, TypeOK

\* Steps of a handler that keep its slot.
HandlerStep(c) ==
    \/ Accept(c) \/ Rejected(c) \/ Negotiate(c) \/ Connect(c) \/ Refuse(c)
    \/ Reply(c) \/ Wait(c) \/ Settle(c) \/ Disconnect(c) \/ Disconnected(c)

PumpStep(s) == Read(s) \/ Drained(s) \/ ReadEof(s) \/ EofDrained(s) \/ Fail(s)

LEMMA NextCases ==
    ASSUME [Next]_vars
    PROVE  \/ \E c \in Conns : HandlerStep(c) \/ Start(c) \/ Closed(c)
           \/ \E s \in Streams : PumpStep(s) \/ Peer(s)
           \/ Stop \/ Gathered \/ UNCHANGED vars
BY StreamFacts DEF Next, LoopStep, PeerStep, HandlerStep, PumpStep

LEMMA HandlerSlots ==
    ASSUME TypeOK, SlotsExact, NEW c \in Conns, HandlerStep(c)
    PROVE  SlotsExact' /\ UNCHANGED slotVars
<1>1. UNCHANGED slotVars
  BY DEF HandlerStep, Accept, Rejected, Negotiate, Connect, Refuse, Reply, Wait,
     Settle, Disconnect, Disconnected
<1>2. \A b \in Conns \ {c} : handler'[b] = handler[b]
  BY DEF HandlerStep, Accept, Rejected, Negotiate, Connect, Refuse, Reply, Wait,
     Settle, Disconnect, Disconnected, Goto, TypeOK
<1>3. \/ c \in Holders /\ handler'[c] \notin {"idle", "accepted", "rejected", "done"}
      \/ c \notin Holders /\ handler'[c] \in {"idle", "accepted", "rejected", "done"}
  BY DEF HandlerStep, Accept, Rejected, Negotiate, Connect, Refuse, Reply, Wait,
     Settle, Disconnect, Disconnected, Goto, TypeOK, Holders
<1> QED BY <1>1, <1>2, <1>3, SameHolders

LEMMA StopSlots ==
    ASSUME TypeOK, SlotsExact, Stop
    PROVE  SlotsExact'
<1>1. UNCHANGED slotVars /\ tasks = Holders BY DEF Stop, SlotsExact
<1>2. PICK deaf \in SUBSET Deaf :
         handler' = [c \in Conns |->
             IF c \in tasks \ deaf THEN Unwound(handler[c]) ELSE handler[c]]
  BY DEF Stop
<1>3. \A c \in Conns : \/ handler'[c] = handler[c]
                       \/ c \in Holders /\ handler'[c] \in {"closing", "disconnecting", "cleaning"}
  BY <1>1, <1>2, UnwoundIsState
<1> QED BY <1>1, <1>3, SameHolders

LEMMA SlotStep ==
    ASSUME TypeOK, SlotsExact, [Next]_vars
    PROVE  SlotsExact' /\ connections' \in Nat /\ tasks' \subseteq Conns
<1>1. CASE \E c \in Conns : HandlerStep(c) BY <1>1, HandlerSlots DEF TypeOK, slotVars
<1>2. CASE \E c \in Conns : Start(c) \/ Closed(c) BY <1>2, StartSlots, ClosedSlots
<1>3. CASE (\E s \in Streams : PumpStep(s) \/ Peer(s)) \/ Gathered \/ UNCHANGED vars
  <2>1. UNCHANGED <<handler, slotVars>>
    BY <1>3 DEF PumpStep, Read, Drained, ReadEof, EofDrained, Fail, Peer, Send,
       HalfClose, Reset, Gathered, vars
  <2> QED BY <2>1, SameHolders DEF TypeOK, slotVars
<1>4. CASE Stop BY <1>4, StopSlots DEF Stop, TypeOK, slotVars
<1> QED BY <1>1, <1>2, <1>3, <1>4, NextCases

-----------------------------------------------------------------------------
\* Types.

LEMMA CancelType ==
    ASSUME TypeOK, NEW c \in Conns
    PROVE  Cancel(pump, c) \in [Streams -> PumpStates]
BY DEF Cancel, TypeOK, PumpStates

LEMMA HandlerType ==
    ASSUME TypeOK, NEW c \in Conns, HandlerStep(c) \/ Start(c) \/ Closed(c)
    PROVE  /\ handler' \in [Conns -> HandlerStates]
           /\ remote' \in [Conns -> {"none", "open", "closed"}]
           /\ pump' \in [Streams -> PumpStates]
           /\ UNCHANGED <<serverVars, peerVars, dataVars>>
<1>1. handler' \in [Conns -> HandlerStates]
  <2>1. \E h \in HandlerStates : Goto(c, h)
    BY DEF HandlerStep, Accept, Rejected, Negotiate, Connect, Refuse, Reply, Wait,
       Settle, Disconnect, Disconnected, Start, Closed, HandlerStates
  <2> QED BY <2>1 DEF Goto, TypeOK
<1>2. remote' \in [Conns -> {"none", "open", "closed"}]
  BY DEF HandlerStep, Accept, Rejected, Negotiate, Connect, Refuse, Reply, Wait,
     Settle, Disconnect, Disconnected, Start, Closed, TypeOK
<1>3. pump' \in [Streams -> PumpStates]
  <2>1. CASE Reply(c) BY <2>1 DEF Reply, TypeOK, PumpStates, Busy
  <2>2. CASE Wait(c) BY <2>2, CancelType DEF Wait, TypeOK
  <2>3. CASE ~Reply(c) /\ ~Wait(c)
    BY <2>3 DEF HandlerStep, Accept, Rejected, Negotiate, Connect, Refuse,
       Settle, Disconnect, Disconnected, Start, Closed, TypeOK
  <2> QED BY <2>1, <2>2, <2>3
<1>4. UNCHANGED <<serverVars, peerVars, dataVars>>
  BY DEF HandlerStep, Accept, Rejected, Negotiate, Connect, Refuse, Reply, Wait,
     Settle, Disconnect, Disconnected, Start, Closed
<1> QED BY <1>1, <1>2, <1>3, <1>4

LEMMA TypeStep ==
    ASSUME TypeOK, SlotsExact, [Next]_vars
    PROVE  TypeOK'
<1> USE RelayAssumption
<1>1. connections' \in Nat /\ tasks' \subseteq Conns BY SlotStep
<1>2. CASE \E c \in Conns : HandlerStep(c) \/ Start(c) \/ Closed(c)
  BY <1>1, <1>2, HandlerType DEF TypeOK, serverVars, peerVars, dataVars
<1>3. ASSUME NEW s \in Streams, PumpStep(s)
      PROVE  TypeOK'
  <2>1. pump' \in [Streams -> PumpStates]
    BY <1>3 DEF PumpStep, Read, Drained, ReadEof, EofDrained, Fail, Move, TypeOK,
       PumpStates, Busy
  <2>2. written' \in [Streams -> Nat] /\ counted' \in [Streams -> Nat] /\ ended' \subseteq Streams
    BY <1>3 DEF PumpStep, Read, Drained, ReadEof, EofDrained, Fail, TypeOK, dataVars
  <2>3. UNCHANGED <<handler, slotVars, remote, serverVars, peerVars>>
    BY <1>3 DEF PumpStep, Read, Drained, ReadEof, EofDrained, Fail
  <2> QED BY <2>1, <2>2, <2>3 DEF TypeOK, slotVars, serverVars, peerVars
<1>4. ASSUME NEW s \in Streams, Peer(s)
      PROVE  TypeOK'
  BY <1>4 DEF Peer, Send, HalfClose, Reset, Event, TypeOK, slotVars, serverVars, dataVars
<1>5. CASE Stop
  <2>1. handler' \in [Conns -> HandlerStates]
    BY <1>5, UnwoundIsState DEF Stop, TypeOK, HandlerStates
  <2>2. pump' \in [Streams -> PumpStates] BY <1>5 DEF Stop, TypeOK, PumpStates
  <2> QED BY <1>5, <2>1, <2>2 DEF Stop, TypeOK, slotVars, peerVars, dataVars
<1>6. CASE Gathered \/ UNCHANGED vars
  BY <1>6 DEF Gathered, TypeOK, vars, slotVars, serverVars, peerVars, dataVars
<1> QED BY <1>2, <1>3, <1>4, <1>5, <1>6, NextCases

-----------------------------------------------------------------------------
\* Stages.

\* A step of one connection leaves the stages of the others alone.
LEMMA StagesOfOne ==
    ASSUME Stages, NEW c \in Conns, UNCHANGED serverVars,
           \A b \in Conns \ {c} : handler'[b] = handler[b] /\ remote'[b] = remote[b],
           \A s \in Streams : s[1] # c => pump'[s] = pump[s],
           StagesOf(c)'
    PROVE  Stages'
<1>1. ASSUME NEW b \in Conns, b # c
      PROVE  StagesOf(b)'
  <2>1. \A d \in Dirs : pump'[<<b, d>>] = pump[<<b, d>>] BY <1>1, StreamFacts
  <2>2. handler'[b] = handler[b] /\ remote'[b] = remote[b] /\ cancelled' = cancelled
    BY <1>1 DEF serverVars
  <2>3. StagesOf(b) BY DEF Stages
  <2> QED BY <2>1, <2>2, <2>3 DEF StagesOf
<1>2. UNCHANGED <<server, cancelled>> BY DEF serverVars
<1> QED BY <1>1, <1>2 DEF Stages

LEMMA HandlerStages ==
    ASSUME TypeOK, Stages, NEW c \in Conns, HandlerStep(c) \/ Start(c) \/ Closed(c)
    PROVE  Stages'
<1> USE DEF Early, Busy
<1>1. \A b \in Conns \ {c} : handler'[b] = handler[b] /\ remote'[b] = remote[b]
  BY DEF HandlerStep, Accept, Rejected, Negotiate, Connect, Refuse, Reply, Wait,
     Settle, Disconnect, Disconnected, Start, Closed, Goto, TypeOK
<1>2. UNCHANGED serverVars /\ cancelled' = cancelled /\ StagesOf(c)
  BY HandlerType DEF serverVars, Stages
<1>3. CASE Reply(c)
  <2>1. \A d \in Dirs : pump[<<c, d>>] = "none" BY <1>2, <1>3 DEF Reply, StagesOf
  <2>2. \A s \in Streams : s[1] # c => pump'[s] = pump[s] BY <1>3 DEF Reply
  <2>3. CASE handler'[c] = "relaying"
    <3>1. StagesOf(c)' BY <2>3 DEF StagesOf
    <3> QED BY <1>1, <1>2, <2>2, <3>1, StagesOfOne
  <2>4. CASE handler'[c] # "relaying"
    <3>1. handler'[c] = "disconnecting" /\ remote'[c] = "closed" /\ pump' = pump
      BY <1>3, <2>4 DEF Reply, Goto, TypeOK
    <3>2. StagesOf(c)' BY <2>1, <3>1 DEF StagesOf
    <3> QED BY <1>1, <1>2, <2>2, <3>2, StagesOfOne
  <2> QED BY <2>3, <2>4
<1>4. CASE Wait(c)
  <2>1. handler'[c] = "settling" BY <1>4 DEF Wait, Goto, TypeOK
  <2>2. \A s \in Streams : s[1] # c => pump'[s] = pump[s] BY <1>4 DEF Wait, Cancel
  <2>3. StagesOf(c)' BY <2>1 DEF StagesOf
  <2> QED BY <1>1, <1>2, <2>2, <2>3, StagesOfOne
<1>5. CASE ~Reply(c) /\ ~Wait(c)
  <2>1. pump' = pump
    BY <1>5 DEF HandlerStep, Accept, Rejected, Negotiate, Connect, Refuse, Settle,
       Disconnect, Disconnected, Start, Closed
  <2>2. \A d \in Dirs : pump[<<c, d>>] \notin Busy
    <3>1. CASE Settle(c) \/ Disconnect(c)
      BY <3>1 DEF Settle, Disconnect, Finished
    <3>2. CASE ~Settle(c) /\ ~Disconnect(c)
      BY <1>2, <1>5, <3>2 DEF HandlerStep, Accept, Rejected, Negotiate, Connect,
         Refuse, Disconnected, Start, Closed, StagesOf
    <3> QED BY <3>1, <3>2
  <2>3. handler'[c] \in Early => handler[c] \in Early
    BY <1>5 DEF HandlerStep, Accept, Rejected, Negotiate, Connect, Refuse, Settle,
       Disconnect, Disconnected, Start, Closed, Goto, TypeOK
  <2>4. /\ handler'[c] = "disconnecting" => remote'[c] = "closed"
        /\ handler'[c] \in {"idle", "accepted", "rejected", "negotiating",
                            "connecting", "refusing"} => remote'[c] = "none"
        /\ handler'[c] \in {"closing", "done"} /\ remote'[c] = "open" => c \in cancelled
    BY <1>2, <1>5 DEF HandlerStep, Accept, Rejected, Negotiate, Connect, Refuse,
       Settle, Disconnect, Disconnected, Start, Closed, StagesOf, Goto, TypeOK
  <2>5. StagesOf(c)' BY <1>2, <2>1, <2>2, <2>3, <2>4 DEF StagesOf
  <2> QED BY <1>1, <1>2, <2>1, <2>5, StagesOfOne
<1> QED BY <1>3, <1>4, <1>5

LEMMA PumpStages ==
    ASSUME TypeOK, Stages, NEW s \in Streams, PumpStep(s)
    PROVE  Stages'
<1>1. UNCHANGED <<handler, remote, serverVars>> /\ s[1] \in Conns
      /\ s = <<s[1], s[2]>> /\ s[2] \in Dirs
  BY StreamFacts DEF PumpStep, Read, Drained, ReadEof, EofDrained, Fail
<1>2. pump[s] \in Busy
  BY DEF PumpStep, Read, Drained, ReadEof, EofDrained, Fail, Busy
<1>3. handler[s[1]] \in {"relaying", "settling"}
  BY <1>1, <1>2 DEF Stages, StagesOf
<1>4. \A t \in Streams : t[1] # s[1] => pump'[t] = pump[t]
  BY <1>1 DEF PumpStep, Read, Drained, ReadEof, EofDrained, Fail, Move, TypeOK
<1>5. StagesOf(s[1])' BY <1>1, <1>3 DEF StagesOf, Early
<1> QED BY <1>1, <1>4, <1>5, StagesOfOne

LEMMA StopStages ==
    ASSUME TypeOK, SlotsExact, Stages, Stop
    PROVE  Stages'
<1> USE DEF Early, Busy
<1>1. PICK deaf \in SUBSET Deaf :
         handler' = [c \in Conns |->
             IF c \in tasks \ deaf THEN Unwound(handler[c]) ELSE handler[c]]
  BY DEF Stop
<1>2. /\ cancelled = {} /\ cancelled' = tasks /\ tasks = Holders /\ server' # "serving"
      /\ remote' = [c \in Conns |-> IF handler[c] = "replying" THEN "closed" ELSE remote[c]]
      /\ pump' = [s \in Streams |->
             IF s[1] \in tasks /\ pump[s] \in Busy THEN "cancelled" ELSE pump[s]]
  BY DEF Stop, SlotsExact, Stages
<1>3. ASSUME NEW c \in Conns
      PROVE  StagesOf(c)'
  <2>1. \A d \in Dirs : <<c, d>> \in Streams /\ <<c, d>>[1] = c BY StreamFacts
  <2>2. StagesOf(c) BY DEF Stages
  <2>3. CASE c \in tasks \ deaf
    <3>1. handler'[c] = Unwound(handler[c]) /\ c \in cancelled' BY <1>1, <1>2, <2>3
    <3>2. \A d \in Dirs : pump'[<<c, d>>] \notin Busy BY <1>2, <2>1, <2>3
    <3>3. handler'[c] = "disconnecting" => handler[c] = "replying"
      BY <3>1 DEF Unwound
    <3>4. handler'[c] \notin Early BY <3>1, UnwoundIsState
    <3> QED BY <1>2, <3>1, <3>2, <3>3, <3>4 DEF StagesOf
  <2>4. CASE c \in deaf
    <3>1. handler'[c] = handler[c] /\ handler[c] \in {"negotiating", "connecting"}
      BY <1>1, <2>4 DEF Deaf
    <3>2. \A d \in Dirs : pump'[<<c, d>>] = "none" BY <1>2, <2>1, <2>2, <3>1 DEF StagesOf
    <3> QED BY <1>2, <2>2, <3>1, <3>2 DEF StagesOf
  <2>5. CASE c \notin tasks
    <3>1. handler'[c] = handler[c]
          /\ handler[c] \in {"idle", "accepted", "rejected", "done"}
      BY <1>1, <1>2, <2>5 DEF Holders
    <3>2. \A d \in Dirs : pump'[<<c, d>>] = pump[<<c, d>>] BY <1>2, <2>1, <2>5
    <3>3. remote'[c] = remote[c] BY <1>2, <3>1
    <3> QED BY <1>2, <2>2, <3>1, <3>2, <3>3 DEF StagesOf
  <2> QED BY <2>3, <2>4, <2>5
<1> QED BY <1>2, <1>3 DEF Stages

LEMMA StageStep ==
    ASSUME TypeOK, SlotsExact, Stages, [Next]_vars
    PROVE  Stages'
<1>1. CASE (\E s \in Streams : Peer(s)) \/ UNCHANGED vars
  <2>1. UNCHANGED <<handler, remote, pump, server, cancelled>>
    BY <1>1 DEF Peer, Send, HalfClose, Reset, vars, serverVars
  <2> QED BY <2>1 DEF Stages, StagesOf
<1>2. CASE Gathered
  <2>1. UNCHANGED <<handler, remote, pump, cancelled>> /\ server' # "serving"
    BY <1>2 DEF Gathered
  <2> QED BY <2>1 DEF Stages, StagesOf
<1> QED BY <1>1, <1>2, NextCases, HandlerStages, PumpStages, StopStages

-----------------------------------------------------------------------------
\* Flow.

LEMMA BrokenGrows ==
    ASSUME Stages, [Next]_vars
    PROVE  Broken \subseteq Broken'
<1>1. cancelled \subseteq cancelled' /\ reset \subseteq reset'
  <2>1. CASE \E c \in Conns : HandlerStep(c) \/ Start(c) \/ Closed(c)
    BY <2>1 DEF HandlerStep, Accept, Rejected, Negotiate, Connect, Refuse, Reply,
       Wait, Settle, Disconnect, Disconnected, Start, Closed, serverVars, peerVars
  <2>2. CASE \E s \in Streams : PumpStep(s)
    BY <2>2 DEF PumpStep, Read, Drained, ReadEof, EofDrained, Fail, serverVars, peerVars
  <2>3. CASE \E s \in Streams : Peer(s)
    BY <2>3 DEF Peer, Send, HalfClose, Reset, serverVars
  <2>4. CASE Stop BY <2>4 DEF Stop, Stages, peerVars
  <2>5. CASE Gathered \/ UNCHANGED vars
    BY <2>5 DEF Gathered, vars, peerVars, serverVars
  <2> QED BY <2>1, <2>2, <2>3, <2>4, <2>5, NextCases
<1> QED BY <1>1 DEF Broken

LEMMA FlowStep ==
    ASSUME TypeOK, SlotsExact, Stages, Flow, [Next]_vars
    PROVE  Flow'
<1> USE DEF Busy
<1>0. Broken \subseteq Broken' BY BrokenGrows
<1>1. ASSUME NEW c \in Conns, HandlerStep(c) \/ Start(c) \/ Closed(c)
      PROVE  Flow'
  <2>1. UNCHANGED <<written, counted, ended>> BY <1>1, HandlerType DEF dataVars
  <2>2. CASE Reply(c)
    <3>1. \A s \in Streams : s[1] = c => pump[s] = "none"
      BY <2>2, StreamFacts DEF Reply, Stages, StagesOf, Early
    <3>2. \A s \in Streams :
             pump'[s] = pump[s] \/ (pump[s] = "none" /\ pump'[s] = "reading")
      BY <2>2, <3>1 DEF Reply
    <3> QED BY <1>0, <2>1, <3>2 DEF Flow
  <2>3. CASE Wait(c)
    <3>1. pump' # pump => c \in Broken
      <4> SUFFICES ASSUME pump' # pump PROVE c \in Broken OBVIOUS
      <4>1. PICK d \in Dirs : pump[<<c, d>>] = "failed" BY <2>3 DEF Wait, Finished
      <4> QED BY <4>1, StreamFacts DEF Flow
    <3>2. \A s \in Streams :
             \/ pump'[s] = pump[s]
             \/ s[1] = c /\ c \in Broken /\ pump'[s] = "cancelled"
      BY <2>3, <3>1 DEF Wait, Cancel
    <3> QED BY <1>0, <2>1, <3>2 DEF Flow
  <2>4. CASE ~Reply(c) /\ ~Wait(c)
    <3>1. pump' = pump
      BY <1>1, <2>4 DEF HandlerStep, Accept, Rejected, Negotiate, Connect, Refuse,
         Settle, Disconnect, Disconnected, Start, Closed
    <3> QED BY <1>0, <2>1, <3>1 DEF Flow
  <2> QED BY <2>2, <2>3, <2>4
<1>2. ASSUME NEW s \in Streams, PumpStep(s)
      PROVE  Flow'
  <2>1. \A t \in Streams \ {s} : /\ pump'[t] = pump[t] /\ written'[t] = written[t]
                                 /\ counted'[t] = counted[t]
                                 /\ (t \in ended' <=> t \in ended)
    BY <1>2 DEF PumpStep, Read, Drained, ReadEof, EofDrained, Fail, Move, TypeOK, dataVars
  <2>2. CASE Read(s) \/ Drained(s)
    <3>1. /\ pump'[s] \in {"reading", "draining"}
          /\ pump'[s] = "reading" => counted'[s] = written'[s] /\ s \notin ended'
          /\ pump'[s] = "draining" => written'[s] = counted'[s] + 1 /\ s \notin ended'
      BY <2>2 DEF Read, Drained, Move, Flow, TypeOK
    <3> QED BY <1>0, <2>1, <3>1 DEF Flow
  <2>3. CASE ReadEof(s) \/ EofDrained(s)
    <3>1. pump'[s] \in {"ending", "ended"} BY <2>3 DEF ReadEof, EofDrained, Move, TypeOK
    <3> QED BY <1>0, <2>1, <3>1 DEF Flow
  <2>4. CASE Fail(s)
    <3>1. pump'[s] = "failed" BY <2>4 DEF Fail, Move, TypeOK
    <3>2. s[1] \in Conns /\ s \in StreamsOf(s[1])
          /\ <<s[1], Other(s[2])>> \in StreamsOf(s[1])
      BY StreamFacts DEF StreamsOf, Streams, Dirs, Other
    <3>3. s[1] \in Broken BY <2>4, <3>2 DEF Fail, Broken
    <3> QED BY <1>0, <2>1, <3>1, <3>3 DEF Flow
  <2> QED BY <1>2, <2>2, <2>3, <2>4 DEF PumpStep
<1>3. CASE (\E s \in Streams : Peer(s)) \/ Gathered \/ UNCHANGED vars
  <2>1. UNCHANGED <<pump, written, counted, ended>>
    BY <1>3 DEF Peer, Send, HalfClose, Reset, Gathered, vars, dataVars
  <2> QED BY <1>0, <2>1 DEF Flow
<1>4. CASE Stop
  <2>1. /\ cancelled' = tasks /\ tasks \subseteq Conns /\ UNCHANGED <<written, counted, ended>>
        /\ pump' = [s \in Streams |->
               IF s[1] \in tasks /\ pump[s] \in Busy THEN "cancelled" ELSE pump[s]]
    BY <1>4 DEF Stop, TypeOK, dataVars
  <2>2. \A s \in Streams :
           pump'[s] = pump[s] \/ (pump'[s] = "cancelled" /\ s[1] \in Broken')
    BY <2>1 DEF Broken
  <2> QED BY <1>0, <2>1, <2>2 DEF Flow
<1> QED BY <1>1, <1>2, <1>3, <1>4, NextCases

-----------------------------------------------------------------------------
\* The invariant holds.

LEMMA RelayInit == Init => RelayInv
<1> SUFFICES ASSUME Init PROVE RelayInv OBVIOUS
<1> USE RelayAssumption DEF Init
<1>1. TypeOK BY DEF TypeOK, HandlerStates, PumpStates
<1>2. SlotsExact
  <2>1. Holders = {} BY DEF Holders
  <2> QED BY <2>1, FS_EmptySet DEF SlotsExact
<1>3. Stages
  <2>1. \A c \in Conns : \A d \in Dirs : pump[<<c, d>>] = "none" BY StreamFacts
  <2> QED BY <2>1 DEF Stages, StagesOf, Busy
<1>4. Flow BY DEF Flow
<1> QED BY <1>1, <1>2, <1>3, <1>4 DEF RelayInv

LEMMA RelayInvariant == Spec => []RelayInv
<1>1. RelayInv /\ [Next]_vars => RelayInv'
  BY TypeStep, SlotStep, StageStep, FlowStep DEF RelayInv
<1> QED BY <1>1, RelayInit, PTL DEF Spec

\* Handlers, pumps, slots and counts keep their types.
THEOREM RelayTypeCorrect == Spec => []TypeOK
BY RelayInvariant, PTL DEF RelayInv

\* A slot is taken and given back exactly once on every path of a connection.
THEOREM SlotsAreExact == Spec => []SlotsExact
BY RelayInvariant, PTL DEF RelayInv

\* What has given its slot back has left no pump running, and no remote stream
\* open but when the stop interrupted its clean-up.
THEOREM SlotsLeaveNothing == Spec => []NothingOutlivesSlot
<1>1. RelayInv => NothingOutlivesSlot
  BY DEF RelayInv, Stages, StagesOf, NothingOutlivesSlot, Finished
<1> QED BY <1>1, RelayInvariant, PTL

-----------------------------------------------------------------------------
\* Relay implements Tunnel.

\* A step that passes nothing on, but may cut streams of broken connections.
LEMMA QuietWire ==
    ASSUME Broken \subseteq Broken', Cut \subseteq Cut',
           \A s \in Cut' \ Cut : s \in Streams \ ended /\ s[1] \in Broken',
           UNCHANGED <<offered, written, counted, eof, ended>>
    PROVE  Wire!Next
<1>1. \A s \in Cut' \ Cut : s \in Wire!Running /\ s[1] \in Broken'
  BY DEF Wire!Running, Wire!Streams, Streams
<1>2. Wire!Break BY <1>1, Zenon DEF Wire!Break
<1> QED BY <1>2 DEF Wire!Next

LEMMA HandlerWire ==
    ASSUME RelayInv, RelayInv', NEW c \in Conns, HandlerStep(c) \/ Start(c) \/ Closed(c)
    PROVE  Wire!Next
<1>1. UNCHANGED <<offered, written, counted, eof, reset, cancelled, ended>>
  BY HandlerType DEF RelayInv, serverVars, peerVars, dataVars
<1>2. Broken' = Broken BY <1>1 DEF Broken
<1>3. \A s \in Streams : pump[s] \in {"failed", "cancelled"} => pump'[s] = pump[s]
  <2>1. CASE Reply(c)
    <3>1. \A s \in Streams : s[1] = c => pump[s] = "none"
      BY <2>1, StreamFacts DEF Reply, RelayInv, Stages, StagesOf, Early
    <3> QED BY <2>1, <3>1 DEF Reply
  <2>2. CASE Wait(c) BY <2>2 DEF Wait, Cancel, Busy
  <2>3. CASE ~Reply(c) /\ ~Wait(c)
    BY <2>3 DEF HandlerStep, Accept, Rejected, Negotiate, Connect, Refuse, Settle,
       Disconnect, Disconnected, Start, Closed
  <2> QED BY <2>1, <2>2, <2>3
<1>4. Cut \subseteq Cut' BY <1>1, <1>3 DEF Cut
<1>5. \A s \in Cut' \ Cut : s \in Streams \ ended /\ s[1] \in Broken'
  BY <1>1 DEF Cut, RelayInv, Flow
<1> QED BY <1>1, <1>2, <1>4, <1>5, QuietWire

LEMMA PumpWire ==
    ASSUME RelayInv, RelayInv', NEW s \in Streams, PumpStep(s)
    PROVE  [Wire!Next]_(Wire!tunnelVars)
<1>1. UNCHANGED <<offered, eof, reset, cancelled>>
  BY DEF PumpStep, Read, Drained, ReadEof, EofDrained, Fail, peerVars, serverVars
<1>2. Broken' = Broken BY <1>1 DEF Broken
<1>3. TypeOK /\ Flow BY DEF RelayInv
<1>4. s \in Wire!Streams BY DEF Wire!Streams, Streams
<1>5. CASE ~Fail(s)
  <2>1. /\ pump[s] \in Busy /\ pump'[s] \notin {"failed", "cancelled"}
        /\ \A t \in Streams \ {s} : pump'[t] = pump[t] /\ (t \in ended' <=> t \in ended)
        /\ ended \subseteq ended'
    BY <1>3, <1>5 DEF PumpStep, Read, Drained, ReadEof, EofDrained, Move, TypeOK,
       Busy, dataVars
  <2>2. Cut' = Cut /\ s \notin Cut BY <2>1 DEF Cut, Busy
  <2>3. CASE Read(s)
    <3>1. s \notin ended /\ counted[s] = written[s] /\ written[s] < offered[s]
          /\ written' = [written EXCEPT ![s] = @ + 1] /\ UNCHANGED <<counted, ended>>
      BY <1>3, <2>3 DEF Read, Flow
    <3>2. Wire!Pass(s)
      BY <1>1, <1>2, <1>4, <2>2, <3>1 DEF Wire!Pass, Wire!Running
    <3> QED BY <1>4, <3>2 DEF Wire!Next
  <2>4. CASE Drained(s)
    <3>1. s \notin ended /\ written[s] = counted[s] + 1
          /\ counted' = [counted EXCEPT ![s] = @ + 1] /\ UNCHANGED <<written, ended>>
      BY <1>3, <2>4 DEF Drained, Flow
    <3>2. counted' = [counted EXCEPT ![s] = written[s]] /\ counted[s] < written[s]
      BY <1>3, <3>1 DEF TypeOK
    <3>3. Wire!Record(s)
      BY <1>1, <1>2, <1>4, <2>2, <3>1, <3>2 DEF Wire!Record, Wire!Running
    <3> QED BY <1>4, <3>3 DEF Wire!Next
  <2>5. CASE ReadEof(s)
    <3>1. s \notin ended /\ s \in eof /\ counted[s] = offered[s]
          /\ ended' = ended \cup {s} /\ UNCHANGED <<written, counted>>
      BY <1>3, <2>5 DEF ReadEof, Flow
    <3>2. Wire!PassEnd(s)
      BY <1>1, <1>2, <1>4, <2>2, <3>1 DEF Wire!PassEnd, Wire!Running
    <3> QED BY <1>4, <3>2 DEF Wire!Next
  <2>6. CASE EofDrained(s)
    <3>1. UNCHANGED <<written, counted, ended>> BY <2>6 DEF EofDrained, dataVars
    <3> QED BY <1>1, <1>2, <2>2, <3>1 DEF Wire!tunnelVars
  <2> QED BY <1>5, <2>3, <2>4, <2>5, <2>6 DEF PumpStep
<1>6. CASE Fail(s)
  <2>1. /\ UNCHANGED <<written, counted, ended>> /\ pump[s] \in Busy
        /\ pump' = [pump EXCEPT ![s] = "failed"]
    BY <1>6 DEF Fail, Move, dataVars, Busy
  <2>2. Cut \subseteq Cut' BY <1>3, <2>1 DEF Cut, TypeOK
  <2>3. \A t \in Cut' \ Cut : t \in Streams \ ended /\ t[1] \in Broken'
    BY <2>1 DEF Cut, RelayInv, Flow
  <2> QED BY <1>1, <1>2, <2>1, <2>2, <2>3, QuietWire
<1> QED BY <1>5, <1>6

LEMMA PeerWire ==
    ASSUME RelayInv, NEW s \in Streams, Peer(s)
    PROVE  Wire!Next
<1>1. UNCHANGED <<pump, written, counted, ended, cancelled>> /\ s \in Wire!Streams
  BY DEF Peer, Send, HalfClose, Reset, dataVars, serverVars, Wire!Streams, Streams
<1>2. Cut' = Cut BY <1>1 DEF Cut
<1>3. CASE Send(s)
  <2>1. UNCHANGED <<eof, reset>> /\ s \notin eof /\ offered' = [offered EXCEPT ![s] = @ + 1]
    BY <1>3 DEF Send
  <2>2. Broken' = Broken BY <1>1, <2>1 DEF Broken
  <2>3. Wire!Offer(s) BY <1>1, <1>2, <2>1, <2>2 DEF Wire!Offer
  <2> QED BY <1>1, <2>3 DEF Wire!Next
<1>4. CASE HalfClose(s)
  <2>1. UNCHANGED <<offered, reset>> /\ eof' = eof \cup {s} BY <1>4 DEF HalfClose
  <2>2. Broken' = Broken BY <1>1, <2>1 DEF Broken
  <2>3. Wire!Finish(s) BY <1>1, <1>2, <2>1, <2>2 DEF Wire!Finish
  <2> QED BY <1>1, <2>3 DEF Wire!Next
<1>5. CASE Reset(s)
  <2>1. UNCHANGED <<offered, eof>> /\ reset \subseteq reset' BY <1>5 DEF Reset
  <2>2. Broken \subseteq Broken' BY <1>1, <2>1 DEF Broken
  <2> QED BY <1>1, <1>2, <2>1, <2>2, QuietWire
<1> QED BY <1>3, <1>4, <1>5 DEF Peer

LEMMA StopWire ==
    ASSUME RelayInv, RelayInv', Stop
    PROVE  Wire!Next
<1>1. /\ UNCHANGED <<offered, written, counted, eof, ended, reset>>
      /\ pump' = [s \in Streams |->
             IF s[1] \in tasks /\ pump[s] \in Busy THEN "cancelled" ELSE pump[s]]
      /\ cancelled \subseteq cancelled'
  BY DEF Stop, RelayInv, Stages, peerVars, dataVars
<1>2. Broken \subseteq Broken' BY <1>1 DEF Broken
<1>3. Cut \subseteq Cut' BY <1>1 DEF Cut, Busy
<1>4. \A s \in Cut' \ Cut : s \in Streams \ ended /\ s[1] \in Broken'
  BY <1>1 DEF Cut, RelayInv, Flow
<1> QED BY <1>1, <1>2, <1>3, <1>4, QuietWire

LEMMA WireStep ==
    ASSUME RelayInv, RelayInv', [Next]_vars
    PROVE  [Wire!Next]_(Wire!tunnelVars)
<1>1. CASE Gathered \/ UNCHANGED vars
  <2>1. UNCHANGED <<offered, written, counted, eof, ended, pump, reset, cancelled>>
    BY <1>1 DEF Gathered, vars, peerVars, dataVars, serverVars
  <2> QED BY <2>1 DEF Wire!tunnelVars, Broken, Cut
<1> QED BY <1>1, NextCases, HandlerWire, PumpWire, PeerWire, StopWire

\* The relay keeps what a tunnel promises: chunks in turn, each counted once, an
\* end only after all of them, and no stream cut but by a reset or a stop.
THEOREM TunnelRefinement == Spec => ImplementsTunnel
<1>1. Init => Wire!Init
  <2> SUFFICES ASSUME Init PROVE Wire!Init OBVIOUS
  <2>1. Broken = {} /\ Cut = {} BY DEF Init, Broken, Cut
  <2> QED BY <2>1 DEF Init, Wire!Init, Wire!Streams, Streams
<1>2. RelayInv /\ RelayInv' /\ [Next]_vars => [Wire!Next]_(Wire!tunnelVars)
  BY WireStep
<1> QED BY <1>1, <1>2, RelayInvariant, PTL DEF Spec, Wire!Spec, ImplementsTunnel

-----------------------------------------------------------------------------
\* What a tunnel that has not been broken has delivered.

\* At most one chunk is on its way, and the end of a stream follows all of it.
Delivery ==
    \A s \in Streams :
        /\ counted[s] <= written[s] /\ written[s] <= counted[s] + 1
        /\ written[s] <= offered[s]
        /\ pump[s] \in {"ending", "ended"} => s \in ended
        /\ s \in ended => s \in eof /\ counted[s] = offered[s]

LEMMA DeliveryStep ==
    ASSUME RelayInv, Delivery, [Next]_vars
    PROVE  Delivery'
<1> USE DEF Busy
<1>1. TypeOK /\ Flow BY DEF RelayInv
<1>2. CASE (\E c \in Conns : HandlerStep(c) \/ Start(c) \/ Closed(c)) \/ Stop
           \/ Gathered \/ UNCHANGED vars
  <2>1. UNCHANGED <<offered, eof, written, counted, ended>>
    BY <1>1, <1>2, HandlerType DEF Stop, Gathered, vars, peerVars, dataVars
  <2>2. \A s \in Streams : pump'[s] \in {"ending", "ended"} => pump'[s] = pump[s]
    <3>1. CASE \E c \in Conns : Wait(c) \/ Reply(c) BY <3>1 DEF Wait, Reply, Cancel
    <3>2. CASE Stop BY <3>2 DEF Stop
    <3>3. CASE ~Stop /\ ~\E c \in Conns : Wait(c) \/ Reply(c)
      <4>1. pump' = pump
        BY <1>2, <3>3 DEF HandlerStep, Accept, Rejected, Negotiate, Connect, Refuse,
           Settle, Disconnect, Disconnected, Start, Closed, Gathered, vars
      <4> QED BY <4>1
    <3> QED BY <3>1, <3>2, <3>3
  <2> QED BY <2>1, <2>2 DEF Delivery
<1>3. ASSUME NEW s \in Streams, PumpStep(s)
      PROVE  Delivery'
  <2>1. /\ UNCHANGED <<offered, eof>>
        /\ \A t \in Streams \ {s} : /\ pump'[t] = pump[t] /\ written'[t] = written[t]
                                    /\ counted'[t] = counted[t]
                                    /\ (t \in ended' <=> t \in ended)
    BY <1>1, <1>3 DEF PumpStep, Read, Drained, ReadEof, EofDrained, Fail, Move, TypeOK,
       dataVars, peerVars
  <2>2. {written[s], counted[s], offered[s]} \subseteq Nat BY <1>1 DEF TypeOK
  <2>3. /\ counted'[s] <= written'[s] /\ written'[s] <= counted'[s] + 1
        /\ written'[s] <= offered[s]
        /\ pump'[s] \in {"ending", "ended"} => s \in ended'
        /\ s \in ended' => s \in eof /\ counted'[s] = offered[s]
    <3>1. CASE Read(s)
      <4>1. /\ written'[s] = written[s] + 1 /\ written[s] < offered[s]
            /\ UNCHANGED <<counted, ended>> /\ pump'[s] = "draining"
            /\ counted[s] = written[s] /\ s \notin ended
        BY <1>1, <3>1 DEF Read, Move, TypeOK, Flow
      <4> QED BY <2>2, <4>1
    <3>2. CASE Drained(s)
      <4>1. /\ counted'[s] = counted[s] + 1 /\ written[s] = counted[s] + 1
            /\ UNCHANGED <<written, ended>> /\ pump'[s] = "reading" /\ s \notin ended
        BY <1>1, <3>2 DEF Drained, Move, TypeOK, Flow
      <4> QED BY <2>2, <4>1 DEF Delivery
    <3>3. CASE ReadEof(s)
      <4>1. /\ written[s] = offered[s] /\ counted[s] = written[s] /\ s \in eof
            /\ UNCHANGED <<written, counted>> /\ ended' = ended \cup {s}
        BY <1>1, <3>3 DEF ReadEof, Flow
      <4> QED BY <2>2, <4>1
    <3>4. CASE EofDrained(s)
      <4>1. pump[s] = "ending" /\ UNCHANGED <<written, counted, ended>>
        BY <3>4 DEF EofDrained, dataVars
      <4> QED BY <4>1 DEF Delivery
    <3>5. CASE Fail(s)
      <4>1. pump'[s] = "failed" /\ UNCHANGED <<written, counted, ended>>
        BY <1>1, <3>5 DEF Fail, Move, TypeOK, dataVars
      <4> QED BY <4>1 DEF Delivery
    <3> QED BY <1>3, <3>1, <3>2, <3>3, <3>4, <3>5 DEF PumpStep
  <2> QED BY <2>1, <2>3 DEF Delivery
<1>4. ASSUME NEW s \in Streams, Peer(s)
      PROVE  Delivery'
  <2>1. UNCHANGED <<pump, written, counted, ended>> /\ eof \subseteq eof'
    BY <1>4 DEF Peer, Send, HalfClose, Reset, dataVars
  <2>2. \/ offered' = offered
        \/ s \notin eof /\ offered' = [offered EXCEPT ![s] = @ + 1]
    BY <1>4 DEF Peer, Send, HalfClose, Reset
  <2>3. \A t \in Streams : {written[t], counted[t], offered[t]} \subseteq Nat
    BY <1>1 DEF TypeOK
  <2>4. \A t \in Streams : /\ offered[t] <= offered'[t]
                           /\ t \in ended => offered'[t] = offered[t]
    BY <1>1, <2>2, <2>3 DEF TypeOK, Delivery
  <2>5. \A t \in Streams : offered'[t] \in Nat BY <1>1, <2>2, <2>3 DEF TypeOK
  <2> QED BY <2>1, <2>3, <2>4, <2>5 DEF Delivery
<1> QED BY <1>2, <1>3, <1>4, NextCases

LEMMA DeliveryInvariant == Spec => []Delivery
<1>1. Init => Delivery BY DEF Init, Delivery
<1> QED BY <1>1, DeliveryStep, RelayInvariant, PTL DEF Spec

\* What a connection that nothing has broken leaves behind when its relay is over.
WholeUnlessBroken ==
    \A s \in Streams :
        /\ s[1] \notin Broken /\ pump[s] # "none"
        /\ handler[s[1]] \in {"cleaning", "disconnecting", "closing", "done"}
        => s \in ended /\ s \in eof /\ written[s] = offered[s] /\ counted[s] = offered[s]

\* A relay that ends without a reset peer or a stop of the server has passed on and
\* counted all that both peers sent, and told each that the other had ended.
THEOREM UnbrokenIsWhole == Spec => []WholeUnlessBroken
<1>1. RelayInv /\ Delivery => WholeUnlessBroken
  <2> SUFFICES ASSUME RelayInv, Delivery, NEW s \in Streams,
                      s[1] \notin Broken, pump[s] # "none",
                      handler[s[1]] \in {"cleaning", "disconnecting", "closing", "done"}
               PROVE  /\ s \in ended /\ s \in eof
                      /\ written[s] = offered[s] /\ counted[s] = offered[s]
    BY DEF WholeUnlessBroken
  <2>1. pump[s] \notin Busy BY StreamFacts DEF RelayInv, Stages, StagesOf
  <2>2. pump[s] \notin {"failed", "cancelled"} BY DEF RelayInv, Flow
  <2>3. pump[s] = "ended" BY <2>1, <2>2 DEF RelayInv, TypeOK, PumpStates
  <2>4. s \in ended /\ s \in eof /\ counted[s] = offered[s] BY <2>3 DEF Delivery
  <2>5. counted[s] <= written[s] /\ written[s] <= offered[s] BY DEF Delivery
  <2>6. {written[s], offered[s]} \subseteq Nat BY DEF RelayInv, TypeOK
  <2> QED BY <2>4, <2>5, <2>6
<1> QED BY <1>1, RelayInvariant, DeliveryInvariant, PTL

\* What is missing of a stream, broken or not.
InFlight ==
    \A s \in Streams :
        counted[s] <= written[s] /\ written[s] <= counted[s] + 1 /\ written[s] <= offered[s]

\* However a connection is reset or cancelled, at most one chunk that was written is
\* not counted, and none is counted that was not written.
THEOREM CountsFollowWrites == Spec => []InFlight
<1>1. Delivery => InFlight BY DEF Delivery, InFlight
<1> QED BY <1>1, DeliveryInvariant, PTL

-----------------------------------------------------------------------------
\* A failure holds up no slot.

\* A handler goes on waiting for one stream only when the other has ended.
HalfWaits ==
    \A c \in Conns :
        /\ handler[c] = "relaying" =>
              \A d \in Dirs : pump[<<c, d>>] \notin {"none", "cancelled"}
        /\ handler[c] = "settling" =>
              Finished(c) = Dirs \/ \E d \in Dirs : pump[<<c, d>>] = "ended"

LEMMA HalfWaitsStep ==
    ASSUME RelayInv, HalfWaits, [Next]_vars
    PROVE  HalfWaits'
<1> USE DEF Busy
<1>1. TypeOK /\ Stages /\ Flow BY DEF RelayInv
<1>2. \A c \in Conns : \A d \in Dirs : <<c, d>> \in Streams /\ <<c, d>>[1] = c
  BY StreamFacts
<1>3. ASSUME NEW c \in Conns, HandlerStep(c) \/ Start(c) \/ Closed(c)
      PROVE  HalfWaits'
  <2>1. \A b \in Conns \ {c} : handler'[b] = handler[b]
    BY <1>1, <1>3 DEF HandlerStep, Accept, Rejected, Negotiate, Connect, Refuse, Reply,
       Wait, Settle, Disconnect, Disconnected, Start, Closed, Goto, TypeOK
  <2>2. \A s \in Streams : s[1] # c => pump'[s] = pump[s]
    BY <1>3 DEF HandlerStep, Accept, Rejected, Negotiate, Connect, Refuse, Reply, Wait,
       Cancel, Settle, Disconnect, Disconnected, Start, Closed
  <2>3. \A b \in Conns \ {c} : \A d \in Dirs : pump'[<<b, d>>] = pump[<<b, d>>]
    BY <1>2, <2>2
  <2>4. /\ handler'[c] = "relaying" =>
              \A d \in Dirs : pump'[<<c, d>>] \notin {"none", "cancelled"}
        /\ handler'[c] = "settling" =>
              Finished(c)' = Dirs \/ \E d \in Dirs : pump'[<<c, d>>] = "ended"
    <3>1. CASE Reply(c)
      <4>1. CASE handler'[c] = "relaying"
        <5>1. pump' = [s \in Streams |-> IF s[1] = c THEN "reading" ELSE pump[s]]
          BY <1>1, <3>1, <4>1 DEF Reply, Goto, TypeOK
        <5> QED BY <1>2, <4>1, <5>1
      <4>2. CASE handler'[c] # "relaying"
        BY <1>1, <3>1, <4>2 DEF Reply, Goto, TypeOK
      <4> QED BY <4>1, <4>2
    <3>2. CASE Wait(c)
      <4>1. handler'[c] = "settling" /\ handler[c] = "relaying" /\ Finished(c) # {}
        BY <1>1, <3>2 DEF Wait, Goto, TypeOK
      <4>2. CASE \E d \in Finished(c) : pump[<<c, d>>] = "failed"
        <5>1. pump' = Cancel(pump, c) BY <3>2, <4>2 DEF Wait
        <5>2. \A d \in Dirs : pump'[<<c, d>>] \notin Busy BY <1>2, <5>1 DEF Cancel
        <5> QED BY <4>1, <5>2 DEF Finished
      <4>3. CASE ~\E d \in Finished(c) : pump[<<c, d>>] = "failed"
        <5>1. pump' = pump BY <3>2, <4>3 DEF Wait
        <5>2. PICK d \in Dirs : pump[<<c, d>>] \notin Busy /\ pump[<<c, d>>] # "failed"
          BY <4>1, <4>3 DEF Finished
        <5>3. pump[<<c, d>>] \in PumpStates BY <1>1, <1>2 DEF TypeOK
        <5>4. pump[<<c, d>>] = "ended" BY <4>1, <5>2, <5>3 DEF HalfWaits, PumpStates
        <5> QED BY <4>1, <5>1, <5>4
      <4> QED BY <4>2, <4>3
    <3>3. CASE ~Reply(c) /\ ~Wait(c)
      <4>1. handler'[c] \notin {"relaying", "settling"}
        BY <1>1, <1>3, <3>3 DEF HandlerStep, Accept, Rejected, Negotiate, Connect,
           Refuse, Settle, Disconnect, Disconnected, Start, Closed, Goto, TypeOK
      <4> QED BY <4>1
    <3> QED BY <3>1, <3>2, <3>3
  <2> QED BY <2>1, <2>3, <2>4 DEF HalfWaits, Finished
<1>4. ASSUME NEW s \in Streams, PumpStep(s)
      PROVE  HalfWaits'
  <2>1. handler' = handler /\ pump[s] \in Busy
        /\ pump'[s] \in {"reading", "draining", "ending", "ended", "failed"}
        /\ \A t \in Streams \ {s} : pump'[t] = pump[t]
    BY <1>1, <1>4 DEF PumpStep, Read, Drained, ReadEof, EofDrained, Fail, Move, TypeOK
  <2>2. ASSUME NEW c \in Conns, handler[c] = "relaying", NEW d \in Dirs
        PROVE  pump'[<<c, d>>] \notin {"none", "cancelled"}
    BY <1>2, <2>1, <2>2 DEF HalfWaits
  <2>3. ASSUME NEW c \in Conns, handler[c] = "settling"
        PROVE  Finished(c)' = Dirs \/ \E d \in Dirs : pump'[<<c, d>>] = "ended"
    <3>1. CASE Finished(c) = Dirs
      <4>1. \A d \in Dirs : <<c, d>> # s BY <2>1, <3>1 DEF Finished
      <4> QED BY <1>2, <2>1, <3>1, <4>1 DEF Finished
    <3>2. CASE \E d \in Dirs : pump[<<c, d>>] = "ended" BY <1>2, <2>1, <3>2
    <3> QED BY <2>3, <3>1, <3>2 DEF HalfWaits
  <2> QED BY <2>1, <2>2, <2>3 DEF HalfWaits
<1>5. CASE Stop
  <2>1. PICK deaf \in SUBSET Deaf :
           handler' = [c \in Conns |->
               IF c \in tasks \ deaf THEN Unwound(handler[c]) ELSE handler[c]]
    BY <1>5 DEF Stop
  <2>2. tasks = Holders BY DEF RelayInv, SlotsExact
  <2>3. \A c \in Conns : handler'[c] \notin {"relaying", "settling"}
    <3> SUFFICES ASSUME NEW c \in Conns PROVE handler'[c] \notin {"relaying", "settling"}
      OBVIOUS
    <3>1. CASE c \in tasks \ deaf BY <2>1, <3>1, UnwoundIsState
    <3>2. CASE c \in deaf BY <2>1, <3>2 DEF Deaf
    <3>3. CASE c \notin tasks BY <2>1, <2>2, <3>3 DEF Holders
    <3> QED BY <3>1, <3>2, <3>3
  <2> QED BY <2>3 DEF HalfWaits
<1>6. CASE (\E s \in Streams : Peer(s)) \/ Gathered \/ UNCHANGED vars
  <2>1. UNCHANGED <<handler, pump>>
    BY <1>6 DEF Peer, Send, HalfClose, Reset, Gathered, vars
  <2> QED BY <2>1 DEF HalfWaits, Finished
<1> QED BY <1>3, <1>4, <1>5, <1>6, NextCases

\* A handler whose relay has failed has no pump left to wait for.
FailureWaitsForNobody ==
    \A c \in Conns :
        /\ handler[c] \in {"settling", "cleaning"}
        /\ \E s \in StreamsOf(c) : pump[s] \in {"failed", "cancelled"}
        => Finished(c) = Dirs

\* Once the relay's wait has returned, a failed stream never leaves the slot with a
\* peer that is still there and silent: the other stream is over as well.
THEOREM FailuresHoldNoSlot == Spec => []FailureWaitsForNobody
<1>1. Init => HalfWaits BY DEF Init, HalfWaits
<1>2. RelayInv /\ HalfWaits => FailureWaitsForNobody
  <2> SUFFICES ASSUME RelayInv, HalfWaits, NEW c \in Conns,
                      handler[c] \in {"settling", "cleaning"},
                      NEW s \in StreamsOf(c), pump[s] \in {"failed", "cancelled"},
                      NEW d \in Dirs
               PROVE  pump[<<c, d>>] \notin Busy
    BY DEF FailureWaitsForNobody, Finished
  <2>1. PICK e \in Dirs : s = <<c, e>> BY DEF StreamsOf
  <2>2. CASE handler[c] = "cleaning" BY <2>2 DEF RelayInv, Stages, StagesOf
  <2>3. CASE handler[c] = "settling"
    <3>1. CASE Finished(c) = Dirs BY <3>1 DEF Finished
    <3>2. CASE \E f \in Dirs : pump[<<c, f>>] = "ended"
      BY <2>1, <3>2 DEF Dirs, Busy
    <3> QED BY <2>3, <3>1, <3>2 DEF HalfWaits
  <2> QED BY <2>2, <2>3
<1> QED BY <1>1, <1>2, HalfWaitsStep, RelayInvariant, PTL DEF Spec
=============================================================================
