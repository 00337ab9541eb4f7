------------------------------- MODULE Tunnel -------------------------------
(***************************************************************************)
(* What a SOCKS CONNECT promises: two streams of chunks, one per           *)
(* direction.  Each chunk is passed on in turn and recorded once, the end  *)
(* of a stream is passed on after all of it has been recorded, and the end *)
(* of one stream leaves the other alone: streams are cut short only when   *)
(* their connection breaks.                                                *)
(***************************************************************************)
EXTENDS Naturals

CONSTANTS Conns, Dirs

VARIABLES
    offered, passed, recorded,   \* chunks of each stream
    finished,                    \* streams whose source has ended them
    ended, cut,                  \* streams ended or cut short here
    broken                       \* connections that have failed, or are stopped

tunnelVars == <<offered, passed, recorded, finished, ended, cut, broken>>

Streams == Conns \X Dirs

Init ==
    /\ offered = [s \in Streams |-> 0]
    /\ passed = [s \in Streams |-> 0] /\ recorded = [s \in Streams |-> 0]
    /\ finished = {} /\ ended = {} /\ cut = {} /\ broken = {}

Running == Streams \ (ended \cup cut)

Offer(s) ==
    /\ s \notin finished
    /\ offered' = [offered EXCEPT ![s] = @ + 1]
    /\ UNCHANGED <<passed, recorded, finished, ended, cut, broken>>

Finish(s) ==
    /\ finished' = finished \cup {s}
    /\ UNCHANGED <<offered, passed, recorded, ended, cut, broken>>

Pass(s) ==
    /\ s \in Running
    /\ passed[s] < offered[s] /\ recorded[s] = passed[s]
    /\ passed' = [passed EXCEPT ![s] = @ + 1]
    /\ UNCHANGED <<offered, recorded, finished, ended, cut, broken>>

Record(s) ==
    /\ s \in Running
    /\ recorded[s] < passed[s]
    /\ recorded' = [recorded EXCEPT ![s] = passed[s]]
    /\ UNCHANGED <<offered, passed, finished, ended, cut, broken>>

PassEnd(s) ==
    /\ s \in Running \cap finished
    /\ recorded[s] = offered[s]
    /\ ended' = ended \cup {s}
    /\ UNCHANGED <<offered, passed, recorded, finished, cut, broken>>

Break ==
    /\ broken \subseteq broken' /\ cut \subseteq cut'
    /\ \A s \in cut' \ cut : s \in Running /\ s[1] \in broken'
    /\ UNCHANGED <<offered, passed, recorded, finished, ended>>

Next ==
    \/ \E s \in Streams : Offer(s) \/ Finish(s) \/ Pass(s) \/ Record(s) \/ PassEnd(s)
    \/ Break

Spec == Init /\ [][Next]_tunnelVars
=============================================================================
