------------------------- MODULE TopologyFreshness -------------------------
(***************************************************************************)
(* What the graph projection promises of Network.last_synced_at, seen from *)
(* outside: per network, the timestamp of the latest topology polled into  *)
(* Elasticsearch and the timestamp the graph is marked with.  The mark     *)
(* moves forward only, never past the poll, and always catches up.         *)
(***************************************************************************)
EXTENDS Naturals

CONSTANTS Network, MaxAsOf

VARIABLES polled, synced

Init == polled = [n \in Network |-> 0] /\ synced = [n \in Network |-> 0]

Poll(n) ==
  \E v \in polled[n] + 1 .. MaxAsOf :
    polled' = [polled EXCEPT ![n] = v] /\ UNCHANGED synced

Advance(n) ==
  \E v \in synced[n] + 1 .. polled[n] :
    synced' = [synced EXCEPT ![n] = v] /\ UNCHANGED polled

Next == \E n \in Network : Poll(n) \/ Advance(n)

Spec == /\ Init /\ [][Next]_<<polled, synced>>
        /\ \A n \in Network : WF_<<polled, synced>>(Advance(n))
=============================================================================
