---------------------------- MODULE MCGraphSync ----------------------------
(* Instances of GraphSync for TLC.                                         *)
EXTENDS GraphSync, TLC

CONSTANTS n1, n2, a, b, p

Topology(nodes, links, readable) ==
  [nodes |-> nodes, links |-> links, readable |-> readable]
Wire(x, y, port) == [source |-> x, target |-> y, port |-> port]

(* Two networks; a device moves between them, a link appears and goes.     *)
Moving == [n \in Network |-> [v \in AsOf |->
  IF n = n1
  THEN {Topology({a, b}, {Wire(a, b, p)}, TRUE), Topology({a}, {}, TRUE)}
  ELSE {Topology({b}, {}, TRUE), Topology({}, {}, TRUE)}]]

(* A network whose later topology loses a device and its link, or cannot be*)
(* read; a second one lists that device, with a link that lacks a port.    *)
Shared == [n \in Network |-> [v \in AsOf |->
  CASE n = n1 /\ v = 1 -> {Topology({a, b}, {Wire(a, b, p)}, TRUE)}
    [] n = n1 /\ v > 1 -> {Topology({a}, {}, TRUE), Topology({a}, {}, FALSE)}
    [] n = n2          -> IF v = 1 THEN {Topology({b}, {Wire(b, a, NoPort)}, TRUE)} ELSE {}]]

SyncerSymmetry == Permutations(Syncer)
=============================================================================
