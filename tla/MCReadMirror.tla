---------------------------- MODULE MCReadMirror ----------------------------
(* An instance of ReadMirror for TLC.                                      *)
EXTENDS ReadMirror

CONSTANTS k1, k2, k3, n1, n2, n3, ours, theirs, switch, online

(* Two keys and two networks of this organisation, one of each of another. *)
Owner == [x \in Key \cup NetworkId |-> IF x \in {k2, n2} THEN theirs ELSE ours]

(* k1 moves between two networks; documents may lack the network, the type *)
(* or the status.                                                          *)
Inventories == [k \in Key |->
  CASE k = k1 -> {[network |-> n1, facet |-> switch], [network |-> n3, facet |-> None]}
    [] k = k2 -> {[network |-> n2, facet |-> switch]}
    [] k = k3 -> {[network |-> None, facet |-> switch]}]
Metrics == [k \in Key |->
  CASE k = k1 -> {[network |-> n1, facet |-> online], [network |-> n3, facet |-> online]}
    [] k = k2 -> {[network |-> n2, facet |-> online]}
    [] k = k3 -> {[network |-> n1, facet |-> None]}]
=============================================================================
