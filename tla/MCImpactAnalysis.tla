-------------------------- MODULE MCImpactAnalysis --------------------------
(* An instance of ImpactAnalysis for TLC.                                  *)
EXTENDS ImpactAnalysis

CONSTANTS n1, n2, a, b, c, p, i1

(* a and b linked, until c takes the place of a, or the other way round; b *)
(* is down at first.  c has a network of its own too.                      *)
Cabled == [n \in Network |-> [v \in AsOf |->
  IF n = n1
  THEN {[nodes |-> {a, b}, readable |-> TRUE,
         links |-> {[source |-> a, target |-> b, port |-> p]}],
        [nodes |-> {b, c}, links |-> {}, readable |-> TRUE]}
  ELSE IF v = 1 THEN {[nodes |-> {c}, links |-> {}, readable |-> TRUE]} ELSE {}]]

BDown == {<<n1, 1, b>>}
PortEnds == [q \in Port |-> {i1}]
=============================================================================
