--------------------------- MODULE ImpactAnalysis ---------------------------
(***************************************************************************)
(* GET /twin/impact on the graph that GraphSync builds:                    *)
(* application/impact_analyzer.py, ReadMirror.impact and                   *)
(* presentation/impact_router.py.  An analysis is two or three read        *)
(* transactions; a rebuild may commit a statement between any two of them. *)
(***************************************************************************)
EXTENDS GraphSync, Sequences

CONSTANTS
  Reader,        \* requests in flight at once
  Interface,     \* port names
  Ends,          \* Ends[p]: the sourcePort and the targetPort of the pair p
  Depth,         \* depths a caller gives, 0 for none
  DefaultDepth,  \* ImpactAnalyzer's default_depth
  Offline,       \* <<network, asOf, device>>: nodes a topology reports down or offline
  NoAsOf         \* as_of of a result when the graph has none

ASSUME ReaderAssumption ==
  /\ Ends \in [Port -> SUBSET Interface]
  /\ Depth \subseteq Nat /\ DefaultDepth \in Nat \ {0}
  /\ Offline \subseteq Network \X AsOf \X Device
  /\ NoAsOf \notin Nat

VARIABLES
  at,      \* where a request is: idle, neighbor, walk, freshness, answered
  asked,   \* the serial in the request
  via,     \* the interface in it, when it asks for an uplink
  start,   \* the device id the walk starts from
  depth,   \* depth_val
  rows,    \* rows of the walk; {} also stands for a None result
  as_of    \* the result's freshness

reads   == <<at, asked, via, start, depth, rows, as_of>>
allVars == <<vars, reads>>

-----------------------------------------------------------------------------
(* A LINKED_TO edge, gone along in either direction.                       *)
AnyPairBug == {[from |-> p[1], to |-> p[2],
                edge |-> [from |-> p[1], to |-> p[2], port |-> CHOOSE q \in Port : TRUE]] :
                 p \in {q \in Node \X Node : q[1] # q[2] /\
                          \E n \in Network : {<<q[1], n>>, <<q[2], n>>} \subseteq member}}
Hops == UNION {{[from |-> e.from, to |-> e.to, edge |-> e],
                [from |-> e.to, to |-> e.from, edge |-> e]} : e \in linked}

(* _impact_cypher: the trails of 1 to k edges, none twice, from a node of  *)
(* the seed's id.                                                          *)
Trails(x, k) ==
  {t \in UNION {[1..n -> Hops] : n \in 1..k} :
     /\ t[1].from \in Matching(x)
     /\ \A i \in 2..Len(t) : t[i].from = t[i - 1].to
     /\ \A i, j \in DOMAIN t : t[i].edge = t[j].edge => i = j}

End(t) == t[Len(t)].to

(* WHERE NOT (neighbor)<-[:LINKED_TO]-(seed).                              *)
Kept(t) == ~\E e \in linked : e.from = t[1].from /\ e.to = End(t)

(* status IN ['down','offline'], null for a node that carries no document. *)
Masked(u) == deviceFrom[u] # NoSource /\
             <<deviceFrom[u][1], deviceFrom[u][2], deviceId[u]>> \in Offline

(* One row per trail and network of its last node, or one with no network; *)
(* source is the document the node's name and status come from.            *)
NetworksOf(u) == {e[2] : e \in {m \in member : m[1] = u}}
ImpactRows(x, k) ==
  UNION {{[trail |-> t, id |-> deviceId[End(t)], source |-> deviceFrom[End(t)],
           masked |-> Masked(End(t)), network |-> n] :
            n \in IF NetworksOf(End(t)) = {} THEN {NoSource} ELSE NetworksOf(End(t))} :
         t \in {s \in Trails(x, k) : Kept(s)}}

(* Peers across the interface; the port may be either end's.               *)
Peers(x, i) == {deviceId[h.to] : h \in {g \in Hops : deviceId[g.from] = x /\ i \in Ends[g.edge.port]}}

(* last_synced_at of the networks of a device.                             *)
AnyNetworkBug(x)  == {lastSynced[n] : n \in Network}
FreshnessRows(x)  == {lastSynced[n] : n \in UNION {NetworksOf(u) : u \in Matching(x)}}

-----------------------------------------------------------------------------
Move(r, from, to) == at[r] = from /\ at' = [at EXCEPT ![r] = to]

(* ReadMirror.impact: a device serial comes first, then an uplink; neither *)
(* is a None result, like a seed without rows.                             *)
AskDevice(r, x, k) ==
  /\ Move(r, "idle", "walk")
  /\ asked' = [asked EXCEPT ![r] = x]
  /\ start' = [start EXCEPT ![r] = x]
  /\ depth' = [depth EXCEPT ![r] = IF k = 0 THEN DefaultDepth ELSE k]
  /\ UNCHANGED <<vars, via, rows, as_of>>

AskUplink(r, x, i, k) ==
  /\ Move(r, "idle", "neighbor")
  /\ asked' = [asked EXCEPT ![r] = x]
  /\ via' = [via EXCEPT ![r] = i]
  /\ depth' = [depth EXCEPT ![r] = IF k = 0 THEN DefaultDepth ELSE k]
  /\ UNCHANGED <<vars, start, rows, as_of>>

AskNothing(r) ==
  /\ Move(r, "idle", "answered")
  /\ UNCHANGED <<vars, asked, via, start, depth, rows, as_of>>

(* rows[0] is any of them.                                                 *)
FindNeighbor(r) ==
  /\ \/ /\ Peers(asked[r], via[r]) = {}
        /\ Move(r, "neighbor", "answered")
        /\ UNCHANGED start
     \/ \E x \in Peers(asked[r], via[r]) :
          /\ Move(r, "neighbor", "walk")
          /\ start' = [start EXCEPT ![r] = x]
  /\ UNCHANGED <<vars, asked, via, depth, rows, as_of>>

Walk(r) ==
  /\ rows' = [rows EXCEPT ![r] = ImpactRows(start[r], depth[r])]
  /\ Move(r, "walk", IF rows'[r] = {} THEN "answered" ELSE "freshness")
  /\ UNCHANGED <<vars, asked, via, start, depth, as_of>>

ReadFreshness(r) ==
  /\ Move(r, "freshness", "answered")
  /\ \E v \in IF FreshnessRows(start[r]) = {} THEN {NoAsOf} ELSE FreshnessRows(start[r]) :
       as_of' = [as_of EXCEPT ![r] = v]
  /\ UNCHANGED <<vars, asked, via, start, depth, rows>>

Answer(r) ==
  /\ Move(r, "answered", "idle")
  /\ asked' = [asked EXCEPT ![r] = NoDevice]
  /\ via' = [via EXCEPT ![r] = NoPort]
  /\ start' = [start EXCEPT ![r] = NoDevice]
  /\ depth' = [depth EXCEPT ![r] = 0]
  /\ rows' = [rows EXCEPT ![r] = {}]
  /\ as_of' = [as_of EXCEPT ![r] = NoAsOf]
  /\ UNCHANGED vars

ImpactInit ==
  /\ Init
  /\ at = [r \in Reader |-> "idle"]
  /\ asked = [r \in Reader |-> NoDevice]
  /\ via = [r \in Reader |-> NoPort]
  /\ start = [r \in Reader |-> NoDevice]
  /\ depth = [r \in Reader |-> 0]
  /\ rows = [r \in Reader |-> {}]
  /\ as_of = [r \in Reader |-> NoAsOf]

Reads(r) ==
  \/ \E x \in Device, k \in Depth : AskDevice(r, x, k)
  \/ \E x \in Device, i \in Interface, k \in Depth : AskUplink(r, x, i, k)
  \/ AskNothing(r)
  \/ FindNeighbor(r) \/ Walk(r) \/ ReadFreshness(r)
  \/ Answer(r)

ImpactNext == (Next /\ UNCHANGED reads) \/ \E r \in Reader : Reads(r)
ImpactSpec == ImpactInit /\ [][ImpactNext]_allVars

-----------------------------------------------------------------------------
(* Properties.                                                             *)

(* The shape of a request; what it carries at each step.                   *)
ReadsTypeOK ==
  /\ at \in [Reader -> {"idle", "neighbor", "walk", "freshness", "answered"}]
  /\ asked \in [Reader -> Device \cup {NoDevice}]
  /\ via \in [Reader -> Interface \cup {NoPort}]
  /\ start \in [Reader -> Device \cup {NoDevice}]
  /\ depth \in [Reader -> Nat]
  /\ as_of \in [Reader -> AsOf \cup {NoAsOf}]
  /\ DOMAIN rows = Reader
  /\ \A r \in Reader : \A row \in rows[r] : row.id \in Device
  /\ \A r \in Reader : at[r] \in {"walk", "freshness"} => start[r] \in Device

(* What the topologies ever published connect to a device.                 *)
Closed(S)        == \A d \in published : \A l \in d.links : l.source \in S <=> l.target \in S
Connected(x, y)  == \A S \in SUBSET Device : x \in S /\ Closed(S) => y \in S

(* The walk runs on a graph that a rebuild, a crash or a race has left     *)
(* half-made, with several nodes for a device and stubs without a network; *)
(* what it reports is still connected to the device that was asked for, by *)
(* links that topologies had.                                              *)
ImpactIsConnected ==
  \A r \in Reader : \A row \in rows[r] : Connected(asked[r], row.id)

(* The freshness of an answer is read in a transaction of its own: it may  *)
(* be older or newer than the rows, and still it is the timestamp of some  *)
(* topology of a network that has listed the walk's first device.          *)
FreshnessIsOfTheSeed ==
  \A r \in Reader : as_of[r] # NoAsOf =>
    \E d, e \in published : /\ d.asOf = as_of[r]
                            /\ e.network = d.network /\ start[r] \in e.nodes

(* And it is never older than what the rows show of the devices that come  *)
(* from that network, though rebuilds go on, are cut and run again between *)
(* the two reads: an answer may call old devices fresher than they are     *)
(* ("eventually consistent", CONTEXT.md) and never new ones older.  It     *)
(* needs the marker to be the first statement of a rebuild, before any     *)
(* device, the freshness to be read after the rows, and one syncer at a    *)
(* time.                                                                   *)
FreshnessBoundsTheRows ==
  \A r \in Reader : as_of[r] # NoAsOf =>
    \E d, e \in published :
      /\ d.asOf = as_of[r]
      /\ e.network = d.network /\ start[r] \in e.nodes
      /\ \A row \in rows[r] :
           row.source # NoSource /\ row.source[1] = d.network => row.source[2] <= as_of[r]

(* "The statement pattern matches what FakeGraphStore._impact_walk         *)
(* interprets" (_impact_cypher): a walk returns the devices that lie       *)
(* within depth edges of the seed, itself excepted.                        *)
Within(x, k) ==
  LET Of[j \in Nat] ==
        IF j = 0 THEN {x}
        ELSE Of[j - 1] \cup {deviceId[h.to] : h \in {g \in Hops : deviceId[g.from] \in Of[j - 1]}}
  IN Of[k] \ {x}

WalkIsBreadthFirst ==
  [][\A r \in Reader : at[r] = "walk" /\ at'[r] # "walk" =>
       {row.id : row \in rows'[r]} = Within(start[r], depth[r])]_allVars
=============================================================================
