----------------------------- MODULE GraphSync -----------------------------
(***************************************************************************)
(* The projection of the Elasticsearch topology documents into Neo4j:      *)
(* src/src/twin/application/graph_sync.py (what a rebuild is),             *)
(* presentation/admin_sync_router.py and sync/neo4j/__main__.py (the two   *)
(* loops that run it), adapters/neo4j_graph_store.py (one transaction per  *)
(* Cypher statement).                                                      *)
(*                                                                         *)
(* A syncer is one execution of that loop: a POST /admin/sync/neo4j being  *)
(* served or a run of the CLI.  Several may run at once; nothing in the    *)
(* code excludes it.  Every await of the loop is a place where another     *)
(* syncer, the poller that writes Elasticsearch or a failure can come in,  *)
(* so each statement is an action of its own.                              *)
(***************************************************************************)
EXTENDS Naturals, FiniteSets

CONSTANTS
  Network,      \* network ids
  Device,       \* device ids (serials), the "id" property of a Device node
  NoDevice,     \* what deviceId holds for a Neo4j node that does not exist
  Node,         \* internal ids of Neo4j nodes: the bound on Device nodes
  Port,         \* (sourcePort, targetPort) pairs of a link
  NoPort,       \* the pair of a link that lacks one of the two ports (null)
  MaxAsOf,      \* bound on topology @timestamps
  Contents,     \* Contents[n][v]: the topologies a poll of n at time v may report
  NoDocument,   \* doc[s] before the first rebuild of s
  NoSource,     \* deviceFrom of a node that no SET has touched
  Syncer,       \* executions of the sync loop
  Faulty        \* the syncers that may be cut at any await

AsOf     == 1..MaxAsOf
Link     == [source : Device, target : Device, port : Port \cup {NoPort}]
Content  == [nodes : SUBSET Device, links : SUBSET Link, readable : BOOLEAN]

(* A TopologyDocument.  readable is FALSE when a node lacks "id" or a link *)
(* lacks "source" or "target" (the ends[] form of a link, for one), which  *)
(* is when building the statements raises.                                 *)
Document == [network : Network, asOf : AsOf, nodes : SUBSET Device,
             links : SUBSET Link, readable : BOOLEAN]

ASSUME NetworkAssumption  == MaxAsOf \in Nat /\ Contents \in [Network -> [AsOf -> SUBSET Content]]
ASSUME AbsenceAssumption  == /\ NoDevice \notin Device
                             /\ NoDocument \notin Document
                             /\ NoSource \notin Network \X AsOf
                             /\ NoPort \notin Port
ASSUME SyncerAssumption   == Faulty \subseteq Syncer

VARIABLES
  published,    \* topology documents ever written; Elasticsearch holds Current
  lastSynced,   \* Network.last_synced_at, 0 when there is no Network node
  deviceId,     \* the Device nodes: Neo4j node -> id, NoDevice when none
  deviceFrom,   \* whose name, status, type and network_id the node carries
  member,       \* IN_NETWORK edges, <<node, network>>
  linked,       \* LINKED_TO edges, [from, to, port]
  pc,           \* "idle" or "syncing"
  queue,        \* topo_docs that the loop has not looked at yet
  doc,          \* the document being rebuilt, or rebuilt last
  todo,         \* the statements of that rebuild not executed yet
  undisturbed   \* history: no other syncer wrote since the rebuild began

graph == <<lastSynced, deviceId, deviceFrom, member, linked>>
loop  == <<pc, queue, doc, todo>>
vars  == <<published, graph, loop, undisturbed>>

-----------------------------------------------------------------------------
(* Elasticsearch: the index holds the latest document of each network.     *)

Current == {d \in published : \A e \in published :
                                e.network = d.network => e.asOf <= d.asOf}

Poll(n) ==
  \E v \in AsOf : \E c \in Contents[n][v] :
    /\ \A d \in published : d.network = n => d.asOf < v
    /\ published' = published \cup
         {[network |-> n, asOf |-> v, nodes |-> c.nodes,
           links |-> c.links, readable |-> c.readable]}
    /\ UNCHANGED <<graph, loop, undisturbed>>

-----------------------------------------------------------------------------
(* _rebuild: the statements of a document.  The lists of nodes and links   *)
(* come in any order, the kinds of statements in the order of Stage.       *)

MergeNetworkStmt    == [op |-> "MergeNetwork"]
DropMembershipStmt  == [op |-> "DropMembership"]
MergeDeviceStmt(x)  == [op |-> "MergeDevice", id |-> x]
JoinNetworkStmt(x)  == [op |-> "JoinNetwork", id |-> x]
MergeLinkStmt(l)    == [op |-> "MergeLink", link |-> l]
DeleteOrphansStmt   == [op |-> "DeleteOrphans"]

(* Mutated forms (a name ending in Bug) are what a slip in the code would  *)
(* make of the definition below them; they show that a property can fail.  *)
RebuildKeepsMembersBug(d) ==
  {MergeNetworkStmt, DeleteOrphansStmt}
    \cup {MergeDeviceStmt(x) : x \in d.nodes}
    \cup {JoinNetworkStmt(x) : x \in d.nodes}
    \cup {MergeLinkStmt(l) : l \in d.links}

RebuildKeepsOrphansBug(d) ==
  {MergeNetworkStmt, DropMembershipStmt}
    \cup {MergeDeviceStmt(x) : x \in d.nodes}
    \cup {JoinNetworkStmt(x) : x \in d.nodes}
    \cup {MergeLinkStmt(l) : l \in d.links}

Rebuild(d) ==
  {MergeNetworkStmt, DropMembershipStmt, DeleteOrphansStmt}
    \cup {MergeDeviceStmt(x) : x \in d.nodes}
    \cup {JoinNetworkStmt(x) : x \in d.nodes}
    \cup {MergeLinkStmt(l) : l \in d.links}

StageOrphansFirstBug(st) ==
  CASE st.op = "MergeNetwork"   -> 1
    [] st.op = "DropMembership" -> 2
    [] st.op = "MergeDevice"    -> 3
    [] st.op = "DeleteOrphans"  -> 4
    [] st.op = "JoinNetwork"    -> 5
    [] st.op = "MergeLink"      -> 6

StageMarkerLastBug(st) ==
  CASE st.op = "DropMembership" -> 1
    [] st.op = "MergeDevice"    -> 2
    [] st.op = "JoinNetwork"    -> 3
    [] st.op = "MergeLink"      -> 4
    [] st.op = "DeleteOrphans"  -> 5
    [] st.op = "MergeNetwork"   -> 6

Stage(st) ==
  CASE st.op = "MergeNetwork"   -> 1
    [] st.op = "DropMembership" -> 2
    [] st.op = "MergeDevice"    -> 3
    [] st.op = "JoinNetwork"    -> 4
    [] st.op = "MergeLink"      -> 5
    [] st.op = "DeleteOrphans"  -> 6

Due(s, st) == /\ pc[s] = "syncing"
              /\ st \in todo[s]
              /\ \A other \in todo[s] : Stage(st) <= Stage(other)

(* What executing a statement does to the loop.                            *)
Executed(s, st) ==
  /\ todo' = [todo EXCEPT ![s] = todo[s] \ {st}]
  /\ undisturbed' = [t \in Syncer |-> t = s /\ undisturbed[s]]
  /\ UNCHANGED <<published, pc, queue, doc>>

(* An exception or a crash ends the loop where it is; what the statements  *)
(* before it committed stays.                                              *)
Stopped(s) ==
  /\ pc' = [pc EXCEPT ![s] = "idle"]
  /\ queue' = [queue EXCEPT ![s] = {}]
  /\ todo' = [todo EXCEPT ![s] = {}]
  /\ undisturbed' = [undisturbed EXCEPT ![s] = @ /\ todo[s] = {}]
  /\ UNCHANGED <<published, graph, doc>>

-----------------------------------------------------------------------------
(* The loop.                                                               *)

Start(s) ==
  /\ pc[s] = "idle"
  /\ pc' = [pc EXCEPT ![s] = "syncing"]
  /\ queue' = [queue EXCEPT ![s] = Current]
  /\ UNCHANGED <<published, graph, doc, todo, undisturbed>>

(* The read of last_synced_at and the decision taken on it: nothing is     *)
(* awaited between the two.                                                *)
StaleOnceSyncedBug(d) == lastSynced[d.network] # 0

Stale(d) == d.asOf <= lastSynced[d.network]

Looks(s, d) == pc[s] = "syncing" /\ todo[s] = {} /\ d \in queue[s]

Skip(s, d) ==
  /\ Looks(s, d)
  /\ Stale(d)
  /\ queue' = [queue EXCEPT ![s] = @ \ {d}]
  /\ UNCHANGED <<published, graph, pc, doc, todo, undisturbed>>

Begin(s, d) ==
  /\ Looks(s, d)
  /\ ~Stale(d)
  /\ d.readable
  /\ queue' = [queue EXCEPT ![s] = @ \ {d}]
  /\ doc' = [doc EXCEPT ![s] = d]
  /\ todo' = [todo EXCEPT ![s] = Rebuild(d)]
  /\ undisturbed' = [undisturbed EXCEPT ![s] = TRUE]
  /\ UNCHANGED <<published, graph, pc>>

RaiseUnreadable(s, d) ==
  /\ Looks(s, d)
  /\ ~Stale(d)
  /\ ~d.readable
  /\ Stopped(s)

Finish(s) ==
  /\ pc[s] = "syncing"
  /\ queue[s] = {} /\ todo[s] = {}
  /\ pc' = [pc EXCEPT ![s] = "idle"]
  /\ UNCHANGED <<published, graph, queue, doc, todo, undisturbed>>

Cut(s) ==
  /\ s \in Faulty
  /\ pc[s] = "syncing"
  /\ Stopped(s)

-----------------------------------------------------------------------------
(* The statements.  There is no uniqueness constraint in the code, so that *)
(* several Device nodes may carry one id: MATCH (d:Device {id}) is a set.  *)

Matching(x) == {u \in Node : deviceId[u] = x}
Free        == Matching(NoDevice)

MarkNowBug(d) == MaxAsOf
Mark(d)       == d.asOf

MergeNetwork(s) ==
  /\ Due(s, MergeNetworkStmt)
  /\ lastSynced' = [lastSynced EXCEPT ![doc[s].network] = Mark(doc[s])]
  /\ Executed(s, MergeNetworkStmt)
  /\ UNCHANGED <<deviceId, deviceFrom, member, linked>>

DropNetworkBug(s) ==
  /\ Due(s, DropMembershipStmt)
  /\ lastSynced' = [lastSynced EXCEPT ![doc[s].network] = 0]
  /\ member' = {e \in member : e[2] # doc[s].network}
  /\ Executed(s, DropMembershipStmt)
  /\ UNCHANGED <<deviceId, deviceFrom, linked>>
DropMembership(s) ==
  /\ Due(s, DropMembershipStmt)
  /\ member' = {e \in member : e[2] # doc[s].network}
  /\ Executed(s, DropMembershipStmt)
  /\ UNCHANGED <<lastSynced, deviceId, deviceFrom, linked>>

(* MERGE matches every node with the id, and makes one when there is none; *)
(* SET then writes all of them.                                            *)
MergeTargets(x) == IF Matching(x) # {} THEN Matching(x)
                   ELSE {CHOOSE u \in Free : TRUE}

MergeDevice(s, x) ==
  /\ Due(s, MergeDeviceStmt(x))
  /\ Matching(x) \cup Free # {}
  /\ deviceId' = [u \in Node |-> IF u \in MergeTargets(x) THEN x ELSE deviceId[u]]
  /\ deviceFrom' = [u \in Node |-> IF u \in MergeTargets(x)
                       THEN <<doc[s].network, doc[s].asOf>> ELSE deviceFrom[u]]
  /\ Executed(s, MergeDeviceStmt(x))
  /\ UNCHANGED <<lastSynced, member, linked>>

JoinNetwork(s, x) ==
  /\ Due(s, JoinNetworkStmt(x))
  /\ member' = member \cup {<<u, doc[s].network>> : u \in Matching(x)}
  /\ Executed(s, JoinNetworkStmt(x))
  /\ UNCHANGED <<lastSynced, deviceId, deviceFrom, linked>>

(* MERGE refuses a null property value.                                    *)
AcceptsNullBug(l) == FALSE
Refused(l)        == l.port = NoPort

(* MERGE of a whole path whose ends are not bound: it is found whole or it *)
(* is made whole, two Device nodes with nothing but an id included.        *)
PathExists(l) == \E e \in linked : /\ deviceId[e.from] = l.source
                                   /\ deviceId[e.to] = l.target
                                   /\ e.port = l.port

FreePairs == {e \in Free \X Free : e[1] # e[2]}

MakePath(l) ==
  /\ FreePairs # {}
  /\ LET ends == CHOOSE e \in FreePairs : TRUE IN
       /\ deviceId' = [deviceId EXCEPT ![ends[1]] = l.source, ![ends[2]] = l.target]
       /\ deviceFrom' = [deviceFrom EXCEPT ![ends[1]] = NoSource, ![ends[2]] = NoSource]
       /\ linked' = linked \cup {[from |-> ends[1], to |-> ends[2], port |-> l.port]}

MergeLink(s, l) ==
  /\ Due(s, MergeLinkStmt(l))
  /\ ~Refused(l)
  /\ IF PathExists(l) THEN UNCHANGED <<deviceId, deviceFrom, linked>> ELSE MakePath(l)
  /\ Executed(s, MergeLinkStmt(l))
  /\ UNCHANGED <<lastSynced, member>>

RaiseNullPort(s, l) ==
  /\ Due(s, MergeLinkStmt(l))
  /\ Refused(l)
  /\ Stopped(s)

Orphan(u) == deviceId[u] # NoDevice /\ \A e \in member : e[1] # u

NoDetachBug(e) == TRUE
Survives(e)    == ~Orphan(e.from) /\ ~Orphan(e.to)

DeleteOrphans(s) ==
  /\ Due(s, DeleteOrphansStmt)
  /\ deviceId' = [u \in Node |-> IF Orphan(u) THEN NoDevice ELSE deviceId[u]]
  /\ deviceFrom' = [u \in Node |-> IF Orphan(u) THEN NoSource ELSE deviceFrom[u]]
  /\ linked' = {e \in linked : Survives(e)}
  /\ Executed(s, DeleteOrphansStmt)
  /\ UNCHANGED <<lastSynced, member>>

-----------------------------------------------------------------------------
Init ==
  /\ published = {}
  /\ lastSynced = [n \in Network |-> 0]
  /\ deviceId = [u \in Node |-> NoDevice]
  /\ deviceFrom = [u \in Node |-> NoSource]
  /\ member = {} /\ linked = {}
  /\ pc = [s \in Syncer |-> "idle"]
  /\ queue = [s \in Syncer |-> {}]
  /\ doc = [s \in Syncer |-> NoDocument]
  /\ todo = [s \in Syncer |-> {}]
  /\ undisturbed = [s \in Syncer |-> FALSE]

(* A step of a running loop.                                               *)
Pass(s) ==
  \/ \E d \in queue[s] : Skip(s, d) \/ Begin(s, d) \/ RaiseUnreadable(s, d)
  \/ MergeNetwork(s)
  \/ DropMembership(s)
  \/ \E x \in Device : MergeDevice(s, x) \/ JoinNetwork(s, x)
  \/ \E l \in Link : MergeLink(s, l) \/ RaiseNullPort(s, l)
  \/ DeleteOrphans(s)
  \/ Finish(s)

Next ==
  \/ \E n \in Network : Poll(n)
  \/ \E s \in Syncer : Start(s) \/ Pass(s) \/ Cut(s)

Spec == Init /\ [][Next]_vars

(* Databases answer, and the sync is run again and again (the CLI is made  *)
(* to be scheduled): nothing in the code triggers it.                      *)
Fairness == \A s \in Syncer : WF_vars(Start(s)) /\ WF_vars(Pass(s))
FairSpec == Spec /\ Fairness

-----------------------------------------------------------------------------
GraphTypeOK ==
  /\ published \subseteq Document
  /\ lastSynced \in [Network -> 0..MaxAsOf]
  /\ deviceId \in [Node -> Device \cup {NoDevice}]
  /\ deviceFrom \in [Node -> (Network \X AsOf) \cup {NoSource}]
  /\ member \subseteq Node \X Network
  /\ linked \subseteq [from : Node, to : Node, port : Port]

LoopTypeOK ==
  /\ pc \in [Syncer -> {"idle", "syncing"}]
  /\ queue \in [Syncer -> SUBSET published]
  /\ doc \in [Syncer -> published \cup {NoDocument}]
  /\ DOMAIN todo = Syncer
  /\ \A s \in Syncer : todo[s] # {} =>
       doc[s] \in published /\ todo[s] \subseteq Rebuild(doc[s])
  /\ undisturbed \in [Syncer -> BOOLEAN]
  /\ \A s \in Syncer : undisturbed[s] => doc[s] \in published

(* The shape of the graph and of the loops; a loop only ever holds         *)
(* documents that Elasticsearch returned, and statements of the one it is  *)
(* rebuilding.                                                             *)
TypeOK == GraphTypeOK /\ LoopTypeOK

-----------------------------------------------------------------------------
(* Properties.                                                             *)

MembersOf(n)  == {deviceId[e[1]] : e \in {m \in member : m[2] = n}}
Rebuilding(n) == \E s \in Syncer : todo[s] # {} /\ doc[s].network = n

Projected(d) ==
  /\ lastSynced[d.network] = d.asOf
  /\ MembersOf(d.network) = d.nodes
  /\ \A e \in member : e[2] = d.network => deviceFrom[e[1]] = <<d.network, d.asOf>>
  /\ \A u \in Node : ~Orphan(u)

(* A rebuild that ran to its last statement while no other syncer wrote    *)
(* leaves exactly its document in the graph - the devices of the network,  *)
(* their properties, its timestamp, no orphan - whatever crashes, races    *)
(* and half-finished rebuilds had made of the graph before it began.       *)
UndisturbedRebuildProjects ==
  \A s \in Syncer : undisturbed[s] /\ todo[s] = {} => Projected(doc[s])

(* No edge is made up and none dangles, in any interleaving and after any  *)
(* crash: an IN_NETWORK edge is of a device that some topology of that     *)
(* very network listed, a LINKED_TO edge joins two existing nodes that     *)
(* some topology linked through those ports.                               *)
EdgesComeFromTopology ==
  /\ \A e \in member : \E d \in published :
       d.network = e[2] /\ deviceId[e[1]] \in d.nodes
  /\ \A e \in linked : \E d \in published :
       [source |-> deviceId[e.from], target |-> deviceId[e.to], port |-> e.port] \in d.links

(* last_synced_at is 0 or the timestamp of a topology that Elasticsearch   *)
(* did hold for that network: the freshness marker never runs ahead.       *)
LastSyncedWasPublished ==
  \A n \in Network : lastSynced[n] = 0 \/
    \E d \in published : d.network = n /\ d.asOf = lastSynced[n]

(* "last_synced_at tracks the latest topology @timestamp that was          *)
(* successfully projected" (domain/graph.py): between rebuilds, a network  *)
(* holds the devices of the topology its timestamp names.  It needs that   *)
(* one syncer runs at a time and that none is cut.                         *)
LastSyncedWasProjected ==
  \A n \in Network : \A d \in published :
    ~Rebuilding(n) /\ d.network = n /\ d.asOf = lastSynced[n] => MembersOf(n) = d.nodes

(* One Device node per id, between rebuilds: what MERGE (d:Device {id})    *)
(* is written for, and what the impact walk counts on.                     *)
OneNodePerDevice ==
  (\A s \in Syncer : todo[s] = {}) =>
    \A u, w \in Node : deviceId[u] = deviceId[w] => u = w \/ deviceId[u] = NoDevice

(* A rebuild is many transactions and may be cut after any of them, and    *)
(* still a reader never meets a mix of two topologies: the devices of a    *)
(* network are all listed by one topology, which is no newer than what the *)
(* network is marked with.  It needs that one syncer runs at a time.       *)
NetworksAreNeverMixed ==
  \A n \in Network : MembersOf(n) # {} =>
    \E d \in published : d.network = n /\ d.asOf <= lastSynced[n] /\ MembersOf(n) \subseteq d.nodes

(* "rebuilds the subgraph only when ES is newer" (admin_sync_router.py):   *)
(* the decision was taken on a read, it must still be right at the write,  *)
(* so that the timestamp of a network never moves backwards.  It needs     *)
(* that one syncer runs at a time.                                         *)
RebuildOnlyWhenNewer ==
  [][\A n \in Network : lastSynced'[n] >= lastSynced[n]]_vars

(* "LINKED_TO from topology links" (ADR 0002, test_graph_sync.py): after   *)
(* a complete undisturbed rebuild the links of the document are there.     *)
LinksAreProjected ==
  \A s \in Syncer : undisturbed[s] /\ todo[s] = {} =>
    \A l \in doc[s].links : PathExists(l)

(* What the projection promises to a reader of the marker: TopologyFreshness. *)
LatestAsOf(n) == IF \E d \in Current : d.network = n
                 THEN (CHOOSE d \in Current : d.network = n).asOf ELSE 0
Freshness == INSTANCE TopologyFreshness WITH
               polled <- [n \in Network |-> LatestAsOf(n)], synced <- lastSynced
FreshnessSpec == Freshness!Spec

(* FreshnessSpec without its fairness, which one loop keeps even when it   *)
(* is cut: a cut costs a topology, and never moves the marker back or past *)
(* the poll.                                                               *)
FreshnessSafety ==
  Freshness!Init /\ [][Freshness!Next]_<<[n \in Network |-> LatestAsOf(n)], lastSynced>>
=============================================================================
