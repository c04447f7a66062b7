------------------------ MODULE ImpactAnalysis_proofs ------------------------
(***************************************************************************)
(* Theorems about ImpactAnalysis for any number of requests in flight, on  *)
(* the graph of GraphSync with any number of syncers, any of which may be  *)
(* cut.                                                                    *)
(***************************************************************************)
EXTENDS ImpactAnalysis, GraphSync_proofs, WellFoundedInduction

-----------------------------------------------------------------------------
(* The graph a request may meet.  A network that has a device has a marker,*)
(* however many rebuilds are running: the marker is a rebuild's first      *)
(* statement and is never taken back.                                      *)
MembersAreMarked == \A e \in member : lastSynced[e[2]] # 0
RebuildsMarked   == \A s \in Syncer : todo[s] # {} /\ MergeNetworkStmt \notin todo[s]
                                        => lastSynced[doc[s].network] # 0

GraphInv == /\ TypeOK /\ LastSyncedWasPublished /\ EdgesComeFromTopology
            /\ MembersAreMarked /\ RebuildsMarked

LEMMA MarksStay ==
  ASSUME TypeOK, [Next]_vars
  PROVE  \A n \in Network : lastSynced[n] # 0 => lastSynced'[n] # 0
<1>1. CASE UNCHANGED lastSynced
  BY <1>1
<1>2. ASSUME NEW s \in Syncer, MergeNetwork(s)
      PROVE  \A n \in Network : lastSynced[n] # 0 => lastSynced'[n] # 0
  <2>1. doc[s].asOf \in AsOf
    BY <1>2, DocumentInHand DEF MergeNetwork, Due
  <2>2. lastSynced' = [lastSynced EXCEPT ![doc[s].network] = doc[s].asOf]
    BY <1>2 DEF MergeNetwork, Mark
  <2>3. QED
    BY <2>1, <2>2, NetworkAssumption DEF AsOf, TypeOK, GraphTypeOK
<1>3. QED
  BY <1>1, <1>2, StepCases
     DEF Poll, Start, Finish, Stopped, Skip, Begin, DropMembership, MergeDevice,
         JoinNetwork, MergeLink, DeleteOrphans, Executed, graph, vars

LEMMA RebuildsMarkedStep ==
  ASSUME TypeOK, RebuildsMarked, [Next]_vars
  PROVE  RebuildsMarked'
<1> SUFFICES ASSUME NEW s \in Syncer, todo'[s] # {}, MergeNetworkStmt \notin todo'[s]
             PROVE  lastSynced'[doc'[s].network] # 0
  BY DEF RebuildsMarked
<1>1. CASE doc'[s] = doc[s] /\ todo[s] # {} /\ MergeNetworkStmt \notin todo[s]
  <2>1. doc[s].network \in Network
    BY <1>1, DocumentInHand
  <2>2. QED
    BY <1>1, <2>1, MarksStay DEF RebuildsMarked
<1>2. ASSUME NEW st, NEW t \in Syncer, Due(t, st), Executed(t, st), st # MergeNetworkStmt
      PROVE  doc'[s] = doc[s] /\ todo[s] # {} /\ MergeNetworkStmt \notin todo[s]
  BY <1>2 DEF Executed, Due, TypeOK, LoopTypeOK
<1>3. ASSUME NEW t \in Syncer, MergeNetwork(t) PROVE lastSynced'[doc'[s].network] # 0
  <2>1. /\ doc' = doc /\ MergeNetworkStmt \in todo[t]
        /\ todo' = [todo EXCEPT ![t] = todo[t] \ {MergeNetworkStmt}]
        /\ lastSynced' = [lastSynced EXCEPT ![doc[t].network] = doc[t].asOf]
    BY <1>3 DEF MergeNetwork, Due, Executed, Mark
  <2>2. CASE s = t
    <3>1. doc[t].asOf \in AsOf /\ doc[t].network \in Network
      BY <2>1, DocumentInHand
    <3>2. QED
      BY <2>1, <2>2, <3>1, NetworkAssumption DEF AsOf, TypeOK, GraphTypeOK
  <2>3. CASE s # t
    BY <1>1, <2>1, <2>3 DEF TypeOK, LoopTypeOK
  <2>4. QED
    BY <2>2, <2>3
<1>4. ASSUME NEW t \in Syncer, NEW d \in queue[t], Begin(t, d)
      PROVE  lastSynced'[doc'[s].network] # 0
  <2>1. /\ doc' = [doc EXCEPT ![t] = d] /\ todo' = [todo EXCEPT ![t] = Rebuild(d)]
    BY <1>4 DEF Begin
  <2>2. s # t
    BY <2>1, RebuildHas DEF TypeOK, LoopTypeOK
  <2>3. QED
    BY <1>1, <2>1, <2>2 DEF TypeOK, LoopTypeOK
<1>5. ASSUME NEW t \in Syncer, Stopped(t) PROVE lastSynced'[doc'[s].network] # 0
  BY <1>1, <1>5 DEF Stopped, TypeOK, LoopTypeOK
<1>6. CASE UNCHANGED <<doc, todo>>
  BY <1>1, <1>6
<1>7. /\ DropMembershipStmt # MergeNetworkStmt /\ DeleteOrphansStmt # MergeNetworkStmt
      /\ \A x : MergeDeviceStmt(x) # MergeNetworkStmt /\ JoinNetworkStmt(x) # MergeNetworkStmt
      /\ \A l : MergeLinkStmt(l) # MergeNetworkStmt
  BY Stages
<1>8. ASSUME NEW t \in Syncer, DropMembership(t) \/ DeleteOrphans(t)
      PROVE  lastSynced'[doc'[s].network] # 0
  BY <1>1, <1>2, <1>7, <1>8 DEF DropMembership, DeleteOrphans
<1>9. ASSUME NEW t \in Syncer, NEW x, MergeDevice(t, x) \/ JoinNetwork(t, x) \/ MergeLink(t, x)
      PROVE  lastSynced'[doc'[s].network] # 0
  BY <1>1, <1>2, <1>7, <1>9 DEF MergeDevice, JoinNetwork, MergeLink
<1>10. QED
  BY <1>3, <1>4, <1>5, <1>6, <1>8, <1>9, StepCases
     DEF Poll, Start, Finish, Skip, loop, vars

LEMMA MembersAreMarkedStep ==
  ASSUME TypeOK, MembersAreMarked, RebuildsMarked, [Next]_vars
  PROVE  MembersAreMarked'
<1>1. CASE member' \subseteq member
  BY <1>1, MarksStay DEF MembersAreMarked, TypeOK, GraphTypeOK
<1>2. ASSUME NEW s \in Syncer, NEW x \in Device, JoinNetwork(s, x) PROVE MembersAreMarked'
  <2>1. /\ JoinNetworkStmt(x) \in todo[s] /\ UNCHANGED lastSynced
        /\ \A other \in todo[s] : Stage(JoinNetworkStmt(x)) <= Stage(other)
        /\ member' = member \cup {<<u, doc[s].network>> : u \in Matching(x)}
    BY <1>2 DEF JoinNetwork, Due
  <2>2. MergeNetworkStmt \notin todo[s]
    BY <2>1, Stages
  <2>3. lastSynced[doc[s].network] # 0
    BY <2>1, <2>2 DEF RebuildsMarked
  <2>4. QED
    BY <2>1, <2>3 DEF MembersAreMarked
<1>3. QED
  BY <1>1, <1>2, StepCases
     DEF Poll, Start, Finish, Stopped, Skip, Begin, MergeNetwork, DropMembership, MergeDevice,
         MergeLink, DeleteOrphans, graph, vars

LEMMA GraphInit == Init => GraphInv
BY TypeInit DEF Init, GraphInv, LastSyncedWasPublished, EdgesComeFromTopology,
                MembersAreMarked, RebuildsMarked

LEMMA GraphStep == GraphInv /\ [Next]_vars => GraphInv'
BY TypeStep, MarkStep, EdgesStep, MembersAreMarkedStep, RebuildsMarkedStep DEF GraphInv

-----------------------------------------------------------------------------
(* The walk.  A hop joins two devices that some topology has linked, so a  *)
(* set of devices closed under the links has both or none.                 *)
LEMMA HopIsALink ==
  ASSUME TypeOK, EdgesComeFromTopology, NEW h \in Hops
  PROVE  /\ deviceId[h.from] \in Device /\ deviceId[h.to] \in Device
         /\ \A S : Closed(S) => (deviceId[h.from] \in S <=> deviceId[h.to] \in S)
<1>1. PICK e \in linked : \/ h.from = e.from /\ h.to = e.to
                          \/ h.from = e.to /\ h.to = e.from
  BY DEF Hops
<1>2. PICK d \in published :
        [source |-> deviceId[e.from], target |-> deviceId[e.to], port |-> e.port] \in d.links
  BY DEF EdgesComeFromTopology
<1>3. d.links \subseteq Link
  BY DEF TypeOK, GraphTypeOK, Document
<1>4. deviceId[e.from] \in Device /\ deviceId[e.to] \in Device
  BY <1>2, <1>3 DEF Link
<1>5. \A S : Closed(S) => (deviceId[e.from] \in S <=> deviceId[e.to] \in S)
  BY <1>2 DEF Closed
<1>6. QED
  BY <1>1, <1>4, <1>5

(* A set of numbers that is not empty has a least one.                     *)
LEMMA LeastNumber ==
  ASSUME NEW T, T \subseteq Nat, T # {}
  PROVE  \E i \in T : \A j \in T : i <= j
<1> DEFINE Less == {p \in Nat \X Nat : p[1] < p[2]}
<1>1. IsWellFoundedOn(Less, Nat)
  BY NatLessThanWellFounded, Zenon DEF OpToRel
<1>2. PICK i \in T : \A j \in T : <<j, i>> \notin Less
  BY <1>1, WFMin, Zenon
<1>3. ASSUME NEW j \in T PROVE i <= j
  <2>1. i \in Nat /\ j \in Nat /\ <<j, i>> \notin Less
    BY <1>2
  <2>2. ~(j < i)
    BY <2>1
  <2>3. QED
    BY <2>1, <2>2
<1>4. QED
  BY <1>3

(* A trail does not leave such a set: look at the first hop that would.    *)
LEMMA TrailStaysInside ==
  ASSUME TypeOK, EdgesComeFromTopology, NEW x \in Device, NEW k \in Nat, NEW t \in Trails(x, k),
         NEW S, Closed(S), x \in S
  PROVE  deviceId[End(t)] \in S
<1>1. PICK n \in 1..k : t \in [1..n -> Hops]
  BY DEF Trails
<1>2. Len(t) = n /\ n \in Nat /\ 1 \in 1..n
  BY <1>1
<1>3. /\ deviceId[t[1].from] = x
      /\ \A i \in 2..n : t[i].from = t[i - 1].to
  BY <1>2 DEF Trails, Matching
<1> DEFINE Outside == {i \in 1..n : deviceId[t[i].to] \notin S}
<1>4. Outside = {}
  <2>1. SUFFICES ASSUME Outside # {} PROVE FALSE
    OBVIOUS
  <2>2. PICK i \in Outside : \A j \in Outside : i <= j
    <3>1. Outside \subseteq Nat
      BY <1>2
    <3>2. QED
      BY <2>1, <3>1, LeastNumber, Zenon
  <2>3. deviceId[t[i].from] \in S
    <3>1. CASE i = 1
      BY <3>1, <1>3
    <3>2. CASE i # 1
      <4>1. i - 1 \in 1..n /\ i - 1 \notin Outside /\ i \in 2..n
        BY <2>2, <3>2, <1>2
      <4>2. deviceId[t[i - 1].to] \in S
        BY <4>1
      <4>3. QED
        BY <4>1, <4>2, <1>3
    <3>3. QED
      BY <3>1, <3>2
  <2>4. t[i] \in Hops
    BY <1>1
  <2>5. deviceId[t[i].to] \in S
    BY <2>3, <2>4, HopIsALink
  <2>6. QED
    BY <2>5
<1>5. QED
  BY <1>2, <1>4 DEF End

(* A walk, and a search across a port, report connected devices.           *)
LEMMA RowsAreConnected ==
  ASSUME TypeOK, EdgesComeFromTopology, NEW x \in Device, NEW k \in Nat,
         NEW row \in ImpactRows(x, k)
  PROVE  row.id \in Device /\ Connected(x, row.id)
<1>1. PICK t \in Trails(x, k) : row.id = deviceId[End(t)]
  BY DEF ImpactRows
<1>2. deviceId[End(t)] \in Device
  <2>1. PICK n \in 1..k : t \in [1..n -> Hops]
    BY DEF Trails
  <2>2. Len(t) = n /\ n \in 1..n
    BY <2>1
  <2>3. t[n] \in Hops
    BY <2>1, <2>2
  <2>4. QED
    BY <2>2, <2>3, HopIsALink DEF End
<1>3. Connected(x, deviceId[End(t)])
  BY TrailStaysInside DEF Connected
<1>4. QED
  BY <1>1, <1>2, <1>3

LEMMA PeersAreConnected ==
  ASSUME TypeOK, EdgesComeFromTopology, NEW x \in Device, NEW i, NEW y \in Peers(x, i)
  PROVE  y \in Device /\ Connected(x, y)
<1>1. PICK h \in Hops : deviceId[h.from] = x /\ deviceId[h.to] = y
  BY DEF Peers
<1>2. QED
  BY <1>1, HopIsALink DEF Connected

(* What is published stays so, and the connections with it.                *)
LEMMA PublishedGrows ==
  ASSUME [Next]_vars
  PROVE  published \subseteq published'
BY StepCases DEF Poll, Start, Finish, Stopped, Skip, Begin, MergeNetwork, DropMembership,
                 MergeDevice, JoinNetwork, MergeLink, DeleteOrphans, Executed, vars

LEMMA ConnectedStays ==
  ASSUME published \subseteq published', NEW x, NEW y, Connected(x, y)
  PROVE  Connected(x, y)'
<1>1. \A S : Closed(S)' => Closed(S)
  BY DEF Closed
<1>2. QED
  BY <1>1 DEF Connected

-----------------------------------------------------------------------------
(* What a request holds at each step: nothing before its walk, a seed that *)
(* is connected to what was asked for from there on, rows that are, and a  *)
(* freshness that some topology of a network of the seed has had.          *)
FreshnessOf(x, v) == \E d, e \in published : d.asOf = v /\ e.network = d.network /\ x \in e.nodes

Clean(r)  == at[r] \in {"idle", "neighbor", "walk"} => rows[r] = {} /\ as_of[r] = NoAsOf
Seeded(r) == /\ at[r] \in {"neighbor", "walk", "freshness"} => asked[r] \in Device
             /\ at[r] \in {"walk", "freshness"} => Connected(asked[r], start[r])
Shown(r)  == /\ \A row \in rows[r] : Connected(asked[r], row.id)
             /\ as_of[r] # NoAsOf => FreshnessOf(start[r], as_of[r])

ReadInv   == ReadsTypeOK /\ \A r \in Reader : Clean(r) /\ Seeded(r) /\ Shown(r)
ImpactInv == GraphInv /\ ReadInv

(* The marker of a network of a device is of a topology of that network.   *)
LEMMA MarkerIsFresh ==
  ASSUME GraphInv, NEW x \in Device, NEW v \in FreshnessRows(x)
  PROVE  v \in AsOf /\ FreshnessOf(x, v)
<1>1. PICK u \in Matching(x) : \E n \in NetworksOf(u) : v = lastSynced[n]
  BY DEF FreshnessRows
<1>2. PICK e \in member : e[1] = u /\ v = lastSynced[e[2]]
  BY <1>1 DEF NetworksOf
<1>3. deviceId[e[1]] = x /\ e[2] \in Network
  BY <1>1, <1>2 DEF Matching, GraphInv, TypeOK, GraphTypeOK
<1>4. PICK listed \in published : listed.network = e[2] /\ x \in listed.nodes
  BY <1>3 DEF GraphInv, EdgesComeFromTopology
<1>5. v # 0
  BY <1>2 DEF GraphInv, MembersAreMarked
<1>6. PICK d \in published : d.network = e[2] /\ d.asOf = v
  BY <1>2, <1>3, <1>5 DEF GraphInv, LastSyncedWasPublished
<1>7. d.asOf \in AsOf
  BY DEF GraphInv, TypeOK, GraphTypeOK, Document
<1>8. QED
  BY <1>4, <1>6, <1>7 DEF FreshnessOf

(* A step of one request leaves the others as they are.                    *)
LEMMA OthersKeep ==
  ASSUME ReadInv, NEW r \in Reader, UNCHANGED published, NEW s \in Reader, s # r,
         /\ at'[s] = at[s] /\ asked'[s] = asked[s] /\ start'[s] = start[s]
         /\ rows'[s] = rows[s] /\ as_of'[s] = as_of[s]
  PROVE  (Clean(s) /\ Seeded(s) /\ Shown(s))'
<1>1. \A x, y : Connected(x, y)' <=> Connected(x, y)
  BY DEF Connected, Closed
<1>2. \A x, v : FreshnessOf(x, v)' <=> FreshnessOf(x, v)
  BY DEF FreshnessOf
<1>3. QED
  BY <1>1, <1>2 DEF ReadInv, Clean, Seeded, Shown

(* Each step of a request.                                                 *)
LEMMA ReadsStep ==
  ASSUME ImpactInv, NEW r \in Reader, Reads(r)
  PROVE  ReadInv'
<1> USE DEF ImpactInv, ReadInv
<1>0. /\ TypeOK /\ EdgesComeFromTopology /\ ReadsTypeOK
      /\ Clean(r) /\ Seeded(r) /\ Shown(r)
  BY DEF GraphInv
<1>1. /\ \A x, y : Connected(x, y)' <=> Connected(x, y)
      /\ \A x, v : FreshnessOf(x, v)' <=> FreshnessOf(x, v)
      /\ UNCHANGED published
  <2>1. UNCHANGED published
    BY DEF Reads, AskDevice, AskUplink, AskNothing, FindNeighbor, Walk, ReadFreshness, Answer, vars
  <2>2. QED
    BY <2>1 DEF Connected, Closed, FreshnessOf
<1>2. \A s \in Reader \ {r} :
        /\ at'[s] = at[s] /\ asked'[s] = asked[s] /\ start'[s] = start[s]
        /\ rows'[s] = rows[s] /\ as_of'[s] = as_of[s]
  BY <1>0 DEF Reads, AskDevice, AskUplink, AskNothing, FindNeighbor, Walk, ReadFreshness, Answer,
              Move, ReadsTypeOK
<1>3. \A s \in Reader \ {r} : (Clean(s) /\ Seeded(s) /\ Shown(s))'
  BY <1>1, <1>2, OthersKeep
<1>4. SUFFICES ReadsTypeOK' /\ (Clean(r) /\ Seeded(r) /\ Shown(r))'
  BY <1>3
<1> USE DEF Move, Clean, Seeded, Shown
<1>5. ASSUME NEW x \in Device, NEW k \in Depth, AskDevice(r, x, k)
      PROVE  ReadsTypeOK' /\ (Clean(r) /\ Seeded(r) /\ Shown(r))'
  <2>1. Connected(x, x)
    BY DEF Connected
  <2>2. (IF k = 0 THEN DefaultDepth ELSE k) \in Nat
    BY ReaderAssumption
  <2>3. ReadsTypeOK'
    BY <1>0, <1>5, <2>2 DEF AskDevice, ReadsTypeOK, vars, graph
  <2>4. (Clean(r) /\ Seeded(r) /\ Shown(r))'
    BY <1>0, <1>1, <1>5, <2>1 DEF AskDevice, ReadsTypeOK
  <2>5. QED
    BY <2>3, <2>4
<1>6. ASSUME NEW x \in Device, NEW i \in Interface, NEW k \in Depth, AskUplink(r, x, i, k)
      PROVE  ReadsTypeOK' /\ (Clean(r) /\ Seeded(r) /\ Shown(r))'
  <2>2. (IF k = 0 THEN DefaultDepth ELSE k) \in Nat
    BY ReaderAssumption
  <2>3. ReadsTypeOK'
    BY <1>0, <1>6, <2>2 DEF AskUplink, ReadsTypeOK
  <2>4. (Clean(r) /\ Seeded(r) /\ Shown(r))'
    BY <1>0, <1>1, <1>6 DEF AskUplink, ReadsTypeOK
  <2>5. QED
    BY <2>3, <2>4
<1>7. ASSUME AskNothing(r)
      PROVE  ReadsTypeOK' /\ (Clean(r) /\ Seeded(r) /\ Shown(r))'
  BY <1>0, <1>1, <1>7 DEF AskNothing, ReadsTypeOK
<1>8. ASSUME FindNeighbor(r)
      PROVE  ReadsTypeOK' /\ (Clean(r) /\ Seeded(r) /\ Shown(r))'
  <2>1. \A x \in Peers(asked[r], via[r]) : x \in Device /\ Connected(asked[r], x)
    BY <1>0, <1>8, PeersAreConnected DEF FindNeighbor
  <2>2. ReadsTypeOK'
    BY <1>0, <1>8, <2>1 DEF FindNeighbor, ReadsTypeOK
  <2>3. (Clean(r) /\ Seeded(r) /\ Shown(r))'
    BY <1>0, <1>1, <1>8, <2>1 DEF FindNeighbor, ReadsTypeOK
  <2>4. QED
    BY <2>2, <2>3
<1>9. ASSUME Walk(r)
      PROVE  ReadsTypeOK' /\ (Clean(r) /\ Seeded(r) /\ Shown(r))'
  <2>1. start[r] \in Device /\ depth[r] \in Nat /\ Connected(asked[r], start[r])
    BY <1>0, <1>9 DEF Walk, ReadsTypeOK
  <2>2. \A row \in ImpactRows(start[r], depth[r]) : row.id \in Device /\ Connected(start[r], row.id)
    BY <1>0, <2>1, RowsAreConnected
  <2>3. \A y : Connected(start[r], y) => Connected(asked[r], y)
    BY <2>1 DEF Connected
  <2>4. /\ rows' = [rows EXCEPT ![r] = ImpactRows(start[r], depth[r])]
        /\ rows'[r] = ImpactRows(start[r], depth[r])
    BY <1>0, <1>9 DEF Walk, ReadsTypeOK
  <2>5. ReadsTypeOK'
    BY <1>0, <1>9, <2>1, <2>2, <2>4 DEF Walk, ReadsTypeOK
  <2>6. (Clean(r) /\ Seeded(r) /\ Shown(r))'
    BY <1>0, <1>1, <1>9, <2>2, <2>3, <2>4 DEF Walk, ReadsTypeOK
  <2>7. QED
    BY <2>5, <2>6
<1>10. ASSUME ReadFreshness(r)
       PROVE  ReadsTypeOK' /\ (Clean(r) /\ Seeded(r) /\ Shown(r))'
  <2>1. start[r] \in Device
    BY <1>0, <1>10 DEF ReadFreshness, ReadsTypeOK
  <2>2. PICK v \in (FreshnessRows(start[r]) \cup {NoAsOf}) : as_of' = [as_of EXCEPT ![r] = v]
    BY <1>10 DEF ReadFreshness
  <2>3. v # NoAsOf => v \in AsOf /\ FreshnessOf(start[r], v)
    BY <2>1, <2>2, MarkerIsFresh
  <2>4. ReadsTypeOK'
    BY <1>0, <1>10, <2>2, <2>3 DEF ReadFreshness, ReadsTypeOK
  <2>5. (Clean(r) /\ Seeded(r) /\ Shown(r))'
    BY <1>0, <1>1, <1>10, <2>2, <2>3 DEF ReadFreshness, ReadsTypeOK
  <2>6. QED
    BY <2>4, <2>5
<1>11. ASSUME Answer(r)
       PROVE  ReadsTypeOK' /\ (Clean(r) /\ Seeded(r) /\ Shown(r))'
  <2>1. ReadsTypeOK'
    BY <1>0, <1>11 DEF Answer, ReadsTypeOK
  <2>2. (Clean(r) /\ Seeded(r) /\ Shown(r))'
    BY <1>0, <1>11 DEF Answer, ReadsTypeOK
  <2>3. QED
    BY <2>1, <2>2
<1>12. QED
  BY <1>5, <1>6, <1>7, <1>8, <1>9, <1>10, <1>11 DEF Reads

(* A step of the syncers and the poller under the requests in flight.      *)
LEMMA GraphUnderReads ==
  ASSUME ImpactInv, [Next]_vars, UNCHANGED reads
  PROVE  ReadInv'
<1>1. published \subseteq published'
  BY PublishedGrows
<1>2. \A x, y : Connected(x, y) => Connected(x, y)'
  BY <1>1, ConnectedStays
<1>3. \A x, v : FreshnessOf(x, v) => FreshnessOf(x, v)'
  BY <1>1 DEF FreshnessOf
<1>4. ReadsTypeOK'
  BY DEF ImpactInv, ReadInv, ReadsTypeOK, reads
<1>5. ASSUME NEW r \in Reader PROVE (Clean(r) /\ Seeded(r) /\ Shown(r))'
  BY <1>2, <1>3 DEF ImpactInv, ReadInv, reads, Clean, Seeded, Shown
<1>6. QED
  BY <1>4, <1>5 DEF ReadInv

LEMMA ImpactInvInit == ImpactInit => ImpactInv
BY GraphInit, ReaderAssumption
   DEF ImpactInit, ImpactInv, ReadInv, ReadsTypeOK, Clean, Seeded, Shown

LEMMA ImpactInvStep == ImpactInv /\ [ImpactNext]_allVars => ImpactInv'
<1> SUFFICES ASSUME ImpactInv, [ImpactNext]_allVars PROVE ImpactInv'
  OBVIOUS
<1>1. [Next]_vars
  BY DEF ImpactNext, Reads, AskDevice, AskUplink, AskNothing, FindNeighbor, Walk, ReadFreshness,
         Answer, allVars
<1>2. GraphInv'
  BY <1>1, GraphStep DEF ImpactInv
<1>3. CASE UNCHANGED reads
  BY <1>1, <1>2, <1>3, GraphUnderReads DEF ImpactInv
<1>4. CASE \E r \in Reader : Reads(r)
  BY <1>2, <1>4, ReadsStep DEF ImpactInv
<1>5. QED
  BY <1>3, <1>4 DEF ImpactNext, allVars

-----------------------------------------------------------------------------
(* Requests carry what their step needs, and a freshness that is returned  *)
(* is a timestamp: a device of a network always finds it marked.           *)
THEOREM ReadsTypeCorrect == ImpactSpec => []ReadsTypeOK
<1>1. ImpactInv => ReadsTypeOK
  BY DEF ImpactInv, ReadInv
<1>2. QED
  BY <1>1, ImpactInvInit, ImpactInvStep, PTL DEF ImpactSpec

(* Whatever rebuilds, crashes and races do to the graph while a request    *)
(* walks it, a device that is reported is connected to the device that was *)
(* asked for (_impact_cypher, impact_from_uplink).                         *)
THEOREM ReportsAreConnected == ImpactSpec => []ImpactIsConnected
<1>1. ImpactInv => ImpactIsConnected
  BY DEF ImpactInv, ReadInv, Shown, ImpactIsConnected
<1>2. QED
  BY <1>1, ImpactInvInit, ImpactInvStep, PTL DEF ImpactSpec

(* The freshness of an answer is a topology's of a network of the walk's   *)
(* first device, though it is read after the walk.                         *)
THEOREM FreshnessIsReal == ImpactSpec => []FreshnessIsOfTheSeed
<1>1. ImpactInv => FreshnessIsOfTheSeed
  BY DEF ImpactInv, ReadInv, Shown, FreshnessOf, FreshnessIsOfTheSeed
<1>2. QED
  BY <1>1, ImpactInvInit, ImpactInvStep, PTL DEF ImpactSpec

-----------------------------------------------------------------------------
(* The links in the graph.  MERGE of a path whose ends are not bound makes *)
(* both of its ends, so that no two edges meet.                            *)
LinksStandAlone ==
  \A e, f \in linked : e # f => {e.from, e.to} \cap {f.from, f.to} = {}

LEMMA LinksStandAloneStep ==
  ASSUME TypeOK, EdgesComeFromTopology, LinksStandAlone, [Next]_vars
  PROVE  LinksStandAlone'
<1>1. CASE linked' \subseteq linked
  BY <1>1 DEF LinksStandAlone
<1>2. ASSUME NEW l, FreePairs # {}, MakePath(l) PROVE LinksStandAlone'
  <2> DEFINE ends == CHOOSE e \in FreePairs : TRUE
             new  == [from |-> ends[1], to |-> ends[2], port |-> l.port]
  <2>1. linked' = linked \cup {new}
    BY <1>2 DEF MakePath
  <2>2. deviceId[ends[1]] = NoDevice /\ deviceId[ends[2]] = NoDevice
    BY <1>2, FreshEnds
  <2>3. new.from = ends[1] /\ new.to = ends[2]
    OBVIOUS
  <2> HIDE DEF ends, new
  <2>4. \A e \in linked : {e.from, e.to} \cap {new.from, new.to} = {}
    BY <2>2, <2>3, EndsExist
  <2>5. QED
    BY <2>1, <2>4 DEF LinksStandAlone
<1>3. ASSUME NEW s \in Syncer, NEW l \in Link, MergeLink(s, l) PROVE LinksStandAlone'
  BY <1>1, <1>2, <1>3 DEF MergeLink, MakePath
<1>4. QED
  BY <1>1, <1>3, StepCases
     DEF Poll, Start, Finish, Stopped, Skip, Begin, MergeNetwork, DropMembership, MergeDevice,
         JoinNetwork, DeleteOrphans, graph, vars

(* So a trail cannot go on after its first edge.                           *)
LEMMA TrailsAreOneHop ==
  ASSUME LinksStandAlone, NEW x, NEW k \in Nat \ {0}
  PROVE  Trails(x, k) = Trails(x, 1)
<1>1. ASSUME NEW n \in 1..k, NEW t \in [1..n -> Hops], t \in Trails(x, k) PROVE n = 1
  <2>1. SUFFICES ASSUME n # 1 PROVE FALSE
    OBVIOUS
  <2>2. Len(t) = n /\ DOMAIN t = 1..n /\ 1 \in 1..n /\ 2 \in 1..n /\ 2 \in 2..Len(t)
    BY <2>1
  <2>3. t[2].from = t[1].to /\ t[1].edge # t[2].edge
    <3>1. /\ \A i \in 2..Len(t) : t[i].from = t[i - 1].to
          /\ \A i, j \in DOMAIN t : t[i].edge = t[j].edge => i = j
      BY <1>1 DEF Trails
    <3>2. t[2].from = t[2 - 1].to
      BY <2>2, <3>1
    <3>3. t[1].edge # t[2].edge
      BY <2>2, <3>1
    <3>4. QED
      BY <3>2, <3>3
  <2>4. t[1] \in Hops /\ t[2] \in Hops
    BY <2>2
  <2>5. /\ t[1].edge \in linked /\ t[1].to \in {t[1].edge.from, t[1].edge.to}
        /\ t[2].edge \in linked /\ t[2].from \in {t[2].edge.from, t[2].edge.to}
    BY <2>4 DEF Hops
  <2> DEFINE e == t[1].edge
             f == t[2].edge
  <2>6. e \in linked /\ f \in linked /\ e # f /\ {e.from, e.to} \cap {f.from, f.to} # {}
    BY <2>3, <2>5
  <2> HIDE DEF e, f
  <2>7. QED
    BY <2>6 DEF LinksStandAlone
<1>2. ASSUME NEW t \in Trails(x, k) PROVE t \in Trails(x, 1)
  <2>1. PICK n \in 1..k : t \in [1..n -> Hops]
    BY DEF Trails
  <2>2. n = 1
    BY <1>1, <2>1
  <2>3. t \in UNION {[1..n1 -> Hops] : n1 \in 1..1}
    BY <2>1, <2>2
  <2>4. QED
    BY <2>3 DEF Trails
<1>3. ASSUME NEW t \in Trails(x, 1) PROVE t \in Trails(x, k)
  <2>1. t \in [1..1 -> Hops] /\ 1 \in 1..k
    BY DEF Trails
  <2>2. t \in UNION {[1..n -> Hops] : n \in 1..k}
    BY <2>1
  <2>3. QED
    BY <2>2 DEF Trails
<1>4. QED
  BY <1>2, <1>3

(* The depth of an analysis, the caller's or default_depth, changes no     *)
(* answer on a graph that the projection has made, in any interleaving of  *)
(* rebuilds: what the fake store's walk finds further out is never found.  *)
DepthIsWithoutEffect ==
  \A x \in Device, k \in Nat \ {0} : ImpactRows(x, k) = ImpactRows(x, 1)

THEOREM DepthNeverMatters == ImpactSpec => []DepthIsWithoutEffect
<1>1. ImpactInit => LinksStandAlone
  BY DEF ImpactInit, Init, LinksStandAlone
<1>2. ImpactInv /\ LinksStandAlone /\ [ImpactNext]_allVars => ImpactInv' /\ LinksStandAlone'
  <2> SUFFICES ASSUME ImpactInv, LinksStandAlone, [ImpactNext]_allVars
               PROVE  ImpactInv' /\ LinksStandAlone'
    OBVIOUS
  <2>1. [Next]_vars
    BY DEF ImpactNext, Reads, AskDevice, AskUplink, AskNothing, FindNeighbor, Walk,
           ReadFreshness, Answer, allVars
  <2>2. QED
    BY <2>1, ImpactInvStep, LinksStandAloneStep DEF ImpactInv, GraphInv
<1>3. LinksStandAlone => DepthIsWithoutEffect
  BY TrailsAreOneHop DEF DepthIsWithoutEffect, ImpactRows
<1>4. QED
  BY <1>1, <1>2, <1>3, ImpactInvInit, PTL DEF ImpactSpec
=============================================================================
