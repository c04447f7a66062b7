------------------------- MODULE ImpactAlone_proofs -------------------------
(***************************************************************************)
(* What an analysis may count on when one loop at a time rebuilds the      *)
(* graph it reads: its freshness is no older than what its rows show, for  *)
(* any number of requests, with a loop that may be cut at any statement    *)
(* and run again between the two reads.                                    *)
(***************************************************************************)
EXTENDS ImpactAnalysis_proofs, GraphSyncAlone_proofs

(* What a node carries is of a topology that its network is marked with,   *)
(* or of an older one; and so is what a row has shown.                     *)
Covers(marks, source) == source[2] <= marks[source[1]]

SourcesAreMarked == \A u \in Node : deviceFrom[u] # NoSource => Covers(lastSynced, deviceFrom[u])
RowsAreMarked    == \A r \in Reader : \A row \in rows[r] : row.source # NoSource =>
                      row.source \in Network \X AsOf /\ Covers(lastSynced, row.source)

BoundsInv == /\ ImpactInv /\ LoopInv
             /\ SourcesAreMarked /\ RowsAreMarked /\ FreshnessBoundsTheRows

-----------------------------------------------------------------------------
(* The graph.                                                              *)

LEMMA MarksAdvance ==
  ASSUME LoopInv, [Next]_vars
  PROVE  \A n \in Network : /\ lastSynced[n] \in Nat /\ lastSynced'[n] \in Nat
                            /\ lastSynced[n] <= lastSynced'[n]
<1>1. \A n \in Network : lastSynced[n] \in Nat
  BY NetworkAssumption DEF LoopInv, TypeOK, GraphTypeOK
<1>2. CASE UNCHANGED lastSynced
  BY <1>1, <1>2
<1>3. ASSUME NEW s \in Syncer, MergeNetwork(s)
      PROVE  \A n \in Network : lastSynced'[n] \in Nat /\ lastSynced[n] <= lastSynced'[n]
  <2>1. /\ MergeNetworkStmt \in todo[s]
        /\ lastSynced' = [lastSynced EXCEPT ![doc[s].network] = doc[s].asOf]
    BY <1>3 DEF MergeNetwork, Due, Mark
  <2>2. doc[s].network \in Network /\ doc[s].asOf \in Nat
    BY <2>1, DocumentInHand, NetworkAssumption DEF LoopInv, AsOf
  <2>3. lastSynced[doc[s].network] < doc[s].asOf
    BY <2>1 DEF LoopInv, Ahead
  <2>4. QED
    BY <1>1, <2>1, <2>2, <2>3 DEF LoopInv, TypeOK, GraphTypeOK
<1>4. QED
  BY <1>1, <1>2, <1>3, StepCases
     DEF Poll, Start, Finish, Stopped, Skip, Begin, DropMembership, MergeDevice, JoinNetwork,
         MergeLink, DeleteOrphans, graph, vars

(* A mark that covered a source still does.                                *)
LEMMA CoversOn ==
  ASSUME LoopInv, [Next]_vars, NEW source \in Network \X AsOf, Covers(lastSynced, source)
  PROVE  Covers(lastSynced', source)
<1>1. source[1] \in Network /\ source[2] \in Nat
  BY NetworkAssumption DEF AsOf
<1>2. /\ lastSynced[source[1]] \in Nat /\ lastSynced'[source[1]] \in Nat
      /\ lastSynced[source[1]] <= lastSynced'[source[1]]
  BY <1>1, MarksAdvance
<1>3. QED
  BY <1>1, <1>2 DEF Covers

(* The device statements of a rebuild come after its mark.                 *)
LEMMA SourcesStep ==
  ASSUME Solo, LoopInv, SourcesAreMarked, [Next]_vars
  PROVE  SourcesAreMarked'
<1>1. ASSUME \A u \in Node : deviceFrom'[u] \in {deviceFrom[u], NoSource}
      PROVE  SourcesAreMarked'
  <2>1. ASSUME NEW u \in Node, deviceFrom'[u] # NoSource
        PROVE  Covers(lastSynced', deviceFrom'[u])
    <3>1. deviceFrom'[u] = deviceFrom[u]
      BY <1>1, <2>1
    <3>2. deviceFrom[u] \in Network \X AsOf /\ Covers(lastSynced, deviceFrom[u])
      BY <2>1, <3>1 DEF SourcesAreMarked, LoopInv, TypeOK, GraphTypeOK
    <3>3. QED
      BY <3>1, <3>2, CoversOn
  <2>2. QED
    BY <2>1 DEF SourcesAreMarked, Covers
<1>2. ASSUME NEW s \in Syncer, NEW x \in Device, MergeDevice(s, x)
      PROVE  SourcesAreMarked'
  <2> DEFINE d == doc[s]
  <2>1. /\ MergeDeviceStmt(x) \in todo[s] /\ MergeNetworkStmt \notin todo[s]
        /\ d.network \in Network /\ d.asOf \in Nat
    BY <1>2, DocumentInHand, NetworkAssumption, Stages DEF MergeDevice, Due, LoopInv, AsOf
  <2>2. lastSynced[d.network] = d.asOf
    BY <2>1 DEF LoopInv, Owned, RebuildInv, Undisturbed, RebuildProgress, MarkDone
  <2>3. /\ UNCHANGED lastSynced
        /\ \A u \in Node : deviceFrom'[u] \in {deviceFrom[u], <<d.network, d.asOf>>}
    BY <1>2 DEF MergeDevice
  <2>4. Covers(lastSynced, <<d.network, d.asOf>>)
    BY <2>1, <2>2 DEF Covers
  <2> HIDE DEF d
  <2>5. QED
    BY <2>3, <2>4 DEF SourcesAreMarked, Covers
<1>3. ASSUME NEW s \in Syncer, NEW l \in Link, MergeLink(s, l)
      PROVE  \A u \in Node : deviceFrom'[u] \in {deviceFrom[u], NoSource}
  <2>1. CASE UNCHANGED deviceFrom
    BY <2>1
  <2>2. CASE MakePath(l)
    BY <2>2 DEF MakePath, LoopInv, TypeOK, GraphTypeOK
  <2>3. QED
    BY <1>3, <2>1, <2>2 DEF MergeLink
<1>4. ASSUME NEW s \in Syncer, DeleteOrphans(s)
      PROVE  \A u \in Node : deviceFrom'[u] \in {deviceFrom[u], NoSource}
  BY <1>4 DEF DeleteOrphans
<1>5. CASE UNCHANGED deviceFrom
  BY <1>1, <1>5
<1>6. QED
  BY <1>1, <1>2, <1>3, <1>4, <1>5, StepCases
     DEF Poll, Start, Finish, Stopped, Skip, Begin, MergeNetwork, DropMembership, JoinNetwork,
         graph, vars

-----------------------------------------------------------------------------
(* The requests.                                                           *)

(* A walk shows what nodes carry.                                          *)
LEMMA RowsShowSources ==
  ASSUME TypeOK, NEW x, NEW k \in Nat, NEW row \in ImpactRows(x, k)
  PROVE  \E u \in Node : row.source = deviceFrom[u]
<1>1. PICK t \in Trails(x, k) : row.source = deviceFrom[End(t)]
  BY DEF ImpactRows
<1>2. PICK n \in 1..k : t \in [1..n -> Hops]
  BY DEF Trails
<1>3. Len(t) = n /\ n \in 1..n
  BY <1>2
<1>4. t[n] \in Hops
  BY <1>2, <1>3
<1>5. t[n].to \in Node
  BY <1>4 DEF Hops, TypeOK, GraphTypeOK
<1>6. QED
  BY <1>1, <1>3, <1>5 DEF End

(* A freshness that is read now bounds all that was shown before.          *)
Bounds(r, v) ==
  \E d, e \in published :
    /\ d.asOf = v
    /\ e.network = d.network /\ start[r] \in e.nodes
    /\ \A row \in rows[r] :
         row.source # NoSource /\ row.source[1] = d.network => row.source[2] <= v

LEMMA FreshnessBounds ==
  ASSUME GraphInv, RowsAreMarked, NEW r \in Reader, NEW v \in FreshnessRows(start[r]),
         start[r] \in Device
  PROVE  Bounds(r, v)
<1>1. PICK u \in Matching(start[r]) : \E n \in NetworksOf(u) : v = lastSynced[n]
  BY DEF FreshnessRows
<1>2. PICK m \in member : m[1] = u /\ v = lastSynced[m[2]]
  BY <1>1 DEF NetworksOf
<1>3. deviceId[m[1]] = start[r] /\ m[2] \in Network
  BY <1>1, <1>2 DEF Matching, GraphInv, TypeOK, GraphTypeOK
<1>4. PICK e \in published : e.network = m[2] /\ start[r] \in e.nodes
  BY <1>3 DEF GraphInv, EdgesComeFromTopology
<1>5. v # 0
  BY <1>2 DEF GraphInv, MembersAreMarked
<1>6. PICK d \in published : d.network = m[2] /\ d.asOf = v
  BY <1>2, <1>3, <1>5 DEF GraphInv, LastSyncedWasPublished
<1>7. \A row \in rows[r] :
        row.source # NoSource /\ row.source[1] = d.network => row.source[2] <= v
  BY <1>2, <1>6 DEF RowsAreMarked, Covers
<1>8. QED
  BY <1>4, <1>6, <1>7 DEF Bounds

(* A bound holds on as long as its request stays where it is.              *)
LEMMA BoundsOn ==
  ASSUME published \subseteq published', NEW r \in Reader,
         FreshnessBoundsTheRows, as_of'[r] # NoAsOf,
         as_of'[r] = as_of[r], start'[r] = start[r], rows'[r] = rows[r]
  PROVE  \E d, e \in published' :
           /\ d.asOf = as_of'[r]
           /\ e.network = d.network /\ start'[r] \in e.nodes
           /\ \A row \in rows'[r] :
                row.source # NoSource /\ row.source[1] = d.network => row.source[2] <= as_of'[r]
BY DEF FreshnessBoundsTheRows

LEMMA ReadBounds ==
  ASSUME BoundsInv, NEW r \in Reader, Reads(r)
  PROVE  RowsAreMarked' /\ FreshnessBoundsTheRows'
<1>1. /\ UNCHANGED <<published, lastSynced>> /\ ReadsTypeOK /\ Clean(r) /\ GraphInv /\ TypeOK
      /\ RowsAreMarked /\ SourcesAreMarked /\ FreshnessBoundsTheRows
  BY DEF Reads, AskDevice, AskUplink, AskNothing, FindNeighbor, Walk, ReadFreshness, Answer,
         vars, graph, BoundsInv, ImpactInv, ReadInv, GraphInv
<1>2. \A s \in Reader \ {r} : start'[s] = start[s] /\ rows'[s] = rows[s] /\ as_of'[s] = as_of[s]
  BY <1>1 DEF Reads, AskDevice, AskUplink, AskNothing, FindNeighbor, Walk, ReadFreshness, Answer,
              Move, ReadsTypeOK
<1>3. \A row \in rows'[r] : row.source # NoSource =>
        row.source \in Network \X AsOf /\ Covers(lastSynced, row.source)
  <2>1. CASE rows'[r] \in {rows[r], {}}
    BY <1>1, <2>1 DEF RowsAreMarked
  <2>2. CASE Walk(r)
    <3>1. rows'[r] = ImpactRows(start[r], depth[r]) /\ depth[r] \in Nat
      BY <1>1, <2>2 DEF Walk, ReadsTypeOK
    <3>2. \A u \in Node : deviceFrom[u] # NoSource =>
            deviceFrom[u] \in Network \X AsOf /\ Covers(lastSynced, deviceFrom[u])
      BY <1>1 DEF SourcesAreMarked, TypeOK, GraphTypeOK
    <3>3. QED
      BY <1>1, <3>1, <3>2, RowsShowSources
  <2>3. QED
    BY <1>1, <2>1, <2>2 DEF Reads, AskDevice, AskUplink, AskNothing, FindNeighbor, ReadFreshness,
                            Answer, ReadsTypeOK
<1>4. RowsAreMarked'
  BY <1>1, <1>2, <1>3 DEF RowsAreMarked, Covers
<1>5. CASE as_of'[r] = NoAsOf
  <2>1. ASSUME NEW s \in Reader, as_of'[s] # NoAsOf
        PROVE  \E d, e \in published' :
                 /\ d.asOf = as_of'[s]
                 /\ e.network = d.network /\ start'[s] \in e.nodes
                 /\ \A row \in rows'[s] :
                      row.source # NoSource /\ row.source[1] = d.network => row.source[2] <= as_of'[s]
    BY <1>1, <1>2, <1>5, <2>1, BoundsOn
  <2>2. QED
    BY <1>4, <2>1 DEF FreshnessBoundsTheRows
<1>6. CASE as_of'[r] # NoAsOf
  <2>1. ReadFreshness(r)
    BY <1>1, <1>6 DEF Reads, AskDevice, AskUplink, AskNothing, FindNeighbor, Walk, Answer, Move,
                      Clean, ReadsTypeOK
  <2>2. /\ start[r] \in Device /\ start' = start /\ rows' = rows
        /\ as_of'[r] \in FreshnessRows(start[r])
    BY <1>1, <1>6, <2>1 DEF ReadFreshness, Move, ReadsTypeOK
  <2>3. Bounds(r, as_of'[r])
    BY <1>1, <2>2, FreshnessBounds
  <2>4. ASSUME NEW s \in Reader, as_of'[s] # NoAsOf
        PROVE  \E d, e \in published' :
                 /\ d.asOf = as_of'[s]
                 /\ e.network = d.network /\ start'[s] \in e.nodes
                 /\ \A row \in rows'[s] :
                      row.source # NoSource /\ row.source[1] = d.network => row.source[2] <= as_of'[s]
    <3>1. CASE s = r
      BY <1>1, <2>2, <2>3, <3>1 DEF Bounds
    <3>2. CASE s # r
      BY <1>1, <1>2, <2>4, <3>2, BoundsOn
    <3>3. QED
      BY <3>1, <3>2
  <2>5. QED
    BY <1>4, <2>4 DEF FreshnessBoundsTheRows
<1>7. QED
  BY <1>5, <1>6

(* A step of the loop and the poller under the requests in flight.         *)
LEMMA GraphUnderBounds ==
  ASSUME Solo, BoundsInv, [Next]_vars, UNCHANGED reads
  PROVE  RowsAreMarked' /\ FreshnessBoundsTheRows'
<1>1. published \subseteq published' /\ LoopInv /\ RowsAreMarked /\ FreshnessBoundsTheRows
      /\ UNCHANGED <<start, rows, as_of>>
  BY PublishedGrows DEF BoundsInv, reads
<1>2. RowsAreMarked'
  <2>1. ASSUME NEW r \in Reader, NEW row \in rows'[r], row.source # NoSource
        PROVE  row.source \in Network \X AsOf /\ Covers(lastSynced', row.source)
    <3>1. row.source \in Network \X AsOf /\ Covers(lastSynced, row.source)
      BY <1>1, <2>1 DEF RowsAreMarked
    <3>2. QED
      BY <1>1, <3>1, CoversOn
  <2>2. QED
    BY <2>1 DEF RowsAreMarked, Covers
<1>3. FreshnessBoundsTheRows'
  <2>1. ASSUME NEW r \in Reader, as_of'[r] # NoAsOf
        PROVE  \E d, e \in published' :
                 /\ d.asOf = as_of'[r]
                 /\ e.network = d.network /\ start'[r] \in e.nodes
                 /\ \A row \in rows'[r] :
                      row.source # NoSource /\ row.source[1] = d.network => row.source[2] <= as_of'[r]
    BY <1>1, <2>1, BoundsOn
  <2>2. QED
    BY <2>1 DEF FreshnessBoundsTheRows
<1>4. QED
  BY <1>2, <1>3

-----------------------------------------------------------------------------
LEMMA BoundsInit == ImpactInit => BoundsInv
<1> SUFFICES ASSUME ImpactInit
             PROVE  BoundsInv
  OBVIOUS
<1>1. ImpactInv /\ LoopInv
  BY ImpactInvInit, LoopInvInit DEF ImpactInit
<1>2. QED
  BY <1>1 DEF ImpactInit, Init, BoundsInv, SourcesAreMarked, RowsAreMarked, FreshnessBoundsTheRows

LEMMA BoundsStep ==
  ASSUME Solo
  PROVE  BoundsInv /\ [ImpactNext]_allVars => BoundsInv'
<1> SUFFICES ASSUME BoundsInv, [ImpactNext]_allVars PROVE BoundsInv'
  OBVIOUS
<1>1. [Next]_vars
  BY DEF ImpactNext, Reads, AskDevice, AskUplink, AskNothing, FindNeighbor, Walk, ReadFreshness,
         Answer, allVars
<1>2. ImpactInv' /\ LoopInv' /\ SourcesAreMarked'
  BY <1>1, ImpactInvStep, LoopInvStep, SourcesStep DEF BoundsInv
<1>3. CASE UNCHANGED reads
  BY <1>1, <1>2, <1>3, GraphUnderBounds DEF BoundsInv
<1>4. CASE \E r \in Reader : Reads(r)
  BY <1>2, <1>4, ReadBounds DEF BoundsInv
<1>5. QED
  BY <1>3, <1>4 DEF ImpactNext, allVars

(* An answer never calls what it shows older than it is, though rows and   *)
(* freshness are read in two transactions (from_device, _freshness) with   *)
(* any number of statements, cuts and rebuilds in between.                 *)
THEOREM FreshnessCoversTheRows ==
  ASSUME Solo
  PROVE  ImpactSpec => []FreshnessBoundsTheRows
<1>1. BoundsInv => FreshnessBoundsTheRows
  BY DEF BoundsInv
<1>2. QED
  BY <1>1, BoundsInit, BoundsStep, PTL DEF ImpactSpec
=============================================================================
