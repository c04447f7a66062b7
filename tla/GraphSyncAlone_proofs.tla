------------------------ MODULE GraphSyncAlone_proofs ------------------------
(***************************************************************************)
(* What the texts about the projection say holds of one loop at a time,    *)
(* for any number of networks, devices and documents.  Of one that may be  *)
(* cut anywhere: the marker moves forward only, GraphSync implements       *)
(* TopologyFreshness, and no network is a mix of two topologies.  Of one   *)
(* that is never cut: the marker names what is projected, and a device is  *)
(* one node.  Two loops at once refute the first (sync_race), a cut the    *)
(* latter (sync_cut).                                                      *)
(***************************************************************************)
EXTENDS GraphSync_proofs

(* One loop at most; and one that only its own statements end.             *)
Solo  == \A s, t \in Syncer : s = t
Alone == Solo /\ Faulty = {}

(* The invariant.  A rebuild is undisturbed to its end; a timestamp names  *)
(* one document of a network; a rebuild is of a newer document until it    *)
(* has written the marker.                                                 *)
Owned     == \A s \in Syncer : todo[s] # {} => undisturbed[s]
Distinct  == \A d, e \in published : d.network = e.network /\ d.asOf = e.asOf => d = e
Ahead     == \A s \in Syncer : MergeNetworkStmt \in todo[s] => lastSynced[doc[s].network] < doc[s].asOf
HasLatest == \A d \in published : \E c \in Current : c.network = d.network

LoopInv  == /\ TypeOK /\ LastSyncedWasPublished /\ EdgesComeFromTopology /\ RebuildInv
            /\ Owned /\ Distinct /\ Ahead /\ HasLatest
AloneInv == LoopInv /\ LastSyncedWasProjected

-----------------------------------------------------------------------------
LEMMA AloneStepCases ==
  ASSUME Alone, [Next]_vars
  PROVE  \/ \E n \in Network : Poll(n)
         \/ \E s \in Syncer : Start(s) \/ Finish(s)
         \/ \E s \in Syncer : \E d \in queue[s] : RaiseUnreadable(s, d)
         \/ \E s \in Syncer : \E l \in Link : RaiseNullPort(s, l)
         \/ \E s \in Syncer : \E d \in queue[s] : Skip(s, d)
         \/ \E s \in Syncer : \E d \in queue[s] : Begin(s, d)
         \/ \E s \in Syncer : MergeNetwork(s)
         \/ \E s \in Syncer : DropMembership(s)
         \/ \E s \in Syncer : \E x \in Device : MergeDevice(s, x)
         \/ \E s \in Syncer : \E x \in Device : JoinNetwork(s, x)
         \/ \E s \in Syncer : \E l \in Link : MergeLink(s, l)
         \/ \E s \in Syncer : DeleteOrphans(s)
         \/ UNCHANGED vars
BY DEF Next, Pass, Cut, Alone

(* A statement that is executed is of the loop's document.                 *)
Executes(s, st) == Due(s, st) /\ Executed(s, st)

LEMMA StatementCases ==
  ASSUME NEW s \in Syncer
  PROVE  /\ MergeNetwork(s) => Executes(s, MergeNetworkStmt)
         /\ DropMembership(s) => Executes(s, DropMembershipStmt)
         /\ \A x \in Device : MergeDevice(s, x) => Executes(s, MergeDeviceStmt(x))
         /\ \A x \in Device : JoinNetwork(s, x) => Executes(s, JoinNetworkStmt(x))
         /\ \A l \in Link : MergeLink(s, l) => Executes(s, MergeLinkStmt(l))
         /\ DeleteOrphans(s) => Executes(s, DeleteOrphansStmt)
BY DEF Executes, MergeNetwork, DropMembership, MergeDevice, JoinNetwork, MergeLink, DeleteOrphans

LEMMA OwnedStep ==
  ASSUME Solo, TypeOK, Owned, [Next]_vars
  PROVE  Owned'
<1>1. CASE UNCHANGED <<todo, undisturbed>>
  BY <1>1 DEF Owned
<1>2. ASSUME NEW s \in Syncer, Stopped(s) PROVE Owned'
  BY <1>2 DEF Solo, Owned, Stopped, TypeOK, LoopTypeOK
<1>3. ASSUME NEW s \in Syncer, NEW d \in queue[s], Begin(s, d) PROVE Owned'
  BY <1>3 DEF Solo, Owned, Begin, TypeOK, LoopTypeOK
<1>4. ASSUME NEW s \in Syncer, NEW st, Executes(s, st) PROVE Owned'
  BY <1>4 DEF Solo, Owned, Executes, Due, Executed, TypeOK, LoopTypeOK
<1>5. QED
  BY <1>1, <1>2, <1>3, <1>4, StepCases, StatementCases
     DEF Poll, Start, Finish, Skip, loop, vars

LEMMA DistinctStep ==
  ASSUME TypeOK, Distinct, [Next]_vars
  PROVE  Distinct'
<1>1. CASE UNCHANGED published
  BY <1>1 DEF Distinct
<1>2. ASSUME NEW n \in Network, Poll(n) PROVE Distinct'
  <2>1. PICK v \in AsOf : \E c \in Contents[n][v] :
          /\ \A d \in published : d.network = n => d.asOf < v
          /\ published' = published \cup
               {[network |-> n, asOf |-> v, nodes |-> c.nodes,
                 links |-> c.links, readable |-> c.readable]}
    BY <1>2 DEF Poll
  <2>2. PICK d0 : d0.network = n /\ d0.asOf = v /\ published' = published \cup {d0}
    BY <2>1
  <2>3. \A d \in published : d.network = n => d.asOf # v
    BY <2>1, NetworkAssumption DEF AsOf, TypeOK, GraphTypeOK, Document
  <2>4. QED
    BY <2>2, <2>3 DEF Distinct
<1>3. QED
  BY <1>1, <1>2, StepCases
     DEF Start, Finish, Stopped, Skip, Begin, MergeNetwork, DropMembership, MergeDevice,
         JoinNetwork, MergeLink, DeleteOrphans, Executed, vars

LEMMA AheadStep ==
  ASSUME Solo, TypeOK, Ahead, [Next]_vars
  PROVE  Ahead'
<1>1. CASE UNCHANGED <<lastSynced, doc, todo>>
  BY <1>1 DEF Ahead
<1>2. ASSUME NEW s \in Syncer, Stopped(s) PROVE Ahead'
  BY <1>2 DEF Ahead, Stopped, graph, TypeOK, LoopTypeOK
<1>3. ASSUME NEW s \in Syncer, NEW d \in queue[s], Begin(s, d) PROVE Ahead'
  <2>1. d \in published /\ d.asOf \in Nat /\ lastSynced[d.network] \in Nat
    BY <1>3, NetworkAssumption DEF Begin, TypeOK, GraphTypeOK, LoopTypeOK, Document, AsOf
  <2>2. lastSynced[d.network] < d.asOf
    BY <1>3, <2>1 DEF Begin, Stale
  <2>3. QED
    BY <1>3, <2>2 DEF Solo, Ahead, Begin, graph, TypeOK, LoopTypeOK
<1>4. ASSUME NEW s \in Syncer, NEW st, Executes(s, st), UNCHANGED lastSynced PROVE Ahead'
  BY <1>4 DEF Ahead, Executes, Executed, TypeOK, LoopTypeOK
<1>5. ASSUME NEW s \in Syncer, MergeNetwork(s) PROVE Ahead'
  <2>1. \A t \in Syncer : MergeNetworkStmt \notin todo'[t]
    BY <1>5 DEF Solo, MergeNetwork, Executed, TypeOK, LoopTypeOK
  <2>2. QED
    BY <2>1 DEF Ahead
<1>6. QED
  BY <1>1, <1>2, <1>3, <1>4, <1>5, StepCases, StatementCases
     DEF Poll, Start, Finish, Skip, DropMembership, MergeDevice, JoinNetwork, MergeLink,
         DeleteOrphans, loop, graph, vars

LEMMA HasLatestStep ==
  ASSUME TypeOK, HasLatest, [Next]_vars
  PROVE  HasLatest'
<1>1. CASE UNCHANGED published
  BY <1>1 DEF HasLatest, Current
<1>2. ASSUME NEW n \in Network, Poll(n) PROVE HasLatest'
  <2>1. PICK v \in AsOf : \E c \in Contents[n][v] :
          /\ \A d \in published : d.network = n => d.asOf < v
          /\ published' = published \cup
               {[network |-> n, asOf |-> v, nodes |-> c.nodes,
                 links |-> c.links, readable |-> c.readable]}
    BY <1>2 DEF Poll
  <2>2. PICK d0 : d0.network = n /\ d0.asOf = v /\ published' = published \cup {d0}
    BY <2>1
  <2>3. d0 \in Current'
    BY <2>1, <2>2, NetworkAssumption DEF Current, AsOf, TypeOK, GraphTypeOK, Document
  <2>4. \A c \in Current : c.network # n => c \in Current'
    BY <2>2 DEF Current
  <2>5. QED
    BY <2>2, <2>3, <2>4 DEF HasLatest
<1>3. QED
  BY <1>1, <1>2, StepCases
     DEF Start, Finish, Stopped, Skip, Begin, MergeNetwork, DropMembership, MergeDevice,
         JoinNetwork, MergeLink, DeleteOrphans, Executed, vars

LEMMA LoopInvInit == Init => LoopInv
BY TypeInit DEF Init, LoopInv, LastSyncedWasPublished, EdgesComeFromTopology, RebuildInv,
     StagesInOrder, Undisturbed, Owned, Distinct, Ahead, HasLatest

LEMMA LoopInvStep ==
  ASSUME Solo, LoopInv, [Next]_vars
  PROVE  LoopInv'
BY TypeStep, MarkStep, EdgesStep, RebuildStep, OwnedStep, DistinctStep, AheadStep, HasLatestStep
   DEF LoopInv

-----------------------------------------------------------------------------
(* The marker names what is projected.                                     *)

(* A rebuild that has only links and orphans left has its devices.         *)
LEMMA MembersComplete ==
  ASSUME NEW s \in Syncer, NEW d, RebuildProgress(s, d),
         MergeNetworkStmt \notin todo[s], DropMembershipStmt \notin todo[s],
         \A x : JoinNetworkStmt(x) \notin todo[s]
  PROVE  lastSynced[d.network] = d.asOf /\ MembersOf(d.network) = d.nodes
<1>1. lastSynced[d.network] = d.asOf
  BY DEF RebuildProgress, MarkDone
<1>2. \A e \in member : e[2] = d.network => deviceId[e[1]] \in d.nodes
  BY DEF RebuildProgress, MembersDone
<1>3. MembersOf(d.network) \subseteq d.nodes
  BY <1>2 DEF MembersOf
<1>4. ASSUME NEW x \in d.nodes PROVE x \in MembersOf(d.network)
  <2>1. PICK u \in Matching(x) : <<u, d.network>> \in member
    BY DEF RebuildProgress, JoinsDone
  <2>2. deviceId[u] = x
    BY <2>1 DEF Matching
  <2>3. QED
    BY <2>1, <2>2 DEF MembersOf
<1>5. QED
  BY <1>1, <1>3, <1>4

(* The members of a network are kept by a step that keeps its edges and    *)
(* the ids at their ends.                                                  *)
LEMMA MembersKept ==
  ASSUME NEW n, \A e : e[2] = n => (e \in member' <=> e \in member),
         \A e \in member : e[2] = n => deviceId'[e[1]] = deviceId[e[1]]
  PROVE  MembersOf(n)' = MembersOf(n)
<1>1. {m \in member' : m[2] = n} = {m \in member : m[2] = n}
  OBVIOUS
<1>2. QED
  BY <1>1 DEF MembersOf

(* A statement leaves the members and the marks of other networks.         *)
LEMMA OtherNetworksKept ==
  ASSUME TypeOK, EdgesComeFromTopology, NEW s \in Syncer, NEW n \in Network,
         doc[s].network # n,
         \/ MergeNetwork(s) \/ DropMembership(s) \/ DeleteOrphans(s)
         \/ \E x \in Device : MergeDevice(s, x) \/ JoinNetwork(s, x)
         \/ \E l \in Link : MergeLink(s, l)
  PROVE  lastSynced'[n] = lastSynced[n] /\ MembersOf(n)' = MembersOf(n)
<1>1. \A e \in member : e[1] \in Node /\ deviceId[e[1]] # NoDevice
  BY EndsExist DEF TypeOK, GraphTypeOK
<1>2. CASE MergeNetwork(s)
  BY <1>2, MembersKept DEF MergeNetwork, TypeOK, GraphTypeOK
<1>3. CASE DropMembership(s)
  BY <1>3, MembersKept DEF DropMembership
<1>4. CASE DeleteOrphans(s)
  <2>1. \A e \in member : deviceId'[e[1]] = deviceId[e[1]]
    BY <1>1, <1>4 DEF DeleteOrphans, Orphan
  <2>2. QED
    BY <1>4, <2>1, MembersKept DEF DeleteOrphans
<1>5. ASSUME NEW x \in Device, MergeDevice(s, x)
      PROVE  lastSynced'[n] = lastSynced[n] /\ MembersOf(n)' = MembersOf(n)
  <2>1. \A e \in member : deviceId'[e[1]] = deviceId[e[1]]
    BY <1>1, <1>5, MergeDeviceKeeps
  <2>2. UNCHANGED <<lastSynced, member>>
    BY <1>5 DEF MergeDevice
  <2>3. QED
    BY <2>1, <2>2, MembersKept
<1>6. ASSUME NEW x \in Device, JoinNetwork(s, x)
      PROVE  lastSynced'[n] = lastSynced[n] /\ MembersOf(n)' = MembersOf(n)
  BY <1>6, MembersKept DEF JoinNetwork
<1>7. ASSUME NEW l \in Link, MergeLink(s, l)
      PROVE  lastSynced'[n] = lastSynced[n] /\ MembersOf(n)' = MembersOf(n)
  <2>1. \A e \in member : deviceId'[e[1]] = deviceId[e[1]]
    BY <1>1, <1>7, MergeLinkKeeps
  <2>2. UNCHANGED <<lastSynced, member>>
    BY <1>7 DEF MergeLink
  <2>3. QED
    BY <2>1, <2>2, MembersKept
<1>8. QED
  BY <1>2, <1>3, <1>4, <1>5, <1>6, <1>7

LEMMA ProgressEndsNext == (RebuildInv => UndisturbedRebuildProjects)'
<1>1. RebuildInv => UndisturbedRebuildProjects
  BY ProgressEnds
<1>2. QED
  BY <1>1, PTL

LEMMA ProjectedExecuted ==
  ASSUME Alone, AloneInv, LoopInv', NEW s \in Syncer, NEW st, Executes(s, st),
         \A n \in Network : doc[s].network # n =>
           lastSynced'[n] = lastSynced[n] /\ MembersOf(n)' = MembersOf(n)
  PROVE  LastSyncedWasProjected'
<1> SUFFICES ASSUME NEW n \in Network, NEW d \in published', ~Rebuilding(n)',
                    d.network = n, d.asOf = lastSynced'[n]
             PROVE  MembersOf(n)' = d.nodes
  BY DEF LastSyncedWasProjected
<1>1. /\ doc' = doc /\ published' = published /\ todo[s] # {}
      /\ undisturbed[s] => undisturbed'[s]
  BY DEF Executes, Due, Executed, AloneInv, LoopInv, TypeOK, LoopTypeOK
<1>2. CASE doc[s].network # n
  <2>1. ~Rebuilding(n)
    BY <1>2 DEF Rebuilding, Alone, Solo
  <2>2. QED
    BY <1>1, <1>2, <2>1 DEF AloneInv, LastSyncedWasProjected
<1>3. CASE doc[s].network = n
  <2>1. todo'[s] = {} /\ undisturbed'[s]
    BY <1>1, <1>3 DEF Rebuilding, Alone, Solo, AloneInv, LoopInv, Owned
  <2>2. Projected(doc[s])'
    BY <2>1, ProgressEndsNext DEF LoopInv, UndisturbedRebuildProjects
  <2>3. d = doc[s]
    <3>1. doc[s] \in published
      BY <1>1, DocumentInHand DEF AloneInv, LoopInv
    <3>2. doc[s].asOf = lastSynced'[n]
      BY <1>1, <1>3, <2>2 DEF Projected
    <3>3. QED
      BY <1>1, <1>3, <3>1, <3>2 DEF AloneInv, LoopInv, Distinct
  <2>4. QED
    BY <1>1, <1>3, <2>2, <2>3 DEF Projected
<1>4. QED
  BY <1>2, <1>3

LEMMA ProjectedStep ==
  ASSUME Alone, AloneInv, LoopInv', [Next]_vars
  PROVE  LastSyncedWasProjected'
<1>0. TypeOK /\ EdgesComeFromTopology /\ LastSyncedWasProjected
  BY DEF AloneInv, LoopInv
(* Between two rebuilds, a step that leaves the graph and the topologies.  *)
<1>1. ASSUME UNCHANGED <<graph, published>>, \A n \in Network : Rebuilding(n) => Rebuilding(n)'
      PROVE  LastSyncedWasProjected'
  BY <1>0, <1>1 DEF LastSyncedWasProjected, MembersOf, graph
<1>2. ASSUME NEW n \in Network, Poll(n) PROVE LastSyncedWasProjected'
  <2>1. PICK v \in AsOf : \E c \in Contents[n][v] :
          /\ \A d \in published : d.network = n => d.asOf < v
          /\ published' = published \cup
               {[network |-> n, asOf |-> v, nodes |-> c.nodes,
                 links |-> c.links, readable |-> c.readable]}
    BY <1>2 DEF Poll
  <2>2. PICK d0 : d0.network = n /\ d0.asOf = v /\ published' = published \cup {d0}
    BY <2>1
  <2>3. lastSynced[n] # v
    BY <2>1, NetworkAssumption DEF AsOf, AloneInv, LoopInv, LastSyncedWasPublished
  <2>4. UNCHANGED <<graph, loop>>
    BY <1>2 DEF Poll
  <2>5. \A m \in Network : Rebuilding(m)' <=> Rebuilding(m)
    BY <2>4 DEF Rebuilding, loop
  <2>6. \A m \in Network : MembersOf(m)' = MembersOf(m) /\ lastSynced'[m] = lastSynced[m]
    BY <2>4 DEF MembersOf, graph
  <2>7. QED
    BY <1>0, <2>2, <2>3, <2>5, <2>6 DEF LastSyncedWasProjected
<1>3. ASSUME NEW s \in Syncer, NEW d \in queue[s], RaiseUnreadable(s, d)
      PROVE  LastSyncedWasProjected'
  <2>1. \A n \in Network : ~Rebuilding(n)
    BY <1>3 DEF Alone, Solo, Rebuilding, RaiseUnreadable, Looks
  <2>2. UNCHANGED <<graph, published>>
    BY <1>3 DEF RaiseUnreadable, Stopped
  <2>3. QED
    BY <1>1, <2>1, <2>2
<1>4. ASSUME NEW s \in Syncer, NEW l \in Link, RaiseNullPort(s, l)
      PROVE  LastSyncedWasProjected'
  <2>1. /\ MergeLinkStmt(l) \in todo[s] /\ UNCHANGED <<graph, published>>
        /\ \A other \in todo[s] : Stage(MergeLinkStmt(l)) <= Stage(other)
    BY <1>4 DEF RaiseNullPort, Stopped, Due
  <2>2. /\ MergeNetworkStmt \notin todo[s] /\ DropMembershipStmt \notin todo[s]
        /\ \A x : JoinNetworkStmt(x) \notin todo[s]
    BY <2>1, Stages
  <2>3. RebuildProgress(s, doc[s])
    BY <2>1 DEF AloneInv, LoopInv, Owned, RebuildInv, Undisturbed
  <2>4. /\ lastSynced[doc[s].network] = doc[s].asOf
        /\ MembersOf(doc[s].network) = doc[s].nodes
    BY <2>2, <2>3, MembersComplete
  <2>5. doc[s] \in published
    BY <2>1, <1>0, DocumentInHand
  <2>6. ASSUME NEW n \in Network, NEW d \in published, d.network = n, d.asOf = lastSynced[n]
        PROVE  MembersOf(n) = d.nodes
    <3>1. CASE doc[s].network = n
      BY <2>4, <2>5, <2>6, <3>1 DEF AloneInv, LoopInv, Distinct
    <3>2. CASE doc[s].network # n
      BY <1>0, <2>6, <3>2 DEF Alone, Solo, LastSyncedWasProjected, Rebuilding
    <3>3. QED
      BY <3>1, <3>2
  <2>7. QED
    BY <2>1, <2>6 DEF LastSyncedWasProjected, MembersOf, graph
<1>5. ASSUME NEW s \in Syncer, NEW d \in queue[s], Begin(s, d) PROVE LastSyncedWasProjected'
  <2>1. \A n \in Network : ~Rebuilding(n)
    BY <1>5 DEF Alone, Solo, Rebuilding, Begin, Looks
  <2>2. UNCHANGED <<graph, published>>
    BY <1>5 DEF Begin
  <2>3. QED
    BY <1>1, <2>1, <2>2
<1>6. ASSUME NEW s \in Syncer,
             \/ MergeNetwork(s) \/ DropMembership(s) \/ DeleteOrphans(s)
             \/ \E x \in Device : MergeDevice(s, x) \/ JoinNetwork(s, x)
             \/ \E l \in Link : MergeLink(s, l)
      PROVE  LastSyncedWasProjected'
  <2>1. PICK st : Executes(s, st)
    BY <1>6, StatementCases
  <2>2. \A n \in Network : doc[s].network # n =>
          lastSynced'[n] = lastSynced[n] /\ MembersOf(n)' = MembersOf(n)
    BY <1>0, <1>6, OtherNetworksKept
  <2>3. QED
    BY <2>1, <2>2, ProjectedExecuted
<1>7. CASE UNCHANGED <<graph, published, doc, todo>>
  <2>1. \A n \in Network : Rebuilding(n)' <=> Rebuilding(n)
    BY <1>7 DEF Rebuilding
  <2>2. QED
    BY <1>1, <1>7, <2>1
<1>8. QED
  BY <1>2, <1>3, <1>4, <1>5, <1>6, <1>7, AloneStepCases DEF Start, Finish, Skip, loop, vars

LEMMA AloneInvStep ==
  ASSUME Alone
  PROVE  AloneInv /\ [Next]_vars => AloneInv'
BY LoopInvStep, ProjectedStep DEF AloneInv, Alone

LEMMA AloneInvInit == Init => AloneInv
BY LoopInvInit DEF Init, AloneInv, LastSyncedWasProjected

(* "last_synced_at tracks the latest topology @timestamp that was          *)
(* successfully projected" (domain/graph.py): true of one loop at a time   *)
(* that is never cut, a topology with a null port included.                *)
THEOREM MarkNamesTheProjected ==
  ASSUME Alone
  PROVE  Spec => []LastSyncedWasProjected
<1>1. AloneInv => LastSyncedWasProjected
  BY DEF AloneInv
<1>2. QED
  BY <1>1, AloneInvInit, AloneInvStep, PTL DEF Spec

(* "Rebuilds the subgraph only when ES is newer" (admin_sync_router.py):   *)
(* with one loop, cut or not, nothing comes between the read of the marker *)
(* and its write, so that it never moves backwards.                        *)
THEOREM MarkMovesForward ==
  ASSUME Solo
  PROVE  Spec => RebuildOnlyWhenNewer
<1>1. ASSUME LoopInv, [Next]_vars
      PROVE  \A n \in Network : lastSynced'[n] >= lastSynced[n]
  <2>1. lastSynced \in [Network -> Nat]
    BY <1>1, NetworkAssumption DEF LoopInv, TypeOK, GraphTypeOK
  <2>2. CASE UNCHANGED lastSynced
    BY <2>1, <2>2
  <2>3. ASSUME NEW s \in Syncer, MergeNetwork(s)
        PROVE  \A n \in Network : lastSynced'[n] >= lastSynced[n]
    <3>1. lastSynced' = [lastSynced EXCEPT ![doc[s].network] = doc[s].asOf]
      BY <2>3 DEF MergeNetwork, Mark
    <3>2. lastSynced[doc[s].network] < doc[s].asOf /\ doc[s].asOf \in Nat
      BY <1>1, <2>3, DocumentInHand, NetworkAssumption
         DEF LoopInv, Ahead, MergeNetwork, Due, AsOf
    <3>3. QED
      BY <2>1, <3>1, <3>2
  <2>4. QED
    BY <1>1, <2>2, <2>3, StepCases
       DEF Poll, Start, Finish, Stopped, Skip, Begin, DropMembership, MergeDevice,
           JoinNetwork, MergeLink, DeleteOrphans, graph, vars
<1>2. LoopInv /\ [Next]_vars => LoopInv'
  BY LoopInvStep
<1>3. QED
  BY <1>1, <1>2, LoopInvInit, PTL DEF Spec, RebuildOnlyWhenNewer

-----------------------------------------------------------------------------
(* No network is ever a mix.  Once a rebuild has dropped the edges of its  *)
(* network, every edge it adds is of its document and the marker names it. *)

LEMMA MixKept ==
  ASSUME NetworksAreNeverMixed, UNCHANGED graph, published \subseteq published'
  PROVE  NetworksAreNeverMixed'
BY DEF NetworksAreNeverMixed, MembersOf, graph

(* The network that is being rebuilt.                                      *)
LEMMA RebuiltIsNotMixed ==
  ASSUME LoopInv, LoopInv', NetworksAreNeverMixed,
         NEW s \in Syncer, NEW st, Executes(s, st), MergeNetwork(s) \/ st # MergeNetworkStmt,
         NEW n \in Network, n = doc[s].network, MembersOf(n)' # {}
  PROVE  \E d \in published' : /\ d.network = n /\ d.asOf <= lastSynced'[n]
                               /\ MembersOf(n)' \subseteq d.nodes
<1> DEFINE d == doc[s]
<1>1. /\ d \in published /\ d.asOf \in Nat
      /\ published' = published /\ doc' = doc
  BY DocumentInHand, NetworkAssumption DEF LoopInv, Executes, Due, Executed, AsOf
<1>2. CASE MergeNetwork(s)
  <2>1. lastSynced' = [lastSynced EXCEPT ![n] = d.asOf] /\ UNCHANGED <<deviceId, member>>
    BY <1>2 DEF MergeNetwork, Mark
  <2>2. lastSynced[n] < d.asOf /\ lastSynced[n] \in Nat /\ lastSynced'[n] = d.asOf
    BY <1>1, <1>2, <2>1, NetworkAssumption
       DEF LoopInv, Ahead, TypeOK, GraphTypeOK, MergeNetwork, Due
  <2>3. MembersOf(n)' = MembersOf(n)
    BY <1>1, <2>1 DEF MembersOf
  <2>4. PICK e \in published : /\ e.network = n /\ e.asOf <= lastSynced[n]
                               /\ MembersOf(n) \subseteq e.nodes
    BY <1>1, <2>3 DEF NetworksAreNeverMixed
  <2>5. e.asOf \in Nat
    BY NetworkAssumption DEF LoopInv, TypeOK, GraphTypeOK, Document, AsOf
  <2>6. QED
    BY <1>1, <2>2, <2>3, <2>4, <2>5
<1>3. CASE st # MergeNetworkStmt
  <2>1. undisturbed'[s]
    BY DEF LoopInv, Owned, Executes, Due, Executed
  <2>2. RebuildProgress(s, d)'
    BY <2>1 DEF LoopInv, RebuildInv, Undisturbed
  <2>3. MergeNetworkStmt \notin todo'[s] /\ DropMembershipStmt \notin todo'[s]
    <3>1. /\ st \in Rebuild(d) /\ todo'[s] = todo[s] \ {st}
          /\ \A other \in todo[s] : Stage(st) <= Stage(other)
      BY DEF Executes, Due, Executed, LoopInv, TypeOK, LoopTypeOK
    <3>2. Stage(st) \in 2..6 /\ (Stage(st) = 2 => st = DropMembershipStmt)
      BY <1>3, <3>1 DEF Rebuild, Stage, MergeNetworkStmt, DropMembershipStmt, MergeDeviceStmt,
                        JoinNetworkStmt, MergeLinkStmt, DeleteOrphansStmt
    <3>3. QED
      BY <3>1, <3>2, Stages
  <2>4. lastSynced'[n] = d.asOf
    BY <1>1, <2>2, <2>3 DEF RebuildProgress, MarkDone
  <2>5. MembersOf(n)' \subseteq d.nodes
    BY <1>1, <2>2, <2>3 DEF RebuildProgress, MembersDone, MembersOf
  <2>6. QED
    BY <1>1, <2>4, <2>5
<1>4. QED
  BY <1>2, <1>3

LEMMA MixStep ==
  ASSUME LoopInv, LoopInv', NetworksAreNeverMixed, [Next]_vars
  PROVE  NetworksAreNeverMixed'
<1>1. CASE \E n \in Network : Poll(n)
  BY <1>1, MixKept DEF Poll
<1>2. ASSUME NEW s \in Syncer,
             \/ MergeNetwork(s) \/ DropMembership(s) \/ DeleteOrphans(s)
             \/ \E x \in Device : MergeDevice(s, x) \/ JoinNetwork(s, x)
             \/ \E l \in Link : MergeLink(s, l)
      PROVE  NetworksAreNeverMixed'
  <2>1. PICK st : Executes(s, st) /\ (MergeNetwork(s) \/ st # MergeNetworkStmt)
    <3>1. \A st : Stage(st) # 1 => st # MergeNetworkStmt
      BY Stages
    <3>2. CASE MergeNetwork(s)
      BY <3>2, StatementCases
    <3>3. CASE DropMembership(s) \/ DeleteOrphans(s)
      BY <3>1, <3>3, StatementCases, Stages
    <3>4. CASE \E x \in Device : MergeDevice(s, x) \/ JoinNetwork(s, x)
      BY <3>1, <3>4, StatementCases, Stages
    <3>5. CASE \E l \in Link : MergeLink(s, l)
      BY <3>1, <3>5, StatementCases, Stages
    <3>6. QED
      BY <1>2, <3>2, <3>3, <3>4, <3>5
  <2>2. published' = published
    BY <2>1 DEF Executes, Executed
  <2>3. ASSUME NEW n \in Network, n # doc[s].network, MembersOf(n)' # {}
        PROVE  \E d \in published' : /\ d.network = n /\ d.asOf <= lastSynced'[n]
                                     /\ MembersOf(n)' \subseteq d.nodes
    <3>1. lastSynced'[n] = lastSynced[n] /\ MembersOf(n)' = MembersOf(n)
      BY <1>2, <2>3, OtherNetworksKept DEF LoopInv
    <3>2. QED
      BY <2>2, <2>3, <3>1 DEF NetworksAreNeverMixed
  <2>4. ASSUME NEW n \in Network, n = doc[s].network, MembersOf(n)' # {}
        PROVE  \E d \in published' : /\ d.network = n /\ d.asOf <= lastSynced'[n]
                                     /\ MembersOf(n)' \subseteq d.nodes
    BY <2>1, <2>4, RebuiltIsNotMixed
  <2>5. QED
    BY <2>3, <2>4 DEF NetworksAreNeverMixed
<1>3. CASE UNCHANGED graph /\ published' = published
  BY <1>3, MixKept
<1>4. CASE \E s \in Syncer : \/ Start(s) \/ Finish(s) \/ Stopped(s)
                           \/ \E d \in queue[s] : Skip(s, d) \/ Begin(s, d)
  BY <1>3, <1>4 DEF Start, Finish, Stopped, Skip, Begin
<1>5. CASE UNCHANGED vars
  BY <1>3, <1>5 DEF vars
<1>6. QED
  BY <1>1, <1>2, <1>4, <1>5, StepCases

(* A reader never meets a mix of two topologies, nor devices newer than    *)
(* the mark: true of one loop at a time even when it is cut between any    *)
(* two of its transactions, because the marker is the first of them and    *)
(* the drop of the edges the second.                                       *)
THEOREM ReadersNeverMeetAMix ==
  ASSUME Solo
  PROVE  Spec => []NetworksAreNeverMixed
<1>1. Init => NetworksAreNeverMixed
  BY DEF Init, NetworksAreNeverMixed, MembersOf
<1>2. LoopInv /\ NetworksAreNeverMixed /\ [Next]_vars => LoopInv' /\ NetworksAreNeverMixed'
  BY LoopInvStep, MixStep
<1>3. QED
  BY <1>1, <1>2, LoopInvInit, PTL DEF Spec

-----------------------------------------------------------------------------
(* The refinement of TopologyFreshness, without its fairness.              *)

(* The mapping of polled: the topology of a network that the index holds.  *)
LEMMA LatestIs ==
  ASSUME TypeOK, NEW d \in Current
  PROVE  LatestAsOf(d.network) = d.asOf
<1> DEFINE c == CHOOSE c \in Current : c.network = d.network
<1>1. c \in Current /\ c.network = d.network
  OBVIOUS
<1>2. c.asOf <= d.asOf /\ d.asOf <= c.asOf /\ c.asOf \in Nat /\ d.asOf \in Nat
  BY <1>1, NetworkAssumption DEF Current, TypeOK, GraphTypeOK, Document, AsOf
<1>3. LatestAsOf(d.network) = c.asOf
  BY DEF LatestAsOf
<1>4. QED
  BY <1>2, <1>3

LEMMA LatestIsNext == (TypeOK => \A d \in Current : LatestAsOf(d.network) = d.asOf)'
<1>1. TypeOK => \A d \in Current : LatestAsOf(d.network) = d.asOf
  BY LatestIs
<1>2. QED
  BY <1>1, PTL

(* A topology of a network is no newer than the one the index holds.       *)
LEMMA LatestBounds ==
  ASSUME TypeOK, HasLatest, NEW d \in published
  PROVE  d.asOf <= LatestAsOf(d.network) /\ LatestAsOf(d.network) \in AsOf
<1>1. PICK c \in Current : c.network = d.network
  BY DEF HasLatest
<1>2. LatestAsOf(d.network) = c.asOf
  BY <1>1, LatestIs
<1>3. QED
  BY <1>1, <1>2 DEF Current, TypeOK, GraphTypeOK, Document

LEMMA PollRefines ==
  ASSUME LoopInv, LoopInv', NEW n \in Network, Poll(n)
  PROVE  Freshness!Poll(n)
<1>1. PICK v \in AsOf : \E c \in Contents[n][v] :
        /\ \A d \in published : d.network = n => d.asOf < v
        /\ published' = published \cup
             {[network |-> n, asOf |-> v, nodes |-> c.nodes,
               links |-> c.links, readable |-> c.readable]}
  BY DEF Poll
<1>2. PICK d0 : d0.network = n /\ d0.asOf = v /\ published' = published \cup {d0}
  BY <1>1
<1>3. v \in 1..MaxAsOf /\ v \in Nat
  BY NetworkAssumption DEF AsOf
<1>4. d0 \in Current'
  BY <1>1, <1>2, <1>3, NetworkAssumption DEF Current, AsOf, LoopInv, TypeOK, GraphTypeOK, Document
<1>5. LatestAsOf(n)' = v
  BY <1>2, <1>4, LatestIsNext DEF LoopInv
<1>6. LatestAsOf(n) \in Nat /\ LatestAsOf(n) < v
  <2>1. CASE \E d \in Current : d.network = n
    <3>1. PICK d \in Current : d.network = n
      BY <2>1
    <3>2. LatestAsOf(n) = d.asOf /\ d \in published
      BY <3>1, LatestIs DEF Current, LoopInv
    <3>3. d.asOf \in Nat
      BY <3>2, NetworkAssumption DEF LoopInv, TypeOK, GraphTypeOK, Document, AsOf
    <3>4. QED
      BY <1>1, <3>1, <3>2, <3>3
  <2>2. CASE ~\E d \in Current : d.network = n
    BY <1>3, <2>2 DEF LatestAsOf
  <2>3. QED
    BY <2>1, <2>2
<1>7. ASSUME NEW m \in Network, m # n PROVE LatestAsOf(m)' = LatestAsOf(m)
  <2>1. \A c : c.network = m => (c \in Current' <=> c \in Current)
    BY <1>2, <1>7 DEF Current
  <2>2. CASE \E d \in Current : d.network = m
    <3>1. PICK d \in Current : d.network = m
      BY <2>2
    <3>2. QED
      BY <2>1, <3>1, LatestIs, LatestIsNext DEF LoopInv
  <2>3. CASE ~\E d \in Current : d.network = m
    BY <2>1, <2>3 DEF LatestAsOf
  <2>4. QED
    BY <2>2, <2>3
<1>8. [m \in Network |-> LatestAsOf(m)'] = [[m \in Network |-> LatestAsOf(m)] EXCEPT ![n] = v]
  BY <1>5, <1>7
<1>9. v \in [m \in Network |-> LatestAsOf(m)][n] + 1 .. MaxAsOf
  BY <1>3, <1>6, NetworkAssumption
<1>10. UNCHANGED lastSynced
  BY DEF Poll, graph
<1>11. QED
  BY <1>8, <1>9, <1>10 DEF Freshness!Poll

LEMMA MarkRefines ==
  ASSUME LoopInv, NEW s \in Syncer, MergeNetwork(s)
  PROVE  Freshness!Advance(doc[s].network)
<1> DEFINE n == doc[s].network
           v == doc[s].asOf
<1>1. MergeNetworkStmt \in todo[s] /\ lastSynced' = [lastSynced EXCEPT ![n] = v]
  BY DEF MergeNetwork, Due, Mark
<1>2. doc[s] \in published /\ n \in Network /\ v \in AsOf
  BY <1>1, DocumentInHand DEF LoopInv
<1>3. lastSynced[n] < v /\ lastSynced[n] \in Nat
  BY <1>1, <1>2, NetworkAssumption DEF LoopInv, Ahead, TypeOK, GraphTypeOK
<1>4. v <= LatestAsOf(n) /\ LatestAsOf(n) \in AsOf
  BY <1>2, LatestBounds DEF LoopInv
<1>5. v \in lastSynced[n] + 1 .. [m \in Network |-> LatestAsOf(m)][n]
  BY <1>2, <1>3, <1>4, NetworkAssumption DEF AsOf
<1>6. \A m : LatestAsOf(m)' = LatestAsOf(m)
  BY DEF MergeNetwork, Executed, LatestAsOf, Current
<1>7. [m \in Network |-> LatestAsOf(m)'] = [m \in Network |-> LatestAsOf(m)]
  BY <1>6
<1>8. QED
  BY <1>1, <1>5, <1>7 DEF Freshness!Advance

(* With one loop, cut or not, GraphSync implements the safety of           *)
(* TopologyFreshness:                                                      *)
(* the marker of a network advances only, to a topology that was polled    *)
(* and not past the latest.                                                *)
THEOREM RefinesFreshness ==
  ASSUME Solo
  PROVE  Spec => FreshnessSafety
<1>1. Init => Freshness!Init
  BY DEF Init, Freshness!Init, LatestAsOf, Current
<1>2. ASSUME LoopInv, LoopInv', [Next]_vars
      PROVE  [Freshness!Next]_<<[n \in Network |-> LatestAsOf(n)], lastSynced>>
  <2>1. CASE UNCHANGED <<published, lastSynced>>
    <3>1. \A n : LatestAsOf(n)' = LatestAsOf(n)
      BY <2>1 DEF LatestAsOf, Current
    <3>2. QED
      BY <2>1, <3>1
  <2>2. ASSUME NEW n \in Network, Poll(n) PROVE Freshness!Next
    BY <1>2, <2>2, PollRefines DEF Freshness!Next
  <2>3. ASSUME NEW s \in Syncer, MergeNetwork(s) PROVE Freshness!Next
    <3>1. doc[s].network \in Network
      BY <1>2, <2>3, DocumentInHand DEF MergeNetwork, Due, LoopInv
    <3>2. QED
      BY <1>2, <2>3, <3>1, MarkRefines DEF Freshness!Next
  <2>4. QED
    BY <1>2, <2>1, <2>2, <2>3, StepCases
       DEF Start, Finish, Stopped, Skip, Begin, DropMembership, MergeDevice, JoinNetwork,
           MergeLink, DeleteOrphans, Executed, graph, vars
<1>3. LoopInv /\ [Next]_vars => LoopInv'
  BY LoopInvStep
<1>4. QED
  BY <1>1, <1>2, <1>3, LoopInvInit, PTL DEF Spec, FreshnessSafety

-----------------------------------------------------------------------------
(* One node per device: when no link lacks a port, a rebuild that has made *)
(* second nodes for an id also deletes them.                               *)
Ported == \A n \in Network, v \in AsOf : \A c \in Contents[n][v] :
            \A l \in c.links : l.port # NoPort

OneNode       == \A u, w \in Node : deviceId[u] = deviceId[w] => u = w \/ deviceId[u] = NoDevice
OneMember     == \A e, f \in member : deviceId[e[1]] = deviceId[f[1]] => e[1] = f[1]
LinksPorted   == \A d \in published : \A l \in d.links : l.port # NoPort
BeforeLinks   == \A s \in Syncer : todo[s] = {} \/ \E st \in todo[s] : Stage(st) <= 4
NodesInv      == OneMember /\ LinksPorted /\ (BeforeLinks => OneNode)

LEMMA LinksPortedStep ==
  ASSUME Ported, LinksPorted, [Next]_vars
  PROVE  LinksPorted'
<1>1. CASE UNCHANGED published
  BY <1>1 DEF LinksPorted
<1>2. ASSUME NEW n \in Network, Poll(n) PROVE LinksPorted'
  <2>1. PICK v \in AsOf : \E c \in Contents[n][v] :
          published' = published \cup
            {[network |-> n, asOf |-> v, nodes |-> c.nodes,
              links |-> c.links, readable |-> c.readable]}
    BY <1>2 DEF Poll
  <2>2. PICK c \in Contents[n][v] :
          published' = published \cup
            {[network |-> n, asOf |-> v, nodes |-> c.nodes,
              links |-> c.links, readable |-> c.readable]}
    BY <2>1
  <2>3. QED
    BY <2>2 DEF LinksPorted, Ported
<1>3. QED
  BY <1>1, <1>2, StepCases
     DEF Start, Finish, Stopped, Skip, Begin, MergeNetwork, DropMembership, MergeDevice,
         JoinNetwork, MergeLink, DeleteOrphans, Executed, vars

(* A step that keeps the ids of members and adds none.                     *)
LEMMA MembersStayOne ==
  ASSUME OneMember, member' \subseteq member,
         \A e \in member : deviceId'[e[1]] = deviceId[e[1]]
  PROVE  OneMember'
BY DEF OneMember

(* The statements up to the joins work on a graph with one node per id.    *)
LEMMA EarlyStatement ==
  ASSUME Solo, NodesInv, NEW s \in Syncer, NEW st, Due(s, st), Stage(st) <= 4
  PROVE  OneNode
BY DEF NodesInv, BeforeLinks, Due, Solo

LEMMA NodesStep ==
  ASSUME Alone, Ported, LoopInv, NodesInv, [Next]_vars
  PROVE  NodesInv'
<1>0. /\ TypeOK /\ StagesInOrder /\ OneMember /\ LinksPorted'
      /\ \A e \in member : e[1] \in Node /\ deviceId[e[1]] # NoDevice
  BY EndsExist, LinksPortedStep DEF LoopInv, RebuildInv, NodesInv, TypeOK, GraphTypeOK
<1>1. ASSUME UNCHANGED <<deviceId, member>>, BeforeLinks' => BeforeLinks PROVE NodesInv'
  BY <1>0, <1>1 DEF NodesInv, OneMember, OneNode
<1>2. ASSUME NEW s \in Syncer, todo[s] = {}, UNCHANGED <<deviceId, member>> PROVE NodesInv'
  BY <1>1, <1>2 DEF BeforeLinks, Alone, Solo
<1>3. ASSUME NEW s \in Syncer, NEW l \in Link, RaiseNullPort(s, l) PROVE FALSE
  <2>1. MergeLinkStmt(l) \in todo[s] /\ l.port = NoPort
    BY <1>3 DEF RaiseNullPort, Due, Refused
  <2>2. l \in doc[s].links /\ doc[s] \in published
    BY <1>0, <2>1, StatementOfDocument, DocumentInHand
  <2>3. QED
    BY <2>1, <2>2 DEF NodesInv, LinksPorted
<1>4. ASSUME NEW s \in Syncer, MergeNetwork(s) PROVE NodesInv'
  <2>1. OneNode
    BY <1>4, EarlyStatement, Stages DEF Alone, MergeNetwork
  <2>2. UNCHANGED <<deviceId, member>>
    BY <1>4 DEF MergeNetwork
  <2>3. QED
    BY <1>0, <2>1, <2>2 DEF NodesInv, OneMember, OneNode
<1>5. ASSUME NEW s \in Syncer, DropMembership(s) PROVE NodesInv'
  <2>1. OneNode
    BY <1>5, EarlyStatement, Stages DEF Alone, DropMembership
  <2>2. UNCHANGED deviceId /\ member' \subseteq member
    BY <1>5 DEF DropMembership
  <2>3. OneMember' /\ OneNode'
    BY <1>0, <2>1, <2>2 DEF OneMember, OneNode
  <2>4. QED
    BY <1>0, <2>3 DEF NodesInv
<1>6. ASSUME NEW s \in Syncer, NEW x \in Device, MergeDevice(s, x) PROVE NodesInv'
  <2>1. OneNode
    BY <1>6, EarlyStatement, Stages DEF Alone, MergeDevice
  <2>2. \A e \in member : deviceId'[e[1]] = deviceId[e[1]]
    BY <1>0, <1>6, MergeDeviceKeeps
  <2>3. OneMember'
    BY <1>0, <1>6, <2>2, MembersStayOne DEF MergeDevice
  <2>4. \A u, w \in MergeTargets(x) : u = w
    BY <2>1, AbsenceAssumption DEF MergeTargets, Matching, OneNode
  <2>5. \A u \in Node \ MergeTargets(x) : deviceId[u] # x
    BY <1>6 DEF MergeTargets, Matching
  <2>6. OneNode'
    BY <1>6, <2>1, <2>4, <2>5 DEF OneNode, MergeDevice
  <2>7. QED
    BY <1>0, <2>3, <2>6 DEF NodesInv
<1>7. ASSUME NEW s \in Syncer, NEW x \in Device, JoinNetwork(s, x) PROVE NodesInv'
  <2>1. OneNode
    BY <1>7, EarlyStatement, Stages DEF Alone, JoinNetwork
  <2>2. UNCHANGED deviceId /\ member' = member \cup {<<u, doc[s].network>> : u \in Matching(x)}
    BY <1>7 DEF JoinNetwork
  <2>3. \A e \in member' : e[1] \in Node /\ deviceId[e[1]] # NoDevice
    BY <1>0, <2>2, AbsenceAssumption DEF Matching
  <2>4. OneMember' /\ OneNode'
    BY <2>1, <2>2, <2>3 DEF OneMember, OneNode
  <2>5. QED
    BY <1>0, <2>4 DEF NodesInv
<1>8. ASSUME NEW s \in Syncer, NEW l \in Link, MergeLink(s, l) PROVE NodesInv'
  <2>1. /\ Due(s, MergeLinkStmt(l)) /\ todo'[s] = todo[s] \ {MergeLinkStmt(l)}
        /\ UNCHANGED member
    BY <1>0, <1>8 DEF MergeLink, Executed, TypeOK, LoopTypeOK
  <2>2. \A other \in todo[s] : 5 <= Stage(other)
    BY <2>1, Stages DEF Due
  <2>3. DeleteOrphansStmt \in todo[s] /\ DeleteOrphansStmt # MergeLinkStmt(l)
    BY <1>0, <2>1, DueStages, Stages, RebuildHas
  <2>4. \A other \in todo[s] : Stage(other) \in Nat
    BY <1>0, StageNat DEF TypeOK, LoopTypeOK
  <2>5. ~BeforeLinks'
    <3>1. todo'[s] # {}
      BY <2>1, <2>3
    <3>2. \A st \in todo'[s] : ~(Stage(st) <= 4)
      BY <2>1, <2>2, <2>4
    <3>3. QED
      BY <3>1, <3>2 DEF BeforeLinks
  <2>6. OneMember'
    BY <1>0, <1>8, <2>1, MergeLinkKeeps, MembersStayOne
  <2>7. QED
    BY <1>0, <2>5, <2>6 DEF NodesInv
<1>9. ASSUME NEW s \in Syncer, DeleteOrphans(s) PROVE NodesInv'
  <2>1. /\ deviceId' = [u \in Node |-> IF Orphan(u) THEN NoDevice ELSE deviceId[u]]
        /\ UNCHANGED member
    BY <1>9 DEF DeleteOrphans
  <2>2. \A e \in member : deviceId'[e[1]] = deviceId[e[1]]
    BY <1>0, <2>1 DEF Orphan
  <2>3. OneMember'
    BY <1>0, <2>1, <2>2, MembersStayOne
  <2>4. \A u \in Node : deviceId'[u] # NoDevice =>
          deviceId'[u] = deviceId[u] /\ \E e \in member : e[1] = u
    BY <2>1 DEF Orphan
  <2>5. OneNode'
    BY <1>0, <2>4 DEF OneNode, OneMember
  <2>6. QED
    BY <1>0, <2>3, <2>5 DEF NodesInv
<1>10. ASSUME NEW s \in Syncer, NEW d \in queue[s], RaiseUnreadable(s, d) \/ Begin(s, d)
       PROVE  NodesInv'
  BY <1>2, <1>10 DEF RaiseUnreadable, Begin, Looks, Stopped, graph
<1>11. CASE UNCHANGED <<deviceId, member, todo>>
  BY <1>1, <1>11 DEF BeforeLinks
<1>12. QED
  BY <1>3, <1>4, <1>5, <1>6, <1>7, <1>8, <1>9, <1>10, <1>11, AloneStepCases
     DEF Poll, Start, Finish, Skip, graph, loop, vars

(* One Device node per id between rebuilds, what MERGE (d:Device {id}) is  *)
(* written for: true of one loop that is never cut, on links with ports,   *)
(* in spite of the second nodes that its path MERGE makes.                 *)
THEOREM NodesAreOne ==
  ASSUME Alone, Ported
  PROVE  Spec => []OneNodePerDevice
<1>1. Init => NodesInv
  BY DEF Init, NodesInv, OneMember, LinksPorted, OneNode
<1>2. LoopInv /\ NodesInv /\ [Next]_vars => LoopInv' /\ NodesInv'
  BY LoopInvStep, NodesStep DEF Alone
<1>3. NodesInv => OneNodePerDevice
  BY DEF NodesInv, BeforeLinks, OneNode, OneNodePerDevice
<1>4. QED
  BY <1>1, <1>2, <1>3, LoopInvInit, PTL DEF Spec
=============================================================================
