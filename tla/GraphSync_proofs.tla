-------------------------- MODULE GraphSync_proofs --------------------------
(***************************************************************************)
(* Theorems about GraphSync for any number of networks, devices, documents *)
(* and syncers, any of which may be cut.                                   *)
(***************************************************************************)
EXTENDS GraphSync, TLAPS

-----------------------------------------------------------------------------
(* Helpers of the type invariant.                                          *)

(* A syncer that has statements left is rebuilding a published document,   *)
(* whose fields have their types.                                          *)
LEMMA DocumentInHand ==
  ASSUME TypeOK, NEW s \in Syncer, NEW st, st \in todo[s]
  PROVE  /\ doc[s] \in published /\ doc[s] \in Document
         /\ doc[s].network \in Network /\ doc[s].asOf \in AsOf
         /\ doc[s].nodes \in SUBSET Device /\ doc[s].links \in SUBSET Link
BY DEF TypeOK, GraphTypeOK, LoopTypeOK, Document

(* Executing a statement keeps the types of the loop.                      *)
LEMMA ExecutedLoop ==
  ASSUME TypeOK, NEW s \in Syncer, NEW st, Executed(s, st)
  PROVE  LoopTypeOK'
BY DEF TypeOK, LoopTypeOK, Executed, Rebuild

(* Stopping a loop keeps every type.                                       *)
LEMMA StoppedType ==
  ASSUME TypeOK, NEW s \in Syncer, Stopped(s)
  PROVE  TypeOK'
BY DEF TypeOK, GraphTypeOK, LoopTypeOK, Stopped, graph, Rebuild

(* The two nodes that MERGE makes for a path are two free ones.            *)
LEMMA FreshEnds ==
  ASSUME FreePairs # {}
  PROVE  LET ends == CHOOSE e \in FreePairs : TRUE
         IN  /\ ends[1] \in Node /\ ends[2] \in Node /\ ends[1] # ends[2]
             /\ deviceId[ends[1]] = NoDevice /\ deviceId[ends[2]] = NoDevice
<1>1. (CHOOSE e \in FreePairs : TRUE) \in FreePairs
  OBVIOUS
<1>2. QED
  BY <1>1 DEF FreePairs, Free, Matching

-----------------------------------------------------------------------------
LEMMA TypeInit == Init => TypeOK
BY NetworkAssumption DEF Init, TypeOK, GraphTypeOK, LoopTypeOK

LEMMA TypePoll ==
  ASSUME TypeOK, NEW n \in Network, Poll(n)
  PROVE  TypeOK'
<1>1. PICK v \in AsOf : \E c \in Contents[n][v] :
        published' = published \cup
          {[network |-> n, asOf |-> v, nodes |-> c.nodes,
            links |-> c.links, readable |-> c.readable]}
  BY DEF Poll
<1>2. PICK c \in Contents[n][v] :
        published' = published \cup
          {[network |-> n, asOf |-> v, nodes |-> c.nodes,
            links |-> c.links, readable |-> c.readable]}
  BY <1>1
<1>3. c \in Content
  BY <1>2, NetworkAssumption
<1>4. published' \subseteq Document /\ published \subseteq published'
  BY <1>2, <1>3 DEF TypeOK, GraphTypeOK, Document, Content
<1>5. QED
  BY <1>4 DEF TypeOK, GraphTypeOK, LoopTypeOK, Poll, graph, loop

LEMMA TypeMergeNetwork ==
  ASSUME TypeOK, NEW s \in Syncer, MergeNetwork(s)
  PROVE  TypeOK'
<1>1. doc[s].network \in Network /\ Mark(doc[s]) \in 0..MaxAsOf
  BY DocumentInHand, NetworkAssumption DEF MergeNetwork, Due, Mark, AsOf
<1>2. GraphTypeOK'
  BY <1>1 DEF TypeOK, GraphTypeOK, MergeNetwork, Executed
<1>3. QED
  BY <1>2, ExecutedLoop DEF MergeNetwork, TypeOK

LEMMA TypeDropMembership ==
  ASSUME TypeOK, NEW s \in Syncer, DropMembership(s)
  PROVE  TypeOK'
<1>1. GraphTypeOK'
  BY DEF TypeOK, GraphTypeOK, DropMembership, Executed
<1>2. QED
  BY <1>1, ExecutedLoop DEF DropMembership, TypeOK

LEMMA TypeMergeDevice ==
  ASSUME TypeOK, NEW s \in Syncer, NEW x \in Device, MergeDevice(s, x)
  PROVE  TypeOK'
<1>1. <<doc[s].network, doc[s].asOf>> \in Network \X AsOf
  BY DocumentInHand DEF MergeDevice, Due
<1>2. GraphTypeOK'
  BY <1>1 DEF TypeOK, GraphTypeOK, MergeDevice, Executed
<1>3. QED
  BY <1>2, ExecutedLoop DEF MergeDevice, TypeOK

LEMMA TypeJoinNetwork ==
  ASSUME TypeOK, NEW s \in Syncer, NEW x \in Device, JoinNetwork(s, x)
  PROVE  TypeOK'
<1>1. doc[s].network \in Network
  BY DocumentInHand DEF JoinNetwork, Due
<1>2. GraphTypeOK'
  BY <1>1 DEF TypeOK, GraphTypeOK, JoinNetwork, Executed, Matching
<1>3. QED
  BY <1>2, ExecutedLoop DEF JoinNetwork, TypeOK

LEMMA TypeMergeLink ==
  ASSUME TypeOK, NEW s \in Syncer, NEW l \in Link, MergeLink(s, l)
  PROVE  TypeOK'
<1>1. l.source \in Device /\ l.target \in Device /\ l.port \in Port
  BY DEF MergeLink, Refused, Link
<1>2. CASE PathExists(l)
  <2>1. GraphTypeOK'
    BY <1>2 DEF TypeOK, GraphTypeOK, MergeLink, Executed
  <2>2. QED
    BY <2>1, ExecutedLoop DEF MergeLink, TypeOK
<1>3. CASE ~PathExists(l)
  <2> DEFINE ends == CHOOSE e \in FreePairs : TRUE
  <2>1. /\ FreePairs # {}
        /\ deviceId' = [deviceId EXCEPT ![ends[1]] = l.source, ![ends[2]] = l.target]
        /\ deviceFrom' = [deviceFrom EXCEPT ![ends[1]] = NoSource, ![ends[2]] = NoSource]
        /\ linked' = linked \cup {[from |-> ends[1], to |-> ends[2], port |-> l.port]}
    BY <1>3 DEF MergeLink, MakePath
  <2>2. ends[1] \in Node /\ ends[2] \in Node
    BY <2>1, FreshEnds
  <2> HIDE DEF ends
  <2>3. GraphTypeOK'
    BY <1>1, <2>1, <2>2 DEF TypeOK, GraphTypeOK, MergeLink, Executed
  <2>4. QED
    BY <2>3, ExecutedLoop DEF MergeLink, TypeOK
<1>4. QED
  BY <1>2, <1>3

LEMMA TypeDeleteOrphans ==
  ASSUME TypeOK, NEW s \in Syncer, DeleteOrphans(s)
  PROVE  TypeOK'
<1>1. GraphTypeOK'
  BY DEF TypeOK, GraphTypeOK, DeleteOrphans, Executed
<1>2. QED
  BY <1>1, ExecutedLoop DEF DeleteOrphans, TypeOK

(* The steps of the loop that leave the graph alone.                       *)
LEMMA TypeLoop ==
  ASSUME TypeOK, NEW s \in Syncer,
         Start(s) \/ Finish(s) \/ \E d \in queue[s] : Skip(s, d) \/ Begin(s, d)
  PROVE  TypeOK'
<1>1. CASE Start(s)
  BY <1>1 DEF Start, Current, TypeOK, GraphTypeOK, LoopTypeOK, graph, Rebuild
<1>2. CASE Finish(s)
  BY <1>2 DEF Finish, TypeOK, GraphTypeOK, LoopTypeOK, graph, Rebuild
<1>3. ASSUME NEW d \in queue[s], Skip(s, d) PROVE TypeOK'
  BY <1>3 DEF Skip, TypeOK, GraphTypeOK, LoopTypeOK, graph, Rebuild
<1>4. ASSUME NEW d \in queue[s], Begin(s, d) PROVE TypeOK'
  <2>1. d \in published
    BY DEF TypeOK, LoopTypeOK
  <2>2. QED
    BY <1>4, <2>1 DEF Begin, TypeOK, GraphTypeOK, LoopTypeOK, graph
<1>5. QED
  BY <1>1, <1>2, <1>3, <1>4

LEMMA TypeStep == TypeOK /\ [Next]_vars => TypeOK'
<1> SUFFICES ASSUME TypeOK, [Next]_vars PROVE TypeOK'
  OBVIOUS
<1>1. ASSUME NEW n \in Network, Poll(n) PROVE TypeOK'
  BY <1>1, TypePoll
<1>2. ASSUME NEW s \in Syncer, Start(s) PROVE TypeOK'
  BY <1>2, TypeLoop
<1>3. ASSUME NEW s \in Syncer, Cut(s) PROVE TypeOK'
  BY <1>3, StoppedType DEF Cut
<1>4. ASSUME NEW s \in Syncer, Pass(s) PROVE TypeOK'
  <2>1. ASSUME NEW d \in queue[s], Skip(s, d) \/ Begin(s, d) PROVE TypeOK'
    BY <2>1, TypeLoop
  <2>2. ASSUME NEW d \in queue[s], RaiseUnreadable(s, d) PROVE TypeOK'
    BY <2>2, StoppedType DEF RaiseUnreadable
  <2>3. CASE MergeNetwork(s)
    BY <2>3, TypeMergeNetwork
  <2>4. CASE DropMembership(s)
    BY <2>4, TypeDropMembership
  <2>5. ASSUME NEW x \in Device, MergeDevice(s, x) \/ JoinNetwork(s, x) PROVE TypeOK'
    BY <2>5, TypeMergeDevice, TypeJoinNetwork
  <2>6. ASSUME NEW l \in Link, MergeLink(s, l) PROVE TypeOK'
    BY <2>6, TypeMergeLink
  <2>7. ASSUME NEW l \in Link, RaiseNullPort(s, l) PROVE TypeOK'
    BY <2>7, StoppedType DEF RaiseNullPort
  <2>8. CASE DeleteOrphans(s)
    BY <2>8, TypeDeleteOrphans
  <2>9. CASE Finish(s)
    BY <2>9, TypeLoop
  <2>10. QED
    BY <1>4, <2>1, <2>2, <2>3, <2>4, <2>5, <2>6, <2>7, <2>8, <2>9 DEF Pass
<1>5. CASE UNCHANGED vars
  BY <1>5 DEF vars, graph, loop, TypeOK, GraphTypeOK, LoopTypeOK, Rebuild
<1>6. QED
  BY <1>1, <1>2, <1>3, <1>4, <1>5 DEF Next

(* Every reachable state has the declared types: in particular a loop only *)
(* executes statements of a document that Elasticsearch did return.        *)
THEOREM TypeCorrect == Spec => []TypeOK
<1>1. Init => TypeOK
  BY TypeInit
<1>2. TypeOK /\ [Next]_vars => TypeOK'
  BY TypeStep
<1>3. QED
  BY <1>1, <1>2, PTL DEF Spec

-----------------------------------------------------------------------------
(* The freshness marker and the edges.                                     *)

(* Every step of a loop is one of these; the proofs below go through them. *)
LEMMA StepCases ==
  ASSUME [Next]_vars
  PROVE  \/ \E n \in Network : Poll(n)
         \/ \E s \in Syncer : Start(s) \/ Finish(s)
         \/ \E s \in Syncer : Stopped(s)
         \/ \E s \in Syncer : \E d \in queue[s] : Skip(s, d)
         \/ \E s \in Syncer : \E d \in queue[s] : Begin(s, d)
         \/ \E s \in Syncer : MergeNetwork(s)
         \/ \E s \in Syncer : DropMembership(s)
         \/ \E s \in Syncer : \E x \in Device : MergeDevice(s, x)
         \/ \E s \in Syncer : \E x \in Device : JoinNetwork(s, x)
         \/ \E s \in Syncer : \E l \in Link : MergeLink(s, l)
         \/ \E s \in Syncer : DeleteOrphans(s)
         \/ UNCHANGED vars
BY DEF Next, Pass, Cut, RaiseUnreadable, RaiseNullPort

LEMMA MarkStep ==
  ASSUME TypeOK, LastSyncedWasPublished, [Next]_vars
  PROVE  LastSyncedWasPublished'
<1>1. CASE UNCHANGED lastSynced /\ published \subseteq published'
  BY <1>1 DEF LastSyncedWasPublished
<1>2. ASSUME NEW s \in Syncer, MergeNetwork(s) PROVE LastSyncedWasPublished'
  <2>1. doc[s] \in published
    BY <1>2, DocumentInHand DEF MergeNetwork, Due
  <2>2. /\ lastSynced' = [lastSynced EXCEPT ![doc[s].network] = doc[s].asOf]
        /\ published' = published
    BY <1>2 DEF MergeNetwork, Mark, Executed
  <2>3. QED
    BY <2>1, <2>2 DEF LastSyncedWasPublished, TypeOK, GraphTypeOK
<1>3. QED
  BY <1>1, <1>2, StepCases
     DEF Poll, Start, Finish, Stopped, Skip, Begin, DropMembership, MergeDevice,
         JoinNetwork, MergeLink, DeleteOrphans, Executed, graph, vars

(* The freshness marker of a network never names a topology that was not   *)
(* polled for that network, whatever runs at once and whatever is cut.     *)
THEOREM MarkNeverAhead == Spec => []LastSyncedWasPublished
<1>1. Init => LastSyncedWasPublished
  BY DEF Init, LastSyncedWasPublished
<1>2. TypeOK /\ LastSyncedWasPublished /\ [Next]_vars => LastSyncedWasPublished'
  BY MarkStep
<1>3. QED
  BY <1>1, <1>2, TypeCorrect, PTL DEF Spec

(* The statements of a rebuild are about the nodes and links of its        *)
(* document.                                                               *)
LEMMA StatementOfDocument ==
  ASSUME TypeOK, NEW s \in Syncer
  PROVE  /\ \A x : MergeDeviceStmt(x) \in todo[s] => x \in doc[s].nodes
         /\ \A x : JoinNetworkStmt(x) \in todo[s] => x \in doc[s].nodes
         /\ \A l : MergeLinkStmt(l) \in todo[s] => l \in doc[s].links
BY DEF TypeOK, LoopTypeOK, Rebuild, MergeNetworkStmt, DropMembershipStmt, MergeDeviceStmt,
       JoinNetworkStmt, MergeLinkStmt, DeleteOrphansStmt

(* A node at an end of an edge exists.                                     *)
LEMMA EndsExist ==
  ASSUME TypeOK, EdgesComeFromTopology
  PROVE  /\ \A e \in member : deviceId[e[1]] # NoDevice
         /\ \A e \in linked : deviceId[e.from] # NoDevice /\ deviceId[e.to] # NoDevice
<1>1. \A d \in published : d.nodes \subseteq Device /\ d.links \subseteq Link
  BY DEF TypeOK, GraphTypeOK, Document
<1>2. \A e \in member : deviceId[e[1]] \in Device
  BY <1>1 DEF EdgesComeFromTopology
<1>3. \A e \in linked : deviceId[e.from] \in Device /\ deviceId[e.to] \in Device
  BY <1>1 DEF EdgesComeFromTopology, Link
<1>4. QED
  BY <1>2, <1>3, AbsenceAssumption

(* A step that keeps the id of every node at the end of a remaining edge   *)
(* keeps what the edges come from.                                         *)
LEMMA EdgesKept ==
  ASSUME EdgesComeFromTopology, published \subseteq published',
         member' \subseteq member, linked' \subseteq linked,
         \A e \in member' : deviceId'[e[1]] = deviceId[e[1]],
         \A e \in linked' : deviceId'[e.from] = deviceId[e.from]
                              /\ deviceId'[e.to] = deviceId[e.to]
  PROVE  EdgesComeFromTopology'
<1>1. \A e \in member' : \E d \in published' : d.network = e[2] /\ deviceId'[e[1]] \in d.nodes
  BY DEF EdgesComeFromTopology
<1>2. ASSUME NEW e \in linked'
      PROVE  \E d \in published' :
               [source |-> deviceId'[e.from], target |-> deviceId'[e.to], port |-> e.port] \in d.links
  <2>1. deviceId'[e.from] = deviceId[e.from] /\ deviceId'[e.to] = deviceId[e.to]
    OBVIOUS
  <2>2. PICK d \in published :
          [source |-> deviceId[e.from], target |-> deviceId[e.to], port |-> e.port] \in d.links
    BY DEF EdgesComeFromTopology
  <2>3. QED
    BY <2>1, <2>2
<1>3. QED
  BY <1>1, <1>2 DEF EdgesComeFromTopology

LEMMA EdgesStep ==
  ASSUME TypeOK, EdgesComeFromTopology, [Next]_vars
  PROVE  EdgesComeFromTopology'
<1>1. CASE UNCHANGED <<deviceId, member, linked>> /\ published \subseteq published'
  BY <1>1, EdgesKept
<1>2. ASSUME NEW s \in Syncer, DropMembership(s) PROVE EdgesComeFromTopology'
  BY <1>2, EdgesKept DEF DropMembership, Executed
<1>3. ASSUME NEW s \in Syncer, NEW x \in Device, MergeDevice(s, x)
      PROVE  EdgesComeFromTopology'
  <2>1. \A u \in Node : deviceId[u] # NoDevice => deviceId'[u] = deviceId[u]
    <3>1. \A u \in MergeTargets(x) : deviceId[u] \in {x, NoDevice}
      BY <1>3 DEF MergeTargets, Matching, Free, MergeDevice
    <3>2. QED
      BY <1>3, <3>1 DEF MergeDevice
  <2>2. /\ \A e \in member : e[1] \in Node
        /\ \A e \in linked : e.from \in Node /\ e.to \in Node
    BY DEF TypeOK, GraphTypeOK
  <2>3. UNCHANGED <<published, member, linked>>
    BY <1>3 DEF MergeDevice, Executed
  <2>4. QED
    BY <2>1, <2>2, <2>3, EndsExist, EdgesKept
<1>4. ASSUME NEW s \in Syncer, NEW x \in Device, JoinNetwork(s, x)
      PROVE  EdgesComeFromTopology'
  <2>1. doc[s] \in published /\ x \in doc[s].nodes
    BY <1>4, DocumentInHand, StatementOfDocument DEF JoinNetwork, Due
  <2>2. UNCHANGED <<published, deviceId, linked>>
    BY <1>4 DEF JoinNetwork, Executed
  <2>3. \A e \in member' : e \in member \/ (deviceId[e[1]] = x /\ e[2] = doc[s].network)
    BY <1>4 DEF JoinNetwork, Matching
  <2>4. \A e \in member' : \E d \in published' : d.network = e[2] /\ deviceId'[e[1]] \in d.nodes
    BY <2>1, <2>2, <2>3 DEF EdgesComeFromTopology
  <2>5. QED
    BY <2>2, <2>4 DEF EdgesComeFromTopology
<1>5. ASSUME NEW s \in Syncer, NEW l \in Link, MergeLink(s, l), ~PathExists(l)
      PROVE  EdgesComeFromTopology'
  <2> DEFINE ends == CHOOSE e \in FreePairs : TRUE
             new  == [from |-> ends[1], to |-> ends[2], port |-> l.port]
  <2>1. /\ FreePairs # {}
        /\ deviceId' = [deviceId EXCEPT ![ends[1]] = l.source, ![ends[2]] = l.target]
        /\ linked' = linked \cup {new}
        /\ UNCHANGED <<published, member>>
    BY <1>5 DEF MergeLink, MakePath, Executed
  <2>2. /\ ends[1] \in Node /\ ends[2] \in Node /\ ends[1] # ends[2]
        /\ deviceId[ends[1]] = NoDevice /\ deviceId[ends[2]] = NoDevice
    BY <2>1, FreshEnds
  <2> HIDE DEF ends
  <2>3. \A u \in Node : deviceId[u] # NoDevice => deviceId'[u] = deviceId[u]
    BY <2>1, <2>2 DEF TypeOK, GraphTypeOK
  <2>4. deviceId'[ends[1]] = l.source /\ deviceId'[ends[2]] = l.target
    BY <2>1, <2>2 DEF TypeOK, GraphTypeOK
  <2>5. doc[s] \in published /\ l \in doc[s].links
    BY <1>5, DocumentInHand, StatementOfDocument DEF MergeLink, Due
  <2>6. /\ \A e \in member : e[1] \in Node
        /\ \A e \in linked : e.from \in Node /\ e.to \in Node
    BY DEF TypeOK, GraphTypeOK
  <2>7. \A e \in member' : \E d \in published' : d.network = e[2] /\ deviceId'[e[1]] \in d.nodes
    BY <2>1, <2>3, <2>6, EndsExist DEF EdgesComeFromTopology
  <2>8. ASSUME NEW e \in linked
        PROVE  \E d \in published' :
                 [source |-> deviceId'[e.from], target |-> deviceId'[e.to], port |-> e.port] \in d.links
    <3>1. deviceId'[e.from] = deviceId[e.from] /\ deviceId'[e.to] = deviceId[e.to]
      BY <2>3, <2>6, EndsExist
    <3>2. PICK d \in published :
            [source |-> deviceId[e.from], target |-> deviceId[e.to], port |-> e.port] \in d.links
      BY DEF EdgesComeFromTopology
    <3>3. QED
      BY <2>1, <3>1, <3>2
  <2>9. [source |-> deviceId'[new.from], target |-> deviceId'[new.to], port |-> new.port] = l
    BY <2>4 DEF Link
  <2>10. QED
    BY <2>1, <2>5, <2>7, <2>8, <2>9 DEF EdgesComeFromTopology
<1>6. ASSUME NEW s \in Syncer, DeleteOrphans(s) PROVE EdgesComeFromTopology'
  <2>1. /\ UNCHANGED <<published, member>>
        /\ linked' = {e \in linked : ~Orphan(e.from) /\ ~Orphan(e.to)}
        /\ \A u \in Node : ~Orphan(u) => deviceId'[u] = deviceId[u]
    BY <1>6 DEF DeleteOrphans, Survives, Executed
  <2>2. \A e \in member : e[1] \in Node /\ ~Orphan(e[1])
    BY DEF Orphan, TypeOK, GraphTypeOK
  <2>3. \A e \in linked : e.from \in Node /\ e.to \in Node
    BY DEF TypeOK, GraphTypeOK
  <2>4. QED
    BY <2>1, <2>2, <2>3, EdgesKept
<1>7. QED
  BY <1>1, <1>2, <1>3, <1>4, <1>5, <1>6, StepCases
     DEF Poll, Start, Finish, Stopped, Skip, Begin, MergeNetwork, MergeLink, Executed,
         graph, vars

(* No IN_NETWORK or LINKED_TO edge is made up, and none dangles.           *)
THEOREM EdgesAreReal == Spec => []EdgesComeFromTopology
<1>1. Init => EdgesComeFromTopology
  BY DEF Init, EdgesComeFromTopology
<1>2. TypeOK /\ EdgesComeFromTopology /\ [Next]_vars => EdgesComeFromTopology'
  BY EdgesStep
<1>3. QED
  BY <1>1, <1>2, TypeCorrect, PTL DEF Spec
-----------------------------------------------------------------------------
(* An undisturbed rebuild.                                                 *)

(* The statements of a rebuild are executed by stage: what comes later     *)
(* than a statement that is left is left too.                              *)
StagesInOrder ==
  \A s \in Syncer : \A st \in todo[s] : \A other \in Rebuild(doc[s]) :
    Stage(st) < Stage(other) => other \in todo[s]

(* What the statements executed so far have established, as long as no     *)
(* other syncer wrote.                                                     *)
MarkDone(s, d) ==
  MergeNetworkStmt \notin todo[s] => lastSynced[d.network] = d.asOf

MembersDone(s, d) ==
  DropMembershipStmt \notin todo[s] =>
    \A e \in member : e[2] = d.network =>
      /\ deviceId[e[1]] \in d.nodes
      /\ JoinNetworkStmt(deviceId[e[1]]) \notin todo[s]
      /\ deviceFrom[e[1]] = <<d.network, d.asOf>>

DevicesDone(s, d) ==
  \A x \in d.nodes :
    MergeDeviceStmt(x) \notin todo[s] /\ JoinNetworkStmt(x) \in todo[s] =>
      /\ Matching(x) # {}
      /\ \A u \in Matching(x) : deviceFrom[u] = <<d.network, d.asOf>>

JoinsDone(s, d) ==
  \A x \in d.nodes : JoinNetworkStmt(x) \notin todo[s] =>
    \E u \in Matching(x) : <<u, d.network>> \in member

OrphansDone(s) ==
  DeleteOrphansStmt \notin todo[s] => \A u \in Node : ~Orphan(u)

RebuildProgress(s, d) ==
  /\ MarkDone(s, d) /\ MembersDone(s, d) /\ DevicesDone(s, d)
  /\ JoinsDone(s, d) /\ OrphansDone(s)

Undisturbed == \A s \in Syncer : undisturbed[s] => RebuildProgress(s, doc[s])
RebuildInv  == StagesInOrder /\ Undisturbed

(* The stages of the statements, and which statements a rebuild has.       *)
LEMMA Stages ==
  /\ Stage(MergeNetworkStmt) = 1 /\ Stage(DropMembershipStmt) = 2
  /\ \A x : Stage(MergeDeviceStmt(x)) = 3
  /\ \A x : Stage(JoinNetworkStmt(x)) = 4
  /\ \A l : Stage(MergeLinkStmt(l)) = 5
  /\ Stage(DeleteOrphansStmt) = 6
BY DEF Stage, MergeNetworkStmt, DropMembershipStmt, MergeDeviceStmt, JoinNetworkStmt,
       MergeLinkStmt, DeleteOrphansStmt

LEMMA RebuildHas ==
  ASSUME NEW d
  PROVE  /\ MergeNetworkStmt \in Rebuild(d) /\ DropMembershipStmt \in Rebuild(d)
         /\ DeleteOrphansStmt \in Rebuild(d)
         /\ \A x \in d.nodes : MergeDeviceStmt(x) \in Rebuild(d) /\ JoinNetworkStmt(x) \in Rebuild(d)
BY DEF Rebuild

LEMMA StageNat ==
  ASSUME NEW d, NEW st \in Rebuild(d)
  PROVE  Stage(st) \in 1..6
BY Stages DEF Rebuild

(* When a statement is due, nothing of an earlier stage is left, and       *)
(* everything of a later stage is.                                         *)
LEMMA DueStages ==
  ASSUME TypeOK, StagesInOrder, NEW s \in Syncer, NEW st, Due(s, st)
  PROVE  /\ \A other \in todo[s] : Stage(st) <= Stage(other)
         /\ \A other \in Rebuild(doc[s]) : Stage(st) < Stage(other) => other \in todo[s]
BY DEF Due, StagesInOrder

LEMMA StagesExecuted ==
  ASSUME TypeOK, StagesInOrder, NEW s \in Syncer, NEW st, Due(s, st), Executed(s, st)
  PROVE  StagesInOrder'
<1>1. doc' = doc /\ todo'[s] = todo[s] \ {st} /\ \A t \in Syncer \ {s} : todo'[t] = todo[t]
  BY DEF Executed, TypeOK, LoopTypeOK
<1>2. ASSUME NEW left \in todo'[s], NEW other \in Rebuild(doc[s]), Stage(left) < Stage(other)
      PROVE  other \in todo'[s]
  <2>1. left \in todo[s] /\ other \in todo[s]
    BY <1>1, <1>2 DEF StagesInOrder
  <2>2. Stage(st) <= Stage(left)
    BY <2>1 DEF Due
  <2>3. Stage(st) \in 1..6 /\ Stage(left) \in 1..6 /\ Stage(other) \in 1..6
    BY <2>1, StageNat DEF Due, TypeOK, LoopTypeOK
  <2>4. other # st
    BY <1>2, <2>2, <2>3
  <2>5. QED
    BY <1>1, <2>1, <2>4
<1>3. QED
  BY <1>1, <1>2 DEF StagesInOrder

(* The nodes that exist keep their id, and those a MERGE adds are new.     *)
LEMMA MergeDeviceKeeps ==
  ASSUME TypeOK, NEW s \in Syncer, NEW x \in Device, MergeDevice(s, x)
  PROVE  \A u \in Node : deviceId[u] # NoDevice => deviceId'[u] = deviceId[u]
<1>1. \A u \in MergeTargets(x) : deviceId[u] \in {x, NoDevice}
  BY DEF MergeTargets, Matching, Free, MergeDevice
<1>2. QED
  BY <1>1 DEF MergeDevice

LEMMA MergeLinkKeeps ==
  ASSUME TypeOK, NEW s \in Syncer, NEW l \in Link, MergeLink(s, l)
  PROVE  \A u \in Node : deviceId[u] # NoDevice =>
           deviceId'[u] = deviceId[u] /\ deviceFrom'[u] = deviceFrom[u]
<1> DEFINE ends == CHOOSE e \in FreePairs : TRUE
<1>1. CASE PathExists(l)
  BY <1>1 DEF MergeLink
<1>2. CASE ~PathExists(l)
  <2>1. /\ FreePairs # {}
        /\ deviceId' = [deviceId EXCEPT ![ends[1]] = l.source, ![ends[2]] = l.target]
        /\ deviceFrom' = [deviceFrom EXCEPT ![ends[1]] = NoSource, ![ends[2]] = NoSource]
    BY <1>2 DEF MergeLink, MakePath
  <2>2. deviceId[ends[1]] = NoDevice /\ deviceId[ends[2]] = NoDevice
    BY <2>1, FreshEnds
  <2> HIDE DEF ends
  <2>3. QED
    BY <2>1, <2>2 DEF TypeOK, GraphTypeOK
<1>3. QED
  BY <1>1, <1>2

(* A statement of s only leaves the claim of s to be shown.                *)
LEMMA UndisturbedExecuted ==
  ASSUME TypeOK, NEW s \in Syncer, NEW st, Executed(s, st),
         undisturbed[s] => RebuildProgress(s, doc[s])'
  PROVE  Undisturbed'
<1>1. \A t \in Syncer : undisturbed'[t] => t = s /\ undisturbed[s]
  BY DEF Executed
<1>2. QED
  BY <1>1 DEF Undisturbed

LEMMA ProgressMergeNetwork ==
  ASSUME TypeOK, RebuildInv, NEW s \in Syncer, MergeNetwork(s), undisturbed[s]
  PROVE  RebuildProgress(s, doc[s])'
<1> DEFINE d == doc[s]
<1>1. /\ todo'[s] = todo[s] \ {MergeNetworkStmt} /\ doc' = doc
      /\ UNCHANGED <<deviceId, deviceFrom, member>>
  BY DEF MergeNetwork, Executed, TypeOK, LoopTypeOK
<1>2. RebuildProgress(s, d)
  BY DEF RebuildInv, Undisturbed
<1>3. lastSynced'[d.network] = d.asOf
  BY DocumentInHand DEF MergeNetwork, Mark, Due, TypeOK, GraphTypeOK
<1>4. \A x : MergeDeviceStmt(x) # MergeNetworkStmt /\ JoinNetworkStmt(x) # MergeNetworkStmt
  BY Stages
<1>5. DropMembershipStmt # MergeNetworkStmt /\ DeleteOrphansStmt # MergeNetworkStmt
  BY Stages
<1>6. QED
  BY <1>1, <1>2, <1>3, <1>4, <1>5
     DEF RebuildProgress, MarkDone, MembersDone, DevicesDone, JoinsDone, OrphansDone,
         Matching, Orphan

LEMMA ProgressDropMembership ==
  ASSUME TypeOK, RebuildInv, NEW s \in Syncer, DropMembership(s), undisturbed[s]
  PROVE  RebuildProgress(s, doc[s])'
<1> DEFINE d == doc[s]
<1>1. /\ todo'[s] = todo[s] \ {DropMembershipStmt} /\ doc' = doc
      /\ member' = {e \in member : e[2] # d.network}
      /\ UNCHANGED <<deviceId, deviceFrom, lastSynced>>
  BY DEF DropMembership, Executed, TypeOK, LoopTypeOK
<1>2. RebuildProgress(s, d)
  BY DEF RebuildInv, Undisturbed
<1>3. /\ \A x \in d.nodes : JoinNetworkStmt(x) \in todo[s]
      /\ DeleteOrphansStmt \in todo[s]
  BY DueStages, RebuildHas, Stages DEF DropMembership, RebuildInv
<1>4. /\ \A x : MergeDeviceStmt(x) # DropMembershipStmt /\ JoinNetworkStmt(x) # DropMembershipStmt
      /\ MergeNetworkStmt # DropMembershipStmt /\ DeleteOrphansStmt # DropMembershipStmt
  BY Stages
<1>5. QED
  BY <1>1, <1>2, <1>3, <1>4
     DEF RebuildProgress, MarkDone, MembersDone, DevicesDone, JoinsDone, OrphansDone, Matching

LEMMA ProgressMergeDevice ==
  ASSUME TypeOK, RebuildInv, NEW s \in Syncer, NEW x \in Device, MergeDevice(s, x), undisturbed[s]
  PROVE  RebuildProgress(s, doc[s])'
<1> DEFINE d == doc[s]
           source == <<d.network, d.asOf>>
<1>1. /\ todo'[s] = todo[s] \ {MergeDeviceStmt(x)} /\ doc' = doc
      /\ deviceId' = [u \in Node |-> IF u \in MergeTargets(x) THEN x ELSE deviceId[u]]
      /\ deviceFrom' = [u \in Node |-> IF u \in MergeTargets(x) THEN source ELSE deviceFrom[u]]
      /\ UNCHANGED <<lastSynced, member>>
  BY DEF MergeDevice, Executed, TypeOK, LoopTypeOK
<1>2. RebuildProgress(s, d)
  BY DEF RebuildInv, Undisturbed
<1>3. /\ \A y \in d.nodes : JoinNetworkStmt(y) \in todo[s]
      /\ DeleteOrphansStmt \in todo[s]
  BY DueStages, RebuildHas, Stages DEF MergeDevice, RebuildInv
<1>4. /\ \A y : JoinNetworkStmt(y) # MergeDeviceStmt(x)
      /\ \A y : y # x => MergeDeviceStmt(y) # MergeDeviceStmt(x)
      /\ MergeNetworkStmt # MergeDeviceStmt(x) /\ DropMembershipStmt # MergeDeviceStmt(x)
      /\ DeleteOrphansStmt # MergeDeviceStmt(x)
  BY Stages DEF MergeDeviceStmt
<1>5. d.nodes \subseteq Device
  BY DocumentInHand DEF MergeDevice, Due
<1>6. MarkDone(s, d)'
  BY <1>1, <1>2, <1>4 DEF RebuildProgress, MarkDone
<1>7. MembersDone(s, d)'
  <2> SUFFICES ASSUME DropMembershipStmt \notin todo[s], NEW e \in member, e[2] = d.network
               PROVE  /\ deviceId'[e[1]] \in d.nodes
                      /\ JoinNetworkStmt(deviceId'[e[1]]) \notin todo[s]
                      /\ deviceFrom'[e[1]] = source
    BY <1>1, <1>4 DEF MembersDone
  <2>1. /\ deviceId[e[1]] \in d.nodes /\ JoinNetworkStmt(deviceId[e[1]]) \notin todo[s]
        /\ deviceFrom[e[1]] = source
    BY <1>2 DEF RebuildProgress, MembersDone
  <2>2. QED
    BY <1>3, <2>1
<1>8. DevicesDone(s, d)'
  <2>1. Matching(x)' # {} /\ \A u \in Matching(x)' : deviceFrom'[u] = source
    <3>1. MergeTargets(x) # {} /\ MergeTargets(x) \subseteq Node /\ Matching(x) \subseteq MergeTargets(x)
      BY DEF MergeTargets, MergeDevice, Matching, Free
    <3>2. Matching(x)' = MergeTargets(x)
      BY <1>1, <3>1 DEF Matching
    <3>3. QED
      BY <1>1, <3>1, <3>2
  <2>2. ASSUME NEW y \in d.nodes, y # x
        PROVE  /\ Matching(y)' = Matching(y)
               /\ \A u \in Matching(y) : deviceFrom'[u] = deviceFrom[u]
    <3>1. \A u \in MergeTargets(x) : deviceId[u] \in {x, NoDevice}
      BY DEF MergeTargets, Matching, Free, MergeDevice
    <3>2. y # NoDevice
      BY <1>5, AbsenceAssumption
    <3>3. QED
      BY <1>1, <2>2, <3>1, <3>2 DEF Matching
  <2>3. QED
    BY <1>1, <1>2, <1>4, <2>1, <2>2 DEF RebuildProgress, DevicesDone
<1>9. JoinsDone(s, d)' /\ OrphansDone(s)'
  BY <1>1, <1>3, <1>4 DEF JoinsDone, OrphansDone
<1>10. QED
  BY <1>1, <1>6, <1>7, <1>8, <1>9 DEF RebuildProgress

LEMMA ProgressJoinNetwork ==
  ASSUME TypeOK, RebuildInv, NEW s \in Syncer, NEW x \in Device, JoinNetwork(s, x), undisturbed[s]
  PROVE  RebuildProgress(s, doc[s])'
<1> DEFINE d == doc[s]
           source == <<d.network, d.asOf>>
<1>1. /\ todo'[s] = todo[s] \ {JoinNetworkStmt(x)} /\ doc' = doc
      /\ member' = member \cup {<<u, d.network>> : u \in Matching(x)}
      /\ UNCHANGED <<lastSynced, deviceId, deviceFrom>>
  BY DEF JoinNetwork, Executed, TypeOK, LoopTypeOK
<1>2. RebuildProgress(s, d)
  BY DEF RebuildInv, Undisturbed
<1>3. /\ x \in d.nodes /\ JoinNetworkStmt(x) \in todo[s]
      /\ MergeDeviceStmt(x) \notin todo[s]
      /\ DeleteOrphansStmt \in todo[s]
  BY DueStages, RebuildHas, StatementOfDocument, Stages DEF JoinNetwork, RebuildInv, Due
<1>4. /\ \A y : MergeDeviceStmt(y) # JoinNetworkStmt(x)
      /\ \A y : y # x => JoinNetworkStmt(y) # JoinNetworkStmt(x)
      /\ MergeNetworkStmt # JoinNetworkStmt(x) /\ DropMembershipStmt # JoinNetworkStmt(x)
      /\ DeleteOrphansStmt # JoinNetworkStmt(x)
  BY Stages DEF JoinNetworkStmt
<1>5. Matching(x) # {} /\ \A u \in Matching(x) : deviceId[u] = x /\ deviceFrom[u] = source
  BY <1>2, <1>3 DEF RebuildProgress, DevicesDone, Matching
<1>6. MarkDone(s, d)' /\ OrphansDone(s)'
  BY <1>1, <1>2, <1>3, <1>4 DEF RebuildProgress, MarkDone, OrphansDone
<1>7. MembersDone(s, d)'
  <2> SUFFICES ASSUME DropMembershipStmt \notin todo[s], NEW e \in member', e[2] = d.network
               PROVE  /\ deviceId[e[1]] \in d.nodes
                      /\ JoinNetworkStmt(deviceId[e[1]]) \notin todo'[s]
                      /\ deviceFrom[e[1]] = source
    BY <1>1, <1>4 DEF MembersDone
  <2>1. CASE e \in member
    BY <1>1, <1>2, <2>1 DEF RebuildProgress, MembersDone
  <2>2. CASE e \notin member
    <3>1. e[1] \in Matching(x)
      BY <1>1, <2>2
    <3>2. QED
      BY <1>1, <1>3, <1>5, <3>1
  <2>3. QED
    BY <2>1, <2>2
<1>8. DevicesDone(s, d)'
  BY <1>1, <1>2, <1>4 DEF RebuildProgress, DevicesDone, Matching
<1>9. JoinsDone(s, d)'
  BY <1>1, <1>2, <1>4, <1>5 DEF RebuildProgress, JoinsDone, Matching
<1>10. QED
  BY <1>1, <1>6, <1>7, <1>8, <1>9 DEF RebuildProgress

LEMMA ProgressMergeLink ==
  ASSUME TypeOK, RebuildInv, NEW s \in Syncer, NEW l \in Link, MergeLink(s, l), undisturbed[s]
  PROVE  RebuildProgress(s, doc[s])'
<1> DEFINE d == doc[s]
<1>1. /\ todo'[s] = todo[s] \ {MergeLinkStmt(l)} /\ doc' = doc
      /\ UNCHANGED <<lastSynced, member>>
  BY DEF MergeLink, Executed, TypeOK, LoopTypeOK
<1>2. RebuildProgress(s, d)
  BY DEF RebuildInv, Undisturbed
<1>3. /\ \A x : JoinNetworkStmt(x) \notin todo[s]
      /\ DeleteOrphansStmt \in todo[s]
  BY DueStages, RebuildHas, Stages DEF MergeLink, RebuildInv
<1>4. /\ \A x : JoinNetworkStmt(x) # MergeLinkStmt(l)
      /\ MergeNetworkStmt # MergeLinkStmt(l) /\ DropMembershipStmt # MergeLinkStmt(l)
      /\ DeleteOrphansStmt # MergeLinkStmt(l)
  BY Stages
<1>5. d.nodes \subseteq Device /\ NoDevice \notin d.nodes
  BY DocumentInHand, AbsenceAssumption DEF MergeLink, Due
<1>6. \A u \in Node : deviceId[u] # NoDevice =>
        deviceId'[u] = deviceId[u] /\ deviceFrom'[u] = deviceFrom[u]
  BY MergeLinkKeeps
<1>7. \A e \in member : e[1] \in Node
  BY DEF TypeOK, GraphTypeOK
<1>8. MarkDone(s, d)' /\ OrphansDone(s)' /\ DevicesDone(s, d)'
  BY <1>1, <1>2, <1>3, <1>4 DEF RebuildProgress, MarkDone, OrphansDone, DevicesDone
<1>9. MembersDone(s, d)'
  <2> SUFFICES ASSUME DropMembershipStmt \notin todo[s], NEW e \in member, e[2] = d.network
               PROVE  /\ deviceId'[e[1]] \in d.nodes
                      /\ JoinNetworkStmt(deviceId'[e[1]]) \notin todo'[s]
                      /\ deviceFrom'[e[1]] = <<d.network, d.asOf>>
    BY <1>1, <1>4 DEF MembersDone
  <2>1. deviceId[e[1]] \in d.nodes /\ deviceFrom[e[1]] = <<d.network, d.asOf>>
    BY <1>2 DEF RebuildProgress, MembersDone
  <2>2. QED
    BY <1>1, <1>3, <1>5, <1>6, <1>7, <2>1
<1>10. JoinsDone(s, d)'
  BY <1>1, <1>2, <1>3, <1>5, <1>6 DEF RebuildProgress, JoinsDone, Matching
<1>11. QED
  BY <1>1, <1>8, <1>9, <1>10 DEF RebuildProgress

LEMMA ProgressDeleteOrphans ==
  ASSUME TypeOK, RebuildInv, NEW s \in Syncer, DeleteOrphans(s), undisturbed[s]
  PROVE  RebuildProgress(s, doc[s])'
<1> DEFINE d == doc[s]
<1>1. /\ todo'[s] = todo[s] \ {DeleteOrphansStmt} /\ doc' = doc
      /\ deviceId' = [u \in Node |-> IF Orphan(u) THEN NoDevice ELSE deviceId[u]]
      /\ deviceFrom' = [u \in Node |-> IF Orphan(u) THEN NoSource ELSE deviceFrom[u]]
      /\ UNCHANGED <<lastSynced, member>>
  BY DEF DeleteOrphans, Executed, TypeOK, LoopTypeOK
<1>2. RebuildProgress(s, d)
  BY DEF RebuildInv, Undisturbed
<1>3. \A x : JoinNetworkStmt(x) \notin todo[s]
  BY DueStages, Stages DEF DeleteOrphans, RebuildInv
<1>4. MergeNetworkStmt # DeleteOrphansStmt /\ DropMembershipStmt # DeleteOrphansStmt
  BY Stages
<1>5. \A e \in member : /\ e[1] \in Node
                        /\ deviceId'[e[1]] = deviceId[e[1]]
                        /\ deviceFrom'[e[1]] = deviceFrom[e[1]]
  BY <1>1 DEF Orphan, TypeOK, GraphTypeOK
<1>6. MarkDone(s, d)' /\ DevicesDone(s, d)'
  BY <1>1, <1>2, <1>3, <1>4 DEF RebuildProgress, MarkDone, DevicesDone
<1>7. MembersDone(s, d)'
  BY <1>1, <1>2, <1>3, <1>4, <1>5 DEF RebuildProgress, MembersDone
<1>8. JoinsDone(s, d)'
  <2> SUFFICES ASSUME NEW x \in d.nodes PROVE \E u \in Matching(x)' : <<u, d.network>> \in member'
    BY <1>1 DEF JoinsDone
  <2>1. PICK u \in Matching(x) : <<u, d.network>> \in member
    BY <1>2, <1>3 DEF RebuildProgress, JoinsDone
  <2>2. deviceId'[u] = deviceId[u]
    BY <1>5, <2>1
  <2>3. QED
    BY <1>1, <2>1, <2>2 DEF Matching
<1>9. OrphansDone(s)'
  BY <1>1 DEF OrphansDone, Orphan
<1>10. QED
  BY <1>1, <1>6, <1>7, <1>8, <1>9 DEF RebuildProgress

LEMMA RebuildStep ==
  ASSUME TypeOK, RebuildInv, [Next]_vars
  PROVE  RebuildInv'
<1>1. CASE UNCHANGED <<graph, doc, todo, undisturbed>>
  BY <1>1 DEF RebuildInv, StagesInOrder, Undisturbed, RebuildProgress, MarkDone, MembersDone,
              DevicesDone, JoinsDone, OrphansDone, Matching, Orphan, graph
<1>2. ASSUME NEW s \in Syncer, Stopped(s) PROVE RebuildInv'
  <2>1. /\ \A t \in Syncer : undisturbed'[t] => undisturbed[t] /\ todo'[t] = todo[t]
        /\ \A t \in Syncer : todo'[t] = todo[t] \/ todo'[t] = {}
        /\ UNCHANGED <<graph, doc>>
    BY <1>2 DEF Stopped, TypeOK, LoopTypeOK
  <2>2. StagesInOrder'
    BY <2>1 DEF RebuildInv, StagesInOrder
  <2>3. ASSUME NEW t \in Syncer, undisturbed'[t] PROVE RebuildProgress(t, doc[t])'
    BY <2>1, <2>3
       DEF RebuildInv, Undisturbed, RebuildProgress, MarkDone, MembersDone, DevicesDone,
           JoinsDone, OrphansDone, Matching, Orphan, graph
  <2>4. QED
    BY <2>2, <2>3 DEF RebuildInv, Undisturbed
<1>3. ASSUME NEW s \in Syncer, NEW d \in queue[s], Begin(s, d) PROVE RebuildInv'
  <2>1. /\ todo'[s] = Rebuild(d) /\ doc'[s] = d
        /\ \A t \in Syncer \ {s} : /\ todo'[t] = todo[t] /\ doc'[t] = doc[t]
                                   /\ undisturbed'[t] = undisturbed[t]
        /\ UNCHANGED graph
    BY <1>3 DEF Begin, TypeOK, LoopTypeOK
  <2>2. StagesInOrder'
    BY <2>1 DEF RebuildInv, StagesInOrder
  <2>3. RebuildProgress(s, doc[s])'
    BY <2>1, RebuildHas
       DEF RebuildProgress, MarkDone, MembersDone, DevicesDone, JoinsDone, OrphansDone
  <2>4. ASSUME NEW t \in Syncer \ {s}, undisturbed'[t] PROVE RebuildProgress(t, doc[t])'
    <3>1. todo'[t] = todo[t] /\ doc'[t] = doc[t] /\ RebuildProgress(t, doc[t])
      BY <2>1, <2>4 DEF RebuildInv, Undisturbed
    <3>2. UNCHANGED <<lastSynced, deviceId, deviceFrom, member>>
      BY <2>1 DEF graph
    <3>3. QED
      BY <3>1, <3>2
         DEF RebuildProgress, MarkDone, MembersDone, DevicesDone, JoinsDone, OrphansDone,
             Matching, Orphan
  <2>5. QED
    BY <2>2, <2>3, <2>4 DEF RebuildInv, Undisturbed
<1>4. ASSUME NEW s \in Syncer, MergeNetwork(s) PROVE RebuildInv'
  BY <1>4, StagesExecuted, UndisturbedExecuted, ProgressMergeNetwork
     DEF RebuildInv, MergeNetwork
<1>5. ASSUME NEW s \in Syncer, DropMembership(s) PROVE RebuildInv'
  BY <1>5, StagesExecuted, UndisturbedExecuted, ProgressDropMembership
     DEF RebuildInv, DropMembership
<1>6. ASSUME NEW s \in Syncer, NEW x \in Device, MergeDevice(s, x) PROVE RebuildInv'
  BY <1>6, StagesExecuted, UndisturbedExecuted, ProgressMergeDevice
     DEF RebuildInv, MergeDevice
<1>7. ASSUME NEW s \in Syncer, NEW x \in Device, JoinNetwork(s, x) PROVE RebuildInv'
  BY <1>7, StagesExecuted, UndisturbedExecuted, ProgressJoinNetwork
     DEF RebuildInv, JoinNetwork
<1>8. ASSUME NEW s \in Syncer, NEW l \in Link, MergeLink(s, l) PROVE RebuildInv'
  BY <1>8, StagesExecuted, UndisturbedExecuted, ProgressMergeLink
     DEF RebuildInv, MergeLink
<1>9. ASSUME NEW s \in Syncer, DeleteOrphans(s) PROVE RebuildInv'
  BY <1>9, StagesExecuted, UndisturbedExecuted, ProgressDeleteOrphans
     DEF RebuildInv, DeleteOrphans
<1>10. QED
  BY <1>1, <1>2, <1>3, <1>4, <1>5, <1>6, <1>7, <1>8, <1>9, StepCases
     DEF Poll, Start, Finish, Skip, vars, loop

(* When nothing is left of an undisturbed rebuild, its document is         *)
(* projected.                                                              *)
LEMMA ProgressEnds ==
  ASSUME RebuildInv
  PROVE  UndisturbedRebuildProjects
<1> SUFFICES ASSUME NEW s \in Syncer, undisturbed[s], todo[s] = {} PROVE Projected(doc[s])
  BY DEF UndisturbedRebuildProjects
<1> DEFINE d == doc[s]
<1>1. RebuildProgress(s, d)
  BY DEF RebuildInv, Undisturbed
<1>2. lastSynced[d.network] = d.asOf /\ \A u \in Node : ~Orphan(u)
  BY <1>1 DEF RebuildProgress, MarkDone, OrphansDone
<1>3. \A e \in member : e[2] = d.network =>
        deviceId[e[1]] \in d.nodes /\ deviceFrom[e[1]] = <<d.network, d.asOf>>
  BY <1>1 DEF RebuildProgress, MembersDone
<1>4. MembersOf(d.network) \subseteq d.nodes
  BY <1>3 DEF MembersOf
<1>5. ASSUME NEW x \in d.nodes PROVE x \in MembersOf(d.network)
  <2>1. PICK u \in Matching(x) : <<u, d.network>> \in member
    BY <1>1 DEF RebuildProgress, JoinsDone
  <2>2. deviceId[u] = x
    BY <2>1 DEF Matching
  <2>3. QED
    BY <2>1, <2>2 DEF MembersOf
<1>6. QED
  BY <1>2, <1>3, <1>4, <1>5 DEF Projected

(* A rebuild that no other syncer disturbs leaves exactly its document in  *)
(* the graph, from any graph that crashes and races can have made.         *)
THEOREM RebuildHeals == Spec => []UndisturbedRebuildProjects
<1>1. Init => RebuildInv
  BY DEF Init, RebuildInv, StagesInOrder, Undisturbed
<1>2. TypeOK /\ RebuildInv /\ [Next]_vars => RebuildInv'
  BY RebuildStep
<1>3. RebuildInv => UndisturbedRebuildProjects
  BY ProgressEnds
<1>4. QED
  BY <1>1, <1>2, <1>3, TypeCorrect, PTL DEF Spec
=============================================================================
