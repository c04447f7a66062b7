-------------------------- MODULE ReadMirror_proofs --------------------------
(***************************************************************************)
(* Theorems about ReadMirror for any number of requests, any documents and *)
(* any cap on hits.                                                        *)
(***************************************************************************)
EXTENDS ReadMirror, FiniteSetTheorems, TLAPS

(* The strengthening, of one request at a time.                            *)

(* What it has not read yet is empty.                                      *)
Rests(r) ==
  /\ at[r] \in {"idle", "inventory"} => inv[r] = NoHits
  /\ at[r] \in {"idle", "inventory", "metrics"} => met[r] = NoHits
  /\ query[r].kind # "device" => inv[r] = NoHits /\ at[r] # "inventory"

(* What a list has read meets its filters.                                 *)
Meets(r) ==
  ~IsGet(query[r]) => \A k \in Key :
    /\ inv[r][k] # NoDoc => /\ InOrg(k)
                            /\ query[r].network \in {None, inv[r][k].network}
                            /\ query[r].type \in {None, inv[r][k].facet}
    /\ met[r][k] # NoDoc => /\ InOrg(k)
                            /\ query[r].network \in {None, met[r][k].network}
                            /\ query[r].status \in {None, met[r][k].facet}

(* The history variables enclose what matches now.                         *)
Encloses(r) == at[r] # "idle" => always[r] \subseteq Asked(query[r]) /\ Asked(query[r]) \subseteq ever[r]

(* A side that was read holds what matched then, or as much as the cap     *)
(* lets through.                                                           *)
Found(index) == {k \in Key : index[k] # NoDoc}
Of(S, side)  == {k \in Key : <<side, k>> \in S}
Exact(found, low, high) ==
  /\ Found(found) \subseteq high
  /\ \/ low \subseteq Found(found)
     \/ Cardinality(Found(found)) = HitCap /\ Cardinality(high) > HitCap
ExactReads(r) ==
  /\ at[r] \in {"metrics", "networks", "answered"} /\ "inventory" \in Primary(query[r])
       => Exact(inv[r], Of(always[r], "inventory"), Of(ever[r], "inventory"))
  /\ at[r] \in {"networks", "answered"} /\ "metrics" \in Primary(query[r])
       => Exact(met[r], Of(always[r], "metrics"), Of(ever[r], "metrics"))

(* An answer is the projection of what was read, with names of networks of *)
(* the organisation.                                                       *)
OurNetworks == {n \in NetworkId : OrgOf[n] = TwinOrg}
Answers(r) ==
  IF at[r] = "answered"
  THEN \E names \in SUBSET OurNetworks :
         answer[r] = project_devices(query[r], inv[r], met[r], names)
  ELSE answer[r] = {}

Consistent(r) ==
  WellFormed(query[r]) /\ Rests(r) /\ Meets(r) /\ Encloses(r) /\ ExactReads(r) /\ Answers(r)

MirrorInv == TypeOK /\ \A r \in Request : Consistent(r)

-----------------------------------------------------------------------------
(* Reads.                                                                  *)

(* What one request of Elasticsearch may return.                           *)
Candidates(index, q, facet) ==
  {k \in Key : IF IsGet(q) THEN k = q.key /\ index[k] # NoDoc
               ELSE Hit(index, k, q.network, facet)}

LEMMA CapIsPart ==
  ASSUME NEW S, NEW P \in Capped(S)
  PROVE  P \subseteq S /\ (P = S \/ (Cardinality(P) = HitCap /\ ~(Cardinality(S) <= HitCap)))
BY DEF Capped

LEMMA KeysAreFinite ==
  ASSUME NEW S \in SUBSET Key, NEW T \in SUBSET S
  PROVE  /\ Cardinality(S) \in Nat /\ Cardinality(T) \in Nat
         /\ Cardinality(T) <= Cardinality(S)
<1>1. IsFiniteSet(S) /\ IsFiniteSet(T)
  BY CapAssumption, FS_Subset
<1>2. QED
  BY <1>1, FS_Subset, FS_CardinalityType

LEMMA ReadFinds ==
  ASSUME NEW index, NEW q, NEW facet, NEW found \in Read(index, q, facet)
  PROVE  /\ found \in [Key -> {index[k] : k \in Key} \cup {NoDoc}]
         /\ \A k \in Found(found) : found[k] = index[k]
         /\ Found(found) \subseteq Candidates(index, q, facet)
         /\ \/ Found(found) = Candidates(index, q, facet)
            \/ /\ Cardinality(Found(found)) = HitCap
               /\ Cardinality(Candidates(index, q, facet)) > HitCap
<1>1. CASE IsGet(q)
  BY <1>1 DEF Read, Fetch, Found, Candidates
<1>2. CASE ~IsGet(q)
  <2> DEFINE S == {k \in Key : Hit(index, k, q.network, facet)}
  <2>1. PICK P \in Capped(S) : found = [k \in Key |-> IF k \in P THEN index[k] ELSE NoDoc]
    BY <1>2 DEF Read, Search
  <2>2. P \subseteq S /\ (P = S \/ (Cardinality(P) = HitCap /\ ~(Cardinality(S) <= HitCap)))
    BY CapIsPart
  <2>3. S = Candidates(index, q, facet) /\ Cardinality(S) \in Nat /\ HitCap \in Nat
    BY <1>2, KeysAreFinite, CapAssumption DEF Candidates
  <2>4. \A k \in S : index[k] # NoDoc
    BY DEF Hit
  <2>5. Found(found) = P
    BY <2>1, <2>2, <2>4 DEF Found
  <2>6. QED
    BY <2>1, <2>2, <2>3, <2>5 DEF Found
<1>3. QED
  BY <1>1, <1>2

LEMMA ReadIsTyped ==
  ASSUME NEW T, NEW index \in [Key -> T \cup {NoDoc}], NEW q, NEW facet,
         NEW found \in Read(index, q, facet)
  PROVE  found \in [Key -> T \cup {NoDoc}]
<1>1. found \in [Key -> {index[k] : k \in Key} \cup {NoDoc}]
  BY ReadFinds
<1>2. {index[k] : k \in Key} \subseteq T \cup {NoDoc}
  OBVIOUS
<1>3. QED
  BY <1>1, <1>2

(* The side a request asks for is what the code reads of it.               *)
LEMMA AskedIsCandidates ==
  ASSUME NEW q \in Query, WellFormed(q)
  PROVE  /\ "inventory" \in Primary(q) =>
              Of(Asked(q), "inventory") = Candidates(inventory, q, q.type)
         /\ "metrics" \in Primary(q) =>
              Of(Asked(q), "metrics") = Candidates(metrics, q, q.status)
         /\ \A x \in Asked(q) : x[1] \in Primary(q) /\ x[2] \in Key
<1>1. CASE IsGet(q)
  <2>1. q.key \in Key /\ q.status = None /\ q.type = None
    BY <1>1 DEF Query, IsGet, WellFormed
  <2>2. Primary(q) = Sides(q)
    BY <2>1 DEF Primary, Sides, Query
  <2>3. QED
    BY <1>1, <2>1, <2>2 DEF Asked, Of, Candidates, Sides
<1>2. CASE ~IsGet(q)
  <2>1. q.kind # "device" => q.type = None
    BY DEF WellFormed
  <2>2. /\ "inventory" \in Primary(q) <=> q.kind = "device" /\ q.status = None
        /\ "metrics" \in Primary(q) <=> (q.kind = "device" => q.status # None \/ q.type = None)
    BY <2>1 DEF Primary, Query
  <2>3. QED
    BY <1>2, <2>2 DEF Asked, Of, Candidates, Hit, Fits, InOrg
<1>3. QED
  BY <1>1, <1>2

(* What one read of a side gives is between what matched all the while and *)
(* what matched once, and stays so.                                        *)
LEMMA ExactSpreads ==
  ASSUME NEW found, NEW low, NEW high \in SUBSET Key, Exact(found, low, high),
         NEW lower \in SUBSET low, NEW higher \in SUBSET Key, high \subseteq higher
  PROVE  Exact(found, lower, higher)
<1>1. Cardinality(high) \in Nat /\ Cardinality(higher) \in Nat
      /\ Cardinality(high) <= Cardinality(higher)
  BY KeysAreFinite
<1>2. QED
  BY <1>1, CapAssumption DEF Exact

LEMMA ReadIsExact ==
  ASSUME NEW index, NEW q, NEW facet, NEW found \in Read(index, q, facet),
         NEW low, NEW high \in SUBSET Key,
         low \subseteq Candidates(index, q, facet), Candidates(index, q, facet) \subseteq high
  PROVE  Exact(found, low, high)
<1> DEFINE S == Candidates(index, q, facet)
<1>1. /\ Found(found) \subseteq S
      /\ Found(found) = S \/ (Cardinality(Found(found)) = HitCap /\ Cardinality(S) > HitCap)
  BY ReadFinds
<1>2. Exact(found, S, S)
  BY <1>1 DEF Exact
<1>3. S \in SUBSET Key /\ low \subseteq S /\ S \subseteq high
  BY DEF Candidates
<1> HIDE DEF S
<1>4. QED
  BY <1>2, <1>3, ExactSpreads

-----------------------------------------------------------------------------
(* The type invariant.                                                     *)

LEMMA ProjectedIsTyped ==
  ASSUME NEW q \in Query, NEW i \in [Key -> InventoryDoc \cup {NoDoc}],
         NEW m \in [Key -> MetricsDoc \cup {NoDoc}], NEW names
  PROVE  project_devices(q, i, m, names) \subseteq [entity : Entity, named : BOOLEAN]
<1>1. SUFFICES ASSUME NEW k \in Listed(q, i, m)
               PROVE  Projected(q, k, i, m) \in Entity
  <2>1. \A e \in Entity, b \in BOOLEAN :
          [entity |-> e, named |-> b] \in [entity : Entity, named : BOOLEAN]
    OBVIOUS
  <2>2. \A k \in Key : (NetworkOf(k, i, m) \in names) \in BOOLEAN
    OBVIOUS
  <2>3. Listed(q, i, m) \subseteq Key
    BY DEF Listed
  <2>4. QED
    BY <2>1, <2>2, <2>3, Zenon DEF project_devices
<1>2. k \in Key
  BY DEF Listed
<1>3. i[k] # NoDoc => i[k].network \in NetworkId \cup {None} /\ i[k].facet \in ProductType \cup {None}
  BY <1>2 DEF InventoryDoc
<1>4. m[k] # NoDoc => m[k].network \in NetworkId /\ m[k].facet \in Status \cup {None}
  BY <1>2 DEF MetricsDoc
<1>5. CASE q.kind = "device"
  BY <1>2, <1>3, <1>4, <1>5 DEF Projected, project_device, NetworkOf, Entity
<1>6. CASE q.kind # "device"
  <2>1. m[k] # NoDoc
    BY <1>6 DEF Listed, Primary
  <2>2. QED
    BY <1>2, <1>4, <1>6, <2>1 DEF Projected, project_single, Entity
<1>7. QED
  BY <1>5, <1>6

LEMMA AskedIsTyped ==
  ASSUME NEW q \in Query
  PROVE  Asked(q) \subseteq {"inventory", "metrics"} \X Key
<1>1. CASE IsGet(q)
  <2>1. q.key \in Key
    BY <1>1 DEF Query, IsGet
  <2>2. QED
    BY <1>1, <2>1 DEF Asked, Sides
<1>2. CASE ~IsGet(q)
  BY <1>2 DEF Asked
<1>3. QED
  BY <1>1, <1>2

(* The same of the state that a step leads to.                             *)
LEMMA AskedNextIsTyped ==
  ASSUME NEW r \in Request, query'[r] \in Query
  PROVE  Asked(query[r])' \subseteq {"inventory", "metrics"} \X Key
<1>1. CASE IsGet(query[r])'
  <2>1. query'[r].key \in Key
    BY <1>1 DEF Query, IsGet
  <2>2. QED
    BY <1>1, <2>1 DEF Asked, Sides
<1>2. CASE ~IsGet(query[r])'
  BY <1>2 DEF Asked
<1>3. QED
  BY <1>1, <1>2

LEMMA ObserveIsTyped ==
  ASSUME TypeOK, Observe, UNCHANGED query
  PROVE  /\ always' \in [Request -> SUBSET ({"inventory", "metrics"} \X Key)]
         /\ ever' \in [Request -> SUBSET ({"inventory", "metrics"} \X Key)]
         /\ \A r \in Request : always'[r] \subseteq ever'[r]
<1>1. \A r \in Request : Asked(query[r])' \subseteq {"inventory", "metrics"} \X Key
  BY AskedNextIsTyped DEF TypeOK
<1>2. QED
  BY <1>1 DEF TypeOK, Observe

LEMMA TypeInit == Init => TypeOK
BY DEF Init, TypeOK, NoHits, NoQuery, Query

LEMMA TypePolled == TypeOK /\ Polled => TypeOK'
<1> SUFFICES ASSUME TypeOK, Polled
             PROVE  TypeOK'
  OBVIOUS
<1>1. ASSUME NEW k \in Key, NEW doc \in InventoryDocs[k], UpsertInventory(k, doc)
      PROVE  TypeOK'
  <2>1. doc \in InventoryDoc
    BY DocsAssumption
  <2>2. QED
    BY <1>1, <2>1, ObserveIsTyped DEF TypeOK, UpsertInventory, request
<1>2. ASSUME NEW k \in Key, NEW doc \in MetricsDocs[k], UpsertMetrics(k, doc)
      PROVE  TypeOK'
  <2>1. doc \in MetricsDoc
    BY DocsAssumption
  <2>2. QED
    BY <1>2, <2>1, ObserveIsTyped DEF TypeOK, UpsertMetrics, request
<1>3. ASSUME NEW k \in Ephemeral, Purge(k)
      PROVE  TypeOK'
  BY <1>3, ObserveIsTyped DEF TypeOK, Purge, request
<1>4. ASSUME NEW n \in NetworkId, UpsertNetwork(n)
      PROVE  TypeOK'
  BY <1>4 DEF TypeOK, UpsertNetwork, request
<1>5. QED
  BY <1>1, <1>2, <1>3, <1>4 DEF Polled

LEMMA TypeServes == ASSUME TypeOK, NEW r \in Request, Serves(r) PROVE TypeOK'
<1>1. ASSUME NEW q \in Query, Arrive(r, q)
      PROVE  TypeOK'
  <2>1. Asked(q) \subseteq {"inventory", "metrics"} \X Key
    BY AskedIsTyped
  <2>2. \A t \in Request : /\ always'[t] = IF t = r THEN Asked(q) ELSE always[t]
                           /\ ever'[t] = IF t = r THEN Asked(q) ELSE ever[t]
    BY <1>1 DEF Arrive, TypeOK
  <2>3. at' \in [Request -> {"idle", "inventory", "metrics", "networks", "answered"}]
    BY <1>1 DEF Arrive, TypeOK
  <2>4. QED
    BY <1>1, <2>1, <2>2, <2>3 DEF TypeOK, Arrive, store
<1>2. ASSUME ReadInventory(r)
      PROVE  TypeOK'
  <2>1. PICK found \in Read(inventory, query[r], query[r].type) : inv' = [inv EXCEPT ![r] = found]
    BY <1>2 DEF ReadInventory
  <2>2. found \in [Key -> InventoryDoc \cup {NoDoc}]
    BY ReadIsTyped DEF TypeOK
  <2>3. QED
    BY <1>2, <2>1, <2>2 DEF TypeOK, ReadInventory, store
<1>3. ASSUME ReadMetrics(r)
      PROVE  TypeOK'
  <2>1. PICK found \in Read(metrics, query[r], query[r].status) :
          /\ at' = [at EXCEPT ![r] = "answered"] \/ at' = [at EXCEPT ![r] = "networks"]
          /\ met' = [met EXCEPT ![r] = found]
          /\ \/ answer' = [answer EXCEPT ![r] = project_devices(query[r], inv[r], found, {})]
             \/ answer' = [answer EXCEPT ![r] = {}]
    BY <1>3 DEF ReadMetrics
  <2>2. found \in [Key -> MetricsDoc \cup {NoDoc}]
    BY ReadIsTyped DEF TypeOK
  <2>3. project_devices(query[r], inv[r], found, {}) \subseteq [entity : Entity, named : BOOLEAN]
    BY <2>2, ProjectedIsTyped DEF TypeOK
  <2>4. \A t \in Request : answer'[t] \in {answer[t], {}, project_devices(query[r], inv[r], found, {})}
    BY <2>1 DEF TypeOK
  <2>5. \A t \in Request : answer'[t] \subseteq [entity : Entity, named : BOOLEAN]
    BY <2>3, <2>4 DEF TypeOK
  <2>6. /\ at' \in [Request -> {"idle", "inventory", "metrics", "networks", "answered"}]
        /\ met' \in [Request -> [Key -> MetricsDoc \cup {NoDoc}]]
    BY <2>1, <2>2 DEF TypeOK
  <2>7. QED
    BY <1>3, <2>5, <2>6 DEF TypeOK, ReadMetrics, store
<1>4. ASSUME ReadNetworks(r)
      PROVE  TypeOK'
  <2>1. PICK names \in Capped(network_map) :
          answer' = [answer EXCEPT ![r] = project_devices(query[r], inv[r], met[r], names)]
    BY <1>4 DEF ReadNetworks
  <2>2. project_devices(query[r], inv[r], met[r], names) \subseteq [entity : Entity, named : BOOLEAN]
    BY ProjectedIsTyped DEF TypeOK
  <2>3. \A t \in Request : answer'[t] \in {answer[t], project_devices(query[r], inv[r], met[r], names)}
    BY <2>1 DEF TypeOK
  <2>4. QED
    BY <1>4, <2>2, <2>3 DEF TypeOK, ReadNetworks, store
<1>5. ASSUME Leave(r)
      PROVE  TypeOK'
  <2>1. NoQuery \in Query /\ NoHits \in [Key -> InventoryDoc \cup {NoDoc}]
        /\ NoHits \in [Key -> MetricsDoc \cup {NoDoc}]
    BY DEF NoQuery, Query, NoHits
  <2>2. \A t \in Request : /\ answer'[t] \in {answer[t], {}}
                           /\ always'[t] = IF t = r THEN {} ELSE always[t]
                           /\ ever'[t] = IF t = r THEN {} ELSE ever[t]
    BY <1>5 DEF TypeOK, Leave
  <2>3. \A t \in Request : /\ answer'[t] \subseteq [entity : Entity, named : BOOLEAN]
                           /\ always'[t] \subseteq ever'[t]
                           /\ ever'[t] \subseteq {"inventory", "metrics"} \X Key
    BY <2>2 DEF TypeOK
  <2>4. QED
    BY <1>5, <2>1, <2>3 DEF TypeOK, Leave, store
<1>6. QED
  BY <1>1, <1>2, <1>3, <1>4, <1>5 DEF Serves

LEMMA TypeNext == TypeOK /\ [Next]_vars => TypeOK'
<1>1. TypeOK /\ UNCHANGED vars => TypeOK'
  BY DEF TypeOK, vars, store, request
<1>2. QED
  BY <1>1, TypePolled, TypeServes DEF Next

(* The indices, the requests and the answers keep their shape, whatever    *)
(* the poller writes between two reads: an entity is never answered with a *)
(* field of the wrong index (project_device).                              *)
THEOREM TypeCorrect == Spec => []TypeOK
BY TypeInit, TypeNext, PTL DEF Spec

-----------------------------------------------------------------------------
(* The strengthening is kept.                                              *)

LEMMA InvInit == Init => MirrorInv
<1> SUFFICES ASSUME Init
             PROVE  MirrorInv
  OBVIOUS
<1>1. TypeOK
  BY TypeInit
<1>2. ASSUME NEW r \in Request
      PROVE  Consistent(r)
  <2>1. at[r] = "idle" /\ query[r] = NoQuery /\ inv[r] = NoHits /\ met[r] = NoHits /\ answer[r] = {}
    BY DEF Init
  <2>2. WellFormed(NoQuery)
    BY DEF NoQuery, WellFormed, IsGet
  <2>3. Meets(r)
    BY <2>1 DEF Meets, NoHits
  <2>4. QED
    BY <2>1, <2>2, <2>3 DEF Consistent, Rests, Encloses, ExactReads, Answers
<1>3. QED
  BY <1>1, <1>2 DEF MirrorInv

(* A request that does not move, while the indices may: only the history   *)
(* variables change.                                                       *)
LEMMA WaitingKeeps ==
  ASSUME TypeOK, TypeOK', NEW r \in Request, Consistent(r), Encloses(r)',
         at'[r] = at[r], query'[r] = query[r], inv'[r] = inv[r], met'[r] = met[r],
         answer'[r] = answer[r], always'[r] \subseteq always[r],
         at[r] # "idle" => ever[r] \subseteq ever'[r]
  PROVE  Consistent(r)'
<1>1. WellFormed(query[r])' /\ Rests(r)' /\ Answers(r)'
  BY DEF Consistent, Rests, Answers
<1>2. Meets(r)'
  BY DEF Consistent, Meets
<1>3. \A side \in {"inventory", "metrics"} :
        /\ Of(always'[r], side) \subseteq Of(always[r], side)
        /\ at[r] # "idle" => Of(ever[r], side) \subseteq Of(ever'[r], side)
        /\ Of(ever[r], side) \subseteq Key /\ Of(ever'[r], side) \subseteq Key
  BY DEF Of
<1>4. ExactReads(r)'
  <2>1. ASSUME at[r] \in {"metrics", "networks", "answered"}, "inventory" \in Primary(query[r])
        PROVE  Exact(inv[r], Of(always'[r], "inventory"), Of(ever'[r], "inventory"))
    BY <1>3, <2>1, ExactSpreads DEF Consistent, ExactReads
  <2>2. ASSUME at[r] \in {"networks", "answered"}, "metrics" \in Primary(query[r])
        PROVE  Exact(met[r], Of(always'[r], "metrics"), Of(ever'[r], "metrics"))
    BY <1>3, <2>2, ExactSpreads DEF Consistent, ExactReads
  <2>3. QED
    BY <2>1, <2>2 DEF ExactReads
<1>5. QED
  BY <1>1, <1>2, <1>4 DEF Consistent

LEMMA SameAsked ==
  ASSUME NEW r \in Request, NEW q, UNCHANGED <<inventory, metrics>>, query'[r] = q
  PROVE  Asked(query[r])' = Asked(q)
BY DEF Asked, IsGet, Sides, Fits

(* A request that does not move while nothing matches otherwise.           *)
LEMMA StillKeeps ==
  ASSUME TypeOK, TypeOK', NEW r \in Request, Consistent(r), UNCHANGED <<inventory, metrics>>,
         at'[r] = at[r], query'[r] = query[r], inv'[r] = inv[r], met'[r] = met[r],
         answer'[r] = answer[r], always'[r] = always[r], ever'[r] = ever[r]
  PROVE  Consistent(r)'
<1>1. Encloses(r)'
  BY SameAsked DEF Consistent, Encloses
<1>2. QED
  BY <1>1, WaitingKeeps

LEMMA PolledKeeps ==
  ASSUME MirrorInv, Polled
  PROVE  MirrorInv'
<1>1. TypeOK /\ TypeOK'
  BY TypePolled DEF MirrorInv
<1>2. ASSUME Observe, UNCHANGED request, NEW r \in Request
      PROVE  Consistent(r)'
  <2>1. /\ at'[r] = at[r] /\ query'[r] = query[r] /\ inv'[r] = inv[r] /\ met'[r] = met[r]
        /\ answer'[r] = answer[r]
    BY <1>2 DEF request
  <2>2. /\ always'[r] = IF at[r] = "idle" THEN {} ELSE always[r] \cap Asked(query[r])'
        /\ ever'[r] = IF at[r] = "idle" THEN {} ELSE ever[r] \cup Asked(query[r])'
    BY <1>2 DEF Observe
  <2>3. Encloses(r)'
    BY <2>1, <2>2 DEF Encloses
  <2>4. always'[r] \subseteq always[r] /\ (at[r] # "idle" => ever[r] \subseteq ever'[r])
    BY <2>2
  <2>5. Consistent(r)
    BY DEF MirrorInv
  <2>6. QED
    BY <1>1, <2>1, <2>3, <2>4, <2>5, WaitingKeeps
<1>3. ASSUME NEW n \in NetworkId, UpsertNetwork(n), NEW r \in Request
      PROVE  Consistent(r)'
  <2>1. Consistent(r)
    BY DEF MirrorInv
  <2>2. QED
    BY <1>1, <1>3, <2>1, StillKeeps DEF UpsertNetwork, request
<1>4. QED
  BY <1>1, <1>2, <1>3 DEF Polled, UpsertInventory, UpsertMetrics, Purge, MirrorInv

(* A request that moves, and the rest that does not.                       *)
LEMMA ServedKeeps ==
  ASSUME MirrorInv, NEW r \in Request, Serves(r), Consistent(r)'
  PROVE  MirrorInv'
<1>1. TypeOK /\ TypeOK'
  BY TypeServes DEF MirrorInv
<1>2. ASSUME NEW t \in Request \ {r}
      PROVE  Consistent(t)'
  <2>1. UNCHANGED <<inventory, metrics>>
    BY DEF Serves, Arrive, ReadInventory, ReadMetrics, ReadNetworks, Leave, store
  <2>2. /\ at'[t] = at[t] /\ query'[t] = query[t] /\ inv'[t] = inv[t] /\ met'[t] = met[t]
        /\ answer'[t] = answer[t] /\ always'[t] = always[t] /\ ever'[t] = ever[t]
    <3>1. CASE \E q \in {x \in Query : WellFormed(x)} : Arrive(r, q)
      BY <1>1, <3>1 DEF Arrive, TypeOK
    <3>2. CASE ReadInventory(r)
      BY <1>1, <3>2 DEF ReadInventory, TypeOK
    <3>3. CASE ReadMetrics(r)
      BY <1>1, <3>3 DEF ReadMetrics, TypeOK
    <3>4. CASE ReadNetworks(r)
      BY <1>1, <3>4 DEF ReadNetworks, TypeOK
    <3>5. CASE Leave(r)
      BY <1>1, <3>5 DEF Leave, TypeOK
    <3>6. QED
      BY <3>1, <3>2, <3>3, <3>4, <3>5 DEF Serves
  <2>3. QED
    BY <1>1, <2>1, <2>2, StillKeeps DEF MirrorInv
<1>3. QED
  BY <1>1, <1>2 DEF MirrorInv

LEMMA ArriveKeeps ==
  ASSUME MirrorInv, NEW r \in Request, NEW q \in Query, WellFormed(q), Arrive(r, q)
  PROVE  Consistent(r)'
<1>1. TypeOK /\ Consistent(r)
  BY DEF MirrorInv
<1>2. /\ at[r] = "idle" /\ at'[r] = IF q.kind = "device" THEN "inventory" ELSE "metrics"
      /\ query'[r] = q /\ always'[r] = Asked(q) /\ ever'[r] = Asked(q)
      /\ inv'[r] = inv[r] /\ met'[r] = met[r] /\ answer'[r] = answer[r]
  BY <1>1 DEF Arrive, TypeOK
<1>3. inv[r] = NoHits /\ met[r] = NoHits /\ answer[r] = {}
  BY <1>1, <1>2 DEF Consistent, Rests, Answers
<1>4. Rests(r)' /\ WellFormed(query[r])' /\ Answers(r)'
  BY <1>2, <1>3 DEF Rests, Answers, NoHits
<1>5. Meets(r)'
  BY <1>2, <1>3 DEF Meets, NoHits
<1>6. Encloses(r)'
  BY <1>2, SameAsked DEF Arrive, store, Encloses
<1>7. ExactReads(r)'
  BY <1>2 DEF ExactReads, Primary
<1>8. QED
  BY <1>4, <1>5, <1>6, <1>7 DEF Consistent

LEMMA ReadInventoryKeeps ==
  ASSUME MirrorInv, NEW r \in Request, ReadInventory(r)
  PROVE  Consistent(r)'
<1> DEFINE q == query[r]
<1>1. TypeOK /\ Consistent(r) /\ q \in Query
  BY DEF MirrorInv, TypeOK
<1>2. PICK found \in Read(inventory, q, q.type) : inv' = [inv EXCEPT ![r] = found]
  BY DEF ReadInventory
<1>3. /\ at[r] = "inventory" /\ at'[r] = "metrics" /\ query'[r] = q /\ inv'[r] = found
      /\ met'[r] = met[r] /\ answer'[r] = answer[r] /\ always'[r] = always[r] /\ ever'[r] = ever[r]
  BY <1>1, <1>2 DEF ReadInventory, TypeOK
<1>4. met[r] = NoHits /\ answer[r] = {} /\ q.kind = "device" /\ WellFormed(q)
  BY <1>1, <1>3 DEF Consistent, Rests, Answers
<1>5. Rests(r)' /\ WellFormed(query[r])' /\ Answers(r)'
  BY <1>3, <1>4 DEF Rests, Answers, NoHits
<1>6. Meets(r)'
  <2>1. \A k \in Found(found) : k \in Candidates(inventory, q, q.type) /\ found[k] = inventory[k]
    BY ReadFinds
  <2>2. QED
    BY <1>3, <1>4, <2>1 DEF Meets, Found, Candidates, Hit, NoHits
<1>7. Encloses(r)'
  BY <1>1, <1>3, SameAsked DEF ReadInventory, store, Consistent, Encloses
<1>8. ExactReads(r)'
  <2>1. ASSUME "inventory" \in Primary(q)
        PROVE  Exact(found, Of(always[r], "inventory"), Of(ever[r], "inventory"))
    <3>1. Of(Asked(q), "inventory") = Candidates(inventory, q, q.type)
      BY <1>1, <1>4, <2>1, AskedIsCandidates
    <3>2. always[r] \subseteq Asked(q) /\ Asked(q) \subseteq ever[r]
      BY <1>1, <1>3 DEF Consistent, Encloses
    <3>3. /\ Of(always[r], "inventory") \subseteq Candidates(inventory, q, q.type)
          /\ Candidates(inventory, q, q.type) \subseteq Of(ever[r], "inventory")
          /\ Of(ever[r], "inventory") \in SUBSET Key
      BY <3>1, <3>2 DEF Of
    <3>4. QED
      BY <3>3, ReadIsExact
  <2>2. QED
    BY <1>3, <2>1 DEF ExactReads
<1>9. QED
  BY <1>5, <1>6, <1>7, <1>8 DEF Consistent

LEMMA ReadMetricsKeeps ==
  ASSUME MirrorInv, NEW r \in Request, ReadMetrics(r)
  PROVE  Consistent(r)'
<1> DEFINE q == query[r]
<1>1. TypeOK /\ Consistent(r) /\ q \in Query /\ WellFormed(q)
  BY DEF MirrorInv, TypeOK, Consistent
<1>2. PICK found \in Read(metrics, q, q.status) :
        /\ met' = [met EXCEPT ![r] = found]
        /\ \/ /\ at' = [at EXCEPT ![r] = "answered"]
              /\ answer' = [answer EXCEPT ![r] = project_devices(q, inv[r], found, {})]
           \/ /\ at' = [at EXCEPT ![r] = "networks"]
              /\ answer' = [answer EXCEPT ![r] = {}]
  BY DEF ReadMetrics
<1>3. /\ at[r] = "metrics" /\ query'[r] = q /\ met'[r] = found
      /\ inv'[r] = inv[r] /\ always'[r] = always[r] /\ ever'[r] = ever[r]
      /\ \/ at'[r] = "answered" /\ answer'[r] = project_devices(q, inv[r], found, {})
         \/ at'[r] = "networks" /\ answer'[r] = {}
  BY <1>1, <1>2 DEF ReadMetrics, TypeOK
<1>4. Rests(r)' /\ WellFormed(query[r])'
  BY <1>1, <1>3 DEF Consistent, Rests, NoHits
<1>5. Answers(r)'
  <2>1. {} \in SUBSET OurNetworks
    OBVIOUS
  <2>2. QED
    BY <1>3, <2>1 DEF Answers
<1>6. Meets(r)'
  <2>1. \A k \in Found(found) : k \in Candidates(metrics, q, q.status) /\ found[k] = metrics[k]
    BY ReadFinds
  <2>2. QED
    BY <1>1, <1>3, <2>1 DEF Consistent, Meets, Found, Candidates, Hit
<1>7. Encloses(r)'
  BY <1>1, <1>3, SameAsked DEF ReadMetrics, store, Consistent, Encloses
<1>8. ExactReads(r)'
  <2>1. ASSUME "metrics" \in Primary(q)
        PROVE  Exact(found, Of(always[r], "metrics"), Of(ever[r], "metrics"))
    <3>1. Of(Asked(q), "metrics") = Candidates(metrics, q, q.status)
      BY <1>1, <2>1, AskedIsCandidates
    <3>2. always[r] \subseteq Asked(q) /\ Asked(q) \subseteq ever[r]
      BY <1>1, <1>3 DEF Consistent, Encloses
    <3>3. /\ Of(always[r], "metrics") \subseteq Candidates(metrics, q, q.status)
          /\ Candidates(metrics, q, q.status) \subseteq Of(ever[r], "metrics")
          /\ Of(ever[r], "metrics") \in SUBSET Key
      BY <3>1, <3>2 DEF Of
    <3>4. QED
      BY <3>3, ReadIsExact
  <2>2. QED
    BY <1>1, <1>3, <2>1 DEF Consistent, ExactReads
<1>9. QED
  BY <1>4, <1>5, <1>6, <1>7, <1>8 DEF Consistent

LEMMA ReadNetworksKeeps ==
  ASSUME MirrorInv, NEW r \in Request, ReadNetworks(r)
  PROVE  Consistent(r)'
<1>1. TypeOK /\ Consistent(r)
  BY DEF MirrorInv
<1>2. PICK names \in Capped(network_map) :
        answer' = [answer EXCEPT ![r] = project_devices(query[r], inv[r], met[r], names)]
  BY DEF ReadNetworks
<1>3. /\ at[r] = "networks" /\ at'[r] = "answered" /\ query'[r] = query[r]
      /\ inv'[r] = inv[r] /\ met'[r] = met[r] /\ always'[r] = always[r] /\ ever'[r] = ever[r]
      /\ answer'[r] = project_devices(query[r], inv[r], met[r], names)
  BY <1>1, <1>2 DEF ReadNetworks, TypeOK
<1>4. names \in SUBSET OurNetworks
  BY <1>1, CapIsPart DEF network_map, OurNetworks, TypeOK
<1>5. Rests(r)' /\ WellFormed(query[r])' /\ Answers(r)'
  BY <1>1, <1>3, <1>4 DEF Consistent, Rests, Answers, NoHits
<1>6. Meets(r)'
  BY <1>1, <1>3 DEF Consistent, Meets
<1>7. Encloses(r)'
  BY <1>1, <1>3, SameAsked DEF ReadNetworks, store, Consistent, Encloses
<1>8. ExactReads(r)'
  BY <1>1, <1>3 DEF Consistent, ExactReads
<1>9. QED
  BY <1>5, <1>6, <1>7, <1>8 DEF Consistent

LEMMA LeaveKeeps ==
  ASSUME MirrorInv, NEW r \in Request, Leave(r)
  PROVE  Consistent(r)'
<1>1. /\ at'[r] = "idle" /\ query'[r] = NoQuery /\ inv'[r] = NoHits /\ met'[r] = NoHits
      /\ answer'[r] = {}
  BY DEF Leave, MirrorInv, TypeOK
<1>2. WellFormed(NoQuery)
  BY DEF NoQuery, WellFormed, IsGet
<1>3. Meets(r)'
  BY <1>1 DEF Meets, NoHits
<1>4. QED
  BY <1>1, <1>2, <1>3 DEF Consistent, Rests, Encloses, ExactReads, Answers, NoHits

LEMMA InvNext == MirrorInv /\ [Next]_vars => MirrorInv'
<1> SUFFICES ASSUME MirrorInv, [Next]_vars
             PROVE  MirrorInv'
  OBVIOUS
<1>1. CASE UNCHANGED vars
  <2>1. TypeOK /\ TypeOK'
    BY <1>1, TypeNext DEF MirrorInv
  <2>2. QED
    BY <1>1, <2>1, StillKeeps DEF MirrorInv, vars, store, request
<1>2. CASE Polled
  BY <1>2, PolledKeeps
<1>3. ASSUME NEW r \in Request, Serves(r)
      PROVE  MirrorInv'
  <2>1. Consistent(r)'
    BY <1>3, ArriveKeeps, ReadInventoryKeeps, ReadMetricsKeeps, ReadNetworksKeeps, LeaveKeeps
       DEF Serves
  <2>2. QED
    BY <1>3, <2>1, ServedKeeps
<1>4. QED
  BY <1>1, <1>2, <1>3 DEF Next

LEMMA MirrorInvariant == Spec => []MirrorInv
BY InvInit, InvNext, PTL DEF Spec

-----------------------------------------------------------------------------
(* What follows of an answer.                                              *)

LEMMA AnswerOf ==
  ASSUME MirrorInv, NEW r \in Request, NEW x \in answer[r]
  PROVE  \E k \in Listed(query[r], inv[r], met[r]), names \in SUBSET OurNetworks :
           /\ at[r] = "answered"
           /\ x.entity = Projected(query[r], k, inv[r], met[r]) /\ x.entity.key = k
           /\ x.named => NetworkOf(k, inv[r], met[r]) \in names
<1>1. at[r] = "answered" /\ Answers(r)
  BY DEF MirrorInv, Consistent, Answers
<1>2. PICK names \in SUBSET OurNetworks : answer[r] = project_devices(query[r], inv[r], met[r], names)
  BY <1>1 DEF Answers
<1>3. PICK k \in Listed(query[r], inv[r], met[r]) :
        x = [entity |-> Projected(query[r], k, inv[r], met[r]),
             named |-> NetworkOf(k, inv[r], met[r]) \in names]
  BY <1>2 DEF project_devices
<1>4. x.entity.key = k
  BY <1>3 DEF Projected, project_device, project_single
<1>5. QED
  BY <1>1, <1>3, <1>4

LEMMA KeysAreListed ==
  ASSUME MirrorInv, NEW r \in Request, at[r] = "answered"
  PROVE  Keys(r) = Listed(query[r], inv[r], met[r])
<1>1. PICK names \in SUBSET OurNetworks : answer[r] = project_devices(query[r], inv[r], met[r], names)
  BY DEF MirrorInv, Consistent, Answers
<1>2. \A k : Projected(query[r], k, inv[r], met[r]).key = k
  BY DEF Projected, project_device, project_single
<1> DEFINE L    == Listed(query[r], inv[r], met[r])
           P(k) == [entity |-> Projected(query[r], k, inv[r], met[r]),
                    named |-> NetworkOf(k, inv[r], met[r]) \in names]
<1>3. answer[r] = {P(k) : k \in L} /\ Keys(r) = {x.entity.key : x \in answer[r]}
  BY <1>1 DEF Keys, project_devices
<1>4. \A k : P(k).entity.key = k
  BY <1>2
<1> HIDE DEF L, P
<1>5. ASSUME NEW k
      PROVE  k \in Keys(r) <=> k \in L
  <2>1. k \in Keys(r) <=> \E x \in answer[r] : k = x.entity.key
    BY <1>3
  <2>2. \A x : x \in answer[r] <=> \E j \in L : x = P(j)
    BY <1>3
  <2>3. QED
    BY <2>1, <2>2, <1>4
<1>6. QED
  BY <1>3, <1>5 DEF L

LEMMA InvExact == MirrorInv => AnswersAreExact
<1> SUFFICES ASSUME MirrorInv, NEW r \in Request, at[r] = "answered"
             PROVE  /\ Keys(r) \subseteq {x[2] : x \in ever[r]}
                    /\ FewMatched(r) \/ Cardinality(Keys(r)) < HitCap =>
                         {x[2] : x \in always[r]} \subseteq Keys(r)
  BY DEF AnswersAreExact
<1> DEFINE q == query[r]
           found(side) == IF side = "inventory" THEN inv[r] ELSE met[r]
<1>1. q \in Query /\ WellFormed(q) /\ Primary(q) \subseteq {"inventory", "metrics"}
  BY DEF MirrorInv, TypeOK, Consistent, Primary
<1>2. Keys(r) = UNION {Found(found(side)) : side \in Primary(q)}
  BY <1>1, KeysAreListed DEF Listed, Found
<1>3. \A side \in Primary(q) : Exact(found(side), Of(always[r], side), Of(ever[r], side))
  BY <1>1 DEF MirrorInv, Consistent, ExactReads
<1>4. \A x \in always[r] : x = <<x[1], x[2]>> /\ x[1] \in Primary(q) /\ x[2] \in Key
  BY <1>1, AskedIsCandidates DEF MirrorInv, TypeOK, Consistent, Encloses
<1> HIDE DEF q, found
<1>5. Keys(r) \subseteq {x[2] : x \in ever[r]}
  <2>1. SUFFICES ASSUME NEW side \in Primary(q), NEW k \in Found(found(side))
                 PROVE  k \in {x[2] : x \in ever[r]}
    BY <1>2
  <2>2. <<side, k>> \in ever[r]
    BY <1>3 DEF Exact, Of
  <2>3. <<side, k>>[2] = k
    OBVIOUS
  <2>4. QED
    BY <2>2, <2>3
<1>6. ASSUME FewMatched(r) \/ Cardinality(Keys(r)) < HitCap, NEW x \in always[r]
      PROVE  x[2] \in Keys(r)
  <2> DEFINE side == x[1]
             F    == Found(found(side))
  <2>1. side \in Primary(q) /\ x[2] \in Of(always[r], side) /\ Exact(found(side), Of(always[r], side), Of(ever[r], side))
    BY <1>3, <1>4 DEF Of
  <2>2. F \subseteq Keys(r) /\ Keys(r) \subseteq Key
    BY <1>2, <2>1 DEF Found
  <2>3. Cardinality(F) \in Nat /\ Cardinality(Keys(r)) \in Nat /\ Cardinality(F) <= Cardinality(Keys(r))
        /\ Cardinality(Of(ever[r], side)) \in Nat
    BY <2>2, KeysAreFinite DEF Of
  <2>4. FewMatched(r) => Cardinality(Of(ever[r], side)) <= HitCap
    BY <1>1, <2>1 DEF FewMatched, Of
  <2>5. ~(Cardinality(F) = HitCap /\ Cardinality(Of(ever[r], side)) > HitCap)
    BY <1>6, <2>3, <2>4, CapAssumption
  <2>6. Of(always[r], side) \subseteq F
    BY <2>1, <2>5 DEF Exact
  <2>7. QED
    BY <2>1, <2>2, <2>6
<1>7. QED
  BY <1>5, <1>6

LEMMA InvFilters == MirrorInv => ListsMeetFilters
<1> SUFFICES ASSUME MirrorInv, NEW r \in Request, NEW x \in answer[r]
             PROVE  /\ query[r].network \in {None, x.entity.network}
                    /\ query[r].status \in {None, x.entity.status}
                    /\ query[r].status # None \/ query[r].type \in {None, x.entity.type}
  BY DEF ListsMeetFilters
<1> DEFINE q == query[r]
           i == inv[r]
           m == met[r]
<1>1. PICK k \in Listed(q, i, m) : x.entity = Projected(q, k, i, m)
  BY AnswerOf
<1>2. WellFormed(q) /\ Meets(r) /\ q \in Query /\ k \in Key
  BY DEF MirrorInv, TypeOK, Consistent, Listed
<1>3. CASE IsGet(q)
  BY <1>2, <1>3 DEF WellFormed
<1>4. CASE ~IsGet(q) /\ q.kind = "device"
  <2>1. i[k] # NoDoc => q.network \in {None, i[k].network} /\ q.type \in {None, i[k].facet}
    BY <1>2, <1>4 DEF Meets
  <2>2. m[k] # NoDoc => q.network \in {None, m[k].network} /\ q.status \in {None, m[k].facet}
    BY <1>2, <1>4 DEF Meets
  <2>3. i[k] # NoDoc \/ m[k] # NoDoc
    BY DEF Listed
  <2>4. /\ q.status # None => m[k] # NoDoc
        /\ q.status = None /\ q.type # None => i[k] # NoDoc
    BY <1>4 DEF Listed, Primary
  <2>5. /\ x.entity.network = NetworkOf(k, i, m)
        /\ x.entity.type = IF i[k] = NoDoc THEN None ELSE i[k].facet
        /\ x.entity.status = IF m[k] = NoDoc THEN None ELSE m[k].facet
    BY <1>1, <1>4 DEF Projected, project_device
  <2> HIDE DEF q, i, m
  <2>6. q.network \in {None, NetworkOf(k, i, m)}
    BY <2>1, <2>2, <2>3 DEF NetworkOf
  <2>7. QED
    BY <2>1, <2>2, <2>4, <2>5, <2>6 DEF q
<1>5. CASE ~IsGet(q) /\ q.kind # "device"
  <2>1. m[k] # NoDoc
    BY <1>5 DEF Listed, Primary
  <2>2. q.network \in {None, m[k].network} /\ q.status \in {None, m[k].facet} /\ q.type = None
    BY <1>2, <1>5, <2>1 DEF Meets, WellFormed
  <2>3. x.entity.network = m[k].network /\ x.entity.status = m[k].facet
    BY <1>1, <1>5 DEF Projected, project_single
  <2>4. QED
    BY <2>2, <2>3
<1>6. QED
  BY <1>3, <1>4, <1>5

LEMMA InvOrg == MirrorInv => ListsStayInOrg
<1> SUFFICES ASSUME MirrorInv, NEW r \in Request, ~IsGet(query[r]), NEW x \in answer[r]
             PROVE  OrgOf[x.entity.key] = TwinOrg /\ (x.named => OrgOf[x.entity.network] = TwinOrg)
  BY DEF ListsStayInOrg
<1> DEFINE q == query[r]
           i == inv[r]
           m == met[r]
<1>1. PICK k \in Listed(q, i, m), names \in SUBSET OurNetworks :
        /\ x.entity = Projected(q, k, i, m) /\ x.entity.key = k
        /\ x.named => NetworkOf(k, i, m) \in names
  BY AnswerOf
<1>2. k \in Key /\ Meets(r) /\ Rests(r)
  BY DEF Listed, MirrorInv, Consistent
<1>3. InOrg(k)
  BY <1>2 DEF Listed, Meets
<1>4. x.entity.network = NetworkOf(k, i, m)
  <2>1. CASE q.kind = "device"
    BY <1>1, <2>1 DEF Projected, project_device
  <2>2. CASE q.kind # "device"
    <3>1. i[k] = NoDoc
      BY <1>2, <2>2 DEF Rests, NoHits
    <3>2. m[k] # NoDoc
      BY <2>2 DEF Listed, Primary
    <3>3. QED
      BY <1>1, <2>2, <3>1, <3>2 DEF Projected, project_single, NetworkOf
  <2>3. QED
    BY <2>1, <2>2
<1>5. x.named => OrgOf[x.entity.network] = TwinOrg
  BY <1>1, <1>4 DEF OurNetworks
<1>6. QED
  BY <1>1, <1>3, <1>5 DEF InOrg

-----------------------------------------------------------------------------
(* Between two reads of a join the poller may write and a client may be    *)
(* purged: an answer still has neither ghosts nor, below the cap, holes    *)
(* (ReadMirror.list_devices, get_device).                                  *)
THEOREM AnswersExact == Spec => []AnswersAreExact
BY MirrorInvariant, InvExact, PTL

(* A list shows nothing that its own filters exclude, whichever index a    *)
(* shown value came from (project_devices).                                *)
THEOREM FiltersAreMet == Spec => []ListsMeetFilters
BY MirrorInvariant, InvFilters, PTL

(* No list crosses the boundary of the organisation, nor does the name of  *)
(* a network (_org_filter, _network_map).                                  *)
THEOREM ListsAreOurs == Spec => []ListsStayInOrg
BY MirrorInvariant, InvOrg, PTL
=============================================================================
