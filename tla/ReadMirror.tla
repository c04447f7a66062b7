----------------------------- MODULE ReadMirror -----------------------------
(***************************************************************************)
(* The read core: application/read_mirror.py and state_projector.py over   *)
(* adapters/elasticsearch_state_store.py, as the REST and MCP surfaces use *)
(* them.  A device is joined from two indices and a network name from a    *)
(* third, by one Elasticsearch request each; the poller may upsert between *)
(* any two of them.                                                        *)
(*                                                                         *)
(* An entity kept in one index of its own (uplink, VLAN, topology; with a  *)
(* network name: switchport, client) is read from the metrics index here:  *)
(* the requests are the same but for the index name.                       *)
(***************************************************************************)
EXTENDS FiniteSets, Naturals

CONSTANTS
  Request,      \* requests in flight at once
  Key,          \* document ids
  NetworkId,    \* network ids
  OrgOf,        \* meraki_org_id of the documents of a key, or of a network
  Org,          \* organisations
  TwinOrg,      \* settings.meraki_org_id
  ProductType,  \* what a list may filter on in the inventory index
  Status,       \* and in a metrics index
  InventoryDocs, MetricsDocs,  \* the documents that the poller may write for a key
  Ephemeral,    \* keys of clients, whose documents are purged
  HitCap,       \* the size that every search asks for, 10000
  NoDoc, None   \* no document; null, or a filter not given

InventoryDoc == [network : NetworkId \cup {None}, facet : ProductType \cup {None}]
MetricsDoc   == [network : NetworkId, facet : Status \cup {None}]

ASSUME OrgAssumption == OrgOf \in [Key \cup NetworkId -> Org] /\ TwinOrg \in Org
ASSUME NoneAssumption ==
  /\ None \notin NetworkId \cup ProductType \cup Status
  /\ NoDoc \notin InventoryDoc \cup MetricsDoc

ASSUME CapAssumption ==
  HitCap \in Nat \ {0} /\ IsFiniteSet(Key) /\ IsFiniteSet(NetworkId) /\ Ephemeral \subseteq Key

(* A document names a network of its own organisation.                     *)
ASSUME DocsAssumption ==
  /\ InventoryDocs \in [Key -> SUBSET InventoryDoc]
  /\ MetricsDocs \in [Key -> SUBSET MetricsDoc]
  /\ \A k \in Key : \A doc \in InventoryDocs[k] \cup MetricsDocs[k] :
       doc.network # None => OrgOf[doc.network] = OrgOf[k]

(* A list request has filters, a get request a key.                        *)
Query == [kind : {"device", "joined", "plain"}, key : Key \cup {None},
          network : NetworkId \cup {None}, type : ProductType \cup {None},
          status : Status \cup {None}]
IsGet(q) == q.key # None

VARIABLES
  inventory,  \* meraki-device-inventory: key -> document or NoDoc
  metrics,    \* meraki-device-metrics, and every index of a single entity
  networks,   \* meraki-network-metrics: the networks that have a document
  at,         \* where a request is: idle, inventory, metrics, networks, answered
  query,      \* the request
  inv,        \* what it has read of the inventory: key -> document or NoDoc
  met,        \* and of the metrics
  answer,     \* the entities it answers; {} also stands for a None result
  always,     \* history: the <<side, key>> that matched at every moment of it
  ever        \* history: those that matched at some moment of it

store   == <<inventory, metrics, networks>>
request == <<at, query, inv, met, answer>>
vars    == <<store, request, always, ever>>

-----------------------------------------------------------------------------
(* Elasticsearch.                                                          *)

NoHits == [k \in Key |-> NoDoc]

AnyOrgBug(k) == TRUE
InOrg(k)     == OrgOf[k] = TwinOrg

(* search: the org filter, and a term filter for each filter given.        *)
Hit(index, k, network, facet) ==
  /\ index[k] # NoDoc
  /\ InOrg(k)
  /\ network \in {None, index[k].network}
  /\ facet \in {None, index[k].facet}

(* No more than HitCap hits come back, any of them, and nothing tells.     *)
Capped(S) ==
  IF Cardinality(S) <= HitCap THEN {S} ELSE {P \in SUBSET S : Cardinality(P) = HitCap}

Search(index, network, facet) ==
  {[k \in Key |-> IF k \in P THEN index[k] ELSE NoDoc] :
     P \in Capped({k \in Key : Hit(index, k, network, facet)})}

(* get: by document id, and by nothing else.                               *)
Fetch(index, key) == [k \in Key |-> IF k = key THEN index[k] ELSE NoDoc]

Read(index, q, facet) ==
  IF IsGet(q) THEN {Fetch(index, q.key)} ELSE Search(index, q.network, facet)

-----------------------------------------------------------------------------
(* state_projector.                                                        *)

(* The side or sides that define membership.                               *)
UnionBug(q) == {"inventory", "metrics"}
Primary(q)  ==
  IF q.kind # "device" \/ q.status # None THEN {"metrics"}
  ELSE IF q.type # None THEN {"inventory"} ELSE {"inventory", "metrics"}

InventoryOnlyBug(q, i, m) == {k \in Key : i[k] # NoDoc}
Listed(q, i, m) ==
  {k \in Key : \/ "inventory" \in Primary(q) /\ i[k] # NoDoc
               \/ "metrics" \in Primary(q) /\ m[k] # NoDoc}

(* project_device, with the network name resolved when names has it.       *)
NetworkOf(k, i, m) ==
  IF i[k] # NoDoc /\ i[k].network # None THEN i[k].network
  ELSE IF m[k] # NoDoc THEN m[k].network ELSE None

StatusFromInventoryBug(k, i, m) ==
  [key |-> k, network |-> NetworkOf(k, i, m),
   type |-> IF i[k] = NoDoc THEN None ELSE i[k].facet,
   status |-> IF i[k] = NoDoc THEN None ELSE i[k].facet]
project_device(k, i, m) ==
  [key |-> k, network |-> NetworkOf(k, i, m),
   type |-> IF i[k] = NoDoc THEN None ELSE i[k].facet,
   status |-> IF m[k] = NoDoc THEN None ELSE m[k].facet]

(* The projection of an entity of one index.                               *)
project_single(k, m) ==
  [key |-> k, network |-> m[k].network, type |-> None, status |-> m[k].facet]

(* _network_map: the networks of this organisation.                        *)
network_map == {n \in networks : OrgOf[n] = TwinOrg}

Projected(q, k, i, m) ==
  IF q.kind = "device" THEN project_device(k, i, m) ELSE project_single(k, m)

project_devices(q, i, m, names) ==
  {[entity |-> Projected(q, k, i, m), named |-> NetworkOf(k, i, m) \in names] :
     k \in Listed(q, i, m)}

-----------------------------------------------------------------------------
(* What a request asks for, said without the code: which documents match.  *)

Fits(doc, network, facet) ==
  doc # NoDoc /\ network \in {None, doc.network} /\ facet \in {None, doc.facet}

Sides(q) == IF q.kind = "device" THEN {"inventory", "metrics"} ELSE {"metrics"}
Asked(q) ==
  IF IsGet(q)
  THEN {<<s, q.key>> : s \in {t \in Sides(q) :
          (IF t = "inventory" THEN inventory ELSE metrics)[q.key] # NoDoc}}
  ELSE {<<"inventory", k>> : k \in {j \in Key :
          q.kind = "device" /\ q.status = None /\ OrgOf[j] = TwinOrg
            /\ Fits(inventory[j], q.network, q.type)}}
       \cup
       {<<"metrics", k>> : k \in {j \in Key :
          (q.kind = "device" => q.status # None \/ q.type = None) /\ OrgOf[j] = TwinOrg
            /\ Fits(metrics[j], q.network, q.status)}}

Observe ==
  /\ always' = [r \in Request |-> IF at[r] = "idle" THEN {} ELSE always[r] \cap Asked(query[r])']
  /\ ever' = [r \in Request |-> IF at[r] = "idle" THEN {} ELSE ever[r] \cup Asked(query[r])']

-----------------------------------------------------------------------------
(* The poller.                                                             *)

UpsertInventory(k, doc) ==
  /\ inventory' = [inventory EXCEPT ![k] = doc]
  /\ UNCHANGED <<metrics, networks, request>>
  /\ Observe

UpsertMetrics(k, doc) ==
  /\ metrics' = [metrics EXCEPT ![k] = doc]
  /\ UNCHANGED <<inventory, networks, request>>
  /\ Observe

(* A client document goes 1h30m after it was last seen.                    *)
Purge(k) ==
  /\ metrics' = [metrics EXCEPT ![k] = NoDoc]
  /\ UNCHANGED <<inventory, networks, request>>
  /\ Observe

UpsertNetwork(n) ==
  /\ networks' = networks \cup {n}
  /\ UNCHANGED <<inventory, metrics, request, always, ever>>

-----------------------------------------------------------------------------
(* Requests.                                                               *)

Arrive(r, q) ==
  /\ at[r] = "idle"
  /\ at' = [at EXCEPT ![r] = IF q.kind = "device" THEN "inventory" ELSE "metrics"]
  /\ query' = [query EXCEPT ![r] = q]
  /\ always' = [always EXCEPT ![r] = Asked(q)]
  /\ ever' = [ever EXCEPT ![r] = Asked(q)]
  /\ UNCHANGED <<store, inv, met, answer>>

ReadInventory(r) ==
  /\ at[r] = "inventory"
  /\ at' = [at EXCEPT ![r] = "metrics"]
  /\ \E found \in Read(inventory, query[r], query[r].type) : inv' = [inv EXCEPT ![r] = found]
  /\ UNCHANGED <<store, query, met, answer, always, ever>>

(* A plain entity is answered from its own index, and a get that found     *)
(* nothing is None; the rest goes on to the network names.                 *)
IsLast(q, i, found) == q.kind = "plain" \/ (IsGet(q) /\ Listed(q, i, found) = {})

ReadMetrics(r) ==
  /\ at[r] = "metrics"
  /\ \E found \in Read(metrics, query[r], query[r].status) :
       LET done == IsLast(query[r], inv[r], found) IN
       /\ at' = [at EXCEPT ![r] = IF done THEN "answered" ELSE "networks"]
       /\ met' = [met EXCEPT ![r] = found]
       /\ answer' = [answer EXCEPT ![r] =
                       IF done THEN project_devices(query[r], inv[r], found, {}) ELSE {}]
  /\ UNCHANGED <<store, query, inv, always, ever>>

ReadNetworks(r) ==
  /\ at[r] = "networks"
  /\ at' = [at EXCEPT ![r] = "answered"]
  /\ \E names \in Capped(network_map) :
       answer' = [answer EXCEPT ![r] = project_devices(query[r], inv[r], met[r], names)]
  /\ UNCHANGED <<store, query, inv, met, always, ever>>

NoQuery == [kind |-> "plain", key |-> None, network |-> None, type |-> None, status |-> None]

Leave(r) ==
  /\ at[r] = "answered"
  /\ at' = [at EXCEPT ![r] = "idle"]
  /\ query' = [query EXCEPT ![r] = NoQuery]
  /\ inv' = [inv EXCEPT ![r] = NoHits]
  /\ met' = [met EXCEPT ![r] = NoHits]
  /\ answer' = [answer EXCEPT ![r] = {}]
  /\ always' = [always EXCEPT ![r] = {}]
  /\ ever' = [ever EXCEPT ![r] = {}]
  /\ UNCHANGED store

(* A get has a key and no filter; only devices have a product type.        *)
WellFormed(q) ==
  /\ IsGet(q) => q.network = None /\ q.type = None /\ q.status = None
  /\ q.kind # "device" => q.type = None

Init ==
  /\ inventory = NoHits /\ metrics = NoHits /\ networks = {}
  /\ at = [r \in Request |-> "idle"]
  /\ query = [r \in Request |-> NoQuery]
  /\ inv = [r \in Request |-> NoHits]
  /\ met = [r \in Request |-> NoHits]
  /\ answer = [r \in Request |-> {}]
  /\ always = [r \in Request |-> {}]
  /\ ever = [r \in Request |-> {}]

Polled ==
  \/ \E k \in Key : \E doc \in InventoryDocs[k] : UpsertInventory(k, doc)
  \/ \E k \in Key : \E doc \in MetricsDocs[k] : UpsertMetrics(k, doc)
  \/ \E k \in Ephemeral : Purge(k)
  \/ \E n \in NetworkId : UpsertNetwork(n)

Serves(r) ==
  \/ \E q \in {x \in Query : WellFormed(x)} : Arrive(r, q)
  \/ ReadInventory(r) \/ ReadMetrics(r) \/ ReadNetworks(r)
  \/ Leave(r)

Next == Polled \/ \E r \in Request : Serves(r)
Spec == Init /\ [][Next]_vars

-----------------------------------------------------------------------------
(* Properties.                                                             *)

Entity == [key : Key, network : NetworkId \cup {None}, type : ProductType \cup {None},
           status : Status \cup {None}]

(* The shape of the indices and of the requests; a field of an entity      *)
(* comes from the index that has it.                                       *)
TypeOK ==
  /\ inventory \in [Key -> InventoryDoc \cup {NoDoc}]
  /\ metrics \in [Key -> MetricsDoc \cup {NoDoc}]
  /\ networks \subseteq NetworkId
  /\ at \in [Request -> {"idle", "inventory", "metrics", "networks", "answered"}]
  /\ query \in [Request -> Query]
  /\ inv \in [Request -> [Key -> InventoryDoc \cup {NoDoc}]]
  /\ met \in [Request -> [Key -> MetricsDoc \cup {NoDoc}]]
  /\ answer \in [Request -> SUBSET [entity : Entity, named : BOOLEAN]]
  /\ always \in [Request -> SUBSET ({"inventory", "metrics"} \X Key)]
  /\ ever \in [Request -> SUBSET ({"inventory", "metrics"} \X Key)]
  /\ \A r \in Request : always[r] \subseteq ever[r]

Keys(r) == {x.entity.key : x \in answer[r]}

(* The indices are read one after the other while documents change, and an *)
(* answer still holds nothing that no defining index matched at any moment *)
(* of it, and leaves out nothing that one matched all the while, unless it *)
(* is as long as the cap on hits and more did match: a shorter answer is   *)
(* complete.  A None is of an entity that was absent.                      *)
FewMatched(r) == \A s \in {"inventory", "metrics"} :
  Cardinality({k \in Key : <<s, k>> \in ever[r]}) <= HitCap

AnswersAreExact ==
  \A r \in Request : at[r] = "answered" =>
    /\ Keys(r) \subseteq {x[2] : x \in ever[r]}
    /\ FewMatched(r) \/ Cardinality(Keys(r)) < HitCap =>
         {x[2] : x \in always[r]} \subseteq Keys(r)

(* What is listed meets the filters, by the values that are shown for it:  *)
(* the network whichever side it came from, the status, the product type   *)
(* when no status makes metrics the defining side.                         *)
ListsMeetFilters ==
  \A r \in Request : \A x \in answer[r] :
    /\ query[r].network \in {None, x.entity.network}
    /\ query[r].status \in {None, x.entity.status}
    /\ query[r].status # None \/ query[r].type \in {None, x.entity.type}

(* "The twin never crosses organisation boundaries"                        *)
(* (elasticsearch_state_store.py): nothing of another organisation is      *)
(* listed, and none of its network names is shown.                         *)
ListsStayInOrg ==
  \A r \in Request : ~IsGet(query[r]) =>
    \A x \in answer[r] : /\ OrgOf[x.entity.key] = TwinOrg
                         /\ x.named => OrgOf[x.entity.network] = TwinOrg

(* The same of every answer.                                               *)
AnswersStayInOrg ==
  \A r \in Request : \A x \in answer[r] : OrgOf[x.entity.key] = TwinOrg
=============================================================================
