# Meraki Network Twin: TLA+ specifications

These modules model the core of the Network Twin (`src/src/twin`), a read API
over Elasticsearch with a Neo4j projection for impact analysis and a Postgres
token realm. TLC checks them on small instances; TLAPS proves most of what
it checks for every value of the constants. `PROJECT.json` maps each definition
to the lines it models and lists the runs, the hazards and the theorems.

## The system

| Component | State | Operations | Model |
|---|---|---|---|
| Graph projection: `application/graph_sync.py`, `presentation/admin_sync_router.py`, `sync/neo4j/__main__.py`, `adapters/neo4j_graph_store.py` | Neo4j: `Network` (`last_synced_at`) and `Device` nodes, `IN_NETWORK` and `LINKED_TO` edges; in memory: the documents a loop has still to look at, the statements it has still to execute | `POST /admin/sync/neo4j`, the CLI; per document a read, a decision, a rebuild of six kinds of statements | `GraphSync` |
| Auth realm: `application/token_service.py`, `adapters/postgres_token_repository.py`, `domain/tokens.py`, `presentation/bearer.py`, `presentation/admin_tokens.py`, the bootstrap in `main.py` | the `tokens` table; a request's token row between its read and its use | validate, issue, list, revoke, bootstrap | `AuthRealm` |
| Impact analysis: `application/impact_analyzer.py`, `presentation/impact_router.py` | none of its own: a request's seed, rows and freshness | from a device, from an uplink | `ImpactAnalysis` |
| Read mirror: `application/read_mirror.py`, `application/state_projector.py`, `adapters/elasticsearch_state_store.py`, `presentation/state_router.py` | none of its own: the documents a request has read so far | list and get of networks, devices, uplinks, switchports, VLANs, topologies, clients | `ReadMirror` |
| MCP server: `presentation/mcp_server.py` | the bound mirror and token service | tools that call the read mirror and the analyzer, the same bearer check | the actions of `ReadMirror`, `Chronology`, `ImpactAnalysis` and `AuthRealm` |
| Chronology: `presentation/chronology_router.py`, `application/read_mirror.py`, the syslog and history half of the store and the projector | none of its own; the indices only grow | `GET /twin/events`, `GET /twin/changes` and the two MCP tools: one search, filtered, sorted and limited | `Chronology` |
| Pollers, Logstash | the Elasticsearch indices | upserts, appends, the purge of old clients | external actions |
| Configuration, client lifespans, health, dataclasses | none that changes | | not modelled |

NetBox synchronisation, the dashboard and its sessions are named in `CONTEXT.md`
and the issues and are not in the source.

How they interact: the pollers write Elasticsearch; the projection copies the
topology index into Neo4j, network by network; the analyzer reads Neo4j, the
mirror reads Elasticsearch, and every request passes the bearer check first.
There are no locks and no transactions across two awaits, so that the databases are
shared state which any other request, worker or poller may change at each await.

What is hard, and what makes each part correct:

- *Projection.* Several loops at once, a cut at any statement, the poller in
  between. A network must hold the devices its freshness marker names, a rebuild
  must repair whatever it finds, nothing must be made up, and a new topology
  must reach the graph.
- *Auth realm.* A row is read, then used; two workers bootstrap at once.
  Authorization must be as good as a decision at one moment, answered writes
  must hold, no bootstrap token may enter a store that is in use.
- *Impact.* Rows and freshness are separate reads of a graph in the middle of
  a rebuild. An answer must stay connected to its seed by links topologies had,
  and must not call what it shows older than it is.
- *Mirror.* A device is joined from three reads. A list must have no holes and
  no ghosts, meet its filters by the values it shows, and stay in its
  organisation.
- *Chronology.* Documents become searchable late, out of order or without a
  timestamp while a search runs, and the limit is applied at three places. An
  answer must be the newest part of what was asked for, and a change must name
  its entity as the rest of the API does.

## The modules

```
TopologyFreshness      what the projection promises (abstract)
GraphSync              the projection        <- MCGraphSync, GraphSync_proofs, GraphSyncAlone_proofs
  ImpactAnalysis       EXTENDS GraphSync     <- MCImpactAnalysis, ImpactAnalysis_proofs,
                                                ImpactAlone_proofs
BearerRealm            what the realm promises (abstract)
AuthRealm              the auth realm        <- AuthRealm_proofs, AuthRefinement_proofs
ReadMirror             the read mirror       <- MCReadMirror, ReadMirror_proofs
Chronology             events and changes    <- MCChronology, Chronology_proofs
```

**GraphSync.** A syncer is one execution of the loop. `Start` is the search for
topologies; `Skip`, `Begin` and `RaiseUnreadable` are the read of
`last_synced_at` with the decision on it (nothing is awaited between the two);
each Cypher statement is an action (`MergeNetwork`, `DropMembership`,
`MergeDevice`, `JoinNetwork`, `MergeLink`, `DeleteOrphans`), because
`Neo4jGraphStore.execute` runs each in a transaction of its own. `todo` is the
rest of the batch; `Stage` is the order of its kinds. `RaiseNullPort` is MERGE
refusing a null property, `Cut` any other end of the loop (an exception of the
driver, a cancelled request, a killed process): the prefix that was committed stays. Neo4j nodes
have identities of their own (`Node`), apart from the `id` property, because the
code has no uniqueness constraint and its path MERGE makes second nodes for an id;
MATCH by id is a set. `MakePath` is Neo4j's documented behaviour for MERGE of a
pattern whose ends are not bound. Documents are cut down to the devices, the
links and whether building the statements raises. The topology index keeps one
document per network (`Current`), the set `published` remembers those before.
`undisturbed` is a history variable.

**TopologyFreshness.** Per network, the timestamp polled last and the one the
graph is marked with: it only moves forward, never past the poll, and catches up.
`FreshnessSpec` is this specification under a refinement mapping
(`polled` is the timestamp in `Current`, `synced` is `last_synced_at`).

**AuthRealm.** Each repository call is an action; what the code does between two
calls belongs to the one before. `LookUp` and `Check` are the two halves of
`validate_bearer`, `FindTarget` and `Revoke` those of `revoke_token`,
`ListTokens`, `InsertBootstrap`, `InsertFails` and `Recover` those of
`create_bootstrap` in the lifespan of a worker. `Serve` stands for every
protected endpoint that leaves the table alone. The UNIQUE hash is the guard
`Violates`. Two different raw values do not collide, and a new value is neither in
the table nor the bootstrap value (256 random bits). `verdicts` is a history
variable: what an ideal check would have said, at each moment since a request came.

**BearerRealm.** The realm as its callers see it: the values issued, those that
are live, and per request a gate. A request is decided in one step, on whether
its value is live at that step; issuing, revoking and opening the realm are one
step each. `RealmSpec` is this specification under a refinement mapping: `issued`
and `live` are read off the table and the clock, and a request is decided when it
reads its row. A row may expire before the check on it; then the tick of the
clock, `Expire`, is what turns the request away. The step is a promise because of
what it leaves out: no request gets in on a value revoked before it was decided,
no value is live a second time, and nobody opens a realm that has been in use.

**ImpactAnalysis.** GraphSync with readers. `Walk` evaluates the Cypher of
`_impact_cypher`: trails of 1 to depth `LINKED_TO` edges without a repeated one
(a trail is the sequence of its `Hops`), the WHERE of its third line (`Kept`), one
row per trail and network, with the document its node's name and status come
from (`source`). The freshness is read later, from whatever the graph is then: it
may be newer than the rows (`CONTEXT.md` promises no more than eventual
consistency), and `FreshnessBoundsTheRows` says that it is never older.
`FindNeighbor` picks any row as `rows[0]` does. A None result is an
empty set of rows.

**ReadMirror.** `inventory`, `metrics` and `networks` are the three indices a
device is joined from. An entity of one index (uplink, VLAN, topology, network)
and one that gets a network name (switchport, client) go through the same steps
on `metrics`, as query kinds `plain` and `joined`: their requests differ from
each other by the index name and the fields only. Filters are the network and one facet per
index (the product type, the status); further term filters of uplinks and
clients behave as the facet does. A search stops at `HitCap` hits, any of those that match (the 10000 of the
store), so that what a step reads is one of a set of possible results. The
pollers' side (`UpsertInventory`, `UpsertMetrics`, `UpsertNetwork`, the `Purge` of
client documents) is external. `always` and
`ever` are history variables: the keys that matched at every, at some moment of the
request.

**Chronology.** `log` is every document of the syslog and history indices, in
the order in which they became searchable, which says nothing of their `time`:
`Arrives` appends any document of `Documents`, late ones, undated ones, those of
another organisation. A request (`Arrive`, on either surface; REST rejects a limit
out of range, MCP does not) is one `Search`: filters, window, the clamp of `bounded`,
the sort and the cut of the index, then the sort and the cut of the store.
Documents of one time come in any order. The order of time is one:
Elasticsearch sorts dates, and the store sorts the answer again by the strings of
`@timestamp`, which is the same order only if all of them have one format. Names joined with dashes (index
names, ids of entities) are the sequences of their parts, so that what the code
takes from a fixed position of the split is modelled as that. `entity_type` and
`entity_id` are the derivation from a changelog entry, `DocId` and `KeyFields` the ids
that the gets of the same store build. `had` is a history variable: how many
documents there were when the request came.

Names that end in `Bug` are mutated forms of the definition that follows them.
They are used by no specification; they show that each property can fail.

## The runs

| Run | Instance | Shows |
|---|---|---|
| `sync_sequential` | 2 networks that share a device, 2 timestamps, 4 nodes, 1 syncer that is never cut, fair | `LastSyncedWasProjected`, `OneNodePerDevice`, `RebuildOnlyWhenNewer`, and GraphSync implements TopologyFreshness (`FreshnessSpec`, with liveness) |
| `sync_concurrent` | 2 networks that share a device, 2 syncers that may be cut, a topology with a null port, one that cannot be read, 5 nodes | `TypeOK`, `UndisturbedRebuildProjects`, `EdgesComeFromTopology`, `LastSyncedWasPublished` |
| `sync_cut`, `sync_links`, `sync_race` | one syncer that may be cut; one that is not; two | three disagreements, below |
| `auth_requests` | 2 requests, 2 rows, 2 raw values, expiry within 2 days | `TypeOK`, `AuthorizationLinearizes`, `AnsweredWritesHold`, `DeadForGood`, and AuthRealm implements BearerRealm (`RealmSpec`) |
| `auth_bootstrap` | 3 workers, one of which may die or fail, 1 request, 3 rows, fair | `BootstrapIntoEmptyStore`, `WorkersStay`, `WorkersStart` |
| `impact_reads` | 3 devices, 5 nodes, 2 networks, 1 syncer that may be cut, 1 reader, depths 1 and 3, topologies of one network that share one device of two | `ReadsTypeOK`, `ImpactIsConnected`, `FreshnessIsOfTheSeed`, `FreshnessBoundsTheRows`; of the graph a reader meets, `NetworksAreNeverMixed`, `FreshnessSafety` |
| `impact_walk` | the same | one disagreement |
| `mirror_reads` | 3 keys in networks of 2 organisations, a search cut at 1 hit, 1 request of every kind and filter | `TypeOK`, `AnswersAreExact`, `ListsMeetFilters`, `ListsStayInOrg` |
| `mirror_org` | the same | one disagreement |
| `chronology` | 3 documents of 8 (syslog lines, entries of several kinds, late, undated, of another organisation), 1 request of every filter, window and limit | `TypeOK`, `AnswersAreTheNewest`, `ChangesStayInOrg`, `ChangesOpenTheirEntity` |

**Disagreements between code and text** (a run each, listed as findings):

1. `sync_cut`: the marker is written first, so a cut rebuild passes for a
   finished one until the next poll; `domain/graph.py` says the marker is of a
   topology "that was successfully projected".
2. `sync_links`: the path MERGE makes stub devices, and the last statement
   deletes them with their edge. After a complete rebuild the links are
   missing; `tests/test_graph_sync.py` asserts one, on a fake that binds the ends.
3. `sync_race`: two loops decide on one marker and the older topology is written
   last; the endpoint's docstring says "only when ES is newer".
4. `impact_walk`: the WHERE clause drops the devices the seed links to; the
   docstring says the statement matches the fake's breadth-first walk. The depth
   has no effect either: the MERGE of 2 lets no two links meet in a node (`DepthNeverMatters`).
5. `mirror_org`: a get by id has no organisation filter; the module's header says
   the filter is always appended.

One more has no run, since one document is enough to see it: the router offers
`device` as a filter "by reporting device (logsource/host)"
(`chronology_router.py:33`), and an event shows `host` as its device when it has
one (`elasticsearch_state_store.py:563`), but the query compares `logsource` only
(line 491). Asking for the device that an event shows may not find the event.
`Wanted` of Chronology says `logsource`, as the query does.

A concurrent loop breaks `LastSyncedWasProjected` in one more way, through
`DeleteOrphans`, which takes the devices that the rebuild of another network has
merged and not joined yet. `UndisturbedRebuildProjects` says what is left to
count on: the next rebuild that nobody disturbs repairs the network.

### Bounds

- *Two of each actor.* The races are between two loops, two requests, or a
  reader and a loop. In `auth_bootstrap` a third worker makes it possible that one
  loses the race while another fails.
- *`MaxAsOf` = 2.* One topology to project and one to supersede it; a marker that
  moves back needs two timestamps. `Contents` gives the topologies a poll may
  report: devices that go, a device in two networks, a link that goes, no device
  at all, a null port, an unreadable document. `Cabled`, of the
  impact runs, swaps one device of a network for another, so that a mix would be
  seen; the loop of these runs is cut and run again.
- *`Node` = 4 or 5.* Two devices and the two stubs of one link, one more where a
  cut or a race leaves stubs behind. `MergeDevice` and `MakePath` wait when no node is
  free; deadlock is checked in every run, and `sync_sequential` shows that with
  four nodes every rebuild ends.
- *`Id`, `Raw`, `MaxTime`.* Two rows make the caller's token and another; the last
  instant before and the first at an expiry are both within two days.
- *`Depth`.* 1, and the default, set to 3, which is longer than any trail of the
  instance that does not repeat an edge.
- *`HitCap` = 1 of the mirror.* The smallest cap that a second match exceeds;
  three keys of which two may match.
- *`MaxLog` = 3, limits 0, 2 and 3 with `MIN_LIMIT` 1 and `MAX_LIMIT` 2.* A limit
  below, inside and above the range; three documents are one more than the longest
  answer, and enough for one to arrive late between two others.
- `SyncerSymmetry` permutes the syncers, in a run without liveness.

### Fairness

`FairSpec` of GraphSync assumes weak fairness of `Start` and `Pass` of each
syncer: databases answer, and the sync is run again and again. Nothing in the
code schedules it: the CLI is made to be scheduled from outside, so this is an
assumption on the deployment, which `FreshnessSpec`'s liveness rests on, and on
nothing more. The poller is not fair. `FairSpec` of AuthRealm assumes that a
worker gets on with its startup: Postgres answers. Requests are not fair.

## The proofs

`tlapm` checks all steps of the eight `_proofs` modules. They rest on the
assumptions named in the modules they are about: sentinels are no members of the sets
they stand beside, `Contents` has topologies in it, a time-to-live is positive,
documents have their fields, the limits are ordered. The sets of syncers, networks,
devices, nodes, requests, readers, workers, ids, keys and documents are arbitrary.

| Theorem | States | Argument |
|---|---|---|
| `GraphSync_proofs!TypeCorrect` | `Spec => []TypeOK` | inductive with the graph's and the loop's half separately; the loop's half (statements are of a published document) types the graph's |
| `MarkNeverAhead` | `Spec => []LastSyncedWasPublished` | only `MergeNetwork` writes, with the timestamp of a document `TypeOK` says is published; `published` only grows |
| `EdgesAreReal` | `Spec => []EdgesComeFromTopology` | an edge is made for the document being rebuilt; a node changes its id only from none or to none, and loses its edges with it |
| `RebuildHeals` | `Spec => []UndisturbedRebuildProjects` | while a rebuild is undisturbed, each statement no longer in `todo` has its effect in the graph; the stages order them |
| `GraphSyncAlone_proofs!MarkMovesForward` | `Solo` implies `Spec => RebuildOnlyWhenNewer` | `LoopInv`, below |
| `RefinesFreshness` | `Solo` implies `Spec => FreshnessSafety`: the initial states and steps of `FreshnessSpec` | `LoopInv` |
| `ReadersNeverMeetAMix` | `Solo` implies `Spec => []NetworksAreNeverMixed` | `LoopInv`, below |
| `MarkNamesTheProjected` | `Alone` implies `Spec => []LastSyncedWasProjected` | `AloneInv`, below |
| `NodesAreOne` | `Alone` and `Ported` imply `Spec => []OneNodePerDevice` | a rebuild makes second nodes after its joins only, none of them a member, and deletes what is no member |
| `AuthRealm_proofs!TypeCorrect` | `Spec => []TypeOK` | one step per action |
| `AuthorizationIsLinearizable` | `Spec => []AuthorizationLinearizes` | `AuthInv`, below |
| `AnswersAreTrue` | `Spec => []AnsweredWritesHold` | `AuthInv` |
| `BootstrapOnlyWhenEmpty` | `Spec => BootstrapIntoEmptyStore` | `AuthInv` |
| `LosersRecover` | `Spec => WorkersStay` | `RaceWasLost`, below |
| `AuthRefinement_proofs!RefinesBearerRealm` | `Spec => RealmSpec` | `AuthInv`; one lemma per action of AuthRealm, below |
| `TheDeadStayDead` | `Spec => DeadForGood` | holds of BearerRealm, whose only steps that add live values issue new ones; carried over by the refinement |
| `ImpactAnalysis_proofs!ReadsTypeCorrect`, `ReportsAreConnected`, `FreshnessIsReal` | `ImpactSpec => []ReadsTypeOK`, `[]ImpactIsConnected`, `[]FreshnessIsOfTheSeed` | `ImpactInv`, below |
| `ImpactAlone_proofs!FreshnessCoversTheRows` | `Solo` implies `ImpactSpec => []FreshnessBoundsTheRows` | `BoundsInv`, below |
| `ImpactAnalysis_proofs!DepthNeverMatters` | `ImpactSpec => []DepthIsWithoutEffect`: a walk has the same rows for every depth | `LinksStandAlone`, below |
| `ReadMirror_proofs!TypeCorrect`, `AnswersExact`, `FiltersAreMet`, `ListsAreOurs` | `Spec => []TypeOK`, `[]AnswersAreExact`, `[]ListsMeetFilters`, `[]ListsStayInOrg` | `MirrorInv`, below |
| `Chronology_proofs!TypeCorrect`, `NewestFirstAlways`, `ChangesAreOurs` | `Spec => []TypeOK`, `[]AnswersAreTheNewest`, `[]ChangesStayInOrg` | `ChronologyInv`, below |
| `ChangesAreOpened` | `Spec => []ChangesOpenTheirEntity` | holds of any two derivations of one entry, kind by kind; no invariant |

`UndisturbedRebuildProjects` speaks of the end of a rebuild only, so it is not
inductive. `RebuildInv` adds that the statements left are closed under the order
of the stages, and what each stage has established once its statements are gone:
the marker (`MarkDone`), no membership of an earlier topology (`MembersDone`),
devices that carry this topology (`DevicesDone`), their memberships
(`JoinsDone`), no orphan (`OrphansDone`).

Six properties are not true of two loops at once. `Solo` is the assumption that
there is one at most; it may be cut anywhere and run again, over and over. Then a
rebuild is undisturbed as long as it lasts (`Owned`), so that `RebuildInv` speaks of
all rebuilds; a timestamp names one document (`Distinct`), whose marker is older
until it is written (`Ahead`), and the index always holds one (`HasLatest`).
Together with the invariants that need no assumption they are `LoopInv`. A cut
keeps it, because it only drops what was still to be executed. A network is not a mix even
between two statements, and after a cut between any two: the marker is the first
statement and the memberships of before go in the second, all of them at once,
so that a device is joined to a network that holds devices of its own topology only.

`Alone` adds that nothing but the loop's own statements ends it (a null
port or an unreadable topology may). Under it a finished rebuild is what the
marker promises: the members of other networks survive each statement, the orphan
deletion included. `Ported` (no link lacks a port) is needed for one node per device: a
rebuild that ends at a null port leaves its stubs.

`AuthorizationLinearizes` speaks of decisions that were taken. `AuthInv` is
`TableInv` (types, one row per hash, what a request at each step holds),
`SeesAll`, `AnswersAllTrue` and `Seeded`. `SeesAll` relates the row a request has
read to the history: rows are never deleted and never unrevoked, so that a row
read unrevoked, and not expired when it is checked, was valid when it was read;
one read as revoked, or expired when it is checked, still is. `Seeded` says that
the first row of the table is the bootstrap token's, since nobody is authorized to
issue one before there is any: a worker whose check is stale fails on the UNIQUE
hash. It rests on a store that starts empty and on one bootstrap value for all
workers. `RaceWasLost` says of a worker whose INSERT failed that the row it
failed on is in the table, so that the read that follows finds it.

The refinement has a lemma for each action: what it does to `Issued`, `Live` and the gate
of its request, and that it leaves the gates of others. A gate that is
decided depends on the row the request holds and on the clock, so that it changes at
a tick only; a row turned away at a `Tick` has just expired, the table's row has its
expiry (`SeesAll`), and one row per hash (`OneRowPerHash`) makes that the death
of the value. A revocation,
which writes a row it read earlier, still kills in one step: nothing of the row but
`revoked_at` can have changed in between.

`ImpactInv` adds to the graph's invariants that a network with a member has a
marker (`MembersAreMarked`: the marker is a rebuild's first statement and is never
taken back), so that a freshness is a timestamp, and to the requests' that the seed
of a walk is connected to the device that was asked for (`Seeded`). That a
walk stays connected goes through the hops of a trail: `TrailStaysInside` looks at
the least hop that would leave a closed set of devices, which exists because `<` is well-founded.
`BoundsInv` adds, under `Solo`, that no node carries a document newer than its network's
mark (`SourcesAreMarked`), and no row has shown one (`RowsAreMarked`). The first holds because the
mark is written before any device (`MarkDone`), whatever is cut after it; the second
survives every statement between the two reads because the mark only rises (`Ahead`).
So a mark that is read after the rows is no older than they are. With the marker as
the last statement, where `sync_cut` might suggest it, the property fails: a retry
then adopts the stubs of a cut rebuild before the mark moves.
`LinksStandAlone` says that no two edges meet in a node; it holds because `MakePath` takes
two free nodes and nothing else makes an edge, so a trail that repeats no edge ends after one hop.

`MirrorInv` says of each request what its steps have established so far: the
sides it has not read are empty (`Rests`), the documents it holds meet the filters
of their search (`Meets`), what matches now lies between `always` and `ever`
(`Encloses`), and so does what a defining side was read as, up to the cap
(`ExactReads`): it was read at one moment of the request, and `always` shrinks
while `ever` grows. `ChronologyInv` says of each answer that its places match
(`Filled`) and are the newest (`Newest`); documents are only appended, so that a
place goes on matching, and what is left out of a cut of a sorted sequence is no newer than
what is in it.

TLC checked the strengthenings as invariants of the same instances before they
were proved.

Model-checked only: liveness (`WorkersStart`, of which `WorkersStay` is the safe half,
and the fair part of `FreshnessSpec`) and ENABLED are out of the prover's reach. Every
other property of a passing run is proved.

## Left out

- Names, models, addresses and other fields that are copied from a document to
  an answer, their formats, HTTP encoding, SSE.
- Topology documents without a timestamp (a rebuild raises, as it does on an
  unreadable document); the exception the Elasticsearch client raises for a
  missing id (the model follows the branch the code has).
- The relevance and analysis of a text search: a message matches or does not.
- The wiring of `main.py` and the client lifespans: what they build does not change
  after startup, and a startup that fails ends the worker, which AuthRealm has.
  Settings, health and the dataclasses of `domain/` have no behaviour.
- Two concurrent DELETEs of one token are both answered 204, where one after
  the other gives 204 and 409: `AnsweredWritesHold` says what both may count on.
- Concurrent MERGEs of one id within Neo4j: a statement is atomic here.
- Different bootstrap values of workers, and the lock-out when all tokens are revoked.

## Plan

1. Composition of the bearer check with a protected operation (a sync or a
   revocation by a token that is revoked meanwhile).
2. A MERGE that is not atomic under concurrent transactions.
3. A topology index that loses networks (`Poll` never removes one).
