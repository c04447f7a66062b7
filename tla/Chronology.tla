----------------------------- MODULE Chronology -----------------------------
(***************************************************************************)
(* The timeline: GET /twin/events and /twin/changes and the MCP tools of   *)
(* the same names, through application/read_mirror.py to one search of     *)
(* adapters/elasticsearch_state_store.py over indices that only grow.      *)
(* Documents arrive while requests are in flight, and may arrive late: the *)
(* time of a document says nothing about when it became searchable.        *)
(*                                                                         *)
(* Names joined with dashes, index names among them, are the sequences of  *)
(* their parts, so that a serial or a port may itself have several.        *)
(***************************************************************************)
EXTENDS Integers, Sequences, FiniteSets

CONSTANTS
  Request,      \* requests in flight at once
  Documents,    \* what Logstash may append
  MaxLog,       \* bound on the number of documents
  Device, NetworkId, Text,  \* what a request may filter on
  Window,       \* the start and end it may give
  Limit,        \* and the limits
  MIN_LIMIT, MAX_LIMIT,
  HitCap,       \* the 10000 of the store
  TwinOrg,      \* settings.meraki_org_id
  None          \* null, or a filter not given

(* A syslog line has a message and a logsource; a changelog entry an       *)
(* organisation and what identifies its entity (part is the interface, the *)
(* port or the VLAN).                                                      *)
Fields == {"index", "id", "time", "org", "serial", "part", "network", "message", "logsource"}

Window0 == [start |-> None, end |-> None]

ASSUME LimitAssumption ==
  /\ {MIN_LIMIT, MAX_LIMIT, HitCap, MaxLog} \subseteq Nat /\ Limit \subseteq Int
  /\ MIN_LIMIT <= MAX_LIMIT /\ MAX_LIMIT <= HitCap
ASSUME DocumentsAssumption ==
  \A d \in Documents : DOMAIN d = Fields /\ (d.time = None \/ d.time \in Nat \ {0})
ASSUME WindowAssumption ==
  None \notin Nat /\ Window \subseteq [start : Nat \cup {None}, end : Nat \cup {None}]

Query == [stream : {"events", "changes"}, surface : {"rest", "mcp"},
          device : Device \cup {None}, network : NetworkId \cup {None}, text : Text \cup {None},
          window : Window \cup {Window0}, limit : Limit]

VARIABLES
  log,     \* every document of meraki-syslog-* and meraki-*-history-*, as appended
  at,      \* where a request is: idle, searching, answered, rejected
  query,   \* the request
  found,   \* the documents of its answer, as places in the log
  had      \* history: how many documents there were when it arrived

vars == <<log, at, query, found, had>>

-----------------------------------------------------------------------------
(* Names.                                                                  *)

syslog(index)  == index[1] = "meraki" /\ index[2] = "syslog"
history(index) == index[1] = "meraki" /\ \E i \in 3..Len(index) - 1 : index[i] = "history"

(* The id under which the state of an entity is kept, as its get builds it*)
(* from what the caller gives.                                             *)
KeyFields ==
  [inventory |-> <<"serial">>, device |-> <<"serial">>,
   uplink |-> <<"serial", "part">>, switchport |-> <<"serial", "part">>,
   vlan |-> <<"network", "part">>, network |-> <<"network">>, topology |-> <<"network">>]

DocId(kind, d) ==
  LET key == KeyFields[kind] IN
  IF Len(key) = 1 THEN d[key[1]] ELSE d[key[1]] \o d[key[2]]

(* _extract_entity_type_from_index: the kind must be of one part.          *)
entity_type(index) == IF index[3] = "history" THEN index[2] ELSE "unknown"

(* _extract_entity_id: else the id of the entry itself.                    *)
SerialFirstBug(d) == IF d.serial # None THEN d.serial ELSE d.id
entity_id(d) ==
  LET kind   == entity_type(d.index)
      has(f) == d[f] # None IN
  CASE kind \in {"inventory", "device"} /\ has("serial") -> d.serial
    [] kind \in {"uplink", "switchport"} /\ has("serial") /\ has("part") -> d.serial \o d.part
    [] kind = "vlan" /\ has("network") /\ has("part") -> d.network \o d.part
    [] kind \in {"network", "topology"} /\ has("network") -> d.network
    [] OTHER -> d.id

-----------------------------------------------------------------------------
(* The search.                                                             *)

NoClampBug(limit) == limit
bounded(limit) ==
  IF limit < MIN_LIMIT THEN MIN_LIMIT ELSE IF limit > MAX_LIMIT THEN MAX_LIMIT ELSE limit

(* A document without @timestamp sorts last, and is in no range.  The      *)
(* order is one: Elasticsearch sorts dates and the store sorts the strings *)
(* again, which agree on timestamps of one format.                         *)
When(d) == IF d.time = None THEN 0 ELSE d.time

(* The range filter, which is there when either end is given.              *)
Within(w, d) ==
  w # Window0 => /\ d.time # None
                 /\ w.start # None => w.start <= d.time
                 /\ w.end # None => d.time <= w.end

AnyOrgBug(d) == TRUE
InOrg(d)     == d.org = TwinOrg

EventMatches(q, d) ==
  /\ syslog(d.index)
  /\ q.device \in {None, d.logsource}
  /\ q.network \in {None, d.network}
  /\ q.text \in {None, d.message}
  /\ Within(q.window, d)

ChangeMatches(q, d) ==
  /\ history(d.index)
  /\ InOrg(d)
  /\ q.device \in {None, d.serial}
  /\ q.network \in {None, d.network}
  /\ Within(q.window, d)

Matching(q) ==
  {i \in 1..Len(log) : IF q.stream = "events" THEN EventMatches(q, log[i])
                       ELSE ChangeMatches(q, log[i])}

Places(s) == {s[i] : i \in DOMAIN s}

(* The members of S newest first, those of one time in any order.          *)
UnsortedBug(S) == {s \in [1..Cardinality(S) -> S] : Places(s) = S}
NewestFirst(S) ==
  {s \in [1..Cardinality(S) -> S] :
     /\ Places(s) = S
     /\ \A i, j \in DOMAIN s : i < j => When(log[s[i]]) >= When(log[s[j]])}

First(s, n) == IF Len(s) <= n THEN s ELSE SubSeq(s, 1, n)

-----------------------------------------------------------------------------
(* What is appended, by the pipelines.                                     *)

Arrives(d) ==
  /\ Len(log) < MaxLog
  /\ log' = Append(log, d)
  /\ UNCHANGED <<at, query, found, had>>

-----------------------------------------------------------------------------
(* Requests.                                                               *)

(* The REST endpoint has its limit validated (422); the tool's is clamped. *)
Rejected(q) == q.surface = "rest" /\ q.limit \notin MIN_LIMIT..MAX_LIMIT

Arrive(r, q) ==
  /\ at[r] = "idle"
  /\ at' = [at EXCEPT ![r] = IF Rejected(q) THEN "rejected" ELSE "searching"]
  /\ query' = [query EXCEPT ![r] = q]
  /\ had' = [had EXCEPT ![r] = Len(log)]
  /\ UNCHANGED <<log, found>>

(* One search, sorted and cut by Elasticsearch, and again by the store.    *)
Search(r) ==
  LET n    == bounded(query[r].limit)
      size == IF n <= HitCap THEN n ELSE HitCap IN
  /\ at[r] = "searching"
  /\ at' = [at EXCEPT ![r] = "answered"]
  /\ \E s \in NewestFirst(Matching(query[r])) :
     \E docs \in NewestFirst(Places(First(s, size))) :
        found' = [found EXCEPT ![r] = First(docs, n)]
  /\ UNCHANGED <<log, query, had>>

NoQuery == [stream |-> "events", surface |-> "mcp", device |-> None, network |-> None,
            text |-> None, window |-> Window0, limit |-> MIN_LIMIT]

Leave(r) ==
  /\ at[r] \in {"answered", "rejected"}
  /\ at' = [at EXCEPT ![r] = "idle"]
  /\ query' = [query EXCEPT ![r] = NoQuery]
  /\ found' = [found EXCEPT ![r] = <<>>]
  /\ had' = [had EXCEPT ![r] = 0]
  /\ UNCHANGED log

(* Only events are searched by text.                                       *)
WellFormed(q) == q.stream = "changes" => q.text = None

Init ==
  /\ log = <<>>
  /\ at = [r \in Request |-> "idle"]
  /\ query = [r \in Request |-> NoQuery]
  /\ found = [r \in Request |-> <<>>]
  /\ had = [r \in Request |-> 0]

Next ==
  \/ \E d \in Documents : Arrives(d)
  \/ \E r \in Request : \/ \E q \in {x \in Query : WellFormed(x)} : Arrive(r, q)
                        \/ Search(r)
                        \/ Leave(r)

Spec == Init /\ [][Next]_vars

-----------------------------------------------------------------------------
(* What is answered.                                                       *)

(* _change_from_doc and project_change: current has neither the            *)
(* organisation nor the time.                                              *)
project_change(d) ==
  [time |-> d.time, index |-> d.index, entity_type |-> entity_type(d.index),
   entity_id |-> entity_id(d), network |-> d.network, serial |-> d.serial,
   current |-> [f \in Fields \ {"index", "id", "org", "time"} |-> d[f]]]

Answered(r, stream) ==
  IF at[r] = "answered" /\ query[r].stream = stream THEN Places(found[r]) ELSE {}

Changes(r) == {project_change(log[i]) : i \in Answered(r, "changes")}

-----------------------------------------------------------------------------
(* Properties.                                                             *)

(* The shape of the log and of the requests; no answer is longer than      *)
(* MAX_LIMIT, whatever was asked for and on whichever surface.             *)
TypeOK ==
  /\ log \in Seq(Documents) /\ Len(log) <= MaxLog
  /\ at \in [Request -> {"idle", "searching", "answered", "rejected"}]
  /\ query \in [Request -> Query \cup {NoQuery}]
  /\ found \in [Request -> Seq(1..Len(log))]
  /\ had \in [Request -> 0..Len(log)]
  /\ \A r \in Request : Len(found[r]) <= MAX_LIMIT

(* What a document must have to be asked for, said without the search.     *)
Wanted(q, d) ==
  /\ IF q.stream = "events" THEN syslog(d.index) ELSE history(d.index) /\ d.org = TwinOrg
  /\ q.device # None => q.device = IF q.stream = "events" THEN d.logsource ELSE d.serial
  /\ q.network # None => q.network = d.network
  /\ q.text # None => q.text = d.message
  /\ q.window.start # None => d.time # None /\ d.time >= q.window.start
  /\ q.window.end # None => d.time # None /\ d.time <= q.window.end

(* "Results are sorted newest first" and cut to the limit, twice, while    *)
(* documents arrive: an answer has only what was asked for, no document    *)
(* twice, is in order, and leaves out of those there when the request came *)
(* only what is no newer than all of an answer that is as long as was      *)
(* asked for.  So a client that gets fewer than it asked for has them all. *)
AnswersAreTheNewest ==
  \A r \in Request : at[r] = "answered" =>
    LET a == found[r]
        newer(i, j) == When(log[i]) >= When(log[j]) IN
    /\ \A k \in Places(a) : Wanted(query[r], log[k])
    /\ \A i, j \in DOMAIN a : i < j => a[i] # a[j] /\ newer(a[i], a[j])
    /\ \A k \in 1..had[r] : Wanted(query[r], log[k]) /\ k \notin Places(a) =>
         /\ Len(a) = MAX_LIMIT \/ (Len(a) >= query[r].limit /\ Len(a) >= MIN_LIMIT)
         /\ \A i \in DOMAIN a : newer(a[i], k)

(* "The org filter is always applied" to changes: none of another          *)
(* organisation is answered, and a syslog line, which has none, is no      *)
(* change.                                                                 *)
ChangesStayInOrg ==
  \A r \in Request : \A i \in Answered(r, "changes") : log[i].org = TwinOrg

(* The id of a change, which is derived in one place, opens the entity     *)
(* that changed, whose get builds the document id in another: the two must *)
(* agree for every kind that has a get, when the entry has the fields.     *)
ChangesOpenTheirEntity ==
  \A r \in Request : \A c \in Changes(r) :
    /\ c.entity_type \in DOMAIN KeyFields
    /\ \A f \in Places(KeyFields[c.entity_type]) : c.current[f] # None
    => c.entity_id = DocId(c.entity_type, c.current)
=============================================================================
