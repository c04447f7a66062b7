----------------------------- MODULE AuthRealm -----------------------------
(***************************************************************************)
(* The auth realm: bearer tokens in Postgres, validated on every REST and  *)
(* MCP request, issued and revoked by the admin endpoints, and seeded by   *)
(* the bootstrap that each worker runs when it starts.                     *)
(*   application/token_service.py, adapters/postgres_token_repository.py,  *)
(*   domain/tokens.py, presentation/bearer.py, presentation/admin_tokens.py*)
(*   and the lifespan of main.py.                                          *)
(*                                                                         *)
(* A repository call is one transaction and one await: other requests,     *)
(* other workers and the clock move between two of them.                   *)
(***************************************************************************)
EXTENDS Naturals

CONSTANTS
  Request,        \* requests in flight at once; an answered one may be reused
  Worker,         \* worker processes
  Flaky,          \* workers that may die, or whose INSERT may fail
  Id,             \* token ids (uuid4): the bound on rows
  Raw,            \* raw token values
  BootstrapToken, \* settings.bootstrap_token, NoRaw when empty
  Ttl,            \* ttl_days a caller may ask for, NoTime when none
  MaxTime,        \* bound on the clock, in days
  NoRaw, NoRow, NoTime, NoId

Time == 0..MaxTime
Some(x) == x # NoTime

(* Hashing is deterministic and collision-free; a row never holds a raw    *)
(* value.                                                                  *)
Hash == [sha256 : Raw]
StoresRawBug(raw) == raw
hash_token(raw)   == [sha256 |-> raw]

Row == [hash : Hash, expires_at : Nat \cup {NoTime}, revoked_at : Time \cup {NoTime}]

ASSUME TimeAssumption   == MaxTime \in Nat /\ Ttl \subseteq (Nat \ {0}) \cup {NoTime} /\ NoTime \notin Nat
ASSUME TokenAssumption  == NoRow \notin Row /\ NoRaw \notin Raw /\ NoId \notin Id
                           /\ BootstrapToken \in Raw \cup {NoRaw}
ASSUME WorkerAssumption == Flaky \subseteq Worker

VARIABLES
  clock,
  tokens,    \* the table: id -> row, NoRow when there is none
  boot,      \* a worker's lifespan: down, list, insert, recover, up
  pc,        \* a request: idle, lookup, check, authorized, revoking, answered
  raw,       \* the bearer value it presented
  row,       \* the row its last repository read returned
  target,    \* the id of the token it revokes, or has issued
  stamp,     \* revoked_at of its TokenService.revoke_token
  answer,    \* its HTTP status, 0 before it is answered
  verdicts   \* history: was its bearer value valid, at each moment since it arrived

request == <<pc, raw, row, target, stamp, answer>>
vars    == <<clock, tokens, boot, request, verdicts>>

-----------------------------------------------------------------------------
(* The table.                                                              *)

Rows           == {i \in Id : tokens[i] # NoRow}
get_by_id(i)   == tokens[i]
get_by_hash(h) == IF \E i \in Rows : tokens[i].hash = h
                  THEN tokens[CHOOSE i \in Rows : tokens[i].hash = h] ELSE NoRow

(* hashed_value TEXT NOT NULL UNIQUE.                                      *)
NoConstraintBug(h) == FALSE
Violates(h)        == \E i \in Rows : tokens[i].hash = h

Insert(i, h, expires) ==
  /\ i \notin Rows
  /\ ~Violates(h)
  /\ tokens' = [tokens EXCEPT ![i] =
                 [hash |-> h, expires_at |-> expires, revoked_at |-> NoTime]]

LostUpdateBug(i, at) == tokens[i]
TogglesBug(i, at)    == [tokens[i] EXCEPT !.revoked_at = IF @ = NoTime THEN at ELSE NoTime]
Revoked(i, at)       == [tokens[i] EXCEPT !.revoked_at = at]

(* Token.is_expired and Token.ensure_valid.                                *)
ExpiresLateBug(r) == Some(r.expires_at) /\ r.expires_at < clock
is_expired(r)     == Some(r.expires_at) /\ r.expires_at <= clock
EnsuresValid(r)   == ~Some(r.revoked_at) /\ ~is_expired(r)

(* What a valid bearer value is, said without the code: its token is there,*)
(* has not been revoked, and has time left.                                *)
ValidNow(v) == \E i \in Id :
  /\ tokens[i] # NoRow
  /\ tokens[i].hash = [sha256 |-> v]
  /\ tokens[i].revoked_at = NoTime
  /\ tokens[i].expires_at = NoTime \/ clock < tokens[i].expires_at

Verdict(v) == IF ValidNow(v) THEN "valid" ELSE "invalid"

Observe == verdicts' = [r \in Request |->
             verdicts[r] \cup {Verdict(v)' : v \in {raw[r]} \ {NoRaw}}]

-----------------------------------------------------------------------------
(* Requests.                                                               *)

Up == \E w \in Worker : boot[w] = "up"

Goes(r, from, to) == pc[r] = from /\ pc' = [pc EXCEPT ![r] = to]
Answers(r, from, status) ==
  /\ Goes(r, from, "answered")
  /\ answer' = [answer EXCEPT ![r] = status]

Arrive(r, v) ==
  /\ Up
  /\ Goes(r, "idle", "lookup")
  /\ raw' = [raw EXCEPT ![r] = v]
  /\ verdicts' = [verdicts EXCEPT ![r] = {Verdict(v)}]
  /\ UNCHANGED <<clock, tokens, boot, row, target, stamp, answer>>

(* No header, or one that is not "Bearer <value>".                         *)
ArriveWithoutBearer(r) ==
  /\ Up
  /\ Answers(r, "idle", 401)
  /\ UNCHANGED <<clock, tokens, boot, raw, row, target, stamp, verdicts>>

LookUp(r) ==
  /\ Goes(r, "lookup", "check")
  /\ row' = [row EXCEPT ![r] = get_by_hash(hash_token(raw[r]))]
  /\ UNCHANGED <<clock, tokens, boot, raw, target, stamp, answer, verdicts>>

(* The rest of validate_bearer, on the row that was read and at the time   *)
(* it is now.                                                              *)
AcceptsRevokedBug(r) == row[r] # NoRow /\ ~is_expired(row[r])

Accepts(r) == row[r] # NoRow /\ EnsuresValid(row[r])

Check(r) ==
  /\ IF Accepts(r) THEN Goes(r, "check", "authorized") /\ UNCHANGED answer
     ELSE Answers(r, "check", 401)
  /\ UNCHANGED <<clock, tokens, boot, raw, row, target, stamp, verdicts>>

(* Any protected endpoint that leaves the table alone.                     *)
Serve(r) ==
  /\ Answers(r, "authorized", 200)
  /\ UNCHANGED <<clock, tokens, boot, raw, row, target, stamp, verdicts>>

(* POST /admin/tokens; the name is blank, or a token is saved under a new  *)
(* value that is answered.                                                 *)
IssueUnnamed(r) ==
  /\ Answers(r, "authorized", 422)
  /\ UNCHANGED <<clock, tokens, boot, raw, row, target, stamp, verdicts>>

Expiry(ttl) == IF Some(ttl) THEN clock + ttl ELSE NoTime

Issue(r, i, v, ttl) ==
  /\ Answers(r, "authorized", 201)
  /\ v # BootstrapToken
  /\ Insert(i, hash_token(v), Expiry(ttl))
  /\ target' = [target EXCEPT ![r] = i]
  /\ UNCHANGED <<clock, boot, raw, row, stamp>>
  /\ Observe

(* DELETE /admin/tokens/{id}: the read and what is decided on it, then the *)
(* UPDATE.                                                                 *)
FindTarget(r, i) ==
  /\ row' = [row EXCEPT ![r] = get_by_id(i)]
  /\ target' = [target EXCEPT ![r] = i]
  /\ \/ get_by_id(i) = NoRow /\ Answers(r, "authorized", 404) /\ UNCHANGED stamp
     \/ /\ get_by_id(i) # NoRow /\ Some(get_by_id(i).revoked_at)
        /\ Answers(r, "authorized", 409) /\ UNCHANGED stamp
     \/ /\ get_by_id(i) # NoRow /\ ~Some(get_by_id(i).revoked_at)
        /\ Goes(r, "authorized", "revoking") /\ UNCHANGED answer
        /\ stamp' = [stamp EXCEPT ![r] = clock]
  /\ UNCHANGED <<clock, tokens, boot, raw, verdicts>>

Revoke(r) ==
  /\ Answers(r, "revoking", 204)
  /\ tokens' = [tokens EXCEPT ![target[r]] = Revoked(target[r], stamp[r])]
  /\ UNCHANGED <<clock, boot, raw, row, target, stamp>>
  /\ Observe

(* The client has its answer, or is gone, or its worker died.              *)
Leave(r) ==
  /\ pc[r] # "idle"
  /\ pc' = [pc EXCEPT ![r] = "idle"]
  /\ raw' = [raw EXCEPT ![r] = NoRaw]
  /\ row' = [row EXCEPT ![r] = NoRow]
  /\ target' = [target EXCEPT ![r] = NoId]
  /\ stamp' = [stamp EXCEPT ![r] = 0]
  /\ answer' = [answer EXCEPT ![r] = 0]
  /\ verdicts' = [verdicts EXCEPT ![r] = {}]
  /\ UNCHANGED <<clock, tokens, boot>>

-----------------------------------------------------------------------------
(* Workers: the lifespan up to its yield, with create_bootstrap in it.     *)

Boots(w, from, to) == boot[w] = from /\ boot' = [boot EXCEPT ![w] = to]

StartWorker(w) ==
  /\ Boots(w, "down", IF BootstrapToken = NoRaw THEN "up" ELSE "list")
  /\ UNCHANGED <<clock, tokens, request, verdicts>>

ListTokens(w) ==
  /\ Boots(w, "list", IF Rows = {} THEN "insert" ELSE "up")
  /\ UNCHANGED <<clock, tokens, request, verdicts>>

InsertBootstrap(w, i) ==
  /\ Boots(w, "insert", "up")
  /\ Insert(i, hash_token(BootstrapToken), NoTime)
  /\ UNCHANGED <<clock, request>>
  /\ Observe

InsertFails(w) ==
  /\ Violates(hash_token(BootstrapToken)) \/ w \in Flaky
  /\ Boots(w, "insert", "recover")
  /\ UNCHANGED <<clock, tokens, request, verdicts>>

(* except Exception: another worker's bootstrap is as good; anything else  *)
(* is raised and the worker does not start.                                *)
RaisesAlwaysBug(w) == "down"
RetriesBug(w) == "insert"
Recovered(w) == IF get_by_hash(hash_token(BootstrapToken)) # NoRow THEN "up" ELSE "down"

Recover(w) ==
  /\ Boots(w, "recover", Recovered(w))
  /\ UNCHANGED <<clock, tokens, request, verdicts>>

Die(w) ==
  /\ w \in Flaky
  /\ boot[w] # "down"
  /\ Boots(w, boot[w], "down")
  /\ UNCHANGED <<clock, tokens, request, verdicts>>

Tick ==
  /\ clock < MaxTime
  /\ clock' = clock + 1
  /\ UNCHANGED <<tokens, boot, request>>
  /\ Observe

-----------------------------------------------------------------------------
Init ==
  /\ clock = 0
  /\ tokens = [i \in Id |-> NoRow]
  /\ boot = [w \in Worker |-> "down"]
  /\ pc = [r \in Request |-> "idle"]
  /\ raw = [r \in Request |-> NoRaw]
  /\ row = [r \in Request |-> NoRow]
  /\ target = [r \in Request |-> NoId]
  /\ stamp = [r \in Request |-> 0]
  /\ answer = [r \in Request |-> 0]
  /\ verdicts = [r \in Request |-> {}]

Handles(r) ==
  \/ \E v \in Raw : Arrive(r, v)
  \/ ArriveWithoutBearer(r)
  \/ LookUp(r) \/ Check(r) \/ Serve(r) \/ IssueUnnamed(r)
  \/ \E i \in Id, v \in Raw, ttl \in Ttl : Issue(r, i, v, ttl)
  \/ \E i \in Id : FindTarget(r, i)
  \/ Revoke(r)
  \/ Leave(r)

Lifespan(w) ==
  \/ StartWorker(w) \/ ListTokens(w)
  \/ \E i \in Id : InsertBootstrap(w, i)
  \/ InsertFails(w) \/ Recover(w)

Next ==
  \/ \E r \in Request : Handles(r)
  \/ \E w \in Worker : Lifespan(w) \/ Die(w)
  \/ Tick

Spec     == Init /\ [][Next]_vars
(* Each worker gets on with its startup: Postgres answers.                 *)
FairSpec == Spec /\ \A w \in Worker : WF_vars(Lifespan(w))

-----------------------------------------------------------------------------
Reply == {0, 200, 201, 204, 401, 404, 409, 422}

(* The shape of the state; rows hold hashes only.                          *)
TypeOK ==
  /\ clock \in Time
  /\ tokens \in [Id -> Row \cup {NoRow}]
  /\ boot \in [Worker -> {"down", "list", "insert", "recover", "up"}]
  /\ pc \in [Request -> {"idle", "lookup", "check", "authorized", "revoking", "answered"}]
  /\ raw \in [Request -> Raw \cup {NoRaw}]
  /\ row \in [Request -> Row \cup {NoRow}]
  /\ target \in [Request -> Id \cup {NoId}]
  /\ stamp \in [Request -> Time]
  /\ answer \in [Request -> Reply]
  /\ verdicts \in [Request -> SUBSET {"valid", "invalid"}]

(* Authorization is as good as if it were decided at one moment between    *)
(* the arrival of the request and its service: a bearer value gets in only *)
(* if it was valid at some such moment, and is turned away only if it was  *)
(* invalid at one.  So a token whose DELETE was answered stops authorizing *)
(* every request that arrives later (admin_tokens.py: "immediately"),      *)
(* though its row is read before it is used.                               *)
AuthorizationLinearizes ==
  \A r \in Request :
    /\ pc[r] \in {"authorized", "revoking"} => "valid" \in verdicts[r]
    /\ pc[r] = "answered" /\ raw[r] # NoRaw =>
         (IF answer[r] = 401 THEN "invalid" ELSE "valid") \in verdicts[r]

(* A write that was answered stays: the token of a 201 is in the table,    *)
(* the token of a 204 is revoked, whatever other requests wrote since; a   *)
(* 409 was not spurious.                                                   *)
AnsweredWritesHold ==
  \A r \in Request :
    /\ answer[r] = 201 => tokens[target[r]] # NoRow
    /\ answer[r] \in {204, 409} => Some(tokens[target[r]].revoked_at)

(* "Create a bootstrap token if the store is empty": the check and the     *)
(* INSERT are two transactions, and still no worker adds a bootstrap token *)
(* to a store that has tokens.                                             *)
BootstrapIntoEmptyStore ==
  [][\A w \in Worker : boot[w] = "insert" /\ boot'[w] = "up" => Rows = {}]_vars

(* A worker that loses the race to bootstrap recovers: losing is not an    *)
(* error, so that no sound worker is stopped by its own bootstrap.  The    *)
(* INSERT that failed proves a row that the read after it must still find. *)
WorkersStay ==
  [][\A w \in Worker \ Flaky : boot[w] # "down" => boot'[w] # "down"]_vars

(* Workers that race to bootstrap all start, at their first attempt.       *)
WorkersStart ==
  \A w \in Worker \ Flaky : boot[w] # "down" ~> boot[w] = "up"

(* The values ever handed out, and those that are valid.                   *)
Issued == {v \in Raw : \E i \in Rows : tokens[i].hash = hash_token(v)}
Live   == {v \in Raw : ValidNow(v)}

(* A value that was revoked or has expired never lets in again: not by a   *)
(* second DELETE that read its row before the first one wrote it, not by a *)
(* token issued under it later, not by a bootstrap.                        *)
DeadForGood == [][\A v \in Issued \ Live : v \notin Live']_vars

(* Where a request stands, seen from outside: it is decided at its read of *)
(* the row, and once more when that row expires before the check.          *)
GateOf(r) ==
  CASE pc[r] = "idle"       -> "out"
    [] pc[r] = "lookup"     -> "asking"
    [] pc[r] = "check"      -> IF Accepts(r) THEN "in" ELSE "refused"
    [] pc[r] = "authorized" -> "in"
    [] pc[r] = "revoking"   -> "in"
    [] pc[r] = "answered"   -> (CASE answer[r] = 401 -> "refused"
                                  [] answer[r] = 201 -> "issued"
                                  [] answer[r] = 204 -> "revoked"
                                  [] OTHER           -> "served")

(* What the realm promises whoever calls it is BearerRealm: a row that is  *)
(* read earlier than it is used, a bootstrap and a DELETE of two           *)
(* transactions each, hashes and workers are not to be told from a realm   *)
(* that decides and writes in single steps.                                *)
Realm == INSTANCE BearerRealm WITH
           Seed <- BootstrapToken, issued <- Issued, live <- Live,
           bearer <- raw, gate <- [r \in Request |-> GateOf(r)]
RealmSpec == Realm!Spec
=============================================================================
