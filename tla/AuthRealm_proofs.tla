-------------------------- MODULE AuthRealm_proofs --------------------------
(***************************************************************************)
(* Theorems about AuthRealm for any number of requests, workers and tokens *)
(* and any clock.                                                          *)
(***************************************************************************)
EXTENDS AuthRealm, TLAPS

-----------------------------------------------------------------------------
(* The table.                                                              *)

(* What the state keeps besides its types: one row per hash, requests that *)
(* hold a value, revocations of a row that exists.                         *)
OneRowPerHash == \A i, j \in Rows : tokens[i].hash = tokens[j].hash => i = j

(* What RequestsHold says of one request.                                  *)
Holds(r) ==
  /\ pc[r] = "idle" => raw[r] = NoRaw /\ answer[r] = 0
  /\ pc[r] \in {"lookup", "check", "authorized", "revoking"} => raw[r] \in Raw /\ answer[r] = 0
  /\ pc[r] = "revoking" => target[r] \in Rows
  /\ pc[r] = "revoking" => stamp[r] # NoTime

RequestsHold == \A r \in Request : Holds(r)

WorkersHold == \A w \in Worker : boot[w] \in {"list", "insert", "recover"} => BootstrapToken \in Raw

TableInv == TypeOK /\ OneRowPerHash /\ RequestsHold /\ WorkersHold

(* Every row stays, with its hash and its expiry, and once revoked it      *)
(* stays revoked.                                                          *)
RowsKept ==
  \A i \in Id : tokens[i] # NoRow =>
    /\ tokens'[i] # NoRow
    /\ tokens'[i].hash = tokens[i].hash
    /\ tokens'[i].expires_at = tokens[i].expires_at
    /\ tokens[i].revoked_at # NoTime => tokens'[i].revoked_at # NoTime

LEMMA InsertTable ==
  ASSUME TableInv, NEW i \in Id, NEW v \in Raw, NEW expires \in Nat \cup {NoTime},
         Insert(i, hash_token(v), expires)
  PROVE  /\ tokens' \in [Id -> Row \cup {NoRow}]
         /\ OneRowPerHash'
         /\ RowsKept
         /\ i \in Rows'
<1> DEFINE new == [hash |-> hash_token(v), expires_at |-> expires, revoked_at |-> NoTime]
<1>1. new \in Row
  BY DEF Row, Hash, hash_token
<1>2. tokens' = [tokens EXCEPT ![i] = new] /\ tokens[i] = NoRow
  BY DEF Insert, Rows
<1>3. \A j \in Rows : tokens[j].hash # new.hash
  BY DEF Insert, Violates
<1>4. new # NoRow
  BY <1>1, TokenAssumption
<1>5. tokens'[i] = new /\ \A j \in Id \ {i} : tokens'[j] = tokens[j]
  BY <1>2 DEF TableInv, TypeOK
<1> HIDE DEF new
<1>6. tokens' \in [Id -> Row \cup {NoRow}]
  BY <1>1, <1>2 DEF TableInv, TypeOK
<1>7. Rows' = Rows \cup {i}
  BY <1>2, <1>4, <1>5 DEF Rows
<1>8. OneRowPerHash'
  BY <1>3, <1>5, <1>7 DEF OneRowPerHash, TableInv, Rows
<1>9. RowsKept
  BY <1>2, <1>5 DEF RowsKept
<1>10. QED
  BY <1>6, <1>7, <1>8, <1>9

LEMMA RevokeTable ==
  ASSUME TableInv, NEW r \in Request, Revoke(r)
  PROVE  /\ tokens' \in [Id -> Row \cup {NoRow}]
         /\ OneRowPerHash'
         /\ RowsKept
         /\ Rows' = Rows
<1> DEFINE i   == target[r]
           new == [tokens[i] EXCEPT !.revoked_at = stamp[r]]
<1>1. i \in Id /\ tokens[i] \in Row /\ stamp[r] \in Time /\ stamp[r] # NoTime
  BY DEF TableInv, RequestsHold, Holds, Revoke, Answers, Goes, TypeOK, Rows
<1>2. new \in Row /\ new.hash = tokens[i].hash /\ new.expires_at = tokens[i].expires_at
      /\ new.revoked_at = stamp[r]
  BY <1>1 DEF Row
<1>3. tokens' = [tokens EXCEPT ![i] = new]
  BY DEF Revoke, Revoked
<1> HIDE DEF new
<1>4. tokens'[i] = new /\ \A j \in Id \ {i} : tokens'[j] = tokens[j]
  BY <1>1, <1>3 DEF TableInv, TypeOK
<1>5. new # NoRow /\ tokens[i] # NoRow
  BY <1>1, <1>2, TokenAssumption
<1>6. tokens' \in [Id -> Row \cup {NoRow}]
  BY <1>2, <1>3 DEF TableInv, TypeOK
<1>7. Rows' = Rows
  BY <1>1, <1>4, <1>5 DEF Rows
<1>8. OneRowPerHash'
  BY <1>2, <1>4, <1>7 DEF OneRowPerHash, TableInv, Rows
<1>9. RowsKept
  BY <1>1, <1>2, <1>4, <1>5 DEF RowsKept
<1>10. QED
  BY <1>6, <1>7, <1>8, <1>9

-----------------------------------------------------------------------------
(* The type invariant, with OneRowPerHash and RequestsHold.                *)

LEMMA TableInit == Init => TableInv
BY TimeAssumption
   DEF Init, TableInv, TypeOK, OneRowPerHash, RequestsHold, Holds, WorkersHold, Rows, Time, Reply

LEMMA LookupIsRow ==
  ASSUME TypeOK, NEW h
  PROVE  get_by_hash(h) \in Row \cup {NoRow}
BY DEF get_by_hash, TypeOK, Rows

LEMMA ObserveType ==
  ASSUME TypeOK, Observe
  PROVE  verdicts' \in [Request -> SUBSET {"valid", "invalid"}]
<1>1. \A r \in Request : {Verdict(v)' : v \in {raw[r]} \ {NoRaw}} \subseteq {"valid", "invalid"}
  BY DEF Verdict
<1>2. QED
  BY <1>1 DEF Observe, TypeOK

(* A request that moves disturbs no other.                                 *)
LEMMA OthersHold ==
  ASSUME TableInv, NEW r \in Request, Rows \subseteq Rows', Holds(r)',
         \A q \in Request \ {r} :
           /\ pc'[q] = pc[q] /\ raw'[q] = raw[q] /\ answer'[q] = answer[q]
           /\ target'[q] = target[q] /\ stamp'[q] = stamp[q]
  PROVE  RequestsHold'
BY DEF TableInv, RequestsHold, Holds

(* A step of a request that leaves the table alone.                        *)
LEMMA TableRequest ==
  ASSUME TableInv, NEW r \in Request,
         \/ \E v \in Raw : Arrive(r, v)
         \/ ArriveWithoutBearer(r)
         \/ LookUp(r) \/ Check(r) \/ Serve(r) \/ IssueUnnamed(r)
         \/ \E i \in Id : FindTarget(r, i)
         \/ Leave(r)
  PROVE  TableInv' /\ RowsKept
<1>0. UNCHANGED <<clock, tokens, boot>>
  BY DEF Arrive, ArriveWithoutBearer, LookUp, Check, Serve, IssueUnnamed, FindTarget, Leave
<1>1. OneRowPerHash' /\ RowsKept /\ Rows' = Rows
  BY <1>0 DEF TableInv, OneRowPerHash, RowsKept, Rows
<1>2. WorkersHold'
  BY <1>0 DEF TableInv, WorkersHold
<1>3. TypeOK /\ Holds(r)
  BY DEF TableInv, RequestsHold
<1>4. ASSUME NEW v \in Raw, Arrive(r, v) PROVE TypeOK' /\ RequestsHold'
  <2>1. Verdict(v) \in {"valid", "invalid"}
    BY DEF Verdict
  <2>2. /\ pc[r] = "idle" /\ pc' = [pc EXCEPT ![r] = "lookup"]
        /\ raw' = [raw EXCEPT ![r] = v] /\ verdicts' = [verdicts EXCEPT ![r] = {Verdict(v)}]
        /\ UNCHANGED <<row, target, stamp, answer>>
    BY <1>4 DEF Arrive, Goes
  <2>3. TypeOK'
    BY <1>0, <1>3, <2>1, <2>2 DEF TypeOK
  <2>4. Holds(r)'
    BY <1>3, <2>2 DEF TypeOK, Holds
  <2>5. RequestsHold'
    BY <1>1, <1>3, <2>2, <2>4, OthersHold DEF TypeOK
  <2>6. QED
    BY <2>3, <2>5
<1>5. ASSUME ArriveWithoutBearer(r) PROVE TypeOK' /\ RequestsHold'
  <2>1. PICK status \in Reply : Answers(r, "idle", status)
    BY <1>5 DEF ArriveWithoutBearer, Reply
  <2>2. /\ pc[r] = "idle" /\ pc' = [pc EXCEPT ![r] = "answered"]
        /\ answer' = [answer EXCEPT ![r] = status]
        /\ UNCHANGED <<raw, row, target, stamp, verdicts>>
    BY <1>5, <2>1 DEF ArriveWithoutBearer, Answers, Goes
  <2>3. TypeOK'
    BY <1>0, <1>3, <2>2 DEF TypeOK
  <2>4. Holds(r)'
    BY <1>3, <2>2 DEF TypeOK, Holds
  <2>5. RequestsHold'
    BY <1>1, <1>3, <2>2, <2>4, OthersHold DEF TypeOK
  <2>6. QED
    BY <2>3, <2>5
<1>6. ASSUME LookUp(r) PROVE TypeOK' /\ RequestsHold'
  <2>1. get_by_hash(hash_token(raw[r])) \in Row \cup {NoRow}
    BY <1>3, LookupIsRow
  <2>2. /\ pc[r] = "lookup" /\ pc' = [pc EXCEPT ![r] = "check"]
        /\ row' = [row EXCEPT ![r] = get_by_hash(hash_token(raw[r]))]
        /\ UNCHANGED <<raw, target, stamp, answer, verdicts>>
    BY <1>6 DEF LookUp, Goes
  <2>3. TypeOK'
    BY <1>0, <1>3, <2>1, <2>2 DEF TypeOK
  <2>4. Holds(r)'
    BY <1>3, <2>2 DEF TypeOK, Holds
  <2>5. RequestsHold'
    BY <1>1, <1>3, <2>2, <2>4, OthersHold DEF TypeOK
  <2>6. QED
    BY <2>3, <2>5
<1>7. ASSUME Check(r) PROVE TypeOK' /\ RequestsHold'
  <2>1. /\ pc[r] = "check" /\ UNCHANGED <<raw, row, target, stamp, verdicts>>
        /\ \/ pc' = [pc EXCEPT ![r] = "authorized"] /\ answer' = answer
           \/ pc' = [pc EXCEPT ![r] = "answered"] /\ answer' = [answer EXCEPT ![r] = 401]
    BY <1>7 DEF Check, Answers, Goes
  <2>2. TypeOK'
    BY <1>0, <1>3, <2>1 DEF TypeOK, Reply
  <2>3. Holds(r)'
    BY <1>3, <2>1 DEF TypeOK, Holds
  <2>4. RequestsHold'
    BY <1>1, <1>3, <2>1, <2>3, OthersHold DEF TypeOK
  <2>5. QED
    BY <2>2, <2>4
<1>8. ASSUME Serve(r) PROVE TypeOK' /\ RequestsHold'
  <2>1. PICK status \in Reply : Answers(r, "authorized", status)
    BY <1>8 DEF Serve, Reply
  <2>2. /\ pc[r] = "authorized" /\ pc' = [pc EXCEPT ![r] = "answered"]
        /\ answer' = [answer EXCEPT ![r] = status]
        /\ UNCHANGED <<raw, row, target, stamp, verdicts>>
    BY <1>8, <2>1 DEF Serve, Answers, Goes
  <2>3. TypeOK'
    BY <1>0, <1>3, <2>2 DEF TypeOK
  <2>4. Holds(r)'
    BY <1>3, <2>2 DEF TypeOK, Holds
  <2>5. RequestsHold'
    BY <1>1, <1>3, <2>2, <2>4, OthersHold DEF TypeOK
  <2>6. QED
    BY <2>3, <2>5
<1>9. ASSUME IssueUnnamed(r) PROVE TypeOK' /\ RequestsHold'
  <2>1. PICK status \in Reply : Answers(r, "authorized", status)
    BY <1>9 DEF IssueUnnamed, Reply
  <2>2. /\ pc[r] = "authorized" /\ pc' = [pc EXCEPT ![r] = "answered"]
        /\ answer' = [answer EXCEPT ![r] = status]
        /\ UNCHANGED <<raw, row, target, stamp, verdicts>>
    BY <1>9, <2>1 DEF IssueUnnamed, Answers, Goes
  <2>3. TypeOK'
    BY <1>0, <1>3, <2>2 DEF TypeOK
  <2>4. Holds(r)'
    BY <1>3, <2>2 DEF TypeOK, Holds
  <2>5. RequestsHold'
    BY <1>1, <1>3, <2>2, <2>4, OthersHold DEF TypeOK
  <2>6. QED
    BY <2>3, <2>5
<1>10. ASSUME NEW i \in Id, FindTarget(r, i) PROVE TypeOK' /\ RequestsHold'
  <2>1. clock \in Time /\ clock # NoTime /\ tokens[i] \in Row \cup {NoRow}
    BY <1>3, TimeAssumption DEF TypeOK, Time
  <2>2. /\ pc[r] = "authorized" /\ UNCHANGED <<raw, verdicts>>
        /\ row' = [row EXCEPT ![r] = tokens[i]] /\ target' = [target EXCEPT ![r] = i]
    BY <1>10 DEF FindTarget, Answers, Goes, get_by_id
  <2>3. \/ /\ pc' = [pc EXCEPT ![r] = "answered"] /\ UNCHANGED stamp
           /\ \E status \in Reply : answer' = [answer EXCEPT ![r] = status]
        \/ /\ pc' = [pc EXCEPT ![r] = "revoking"] /\ UNCHANGED answer
           /\ i \in Rows /\ stamp' = [stamp EXCEPT ![r] = clock]
    BY <1>10 DEF FindTarget, Answers, Goes, get_by_id, Rows, Reply
  <2>4. TypeOK'
    BY <1>0, <1>3, <2>1, <2>2, <2>3 DEF TypeOK
  <2>5. Holds(r)'
    BY <1>1, <1>3, <2>1, <2>2, <2>3 DEF TypeOK, Holds
  <2>6. RequestsHold'
    BY <1>1, <1>3, <2>2, <2>3, <2>5, OthersHold DEF TypeOK
  <2>7. QED
    BY <2>4, <2>6
<1>11. ASSUME Leave(r) PROVE TypeOK' /\ RequestsHold'
  <2>1. /\ pc' = [pc EXCEPT ![r] = "idle"]
        /\ raw' = [raw EXCEPT ![r] = NoRaw] /\ row' = [row EXCEPT ![r] = NoRow]
        /\ target' = [target EXCEPT ![r] = NoId] /\ stamp' = [stamp EXCEPT ![r] = 0]
        /\ answer' = [answer EXCEPT ![r] = 0] /\ verdicts' = [verdicts EXCEPT ![r] = {}]
    BY <1>11 DEF Leave
  <2>2. TypeOK'
    BY <1>0, <1>3, <2>1, TimeAssumption DEF TypeOK, Reply, Time
  <2>3. Holds(r)'
    BY <1>3, <2>1 DEF TypeOK, Holds
  <2>4. RequestsHold'
    BY <1>1, <1>3, <2>1, <2>3, OthersHold DEF TypeOK
  <2>5. QED
    BY <2>2, <2>4
<1>12. TypeOK' /\ RequestsHold'
  <2>1. CASE \E v \in Raw : Arrive(r, v)
    BY <2>1, <1>4
  <2>2. CASE \E i \in Id : FindTarget(r, i)
    BY <2>2, <1>10
  <2>3. QED
    BY <2>1, <2>2, <1>5, <1>6, <1>7, <1>8, <1>9, <1>11
<1>13. QED
  BY <1>1, <1>2, <1>12 DEF TableInv

LEMMA TableIssue ==
  ASSUME TableInv, NEW r \in Request, NEW i \in Id, NEW v \in Raw, NEW ttl \in Ttl,
         Issue(r, i, v, ttl)
  PROVE  TableInv' /\ RowsKept
<1>1. Expiry(ttl) \in Nat \cup {NoTime}
  BY TimeAssumption DEF Expiry, Some, TableInv, TypeOK, Time
<1>2. /\ tokens' \in [Id -> Row \cup {NoRow}] /\ OneRowPerHash' /\ RowsKept
  BY <1>1, InsertTable DEF Issue
<1>3. Rows \subseteq Rows'
  BY <1>2 DEF RowsKept, Rows
<1>4. verdicts' \in [Request -> SUBSET {"valid", "invalid"}]
  BY ObserveType DEF Issue, TableInv
<1>5. TypeOK'
  BY <1>2, <1>4 DEF Issue, Answers, Goes, Reply, TableInv, TypeOK
<1>6. RequestsHold'
  BY <1>3 DEF Issue, Answers, Goes, RequestsHold, Holds, TableInv, TypeOK
<1>7. WorkersHold'
  BY DEF Issue, WorkersHold, TableInv
<1>8. QED
  BY <1>2, <1>5, <1>6, <1>7 DEF TableInv

LEMMA TableRevoke ==
  ASSUME TableInv, NEW r \in Request, Revoke(r)
  PROVE  TableInv' /\ RowsKept
<1>1. /\ tokens' \in [Id -> Row \cup {NoRow}] /\ OneRowPerHash' /\ RowsKept /\ Rows' = Rows
  BY RevokeTable
<1>2. verdicts' \in [Request -> SUBSET {"valid", "invalid"}]
  BY ObserveType DEF Revoke, TableInv
<1>3. /\ pc[r] = "revoking" /\ pc' = [pc EXCEPT ![r] = "answered"]
      /\ answer' = [answer EXCEPT ![r] = 204]
      /\ UNCHANGED <<clock, boot, raw, row, target, stamp>>
  BY DEF Revoke, Answers, Goes
<1>4. TypeOK'
  BY <1>1, <1>2, <1>3 DEF Reply, TableInv, TypeOK
<1>5. RequestsHold'
  BY <1>1, <1>3 DEF RequestsHold, Holds, TableInv, TypeOK
<1>6. WorkersHold'
  BY <1>3 DEF WorkersHold, TableInv
<1>7. QED
  BY <1>1, <1>4, <1>5, <1>6 DEF TableInv

LEMMA TableWorker ==
  ASSUME TableInv, NEW w \in Worker, Lifespan(w) \/ Die(w)
  PROVE  TableInv' /\ RowsKept
<1>1. boot' \in [Worker -> {"down", "list", "insert", "recover", "up"}]
  BY DEF Lifespan, StartWorker, ListTokens, InsertBootstrap, InsertFails, Recover, Recovered,
         Die, Boots, TableInv, TypeOK
<1>2. WorkersHold'
  BY TokenAssumption
     DEF Lifespan, StartWorker, ListTokens, InsertBootstrap, InsertFails, Recover, Recovered,
         Die, Boots, TableInv, TypeOK, WorkersHold
<1>3. CASE UNCHANGED <<clock, tokens, request, verdicts>>
  BY <1>1, <1>2, <1>3 DEF TableInv, TypeOK, OneRowPerHash, RequestsHold, Holds, RowsKept, Rows, request
<1>4. ASSUME NEW i \in Id, InsertBootstrap(w, i) PROVE TableInv' /\ RowsKept
  <2>1. BootstrapToken \in Raw
    BY <1>4 DEF InsertBootstrap, Boots, TableInv, WorkersHold
  <2>2. /\ tokens' \in [Id -> Row \cup {NoRow}] /\ OneRowPerHash' /\ RowsKept
    BY <1>4, <2>1, InsertTable DEF InsertBootstrap
  <2>3. Rows \subseteq Rows'
    BY <2>2 DEF RowsKept, Rows
  <2>4. verdicts' \in [Request -> SUBSET {"valid", "invalid"}]
    BY <1>4, ObserveType DEF InsertBootstrap, TableInv
  <2>5. UNCHANGED <<clock, pc, raw, row, target, stamp, answer>>
    BY <1>4 DEF InsertBootstrap, request
  <2>6. TypeOK'
    BY <1>1, <2>2, <2>4, <2>5 DEF TableInv, TypeOK
  <2>7. RequestsHold'
    BY <2>3, <2>5 DEF TableInv, RequestsHold, Holds
  <2>8. QED
    BY <1>2, <2>2, <2>6, <2>7 DEF TableInv
<1>5. QED
  BY <1>3, <1>4
     DEF Lifespan, StartWorker, ListTokens, InsertFails, Recover, Die

LEMMA TableTick ==
  ASSUME TableInv, Tick
  PROVE  TableInv' /\ RowsKept
<1>1. verdicts' \in [Request -> SUBSET {"valid", "invalid"}]
  BY ObserveType DEF Tick, TableInv
<1>2. clock' \in Time
  BY TimeAssumption DEF Tick, TableInv, TypeOK, Time
<1>3. UNCHANGED <<tokens, boot, pc, raw, row, target, stamp, answer>>
  BY DEF Tick, request
<1>4. TypeOK'
  BY <1>1, <1>2, <1>3 DEF TableInv, TypeOK
<1>5. QED
  BY <1>3, <1>4 DEF TableInv, OneRowPerHash, RequestsHold, Holds, WorkersHold, RowsKept, Rows

LEMMA TableStep ==
  ASSUME TableInv, [Next]_vars
  PROVE  TableInv' /\ RowsKept
<1>1. ASSUME NEW r \in Request, Handles(r) PROVE TableInv' /\ RowsKept
  BY <1>1, TableRequest, TableIssue, TableRevoke DEF Handles
<1>2. ASSUME NEW w \in Worker, Lifespan(w) \/ Die(w) PROVE TableInv' /\ RowsKept
  BY <1>2, TableWorker
<1>3. CASE Tick
  BY <1>3, TableTick
<1>4. CASE UNCHANGED vars
  BY <1>4 DEF vars, request, TableInv, TypeOK, OneRowPerHash, RequestsHold, Holds, WorkersHold,
              RowsKept, Rows
<1>5. QED
  BY <1>1, <1>2, <1>3, <1>4 DEF Next

(* Every reachable state has the declared types: among them, that no row   *)
(* holds a raw token value and that a revocation is of an existing row.    *)
THEOREM TypeCorrect == Spec => []TypeOK
<1>1. Init => TableInv
  BY TableInit
<1>2. TableInv /\ [Next]_vars => TableInv'
  BY TableStep
<1>3. TableInv => TypeOK
  BY DEF TableInv
<1>4. QED
  BY <1>1, <1>2, <1>3, PTL DEF Spec

-----------------------------------------------------------------------------
(* Authorization.                                                          *)

(* The row that a request has read is still its token's, only older.       *)
Reflects(r, i) ==
  /\ tokens[i].hash = hash_token(raw[r])
  /\ tokens[i].expires_at = row[r].expires_at
  /\ row[r].revoked_at # NoTime => tokens[i].revoked_at # NoTime

(* What the history holds of one request.                                  *)
Sees(r) ==
  /\ raw[r] # NoRaw => Verdict(raw[r]) \in verdicts[r]
  /\ pc[r] = "check" /\ row[r] = NoRow => "invalid" \in verdicts[r]
  /\ pc[r] = "check" /\ row[r] # NoRow => \E i \in Rows : Reflects(r, i)
  /\ pc[r] = "check" /\ Accepts(r) => "valid" \in verdicts[r]
  /\ pc[r] \in {"authorized", "revoking"} => "valid" \in verdicts[r]
  /\ pc[r] = "answered" /\ raw[r] # NoRaw =>
       (IF answer[r] = 401 THEN "invalid" ELSE "valid") \in verdicts[r]

SeesAll == \A r \in Request : Sees(r)

(* What an answer says of its token.                                       *)
AnswerTrue(r) ==
  /\ answer[r] \in {201, 204, 409} => target[r] \in Rows
  /\ answer[r] \in {204, 409} => tokens[target[r]].revoked_at # NoTime

AnswersAllTrue == \A r \in Request : AnswerTrue(r)

(* The first token is the bootstrap token: nobody is authorized to issue   *)
(* one before there is any.                                                *)
Seeded ==
  /\ Rows # {} => Violates(hash_token(BootstrapToken))
  /\ \A r \in Request : pc[r] \in {"authorized", "revoking"} => Rows # {}

AuthInv == TableInv /\ SeesAll /\ AnswersAllTrue /\ Seeded

(* A request that another actor's step leaves as it is: the history grows  *)
(* by what its bearer value is worth after the step, or that is the same.  *)
Passive(r) ==
  /\ pc'[r] = pc[r] /\ raw'[r] = raw[r] /\ row'[r] = row[r]
  /\ target'[r] = target[r] /\ answer'[r] = answer[r]
  /\ \/ Observe
     \/ verdicts'[r] = verdicts[r] /\ UNCHANGED <<tokens, clock>>

LEMMA PassiveVerdict ==
  ASSUME TypeOK, NEW r \in Request, raw'[r] = raw[r], raw[r] # NoRaw => Verdict(raw[r]) \in verdicts[r],
         \/ Observe
         \/ verdicts'[r] = verdicts[r] /\ UNCHANGED <<tokens, clock>>
  PROVE  /\ verdicts[r] \subseteq verdicts'[r]
         /\ (raw[r] # NoRaw => Verdict(raw[r]) \in verdicts[r])'
<1>1. CASE Observe
  BY <1>1 DEF Observe, Verdict, ValidNow
<1>2. CASE verdicts'[r] = verdicts[r] /\ UNCHANGED <<tokens, clock>>
  BY <1>2 DEF Verdict, ValidNow
<1>3. QED
  BY <1>1, <1>2

LEMMA ClockForward ==
  ASSUME TypeOK, [Next]_vars
  PROVE  clock \in Nat /\ clock' \in Nat /\ clock <= clock'
<1>1. clock' = clock \/ clock' = clock + 1
  BY DEF Next, vars, Handles, Lifespan, Arrive, ArriveWithoutBearer, LookUp, Check, Serve,
         IssueUnnamed, Issue, FindTarget, Revoke, Leave, StartWorker, ListTokens,
         InsertBootstrap, InsertFails, Recover, Die, Tick
<1>2. clock \in Nat
  BY TimeAssumption DEF TypeOK, Time
<1>3. QED
  BY <1>1, <1>2

LEMMA PassiveSees ==
  ASSUME TableInv, NEW r \in Request, Sees(r), Passive(r), RowsKept,
         clock \in Nat, clock' \in Nat, clock <= clock'
  PROVE  Sees(r)'
<1>1. /\ verdicts[r] \subseteq verdicts'[r]
      /\ (raw[r] # NoRaw => Verdict(raw[r]) \in verdicts[r])'
  BY PassiveVerdict DEF TableInv, Passive, Sees
<1>2. pc'[r] = pc[r] /\ raw'[r] = raw[r] /\ row'[r] = row[r] /\ answer'[r] = answer[r]
  BY DEF Passive
<1>3. (pc[r] = "check" /\ row[r] # NoRow => \E i \in Rows : Reflects(r, i))'
  <2>1. SUFFICES ASSUME pc[r] = "check", row[r] # NoRow
                 PROVE  \E i \in Rows' : Reflects(r, i)'
    BY <1>2
  <2>2. PICK i \in Rows : Reflects(r, i)
    BY <2>1 DEF Sees
  <2>3. i \in Rows'
    BY <2>2 DEF RowsKept, Rows
  <2>4. Reflects(r, i)'
    BY <1>2, <2>2 DEF RowsKept, Rows, Reflects
  <2>5. QED
    BY <2>3, <2>4
<1>4. (pc[r] = "check" /\ Accepts(r) => "valid" \in verdicts[r])'
  <2>1. SUFFICES ASSUME pc[r] = "check", Accepts(r)'
                 PROVE  "valid" \in verdicts'[r]
    BY <1>2
  <2>2. row[r] \in Row
    BY <1>2, <2>1 DEF Accepts, TableInv, TypeOK
  <2>3. Accepts(r)
    BY <1>2, <2>1, <2>2 DEF Accepts, EnsuresValid, is_expired, Some, Row
  <2>4. QED
    BY <1>1, <2>1, <2>3 DEF Sees
<1>5. QED
  BY <1>1, <1>2, <1>3, <1>4 DEF Sees

(* Who is passive in a step.                                               *)
LEMMA OthersPassive ==
  ASSUME TypeOK, NEW q \in Request, Handles(q), NEW r \in Request \ {q}
  PROVE  Passive(r)
<1>1. CASE \E v \in Raw : Arrive(q, v)
  BY <1>1 DEF Arrive, Goes, Passive, TypeOK
<1>2. CASE ArriveWithoutBearer(q) \/ Serve(q) \/ IssueUnnamed(q)
  BY <1>2 DEF ArriveWithoutBearer, Serve, IssueUnnamed, Answers, Goes, Passive, TypeOK
<1>3. CASE LookUp(q) \/ Check(q)
  BY <1>3 DEF LookUp, Check, Answers, Goes, Passive, TypeOK
<1>4. CASE \E i \in Id, v \in Raw, ttl \in Ttl : Issue(q, i, v, ttl)
  BY <1>4 DEF Issue, Answers, Goes, Passive, TypeOK
<1>5. CASE \E i \in Id : FindTarget(q, i)
  BY <1>5 DEF FindTarget, Answers, Goes, Passive, TypeOK
<1>6. CASE Revoke(q)
  BY <1>6 DEF Revoke, Answers, Goes, Passive, TypeOK
<1>7. CASE Leave(q)
  BY <1>7 DEF Leave, Passive, TypeOK
<1>8. QED
  BY <1>1, <1>2, <1>3, <1>4, <1>5, <1>6, <1>7 DEF Handles

LEMMA WorldPassive ==
  ASSUME TypeOK, NEW r \in Request,
         (\E w \in Worker : Lifespan(w) \/ Die(w)) \/ Tick \/ UNCHANGED vars
  PROVE  Passive(r)
BY DEF Lifespan, StartWorker, ListTokens, InsertBootstrap, InsertFails, Recover, Die, Tick,
       vars, request, Passive

(* What the request itself learns by a step of its own.                    *)
LEMMA ValidByRow ==
  ASSUME TypeOK, NEW v, NEW i \in Rows, tokens[i].hash = hash_token(v), EnsuresValid(tokens[i])
  PROVE  Verdict(v) = "valid"
<1>1. i \in Id /\ tokens[i] \in Row /\ clock \in Nat
  BY TimeAssumption DEF Rows, TypeOK, Time
<1>2. QED
  BY <1>1 DEF Verdict, ValidNow, Rows, EnsuresValid, is_expired, Some, hash_token, Row

LEMMA LookUpSees ==
  ASSUME TableInv, NEW r \in Request, Sees(r), LookUp(r)
  PROVE  Sees(r)'
<1> DEFINE h == hash_token(raw[r])
<1>1. /\ pc'[r] = "check" /\ raw' = raw /\ row'[r] = get_by_hash(h)
      /\ UNCHANGED <<clock, tokens, verdicts>>
  BY DEF LookUp, Goes, TableInv, TypeOK
<1>2. (raw[r] # NoRaw => Verdict(raw[r]) \in verdicts[r])'
  BY <1>1 DEF Sees, Verdict, ValidNow
<1>3. raw[r] \in Raw /\ raw[r] # NoRaw /\ Verdict(raw[r]) \in verdicts[r]
  BY TokenAssumption DEF LookUp, Goes, TableInv, RequestsHold, Holds, Sees
<1>4. CASE \E i \in Rows : tokens[i].hash = h
  <2>1. PICK i \in Rows : tokens[i].hash = h /\ row'[r] = tokens[i]
    BY <1>1, <1>4 DEF get_by_hash
  <2>2. tokens[i] # NoRow
    BY DEF Rows
  <2>3. i \in Rows' /\ Reflects(r, i)'
    BY <1>1, <2>1 DEF Rows, Reflects
  <2>4. Accepts(r)' => "valid" \in verdicts'[r]
    BY <1>1, <1>3, <2>1, ValidByRow DEF Accepts, EnsuresValid, is_expired, TableInv
  <2>5. QED
    BY <1>1, <1>2, <2>1, <2>2, <2>3, <2>4 DEF Sees
<1>5. CASE ~\E i \in Rows : tokens[i].hash = h
  <2>1. row'[r] = NoRow
    BY <1>1, <1>5 DEF get_by_hash
  <2>2. Verdict(raw[r]) = "invalid"
    BY <1>5 DEF Verdict, ValidNow, Rows, hash_token
  <2>3. QED
    BY <1>1, <1>2, <1>3, <2>1, <2>2 DEF Sees, Accepts
<1>6. QED
  BY <1>4, <1>5

LEMMA CheckSees ==
  ASSUME TableInv, NEW r \in Request, Sees(r), Check(r)
  PROVE  Sees(r)'
<1>1. /\ pc[r] = "check" /\ raw' = raw /\ UNCHANGED <<clock, tokens, verdicts>>
      /\ Accepts(r) => pc'[r] = "authorized"
      /\ ~Accepts(r) => pc'[r] = "answered" /\ answer'[r] = 401
  BY DEF Check, Answers, Goes, TableInv, TypeOK
<1>2. (raw[r] # NoRaw => Verdict(raw[r]) \in verdicts[r])'
  BY <1>1 DEF Sees, Verdict, ValidNow
<1>3. raw[r] # NoRaw /\ Verdict(raw[r]) \in verdicts[r]
  BY <1>1, TokenAssumption DEF TableInv, RequestsHold, Holds, Sees
<1>4. ASSUME ~Accepts(r) PROVE "invalid" \in verdicts[r]
  <2>1. CASE row[r] = NoRow
    BY <1>1, <2>1 DEF Sees
  <2>2. CASE row[r] # NoRow
    <3>1. PICK i \in Rows : Reflects(r, i)
      BY <1>1, <2>2 DEF Sees
    <3>2. row[r] \in Row /\ tokens[i] \in Row /\ i \in Id /\ clock \in Nat
      BY <2>2, <3>1, TimeAssumption DEF TableInv, TypeOK, Rows, Time
    <3>3. \/ tokens[i].revoked_at # NoTime
          \/ tokens[i].expires_at # NoTime /\ tokens[i].expires_at <= clock
      BY <1>4, <2>2, <3>1 DEF Accepts, EnsuresValid, is_expired, Some, Reflects
    <3>4. \A j \in Rows : tokens[j].hash = hash_token(raw[r]) => j = i
      BY <3>1 DEF Reflects, TableInv, OneRowPerHash
    <3>5. ~ValidNow(raw[r])
      BY <3>2, <3>3, <3>4 DEF ValidNow, Rows, hash_token, Row
    <3>6. QED
      BY <1>3, <3>5 DEF Verdict
  <2>3. QED
    BY <2>1, <2>2
<1>5. QED
  BY <1>1, <1>2, <1>4 DEF Sees

LEMMA OwnSees ==
  ASSUME TableInv, NEW r \in Request, Sees(r), Handles(r)
  PROVE  Sees(r)'
<1>1. ASSUME NEW v \in Raw, Arrive(r, v) PROVE Sees(r)'
  <2>1. /\ pc'[r] = "lookup" /\ raw'[r] = v /\ verdicts'[r] = {Verdict(v)}
        /\ UNCHANGED <<clock, tokens>>
    BY <1>1 DEF Arrive, Goes, TableInv, TypeOK
  <2>2. (Verdict(raw[r]) \in verdicts[r])'
    BY <2>1 DEF Verdict, ValidNow
  <2>3. QED
    BY <2>1, <2>2 DEF Sees
<1>2. ASSUME ArriveWithoutBearer(r) PROVE Sees(r)'
  <2>1. pc'[r] = "answered" /\ raw'[r] = NoRaw
    BY <1>2 DEF ArriveWithoutBearer, Answers, Goes, TableInv, TypeOK, RequestsHold, Holds
  <2>2. QED
    BY <2>1 DEF Sees
<1>3. ASSUME /\ pc[r] \in {"authorized", "revoking"} /\ raw' = raw
             /\ \/ pc'[r] = "revoking"
                \/ pc'[r] = "answered" /\ answer'[r] # 401
             /\ \/ Observe
                \/ verdicts'[r] = verdicts[r] /\ UNCHANGED <<tokens, clock>>
      PROVE  Sees(r)'
  <2>1. /\ verdicts[r] \subseteq verdicts'[r]
        /\ (raw[r] # NoRaw => Verdict(raw[r]) \in verdicts[r])'
    BY <1>3, PassiveVerdict DEF TableInv, Sees
  <2>2. "valid" \in verdicts'[r]
    BY <1>3, <2>1 DEF Sees
  <2>3. QED
    BY <1>3, <2>1, <2>2 DEF Sees
<1>4. ASSUME Leave(r) PROVE Sees(r)'
  <2>1. pc'[r] = "idle" /\ raw'[r] = NoRaw
    BY <1>4 DEF Leave, TableInv, TypeOK
  <2>2. QED
    BY <2>1 DEF Sees
<1>5. CASE Serve(r) \/ IssueUnnamed(r)
  BY <1>3, <1>5 DEF Serve, IssueUnnamed, Answers, Goes, TableInv, TypeOK
<1>6. CASE \E i \in Id, v \in Raw, ttl \in Ttl : Issue(r, i, v, ttl)
  BY <1>3, <1>6 DEF Issue, Answers, Goes, TableInv, TypeOK
<1>7. CASE \E i \in Id : FindTarget(r, i)
  BY <1>3, <1>7 DEF FindTarget, Answers, Goes, TableInv, TypeOK
<1>8. CASE Revoke(r)
  BY <1>3, <1>8 DEF Revoke, Answers, Goes, TableInv, TypeOK
<1>9. CASE \E v \in Raw : Arrive(r, v)
  BY <1>1, <1>9
<1>10. QED
  BY <1>2, <1>4, <1>5, <1>6, <1>7, <1>8, <1>9, LookUpSees, CheckSees DEF Handles

LEMMA SeesStep ==
  ASSUME TableInv, SeesAll, [Next]_vars
  PROVE  SeesAll'
<1>1. RowsKept /\ clock \in Nat /\ clock' \in Nat /\ clock <= clock'
  BY TableStep, ClockForward DEF TableInv
<1>2. ASSUME NEW r \in Request PROVE Sees(r)'
  <2>1. Sees(r)
    BY DEF SeesAll
  <2>2. CASE Handles(r)
    BY <2>1, <2>2, OwnSees
  <2>3. CASE ~Handles(r)
    <3>1. Passive(r)
      <4>1. CASE \E q \in Request : Handles(q)
        BY <2>3, <4>1, OthersPassive DEF TableInv
      <4>2. CASE (\E w \in Worker : Lifespan(w) \/ Die(w)) \/ Tick \/ UNCHANGED vars
        BY <4>2, WorldPassive DEF TableInv
      <4>3. QED
        BY <4>1, <4>2 DEF Next
    <3>2. QED
      BY <1>1, <2>1, <3>1, PassiveSees
  <2>4. QED
    BY <2>2, <2>3
<1>3. QED
  BY <1>2 DEF SeesAll

(* A request that is not passive moves by itself.                          *)
LEMMA PassiveOrOwn ==
  ASSUME TypeOK, [Next]_vars, NEW r \in Request
  PROVE  Passive(r) \/ Handles(r)
<1>1. CASE \E q \in Request : Handles(q)
  BY <1>1, OthersPassive
<1>2. CASE (\E w \in Worker : Lifespan(w) \/ Die(w)) \/ Tick \/ UNCHANGED vars
  BY <1>2, WorldPassive
<1>3. QED
  BY <1>1, <1>2 DEF Next

LEMMA AnswerStep ==
  ASSUME TableInv, NEW r \in Request, AnswerTrue(r), [Next]_vars
  PROVE  AnswerTrue(r)'
<1>1. RowsKept
  BY TableStep
<1>2. CASE Passive(r)
  <2>1. answer'[r] = answer[r] /\ target'[r] = target[r]
    BY <1>2 DEF Passive
  <2>2. QED
    BY <1>1, <2>1 DEF AnswerTrue, RowsKept, Rows
<1>3. CASE Handles(r)
  <2>1. ASSUME answer'[r] \notin {201, 204, 409} PROVE AnswerTrue(r)'
    BY <2>1 DEF AnswerTrue
  <2>2. CASE \E v \in Raw : Arrive(r, v)
    BY <2>1, <2>2 DEF Arrive, Goes, TableInv, TypeOK, RequestsHold, Holds
  <2>3. CASE ArriveWithoutBearer(r) \/ Serve(r) \/ IssueUnnamed(r)
    BY <2>1, <2>3 DEF ArriveWithoutBearer, Serve, IssueUnnamed, Answers, TableInv, TypeOK
  <2>4. CASE LookUp(r) \/ Check(r)
    BY <2>1, <2>4 DEF LookUp, Check, Answers, Goes, TableInv, TypeOK, RequestsHold, Holds
  <2>5. ASSUME NEW i \in Id, NEW v \in Raw, NEW ttl \in Ttl, Issue(r, i, v, ttl)
        PROVE  AnswerTrue(r)'
    <3>1. answer'[r] = 201 /\ target'[r] = i
      BY <2>5 DEF Issue, Answers, TableInv, TypeOK
    <3>2. Expiry(ttl) \in Nat \cup {NoTime}
      BY TimeAssumption DEF Expiry, Some, TableInv, TypeOK, Time
    <3>3. i \in Rows'
      BY <2>5, <3>2, InsertTable DEF Issue
    <3>4. QED
      BY <3>1, <3>3 DEF AnswerTrue
  <2>6. ASSUME NEW i \in Id, FindTarget(r, i) PROVE AnswerTrue(r)'
    <3>1. tokens' = tokens /\ target'[r] = i
      BY <2>6 DEF FindTarget, TableInv, TypeOK
    <3>2. \/ answer'[r] \notin {201, 204, 409}
          \/ answer'[r] = 409 /\ tokens[i] # NoRow /\ tokens[i].revoked_at # NoTime
      BY <2>6 DEF FindTarget, Answers, Goes, get_by_id, Some, TableInv, TypeOK, RequestsHold, Holds
    <3>3. QED
      BY <2>1, <3>1, <3>2 DEF AnswerTrue, Rows
  <2>7. CASE Revoke(r)
    <3>1. /\ target[r] \in Rows /\ stamp[r] # NoTime /\ target' = target
          /\ tokens' = [tokens EXCEPT ![target[r]] = [tokens[target[r]] EXCEPT !.revoked_at = stamp[r]]]
      BY <2>7 DEF Revoke, Answers, Goes, Revoked, TableInv, RequestsHold, Holds
    <3>2. Rows' = Rows
      BY <2>7, RevokeTable
    <3>3. tokens[target[r]] \in Row /\ target[r] \in Id
      BY <3>1 DEF Rows, TableInv, TypeOK
    <3>4. tokens'[target[r]].revoked_at # NoTime
      BY <3>1, <3>3 DEF TableInv, TypeOK, Row
    <3>5. QED
      BY <3>1, <3>2, <3>4 DEF AnswerTrue
  <2>8. CASE Leave(r)
    BY <2>1, <2>8 DEF Leave, TableInv, TypeOK
  <2>9. CASE \E i \in Id, v \in Raw, ttl \in Ttl : Issue(r, i, v, ttl)
    BY <2>5, <2>9
  <2>10. CASE \E i \in Id : FindTarget(r, i)
    BY <2>6, <2>10
  <2>11. QED
    BY <1>3, <2>2, <2>3, <2>4, <2>7, <2>8, <2>9, <2>10 DEF Handles
<1>4. QED
  BY <1>2, <1>3, PassiveOrOwn DEF TableInv

(* Only an authorized request and a worker in its bootstrap add a row.     *)
LEMMA TableWriters ==
  ASSUME TypeOK, [Next]_vars, \A r \in Request : pc[r] \notin {"authorized", "revoking"}
  PROVE  \/ tokens' = tokens
         \/ \E w \in Worker, i \in Id : InsertBootstrap(w, i)
BY DEF Next, vars, Handles, Lifespan, Arrive, ArriveWithoutBearer, LookUp, Check, Serve,
       IssueUnnamed, Issue, FindTarget, Revoke, Leave, Answers, Goes, StartWorker, ListTokens,
       InsertFails, Recover, Die, Tick

LEMMA SeededStep ==
  ASSUME AuthInv, [Next]_vars
  PROVE  Seeded'
<1>1. TableInv /\ TypeOK /\ Seeded /\ RowsKept
  BY TableStep DEF AuthInv, TableInv
<1>2. Rows \subseteq Rows'
  BY <1>1 DEF RowsKept, Rows
<1>3. ASSUME Rows # {} PROVE Violates(hash_token(BootstrapToken))'
  <2>1. PICK i \in Rows : tokens[i].hash = hash_token(BootstrapToken)
    BY <1>1, <1>3 DEF Seeded, Violates
  <2>2. i \in Rows' /\ tokens'[i].hash = hash_token(BootstrapToken)
    BY <1>1, <1>2, <2>1 DEF RowsKept, Rows
  <2>3. QED
    BY <2>2 DEF Violates, hash_token
<1>4. ASSUME Rows = {}, Rows' # {} PROVE Violates(hash_token(BootstrapToken))'
  <2>1. tokens' # tokens
    BY <1>4 DEF Rows
  <2>2. PICK w \in Worker, i \in Id : InsertBootstrap(w, i)
    BY <1>1, <1>4, <2>1, TableWriters DEF Seeded
  <2>3. /\ tokens' = [tokens EXCEPT ![i] = [hash |-> hash_token(BootstrapToken),
                                            expires_at |-> NoTime, revoked_at |-> NoTime]]
    BY <2>2 DEF InsertBootstrap, Insert
  <2>4. \A j \in Rows' : j = i
    BY <1>1, <1>4, <2>3 DEF TypeOK, Rows
  <2>5. tokens'[i].hash = hash_token(BootstrapToken)
    BY <1>1, <2>3 DEF TypeOK
  <2>6. QED
    BY <1>4, <2>4, <2>5 DEF Violates, hash_token
<1>5. ASSUME NEW r \in Request, pc'[r] \in {"authorized", "revoking"} PROVE Rows' # {}
  <2>1. CASE pc[r] \in {"authorized", "revoking"}
    BY <1>1, <1>2, <2>1 DEF Seeded
  <2>2. CASE pc[r] \notin {"authorized", "revoking"}
    <3>1. Handles(r)
      BY <1>1, <1>5, <2>2, PassiveOrOwn DEF Passive
    <3>2. Check(r) /\ Accepts(r)
      BY <1>1, <1>5, <2>2, <3>1
         DEF Handles, Arrive, ArriveWithoutBearer, LookUp, Check, Serve, IssueUnnamed, Issue,
             FindTarget, Revoke, Leave, Answers, Goes, TypeOK
    <3>3. \E i \in Rows : Reflects(r, i)
      BY <3>2 DEF AuthInv, SeesAll, Sees, Check, Accepts, Answers, Goes
    <3>4. QED
      BY <1>2, <3>3
  <2>3. QED
    BY <2>1, <2>2
<1>6. QED
  BY <1>3, <1>4, <1>5 DEF Seeded

LEMMA AuthInit == Init => AuthInv
<1> SUFFICES ASSUME Init PROVE AuthInv
  OBVIOUS
<1>1. TableInv
  BY TableInit
<1>2. Rows = {}
  BY DEF Init, Rows
<1>3. SeesAll
  BY DEF Init, SeesAll, Sees
<1>4. AnswersAllTrue
  <2>1. ASSUME NEW r \in Request PROVE AnswerTrue(r)
    <3>1. answer[r] = 0
      BY DEF Init
    <3>2. answer[r] \notin {201, 204, 409} /\ answer[r] \notin {204, 409}
      BY <3>1
    <3>3. QED
      BY <3>2 DEF AnswerTrue
  <2>2. QED
    BY <2>1 DEF AnswersAllTrue
<1>5. \A r \in Request : pc[r] \notin {"authorized", "revoking"}
  BY DEF Init
<1>6. Seeded
  BY <1>2, <1>5 DEF Seeded
<1>7. QED
  BY <1>1, <1>3, <1>4, <1>6 DEF AuthInv

LEMMA AuthStep == AuthInv /\ [Next]_vars => AuthInv'
<1> SUFFICES ASSUME AuthInv, [Next]_vars PROVE AuthInv'
  OBVIOUS
<1>1. TableInv'
  BY TableStep DEF AuthInv
<1>2. SeesAll'
  BY SeesStep DEF AuthInv
<1>3. AnswersAllTrue'
  <2>1. ASSUME NEW r \in Request PROVE AnswerTrue(r)'
    <3>1. TableInv /\ AnswerTrue(r)
      BY DEF AuthInv, AnswersAllTrue
    <3>2. QED
      BY <3>1, AnswerStep
  <2>2. QED
    BY <2>1 DEF AnswersAllTrue
<1>4. Seeded'
  BY SeededStep
<1>5. QED
  BY <1>1, <1>2, <1>3, <1>4 DEF AuthInv

LEMMA AuthInvariant == Spec => []AuthInv
BY AuthInit, AuthStep, PTL DEF Spec

(* For any interleaving of requests, revocations, issues, workers and      *)
(* clock ticks, a request is let in only if its token was valid at some    *)
(* moment since it arrived, and turned away only if it was not at one.     *)
THEOREM AuthorizationIsLinearizable == Spec => []AuthorizationLinearizes
<1>1. AuthInv => AuthorizationLinearizes
  BY DEF AuthInv, SeesAll, Sees, AuthorizationLinearizes
<1>2. QED
  BY <1>1, AuthInvariant, PTL

(* A token that was answered for (issued, revoked, found revoked) stays    *)
(* issued, or revoked, as long as the answer is remembered.                *)
THEOREM AnswersAreTrue == Spec => []AnsweredWritesHold
<1>1. AuthInv => AnsweredWritesHold
  BY DEF AuthInv, AnswersAllTrue, AnswerTrue, AnsweredWritesHold, Rows, Some
<1>2. QED
  BY <1>1, AuthInvariant, PTL

(* No worker, however many race, adds the bootstrap token to a store that  *)
(* has tokens, although it looked and inserts in two transactions.         *)
THEOREM BootstrapOnlyWhenEmpty == Spec => BootstrapIntoEmptyStore
<1> DEFINE Step == \A w \in Worker : boot[w] = "insert" /\ boot'[w] = "up" => Rows = {}
<1>1. ASSUME AuthInv, [Next]_vars PROVE [Step]_vars
  <2>1. SUFFICES ASSUME NEW w \in Worker, boot[w] = "insert", boot'[w] = "up"
                 PROVE  Rows = {}
    OBVIOUS
  <2>2. PICK v \in Worker : Lifespan(v) \/ Die(v)
    BY <1>1, <2>1
       DEF Next, vars, Handles, Arrive, ArriveWithoutBearer, LookUp, Check, Serve, IssueUnnamed,
           Issue, FindTarget, Revoke, Leave, Tick
  <2>3. TypeOK
    BY <1>1 DEF AuthInv, TableInv
  <2>4. \E i \in Id : InsertBootstrap(v, i)
    BY <2>1, <2>2, <2>3
       DEF Lifespan, StartWorker, ListTokens, InsertFails, Recover, Die, Boots, TypeOK
  <2>5. ~Violates(hash_token(BootstrapToken))
    BY <2>4 DEF InsertBootstrap, Insert
  <2>6. QED
    BY <1>1, <2>5 DEF AuthInv, Seeded
<1>2. QED
  BY <1>1, AuthInvariant, PTL DEF Spec, BootstrapIntoEmptyStore

-----------------------------------------------------------------------------
(* The INSERT of a sound worker failed on a row, which never goes away.    *)
RaceWasLost ==
  \A w \in Worker \ Flaky : boot[w] = "recover" => Violates(hash_token(BootstrapToken))

(* What a step does to the worker that takes it, and to no other.          *)
LEMMA WorkerMoves ==
  ASSUME TypeOK, [Next]_vars, NEW w \in Worker, boot'[w] # boot[w]
  PROVE  Lifespan(w) \/ Die(w)
<1>1. PICK v \in Worker : Lifespan(v) \/ Die(v)
  BY DEF Next, vars, Handles, Arrive, ArriveWithoutBearer, LookUp, Check, Serve, IssueUnnamed,
         Issue, FindTarget, Revoke, Leave, Tick
<1>2. \A u \in Worker \ {v} : boot'[u] = boot[u]
  BY <1>1 DEF Lifespan, StartWorker, ListTokens, InsertBootstrap, InsertFails, Recover, Die,
              Boots, TypeOK
<1>3. QED
  BY <1>1, <1>2

LEMMA ViolationStays ==
  ASSUME RowsKept, NEW h, Violates(h)
  PROVE  \E i \in Rows' : tokens'[i].hash = h
BY DEF RowsKept, Violates, Rows

LEMMA RaceStep ==
  ASSUME TableInv, RaceWasLost, [Next]_vars
  PROVE  RaceWasLost'
<1> SUFFICES ASSUME NEW w \in Worker \ Flaky, boot'[w] = "recover"
             PROVE  \E i \in Rows' : tokens'[i].hash = hash_token(BootstrapToken)
  BY DEF RaceWasLost, Violates, hash_token
<1>1. RowsKept /\ TypeOK
  BY TableStep DEF TableInv
<1>2. Violates(hash_token(BootstrapToken))
  <2>1. CASE boot[w] = "recover"
    BY <2>1 DEF RaceWasLost
  <2>2. CASE boot[w] # "recover"
    <3>1. Lifespan(w) \/ Die(w)
      BY <1>1, <2>2, WorkerMoves
    <3>2. InsertFails(w)
      BY <1>1, <2>2, <3>1
         DEF Lifespan, StartWorker, ListTokens, InsertBootstrap, Recover, Recovered, Die,
             Boots, TypeOK
    <3>3. QED
      BY <3>2 DEF InsertFails
  <2>3. QED
    BY <2>1, <2>2
<1>3. QED
  BY <1>1, <1>2, ViolationStays

(* However many workers race, the bootstrap of a sound worker never stops  *)
(* it: the row its INSERT failed on is still there when it looks for it.   *)
THEOREM LosersRecover == Spec => WorkersStay
<1> DEFINE Step == \A w \in Worker \ Flaky : boot[w] # "down" => boot'[w] # "down"
<1>1. Init => RaceWasLost
  BY DEF Init, RaceWasLost
<1>2. AuthInv /\ RaceWasLost /\ [Next]_vars => AuthInv' /\ RaceWasLost'
  BY AuthStep, RaceStep DEF AuthInv
<1>3. ASSUME AuthInv, RaceWasLost, [Next]_vars PROVE [Step]_vars
  <2> SUFFICES ASSUME NEW w \in Worker \ Flaky, boot[w] # "down", boot'[w] = "down" PROVE FALSE
    OBVIOUS
  <2>1. TypeOK
    BY <1>3 DEF AuthInv, TableInv
  <2>2. Lifespan(w) \/ Die(w)
    BY <1>3, <2>1, WorkerMoves
  <2>3. Recover(w) /\ Recovered(w) = "down"
    BY <2>1, <2>2
       DEF Lifespan, StartWorker, ListTokens, InsertBootstrap, InsertFails, Recover, Die,
           Boots, TypeOK
  <2>4. Violates(hash_token(BootstrapToken))
    BY <1>3, <2>3 DEF RaceWasLost, Recover, Boots
  <2>5. get_by_hash(hash_token(BootstrapToken)) # NoRow
    BY <2>4 DEF Violates, get_by_hash, Rows
  <2>6. QED
    BY <2>3, <2>5 DEF Recovered
<1>4. QED
  BY <1>1, <1>2, <1>3, AuthInit, PTL DEF Spec, WorkersStay
=============================================================================
