----------------------- MODULE AuthRefinement_proofs -----------------------
(***************************************************************************)
(* AuthRealm implements BearerRealm, for any number of requests, workers   *)
(* and tokens and any clock.                                               *)
(***************************************************************************)
EXTENDS AuthRealm_proofs

-----------------------------------------------------------------------------
(* The values of the table.                                                *)

LEMMA ValuesKept ==
  ASSUME UNCHANGED <<tokens, clock>>
  PROVE  Issued' = Issued /\ Live' = Live
BY DEF Issued, Live, ValidNow, Rows, hash_token

(* A bearer value is live exactly when the row of its hash is there and    *)
(* passes the code's own test.                                             *)
LEMMA LiveByRow ==
  ASSUME TableInv, NEW v \in Raw, NEW i \in Rows, tokens[i].hash = hash_token(v)
  PROVE  v \in Live <=> EnsuresValid(tokens[i])
<1>1. i \in Id /\ tokens[i] \in Row /\ clock \in Nat
  BY TimeAssumption DEF TableInv, TypeOK, Rows, Time
<1>2. \A j \in Id : tokens[j] # NoRow /\ tokens[j].hash = [sha256 |-> v] => j = i
  BY DEF TableInv, OneRowPerHash, Rows, hash_token
<1>3. ValidNow(v) <=> /\ tokens[i].revoked_at = NoTime
                      /\ tokens[i].expires_at = NoTime \/ clock < tokens[i].expires_at
  BY <1>1, <1>2 DEF ValidNow, Rows, hash_token
<1>4. EnsuresValid(tokens[i]) <=> /\ tokens[i].revoked_at = NoTime
                                  /\ tokens[i].expires_at = NoTime \/ clock < tokens[i].expires_at
  BY <1>1 DEF EnsuresValid, is_expired, Some, Row
<1>5. QED
  BY <1>3, <1>4 DEF Live

LEMMA LiveIsIssued == Live \subseteq Issued
BY DEF Live, Issued, ValidNow, Rows, hash_token

(* What the read of a row decides is whether the value is live.            *)
LEMMA LookUpDecides ==
  ASSUME TableInv, NEW v \in Raw
  PROVE  v \in Live <=> /\ get_by_hash(hash_token(v)) # NoRow
                        /\ EnsuresValid(get_by_hash(hash_token(v)))
<1>1. CASE \E i \in Rows : tokens[i].hash = hash_token(v)
  <2>1. PICK i \in Rows : /\ tokens[i].hash = hash_token(v)
                          /\ get_by_hash(hash_token(v)) = tokens[i]
    BY <1>1 DEF get_by_hash
  <2>2. QED
    BY <2>1, LiveByRow DEF Rows
<1>2. CASE ~\E i \in Rows : tokens[i].hash = hash_token(v)
  BY <1>2 DEF get_by_hash, Live, ValidNow, Rows, hash_token
<1>3. QED
  BY <1>1, <1>2

LEMMA InsertValues ==
  ASSUME TableInv, NEW i \in Id, NEW v \in Raw, NEW expires \in Nat \cup {NoTime},
         Insert(i, hash_token(v), expires), clock' = clock,
         expires = NoTime \/ clock < expires
  PROVE  v \notin Issued /\ Issued' = Issued \cup {v} /\ Live' = Live \cup {v}
<1> DEFINE new == [hash |-> hash_token(v), expires_at |-> expires, revoked_at |-> NoTime]
<1>1. new \in Row /\ new # NoRow
  BY TokenAssumption DEF Row, Hash, hash_token
<1>2. tokens[i] = NoRow /\ tokens'[i] = new /\ \A j \in Id \ {i} : tokens'[j] = tokens[j]
  BY DEF Insert, Rows, TableInv, TypeOK
<1>3. new.hash = [sha256 |-> v] /\ new.expires_at = expires /\ new.revoked_at = NoTime
  BY DEF hash_token
<1>4. \A u : [sha256 |-> u] = [sha256 |-> v] => u = v
  <2> SUFFICES ASSUME NEW u, [sha256 |-> u] = [sha256 |-> v] PROVE u = v
    OBVIOUS
  <2>1. [sha256 |-> u].sha256 = [sha256 |-> v].sha256
    OBVIOUS
  <2>2. QED
    BY <2>1
<1> HIDE DEF new
<1>5. v \notin Issued
  BY DEF Insert, Violates, Issued
<1>6. \A u \in Raw : u \in Issued' <=> u \in Issued \/ u = v
  BY <1>1, <1>2, <1>3, <1>4 DEF Issued, Rows, hash_token
<1>7. ValidNow(v)'
  BY <1>1, <1>2, <1>3 DEF ValidNow
<1>8. ASSUME NEW u \in Raw, u # v PROVE ValidNow(u)' <=> ValidNow(u)
  BY <1>2, <1>3, <1>4, <1>8 DEF ValidNow
<1>9. \A u \in Raw : u \in Live' <=> u \in Live \/ u = v
  BY <1>7, <1>8 DEF Live
<1>10. QED
  BY <1>5, <1>6, <1>9 DEF Issued, Live

LEMMA RevokeValues ==
  ASSUME TableInv, NEW r \in Request, Revoke(r)
  PROVE  \E v \in Issued : Issued' = Issued /\ Live' = Live \ {v}
<1> DEFINE i   == target[r]
           new == [tokens[i] EXCEPT !.revoked_at = stamp[r]]
<1>1. /\ i \in Rows /\ i \in Id /\ tokens[i] \in Row /\ stamp[r] \in Time /\ stamp[r] # NoTime
      /\ clock' = clock
  BY DEF TableInv, RequestsHold, Holds, Revoke, Answers, Goes, TypeOK, Rows
<1>2. new.hash = tokens[i].hash /\ new.revoked_at = stamp[r]
  BY <1>1 DEF Row
<1>3. tokens'[i] = new /\ \A j \in Id \ {i} : tokens'[j] = tokens[j]
  BY <1>1 DEF Revoke, Revoked, TableInv, TypeOK
<1>4. Rows' = Rows
  BY RevokeTable
<1> HIDE DEF new
<1>5. PICK v \in Raw : tokens[i].hash = hash_token(v)
  BY <1>1 DEF Row, Hash, hash_token
<1>6. v \in Issued
  BY <1>1, <1>5 DEF Issued
<1>7. \A j \in Id : tokens'[j].hash = tokens[j].hash
  BY <1>2, <1>3
<1>8. Issued' = Issued
  BY <1>4, <1>7 DEF Issued, Rows, hash_token
<1>9. ~ValidNow(v)'
  <2>1. \A j \in Rows : tokens[j].hash = hash_token(v) => j = i
    BY <1>1, <1>5 DEF TableInv, OneRowPerHash
  <2>2. QED
    BY <1>1, <1>2, <1>3, <1>4, <1>7, <2>1 DEF ValidNow, Rows, hash_token
<1>10. ASSUME NEW u \in Raw, u # v PROVE ValidNow(u)' <=> ValidNow(u)
  <2>1. tokens[i].hash # [sha256 |-> u]
    <3>1. [sha256 |-> v].sha256 = v /\ [sha256 |-> u].sha256 = u
      OBVIOUS
    <3>2. QED
      BY <1>5, <1>10, <3>1 DEF hash_token
  <2>2. QED
    BY <1>1, <1>3, <1>4, <1>7, <2>1 DEF ValidNow, Rows
<1>11. Live' = Live \ {v}
  BY <1>9, <1>10 DEF Live
<1>12. QED
  BY <1>6, <1>8, <1>11

LEMMA TickValues ==
  ASSUME TypeOK, Tick
  PROVE  Issued' = Issued /\ Live' \subseteq Live
<1>1. tokens' = tokens /\ clock' = clock + 1 /\ clock \in Nat
  BY TimeAssumption DEF Tick, TypeOK, Time
<1>2. Issued' = Issued
  BY <1>1 DEF Issued, Rows, hash_token
<1>3. ASSUME NEW v, ValidNow(v)' PROVE ValidNow(v)
  <2>1. PICK i \in Id : /\ tokens[i] # NoRow /\ tokens[i].hash = [sha256 |-> v]
                        /\ tokens[i].revoked_at = NoTime
                        /\ tokens[i].expires_at = NoTime \/ clock + 1 < tokens[i].expires_at
    BY <1>1, <1>3 DEF ValidNow
  <2>2. tokens[i].expires_at \in Nat \cup {NoTime}
    BY <2>1 DEF TypeOK, Row
  <2>3. tokens[i].expires_at = NoTime \/ clock < tokens[i].expires_at
    BY <1>1, <2>1, <2>2
  <2>4. QED
    BY <2>1, <2>3 DEF ValidNow
<1>4. QED
  BY <1>2, <1>3 DEF Live

-----------------------------------------------------------------------------
(* The gates.                                                              *)

Gates     == [r \in Request |-> GateOf(r)]
RealmVars == <<Issued, Live, raw, Gates>>

(* A request that stays as it is stays at its gate, as long as the clock   *)
(* stands still.                                                           *)
LEMMA GateKept ==
  ASSUME NEW r \in Request, clock' = clock,
         pc'[r] = pc[r], row'[r] = row[r], answer'[r] = answer[r]
  PROVE  GateOf(r)' = GateOf(r)
BY DEF GateOf, Accepts, EnsuresValid, is_expired

(* The others are at their gates when one request moves.                   *)
LEMMA OthersWait ==
  ASSUME TypeOK, NEW r \in Request, Handles(r)
  PROVE  clock' = clock /\ \A q \in Request \ {r} : GateOf(q)' = GateOf(q)
<1>1. clock' = clock
  BY DEF Handles, Arrive, ArriveWithoutBearer, LookUp, Check, Serve, IssueUnnamed, Issue,
         FindTarget, Revoke, Leave
<1>2. ASSUME NEW q \in Request \ {r} PROVE GateOf(q)' = GateOf(q)
  BY <1>1, <1>2, OthersPassive, GateKept DEF Passive
<1>3. QED
  BY <1>1, <1>2

LEMMA GateMoves ==
  ASSUME TypeOK, NEW r \in Request, Handles(r)
  PROVE  /\ Gates' = [Gates EXCEPT ![r] = GateOf(r)']
         /\ Gates[r] = GateOf(r)
BY OthersWait DEF Gates

(* The gate of each place in the code.                                     *)
LEMMA GatePlaces ==
  ASSUME NEW r \in Request
  PROVE  /\ pc[r] = "idle" => GateOf(r) = "out"
         /\ pc[r] = "lookup" => GateOf(r) = "asking"
         /\ pc[r] = "check" => GateOf(r) = IF Accepts(r) THEN "in" ELSE "refused"
         /\ pc[r] \in {"authorized", "revoking"} => GateOf(r) = "in"
         /\ pc[r] = "answered" =>
              /\ answer[r] = 401 => GateOf(r) = "refused"
              /\ answer[r] = 201 => GateOf(r) = "issued"
              /\ answer[r] = 204 => GateOf(r) = "revoked"
              /\ answer[r] \notin {401, 201, 204} => GateOf(r) = "served"
BY DEF GateOf

LEMMA GatePlacesNext ==
  ASSUME NEW r \in Request
  PROVE  /\ pc'[r] = "idle" => GateOf(r)' = "out"
         /\ pc'[r] = "lookup" => GateOf(r)' = "asking"
         /\ pc'[r] = "check" => GateOf(r)' = IF Accepts(r)' THEN "in" ELSE "refused"
         /\ pc'[r] \in {"authorized", "revoking"} => GateOf(r)' = "in"
         /\ pc'[r] = "answered" =>
              /\ answer'[r] = 401 => GateOf(r)' = "refused"
              /\ answer'[r] = 201 => GateOf(r)' = "issued"
              /\ answer'[r] = 204 => GateOf(r)' = "revoked"
              /\ answer'[r] \notin {401, 201, 204} => GateOf(r)' = "served"
BY DEF GateOf

-----------------------------------------------------------------------------
(* Every step of the code is a step of the realm, or none.                 *)

(* A request that gives an answer, and leaves the table alone.             *)
LEMMA AnswerRefines ==
  ASSUME AuthInv, NEW r \in Request, Handles(r),
         NEW from \in {"idle", "authorized"}, NEW status, Answers(r, from, status),
         status \notin {201, 204}, from = "idle" <=> status = 401,
         UNCHANGED <<tokens, raw>>
  PROVE  Realm!AskWithoutBearer(r) \/ Realm!Serve(r)
<1>1. /\ pc[r] = from /\ pc'[r] = "answered" /\ answer'[r] = status
  BY DEF Answers, Goes, AuthInv, TableInv, TypeOK
<1>2. clock' = clock
  BY OthersWait DEF AuthInv, TableInv
<1>3. Issued' = Issued /\ Live' = Live
  BY <1>2, ValuesKept
<1>4. Gates' = [Gates EXCEPT ![r] = GateOf(r)'] /\ Gates[r] = GateOf(r)
  BY GateMoves DEF AuthInv, TableInv
<1>5. \/ GateOf(r) = "out" /\ GateOf(r)' = "refused"
      \/ GateOf(r) = "in" /\ GateOf(r)' = "served"
  BY <1>1, GatePlaces, GatePlacesNext
<1>6. QED
  BY <1>3, <1>4, <1>5 DEF Realm!AskWithoutBearer, Realm!Serve, Realm!Moves, Gates

LEMMA ArriveRefines ==
  ASSUME AuthInv, NEW r \in Request, NEW v \in Raw, Arrive(r, v)
  PROVE  Realm!Ask(r, v)
<1>1. /\ pc[r] = "idle" /\ pc'[r] = "lookup" /\ raw' = [raw EXCEPT ![r] = v]
      /\ UNCHANGED <<tokens, clock>>
  BY DEF Arrive, Goes, AuthInv, TableInv, TypeOK
<1>2. Issued' = Issued /\ Live' = Live
  BY <1>1, ValuesKept
<1>3. Gates' = [Gates EXCEPT ![r] = GateOf(r)'] /\ Gates[r] = GateOf(r)
  BY GateMoves DEF Handles, AuthInv, TableInv
<1>4. GateOf(r) = "out" /\ GateOf(r)' = "asking"
  BY <1>1, GatePlaces, GatePlacesNext
<1>5. QED
  BY <1>1, <1>2, <1>3, <1>4 DEF Realm!Ask, Realm!Moves, Gates

LEMMA LookUpRefines ==
  ASSUME AuthInv, NEW r \in Request, LookUp(r)
  PROVE  Realm!Decide(r)
<1>1. /\ pc[r] = "lookup" /\ pc'[r] = "check" /\ raw[r] \in Raw /\ UNCHANGED <<tokens, clock, raw>>
      /\ row'[r] = get_by_hash(hash_token(raw[r]))
  BY DEF LookUp, Goes, AuthInv, TableInv, TypeOK, RequestsHold, Holds
<1>2. Issued' = Issued /\ Live' = Live
  BY <1>1, ValuesKept
<1>3. Gates' = [Gates EXCEPT ![r] = GateOf(r)'] /\ Gates[r] = GateOf(r)
  BY GateMoves DEF Handles, AuthInv, TableInv
<1>4. Accepts(r)' <=> raw[r] \in Live
  BY <1>1, LookUpDecides DEF Accepts, EnsuresValid, is_expired, AuthInv
<1>5. GateOf(r) = "asking" /\ GateOf(r)' = IF raw[r] \in Live THEN "in" ELSE "refused"
  BY <1>1, <1>4, GatePlaces, GatePlacesNext
<1>6. QED
  BY <1>1, <1>2, <1>3, <1>5 DEF Realm!Decide, Realm!Moves, Gates

LEMMA CheckRefines ==
  ASSUME AuthInv, NEW r \in Request, Check(r)
  PROVE  UNCHANGED RealmVars
<1>1. /\ pc[r] = "check" /\ UNCHANGED <<tokens, clock, raw>>
      /\ Accepts(r) => pc'[r] = "authorized"
      /\ ~Accepts(r) => pc'[r] = "answered" /\ answer'[r] = 401
  BY DEF Check, Answers, Goes, AuthInv, TableInv, TypeOK
<1>2. Issued' = Issued /\ Live' = Live
  BY <1>1, ValuesKept
<1>3. Gates' = [Gates EXCEPT ![r] = GateOf(r)'] /\ Gates[r] = GateOf(r)
  BY GateMoves DEF Handles, AuthInv, TableInv
<1>4. GateOf(r)' = GateOf(r)
  BY <1>1, GatePlaces, GatePlacesNext
<1>5. QED
  BY <1>1, <1>2, <1>3, <1>4 DEF RealmVars, Gates

LEMMA IssueRefines ==
  ASSUME AuthInv, NEW r \in Request, NEW i \in Id, NEW v \in Raw, NEW ttl \in Ttl,
         Issue(r, i, v, ttl)
  PROVE  Realm!Issue(r, v)
<1>1. /\ pc[r] = "authorized" /\ pc'[r] = "answered" /\ answer'[r] = 201
      /\ UNCHANGED <<clock, raw>>
  BY DEF Issue, Answers, Goes, AuthInv, TableInv, TypeOK
<1>2. /\ Expiry(ttl) \in Nat \cup {NoTime}
      /\ Expiry(ttl) = NoTime \/ clock < Expiry(ttl)
  BY TimeAssumption DEF Expiry, Some, AuthInv, TableInv, TypeOK, Time
<1>3. v \notin Issued /\ Issued' = Issued \cup {v} /\ Live' = Live \cup {v}
  BY <1>1, <1>2, InsertValues DEF Issue, AuthInv
<1>4. Gates' = [Gates EXCEPT ![r] = GateOf(r)'] /\ Gates[r] = GateOf(r)
  BY GateMoves DEF Handles, AuthInv, TableInv
<1>5. GateOf(r) = "in" /\ GateOf(r)' = "issued"
  BY <1>1, GatePlaces, GatePlacesNext
<1>6. QED
  BY <1>1, <1>3, <1>4, <1>5 DEF Realm!Issue, Realm!Moves, Gates

LEMMA FindTargetRefines ==
  ASSUME AuthInv, NEW r \in Request, NEW i \in Id, FindTarget(r, i)
  PROVE  Realm!Serve(r) \/ UNCHANGED RealmVars
<1>1. /\ pc[r] = "authorized" /\ UNCHANGED <<tokens, clock, raw>>
      /\ \/ pc'[r] = "answered" /\ answer'[r] \in {404, 409}
         \/ pc'[r] = "revoking"
  BY DEF FindTarget, Answers, Goes, AuthInv, TableInv, TypeOK
<1>2. Issued' = Issued /\ Live' = Live
  BY <1>1, ValuesKept
<1>3. Gates' = [Gates EXCEPT ![r] = GateOf(r)'] /\ Gates[r] = GateOf(r)
  BY GateMoves DEF Handles, AuthInv, TableInv
<1>4. GateOf(r) = "in" /\ GateOf(r)' \in {"served", "in"}
  BY <1>1, GatePlaces, GatePlacesNext
<1>5. QED
  BY <1>1, <1>2, <1>3, <1>4 DEF Realm!Serve, Realm!Moves, RealmVars, Gates

LEMMA RevokeRefines ==
  ASSUME AuthInv, NEW r \in Request, Revoke(r)
  PROVE  \E v \in Issued : Realm!Revoke(r, v)
<1>1. /\ pc[r] = "revoking" /\ pc'[r] = "answered" /\ answer'[r] = 204 /\ UNCHANGED raw
  BY DEF Revoke, Answers, Goes, AuthInv, TableInv, TypeOK
<1>2. PICK v \in Issued : Issued' = Issued /\ Live' = Live \ {v}
  BY RevokeValues DEF AuthInv
<1>3. Gates' = [Gates EXCEPT ![r] = GateOf(r)'] /\ Gates[r] = GateOf(r)
  BY GateMoves DEF Handles, AuthInv, TableInv
<1>4. GateOf(r) = "in" /\ GateOf(r)' = "revoked"
  BY <1>1, GatePlaces, GatePlacesNext
<1>5. QED
  BY <1>1, <1>2, <1>3, <1>4 DEF Realm!Revoke, Realm!Moves, Gates

LEMMA LeaveRefines ==
  ASSUME AuthInv, NEW r \in Request, Leave(r)
  PROVE  Realm!Leave(r)
<1>1. /\ pc[r] # "idle" /\ pc'[r] = "idle" /\ raw' = [raw EXCEPT ![r] = NoRaw]
      /\ UNCHANGED <<tokens, clock>>
  BY DEF Leave, AuthInv, TableInv, TypeOK
<1>2. Issued' = Issued /\ Live' = Live
  BY <1>1, ValuesKept
<1>3. Gates' = [Gates EXCEPT ![r] = GateOf(r)'] /\ Gates[r] = GateOf(r)
  BY GateMoves DEF Handles, AuthInv, TableInv
<1>4. pc[r] \in {"lookup", "check", "authorized", "revoking", "answered"}
  BY <1>1 DEF AuthInv, TableInv, TypeOK
<1>5. GateOf(r) # "out" /\ GateOf(r)' = "out"
  BY <1>1, <1>4, GatePlaces, GatePlacesNext
<1>6. QED
  BY <1>1, <1>2, <1>3, <1>5 DEF Realm!Leave, Gates

(* A worker either seeds an unused realm or is not to be seen.             *)
LEMMA WorkerRefines ==
  ASSUME AuthInv, NEW w \in Worker, Lifespan(w) \/ Die(w)
  PROVE  Realm!Open \/ UNCHANGED RealmVars
<1>1. UNCHANGED <<clock, pc, raw, row, answer>>
  BY DEF Lifespan, StartWorker, ListTokens, InsertBootstrap, InsertFails, Recover, Die, request
<1>2. \A r \in Request : GateOf(r)' = GateOf(r)
  BY <1>1, GateKept
<1>3. Gates' = Gates
  BY <1>2 DEF Gates
<1>4. CASE UNCHANGED tokens
  BY <1>1, <1>3, <1>4, ValuesKept DEF RealmVars
<1>5. ASSUME NEW i \in Id, InsertBootstrap(w, i) PROVE Realm!Open
  <2>1. BootstrapToken \in Raw
    BY <1>5 DEF InsertBootstrap, Boots, AuthInv, TableInv, WorkersHold
  <2>2. Issued' = Issued \cup {BootstrapToken} /\ Live' = Live \cup {BootstrapToken}
    BY <1>1, <1>5, <2>1, InsertValues DEF InsertBootstrap, AuthInv
  <2>3. Rows = {}
    BY <1>5 DEF InsertBootstrap, Insert, AuthInv, Seeded
  <2>4. Issued = {} /\ Live = {}
    BY <2>3, LiveIsIssued DEF Issued
  <2>5. QED
    BY <1>1, <1>3, <2>2, <2>4 DEF Realm!Open, Gates
<1>6. QED
  BY <1>4, <1>5 DEF Lifespan, StartWorker, ListTokens, InsertFails, Recover, Die

(* A tick turns away the requests whose row expires between its read and   *)
(* the check; their value is dead by then, whatever the table says of it.  *)
LEMMA TickRefines ==
  ASSUME AuthInv, AuthInv', Tick
  PROVE  \E dead \in SUBSET Live, late \in SUBSET Request : Realm!Expire(dead, late)
<1> DEFINE dead == Live \ Live'
           late == {r \in Request : GateOf(r)' # GateOf(r)}
<1>1. /\ UNCHANGED <<tokens, pc, raw, row, answer>>
      /\ clock \in Nat /\ clock' = clock + 1
  BY TimeAssumption DEF Tick, request, AuthInv, TableInv, TypeOK, Time
<1>2. Issued' = Issued /\ Live' = Live \ dead
  BY TickValues DEF AuthInv, TableInv
<1>3. ASSUME NEW r \in late
      PROVE  /\ GateOf(r) = "in" /\ GateOf(r)' = "refused" /\ raw[r] \notin Live'
  <2>1. pc[r] = "check"
    BY <1>1, <1>3 DEF GateOf
  <2>2. Accepts(r)' => Accepts(r)
    <3>1. row[r] # NoRow => row[r].expires_at \in Nat \cup {NoTime}
      BY <1>3 DEF AuthInv, TableInv, TypeOK, Row
    <3>2. QED
      BY <1>1, <3>1 DEF Accepts, EnsuresValid, is_expired, Some
  <2>3. Accepts(r) /\ ~Accepts(r)' /\ GateOf(r) = "in" /\ GateOf(r)' = "refused"
    BY <1>1, <1>3, <2>1, <2>2, GatePlaces, GatePlacesNext
  <2>4. /\ row[r] # NoRow /\ row[r].revoked_at = NoTime
        /\ row[r].expires_at # NoTime /\ row[r].expires_at <= clock'
    BY <1>1, <2>3 DEF Accepts, EnsuresValid, is_expired, Some
  <2>5. PICK i \in Rows : Reflects(r, i)
    BY <1>3, <2>1, <2>4 DEF AuthInv, SeesAll, Sees
  <2>6. /\ i \in Rows' /\ tokens'[i].hash = hash_token(raw[r])
        /\ tokens'[i].expires_at = row[r].expires_at
    BY <1>1, <2>5 DEF Reflects, Rows
  <2>7. ~ValidNow(raw[r])'
    <3>1. \A j \in Id : tokens'[j] # NoRow /\ tokens'[j].hash = [sha256 |-> raw[r]] => j = i
      BY <1>1, <2>5, <2>6 DEF AuthInv, TableInv, OneRowPerHash, Rows, hash_token
    <3>2. tokens'[i].expires_at \in Nat /\ clock' \in Nat
      BY <1>1, <1>3, <2>4, <2>6 DEF AuthInv, TableInv, TypeOK, Row
    <3>3. QED
      BY <1>1, <2>4, <2>6, <3>1, <3>2 DEF ValidNow
  <2>8. QED
    BY <1>1, <2>3, <2>7 DEF Live
<1>4. Gates' = [r \in Request |-> IF r \in late THEN "refused" ELSE Gates[r]]
  BY <1>3 DEF Gates
<1>5. \A r \in late : Gates[r] = "in" /\ raw[r] \notin Live'
  BY <1>3 DEF Gates
<1>6. Realm!Expire(dead, late)
  BY <1>1, <1>2, <1>4, <1>5 DEF Realm!Expire, Gates
<1>7. QED
  BY <1>6

LEMMA HandlesRefines ==
  ASSUME AuthInv, NEW r \in Request, Handles(r)
  PROVE  Realm!Next \/ UNCHANGED RealmVars
<1>1. CASE ArriveWithoutBearer(r) \/ Serve(r) \/ IssueUnnamed(r)
  <2>1. Realm!AskWithoutBearer(r) \/ Realm!Serve(r)
    BY <1>1, AnswerRefines DEF ArriveWithoutBearer, Serve, IssueUnnamed
  <2>2. QED
    BY <2>1 DEF Realm!Next
<1>2. CASE \E v \in Raw : Arrive(r, v)
  BY <1>2, ArriveRefines DEF Realm!Next
<1>3. CASE LookUp(r) \/ Check(r)
  BY <1>3, LookUpRefines, CheckRefines DEF Realm!Next
<1>4. CASE \E i \in Id, v \in Raw, ttl \in Ttl : Issue(r, i, v, ttl)
  BY <1>4, IssueRefines DEF Realm!Next
<1>5. CASE \E i \in Id : FindTarget(r, i)
  BY <1>5, FindTargetRefines DEF Realm!Next
<1>6. CASE Revoke(r)
  BY <1>6, RevokeRefines DEF Realm!Next
<1>7. CASE Leave(r)
  BY <1>7, LeaveRefines DEF Realm!Next
<1>8. QED
  BY <1>1, <1>2, <1>3, <1>4, <1>5, <1>6, <1>7 DEF Handles

(* Seen from outside, the realm decides each request in one step on the    *)
(* live values, issues and revokes at once and for good, and is opened at  *)
(* most once: whatever the interleaving of its transactions.               *)
THEOREM RefinesBearerRealm == Spec => RealmSpec
<1>1. Init => Realm!Init
  <2> SUFFICES ASSUME Init PROVE Realm!Init
    OBVIOUS
  <2>1. Rows = {}
    BY DEF Init, Rows
  <2>2. Issued = {} /\ Live = {}
    BY <2>1, LiveIsIssued DEF Issued
  <2>3. \A r \in Request : GateOf(r) = "out"
    BY GatePlaces DEF Init
  <2>4. QED
    BY <2>2, <2>3 DEF Init, Realm!Init
<1>2. ASSUME AuthInv, AuthInv', [Next]_vars
      PROVE  [Realm!Next]_RealmVars
  <2>1. CASE \E r \in Request : Handles(r)
    BY <1>2, <2>1, HandlesRefines
  <2>2. CASE \E w \in Worker : Lifespan(w) \/ Die(w)
    BY <1>2, <2>2, WorkerRefines DEF Realm!Next
  <2>3. CASE Tick
    BY <1>2, <2>3, TickRefines DEF Realm!Next
  <2>4. CASE UNCHANGED vars
    <3>1. UNCHANGED <<tokens, clock, pc, raw, row, answer>>
      BY <2>4 DEF vars, request
    <3>2. \A r \in Request : GateOf(r)' = GateOf(r)
      BY <3>1, GateKept
    <3>3. QED
      BY <3>1, <3>2, ValuesKept DEF RealmVars, Gates
  <2>5. QED
    BY <1>2, <2>1, <2>2, <2>3, <2>4 DEF Next
<1>3. RealmSpec <=> Realm!Init /\ [][Realm!Next]_RealmVars
  BY DEF RealmSpec, Realm!Spec, Realm!realm, RealmVars, Gates
<1>4. QED
  BY <1>1, <1>2, <1>3, AuthInvariant, PTL DEF Spec

(* A step of the realm brings no value back.                               *)
LEMMA RealmKeepsTheDead ==
  ASSUME [Realm!Next]_RealmVars
  PROVE  \A v \in Issued \ Live : v \notin Live'
<1>1. CASE Live' \subseteq Live
  BY <1>1
<1>2. ASSUME NEW r \in Request, NEW v \in Raw, Realm!Issue(r, v)
      PROVE  \A u \in Issued \ Live : u \notin Live'
  BY <1>2 DEF Realm!Issue
<1>3. CASE Realm!Open
  BY <1>3 DEF Realm!Open
<1>4. QED
  BY <1>1, <1>2, <1>3
     DEF Realm!Next, Realm!Ask, Realm!AskWithoutBearer, Realm!Decide, Realm!Serve, Realm!Revoke,
         Realm!Leave, Realm!Expire, RealmVars

(* Revocation and expiry are for good, because they are in BearerRealm:    *)
(* two DELETEs at once, a later issue or a bootstrap revive nothing.       *)
THEOREM TheDeadStayDead == Spec => DeadForGood
<1> DEFINE Step == \A v \in Issued \ Live : v \notin Live'
<1>1. RealmSpec => [][Realm!Next]_RealmVars
  BY DEF RealmSpec, Realm!Spec, Realm!realm, RealmVars, Gates
<1>2. [Realm!Next]_RealmVars => [Step]_vars
  BY RealmKeepsTheDead
<1>3. QED
  BY <1>1, <1>2, RefinesBearerRealm, PTL DEF DeadForGood
=============================================================================
