-------------------------- MODULE Chronology_proofs --------------------------
(***************************************************************************)
(* Theorems about Chronology for any documents, any limits and any log.    *)
(***************************************************************************)
EXTENDS Chronology, FiniteSetTheorems, SequenceTheorems, TLAPS

Matches(q, d) == IF q.stream = "events" THEN EventMatches(q, d) ELSE ChangeMatches(q, d)

-----------------------------------------------------------------------------
(* The operators.                                                          *)

LEMMA WhenIsNat == ASSUME NEW d \in Documents PROVE When(d) \in Nat
BY DocumentsAssumption DEF When

(* The filters say what the request wants.                                 *)
LEMMA WithinMeansBetween ==
  ASSUME NEW w \in Window \cup {Window0}, NEW d \in Documents
  PROVE  Within(w, d) <=> /\ w.start # None => d.time # None /\ d.time >= w.start
                          /\ w.end # None => d.time # None /\ d.time <= w.end
<1>1. d.time = None \/ d.time \in Nat
  BY DocumentsAssumption
<1>2. w \in [start : Nat \cup {None}, end : Nat \cup {None}]
  BY WindowAssumption DEF Window0
<1>3. w = Window0 <=> w.start = None /\ w.end = None
  BY <1>2 DEF Window0
<1>4. QED
  BY <1>1, <1>2, <1>3 DEF Within

LEMMA WantedIsMatched ==
  ASSUME NEW q \in Query \cup {NoQuery}, WellFormed(q), NEW d \in Documents
  PROVE  Wanted(q, d) <=> Matches(q, d)
<1>1. q.window \in Window \cup {Window0} /\ q.stream \in {"events", "changes"}
      /\ (q.stream = "changes" => q.text = None)
  BY DEF Query, NoQuery, WellFormed
<1>2. QED
  BY <1>1, WithinMeansBetween DEF Wanted, Matches, EventMatches, ChangeMatches, InOrg

LEMMA BoundedIsBetween ==
  ASSUME NEW limit \in Int
  PROVE  /\ bounded(limit) \in MIN_LIMIT..MAX_LIMIT
         /\ bounded(limit) = MAX_LIMIT \/ (bounded(limit) >= limit /\ bounded(limit) >= MIN_LIMIT)
BY LimitAssumption DEF bounded

(* A sorted list of hits has each of them once.                            *)
LEMMA HitsOnce ==
  ASSUME NEW S, IsFiniteSet(S), NEW s \in [1..Cardinality(S) -> S], Places(s) = S
  PROVE  /\ s \in Seq(S) /\ Len(s) = Cardinality(S) /\ Cardinality(S) \in Nat
         /\ \A i, j \in 1..Len(s) : s[i] = s[j] => i = j
<1> DEFINE n == Cardinality(S)
<1>1. n \in Nat
  BY FS_CardinalityType
<1>2. s \in Surjection(1..n, S)
  BY DEF Surjection, Places
<1>3. IsFiniteSet(1..n) /\ Cardinality(1..n) = n
  BY <1>1, FS_Interval
<1>4. s \in Injection(1..n, S)
  BY <1>2, <1>3, FS_SurjSameCardinalityImpliesInj
<1>5. s \in Seq(S) /\ Len(s) = n
  BY <1>1
<1>6. QED
  BY <1>1, <1>4, <1>5 DEF Injection, IsInjective

(* A list of distinct hits is as long as its places are many.              *)
LEMMA LengthOfDistinct ==
  ASSUME NEW S, NEW s \in Seq(S), \A i, j \in 1..Len(s) : s[i] = s[j] => i = j
  PROVE  IsFiniteSet(Places(s)) /\ Cardinality(Places(s)) = Len(s)
<1> DEFINE n == Len(s)
           P == Places(s)
<1>1. n \in Nat /\ s \in [1..n -> P] /\ DOMAIN s = 1..n
  BY DEF Places
<1>2. s \in Injection(1..n, P) /\ s \in Surjection(1..n, P)
  BY <1>1 DEF Injection, IsInjective, Surjection, Places
<1>3. IsFiniteSet(1..n) /\ Cardinality(1..n) = n
  BY <1>1, FS_Interval
<1>4. QED
  BY <1>2, <1>3, FS_Surjection

-----------------------------------------------------------------------------
(* The search.                                                             *)

(* What NewestFirst gives of places of the log.                            *)
LEMMA Ordered ==
  ASSUME TypeOK, NEW S \in SUBSET (1..Len(log)), NEW s \in NewestFirst(S)
  PROVE  /\ s \in Seq(1..Len(log)) /\ Places(s) = S /\ IsFiniteSet(S) /\ Len(s) = Cardinality(S)
         /\ \A i, j \in 1..Len(s) : s[i] = s[j] => i = j
         /\ \A i, j \in 1..Len(s) : i < j => When(log[s[i]]) >= When(log[s[j]])
<1>1. Len(log) \in Nat
  BY DEF TypeOK
<1>2. IsFiniteSet(S)
  <2>1. IsFiniteSet(1..Len(log))
    BY <1>1, FS_Interval
  <2>2. QED
    BY <2>1, FS_Subset
<1>3. s \in [1..Cardinality(S) -> S] /\ Places(s) = S
      /\ \A i, j \in DOMAIN s : i < j => When(log[s[i]]) >= When(log[s[j]])
  BY DEF NewestFirst
<1>4. /\ s \in Seq(S) /\ Len(s) = Cardinality(S) /\ Cardinality(S) \in Nat
      /\ \A i, j \in 1..Len(s) : s[i] = s[j] => i = j
  BY <1>2, <1>3, HitsOnce
<1>5. DOMAIN s = 1..Len(s) /\ s \in Seq(1..Len(log))
  BY <1>3, <1>4, SeqMonotonic
<1>6. QED
  BY <1>2, <1>3, <1>4, <1>5

LEMMA FirstIsPrefix ==
  ASSUME NEW S, NEW s \in Seq(S), NEW n \in Nat
  PROVE  /\ First(s, n) \in Seq(S)
         /\ Len(First(s, n)) = IF Len(s) <= n THEN Len(s) ELSE n
         /\ \A i \in 1..Len(First(s, n)) : First(s, n)[i] = s[i]
<1>1. CASE Len(s) <= n
  BY <1>1 DEF First
<1>2. CASE ~(Len(s) <= n)
  <2>1. Len(s) \in Nat /\ n < Len(s) /\ \A i \in 1..n : s[i] \in S
    BY <1>2
  <2>2. /\ SubSeq(s, 1, n) \in Seq(S)
        /\ Len(SubSeq(s, 1, n)) = n
        /\ \A i \in 1..n : SubSeq(s, 1, n)[i] = s[i]
    BY <2>1, SubSeqProperties
  <2>3. QED
    BY <1>2, <2>1, <2>2 DEF First
<1>3. QED
  BY <1>1, <1>2

LEMMA LimitIsInt ==
  ASSUME TypeOK, NEW r \in Request
  PROVE  query[r].limit \in Int
<1>1. query[r] \in Query \/ query[r] = NoQuery
  BY DEF TypeOK
<1>2. query[r].limit \in Limit \cup {MIN_LIMIT}
  BY <1>1 DEF Query, NoQuery
<1>3. MIN_LIMIT \in Nat /\ \A l \in Limit : l \in Int
  BY LimitAssumption
<1>4. QED
  BY <1>2, <1>3

(* The answer of a search, against all that matched.                       *)
LEMMA SearchAnswers ==
  ASSUME TypeOK, NEW r \in Request, Search(r),
         NEW n, n = bounded(query[r].limit), NEW M, M = Matching(query[r])
  PROVE  /\ found'[r] \in Seq(1..Len(log)) /\ Len(found'[r]) <= n
         /\ \A i, j \in 1..Len(found'[r]) : i < j =>
              /\ found'[r][i] # found'[r][j]
              /\ When(log[found'[r][i]]) >= When(log[found'[r][j]])
         /\ Places(found'[r]) \subseteq M
         /\ \A k \in M \ Places(found'[r]) :
              /\ Len(found'[r]) = n
              /\ \A i \in 1..Len(found'[r]) : When(log[found'[r][i]]) >= When(log[k])
<1> DEFINE size == IF n <= HitCap THEN n ELSE HitCap
<1>1. query[r].limit \in Int
  BY LimitIsInt
<1>2. n \in Nat /\ n <= MAX_LIMIT /\ size = n
  BY <1>1, BoundedIsBetween, LimitAssumption
<1>3. PICK s \in NewestFirst(M) :
        \E docs \in NewestFirst(Places(First(s, n))) : found' = [found EXCEPT ![r] = First(docs, n)]
  BY <1>2 DEF Search
<1>31. PICK docs \in NewestFirst(Places(First(s, n))) :
        found' = [found EXCEPT ![r] = First(docs, n)]
  BY <1>3
<1> DEFINE t == First(s, n)
           a == found'[r]
<1>4. M \in SUBSET (1..Len(log))
  BY DEF Matching
<1>5. /\ s \in Seq(1..Len(log)) /\ Places(s) = M
      /\ \A i, j \in 1..Len(s) : s[i] = s[j] => i = j
      /\ \A i, j \in 1..Len(s) : i < j => When(log[s[i]]) >= When(log[s[j]])
  BY <1>3, <1>4, Ordered
<1>6. /\ t \in Seq(1..Len(log)) /\ Len(t) = IF Len(s) <= n THEN Len(s) ELSE n
      /\ \A i \in 1..Len(t) : t[i] = s[i]
  BY <1>2, <1>5, FirstIsPrefix
<1> HIDE DEF t
<1>7. Len(s) \in Nat /\ Len(t) \in Nat /\ DOMAIN s = 1..Len(s) /\ DOMAIN t = 1..Len(t)
  BY <1>5, <1>6
<1>8. \A i, j \in 1..Len(t) : t[i] = t[j] => i = j
  BY <1>2, <1>5, <1>6, <1>7
<1>9. Cardinality(Places(t)) = Len(t)
  BY <1>6, <1>8, LengthOfDistinct
<1>10. Places(t) \subseteq M /\ Places(t) \in SUBSET (1..Len(log))
  BY <1>2, <1>4, <1>5, <1>6, <1>7 DEF Places
<1>11. /\ docs \in Seq(1..Len(log)) /\ Places(docs) = Places(t) /\ Len(docs) = Cardinality(Places(t))
       /\ \A i, j \in 1..Len(docs) : docs[i] = docs[j] => i = j
       /\ \A i, j \in 1..Len(docs) : i < j => When(log[docs[i]]) >= When(log[docs[j]])
  BY <1>10, Ordered DEF t
<1>12. Len(docs) = Len(t) /\ Len(t) <= n
  BY <1>2, <1>6, <1>7, <1>9, <1>11
<1>13. a = docs
  BY <1>2, <1>31, <1>12 DEF First, TypeOK
<1>14. \A i, j \in 1..Len(a) : i < j =>
         a[i] # a[j] /\ When(log[a[i]]) >= When(log[a[j]])
  BY <1>7, <1>11, <1>12, <1>13
<1>15. ASSUME NEW k \in M \ Places(a)
       PROVE  Len(a) = n /\ \A i \in 1..Len(a) : When(log[a[i]]) >= When(log[k])
  <2>1. PICK m \in 1..Len(s) : s[m] = k
    BY <1>5, <1>7 DEF Places
  <2>2. k \notin Places(t)
    BY <1>11, <1>13
  <2>3. ~(m \in 1..Len(t))
    BY <1>6, <1>7, <2>1, <2>2 DEF Places
  <2>4. Len(t) = n /\ m > n
    BY <1>2, <1>6, <1>7, <2>3
  <2>5. ASSUME NEW i \in 1..Len(a)
        PROVE  When(log[a[i]]) >= When(log[k])
    <3>1. a[i] \in Places(t)
      <4>1. DOMAIN docs = 1..Len(docs)
        BY <1>11
      <4>2. QED
        BY <1>11, <1>13, <4>1 DEF Places
    <3>2. PICK p \in 1..Len(t) : t[p] = a[i]
      BY <1>7, <3>1 DEF Places
    <3>3. s[p] = a[i] /\ p \in 1..Len(s) /\ p < m
      BY <1>2, <1>6, <1>7, <2>1, <2>4, <3>2
    <3>4. QED
      BY <1>5, <2>1, <3>3
  <2>6. QED
    BY <1>12, <1>13, <2>4, <2>5
<1>16. QED
  BY <1>10, <1>11, <1>12, <1>13, <1>14, <1>15

-----------------------------------------------------------------------------
(* The invariant: of the type, of the requests that were let in, and of    *)
(* what was found.                                                         *)

Filled(r) == at[r] = "answered" => \A i \in Places(found[r]) : Matches(query[r], log[i])

Newest(r) ==
  at[r] = "answered" =>
    LET a == found[r]
        newer(i, j) == When(log[i]) >= When(log[j]) IN
    /\ \A i, j \in DOMAIN a : i < j => a[i] # a[j] /\ newer(a[i], a[j])
    /\ \A k \in 1..had[r] : Wanted(query[r], log[k]) /\ k \notin Places(a) =>
         /\ Len(a) = MAX_LIMIT \/ (Len(a) >= query[r].limit /\ Len(a) >= MIN_LIMIT)
         /\ \A i \in DOMAIN a : newer(a[i], k)

Sound(r) == WellFormed(query[r]) /\ Filled(r) /\ Newest(r)

ChronologyInv == TypeOK /\ \A r \in Request : Sound(r)

LEMMA TypeInit == Init => TypeOK
<1> SUFFICES ASSUME Init
             PROVE  TypeOK
  OBVIOUS
<1>1. Len(log) = 0 /\ log \in Seq(Documents)
  BY DEF Init
<1>2. <<>> \in Seq(1..Len(log)) /\ Len(<<>>) = 0
  OBVIOUS
<1>3. MAX_LIMIT \in Nat /\ MaxLog \in Nat
  BY LimitAssumption
<1>4. QED
  BY <1>1, <1>2, <1>3 DEF Init, TypeOK

(* A document that is appended moves none of those before.                 *)
LEMMA LogGrows ==
  ASSUME TypeOK, NEW d \in Documents, Arrives(d)
  PROVE  /\ log' \in Seq(Documents) /\ Len(log') = Len(log) + 1 /\ Len(log') <= MaxLog
         /\ \A i \in 1..Len(log) : log'[i] = log[i]
<1>1. log' = Append(log, d) /\ log \in Seq(Documents) /\ Len(log) \in Nat /\ Len(log) < MaxLog
  BY DEF Arrives, TypeOK
<1>2. log' \in Seq(Documents) /\ Len(log') = Len(log) + 1 /\ \A i \in 1..Len(log) : log'[i] = log[i]
  BY <1>1
<1>3. QED
  BY <1>1, <1>2, LimitAssumption

LEMMA TypeArrives ==
  ASSUME TypeOK, NEW d \in Documents, Arrives(d)
  PROVE  TypeOK'
<1>1. /\ log' \in Seq(Documents) /\ Len(log') = Len(log) + 1 /\ Len(log') <= MaxLog
      /\ Len(log) \in Nat
  BY LogGrows DEF TypeOK
<1>2. 1..Len(log) \subseteq 1..Len(log') /\ 0..Len(log) \subseteq 0..Len(log')
  BY <1>1
<1>3. found' \in [Request -> Seq(1..Len(log'))]
  <2>1. ASSUME NEW t \in Request
        PROVE  found[t] \in Seq(1..Len(log'))
    <3>1. found[t] \in Seq(1..Len(log))
      BY DEF TypeOK
    <3>2. QED
      BY <1>2, <3>1, SeqMonotonic
  <2>2. QED
    BY <2>1 DEF TypeOK, Arrives
<1>4. had' \in [Request -> 0..Len(log')]
  BY <1>2 DEF TypeOK, Arrives
<1>5. QED
  BY <1>1, <1>3, <1>4 DEF TypeOK, Arrives

LEMMA TypeRequest ==
  ASSUME TypeOK, NEW r \in Request,
         (\E q \in Query : Arrive(r, q)) \/ Search(r) \/ Leave(r)
  PROVE  TypeOK'
<1>1. Len(log) \in Nat /\ MAX_LIMIT \in Nat /\ <<>> \in Seq(1..Len(log)) /\ Len(<<>>) = 0
  BY LimitAssumption DEF TypeOK
<1>2. ASSUME NEW q \in Query, Arrive(r, q)
      PROVE  TypeOK'
  <2>1. had' \in [Request -> 0..Len(log')] /\ query' \in [Request -> Query \cup {NoQuery}]
    BY <1>1, <1>2 DEF Arrive, TypeOK
  <2>2. QED
    BY <1>2, <2>1 DEF Arrive, TypeOK
<1>3. ASSUME Search(r)
      PROVE  TypeOK'
  <2>1. found'[r] \in Seq(1..Len(log)) /\ Len(found'[r]) <= bounded(query[r].limit)
    BY <1>3, SearchAnswers
  <2>2. bounded(query[r].limit) \in Int /\ bounded(query[r].limit) <= MAX_LIMIT
    <3>1. query[r].limit \in Int
      BY LimitIsInt
    <3>2. QED
      BY <3>1, BoundedIsBetween, LimitAssumption
  <2>3. Len(found'[r]) <= MAX_LIMIT
    BY <1>1, <2>1, <2>2
  <2>4. PICK answer : found' = [found EXCEPT ![r] = answer]
    BY <1>3 DEF Search
  <2>5. found' \in [Request -> Seq(1..Len(log))] /\ \A t \in Request : Len(found'[t]) <= MAX_LIMIT
    BY <2>1, <2>3, <2>4 DEF TypeOK
  <2>6. QED
    BY <1>3, <2>5 DEF Search, TypeOK
<1>4. ASSUME Leave(r)
      PROVE  TypeOK'
  <2>1. found' \in [Request -> Seq(1..Len(log))] /\ \A t \in Request : Len(found'[t]) <= MAX_LIMIT
    BY <1>1, <1>4 DEF Leave, TypeOK
  <2>2. had' \in [Request -> 0..Len(log)] /\ query' \in [Request -> Query \cup {NoQuery}]
    BY <1>1, <1>4 DEF Leave, TypeOK
  <2>3. QED
    BY <1>4, <2>1, <2>2 DEF Leave, TypeOK
<1>5. QED
  BY <1>2, <1>3, <1>4

LEMMA TypeNext == TypeOK /\ [Next]_vars => TypeOK'
<1>1. TypeOK /\ UNCHANGED vars => TypeOK'
  BY DEF TypeOK, vars
<1>2. QED
  BY <1>1, TypeArrives, TypeRequest DEF Next

-----------------------------------------------------------------------------
(* What was found stays right while the log grows.                         *)

LEMMA InvInit == Init => ChronologyInv
<1> SUFFICES ASSUME Init
             PROVE  ChronologyInv
  OBVIOUS
<1>1. \A r \in Request : at[r] = "idle" /\ query[r] = NoQuery
  BY DEF Init
<1>2. WellFormed(NoQuery)
  BY DEF NoQuery, WellFormed
<1>3. QED
  BY <1>1, <1>2, TypeInit DEF ChronologyInv, Sound, Filled, Newest

(* A request that does not move.                                           *)
LEMMA WaitingKeeps ==
  ASSUME TypeOK, NEW r \in Request, Sound(r),
         \A i \in 1..Len(log) : log'[i] = log[i],
         at'[r] = at[r], query'[r] = query[r], found'[r] = found[r], had'[r] = had[r]
  PROVE  Sound(r)'
<1>1. WellFormed(query[r])'
  BY DEF Sound, WellFormed
<1>2. /\ found[r] \in Seq(1..Len(log)) /\ had[r] \in 0..Len(log) /\ Len(log) \in Nat
      /\ Places(found[r]) \subseteq 1..Len(log)
      /\ \A i \in DOMAIN found[r] : found[r][i] \in 1..Len(log)
  BY DEF TypeOK, Places
<1>3. Filled(r)'
  <2>1. ASSUME at[r] = "answered", NEW i \in Places(found[r])
        PROVE  Matches(query[r], log'[i])
    BY <1>2, <2>1 DEF Sound, Filled
  <2>2. QED
    BY <2>1 DEF Filled, Matches, EventMatches, ChangeMatches
<1>4. Newest(r)'
  <2> SUFFICES ASSUME at[r] = "answered"
               PROVE  Newest(r)'
    BY DEF Newest
  <2> DEFINE a == found[r]
  <2>1. \A i, j \in DOMAIN a : i < j => a[i] # a[j] /\ When(log'[a[i]]) >= When(log'[a[j]])
    BY <1>2 DEF Sound, Newest
  <2>2. ASSUME NEW k \in 1..had[r], Wanted(query[r], log'[k]), k \notin Places(a)
        PROVE  /\ Len(a) = MAX_LIMIT \/ (Len(a) >= query[r].limit /\ Len(a) >= MIN_LIMIT)
               /\ \A i \in DOMAIN a : When(log'[a[i]]) >= When(log'[k])
    <3>1. k \in 1..Len(log) /\ log'[k] = log[k]
      BY <1>2
    <3>2. QED
      BY <1>2, <2>2, <3>1 DEF Sound, Newest
  <2>3. QED
    BY <2>1, <2>2 DEF Newest, Wanted, When
<1>5. QED
  BY <1>1, <1>3, <1>4 DEF Sound

LEMMA SearchKeeps ==
  ASSUME ChronologyInv, NEW r \in Request, Search(r)
  PROVE  Sound(r)'
<1> DEFINE q == query[r]
           n == bounded(q.limit)
           M == Matching(q)
           a == found'[r]
<1>1. TypeOK /\ WellFormed(q) /\ q \in Query \cup {NoQuery} /\ q.limit \in Int
  BY LimitIsInt DEF ChronologyInv, Sound, TypeOK
<1>2. /\ at'[r] = "answered" /\ query'[r] = q /\ log' = log /\ had'[r] = had[r]
      /\ had[r] \in 0..Len(log) /\ Len(log) \in Nat /\ log \in Seq(Documents)
  BY <1>1 DEF Search, TypeOK
<1>3. /\ a \in Seq(1..Len(log))
      /\ \A i, j \in 1..Len(a) : i < j => a[i] # a[j] /\ When(log[a[i]]) >= When(log[a[j]])
      /\ Places(a) \subseteq M
      /\ \A k \in M \ Places(a) :
           Len(a) = n /\ \A i \in 1..Len(a) : When(log[a[i]]) >= When(log[k])
  BY <1>1, SearchAnswers
<1>4. n = MAX_LIMIT \/ (n >= q.limit /\ n >= MIN_LIMIT)
  BY <1>1, BoundedIsBetween
<1>5. M = {i \in 1..Len(log) : Matches(q, log[i])}
  BY DEF Matching, Matches
<1>6. DOMAIN a = 1..Len(a)
  BY <1>3
<1> HIDE DEF M, n, q, a
<1>7. \A i \in Places(a) : Matches(q, log[i])
  BY <1>3, <1>5
<1>8. ASSUME NEW k \in 1..had[r], Wanted(q, log[k]), k \notin Places(a)
      PROVE  /\ Len(a) = MAX_LIMIT \/ (Len(a) >= q.limit /\ Len(a) >= MIN_LIMIT)
             /\ \A i \in DOMAIN a : When(log[a[i]]) >= When(log[k])
  <2>1. k \in 1..Len(log) /\ log[k] \in Documents
    BY <1>2
  <2>2. k \in M \ Places(a)
    BY <1>1, <1>5, <1>8, <2>1, WantedIsMatched
  <2>3. QED
    BY <1>3, <1>4, <1>6, <2>2
<1>9. Filled(r)'
  <2>1. \A i \in Places(found'[r]) : Matches(query'[r], log'[i])
    BY <1>2, <1>7 DEF a
  <2>2. QED
    BY <2>1 DEF Filled, Matches, EventMatches, ChangeMatches
<1>10. Newest(r)'
  <2>1. \A i, j \in DOMAIN a : i < j => a[i] # a[j] /\ When(log'[a[i]]) >= When(log'[a[j]])
    BY <1>2, <1>3, <1>6
  <2>2. \A k \in 1..had'[r] : Wanted(query'[r], log'[k]) /\ k \notin Places(a) =>
          /\ Len(a) = MAX_LIMIT \/ (Len(a) >= query'[r].limit /\ Len(a) >= MIN_LIMIT)
          /\ \A i \in DOMAIN a : When(log'[a[i]]) >= When(log'[k])
    BY <1>2, <1>8
  <2>3. QED
    BY <2>1, <2>2 DEF Newest, Wanted, When, a
<1>11. WellFormed(query[r])'
  BY <1>1, <1>2 DEF WellFormed
<1>12. QED
  BY <1>9, <1>10, <1>11 DEF Sound

LEMMA InvNext == ChronologyInv /\ [Next]_vars => ChronologyInv'
<1> SUFFICES ASSUME ChronologyInv, [Next]_vars
             PROVE  ChronologyInv'
  OBVIOUS
<1>1. TypeOK /\ TypeOK'
  BY TypeNext DEF ChronologyInv
<1>2. CASE UNCHANGED vars
  BY <1>1, <1>2, WaitingKeeps DEF vars, ChronologyInv
<1>3. ASSUME NEW d \in Documents, Arrives(d)
      PROVE  ChronologyInv'
  <2>1. \A i \in 1..Len(log) : log'[i] = log[i]
    BY <1>1, <1>3, LogGrows
  <2>2. QED
    BY <1>1, <1>3, <2>1, WaitingKeeps DEF Arrives, ChronologyInv
<1>4. ASSUME NEW r \in Request,
             \/ \E q \in {x \in Query : WellFormed(x)} : Arrive(r, q)
             \/ Search(r) \/ Leave(r)
      PROVE  ChronologyInv'
  <2>1. Sound(r)'
    <3>1. ASSUME NEW q \in Query, WellFormed(q), Arrive(r, q)
          PROVE  Sound(r)'
      <4>1. at'[r] # "answered" /\ query'[r] = q
        BY <1>1, <3>1 DEF Arrive, TypeOK
      <4>2. QED
        BY <3>1, <4>1 DEF Sound, WellFormed, Filled, Newest
    <3>2. ASSUME Leave(r)
          PROVE  Sound(r)'
      <4>1. at'[r] # "answered" /\ query'[r] = NoQuery
        BY <1>1, <3>2 DEF Leave, TypeOK
      <4>2. QED
        BY <4>1 DEF Sound, WellFormed, NoQuery, Filled, Newest
    <3>3. QED
      BY <1>4, <3>1, <3>2, SearchKeeps
  <2>2. UNCHANGED log
    BY <1>4 DEF Arrive, Search, Leave
  <2>3. ASSUME NEW t \in Request \ {r}
        PROVE  /\ at'[t] = at[t] /\ query'[t] = query[t]
               /\ found'[t] = found[t] /\ had'[t] = had[t]
    BY <1>1, <1>4 DEF Arrive, Search, Leave, TypeOK
  <2>4. \A t \in Request \ {r} : Sound(t)'
    BY <1>1, <2>2, <2>3, WaitingKeeps DEF ChronologyInv
  <2>5. QED
    BY <1>1, <2>1, <2>4 DEF ChronologyInv
<1>5. QED
  BY <1>2, <1>3, <1>4 DEF Next

LEMMA ChronologyInvariant == Spec => []ChronologyInv
BY InvInit, InvNext, PTL DEF Spec

-----------------------------------------------------------------------------
(* What follows.                                                           *)

LEMMA InvNewest == ChronologyInv => AnswersAreTheNewest
<1> SUFFICES ASSUME ChronologyInv, NEW r \in Request, at[r] = "answered"
             PROVE  \A k \in Places(found[r]) : Wanted(query[r], log[k])
  BY DEF ChronologyInv, Sound, Newest, AnswersAreTheNewest
<1>1. /\ query[r] \in Query \cup {NoQuery} /\ WellFormed(query[r])
      /\ log \in Seq(Documents) /\ Places(found[r]) \subseteq 1..Len(log)
  BY DEF ChronologyInv, Sound, TypeOK, Places
<1>2. \A k \in Places(found[r]) : log[k] \in Documents /\ Matches(query[r], log[k])
  BY <1>1 DEF ChronologyInv, Sound, Filled
<1>3. QED
  BY <1>1, <1>2, WantedIsMatched

LEMMA InvOrg == ChronologyInv => ChangesStayInOrg
BY DEF ChronologyInv, Sound, Filled, ChangesStayInOrg, Answered, Matches, ChangeMatches, InOrg

(* A fact about the two derivations of an id alone.                        *)
LEMMA IdsAgree ==
  ASSUME NEW d, entity_type(d.index) \in DOMAIN KeyFields,
         \A f \in Places(KeyFields[entity_type(d.index)]) : d[f] # None
  PROVE  entity_id(d) = DocId(entity_type(d.index), d)
<1> DEFINE kind == entity_type(d.index)
<1>1. kind \in {"inventory", "device", "uplink", "switchport", "vlan", "network", "topology"}
  BY DEF KeyFields
<1> HIDE DEF kind
<1>2. CASE kind \in {"inventory", "device"}
  BY <1>2 DEF KeyFields, DocId, entity_id, Places, kind
<1>3. CASE kind \in {"uplink", "switchport"}
  BY <1>3 DEF KeyFields, DocId, entity_id, Places, kind
<1>4. CASE kind = "vlan"
  <2>1. KeyFields[kind] = <<"network", "part">>
    BY <1>4 DEF KeyFields
  <2>2. {"network", "part"} \subseteq Places(KeyFields[kind])
    BY <2>1 DEF Places
  <2>3. d["network"] # None /\ d["part"] # None
    BY <2>2 DEF kind
  <2>4. entity_id(d) = d["network"] \o d["part"]
    <3>1. entity_type(d.index) = "vlan"
      BY <1>4 DEF kind
    <3>2. entity_id(d) = d["network"] \o d["part"]
      BY <3>1, <2>3, Zenon DEF entity_id
    <3>3. QED
      BY <3>2
  <2>5. DocId(kind, d) = d["network"] \o d["part"]
    <3>1. /\ Len(KeyFields[kind]) # 1
          /\ KeyFields[kind][1] = "network" /\ KeyFields[kind][2] = "part"
      BY <2>1
    <3>2. QED
      BY <3>1, Zenon DEF DocId
  <2>6. QED
    BY <2>4, <2>5 DEF kind
<1>5. CASE kind \in {"network", "topology"}
  BY <1>5 DEF KeyFields, DocId, entity_id, Places, kind
<1>6. QED
  BY <1>1, <1>2, <1>3, <1>4, <1>5

LEMMA OpenTheirEntity == ChangesOpenTheirEntity
<1> SUFFICES ASSUME NEW r \in Request, NEW c \in Changes(r),
                    c.entity_type \in DOMAIN KeyFields,
                    \A f \in Places(KeyFields[c.entity_type]) : c.current[f] # None
             PROVE  c.entity_id = DocId(c.entity_type, c.current)
  BY DEF ChangesOpenTheirEntity
<1>1. PICK i \in Answered(r, "changes") : c = project_change(log[i])
  BY DEF Changes
<1> DEFINE d == log[i]
<1>2. /\ c.entity_type = entity_type(d.index) /\ c.entity_id = entity_id(d)
      /\ \A f \in {"serial", "part", "network"} : c.current[f] = d[f]
  BY <1>1 DEF project_change, Fields
<1> HIDE DEF d
<1>3. \A f \in Places(KeyFields[c.entity_type]) : f \in {"serial", "part", "network"}
  BY DEF KeyFields, Places
<1>4. entity_id(d) = DocId(entity_type(d.index), d)
  BY <1>2, <1>3, IdsAgree
<1>5. DocId(c.entity_type, c.current) = DocId(c.entity_type, d)
  <2>1. \A n \in DOMAIN KeyFields[c.entity_type] :
          c.current[KeyFields[c.entity_type][n]] = d[KeyFields[c.entity_type][n]]
    BY <1>2, <1>3 DEF Places
  <2>2. /\ 1 \in DOMAIN KeyFields[c.entity_type]
        /\ Len(KeyFields[c.entity_type]) # 1 => 2 \in DOMAIN KeyFields[c.entity_type]
    BY DEF KeyFields
  <2>3. QED
    BY <2>1, <2>2 DEF DocId
<1>6. QED
  BY <1>2, <1>4, <1>5

-----------------------------------------------------------------------------
(* The log, the requests and the answers keep their shape, and whatever    *)
(* limit is asked for, no answer is longer than MAX_LIMIT (_bounded).      *)
THEOREM TypeCorrect == Spec => []TypeOK
BY TypeInit, TypeNext, PTL DEF Spec

(* An answer is the newest part of what the request wanted, in order and   *)
(* without gaps, however late documents arrive (search_event_documents,    *)
(* list_change_documents).                                                 *)
THEOREM NewestFirstAlways == Spec => []AnswersAreTheNewest
BY ChronologyInvariant, InvNewest, PTL

(* Changes are of this organisation (_org_filter).                         *)
THEOREM ChangesAreOurs == Spec => []ChangesStayInOrg
BY ChronologyInvariant, InvOrg, PTL

(* The id of a change is the one the get of its entity builds              *)
(* (_extract_entity_id, get_uplink_document).                              *)
THEOREM ChangesAreOpened == Spec => []ChangesOpenTheirEntity
BY OpenTheirEntity, PTL
=============================================================================
