------------------------- MODULE RateLimiterProofs -------------------------
(***************************************************************************)
(* The rate limiter uses its cache only through the cache's operations,    *)
(* so what EvictCacheProofs shows of the cache holds of the limiter; and   *)
(* what it lets through is accounted for, token by token and loss by loss. *)
(***************************************************************************)
EXTENDS RateLimiter, EvictCacheProofs

\* What a request stores in the cache is a new bucket, under a client's key.
StoresBuckets == client \in [Requests -> Keys] /\ created \in Nat

\* The next bucket is a value of the cache.
LEMMA NextBucket ==
    ASSUME created \in Nat, created < Cardinality(Values)
    PROVE  created + 1 \in Values
<1>1. Cardinality(Values) \in Nat
  BY LimiterAssumption, FS_CardinalityType DEF LimiterAssumption
<1>2. created + 1 \in 1 .. Cardinality(Values)
  BY <1>1
<1> QED BY <1>2, LimiterAssumption DEF LimiterAssumption

\* Every step keeps the clients and the number of buckets well typed.
LEMMA StoresStep == StoresBuckets /\ [LimNext]_allVars => StoresBuckets'
<1> SUFFICES ASSUME StoresBuckets, [LimNext]_allVars PROVE StoresBuckets'
  OBVIOUS
<1> USE DEF StoresBuckets
<1>1. ASSUME NEW r \in Requests, Arrive(r) PROVE StoresBuckets'
  BY <1>1 DEF Arrive
<1>2. ASSUME NEW r \in Requests, Create(r) PROVE StoresBuckets'
  BY <1>2 DEF Create
<1>3. ASSUME NEW r \in Requests, Ask(r) PROVE StoresBuckets'
  BY <1>3 DEF Ask
<1>4. ASSUME NEW k \in Keys, Reset(k) PROVE StoresBuckets'
  BY <1>4 DEF Reset
<1>5. CASE Sweep \/ Close \/ Tick
  BY <1>5 DEF Sweep, Close, Tick, limVars
<1>6. CASE UNCHANGED allVars
  BY <1>6 DEF allVars, limVars
<1> QED BY <1>1, <1>2, <1>3, <1>4, <1>5, <1>6 DEF LimNext

\* Every step of the limiter is a step of the cache, or leaves the cache alone.
LEMMA CacheStep == StoresBuckets /\ [LimNext]_allVars => [CacheNext]_cacheVars
<1> SUFFICES ASSUME StoresBuckets, [LimNext]_allVars PROVE [CacheNext]_cacheVars
  OBVIOUS
<1>1. ASSUME NEW r \in Requests, Arrive(r) PROVE CacheNext
  <2>1. PICK k \in Keys : GetHit(k) \/ GetMiss(k)
    BY <1>1 DEF Arrive
  <2> QED BY <2>1 DEF CacheNext
<1>2. ASSUME NEW r \in Requests, Create(r) PROVE CacheNext
  <2>1. CacheValue(client[r], created + 1)
    BY <1>2 DEF Create
  <2>2. created + 1 \in Values
    BY <1>2, NextBucket DEF Create, StoresBuckets
  <2>3. client[r] \in Keys
    BY DEF StoresBuckets
  <2> QED BY <2>1, <2>2, <2>3 DEF CacheNext
<1>3. ASSUME NEW r \in Requests, Ask(r) PROVE UNCHANGED cacheVars
  BY <1>3 DEF Ask
<1>4. ASSUME NEW k \in Keys, Reset(k) PROVE CacheNext
  BY <1>4 DEF Reset, CacheNext
<1>5. CASE Sweep \/ Close \/ Tick
  BY <1>5 DEF Sweep, Close, Tick, CacheNext
<1>6. CASE UNCHANGED allVars
  BY <1>6 DEF allVars
<1> QED BY <1>1, <1>2, <1>3, <1>4, <1>5, <1>6 DEF LimNext

\* The limiter implements the cache's specification: allowClient, Reset and the
\* cleanup touch the cache only through GetValue, CacheValue, Evict and sweep.
THEOREM LimiterUsesCache == LimSpec => CacheSpec
<1>1. LimInit => NewCache /\ StoresBuckets
  BY DEF LimInit, StoresBuckets
<1> QED BY <1>1, StoresStep, CacheStep, PTL DEF LimSpec, CacheSpec

\* The per-client rate limiter keeps at most rate-limit-max-clients entries, whatever
\* the number of clients and of requests at once.
THEOREM LimiterCapacity == LimSpec => []CapacityBound
<1>1. CacheTypeOK /\ CapacityBound => CapacityBound
  OBVIOUS
<1> QED BY <1>1, LimiterUsesCache, CapacityCorrect, PTL

-----------------------------------------------------------------------------
\* The requests of a client that have missed and are about to create a bucket.
Pending(k) == {r \in Requests : pc[r] = "create" /\ client[r] = k}

\* The tokens in the buckets of a client, one by one.
Unused(k) == {p \in Values \X (1 .. Burst) : p[1] \in Made(k) /\ p[2] <= tokens[p[1]]}

\* A bucket serves the client it was created for, and no other.
OneClient ==
    /\ \A r \in Requests : pc[r] = "ask" => madeFor[bucket[r]] = client[r]
    /\ \A k \in DOMAIN cache : cache[k].value \in Made(k)

\* While a client has an entry, the buckets it may still create were missed for before the
\* entry was there; once it has none, all its buckets are paid for by losses.
LossesPay ==
    \A k \in Keys :
        IF k \in DOMAIN cache
        THEN Cardinality(Made(k)) + Cardinality(Pending(k)) <= Cardinality(Requests) * (1 + lost[k])
        ELSE Cardinality(Made(k)) <= Cardinality(Requests) * lost[k]

\* What a client was let through and what its buckets still hold is bounded by its buckets.
TokensPay ==
    \A k \in Keys :
        allowed[k] + Cardinality(Unused(k)) <= Cardinality(Made(k)) * (Burst + elapsed)

LimiterInv == LimTypeOK /\ CapacityBound /\ OneClient /\ LossesPay /\ TokensPay

-----------------------------------------------------------------------------
\* Products of naturals, as the bounds need them.
LEMMA Products ==
    ASSUME NEW a \in Nat, NEW b \in Nat
    PROVE  a * b \in Nat /\ a * (1 + b) = a * b + a /\ (a + 1) * b = a * b + b
<1>1. a * (1 + b) = a * b + a
  BY SMT
<1>2. (a + 1) * b = a * b + b
  BY SMT
<1>3. a * b \in Nat
  BY SMT
<1> QED BY <1>1, <1>2, <1>3

\* The sets that the bounds count are finite.
LEMMA Countable ==
    ASSUME LimTypeOK, NEW k \in Keys
    PROVE  /\ Made(k) \subseteq 1 .. created /\ IsFiniteSet(Made(k)) /\ Cardinality(Made(k)) \in Nat
           /\ IsFiniteSet(Pending(k)) /\ Cardinality(Pending(k)) \in Nat
           /\ Cardinality(Pending(k)) <= Cardinality(Requests) /\ Cardinality(Requests) \in Nat
           /\ IsFiniteSet(Unused(k)) /\ Cardinality(Unused(k)) \in Nat
<1> USE LimiterAssumption DEF LimiterAssumption
<1>1. created \in Int /\ Burst \in Int
  <2>1. Cardinality(Values) \in Nat
    BY FS_CardinalityType
  <2> QED BY <2>1 DEF LimTypeOK
<1>2. Made(k) \subseteq 1 .. created
  BY DEF Made, LimTypeOK
<1>3. IsFiniteSet(Made(k))
  <2>1. IsFiniteSet(1 .. created)
    BY ONLY <1>1, FS_Interval
  <2> QED BY ONLY <1>2, <2>1, FS_Subset
<1>4. Pending(k) \subseteq Requests
  BY DEF Pending
<1>5. IsFiniteSet(Pending(k)) /\ Cardinality(Pending(k)) <= Cardinality(Requests)
  BY <1>4, FS_Subset
<1>6. Unused(k) \subseteq Values \X (1 .. Burst)
  BY DEF Unused
<1>7. IsFiniteSet(Values \X (1 .. Burst))
  <2>1. IsFiniteSet(1 .. Burst)
    BY <1>1, FS_Interval
  <2>2. IsFiniteSet(Values)
    OBVIOUS
  <2> HIDE LimiterAssumption DEF LimiterAssumption
  <2> QED BY ONLY <2>1, <2>2, FS_Product
<1>8. IsFiniteSet(Unused(k))
  BY <1>6, <1>7, FS_Subset
<1> QED BY <1>2, <1>3, <1>5, <1>8, FS_CardinalityType

\* A loss is counted in the step in which the client's entry leaves the cache.
LEMMA LossesCounted ==
    ASSUME LimTypeOK, [LimNext]_allVars
    PROVE  /\ lost' \in [Keys -> Nat]
           /\ \A k \in Keys : lost'[k] = IF k \in DOMAIN cache \ DOMAIN cache'
                                         THEN lost[k] + 1 ELSE lost[k]
<1>0. lost \in [Keys -> Nat]
  BY DEF LimTypeOK
<1>1. CASE CountLost
  BY <1>0, <1>1 DEF CountLost
<1>2. CASE lost' = lost /\ DOMAIN cache' = DOMAIN cache
  BY <1>0, <1>2
<1>3. CASE Close \/ Tick \/ UNCHANGED allVars
  BY <1>2, <1>3 DEF Close, Tick, close, CacheTick, Aged, limVars, allVars, cacheVars
<1>4. CASE \E r \in Requests : Ask(r)
  BY <1>2, <1>4 DEF Ask, cacheVars
<1>5. CASE \E r \in Requests : Arrive(r) \/ Create(r)
  BY <1>1, <1>5 DEF Arrive, Create
<1>6. CASE Sweep \/ \E k \in Keys : Reset(k)
  BY <1>1, <1>6 DEF Sweep, Reset
<1> QED BY <1>3, <1>4, <1>5, <1>6 DEF LimNext

\* A new bucket has a number of its own, and belongs to the client it is created for.
LEMMA CreateMakes ==
    ASSUME LimTypeOK, NEW r \in Requests, Create(r)
    PROVE  /\ created + 1 \in Values /\ created' = created + 1 /\ created' \in 0 .. Cardinality(Values)
           /\ madeFor' \in [1 .. created' -> Keys]
           /\ madeFor'[created + 1] = client[r]
           /\ \A v \in 1 .. created : madeFor'[v] = madeFor[v]
           /\ \A k \in Keys : /\ created + 1 \notin Made(k)
                             /\ Made(k)' = IF k = client[r] THEN Made(k) \union {created + 1} ELSE Made(k)
<1>0. /\ created' = created + 1 /\ created < Cardinality(Values)
      /\ madeFor' = Put(madeFor, created + 1, client[r])
  BY DEF Create
<1>1. Cardinality(Values) \in Nat
  BY LimiterAssumption, FS_CardinalityType DEF LimiterAssumption
<1>2. created \in Nat /\ madeFor \in [1 .. created -> Keys] /\ client[r] \in Keys
  BY <1>1 DEF LimTypeOK
<1>3. created + 1 \in Values
  BY <1>0, <1>2, NextBucket
<1>4. DOMAIN madeFor' = 1 .. created + 1 /\ DOMAIN madeFor = 1 .. created
  BY <1>0, <1>2 DEF Put
<1>5. \A v \in 1 .. created + 1 : madeFor'[v] = IF v = created + 1 THEN client[r] ELSE madeFor[v]
  BY <1>0, <1>2, <1>4 DEF Put
<1>6. madeFor' = [v \in 1 .. created + 1 |-> IF v = created + 1 THEN client[r] ELSE madeFor[v]]
  BY <1>0, <1>2 DEF Put
<1>7. madeFor' \in [1 .. created + 1 -> Keys]
  BY <1>2, <1>6
<1>8. \A k \in Keys : Made(k)' = {v \in 1 .. created + 1 : madeFor'[v] = k}
  BY <1>4 DEF Made
<1>9. \A k \in Keys : Made(k) = {v \in 1 .. created : madeFor[v] = k}
  BY <1>4 DEF Made
<1>10. ASSUME NEW k \in Keys, k = client[r] PROVE Made(k)' = Made(k) \union {created + 1}
  <2>1. {v \in 1 .. created + 1 : madeFor'[v] = k} = {v \in 1 .. created : madeFor[v] = k} \union {created + 1}
    BY <1>2, <1>5, <1>10
  <2> QED BY <1>8, <1>9, <2>1
<1>11. \A k \in Keys : created + 1 \notin Made(k)
  BY <1>2, <1>9
<1>12. ASSUME NEW k \in Keys, k # client[r] PROVE Made(k)' = Made(k)
  <2>1. \A v \in 1 .. created + 1 : madeFor'[v] = k <=> v \in 1 .. created /\ madeFor[v] = k
    BY <1>2, <1>5, <1>12
  <2>2. 1 .. created \subseteq 1 .. created + 1
    BY <1>2
  <2>3. {v \in 1 .. created + 1 : madeFor'[v] = k} = {v \in 1 .. created : madeFor[v] = k}
    BY <2>1, <2>2
  <2> QED BY <1>8, <1>9, <2>3
<1> QED BY <1>0, <1>1, <1>2, <1>3, <1>5, <1>7, <1>10, <1>11, <1>12

\* A step other than Create makes no bucket.
LEMMA OthersMakeNone ==
    ASSUME [LimNext]_allVars, \A r \in Requests : ~Create(r)
    PROVE  /\ created' = created /\ madeFor' = madeFor
           /\ \A k \in Keys : Made(k)' = Made(k)
<1>1. created' = created /\ madeFor' = madeFor
  BY DEF LimNext, Arrive, Ask, Reset, Sweep, Close, Tick, limVars, allVars
<1> QED BY <1>1 DEF Made

-----------------------------------------------------------------------------
\* The cache keeps its types and its bound, since the limiter uses its operations only.
LEMMA LimiterCacheStep ==
    ASSUME LimTypeOK, CapacityBound, [LimNext]_allVars
    PROVE  CacheTypeOK' /\ CapacityBound' /\ [CacheNext]_cacheVars
<1>1. StoresBuckets
  <2>1. Cardinality(Values) \in Nat
    BY LimiterAssumption, FS_CardinalityType DEF LimiterAssumption
  <2> QED BY <2>1 DEF LimTypeOK, StoresBuckets
<1> QED BY <1>1, CacheStep, BoundStep DEF LimTypeOK

\* A step other than Create stores nothing in the cache.
LEMMA OthersStoreNone ==
    ASSUME LimTypeOK, [LimNext]_allVars, \A r \in Requests : ~Create(r)
    PROVE  \A j \in DOMAIN cache' : j \in DOMAIN cache /\ cache'[j].value = cache[j].value
<1>1. \/ \E k \in Keys : GetHit(k) \/ GetMiss(k) \/ Evict(k)
      \/ sweep \/ CacheTick \/ close \/ UNCHANGED cacheVars
  BY DEF LimNext, Arrive, Ask, Reset, Sweep, Close, Tick, allVars
<1> QED BY <1>1, OperationsKeep DEF LimTypeOK

\* Which bucket a request asks: the one it found under its client, or the one it has made.
\* Either serves that client only.
LEMMA OneClientStep ==
    ASSUME LimTypeOK, OneClient, [LimNext]_allVars
    PROVE  /\ bucket' \in [Requests -> 0 .. created']
           /\ \A r \in Requests : pc'[r] = "ask" => bucket'[r] # 0
           /\ OneClient'
<1>0. /\ CacheTypeOK /\ pc \in [Requests -> {"idle", "create", "ask"}]
      /\ client \in [Requests -> Keys] /\ madeFor \in [1 .. created -> Keys]
      /\ bucket \in [Requests -> 0 .. created]
      /\ \A r \in Requests : pc[r] = "ask" => bucket[r] # 0
  BY DEF LimTypeOK
<1>1. created \in Nat
  <2>1. Cardinality(Values) \in Nat
    BY LimiterAssumption, FS_CardinalityType DEF LimiterAssumption
  <2> QED BY <2>1 DEF LimTypeOK
<1>2. ASSUME NEW r \in Requests, Create(r)
      PROVE  /\ bucket' \in [Requests -> 0 .. created']
             /\ \A q \in Requests : pc'[q] = "ask" => bucket'[q] # 0 /\ madeFor'[bucket'[q]] = client'[q]
             /\ \A k \in DOMAIN cache' : cache'[k].value \in Made(k)'
  <2>0. /\ bucket' = [bucket EXCEPT ![r] = created + 1] /\ client' = client
        /\ pc' = [pc EXCEPT ![r] = "ask"] /\ CacheValue(client[r], created + 1)
    BY <1>2 DEF Create, Goto
  <2>1. /\ created' = created + 1 /\ madeFor'[created + 1] = client[r]
        /\ \A v \in 1 .. created : madeFor'[v] = madeFor[v]
        /\ \A k \in Keys : Made(k)' = IF k = client[r] THEN Made(k) \union {created + 1} ELSE Made(k)
    BY <1>2, CreateMakes
  <2>2. bucket' \in [Requests -> 0 .. created + 1]
    BY <1>0, <1>1, <2>0
  <2>3. ASSUME NEW q \in Requests, pc'[q] = "ask"
        PROVE  bucket'[q] # 0 /\ madeFor'[bucket'[q]] = client'[q]
    <3>1. CASE q = r
      BY <1>0, <1>1, <2>0, <2>1, <3>1
    <3>2. CASE q # r
      <4>1. bucket'[q] = bucket[q] /\ pc[q] = "ask" /\ client'[q] = client[q]
        BY <1>0, <2>0, <2>3, <3>2
      <4>2. bucket[q] \in 1 .. created /\ madeFor[bucket[q]] = client[q]
        BY <1>0, <1>1, <4>1 DEF OneClient
      <4> QED BY <2>1, <4>1, <4>2
    <3> QED BY <3>1, <3>2
  <2>4. ASSUME NEW k \in DOMAIN cache' PROVE cache'[k].value \in Made(k)'
    <3>1. client[r] \in Keys
      BY <1>0
    <3>2. \/ k = client[r] /\ cache'[k].value = created + 1
          \/ k \in DOMAIN cache /\ cache'[k].value = cache[k].value
      BY <2>0, <2>4, <3>1, StoreAdds
    <3>3. CASE k = client[r] /\ cache'[k].value = created + 1
      BY <2>1, <3>1, <3>3
    <3>4. CASE k \in DOMAIN cache /\ cache'[k].value = cache[k].value
      <4>1. cache[k].value \in Made(k) /\ k \in Keys
        BY <1>0, <3>4 DEF OneClient, CacheTypeOK
      <4> QED BY <2>1, <3>4, <4>1
    <3> QED BY <3>2, <3>3, <3>4
  <2> QED BY <2>1, <2>2, <2>3, <2>4
<1>3. ASSUME \A r \in Requests : ~Create(r)
      PROVE  /\ bucket' \in [Requests -> 0 .. created']
             /\ \A q \in Requests : pc'[q] = "ask" => bucket'[q] # 0 /\ madeFor'[bucket'[q]] = client'[q]
             /\ \A k \in DOMAIN cache' : cache'[k].value \in Made(k)'
  <2>1. created' = created /\ madeFor' = madeFor /\ \A k \in Keys : Made(k)' = Made(k)
    BY <1>3, OthersMakeNone
  <2>2. ASSUME NEW k \in DOMAIN cache' PROVE cache'[k].value \in Made(k)'
    <3>1. k \in DOMAIN cache /\ cache'[k].value = cache[k].value
      BY <1>3, <2>2, OthersStoreNone
    <3>2. cache[k].value \in Made(k) /\ k \in Keys
      BY <1>0, <3>1 DEF OneClient, CacheTypeOK
    <3> QED BY <2>1, <3>1, <3>2
  <2>3. ASSUME NEW r \in Requests, Arrive(r)
        PROVE  /\ bucket' \in [Requests -> 0 .. created]
               /\ \A q \in Requests : pc'[q] = "ask" => bucket'[q] # 0 /\ madeFor[bucket'[q]] = client'[q]
    <3>1. PICK k \in Keys :
            /\ client' = [client EXCEPT ![r] = k]
            /\ \/ GetHit(k) /\ Goto(r, "ask") /\ bucket' = [bucket EXCEPT ![r] = cache[k].value]
               \/ GetMiss(k) /\ Goto(r, "create") /\ UNCHANGED bucket
      BY <2>3 DEF Arrive
    <3>2. k \in DOMAIN cache => cache[k].value \in 1 .. created /\ madeFor[cache[k].value] = k
      BY <1>0 DEF OneClient, Made
    <3>3. CASE GetHit(k) /\ Goto(r, "ask") /\ bucket' = [bucket EXCEPT ![r] = cache[k].value]
      <4>1. cache[k].value \in 1 .. created /\ madeFor[cache[k].value] = k
        BY <3>2, <3>3 DEF GetHit
      <4>2. cache[k].value \in 0 .. created /\ cache[k].value # 0
        BY <1>1, <4>1
      <4> QED BY <1>0, <3>1, <3>3, <4>1, <4>2 DEF Goto, OneClient
    <3>4. CASE GetMiss(k) /\ Goto(r, "create") /\ UNCHANGED bucket
      BY <1>0, <3>1, <3>4 DEF Goto, OneClient
    <3> QED BY <3>1, <3>3, <3>4
  <2>4. ASSUME NEW r \in Requests, Ask(r)
        PROVE  /\ bucket' \in [Requests -> 0 .. created]
               /\ \A q \in Requests : pc'[q] = "ask" => bucket'[q] # 0 /\ madeFor[bucket'[q]] = client'[q]
    BY <1>0, <2>4 DEF Ask, Goto, OneClient
  <2>5. ASSUME UNCHANGED <<bucket, pc, client>>
        PROVE  /\ bucket' \in [Requests -> 0 .. created]
               /\ \A q \in Requests : pc'[q] = "ask" => bucket'[q] # 0 /\ madeFor[bucket'[q]] = client'[q]
    BY <1>0, <2>5 DEF OneClient
  <2>6. CASE Sweep \/ Close \/ Tick \/ (\E k \in Keys : Reset(k)) \/ UNCHANGED allVars
    BY <2>1, <2>2, <2>5, <2>6 DEF Sweep, Close, Tick, Reset, limVars, allVars
  <2> QED BY <1>3, <2>1, <2>2, <2>3, <2>4, <2>6 DEF LimNext
<1>4. CASE \E r \in Requests : Create(r)
  BY <1>2, <1>4 DEF OneClient
<1>5. CASE \A r \in Requests : ~Create(r)
  BY <1>3, <1>5 DEF OneClient
<1> QED BY <1>4, <1>5

\* The types.
LEMMA LimTypeStep ==
    ASSUME LimTypeOK, CapacityBound, OneClient, [LimNext]_allVars
    PROVE  LimTypeOK'
<1>0. /\ tokens \in [Values -> 0 .. Burst] /\ pc \in [Requests -> {"idle", "create", "ask"}]
      /\ client \in [Requests -> Keys] /\ elapsed \in 0 .. MaxTicks /\ allowed \in [Keys -> Nat]
      /\ created \in 0 .. Cardinality(Values) /\ madeFor \in [1 .. created -> Keys]
      /\ bucket \in [Requests -> 0 .. created]
      /\ \A r \in Requests : pc[r] = "ask" => bucket[r] # 0
  BY DEF LimTypeOK
<1>1. Burst \in Nat /\ Burst > 0 /\ MaxTicks \in Nat
  BY LimiterAssumption DEF LimiterAssumption
<1>2. CacheTypeOK'
  BY LimiterCacheStep
<1>3. lost' \in [Keys -> Nat]
  BY LossesCounted
<1>4. bucket' \in [Requests -> 0 .. created'] /\ \A r \in Requests : pc'[r] = "ask" => bucket'[r] # 0
  BY OneClientStep
<1>5. created' \in 0 .. Cardinality(Values) /\ madeFor' \in [1 .. created' -> Keys]
  <2>1. CASE \E r \in Requests : Create(r)
    BY <2>1, CreateMakes
  <2>2. CASE \A r \in Requests : ~Create(r)
    BY <1>0, <2>2, OthersMakeNone
  <2> QED BY <2>1, <2>2
<1> DEFINE Rest ==
             /\ tokens' \in [Values -> 0 .. Burst] /\ pc' \in [Requests -> {"idle", "create", "ask"}]
             /\ client' \in [Requests -> Keys] /\ elapsed' \in 0 .. MaxTicks /\ allowed' \in [Keys -> Nat]
<1>6. Rest
  <2>1. ASSUME NEW r \in Requests, Arrive(r) PROVE Rest
    BY <1>0, <2>1 DEF Arrive, Goto
  <2>2. ASSUME NEW r \in Requests, Create(r) PROVE Rest
    BY <1>0, <2>2 DEF Create, Goto
  <2>3. ASSUME NEW r \in Requests, Ask(r) PROVE Rest
    <3>1. CASE tokens[bucket[r]] > 0
      <4>0. bucket[r] \in Values
        <5>1. Cardinality(Values) \in Nat
          BY LimiterAssumption, FS_CardinalityType DEF LimiterAssumption
        <5>2. bucket[r] \in 1 .. Cardinality(Values)
          BY <1>0, <2>3, <5>1 DEF Ask
        <5> QED BY <5>2, LimiterAssumption DEF LimiterAssumption
      <4>1. tokens' = [tokens EXCEPT ![bucket[r]] = @ - 1]
        BY <2>3, <3>1 DEF Ask
      <4>2. tokens[bucket[r]] - 1 \in 0 .. Burst
        BY <1>0, <1>1, <3>1, <4>0
      <4>3. tokens' \in [Values -> 0 .. Burst]
        BY <1>0, <4>1, <4>2
      <4>4. allowed' \in [Keys -> Nat]
        <5>1. allowed' = [allowed EXCEPT ![client[r]] = @ + 1] /\ client[r] \in Keys
          BY <1>0, <2>3, <3>1 DEF Ask
        <5> QED BY <1>0, <5>1
      <4>5. pc' \in [Requests -> {"idle", "create", "ask"}] /\ UNCHANGED <<client, elapsed>>
        BY <1>0, <2>3 DEF Ask, Goto
      <4> QED BY <1>0, <4>3, <4>4, <4>5
    <3>2. CASE ~(tokens[bucket[r]] > 0)
      BY <1>0, <2>3, <3>2 DEF Ask, Goto
    <3> QED BY <3>1, <3>2
  <2>4. CASE Tick
    <3>1. tokens' \in [Values -> 0 .. Burst]
      BY <1>0, <1>1, <2>4 DEF Tick
    <3> QED BY <1>0, <1>1, <2>4, <3>1 DEF Tick
  <2>5. CASE Sweep \/ Close \/ (\E k \in Keys : Reset(k)) \/ UNCHANGED allVars
    BY <1>0, <2>5 DEF Sweep, Close, Reset, limVars, allVars
  <2> QED BY <2>1, <2>2, <2>3, <2>4, <2>5 DEF LimNext
<1> QED BY <1>2, <1>3, <1>4, <1>5, <1>6 DEF LimTypeOK

-----------------------------------------------------------------------------
\* Who is about to create a bucket: a request joins in by a miss, after which its client has
\* no entry, and leaves by creating it.
LEMMA PendingStep ==
    ASSUME LimTypeOK, [LimNext]_allVars, NEW k \in Keys
    PROVE  /\ (\A r \in Requests : ~Create(r)) /\ k \in DOMAIN cache' => Pending(k)' \subseteq Pending(k)
           /\ \A r \in Requests : Create(r) =>
                 /\ Pending(k)' = IF k = client[r] THEN Pending(k) \ {r} ELSE Pending(k)
                 /\ k = client[r] => r \in Pending(k) /\ k \in DOMAIN cache'
<1>0. pc \in [Requests -> {"idle", "create", "ask"}] /\ client \in [Requests -> Keys] /\ CacheTypeOK
  BY DEF LimTypeOK
<1>1. ASSUME NEW r \in Requests, Create(r)
      PROVE  /\ Pending(k)' = IF k = client[r] THEN Pending(k) \ {r} ELSE Pending(k)
             /\ k = client[r] => r \in Pending(k) /\ k \in DOMAIN cache'
  <2>1. /\ pc[r] = "create" /\ pc' = [pc EXCEPT ![r] = "ask"] /\ client' = client
        /\ CacheValue(client[r], created + 1)
    BY <1>1 DEF Create, Goto
  <2>2. client[r] \in DOMAIN cache'
    BY <2>1 DEF CacheValue, Put
  <2> QED BY <1>0, <2>1, <2>2 DEF Pending
<1>2. ASSUME \A r \in Requests : ~Create(r), k \in DOMAIN cache'
      PROVE  Pending(k)' \subseteq Pending(k)
  <2>1. ASSUME NEW r \in Requests, Arrive(r) PROVE Pending(k)' \subseteq Pending(k)
    <3>1. PICK j \in Keys :
            /\ client' = [client EXCEPT ![r] = j]
            /\ \/ GetHit(j) /\ Goto(r, "ask")
               \/ GetMiss(j) /\ Goto(r, "create")
      BY <2>1 DEF Arrive
    <3>2. CASE Goto(r, "ask")
      BY <1>0, <3>1, <3>2 DEF Goto, Pending
    <3>3. CASE GetMiss(j) /\ Goto(r, "create")
      <4>1. j \notin DOMAIN cache'
        BY <1>0, <3>3 DEF GetMiss, Drop, Restrict
      <4>2. j # k
        BY <1>2, <4>1
      <4> QED BY <1>0, <3>1, <3>3, <4>2 DEF Goto, Pending
    <3> QED BY <3>1, <3>2, <3>3
  <2>2. ASSUME NEW r \in Requests, Ask(r) PROVE Pending(k)' \subseteq Pending(k)
    BY <1>0, <2>2 DEF Ask, Goto, Pending
  <2>3. CASE Sweep \/ Close \/ Tick \/ (\E j \in Keys : Reset(j)) \/ UNCHANGED allVars
    BY <2>3 DEF Sweep, Close, Tick, Reset, limVars, allVars, Pending
  <2> QED BY <1>2, <2>1, <2>2, <2>3 DEF LimNext
<1> QED BY <1>1, <1>2

\* The losses pay for the buckets: a miss joins only while the client has no entry, and
\* at that time its buckets are paid for.
LEMMA LossesStep ==
    ASSUME LimTypeOK, LossesPay, [LimNext]_allVars
    PROVE  LossesPay'
<1> SUFFICES ASSUME NEW k \in Keys
             PROVE  IF k \in DOMAIN cache'
                    THEN Cardinality(Made(k)') + Cardinality(Pending(k)') <= Cardinality(Requests) * (1 + lost'[k])
                    ELSE Cardinality(Made(k)') <= Cardinality(Requests) * lost'[k]
  BY DEF LossesPay
<1> DEFINE n == Cardinality(Requests)
           m == Cardinality(Made(k))
           p == Cardinality(Pending(k))
           mm == Cardinality(Made(k)')
           pp == Cardinality(Pending(k)')
<1>1. m \in Nat /\ p \in Nat /\ p <= n /\ n \in Nat /\ IsFiniteSet(Made(k)) /\ IsFiniteSet(Pending(k))
  BY Countable
<1>2. pp \in Nat
  <2>1. Pending(k)' \subseteq Requests
    BY DEF Pending
  <2>2. IsFiniteSet(Pending(k)')
    BY <2>1, FS_Subset, LimiterAssumption DEF LimiterAssumption
  <2> QED BY <2>2, FS_CardinalityType
<1>3. lost[k] \in Nat /\ lost'[k] = IF k \in DOMAIN cache \ DOMAIN cache' THEN lost[k] + 1 ELSE lost[k]
  BY LossesCounted DEF LimTypeOK
<1>4. /\ k \in DOMAIN cache => m + p <= n * (1 + lost[k])
      /\ k \notin DOMAIN cache => m <= n * lost[k]
  BY DEF LossesPay
<1>5. n * lost[k] \in Nat /\ n * (1 + lost[k]) = n * lost[k] + n /\ n * (lost[k] + 1) = n * lost[k] + n
  BY <1>1, <1>3, Products
<1>6. CASE \E r \in Requests : Create(r)
  <2>1. PICK r \in Requests : Create(r)
    BY <1>6
  <2>2. CASE k = client[r]
    <3>1. Made(k)' = Made(k) \union {created + 1} /\ created + 1 \notin Made(k)
      BY <2>1, <2>2, CreateMakes
    <3>2. Pending(k)' = Pending(k) \ {r} /\ r \in Pending(k) /\ k \in DOMAIN cache'
      BY <2>1, <2>2, PendingStep
    <3>3. mm = m + 1
      BY <1>1, <3>1, FS_AddElement
    <3>4. pp = p - 1
      BY <1>1, <3>2, FS_RemoveElement
    <3> HIDE DEF m, p, mm, pp, n
    <3>5. lost'[k] = lost[k]
      BY <1>3, <3>2
    <3>6. m + p <= n * lost[k] + n
      BY <1>1, <1>4, <1>5
    <3>7. mm + pp <= n * (1 + lost'[k])
      BY <1>1, <1>5, <3>3, <3>4, <3>5, <3>6
    <3> QED BY <3>2, <3>7 DEF mm, pp, n
  <2>3. CASE k # client[r]
    <3>1. Made(k)' = Made(k)
      BY <2>1, <2>3, CreateMakes
    <3>2. Pending(k)' = Pending(k)
      BY <2>1, <2>3, PendingStep
    <3>3. k \in DOMAIN cache' => k \in DOMAIN cache
      <4>1. CacheValue(client[r], created + 1) /\ client[r] \in Keys
        BY <2>1 DEF Create, LimTypeOK
      <4> QED BY <2>3, <4>1, StoreAdds
    <3>4. mm = m /\ pp = p
      BY <3>1, <3>2
    <3> HIDE DEF m, p, mm, pp, n
    <3>5. CASE k \in DOMAIN cache'
      BY <1>1, <1>3, <1>4, <1>5, <3>3, <3>4, <3>5 DEF mm, pp, n
    <3>6. CASE k \notin DOMAIN cache'
      <4>1. mm <= n * lost'[k]
        BY <1>1, <1>3, <1>4, <1>5, <3>4, <3>6
      <4> QED BY <3>6, <4>1 DEF mm, n
    <3> QED BY <3>5, <3>6
  <2> QED BY <2>2, <2>3
<1>7. CASE \A r \in Requests : ~Create(r)
  <2>1. mm = m
    BY <1>7, OthersMakeNone
  <2>2. k \in DOMAIN cache' => k \in DOMAIN cache
    BY <1>7, OthersStoreNone
  <2>3. k \in DOMAIN cache' => pp <= p
    BY <1>1, <1>7, PendingStep, FS_Subset
  <2> HIDE DEF m, p, mm, pp, n
  <2>4. CASE k \in DOMAIN cache'
    <3>1. mm + pp <= n * (1 + lost'[k])
      BY <1>1, <1>2, <1>3, <1>4, <1>5, <2>1, <2>2, <2>3, <2>4
    <3> QED BY <2>4, <3>1 DEF mm, pp, n
  <2>5. CASE k \notin DOMAIN cache'
    <3>1. mm <= n * lost'[k]
      BY <1>1, <1>2, <1>3, <1>4, <1>5, <2>1, <2>5
    <3> QED BY <2>5, <3>1 DEF mm, n
  <2> QED BY <2>4, <2>5
<1> QED BY <1>6, <1>7

-----------------------------------------------------------------------------
\* A request that is let through takes one token out of its own client's buckets.
LEMMA AskTakes ==
    ASSUME LimTypeOK, OneClient, NEW r \in Requests, Ask(r), tokens[bucket[r]] > 0, NEW k \in Keys
    PROVE  LET t == <<bucket[r], tokens[bucket[r]]>>
           IN  /\ k = client[r] => t \in Unused(k) /\ Unused(k)' = Unused(k) \ {t}
               /\ k # client[r] => Unused(k)' = Unused(k)
<1> DEFINE b == bucket[r]
<1>1. Cardinality(Values) \in Nat /\ Burst \in Nat
  BY LimiterAssumption, FS_CardinalityType DEF LimiterAssumption
<1>2. b \in 1 .. created /\ madeFor[b] = client[r] /\ DOMAIN madeFor = 1 .. created
  BY <1>1 DEF LimTypeOK, OneClient, Ask
<1>3. b \in Values
  <2>1. b \in 1 .. Cardinality(Values)
    BY <1>1, <1>2 DEF LimTypeOK
  <2> QED BY <2>1, LimiterAssumption DEF LimiterAssumption
<1>4. tokens \in [Values -> 0 .. Burst] /\ tokens' = [tokens EXCEPT ![b] = @ - 1] /\ madeFor' = madeFor
  BY DEF Ask, LimTypeOK
<1>5. tokens[b] \in 1 .. Burst
  BY <1>1, <1>3, <1>4
<1>6. b \in Made(k) <=> k = client[r]
  BY <1>2 DEF Made
<1>7. Made(k)' = Made(k)
  BY <1>4 DEF Made
<1>8. \A q \in Values \X (1 .. Burst) :
        q[2] <= tokens'[q[1]] <=> q[2] <= tokens[q[1]] /\ q # <<b, tokens[b]>>
  <2> SUFFICES ASSUME NEW v \in Values, NEW i \in 1 .. Burst
               PROVE  i <= tokens'[v] <=> i <= tokens[v] /\ <<v, i>> # <<b, tokens[b]>>
    OBVIOUS
  <2>1. CASE v = b
    BY <1>1, <1>3, <1>4, <1>5, <2>1
  <2>2. CASE v # b
    BY <1>3, <1>4, <2>2
  <2> QED BY <2>1, <2>2
<1>9. ASSUME k = client[r] PROVE <<b, tokens[b]>> \in Unused(k)
  BY <1>1, <1>3, <1>5, <1>6, <1>9 DEF Unused
<1>10. Unused(k)' = {q \in Values \X (1 .. Burst) : q[1] \in Made(k) /\ q[2] <= tokens'[q[1]]}
  BY <1>7 DEF Unused
<1>11. ASSUME k = client[r] PROVE Unused(k)' = Unused(k) \ {<<b, tokens[b]>>}
  BY <1>8, <1>10 DEF Unused
<1>12. ASSUME k # client[r] PROVE Unused(k)' = Unused(k)
  <2>1. \A q \in Values \X (1 .. Burst) : q[1] \in Made(k) => q # <<b, tokens[b]>>
    BY <1>6, <1>12
  <2> QED BY <1>8, <1>10, <2>1 DEF Unused
<1> QED BY <1>9, <1>11, <1>12

\* A unit of time adds at most one token to each bucket of a client.
LEMMA TickAdds ==
    ASSUME LimTypeOK, Tick, NEW k \in Keys
    PROVE  Cardinality(Unused(k)') <= Cardinality(Unused(k)) + Cardinality(Made(k))
<1>1. Burst \in Nat
  BY LimiterAssumption DEF LimiterAssumption
<1>2. /\ tokens \in [Values -> 0 .. Burst] /\ madeFor' = madeFor
      /\ tokens' = [v \in Values |-> IF tokens[v] < Burst THEN tokens[v] + 1 ELSE Burst]
  BY DEF Tick, LimTypeOK
<1>3. Made(k)' = Made(k)
  BY <1>2 DEF Made
<1> DEFINE f == [v \in Made(k) |-> <<v, tokens[v] + 1>>]
           New == {f[v] : v \in Made(k)}
<1>4. f \in Surjection(Made(k), New)
  BY DEF Surjection
<1>5. IsFiniteSet(Made(k)) /\ IsFiniteSet(Unused(k)) /\ Cardinality(Unused(k)) \in Nat
  BY Countable
<1>6. IsFiniteSet(New) /\ Cardinality(New) <= Cardinality(Made(k))
  BY <1>4, <1>5, FS_Surjection
<1>7. Unused(k)' \subseteq Unused(k) \union New
  <2> SUFFICES ASSUME NEW v \in Values, NEW i \in 1 .. Burst, v \in Made(k), i <= tokens'[v]
               PROVE  <<v, i>> \in Unused(k) \/ <<v, i>> = f[v]
    BY <1>3 DEF Unused
  <2>1. i <= tokens[v] \/ i = tokens[v] + 1
    BY <1>1, <1>2
  <2> QED BY <2>1 DEF Unused
<1> HIDE DEF New, f
<1>8. IsFiniteSet(Unused(k) \union New)
      /\ Cardinality(Unused(k) \union New) = Cardinality(Unused(k)) + Cardinality(New) - Cardinality(Unused(k) \cap New)
  BY <1>5, <1>6, FS_Union
<1>9. IsFiniteSet(Unused(k) \cap New)
  BY <1>5, FS_Intersection
<1>10. Cardinality(Unused(k)') <= Cardinality(Unused(k) \union New) /\ IsFiniteSet(Unused(k)')
  BY <1>7, <1>8, FS_Subset
<1>11. /\ Cardinality(New) \in Nat /\ Cardinality(Unused(k) \cap New) \in Nat /\ Cardinality(Unused(k)') \in Nat
       /\ Cardinality(Made(k)) \in Nat
  BY <1>5, <1>6, <1>9, <1>10, FS_CardinalityType
<1> QED BY <1>5, <1>6, <1>8, <1>10, <1>11

\* A new bucket brings its client at most a burst.
LEMMA CreateBrings ==
    ASSUME LimTypeOK, NEW r \in Requests, Create(r), NEW k \in Keys
    PROVE  /\ k = client[r] => Cardinality(Unused(k)') <= Cardinality(Unused(k)) + Burst
           /\ k # client[r] => Unused(k)' = Unused(k)
<1>1. Burst \in Nat
  BY LimiterAssumption DEF LimiterAssumption
<1>2. tokens' = tokens
  BY DEF Create
<1>3. Made(k)' = IF k = client[r] THEN Made(k) \union {created + 1} ELSE Made(k)
  BY CreateMakes
<1>4. ASSUME k # client[r] PROVE Unused(k)' = Unused(k)
  BY <1>2, <1>3, <1>4 DEF Unused
<1>5. ASSUME k = client[r] PROVE Cardinality(Unused(k)') <= Cardinality(Unused(k)) + Burst
  <2> DEFINE f == [i \in 1 .. Burst |-> <<created + 1, i>>]
             New == {f[i] : i \in 1 .. Burst}
  <2>1. f \in Surjection(1 .. Burst, New)
    BY DEF Surjection
  <2>2. IsFiniteSet(1 .. Burst) /\ Cardinality(1 .. Burst) = Burst
    BY <1>1, FS_Interval
  <2>3. IsFiniteSet(New) /\ Cardinality(New) <= Burst
    BY <2>1, <2>2, FS_Surjection
  <2>4. Unused(k)' \subseteq Unused(k) \union New
    BY <1>2, <1>3, <1>5 DEF Unused
  <2> HIDE DEF New, f
  <2>5. IsFiniteSet(Unused(k)) /\ Cardinality(Unused(k)) \in Nat
    BY Countable
  <2>6. IsFiniteSet(Unused(k) \union New)
        /\ Cardinality(Unused(k) \union New) = Cardinality(Unused(k)) + Cardinality(New) - Cardinality(Unused(k) \cap New)
    BY <2>3, <2>5, FS_Union
  <2>7. IsFiniteSet(Unused(k) \cap New)
    BY <2>5, FS_Intersection
  <2>8. Cardinality(Unused(k)') <= Cardinality(Unused(k) \union New) /\ IsFiniteSet(Unused(k)')
    BY <2>4, <2>6, FS_Subset
  <2>9. /\ Cardinality(New) \in Nat /\ Cardinality(Unused(k) \cap New) \in Nat /\ Cardinality(Unused(k)') \in Nat
    BY <2>3, <2>7, <2>8, FS_CardinalityType
  <2> QED BY <1>1, <2>3, <2>5, <2>6, <2>8, <2>9
<1> QED BY <1>4, <1>5

\* The tokens pay for what is let through.
LEMMA TokensStep ==
    ASSUME LimTypeOK, OneClient, TokensPay, [LimNext]_allVars
    PROVE  TokensPay'
<1> SUFFICES ASSUME NEW k \in Keys
             PROVE  allowed'[k] + Cardinality(Unused(k)') <= Cardinality(Made(k)') * (Burst + elapsed')
  BY DEF TokensPay
<1> DEFINE m == Cardinality(Made(k))
           u == Cardinality(Unused(k))
           mm == Cardinality(Made(k)')
           uu == Cardinality(Unused(k)')
           s == Burst + elapsed
<1>1. m \in Nat /\ u \in Nat /\ IsFiniteSet(Made(k)) /\ IsFiniteSet(Unused(k))
  BY Countable
<1>2. Burst \in Nat /\ elapsed \in Nat /\ allowed \in [Keys -> Nat] /\ s \in Nat
  BY LimiterAssumption DEF LimiterAssumption, LimTypeOK
<1>3. uu \in Nat
  <2>1. Unused(k)' \subseteq Values \X (1 .. Burst)
    BY DEF Unused
  <2>2. IsFiniteSet(1 .. Burst) /\ IsFiniteSet(Values)
    BY <1>2, FS_Interval, LimiterAssumption DEF LimiterAssumption
  <2>3. IsFiniteSet(Values \X (1 .. Burst))
    BY ONLY <2>2, FS_Product
  <2>4. IsFiniteSet(Unused(k)')
    BY <2>1, <2>3, FS_Subset
  <2> QED BY <2>4, FS_CardinalityType
<1>4. allowed[k] + u <= m * s
  BY DEF TokensPay
<1>5. m * s \in Nat /\ m * (1 + s) = m * s + m /\ (m + 1) * s = m * s + s
  BY <1>1, <1>2, Products
<1>6. ASSUME NEW r \in Requests, Create(r) PROVE allowed'[k] + uu <= mm * (Burst + elapsed')
  <2>1. allowed' = allowed /\ elapsed' = elapsed
    BY <1>6 DEF Create
  <2>2. CASE k = client[r]
    <3>1. Made(k)' = Made(k) \union {created + 1} /\ created + 1 \notin Made(k)
      BY <1>6, <2>2, CreateMakes
    <3>2. mm = m + 1
      BY <1>1, <3>1, FS_AddElement
    <3>3. uu <= u + Burst
      BY <1>6, <2>2, CreateBrings
    <3> HIDE DEF m, u, mm, uu
    <3>4. allowed[k] + uu <= m * s + s
      BY <1>1, <1>2, <1>3, <1>4, <1>5, <3>3
    <3>5. mm * s = m * s + s
      BY <1>5, <3>2
    <3> QED BY <2>1, <3>4, <3>5
  <2>3. CASE k # client[r]
    <3>1. mm = m /\ uu = u
      BY <1>6, <2>3, CreateMakes, CreateBrings
    <3> QED BY <1>4, <2>1, <3>1
  <2> QED BY <2>2, <2>3
<1>7. ASSUME NEW r \in Requests, Ask(r) PROVE allowed'[k] + uu <= mm * (Burst + elapsed')
  <2>1. mm = m /\ elapsed' = elapsed
    BY <1>7 DEF Ask, Made
  <2>2. CASE tokens[bucket[r]] > 0
    <3>1. allowed' = [allowed EXCEPT ![client[r]] = @ + 1]
      BY <1>7, <2>2 DEF Ask
    <3>2. CASE k = client[r]
      <4>1. PICK t : t \in Unused(k) /\ Unused(k)' = Unused(k) \ {t}
        BY <1>7, <2>2, <3>2, AskTakes
      <4>2. uu = u - 1
        BY <1>1, <4>1, FS_RemoveElement
      <4>3. allowed'[k] = allowed[k] + 1
        BY <1>2, <3>1, <3>2
      <4> HIDE DEF m, u, mm, uu
      <4> QED BY <1>1, <1>2, <1>4, <1>5, <2>1, <4>2, <4>3
    <3>3. CASE k # client[r]
      <4>1. uu = u
        BY <1>7, <2>2, <3>3, AskTakes
      <4>2. allowed'[k] = allowed[k]
        BY <1>2, <3>1, <3>3
      <4> QED BY <1>4, <2>1, <4>1, <4>2
    <3> QED BY <3>2, <3>3
  <2>3. CASE ~(tokens[bucket[r]] > 0)
    <3>1. UNCHANGED <<tokens, allowed, madeFor>>
      BY <1>7, <2>3 DEF Ask
    <3>2. uu = u
      BY <3>1 DEF Unused, Made
    <3> QED BY <1>4, <2>1, <3>1, <3>2
  <2> QED BY <2>2, <2>3
<1>8. ASSUME Tick PROVE allowed'[k] + uu <= mm * (Burst + elapsed')
  <2>1. allowed' = allowed /\ elapsed' = elapsed + 1 /\ madeFor' = madeFor
    BY <1>8 DEF Tick
  <2>2. mm = m
    BY <2>1 DEF Made
  <2>3. uu <= u + m
    BY <1>8, TickAdds
  <2> HIDE DEF m, u, mm, uu
  <2>4. allowed[k] + uu <= m * s + m
    BY <1>1, <1>2, <1>3, <1>4, <1>5, <2>3
  <2>5. Burst + elapsed' = 1 + s
    BY <1>2, <2>1
  <2> QED BY <1>5, <2>1, <2>2, <2>4, <2>5
<1>9. ASSUME UNCHANGED <<tokens, madeFor, allowed, elapsed>>
      PROVE  allowed'[k] + uu <= mm * (Burst + elapsed')
  <2>1. mm = m /\ uu = u
    BY <1>9 DEF Unused, Made
  <2> QED BY <1>4, <1>9, <2>1
<1>10. CASE \/ Sweep \/ Close \/ UNCHANGED allVars
            \/ \E j \in Keys : Reset(j)
            \/ \E r \in Requests : Arrive(r)
  BY <1>9, <1>10 DEF Sweep, Close, Reset, Arrive, limVars, allVars
<1> QED BY <1>6, <1>7, <1>8, <1>10 DEF LimNext

-----------------------------------------------------------------------------
\* At the start there is no bucket, no entry and no request.
LEMMA LimiterInit == LimInit => LimiterInv
<1> SUFFICES ASSUME LimInit PROVE LimiterInv
  OBVIOUS
<1>1. Cardinality(Values) \in Nat /\ Cardinality(Requests) \in Nat /\ Burst \in Nat /\ MaxTicks \in Nat
  BY LimiterAssumption, FS_CardinalityType DEF LimiterAssumption
<1>2. CacheTypeOK /\ CapacityBound
  BY BoundInit DEF LimInit
<1>3. madeFor = [v \in {} |-> 0] /\ created = 0
  BY DEF LimInit
<1>4. madeFor \in [1 .. created -> Keys]
  BY <1>3
<1>5. /\ tokens \in [Values -> 0 .. Burst] /\ pc \in [Requests -> {"idle", "create", "ask"}]
      /\ client \in [Requests -> Keys] /\ allowed \in [Keys -> Nat] /\ lost \in [Keys -> Nat]
      /\ created \in 0 .. Cardinality(Values) /\ elapsed \in 0 .. MaxTicks
      /\ bucket \in [Requests -> 0 .. created]
      /\ \A r \in Requests : pc[r] # "ask"
  BY <1>1 DEF LimInit
<1>6. LimTypeOK
  BY <1>2, <1>4, <1>5 DEF LimTypeOK
<1>7. OneClient
  BY <1>5 DEF OneClient, LimInit, NewCache
<1>8. \A k \in Keys : Made(k) = {} /\ Unused(k) = {}
  BY <1>3 DEF Made, Unused
<1>9. Cardinality({}) = 0
  BY FS_EmptySet
<1>10. LossesPay
  <2>1. \A k \in Keys : k \notin DOMAIN cache /\ lost[k] = 0 /\ Cardinality(Made(k)) = 0
    BY <1>8, <1>9 DEF LimInit, NewCache
  <2>2. 0 <= Cardinality(Requests) * 0
    BY <1>1
  <2> QED BY <2>1, <2>2 DEF LossesPay
<1>11. TokensPay
  <2>1. \A k \in Keys : allowed[k] = 0 /\ Cardinality(Made(k)) = 0 /\ Cardinality(Unused(k)) = 0
    BY <1>8, <1>9 DEF LimInit
  <2>2. 0 + 0 <= 0 * (Burst + elapsed)
    BY <1>1, <1>5
  <2> QED BY <2>1, <2>2 DEF TokensPay
<1> QED BY <1>2, <1>6, <1>7, <1>10, <1>11 DEF LimiterInv

\* Every step keeps the invariant.
LEMMA LimiterStep == LimiterInv /\ [LimNext]_allVars => LimiterInv'
BY LimTypeStep, LimiterCacheStep, OneClientStep, LossesStep, TokensStep DEF LimiterInv

\* The invariant bounds the buckets by the losses, and what is let through by the buckets.
LEMMA LimiterBounds == LimiterInv => LimiterSound
<1> SUFFICES ASSUME LimiterInv PROVE LimiterSound
  OBVIOUS
<1> USE DEF LimiterInv
<1>1. ASSUME NEW k \in Keys PROVE Cardinality(Made(k)) <= Cardinality(Requests) * (1 + lost[k])
  <2>1. /\ Cardinality(Made(k)) \in Nat /\ Cardinality(Pending(k)) \in Nat
        /\ Cardinality(Requests) \in Nat /\ lost[k] \in Nat
    BY Countable DEF LimTypeOK
  <2>2. /\ Cardinality(Requests) * lost[k] \in Nat
        /\ Cardinality(Requests) * (1 + lost[k]) = Cardinality(Requests) * lost[k] + Cardinality(Requests)
    BY <2>1, Products
  <2>3. \/ Cardinality(Made(k)) + Cardinality(Pending(k)) <= Cardinality(Requests) * (1 + lost[k])
        \/ Cardinality(Made(k)) <= Cardinality(Requests) * lost[k]
    BY DEF LossesPay
  <2> QED BY <2>1, <2>2, <2>3
<1>2. ASSUME NEW k \in Keys PROVE allowed[k] <= Cardinality(Made(k)) * (Burst + elapsed)
  <2>1. /\ Cardinality(Made(k)) \in Nat /\ Cardinality(Unused(k)) \in Nat /\ allowed[k] \in Nat
        /\ Burst + elapsed \in Nat
    BY Countable, LimiterAssumption DEF LimTypeOK, LimiterAssumption
  <2>2. Cardinality(Made(k)) * (Burst + elapsed) \in Nat
    BY <2>1, Products
  <2>3. allowed[k] + Cardinality(Unused(k)) <= Cardinality(Made(k)) * (Burst + elapsed)
    BY DEF TokensPay
  <2> QED BY <2>1, <2>2, <2>3
<1> QED BY <1>1, <1>2 DEF LimiterSound, BucketsAccountedFor, AllowedWithinBuckets

\* The inductive invariant of the limiter holds in every reachable state.
THEOREM LimiterInvCorrect == LimSpec => []LimiterInv
BY LimiterInit, LimiterStep, PTL DEF LimSpec

\* For any number of clients, of requests at once and of entries: what allowClient lets
\* through is bounded by the client's buckets, each with its burst and one token per unit
\* of time, and the client gets no more buckets than misses at once and losses of its entry.
THEOREM LimiterSoundCorrect == LimSpec => []LimiterSound
BY LimiterInvCorrect, LimiterBounds, PTL
=============================================================================
