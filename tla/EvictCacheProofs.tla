------------------------- MODULE EvictCacheProofs -------------------------
(***************************************************************************)
(* Proofs about EvictCache, for every set of keys, every max-cache-size    *)
(* and every TTL.                                                          *)
(***************************************************************************)
EXTENDS EvictCache, FiniteSetTheorems, TLAPS

\* A cache in the sense of the type invariant.
IsCache(c) == DOMAIN c \subseteq Keys /\ c \in [DOMAIN c -> Entry]

\* Dropping keys leaves a cache with the other keys.
LEMMA DropType ==
    ASSUME NEW c, IsCache(c), NEW ks
    PROVE  IsCache(Drop(c, ks)) /\ DOMAIN Drop(c, ks) = DOMAIN c \ ks
BY DEF IsCache, Drop, Restrict

\* Storing an entry leaves a cache with one more key, or the same keys.
LEMMA PutType ==
    ASSUME NEW c, IsCache(c), NEW k \in Keys, NEW e \in Entry
    PROVE  IsCache(Put(c, k, e)) /\ DOMAIN Put(c, k, e) = DOMAIN c \union {k}
BY DEF IsCache, Put

\* A fresh entry and an entry that grows older are entries.
LEMMA EntryType ==
    /\ \A v \in Values : Fresh(v) \in Entry
    /\ \A e \in Entry : Idler(e) \in Entry
BY CacheAssumption DEF Fresh, Idler, Entry, CacheAssumption

\* The keys of a cache are a finite set, and a part of them is no larger.
LEMMA CountKeys ==
    ASSUME NEW S, S \subseteq Keys
    PROVE  /\ IsFiniteSet(S)
           /\ Cardinality(S) \in Nat
           /\ \A T : T \subseteq S => IsFiniteSet(T) /\ Cardinality(T) <= Cardinality(S)
BY CacheAssumption, FS_Subset, FS_CardinalityType DEF CacheAssumption

\* evictOldest makes room for one entry: what CacheValue stores into has fewer keys
\* than the capacity, also when max-cache-size is not positive and the cache is empty.
LEMMA MakesRoom ==
    ASSUME CacheTypeOK, CapacityBound, NEW c \in Evicted
    PROVE  IsCache(c) /\ DOMAIN c \subseteq DOMAIN cache /\ Cardinality(DOMAIN c) <= Capacity - 1
<1> USE CacheAssumption DEF CacheAssumption, Capacity
<1>0. IsCache(cache)
  BY DEF CacheTypeOK, IsCache
<1>1. IsFiniteSet(DOMAIN cache) /\ Cardinality(DOMAIN cache) \in Nat
  BY CountKeys DEF CacheTypeOK
<1>2. CASE Cardinality(DOMAIN cache) >= MaxEntries /\ DOMAIN cache # {}
  <2>1. PICK k \in DOMAIN cache : c = Drop(cache, {k})
    BY <1>2 DEF Evicted, Oldest
  <2>2. IsCache(c) /\ DOMAIN c = DOMAIN cache \ {k}
    BY <2>1, <1>0, DropType
  <2>3. Cardinality(DOMAIN cache \ {k}) = Cardinality(DOMAIN cache) - 1
    BY <1>1, FS_RemoveElement
  <2>4. Cardinality(DOMAIN c) = Cardinality(DOMAIN cache) - 1
    BY <2>2, <2>3
  <2>5. DOMAIN c \subseteq DOMAIN cache
    BY <2>2
  <2>6. Cardinality(DOMAIN cache) - 1 <= Capacity - 1
    BY <1>1 DEF CapacityBound
  <2> QED BY <2>2, <2>4, <2>5, <2>6
<1>3. CASE ~(Cardinality(DOMAIN cache) >= MaxEntries /\ DOMAIN cache # {})
  <2>1. c = cache
    BY <1>3 DEF Evicted
  <2>2. CASE DOMAIN cache = {}
    <3>1. Cardinality(DOMAIN cache) = 0
      BY <2>2, FS_EmptySet
    <3> QED BY <1>0, <2>1, <3>1
  <2>3. CASE Cardinality(DOMAIN cache) < MaxEntries
    BY <1>0, <1>1, <2>1, <2>3
  <2> QED BY <1>1, <1>3, <2>2, <2>3
<1> QED BY <1>2, <1>3

\* Every operation but CacheValue keeps keys it had, with the values they had.
LEMMA OperationsKeep ==
    ASSUME CacheTypeOK, \/ \E k \in Keys : GetHit(k) \/ GetMiss(k) \/ Evict(k)
                        \/ sweep \/ CacheTick \/ close \/ UNCHANGED cacheVars
    PROVE  \A j \in DOMAIN cache' : j \in DOMAIN cache /\ cache'[j].value = cache[j].value
<1>0. cache \in [DOMAIN cache -> Entry]
  BY DEF CacheTypeOK
<1>1. CASE \E k \in Keys : GetHit(k)
  BY <1>0, <1>1 DEF GetHit, Entry
<1>2. CASE \E k \in Keys : GetMiss(k) \/ Evict(k)
  BY <1>0, <1>2 DEF GetMiss, Evict, Drop, Restrict
<1>3. CASE sweep
  BY <1>0, <1>3 DEF sweep, Drop, Restrict
<1>4. CASE CacheTick
  BY <1>0, <1>4 DEF CacheTick, Aged, Idler, Entry
<1>5. CASE close \/ UNCHANGED cacheVars
  BY <1>5 DEF close, cacheVars
<1> QED BY <1>1, <1>2, <1>3, <1>4, <1>5

\* CacheValue adds one key; what it keeps of the others has the value it had.
LEMMA StoreAdds ==
    ASSUME NEW k \in Keys, NEW v, CacheValue(k, v)
    PROVE  \A j \in DOMAIN cache' : \/ j = k /\ cache'[j].value = v
                                    \/ j \in DOMAIN cache /\ cache'[j].value = cache[j].value
<1>0. PICK c \in Evicted : cache' = Put(c, k, Fresh(v))
  BY DEF CacheValue
<1>1. \A j \in DOMAIN c : j \in DOMAIN cache /\ c[j] = cache[j]
  BY <1>0 DEF Evicted, Drop, Restrict
<1>2. DOMAIN cache' = DOMAIN c \union {k}
  BY <1>0 DEF Put
<1>3. \A j \in DOMAIN cache' : cache'[j] = IF j = k THEN Fresh(v) ELSE c[j]
  BY <1>0, <1>2 DEF Put
<1> QED BY <1>1, <1>2, <1>3 DEF Fresh

\* Every operation keeps the types and the bound.
LEMMA BoundStep ==
    CacheTypeOK /\ CapacityBound /\ [CacheNext]_cacheVars => CacheTypeOK' /\ CapacityBound'
<1> SUFFICES ASSUME CacheTypeOK, CapacityBound, [CacheNext]_cacheVars
             PROVE  CacheTypeOK' /\ CapacityBound'
  OBVIOUS
<1> USE CacheAssumption DEF CacheAssumption
<1>0. IsCache(cache) /\ open \in BOOLEAN /\ Capacity \in Int
  BY DEF CacheTypeOK, IsCache, Capacity
<1>1. ASSUME IsCache(cache'), DOMAIN cache' \subseteq DOMAIN cache, open' \in BOOLEAN
      PROVE  CacheTypeOK' /\ CapacityBound'
  <2>1. /\ Cardinality(DOMAIN cache) \in Nat /\ Cardinality(DOMAIN cache') \in Nat
        /\ Cardinality(DOMAIN cache') <= Cardinality(DOMAIN cache)
    BY <1>0, <1>1, CountKeys DEF IsCache
  <2>2. Cardinality(DOMAIN cache') <= Capacity
    BY <1>0, <2>1 DEF CapacityBound
  <2> QED BY <1>1, <2>2 DEF CacheTypeOK, CapacityBound, IsCache
<1>2. ASSUME NEW k \in Keys, NEW v \in Values, CacheValue(k, v)
      PROVE  CacheTypeOK' /\ CapacityBound'
  <2>1. PICK c \in Evicted : cache' = Put(c, k, Fresh(v))
    BY <1>2 DEF CacheValue
  <2>2. IsCache(c) /\ Cardinality(DOMAIN c) <= Capacity - 1
    BY MakesRoom
  <2>3. IsCache(cache') /\ DOMAIN cache' = DOMAIN c \union {k}
    BY <2>1, <2>2, PutType, EntryType
  <2>4. IsFiniteSet(DOMAIN c) /\ Cardinality(DOMAIN c) \in Nat
    BY <2>2, CountKeys DEF IsCache
  <2>5. \/ Cardinality(DOMAIN c \union {k}) = Cardinality(DOMAIN c)
        \/ Cardinality(DOMAIN c \union {k}) = Cardinality(DOMAIN c) + 1
    BY <2>4, FS_AddElement
  <2>6. Cardinality(DOMAIN cache') <= Capacity
    BY <1>0, <2>2, <2>3, <2>4, <2>5
  <2> QED BY <1>0, <1>2, <2>3, <2>6 DEF CacheTypeOK, CapacityBound, IsCache, CacheValue
<1>3. ASSUME NEW k \in Keys, GetHit(k) PROVE CacheTypeOK' /\ CapacityBound'
  <2>1. DOMAIN cache' = DOMAIN cache
    BY <1>3 DEF GetHit
  <2>2. cache' \in [DOMAIN cache -> Entry]
    BY <1>0, <1>3 DEF GetHit, IsCache, Entry
  <2>3. IsCache(cache') /\ DOMAIN cache' \subseteq DOMAIN cache
    BY <1>0, <2>1, <2>2 DEF IsCache
  <2>4. open' \in BOOLEAN
    BY <1>0, <1>3 DEF GetHit
  <2> QED BY <1>1, <2>3, <2>4
<1>4. ASSUME NEW k \in Keys, GetMiss(k) \/ Evict(k) PROVE CacheTypeOK' /\ CapacityBound'
  <2>1. cache' = Drop(cache, {k}) /\ open' = open
    BY <1>4 DEF GetMiss, Evict
  <2>2. IsCache(cache') /\ DOMAIN cache' = DOMAIN cache \ {k}
    BY <1>0, <2>1, DropType
  <2> QED BY <1>0, <1>1, <2>1, <2>2
<1>5. CASE sweep
  BY <1>0, <1>1, <1>5, DropType DEF sweep
<1>6. CASE close
  BY <1>0, <1>1, <1>6 DEF close
<1>7. CASE CacheTick
  <2>1. IsCache(Aged) /\ DOMAIN Aged = DOMAIN cache
    BY <1>0, EntryType DEF Aged, IsCache
  <2> QED BY <1>0, <1>1, <1>7, <2>1 DEF CacheTick
<1>8. CASE UNCHANGED cacheVars
  BY <1>0, <1>1, <1>8 DEF cacheVars
<1> QED BY <1>2, <1>3, <1>4, <1>5, <1>6, <1>7, <1>8 DEF CacheNext

\* A new cache is empty and open.
LEMMA BoundInit == NewCache => CacheTypeOK /\ CapacityBound
<1> SUFFICES ASSUME NewCache PROVE CacheTypeOK /\ CapacityBound
  OBVIOUS
<1>1. DOMAIN cache = {} /\ cache \in [DOMAIN cache -> Entry]
  BY DEF NewCache
<1>2. open \in BOOLEAN
  BY DEF NewCache
<1>3. Cardinality(DOMAIN cache) = 0
  BY <1>1, FS_EmptySet
<1> QED BY <1>1, <1>2, <1>3, CacheAssumption DEF CacheTypeOK, CapacityBound, Capacity, CacheAssumption

\* The cache never holds more than max-cache-size entries (one, when that is not
\* positive), for every size, every TTL and every sequence of operations.
THEOREM CapacityCorrect == CacheSpec => [](CacheTypeOK /\ CapacityBound)
BY BoundInit, BoundStep, PTL DEF CacheSpec

\* What CacheValue drops has been idle at least as long as anything it keeps.
LEMMA DropsOldest ==
    ASSUME NEW k \in Keys, NEW v \in Values, CacheValue(k, v),
           NEW gone \in DOMAIN cache \ DOMAIN cache', NEW kept \in DOMAIN cache \cap DOMAIN cache'
    PROVE  cache[kept].idle <= cache[gone].idle
<1>1. PICK c \in Evicted : cache' = Put(c, k, Fresh(v))
  BY DEF CacheValue
<1>2. DOMAIN cache' = DOMAIN c \union {k}
  BY <1>1 DEF Put
<1>3. c # cache
  BY <1>2
<1>4. PICK j \in Oldest(cache) : c = Drop(cache, {j})
  BY <1>3 DEF Evicted
<1>5. DOMAIN c = DOMAIN cache \ {j}
  BY <1>4 DEF Drop, Restrict
<1> QED BY <1>2, <1>4, <1>5 DEF Oldest

\* At its limit the cache gives up the entry that was idle longest, whatever its size and
\* whatever is stored (evictOldest): the safety half of EvictsIdle.
THEOREM LeastRecentlyUsedCorrect == CacheSpec => LeastRecentlyUsed
<1>1. [CacheNext]_cacheVars =>
        \A k \in Keys, v \in Values : CacheValue(k, v) =>
          \A gone \in DOMAIN cache \ DOMAIN cache', kept \in DOMAIN cache \cap DOMAIN cache' :
             kept # k => cache[kept].idle <= cache[gone].idle
  BY DropsOldest
<1> QED BY <1>1, PTL DEF CacheSpec, LeastRecentlyUsed
=============================================================================
