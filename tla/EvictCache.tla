----------------------------- MODULE EvictCache -----------------------------
(***************************************************************************)
(* util.Cache (internal/util/evict_cache.go): the bounded cache with an    *)
(* idle timeout behind the rate limiter, the honeypot, the user agent      *)
(* blocker, the country filter and the API keys.                           *)
(*                                                                         *)
(* Every method holds c.mu from its first read to its last write and is    *)
(* one action.  An entry carries the time since its last Touch, which is   *)
(* all that GetLastReadAt is used for; past the TTL ages are not told      *)
(* apart, so among several expired entries evictOldest may take any.       *)
(***************************************************************************)
EXTENDS Integers, FiniteSets, Functions

CONSTANTS
    Keys,
    Values,
    MaxEntries, \* options.MaxEntries, which nothing validates
    Ttl         \* options.TTL

ASSUME CacheAssumption ==
    /\ IsFiniteSet(Keys)
    /\ MaxEntries \in Int
    /\ Ttl \in Nat

VARIABLES
    cache,  \* c.cache: the keys present, each with its value and its idle time
    open    \* c.ctx is not cancelled

cacheVars == <<cache, open>>

Entry == [value : Values, idle : 0 .. Ttl + 1]

Fresh(v) == [value |-> v, idle |-> 0]
Expired(e) == e.idle > Ttl

Put(c, k, e) == [x \in DOMAIN c \union {k} |-> IF x = k THEN e ELSE c[x]]
Drop(c, ks) == Restrict(c, DOMAIN c \ ks)

\* The keys that evictOldest may find: map iteration is unordered.
Oldest(c) == {k \in DOMAIN c : \A j \in DOMAIN c : c[j].idle <= c[k].idle}

-----------------------------------------------------------------------------
NewCache ==
    /\ cache = [k \in {} |-> 0]
    /\ open = TRUE

\* Mutant: the check for a full cache is off by one.
Overfull == IF Cardinality(DOMAIN cache) > MaxEntries
            THEN {Drop(cache, {k}) : k \in Oldest(cache)}
            ELSE {cache}

\* Mutant: the key touched last is evicted.
EvictedNewest ==
    IF Cardinality(DOMAIN cache) >= MaxEntries /\ DOMAIN cache # {}
    THEN {Drop(cache, {k}) : k \in {j \in DOMAIN cache : \A i \in DOMAIN cache :
                                        cache[j].idle <= cache[i].idle}}
    ELSE {cache}

\* evictOldest, when the cache is full; whether the key that is about to be
\* stored is present already makes no difference.
Evicted ==
    IF Cardinality(DOMAIN cache) >= MaxEntries /\ DOMAIN cache # {}
    THEN {Drop(cache, {k}) : k \in Oldest(cache)}
    ELSE {cache}

CacheValue(k, v) ==
    /\ \E c \in Evicted : cache' = Put(c, k, Fresh(v))
    /\ UNCHANGED open

GetHit(k) ==
    /\ k \in DOMAIN cache /\ ~Expired(cache[k])
    /\ cache' = [cache EXCEPT ![k].idle = 0]
    /\ UNCHANGED open

GetMiss(k) ==
    /\ k \in DOMAIN cache => Expired(cache[k])
    /\ cache' = Drop(cache, {k})
    /\ UNCHANGED open

\* Evict and DeleteEntry differ only in what they report.
Evict(k) == cache' = Drop(cache, {k}) /\ UNCHANGED open

sweep ==
    /\ open
    /\ cache' = Drop(cache, {k \in DOMAIN cache : Expired(cache[k])})
    /\ UNCHANGED open

\* The chain's context is cancelled and the cleanup goroutine ends (close).
close == open /\ open' = FALSE /\ UNCHANGED cache

\* External: time passes.
Idler(e) == IF e.idle <= Ttl THEN [e EXCEPT !.idle = @ + 1] ELSE e
Aged == [k \in DOMAIN cache |-> Idler(cache[k])]
CacheTick == cache' = Aged /\ UNCHANGED open

CacheNext ==
    \/ \E k \in Keys : \/ \E v \in Values : CacheValue(k, v)
                       \/ GetHit(k) \/ GetMiss(k) \/ Evict(k)
    \/ sweep
    \/ close
    \/ CacheTick

\* The cache as its users see it: any sequence of its operations.  A user whose
\* specification implies this one touches the cache only through them.
CacheSpec == NewCache /\ [][CacheNext]_cacheVars

\* The cleanup goroutine's ticker fires, and time passes.
CacheFairSpec == CacheSpec /\ WF_cacheVars(sweep) /\ WF_cacheVars(CacheTick)

-----------------------------------------------------------------------------
\* The types of the cache: entries under known keys, ages up to the TTL and beyond it.
CacheTypeOK ==
    /\ DOMAIN cache \subseteq Keys
    /\ cache \in [DOMAIN cache -> Entry]
    /\ open \in BOOLEAN

\* The cache never holds more than max-cache-size entries, or one when that is zero
\* or negative: CacheValue makes room before it stores (evict_cache.go:150).
Capacity == IF MaxEntries < 1 THEN 1 ELSE MaxEntries
CapacityBound == Cardinality(DOMAIN cache) <= Capacity

\* Storing a value costs no entry that was used later than one that stays: when
\* CacheValue(k) drops a key, nothing it keeps has been idle for longer.
LeastRecentlyUsed ==
    [][\A k \in Keys, v \in Values : CacheValue(k, v) =>
         \A gone \in DOMAIN cache \ DOMAIN cache', kept \in DOMAIN cache \cap DOMAIN cache' :
            kept # k => cache[kept].idle <= cache[gone].idle]_cacheVars

\* An entry that nobody touches does not stay for ever while the chain lives: it is
\* removed at the latest by the first sweep after its TTL.
IdleLeaves ==
    \A k \in Keys :
        (k \in DOMAIN cache /\ cache[k].idle > 0)
        ~> (k \notin DOMAIN cache \/ cache[k].idle = 0 \/ ~open)

\* What leaves the cache is what is idle: at the limit the entry idle longest,
\* and in time every entry that nobody asks for.
EvictsIdle == []CacheTypeOK /\ LeastRecentlyUsed /\ IdleLeaves
=============================================================================
