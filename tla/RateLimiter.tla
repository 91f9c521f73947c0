----------------------------- MODULE RateLimiter -----------------------------
(***************************************************************************)
(* The per-client rate limiter (internal/ratelimit/limiter.go) on top of   *)
(* EvictCache, whose values are token buckets (golang.org/x/time/rate).    *)
(*                                                                         *)
(* allowClient looks its bucket up, stores a new one when there is none,   *)
(* and then asks it: three steps, each under a lock of its own, between    *)
(* which other requests of the client, a sweep or an eviction may come.    *)
(***************************************************************************)
EXTENDS EvictCache

CONSTANTS
    Requests,  \* goroutines serving requests, reused one request after another
    Burst,     \* burst
    MaxTicks   \* bound: units of time, in each of which a bucket gains one token

ASSUME LimiterAssumption ==
    /\ IsFiniteSet(Requests)
    /\ IsFiniteSet(Values)
    /\ Values = 1 .. Cardinality(Values)   \* bound: buckets that are created
    /\ Burst \in Nat \ {0}
    /\ MaxTicks \in Nat

VARIABLES
    tokens,   \* the tokens in each bucket
    created,  \* buckets created so far
    pc,       \* the next step of each request
    client,   \* its client IP
    bucket,   \* its entry.limiter
    elapsed,  \* history: units of time that have passed
    allowed,  \* history: requests let through, per client
    madeFor,    \* history: the client each bucket was created for
    lost      \* history: how often the client's entry left the cache or was replaced

limVars == <<tokens, created, pc, client, bucket, elapsed, allowed, madeFor, lost>>
allVars == <<cacheVars, limVars>>

\* History: the clients whose entry a step removes from the cache.
CountLost ==
    lost' = [k \in Keys |-> IF k \in DOMAIN cache \ DOMAIN cache' THEN lost[k] + 1 ELSE lost[k]]

Goto(r, l) == pc' = [pc EXCEPT ![r] = l]

-----------------------------------------------------------------------------
LimInit ==
    /\ NewCache
    /\ tokens = [v \in Values |-> Burst]
    /\ created = 0
    /\ pc = [r \in Requests |-> "idle"]
    /\ client \in [Requests -> Keys]
    /\ bucket = [r \in Requests |-> 0]
    /\ elapsed = 0
    /\ allowed = [k \in Keys |-> 0]
    /\ madeFor = [v \in {} |-> 0]
    /\ lost = [k \in Keys |-> 0]

\* allowClient: clientCache.GetValue.
Arrive(r) ==
    /\ pc[r] = "idle"
    /\ \E k \in Keys :
        /\ client' = [client EXCEPT ![r] = k]
        /\ \/ GetHit(k) /\ Goto(r, "ask") /\ bucket' = [bucket EXCEPT ![r] = cache[k].value]
           \/ GetMiss(k) /\ Goto(r, "create") /\ UNCHANGED bucket
    /\ CountLost
    /\ UNCHANGED <<tokens, created, elapsed, allowed, madeFor>>

\* Mutant: the entry is put into the map without making room for it.
CreateUnbounded(r) ==
    /\ pc[r] = "create"
    /\ created < Cardinality(Values)
    /\ cache' = Put(cache, client[r], Fresh(created + 1))
    /\ created' = created + 1
    /\ bucket' = [bucket EXCEPT ![r] = created + 1]
    /\ madeFor' = Put(madeFor, created + 1, client[r])
    /\ CountLost
    /\ Goto(r, "ask")
    /\ UNCHANGED <<open, tokens, client, elapsed, allowed>>

\* A full bucket of its own, stored in the place of whatever is there by now.
Create(r) ==
    /\ pc[r] = "create"
    /\ created < Cardinality(Values)
    /\ CacheValue(client[r], created + 1)
    /\ created' = created + 1
    /\ bucket' = [bucket EXCEPT ![r] = created + 1]
    /\ madeFor' = Put(madeFor, created + 1, client[r])
    /\ CountLost
    /\ Goto(r, "ask")
    /\ UNCHANGED <<tokens, client, elapsed, allowed>>

\* Mutant: a request is let through and its token stays.
AskKeepsToken(r) ==
    /\ pc[r] = "ask"
    /\ tokens[bucket[r]] > 0
    /\ allowed' = [allowed EXCEPT ![client[r]] = @ + 1]
    /\ Goto(r, "idle")
    /\ UNCHANGED <<cacheVars, tokens, created, client, bucket, elapsed, madeFor, lost>>

\* limiter.Allow: let the request through, or answer 429.
Ask(r) ==
    /\ pc[r] = "ask"
    /\ IF tokens[bucket[r]] > 0
       THEN /\ tokens' = [tokens EXCEPT ![bucket[r]] = @ - 1]
            /\ allowed' = [allowed EXCEPT ![client[r]] = @ + 1]
       ELSE UNCHANGED <<tokens, allowed>>
    /\ Goto(r, "idle")
    /\ UNCHANGED <<cacheVars, created, client, bucket, elapsed, madeFor, lost>>

\* Reset, after a successful login.
Reset(k) ==
    /\ k \in DOMAIN cache
    /\ Evict(k)
    /\ CountLost
    /\ UNCHANGED <<tokens, created, pc, client, bucket, elapsed, allowed, madeFor>>

Sweep ==
    /\ sweep
    /\ CountLost
    /\ UNCHANGED <<tokens, created, pc, client, bucket, elapsed, allowed, madeFor>>

Close == close /\ UNCHANGED limVars

\* External: a unit of time passes; buckets fill up, entries grow older.
Tick ==
    /\ elapsed < MaxTicks
    /\ elapsed' = elapsed + 1
    /\ CacheTick
    /\ tokens' = [v \in Values |-> IF tokens[v] < Burst THEN tokens[v] + 1 ELSE Burst]
    /\ UNCHANGED <<created, pc, client, bucket, allowed, madeFor, lost>>

LimNext ==
    \/ \E r \in Requests : Arrive(r) \/ Create(r) \/ Ask(r)
    \/ \E k \in Keys : Reset(k)
    \/ Sweep
    \/ Close
    \/ Tick

LimSpec == LimInit /\ [][LimNext]_allVars

-----------------------------------------------------------------------------
\* The types of the buckets and of the requests: a request asks a bucket that exists.
LimTypeOK ==
    /\ CacheTypeOK
    /\ tokens \in [Values -> 0 .. Burst]
    /\ created \in 0 .. Cardinality(Values)
    /\ pc \in [Requests -> {"idle", "create", "ask"}]
    /\ client \in [Requests -> Keys]
    /\ bucket \in [Requests -> 0 .. created]
    /\ \A r \in Requests : pc[r] = "ask" => bucket[r] # 0
    /\ elapsed \in 0 .. MaxTicks
    /\ madeFor \in [1 .. created -> Keys]
    /\ allowed \in [Keys -> Nat] /\ lost \in [Keys -> Nat]

\* The buckets that were created for a client.
Made(k) == {v \in DOMAIN madeFor : madeFor[v] = k}

\* A client gets a second bucket only when requests of it miss at the same time or
\* its entry is gone: between two losses of the entry there are at most as many
\* buckets as requests run at once.  Lookups that hit never cost a client its
\* history.
BucketsAccountedFor ==
    \A k \in Keys : Cardinality(Made(k)) <= Cardinality(Requests) * (1 + lost[k])

\* What a client is let through never exceeds what its buckets can give: each its
\* burst and one request per unit of time, and no bucket serves two clients.
AllowedWithinBuckets ==
    \A k \in Keys : allowed[k] <= Cardinality(Made(k)) * (Burst + elapsed)

\* What a client is let through with is bounded by its buckets, and it has no
\* more of them than misses and losses of the cache account for.
LimiterSound == LimTypeOK /\ BucketsAccountedFor /\ AllowedWithinBuckets
=============================================================================
