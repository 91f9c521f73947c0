------------------------------- MODULE Guards -------------------------------
(* The guards that remember clients: the honeypot, the user agent blocker and *)
(* the country filter (middleware/honeypot, ua, country).  Each keeps its     *)
(* decisions in an EvictCache, which may forget any of them at any time.      *)
(*                                                                            *)
(* The first two differ only in what trips them: they are one machine here,   *)
(* built for one of the configurations.                                       *)
EXTENDS Integers, Sequences, FiniteSets, SequencesExt

CONSTANTS
    Visitors,    \* client addresses
    NoAddress,   \* a RemoteAddr that is no address
    Lan,         \* lan-allow-list
    Visits,      \* goroutines serving requests
    GuardConfigs,\* configurations of a honeypot or user agent blocker
    Texts,       \* request paths, and the patterns that user agents contain
    Policies,    \* configurations of the country filter
    Atlases,     \* country databases: visitor |-> its record
    MaxAtlases   \* bound on the databases loaded

ASSUME GuardsAssumption ==
    /\ NoAddress \notin Visitors /\ Lan \subseteq Visitors
    /\ IsFiniteSet(Visits)
    /\ \A c \in GuardConfigs : c.maxSlow \in Int
    /\ \A p \in Policies : p.onUnknown \in BOOLEAN

VARIABLES
    guard,       \* the configuration, once built
    banned,      \* clients in the cache of the guard
    sem,         \* slowTricksSem
    visit,       \* the request of each goroutine
    trapped,     \* history: clients that tripped the guard, until the cache forgets them
    policy,      \* the configuration of the country filter
    atlas,       \* Filter.db, and which one it is
    decisions,   \* Filter.clientCache
    look,        \* the request of each goroutine
    seen         \* history: the databases that were loaded

guardVars == <<guard, banned, sem, visit, trapped>>
countryVars == <<policy, atlas, decisions, look, seen>>

----------------------------------------------------------------------------
(* Honeypot and user agent blocker.                                           *)

\* isHoneyPotPath: a pattern with a leading star is looked for anywhere
isHoneyPotPath(patterns, path) ==
    \E p \in patterns :
        IF Len(p) > 1 /\ p[1] = "*"
        THEN \E i \in 0 .. Len(path) : IsPrefix(Tail(p), SubSeq(path, i + 1, Len(path)))
        ELSE IsPrefix(p, path)

\* Blocker.IsBlockedUA, on the patterns that the agent contains
IsBlockedUA(conf, agent) ==
    IF agent = <<>> THEN conf.blockEmpty
    ELSE ~(ToSet(agent) \cap conf.allowed # {}) /\ ToSet(agent) \cap conf.patterns # {}

Trips(text) == IF guard.kind = "ua" THEN IsBlockedUA(guard, text) ELSE isHoneyPotPath(guard.patterns, text)

parseHoneyPotConfig(conf) == conf.parses /\ conf.patterns # {}

\* the semaphore is made with the configured size: a negative one is a panic
NewHoneyPotServer(conf) == IF conf.kind = "trickster" /\ conf.maxSlow < 0 THEN "panic" ELSE "built"

parseUaConfig(conf) == conf.parses
NewUaBlocker(conf) == conf.patterns \union conf.allowed # {} \/ conf.blockEmpty

\* the middlewares fail closed
guardState(conf) ==
    IF conf.kind = "ua" THEN IF parseUaConfig(conf) /\ NewUaBlocker(conf) THEN "built" ELSE "misconfigured"
    ELSE IF parseHoneyPotConfig(conf) THEN NewHoneyPotServer(conf) ELSE "misconfigured"

IsIpInAllowList(a) == guard.kind = "ua" /\ a \in Lan

NoVisit == [step |-> "idle", addr |-> NoAddress, text |-> <<>>, late |-> FALSE]

GuardInit ==
    /\ guard \in {[kind |-> c.kind, patterns |-> c.patterns, allowed |-> c.allowed, maxSlow |-> c.maxSlow,
                   blockEmpty |-> c.blockEmpty, state |-> guardState(c)] : c \in GuardConfigs}
    /\ banned = {} /\ sem = 0 /\ visit = [v \in Visits |-> NoVisit] /\ trapped = {}

Goes(v, s) == visit' = [visit EXCEPT ![v].step = s]

Visit(v, a, t) ==
    /\ visit[v].step = "idle" /\ guard.state # "panic"
    /\ visit' = [visit EXCEPT ![v] =
                    [step |-> IF guard.state = "misconfigured" \/ a = NoAddress THEN "refused"
                              ELSE IF IsIpInAllowList(a) THEN "next" ELSE "check",
                     addr |-> a, text |-> t, late |-> a \in trapped]]
    /\ UNCHANGED <<guard, banned, sem, trapped>>

\* isHoneyPottedIp, IsBlockedIP
IsBanned(a) == a \in banned

CheckBanned(v) ==
    /\ visit[v].step = "check"
    /\ Goes(v, IF IsBanned(visit[v].addr) THEN "serve" ELSE "trip")
    /\ UNCHANGED <<guard, banned, sem, trapped>>

\* Mutant: the client is not remembered.
TripUncached(v) ==
    /\ visit[v].step = "trip" /\ Goes(v, IF Trips(visit[v].text) THEN "serve" ELSE "next")
    /\ trapped' = IF Trips(visit[v].text) THEN trapped \union {visit[v].addr} ELSE trapped
    /\ UNCHANGED <<guard, banned, sem>>

\* addIpToHoneyPot, CacheBlockedIP
Ban(a) == banned' = banned \union {a}

CheckTrip(v) ==
    /\ visit[v].step = "trip"
    /\ IF Trips(visit[v].text)
       THEN /\ Ban(visit[v].addr) /\ trapped' = trapped \union {visit[v].addr}
            /\ Goes(v, "serve")
       ELSE UNCHANGED <<banned, trapped>> /\ Goes(v, "next")
    /\ UNCHANGED <<guard, sem>>

\* the answer of a StaticResponseServer, of the user agent blocker, or a fast trick
AnswerFast(v) ==
    /\ visit[v].step = "serve" /\ Goes(v, "refused")
    /\ UNCHANGED <<guard, banned, sem, trapped>>

\* TricksterServer.Serve with a free slot
AnswerSlow(v) ==
    /\ visit[v].step = "serve" /\ guard.kind = "trickster" /\ sem < guard.maxSlow
    /\ sem' = sem + 1 /\ Goes(v, "slow")
    /\ UNCHANGED <<guard, banned, trapped>>

\* the deadline, the end of the blob, a failed write or the end of the request
SlowEnds(v) ==
    /\ visit[v].step = "slow" /\ Goes(v, "refused")
    /\ sem' = sem - 1
    /\ UNCHANGED <<guard, banned, trapped>>

VisitEnds(v) ==
    /\ visit[v].step \in {"next", "refused"} /\ visit' = [visit EXCEPT ![v] = NoVisit]
    /\ UNCHANGED <<guard, banned, sem, trapped>>

\* the cache evicts the client or its time is over
ForgetBan(a) ==
    /\ a \in banned
    /\ banned' = banned \ {a} /\ trapped' = trapped \ {a}
    /\ visit' = [v \in Visits |-> [visit[v] EXCEPT !.late = @ /\ visit[v].addr # a]]
    /\ UNCHANGED <<guard, sem>>

GuardNext ==
    \/ \E v \in Visits : \/ \E a \in Visitors \union {NoAddress}, t \in Texts : Visit(v, a, t)
                         \/ CheckBanned(v) \/ CheckTrip(v) \/ AnswerFast(v) \/ AnswerSlow(v)
                         \/ SlowEnds(v) \/ VisitEnds(v)
    \/ \E a \in Visitors : ForgetBan(a)

----------------------------------------------------------------------------
(* Country filter.  A record is <<country, continent>>, "" where the field is *)
(* missing; Unlisted is an address that the database does not have.           *)

Unlisted == <<"unknown", "unknown">>

evalList(p, mode, codes, code) ==
    IF code = "" THEN p.onUnknown ELSE IF mode = "allow" THEN code \in codes ELSE code \notin codes

\* Filter.isAllowed; a list is configured when it has an entry
isAllowed(p, record) ==
    IF p.continents = {} THEN evalList(p, p.countryMode, p.countries, record[1])
    ELSE IF record[1] \in p.countries THEN p.countryMode = "allow"
    ELSE evalList(p, p.continentMode, p.continents, record[2])

Decision(record) == IF record = Unlisted THEN policy.onUnknown ELSE isAllowed(policy, record)

NoLook == [step |-> "idle", addr |-> NoAddress, record |-> Unlisted, from |-> 0]

\* NewFilter: at least one list, and a database that can be loaded
CountryInit ==
    /\ policy \in {p \in Policies : p.countries \union p.continents # {}}
    /\ \E db \in Atlases : atlas = [no |-> 1, db |-> db] /\ seen = <<db>>
    /\ decisions = [a \in {} |-> FALSE] /\ look = [v \in Visits |-> NoLook]

Looks(v, s) == look' = [look EXCEPT ![v].step = s]

\* IsFromAllowedCountry up to the cache
Look(v, a) ==
    /\ look[v].step = "idle"
    /\ look' = [look EXCEPT ![v] =
                   [step |-> IF a = NoAddress THEN "refused" ELSE IF a \in Lan THEN "next"
                             ELSE IF a \notin DOMAIN decisions THEN "lookup"
                             ELSE IF decisions[a] THEN "next" ELSE "refused",
                    addr |-> a, record |-> Unlisted, from |-> 0]]
    /\ UNCHANGED <<policy, atlas, decisions, seen>>

\* db.Lookup under the read lock
LookupIP(v) ==
    /\ look[v].step = "lookup"
    /\ look' = [look EXCEPT ![v].step = "decode", ![v].record = atlas.db[look[v].addr], ![v].from = atlas.no]
    /\ UNCHANGED <<policy, atlas, decisions, seen>>

\* the rest of lookupIPAndCacheValue, and the decision
CacheDecision(v) ==
    /\ look[v].step = "decode"
    /\ LET d == Decision(look[v].record)
           a == look[v].addr
       IN  /\ decisions' = [x \in DOMAIN decisions \union {a} |-> IF x = a THEN d ELSE decisions[x]]
           /\ Looks(v, IF d THEN "next" ELSE "refused")
    /\ UNCHANGED <<policy, atlas, seen>>

\* Mutant: without an entry the request goes on.
DecodeFailsOpen(v) ==
    /\ look[v].step = "decode" /\ look[v].record # Unlisted /\ look[v].from < atlas.no
    /\ Looks(v, "next") /\ UNCHANGED <<policy, atlas, decisions, seen>>

\* Decode fails; it reads after the lock was released, and reloadDB may have
\* closed the reader since.  on-unknown decides and nothing is cached.
DecodeFails(v) ==
    /\ look[v].step = "decode" /\ look[v].record # Unlisted /\ look[v].from < atlas.no
    /\ Looks(v, IF policy.onUnknown THEN "next" ELSE "refused")
    /\ UNCHANGED <<policy, atlas, decisions, seen>>

LookEnds(v) ==
    /\ look[v].step \in {"next", "refused"} /\ look' = [look EXCEPT ![v] = NoLook]
    /\ UNCHANGED <<policy, atlas, decisions, seen>>

\* only a downloaded database is loaded again
isRefreshable(p) == p.loader = "download"
startRefresh(p) == p.interval > 0 /\ isRefreshable(p)

\* a download that fails, or that does not parse, keeps the database
reloadDB(db) ==
    /\ startRefresh(policy) /\ Len(seen) < MaxAtlases
    /\ atlas' = [no |-> atlas.no + 1, db |-> db] /\ seen' = Append(seen, db)
    /\ UNCHANGED <<policy, decisions, look>>

ForgetDecision(a) ==
    /\ a \in DOMAIN decisions /\ decisions' = [x \in DOMAIN decisions \ {a} |-> decisions[x]]
    /\ UNCHANGED <<policy, atlas, look, seen>>

CountryNext ==
    \/ \E v \in Visits : \/ \E a \in Visitors \union {NoAddress} : Look(v, a)
                         \/ LookupIP(v) \/ CacheDecision(v) \/ DecodeFails(v) \/ LookEnds(v)
    \/ \E db \in Atlases : reloadDB(db)
    \/ \E a \in Visitors : ForgetDecision(a)

\* A trap and a country filter, each with its own state.
GuardsNext == (GuardNext /\ UNCHANGED countryVars) \/ (CountryNext /\ UNCHANGED guardVars)

GuardsSpec == GuardInit /\ CountryInit /\ [][GuardsNext]_<<guardVars, countryVars>>

----------------------------------------------------------------------------
(* Properties.                                                                *)

\* The guards have their types: only addresses are remembered, and a request
\* without one never reaches a cache.
GuardsTypeOK ==
    /\ banned \subseteq Visitors /\ sem \in Nat
    /\ DOMAIN decisions \subseteq Visitors \ Lan
    /\ \A v \in Visits : visit[v].addr = NoAddress => visit[v].step \in {"idle", "refused"}

\* Once a request has tripped the guard, no later request of that client gets past
\* the guard until the cache forgets the client, however requests of the client
\* overlap (HoneyPotMiddleware, UserAgentBlockMiddleware).
NoEntryAfterTrap ==
    \A v \in Visits : visit[v].step = "next" /\ ~IsIpInAllowList(visit[v].addr) => ~visit[v].late

\* A slot of the semaphore is held exactly by the slow tricks that run, and no
\* more of them run than configured (TricksterServer.Serve).
SlotsAccounted == sem = Cardinality({v \in Visits : visit[v].step = "slow"}) /\ sem <= IF sem = 0 THEN 0 ELSE guard.maxSlow

\* With both lists the countries are exceptions to the continents: an allow
\* list adds them to what the continents permit, a block list takes them away
\* (isAllowed and the documentation of CountryBlock).
CountriesAreExceptions ==
    policy.countries # {} /\ policy.continents # {} =>
        LET records == {r \in UNION {{db[a] : a \in Visitors} : db \in Atlases} : r # Unlisted /\ r[1] # "" /\ r[2] # ""}
            permitted == {r \in records : (policy.continentMode = "allow") <=> r[2] \in policy.continents}
            named == {r \in records : r[1] \in policy.countries}
        IN  {r \in records : isAllowed(policy, r)} =
                IF policy.countryMode = "allow" THEN permitted \union named ELSE permitted \ named

\* With on-unknown at block, a client outside the LAN gets past the filter
\* only if a database that was loaded puts it where the policy permits, even
\* when databases are reloaded under its request (lookupIPAndCacheValue).
RejectedStaysOut ==
    ~policy.onUnknown =>
        \A v \in Visits :
            look[v].step = "next" /\ look[v].addr \notin Lan =>
                \E i \in DOMAIN seen : LET r == seen[i][look[v].addr] IN r # Unlisted /\ isAllowed(policy, r)

\* The traps hold: who tripped one is refused from then on, and what keeps it
\* busy uses up no more than the slots there are.
TrapsHold == GuardsTypeOK /\ NoEntryAfterTrap /\ SlotsAccounted

\* The country filter lets in whom the policy permits, by the two lists together
\* and by a database that was really consulted.
CountryDecides == CountriesAreExceptions /\ RejectedStaysOut
=============================================================================
