----------------------------- MODULE Addresses ------------------------------
(* Decisions by client address: the subnet trie (internal/netutil), the IP    *)
(* filter with its AbuseIPDB list (middleware/ip_filter, internal/abuseipdb)  *)
(* and the trusted proxies that say which address the client has              *)
(* (internal/trustedproxy, proxy/trusted_proxy.go).                           *)
(*                                                                            *)
(* An address is a family and its bits, a range a family and the bits of its  *)
(* prefix; Junk is a text that is neither, Blank an empty header field.       *)
EXTENDS Integers, Sequences, FiniteSets, SequencesExt

CONSTANTS
    Clients,     \* addresses, all bits given
    Lists,       \* lists of ranges that are configured or fetched
    HeaderTexts, \* what a client may put into the header by itself
    Pages,       \* the two pages of a preset's answer
    Failed       \* a fetch that failed

Families == {"v4", "v6"}
Junk == [family |-> "none", bits |-> <<>>]
Blank == [family |-> "blank", bits |-> <<>>]
Address == [family : Families, bits : Seq({0, 1})]

ASSUME AddressesAssumption ==
    /\ Clients \subseteq Address
    /\ Lists \subseteq Seq(Address \union {Junk})
    /\ HeaderTexts \subseteq Seq(Address \union {Junk, Blank})
    /\ \A pages \in Pages : \A i \in {1, 2} : pages[i] = Failed \/ pages[i] \in Seq(Address \union {Junk})

VARIABLES
    allowList, blockList,       \* the tries of the IP filter
    filterPhase,                \* "new", "loading", "ready", "misconfigured"
    refreshable,                \* the block list is AbuseIPDB's
    initial,                    \* the list that NewIpFilter fetched and will store
    allowFrom, blockFrom,       \* history: the lists behind the tries
    trusted,                    \* Matcher.trusted
    proxyPhase,                 \* "new", "raw", "matching", "refreshing"
    extra,                      \* trusted-proxies.ranges
    fetchedFrom                 \* history: the preset's list behind trusted

filterVars == <<allowList, blockList, filterPhase, refreshable, initial, allowFrom, blockFrom>>
trustVars == <<trusted, proxyPhase, extra, fetchedFrom>>

----------------------------------------------------------------------------
(* The subnet trie: for each family the nodes and whether they are terminal.  *)

NewSubnetTrie == [f \in Families |-> [n \in {<<>>} |-> FALSE]]

\* Insert: nothing to do below a terminal node, except below the root, which is
\* not looked at; the new terminal node loses its children
Insert(t, p) ==
    LET nodes == t[p.family]
        path == Prefixes(p.bits)
        kept == {n \in DOMAIN nodes : ~IsStrictPrefix(p.bits, n)}
    IN  IF \E n \in path \ {<<>>} : n \in DOMAIN nodes /\ nodes[n] THEN t
        ELSE [t EXCEPT ![p.family] =
                 [n \in kept \union path |-> IF n = p.bits THEN TRUE ELSE n \in DOMAIN nodes /\ nodes[n]]]

\* Contains walks down from the root's children to the first terminal node
TrieContains(t, a) ==
    \E n \in Prefixes(a.bits) \ {<<>>} : n \in DOMAIN t[a.family] /\ t[a.family][n]

TrieIsEmpty(t) == \A f \in Families : DOMAIN t[f] = {<<>>}

\* one range after the other; a text that cannot be read is skipped
InsertEach(list) ==
    LET t[i \in 0 .. Len(list)] ==
            IF i = 0 THEN NewSubnetTrie
            ELSE IF list[i] = Junk THEN t[i - 1] ELSE Insert(t[i - 1], list[i])
    IN  t
InsertAll(list) == InsertEach(list)[Len(list)]
Parses(list) == \A i \in DOMAIN list : list[i] # Junk

----------------------------------------------------------------------------
(* The IP filter.                                                             *)

FilterInit ==
    /\ allowList = NewSubnetTrie /\ blockList = NewSubnetTrie /\ filterPhase = "new"
    /\ refreshable = FALSE /\ initial = <<>> /\ allowFrom = <<>> /\ blockFrom = <<>>

StoreBlockList(list) == blockList' = InsertAll(list) /\ blockFrom' = list

\* initIpFilter and NewIpFilter with a StaticLoader
NewStaticFilter(allow, block) ==
    /\ filterPhase = "new"
    /\ IF Parses(allow) /\ Parses(block)
       THEN /\ allowList' = InsertAll(allow) /\ allowFrom' = allow
            /\ StoreBlockList(block) /\ filterPhase' = "ready"
       ELSE filterPhase' = "misconfigured" /\ UNCHANGED <<allowList, blockList, allowFrom, blockFrom>>
    /\ UNCHANGED <<refreshable, initial>>

\* NewIpFilter with AbuseIPDB up to StartRefreshTimer: the first fetch may fail,
\* and from here on the ticker runs
StartRefreshTimer(allow, answer) ==
    /\ filterPhase = "new"
    /\ IF Parses(allow)
       THEN /\ allowList' = InsertAll(allow) /\ allowFrom' = allow
            /\ filterPhase' = "loading" /\ refreshable' = TRUE
            /\ initial' = IF answer = Failed THEN <<>> ELSE answer
       ELSE filterPhase' = "misconfigured" /\ UNCHANGED <<allowList, allowFrom, refreshable, initial>>
    /\ UNCHANGED <<blockList, blockFrom>>

\* ... and the rest of NewIpFilter, which stores the list fetched before
StoreInitial ==
    /\ filterPhase = "loading"
    /\ IF Parses(initial) THEN StoreBlockList(initial) /\ filterPhase' = "ready"
       ELSE filterPhase' = "misconfigured" /\ UNCHANGED <<blockList, blockFrom>>
    /\ initial' = <<>>
    /\ UNCHANGED <<allowList, refreshable, allowFrom>>

\* a tick: a failed fetch, or a list that does not parse, leaves the old one
RefreshBlockList(answer) ==
    /\ refreshable
    /\ answer # Failed /\ Parses(answer)
    /\ StoreBlockList(answer)
    /\ UNCHANGED <<allowList, filterPhase, refreshable, initial, allowFrom>>

\* Mutant: the block list is asked first.
BlockWins(a) == TrieContains(blockList, a)

IsBlocked(a) == ~TrieContains(allowList, a) /\ TrieContains(blockList, a)

\* IpFilterMiddleware fails closed: misconfigured, or a client without an address
FilterServes(a) == filterPhase = "ready" /\ a # Junk /\ ~IsBlocked(a)

FilterNext ==
    \/ \E allow, block \in Lists : NewStaticFilter(allow, block)
    \/ \E allow \in Lists, answer \in Lists \union {Failed} : StartRefreshTimer(allow, answer)
    \/ StoreInitial
    \/ \E answer \in Lists \union {Failed} : RefreshBlockList(answer)

----------------------------------------------------------------------------
(* Trusted proxies.                                                           *)

TrustInit == trusted = NewSubnetTrie /\ proxyPhase = "new" /\ extra = <<>> /\ fetchedFrom = <<>>

\* CloudFlarePreset.Resolve: both pages or nothing
ResolvePreset(pages) == IF Failed \in {pages[1], pages[2]} THEN <<>> ELSE pages[1] \o pages[2]

\* wrapTrustedProxies: without a range that can be read, requests keep their
\* raw address
wrapTrustedProxies(t, phase) ==
    IF TrieIsEmpty(t) THEN proxyPhase' = "raw" /\ UNCHANGED trusted
    ELSE proxyPhase' = phase /\ trusted' = t

NewTrustedProxyResolver(ranges) ==
    /\ proxyPhase = "new" /\ extra' = ranges /\ UNCHANGED fetchedFrom
    /\ wrapTrustedProxies(InsertAll(ranges), "matching")

NewTrustedProxyResolverFromPreset(pages, ranges) ==
    /\ proxyPhase = "new" /\ extra' = ranges /\ fetchedFrom' = ResolvePreset(pages)
    /\ wrapTrustedProxies(InsertAll(ResolvePreset(pages) \o ranges), "refreshing")

UnknownPreset == proxyPhase = "new" /\ proxyPhase' = "raw" /\ UNCHANGED <<trusted, extra, fetchedFrom>>

\* a tick of the preset's goroutine
RefreshTrusted(pages) ==
    LET fresh == ResolvePreset(pages)
        t == InsertAll(fresh \o extra)
    IN  /\ proxyPhase = "refreshing" /\ fresh # <<>> /\ ~TrieIsEmpty(t)
        /\ trusted' = t /\ fetchedFrom' = fresh
        /\ UNCHANGED <<proxyPhase, extra>>

\* the listener's context ends; the handler may go on
StopRefresh == proxyPhase = "refreshing" /\ proxyPhase' = "matching" /\ UNCHANGED <<trusted, extra, fetchedFrom>>

isTrusted(a) == a.family \in Families /\ TrieContains(trusted, a)

\* Mutant: the header is read from its beginning.
ResolveFromLeft(remote, header) ==
    LET untrusted == {i \in DOMAIN header : header[i] # Blank /\ ~isTrusted(header[i])}
    IN  IF ~isTrusted(remote) \/ untrusted = {} THEN remote
        ELSE header[CHOOSE i \in untrusted : \A j \in untrusted : i <= j]

\* Matcher.Resolve: from the right to the first text that is not a trusted
\* address, else the first field
Resolve(remote, header) ==
    LET untrusted == {i \in DOMAIN header : header[i] # Blank /\ ~isTrusted(header[i])}
    IN  IF ~isTrusted(remote) \/ header = <<>> THEN remote
        ELSE IF untrusted # {} THEN header[CHOOSE i \in untrusted : \A j \in untrusted : j <= i]
        ELSE IF header[1] # Blank THEN header[1] ELSE remote

TrustNext ==
    \/ \E ranges \in Lists : \/ NewTrustedProxyResolver(ranges)
                             \/ \E pages \in Pages : NewTrustedProxyResolverFromPreset(pages, ranges)
    \/ \E pages \in Pages : RefreshTrusted(pages)
    \/ UnknownPreset \/ StopRefresh

----------------------------------------------------------------------------
addressVars == <<filterVars, trustVars>>
AddressesSpec ==
    /\ FilterInit /\ TrustInit
    /\ [][\/ FilterNext /\ UNCHANGED trustVars
          \/ TrustNext /\ UNCHANGED filterVars]_addressVars

----------------------------------------------------------------------------
(* Properties.                                                                *)

TrieOK(t) ==
    \A f \in Families : \A n \in DOMAIN t[f] :
        /\ Prefixes(n) \subseteq DOMAIN t[f]
        /\ t[f][n] /\ n # <<>> => ~\E m \in DOMAIN t[f] : IsStrictPrefix(n, m)

\* The parts have their types: a node hangs on its parent and nothing hangs
\* below a terminal node, so that a trie stays as small as its ranges allow.
AddressesTypeOK ==
    /\ filterPhase \in {"new", "loading", "ready", "misconfigured"}
    /\ proxyPhase \in {"new", "raw", "matching", "refreshing"}
    /\ \A t \in {allowList, blockList, trusted} : TrieOK(t)

Covered(a, list) == \E i \in DOMAIN list : list[i].family = a.family /\ IsPrefix(list[i].bits, a.bits)

\* A client passes the IP filter exactly when a range of the allow list covers
\* its address or none of the block list in use does, whatever order the
\* ranges came in and whatever refreshes failed (IpFilter.IsBlocked).
FilterDecides ==
    filterPhase = "ready" =>
        \A a \in Clients : FilterServes(a) <=> Covered(a, allowFrom) \/ ~Covered(a, blockFrom)

\* The proxies that are trusted are those of the preset's last usable answer
\* together with the configured ranges (NewTrustedProxyResolverFromPreset).
TrustIsDeclared ==
    proxyPhase \in {"matching", "refreshing"} =>
        \A a \in Clients : isTrusted(a) <=> Covered(a, fetchedFrom \o extra)

\* A client behind trusted proxies is taken for itself, whatever it wrote into
\* the header before the proxies appended its address (Matcher.Resolve).
ForgeryHarmless ==
    proxyPhase \in {"matching", "refreshing"} =>
        LET proxies == {a \in Clients : isTrusted(a)}
        IN  \A remote \in proxies, client \in Clients \ proxies, h \in HeaderTexts :
                \A hops \in {<<>>} \union {<<a>> : a \in proxies} :
                    Resolve(remote, h \o <<client>> \o hops) = client

\* What the documentation says of the filter: an address on the allow list is
\* never blocked.
AllowedNeverBlocked ==
    filterPhase = "ready" => \A a \in Clients : Covered(a, allowFrom) => FilterServes(a)

\* A client is known by its own address: the proxies that may speak for it are the
\* declared ones, and nothing that it writes itself counts.
ClientKnown == AddressesTypeOK /\ TrustIsDeclared /\ ForgeryHarmless
=============================================================================
