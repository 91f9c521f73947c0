------------------------------ MODULE Dispatch ------------------------------
(* How a request finds its handler: the host dispatcher of a listener with    *)
(* its trie of labels, and the path dispatcher of a route with its ServeMux   *)
(* (proxy/host_dispatcher.go, host_trie_tree.go, path_dispatcher.go).         *)
(*                                                                            *)
(* Both are built once from the configuration, entry by entry, and only read  *)
(* afterwards.  A host is the sequence of its labels as written, one at least *)
(* (the empty host is one empty label); a path and a pattern are sequences of *)
(* segments with what stands at their end.                                    *)
EXTENDS Integers, Sequences, FiniteSets, SequencesExt

CONSTANTS
    RouteHosts,    \* hosts as written in routes
    AskedHosts,    \* Host headers
    Targets,       \* what a route may lead to
    MaxRoutes,     \* bound on the routes of a listener
    Rules,         \* path rules as written
    Paths,         \* request paths
    MaxRules       \* bound on the rules of a route

\* what is written; a last empty label is written as a final dot, a pattern
\* has no wildcards but stars and "/" is the one without a segment
Host == {w \in [labels : Seq(STRING), dot : BOOLEAN, port : {"none", "given", "broken"}] :
            w.labels # <<>> /\ (~w.dot /\ Len(w.labels) > 1 => Last(w.labels) # "")}
EmptyHost == [labels |-> <<"">>, dot |-> FALSE, port |-> "none"]

AnySegment == "{}"
PathRule == {r \in [segs : Seq(STRING), end : {"exact", "slash", "star", "glued"},
                    backend : {"none", "own", "empty", "malformed"}] :
                /\ \A i \in DOMAIN r.segs : r.segs[i] # AnySegment
                /\ r.segs = <<>> => r.end \in {"slash", "star"}}
Path == {p \in [segs : Seq(STRING), slash : BOOLEAN] : p.segs = <<>> => p.slash}

ASSUME DispatchAssumption ==
    /\ MaxRoutes \in Nat /\ MaxRules \in Nat
    /\ RouteHosts \subseteq Host /\ AskedHosts \subseteq Host
    /\ Rules \subseteq PathRule /\ Paths \subseteq Path

VARIABLES
    routes,        \* the routes handled so far: host, and whether it was built
    trie,          \* node |-> index of its route, 0 without a handler
    default,       \* a default target is built
    hostPhase,     \* "building", "ready", "error"
    rules,         \* the path rules handled so far
    mux,           \* pattern |-> index of its rule, 0 for the route's own handler
    pathPhase      \* "building", "ready", "error", "panic"

hostVars == <<routes, trie, default, hostPhase>>
pathVars == <<rules, mux, pathPhase>>

----------------------------------------------------------------------------
(* The trie of hosts.                                                         *)

Capitals == [A |-> "a", B |-> "b"]
ToLower(l) == IF l \in DOMAIN Capitals THEN Capitals[l] ELSE l

\* strings.Split: the dot that ends an absolute name leaves an empty label
SplitHost(w) == w.labels \o IF w.dot THEN <<"">> ELSE <<>>
TrimDot(ls) == IF Len(ls) > 1 /\ Last(ls) = "" THEN Front(ls) ELSE ls

reverseAndTokenizeHost(w) ==
    LET labels == TrimDot(SplitHost(w))
    IN  Reverse([i \in DOMAIN labels |-> ToLower(labels[i])])

\* insert creates the missing nodes and sets the handler of the last
insert(t, tokens, h) ==
    [n \in DOMAIN t \union Prefixes(tokens) |->
        IF n = tokens THEN h ELSE IF n \in DOMAIN t THEN t[n] ELSE 0]

\* Mutant: a wildcard only as the last label of a host.
NoWildcardBelow(t, n, token) ==
    IF Append(n, token) \in DOMAIN t THEN {Append(n, token)}
    ELSE IF n = <<>> THEN {<<"*">>} \cap DOMAIN t ELSE {}

\* the exact label is taken when it exists, the wildcard otherwise, no node
\* without either; a lookup that took a branch does not come back to the other
Child(t, n, token) ==
    IF Append(n, token) \in DOMAIN t THEN {Append(n, token)} ELSE {Append(n, "*")} \cap DOMAIN t

\* the node that is reached with the first i tokens
Walk(t, tokens) ==
    LET at[i \in 0 .. Len(tokens)] ==
            IF i = 0 THEN {<<>>} ELSE UNION {Child(t, n, tokens[i]) : n \in at[i - 1]}
    IN  at

HostContains(t, tokens) ==
    LET found == Walk(t, tokens)[Len(tokens)]
    IN  IF found = {} THEN 0 ELSE t[CHOOSE n \in found : TRUE]

BadGateway == -2
Default == -1

\* VirtualHostDispatcher.ServeHTTP
ServeHost(w) ==
    IF w.port = "broken" THEN BadGateway
    ELSE LET h == HostContains(trie, reverseAndTokenizeHost(w))
         IN  IF h # 0 THEN h ELSE IF default THEN Default ELSE BadGateway

----------------------------------------------------------------------------
(* Building the host dispatcher.                                              *)

\* a backend that parses, or a middleware that answers by itself; then the
\* path dispatcher and the middleware chain
buildRouteHandler(t) ==
    /\ t.backend # "malformed"
    /\ t.backend = "none" => t.terminating
    /\ t.paths = "ok" /\ t.chain = "ok"

HostInit ==
    /\ routes = <<>> /\ trie = [n \in {<<>>} |-> 0] /\ default = FALSE
    /\ hostPhase = "building"

\* one round of the loop: a route without a host, or one that cannot be built,
\* is skipped and the others go on
AddRoute(w, t) ==
    /\ hostPhase = "building" /\ Len(routes) < MaxRoutes /\ ~default
    /\ LET built == w # EmptyHost /\ buildRouteHandler(t)
       IN  /\ routes' = Append(routes, [host |-> w, built |-> built])
           /\ trie' = IF built THEN insert(trie, reverseAndTokenizeHost(w), Len(routes) + 1) ELSE trie
    /\ UNCHANGED <<default, hostPhase>>

AddDefault(t) ==
    /\ hostPhase = "building" /\ ~default
    /\ IF buildRouteHandler(t) THEN default' = TRUE /\ UNCHANGED hostPhase
       ELSE hostPhase' = "error" /\ UNCHANGED default
    /\ UNCHANGED <<routes, trie>>

HasAnyEntry == DOMAIN trie # {<<>>}

FinishHosts ==
    /\ hostPhase = "building"
    /\ hostPhase' = IF HasAnyEntry \/ default THEN "ready" ELSE "error"
    /\ UNCHANGED <<routes, trie, default>>

HostNext ==
    \/ \E w \in RouteHosts, t \in Targets : AddRoute(w, t)
    \/ \E t \in Targets : AddDefault(t)
    \/ FinishHosts

----------------------------------------------------------------------------
(* Patterns.  A rule's end is "exact", "slash", "star" (a last segment "*")   *)
(* or "glued" (a star behind the last segment); a registered pattern's end is *)
(* "exact", "slash" or "rest", which stands for {path...}.                    *)

normalizePattern(r) ==
    [segs |-> [i \in DOMAIN r.segs |-> IF r.segs[i] = "*" THEN AnySegment ELSE r.segs[i]],
     end |-> IF r.end \in {"star", "glued"} THEN "rest" ELSE r.end]

\* Mutant: an exact pattern stays exact.
LeaveExact(p) == p

ensureSubtree(p) == IF p.end = "exact" THEN [p EXCEPT !.end = "rest"] ELSE p

\* the prefix to strip, empty when there is none
pathRulePrefix(r) == IF \E i \in DOMAIN r.segs : r.segs[i] = "*" THEN <<>> ELSE r.segs

\* http.ServeMux: which paths a pattern matches
Matches(p, path) ==
    /\ Len(p.segs) <= Len(path.segs)
    /\ \A i \in DOMAIN p.segs : p.segs[i] \in {AnySegment, path.segs[i]}
    /\ IF p.end = "exact" THEN Len(p.segs) = Len(path.segs) /\ ~path.slash
       ELSE Len(p.segs) = Len(path.segs) => path.slash

\* http.ServeMux compares patterns by the paths they match: all of p's are q's,
\* or some are of both
Within(p, q) ==
    /\ Len(q.segs) <= Len(p.segs)
    /\ \A i \in DOMAIN q.segs : q.segs[i] \in {AnySegment, p.segs[i]}
    /\ IF q.end = "exact" THEN Len(p.segs) = Len(q.segs) /\ p.end = "exact"
       ELSE Len(p.segs) = Len(q.segs) => p.end # "exact"
MoreSpecific(p, q) == Within(p, q) /\ ~Within(q, p)

Overlap(p, q) ==
    /\ \A i \in DOMAIN p.segs \cap DOMAIN q.segs : p.segs[i] = q.segs[i] \/ AnySegment \in {p.segs[i], q.segs[i]}
    /\ p.end = "exact" => IF q.end = "exact" THEN Len(q.segs) = Len(p.segs) ELSE Len(q.segs) < Len(p.segs)
    /\ q.end = "exact" /\ p.end # "exact" => Len(p.segs) < Len(q.segs)

\* http.ServeMux panics when two patterns overlap and none is more specific
Conflict(p, q) == Overlap(p, q) /\ ~MoreSpecific(p, q) /\ ~MoreSpecific(q, p)

Best(path) == {p \in DOMAIN mux : /\ Matches(p, path)
                                  /\ \A q \in DOMAIN mux : Matches(q, path) /\ q # p => MoreSpecific(p, q)}

\* http.ServeMux sends a path that no pattern names to its form with a final
\* slash when a pattern ends exactly there
Exact(p, path) == p.end = "exact" \/ (Len(p.segs) = Len(path.segs) /\ path.slash)
Redirected(path) ==
    /\ ~path.slash /\ ~\E p \in Best(path) : Exact(p, path)
    /\ \E p \in Best([path EXCEPT !.slash = TRUE]) : Exact(p, [path EXCEPT !.slash = TRUE])

----------------------------------------------------------------------------
(* Building the path dispatcher.                                              *)

PathInit == rules = <<>> /\ mux = [p \in {} |-> 0] /\ pathPhase = "building"

Register(p, n) == [q \in DOMAIN mux \union {p} |-> IF q = p THEN n ELSE mux[q]]

\* the map of patterns registered so far
Duplicate(p) == p \in DOMAIN mux

\* one round of the loop.  The duplicate check looks at the pattern before
\* ensureSubtree, the mux at the pattern after it.
AddRule(r) ==
    /\ pathPhase = "building" /\ Len(rules) < MaxRules
    /\ rules' = Append(rules, r)
    /\ LET p == normalizePattern(r)
           q == IF r.backend = "own" THEN ensureSubtree(p) ELSE p
       IN  IF r.backend \in {"empty", "malformed"} \/ Duplicate(p)
           THEN pathPhase' = "error" /\ UNCHANGED mux
           ELSE IF \E o \in DOMAIN mux : Conflict(o, q)
           THEN pathPhase' = "panic" /\ UNCHANGED mux
           ELSE mux' = Register(q, Len(rules) + 1) /\ UNCHANGED pathPhase

\* a middleware of the rule cannot be built
AddRuleFails(r) ==
    /\ pathPhase = "building" /\ Len(rules) < MaxRules
    /\ rules' = Append(rules, r) /\ pathPhase' = "error" /\ UNCHANGED mux

HasCatchAll == \E p \in DOMAIN mux : p.segs = <<>> /\ p.end # "exact"

FinishPaths ==
    /\ pathPhase = "building" /\ pathPhase' = "ready"
    /\ mux' = IF HasCatchAll THEN mux ELSE Register([segs |-> <<>>, end |-> "slash"], 0)
    /\ UNCHANGED rules

PathNext == \/ \E r \in Rules : AddRule(r) \/ AddRuleFails(r)
            \/ FinishPaths

----------------------------------------------------------------------------
dispatchVars == <<hostVars, pathVars>>
DispatchSpec ==
    /\ HostInit /\ PathInit
    /\ [][\/ HostNext /\ UNCHANGED pathVars
          \/ PathNext /\ UNCHANGED hostVars]_dispatchVars

----------------------------------------------------------------------------
(* Properties.                                                                *)

\* The dispatchers have their types: every node of the trie hangs on its
\* parent and a handler is the index of a route that was built.
DispatchTypeOK ==
    /\ hostPhase \in {"building", "ready", "error"} /\ default \in BOOLEAN
    /\ \A n \in DOMAIN trie : /\ Prefixes(n) \subseteq DOMAIN trie
                              /\ trie[n] # 0 => routes[trie[n]].built
    /\ pathPhase \in {"building", "ready", "error", "panic"}
    /\ \A p \in DOMAIN mux : mux[p] \in 0 .. Len(rules)

\* a host without its spelling
Spelled(w) == Reverse([i \in DOMAIN w.labels |-> ToLower(w.labels[i])])
Asked == {w \in AskedHosts : w.port # "broken"}
RouteOf(i) == Spelled(routes[i].host)
Built == {i \in DOMAIN routes : routes[i].built}

\* The route configured for exactly the requested host serves it, the last one
\* if there are several, whatever wildcards and longer or shorter hosts are
\* configured beside it and however case, port and final dot are written
\* (HostTrie.Contains, reverseAndTokenizeHost).
ExactHostWins ==
    hostPhase = "ready" =>
        \A w \in Asked :
            LET exact == {i \in Built : RouteOf(i) = Spelled(w)}
            IN  exact # {} => ServeHost(w) \in exact /\ \A i \in exact : i <= ServeHost(w)

Covers(i, w) ==
    /\ Len(RouteOf(i)) = Len(Spelled(w))
    /\ \A k \in DOMAIN Spelled(w) : RouteOf(i)[k] \in {"*", Spelled(w)[k]}

\* A request never reaches the handler of a route whose host does not cover the
\* requested one: a wildcard stands for exactly one label.
RouteCoversHost ==
    hostPhase = "ready" => \A w \in Asked : ServeHost(w) > 0 => Covers(ServeHost(w), w)

\* route j shares i's labels up to one where i has a wildcard and j the label
Shadows(j, i, w) ==
    \E k \in DOMAIN Spelled(w) :
        /\ k <= Len(RouteOf(j)) /\ RouteOf(i)[k] = "*" /\ RouteOf(j)[k] = Spelled(w)[k]
        /\ \A m \in 1 .. k - 1 : RouteOf(j)[m] = RouteOf(i)[m]

\* A host that a wildcard route covers is served by a route with that host,
\* unless another route names the label that the wildcard stands for: then the
\* lookup, which does not backtrack, may end without a handler.
WildcardUnlessShadowed ==
    hostPhase = "ready" =>
        \A w \in Asked, i \in Built :
            Covers(i, w) => \/ ServeHost(w) > 0 /\ RouteOf(ServeHost(w)) = RouteOf(i)
                            \/ \E j \in Built : Shadows(j, i, w)

\* Every path is answered by one rule, or by the route's own handler: a built
\* mux always has one most specific pattern (buildPathDispatcher's catch-all).
EveryPathAnswered == pathPhase = "ready" => \A path \in Paths : Cardinality(Best(path)) = 1

Below(r, path) ==
    /\ Len(r.segs) <= Len(path.segs)
    /\ \A i \in DOMAIN r.segs : r.segs[i] \in {"*", path.segs[i]}

\* What lies below a rule with a backend of its own is served by that rule or
\* by one below it, never by the route's backend; the path of the rule itself
\* is served by a rule or sent to its form with a final slash (ensureSubtree).
BackendOwnsSubtree ==
    pathPhase = "ready" =>
        \A i \in DOMAIN rules, path \in Paths :
            rules[i].backend = "own" /\ Below(rules[i], path) =>
                \A p \in Best(path) :
                    IF Len(path.segs) > Len(rules[i].segs) \/ path.slash
                    THEN mux[p] = i \/ (mux[p] > 0 /\ Below(rules[i], rules[mux[p]]))
                    ELSE mux[p] > 0 \/ Redirected(path)

\* The prefix that strip-prefix removes is there in every path the rule is
\* asked to serve; http.StripPrefix would answer 404 otherwise (pathRulePrefix).
StripApplies ==
    pathPhase = "ready" =>
        \A path \in Paths, p \in DOMAIN mux :
            p \in Best(path) /\ mux[p] > 0 => IsPrefix(pathRulePrefix(rules[mux[p]]), path.segs)

\* A rule written twice, neither time with a backend of its own, is refused
\* with an error and does not reach the mux, which would panic.
RepeatedRuleRefused ==
    pathPhase = "panic" =>
        ~\E i \in 1 .. Len(rules) - 1 : /\ rules[i].backend = "none" /\ Last(rules).backend = "none"
                                         /\ rules[i].segs = Last(rules).segs /\ rules[i].end = Last(rules).end

\* A request reaches the handler of the route that was meant for its host.
HostsRouted == DispatchTypeOK /\ ExactHostWins /\ RouteCoversHost /\ WildcardUnlessShadowed

\* A request reaches the rule that was meant for its path, with the prefix that
\* the rule strips; what cannot be built is refused.
PathsRouted == EveryPathAnswered /\ BackendOwnsSubtree /\ StripApplies /\ RepeatedRuleRefused
=============================================================================
