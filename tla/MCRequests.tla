----------------------------- MODULE MCRequests -----------------------------
(* What a request passes on its way, for TLC, in one run: the rate limiter,   *)
(* the dispatchers, the decisions by address, the guards and the second       *)
(* factor.  They share no state, so a behaviour exercises one of them, chosen *)
(* at the start.                                                              *)
EXTENDS RateLimiter, Dispatch, Addresses, Guards, Totp, TLC

CONSTANTS Visitor1, Visitor2
MCVisitors == {Visitor1, Visitor2}

VARIABLE focus

ClientSymmetry ==
    Permutations(Keys) \union Permutations(Requests) \union Permutations(Attempts)

Written(ls) == [labels |-> ls, dot |-> FALSE, port |-> "none"]
MCRouteHosts ==
    {Written(<<"a", "B">>), Written(<<"*", "b">>), Written(<<"a", "*">>), Written(<<"*", "*">>), Written(<<"a", "b", "b">>),
     Written(<<"*", "b", "b">>), [Written(<<"b", "b">>) EXCEPT !.dot = TRUE, !.port = "given"], EmptyHost,
     Written(<<"*">>)}
MCAskedHosts ==
    [labels : {<<"">>} \union UNION {[1 .. n -> {"a", "b"}] : n \in 1 .. 4} \union {<<"A", "b">>},
     dot : {FALSE}, port : {"none"}]
    \union [labels : [1 .. 2 -> {"a", "B"}], dot : BOOLEAN, port : {"none", "given", "broken"}]

Target == [backend |-> "good", terminating |-> FALSE, paths |-> "ok", chain |-> "ok"]
MCTargets ==
    {Target, [Target EXCEPT !.backend = "none", !.terminating = TRUE], [Target EXCEPT !.backend = "none"],
     [Target EXCEPT !.backend = "malformed"], [Target EXCEPT !.paths = "fail"], [Target EXCEPT !.chain = "fail"]}

Rule(ss, e, b) == [segs |-> ss, end |-> e, backend |-> b]
MCRules ==
    {r \in [segs : {<<>>, <<"a">>, <<"*">>, <<"a", "b">>, <<"*", "b">>, <<"a", "*">>},
            end : {"exact", "slash", "star", "glued"}, backend : {"none", "own"}] :
        r.end \in {"exact", "glued"} => r.segs # <<>> /\ r.segs[Len(r.segs)] # "*"}
    \union {Rule(<<"a">>, "exact", "empty"), Rule(<<"a">>, "slash", "malformed")}
MCPaths ==
    {p \in [segs : {<<>>} \union UNION {[1 .. n -> {"a", "b", "z"}] : n \in 1 .. 3}, slash : BOOLEAN] :
        p.segs = <<>> => p.slash}

Bits4(bs) == [family |-> "v4", bits |-> bs]
Bits6(bs) == [family |-> "v6", bits |-> bs]
MCClients == [family : {"v4"}, bits : [1 .. 2 -> {0, 1}]] \union {Bits6(<<0, 1>>), Bits6(<<1, 0>>)}
Half == Bits4(<<0>>)
MCLists ==
    {<<>>, <<Half>>, <<Bits4(<<0, 1>>)>>, <<Bits6(<<1>>)>>, <<Half, Bits4(<<0, 1>>)>>, <<Bits4(<<0, 1>>), Half>>,
     <<Bits4(<<0, 1>>), Bits4(<<0, 0>>), Half>>, <<Bits4(<<1, 1>>), Bits6(<<1, 0>>), Half>>,
     <<Bits6(<<1, 0>>), Bits6(<<1>>)>>, <<Half, Junk>>, <<Junk>>}
MCPages == {<<a, b>> : a \in {Failed, <<>>, <<Half>>, <<Bits4(<<0, 1>>), Junk>>, <<Junk>>},
                       b \in {Failed, <<>>, <<Bits6(<<1>>)>>, <<Bits6(<<1, 0>>)>>}}
MCHeaderTexts == {<<>>, <<Junk>>, <<Blank>>, <<Blank, Junk>>} \union {<<a>> : a \in MCClients}

Conf(k, ps, as, n, e, ok) ==
    [kind |-> k, patterns |-> ps, allowed |-> as, maxSlow |-> n, blockEmpty |-> e, parses |-> ok]
Traps == {<<"x">>, <<"*", "y", "z">>}
MCGuardConfigs ==
    {Conf("static", Traps, {}, 0, FALSE, TRUE), Conf("trickster", Traps, {}, 1, FALSE, TRUE),
     Conf("trickster", Traps, {}, -1, FALSE, TRUE), Conf("trickster", {}, {}, 1, FALSE, TRUE),
     Conf("ua", {"bot"}, {"good"}, 0, TRUE, TRUE), Conf("ua", {}, {}, 0, TRUE, TRUE), Conf("ua", {}, {}, 0, FALSE, TRUE),
     Conf("static", Traps, {}, 0, FALSE, FALSE)}
MCTexts == {<<>>, <<"x", "y">>, <<"y", "x">>, <<"w", "y", "z">>, <<"bot">>, <<"bot", "good">>}
Modes == {"allow", "block"}
Policy(cm, cs, nm, ns, u, l, i) ==
    [countryMode |-> cm, countries |-> cs, continentMode |-> nm, continents |-> ns, onUnknown |-> u, loader |-> l, interval |-> i]
MCPolicies ==
    {Policy(m, {"PT"}, n, {"EU"}, u, "download", 1) : m \in Modes, n \in Modes, u \in BOOLEAN}
    \union {Policy(m, {"PT"}, "allow", {}, FALSE, "download", 1) : m \in Modes}
    \union {Policy("allow", {}, "block", ns, TRUE, l, i) : ns \in {{}, {"EU"}}, l \in {"file", "download"}, i \in {0, 1}}

Atlas(p, q) == (Visitor1 :> p) @@ (Visitor2 :> q)
MCAtlases == {Atlas(<<"PT", "EU">>, <<"FR", "EU">>), Atlas(<<"US", "NA">>, <<"", "EU">>),
              Atlas(<<"unknown", "unknown">>, <<"PT", "">>)}

\* both browsers are behind one address
MCAddressOf == [b \in Browsers |-> "nat"]
Otp(w, p, l, ss) == [window |-> w, period |-> p, limit |-> l, sessions |-> ss]
MCConfigured ==
    [s1 |-> Otp(0, "seconds", "default", "readable"), s2 |-> Otp(1, "seconds", "disabled", "readable"),
     s3 |-> Otp(1, "below", "disabled", "readable"), s4 |-> Otp(-1, "seconds", "default", "readable"),
     s5 |-> Otp(1, "negative", "default", "readable"), s6 |-> Otp(1, "seconds", "invalid", "readable"),
     s7 |-> Otp(1, "unreadable", "default", "unreadable")]

----------------------------------------------------------------------------
reqVars == <<allVars, hostVars, pathVars, filterVars, trustVars, guardVars, countryVars, totpVars, focus>>

\* what a part does not use has one initial state
ReqInit ==
    /\ LimInit /\ HostInit /\ PathInit /\ FilterInit /\ TrustInit /\ GuardInit /\ CountryInit /\ TotpInit
    /\ focus \in {"limiter", "hosts", "paths", "filter", "trust", "guards", "country", "totp"}
    /\ focus # "limiter" => \A q, r \in Requests : client[q] = client[r]
    /\ focus # "guards" => guard.kind = "static" /\ guard.state = "built"
    /\ focus # "country" => policy = (CHOOSE p \in Policies : p.countries # {} /\ p.continents = {}) /\ atlas.db = CHOOSE db \in Atlases : TRUE

ReqNext ==
    /\ UNCHANGED focus
    /\ \/ focus = "limiter" /\ LimNext /\ UNCHANGED <<hostVars, pathVars, filterVars, trustVars, guardVars, countryVars, totpVars>>
       \/ focus = "hosts" /\ HostNext /\ UNCHANGED <<allVars, pathVars, filterVars, trustVars, guardVars, countryVars, totpVars>>
       \/ focus = "paths" /\ PathNext /\ UNCHANGED <<allVars, hostVars, filterVars, trustVars, guardVars, countryVars, totpVars>>
       \/ focus = "filter" /\ FilterNext /\ UNCHANGED <<allVars, hostVars, pathVars, trustVars, guardVars, countryVars, totpVars>>
       \/ focus = "trust" /\ TrustNext /\ UNCHANGED <<allVars, hostVars, pathVars, filterVars, guardVars, countryVars, totpVars>>
       \/ focus = "guards" /\ GuardNext /\ UNCHANGED <<allVars, hostVars, pathVars, filterVars, trustVars, countryVars, totpVars>>
       \/ focus = "country" /\ CountryNext /\ UNCHANGED <<allVars, hostVars, pathVars, filterVars, trustVars, guardVars, totpVars>>
       \/ focus = "totp" /\ TotpNext /\ UNCHANGED <<allVars, hostVars, pathVars, filterVars, trustVars, guardVars, countryVars>>

ReqSpec == ReqInit /\ [][ReqNext]_reqVars
=============================================================================
