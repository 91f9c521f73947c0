SPECIFICATION ReqSpec
CONSTANTS
    Keys = {c1, c2}
    Values = {1, 2, 3, 4}
    MaxEntries = 1
    Ttl = 1
    Requests = {q1, q2}
    Burst = 1
    MaxTicks = 2
    RouteHosts <- MCRouteHosts
    AskedHosts <- MCAskedHosts
    Targets <- MCTargets
    MaxRoutes = 3
    Rules <- MCRules
    Paths <- MCPaths
    MaxRules = 2
    Clients <- MCClients
    Lists <- MCLists
    HeaderTexts <- MCHeaderTexts
    Pages <- MCPages
    Failed = Failed
    Visitor1 = w1
    Visitor2 = w2
    Visitors <- MCVisitors
    NoAddress = nobody
    Lan = {w2}
    Visits = {v1, v2}
    GuardConfigs <- MCGuardConfigs
    Texts <- MCTexts
    Policies <- MCPolicies
    Atlases <- MCAtlases
    MaxAtlases = 2
    Browsers = {b1, b2}
    AddressOf <- MCAddressOf
    Scopes = {"s1", "s2", "s3", "s4", "s5", "s6", "s7"}
    Attempts = {t1, t2}
    Configured <- MCConfigured
    Codes = {1, 3}
    GuessBurst = 1
    MaxSteps = 1
    MaxTokens = 2
SYMMETRY ClientSymmetry
CHECK_DEADLOCK FALSE
INVARIANTS
    LimiterSound
    HostsRouted
    PathsRouted
    FilterDecides
    
    TrapsHold
    CountryDecides
    
PROPERTIES
    CacheSpec
    
