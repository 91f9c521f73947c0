SPECIFICATION ModeSpec
CONSTANTS
    Admins = {a1, a2}
    Ports = {p1}
    n1 = n1
    n2 = n2
    r1 = r1
    r2 = r2
    bad = bad
    Nets <- MCNets
    Timeouts = {0, 30}
    DefaultTimeout = 30
    Routes <- MCRoutes
    BadRoutes <- MCBadRoutes
    Requests <- BothRequests
    AloneRequests <- SingleRequests
    OverlapRequests <- RebuildRequests
    MaxChains = 4
    MaxCreates = 2
    NoServer = NoServer
SYMMETRY AdminSymmetry
CHECK_DEADLOCK FALSE
INVARIANTS
    OneServerEach
    AloneIsSaved
    AloneDescribes
