SPECIFICATION SvcSpec
CONSTANTS
    Admins = {a1, a2}
    Ports = {p1, p2}
    n1 = n1
    n2 = n2
    r1 = r1
    r2 = r2
    bad = bad
    Nets <- MCNets
    Timeouts = {0, 30}
    DefaultTimeout = 30
    Routes <- MCRoutes
    BadRoutes <- MCBadRoutes
    Requests <- OneRequest
    MaxChains = 3
    MaxCreates = 1
    NoServer = NoServer
INVARIANT DeletedStaysDeleted
CHECK_DEADLOCK FALSE
