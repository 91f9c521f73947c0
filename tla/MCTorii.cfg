SPECIFICATION Spec
CONSTANTS
    Ports = {p1, p2}
    n1 = n1
    n2 = n2
    r1 = r1
    r2 = r2
    bad = bad
    Nets <- MCNets
    Timeouts = {0, 30}
    DefaultTimeout = 30
    Routes <- MCRoutes
    BadRoutes <- MCBadRoutes
    Requests <- MCRequests
    MaxChains = 4
    NoServer = NoServer
SYMMETRY PortSymmetry
CHECK_DEADLOCK FALSE
INVARIANTS
    ListenerOwned
    ChainsNotShared
    ExposedChainsReclaimed
    RegisteredCurrent
PROPERTIES
    BackgroundKept
    ExposureSpec
