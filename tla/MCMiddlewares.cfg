SPECIFICATION MwSpec
CONSTANTS
    Requests = {q1, q2}
    FailureThreshold = 2
    Recovery = 2
    HalfOpenThreshold = 1
    MaxFailures = 4
    Keys = {k1, k2, k3, k4}
    Values = {v1}
    MaxEntries = 3
    Ttl = 2
    Actors = {a1, a2, a3}
    Caches = {x1}
    MaxCalls = 3
CHECK_DEADLOCK FALSE
INVARIANTS
    BreakerSound
    CapacityBound
PROPERTIES
    RejectionTimely
    Recovers
    EvictsIdle
    
