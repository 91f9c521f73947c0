SPECIFICATION MetricsFairSpec
CONSTANTS
    Names <- MCNames
    Workers = {w1, w2}
    Reporters = {r1}
    Clients = {c1}
    Buffer = 2
    MaxReports = 2
    MaxObjects = 4
CHECK_DEADLOCK FALSE
INVARIANTS
    
    StreamSound
PROPERTIES
    WorkersGoOn
