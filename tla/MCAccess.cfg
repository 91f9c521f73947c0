SPECIFICATION AccessSpec
CONSTANTS
    Requests = {q1, q2}
    Tokens = {t1}
    Passwords = {p1}
    Aliases = {a1}
    Keys = {k1, k2}
    Values <- MCGrants
    MaxEntries = 1
    Ttl = 0
    Nobody = Nobody
SYMMETRY AccessSymmetry
CHECK_DEADLOCK FALSE
INVARIANTS
    OnlyOnce
    AdminGetsIn
PROPERTIES
    AdmittedWithinGrant
    
