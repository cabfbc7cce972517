SPECIFICATION Spec
CONSTANTS
    Requests = {r1, r2}
    Jobs = {j1}
    Filters = {f1}
    TTLCacheSearch = 1
    TTLCacheJob = 2
    TTLCacheStats = 2
    Timeout = 1
    Faults = {"redisError", "dbError"}
    r1 = r1
    r2 = r2
    j1 = j1
    f1 = f1
INVARIANTS
    TypeOK
    ForgottenInTime
PROPERTIES
    StalenessBounded
CHECK_DEADLOCK FALSE
