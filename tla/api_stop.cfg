SPECIFICATION FairSpec
CONSTANTS
    Requests = {r1, r2}
    maxAttempts = 3
    Faults = {"bootError", "listenError", "dbError", "redisError", "hang"}
    r1 = r1
    r2 = r2
INVARIANTS
    TypeOK
    ExitDrained
    RedisOptional
PROPERTIES
    ShutdownEnds
    BootEnds
CHECK_DEADLOCK FALSE
