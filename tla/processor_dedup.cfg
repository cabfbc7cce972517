SPECIFICATION Spec
CONSTANTS
    Workers = {w1, w2}
    Partitions = {p1}
    Messages <- TwinMessages
    MaxLen = 2
    None = None
    URLs = {u1, u2}
    Fps = {f1, f2}
    Garbled = Garbled
    Unparsable = Unparsable
    MaxTotalJobs = 0
    CleanupEnabled = FALSE
    CleanupRetentionDays = 30
    Faults = {"redisError", "replyLost", "upsertError", "dlqError", "crash"}
    MaxCrashes = 1
    w1 = w1
    w2 = w2
    p1 = p1
    p2 = p2
    u1 = u1
    u2 = u2
    f1 = f1
    f2 = f2
SYMMETRY Symmetry
INVARIANTS
    TypeOK
    CommittedHandled
    UrlSkipJustified
    ContentSkipJustified
PROPERTIES
    ImplementsAtLeastOnce
CHECK_DEADLOCK FALSE
