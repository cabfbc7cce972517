SPECIFICATION Spec
CONSTANTS
    Workers = {w1}
    Partitions = {p1}
    Messages <- OneMessage
    MaxLen = 1
    None = None
    URLs = {u1, u2}
    Fps = {f1, f2}
    Garbled = Garbled
    Unparsable = Unparsable
    MaxTotalJobs = 0
    CleanupEnabled = FALSE
    CleanupRetentionDays = 30
    Faults = {"crash"}
    MaxCrashes = 1
    w1 = w1
    w2 = w2
    p1 = p1
    p2 = p2
    u1 = u1
    u2 = u2
    f1 = f1
    f2 = f2
INVARIANTS
    CommittedKept
CHECK_DEADLOCK FALSE
