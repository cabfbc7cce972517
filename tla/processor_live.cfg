SPECIFICATION FairSpec
CONSTANTS
    Workers = {w1}
    Partitions = {p1}
    Messages <- DistinctMessages
    MaxLen = 2
    None = None
    URLs = {u1, u2}
    Fps = {f1, f2}
    Garbled = Garbled
    Unparsable = Unparsable
    MaxTotalJobs = 1
    CleanupEnabled = TRUE
    CleanupRetentionDays = 30
    Faults = {"crash", "countError"}
    MaxCrashes = 1
    w1 = w1
    w2 = w2
    p1 = p1
    p2 = p2
    u1 = u1
    u2 = u2
    f1 = f1
    f2 = f2
INVARIANTS
    CounterCoversRows
PROPERTIES
    EveryMessageHandled
    CapSelfHeals
CHECK_DEADLOCK FALSE
