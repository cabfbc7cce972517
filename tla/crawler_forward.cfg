SPECIFICATION Spec
CONSTANTS
    Workers = {w1}
    Partitions = {p1}
    Messages <- Task
    MaxLen = 3
    None = None
    Sources = {s1, s2}
    URLs = {l1, l2, d1, d2, d3}
    generateURLs <- Pages
    Faults = {"limitError", "robotsError", "getError", "dlqError", "publishError", "ackLost", "commitError", "crash"}
    MaxTicks = 1
    Origins = {o1, o2}
    Origin <- Hosts
    Malformed = {d2}
    Denied = {o2}
    Disallowed = {}
    Links <- ThreeLinks
    Broken = {}
    Registered = {s1}
    maxFanout = 2
    Foreign <- Strays
    MaxCrashes = 1
    w1 = w1
    p1 = p1
    s1 = s1
    s2 = s2
    l1 = l1
    l2 = l2
    d1 = d1
    d2 = d2
    d3 = d3
    o1 = o1
    o2 = o2
INVARIANTS
    TypeOK
    CommittedForwarded
    DetailsLinked
PROPERTIES
    ImplementsAtLeastOnce
CHECK_DEADLOCK FALSE
