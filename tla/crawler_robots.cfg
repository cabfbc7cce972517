SPECIFICATION Spec
CONSTANTS
    Workers = {w1}
    Partitions = {p1}
    Messages <- Task
    MaxLen = 3
    None = None
    Sources = {s1, s2}
    URLs = {l1, l2, d1, d2, d3}
    generateURLs <- Pages
    Faults = {}
    MaxTicks = 1
    Origins = {o1, o2}
    Origin <- Hosts
    Malformed = {}
    Denied = {}
    Disallowed = {d1}
    Links <- ThreeLinks
    Broken = {}
    Registered = {s1, s2}
    maxFanout = 2
    Foreign <- NoStrays
    MaxCrashes = 0
    w1 = w1
    p1 = p1
    s1 = s1
    s2 = s2
    l1 = l1
    l2 = l2
    d1 = d1
    d2 = d2
    d3 = d3
    o1 = o1
    o2 = o2
INVARIANTS
    RobotsRespected
CHECK_DEADLOCK FALSE
