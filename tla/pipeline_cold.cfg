SPECIFICATION FairPipe
CONSTANTS
    Workers = {c1}
    Partitions = {p1}
    Messages <- Task
    MaxLen = 8
    None = None
    Sources = {s1}
    URLs = {l1, d1, d2, d3}
    generateURLs <- OnePage
    Faults = {"crash"}
    MaxTicks = 1
    Origins = {o1}
    Origin <- OneHost
    Malformed = {}
    Denied = {}
    Disallowed = {}
    Links <- Linked
    Broken = {}
    Registered = {s1}
    maxFanout = 3
    Foreign <- NoStrays
    MaxCrashes = 1
    Processors = {x1}
    RawPartitions = {q1}
    RawMaxLen = 8
    PageOf <- Parsed
    Fps = {f1}
    Garbled = Garbled
    Unparsable = Unparsable
    ProcFaults = {}
    scheduler = scheduler
    Binaries <- Processes
    requiredTopics = {tq, tr}
    ProvisionFaults = {"createError"}
    MaxExits = 1
    c1 = c1
    x1 = x1
    p1 = p1
    q1 = q1
    s1 = s1
    l1 = l1
    d1 = d1
    d2 = d2
    d3 = d3
    o1 = o1
    f1 = f1
    tq = tq
    tr = tr
INVARIANTS
    ProvisionedBeforeUse
    PostingsKept
    LinksFollowed
PROPERTIES
    EveryPostingStored
    EveryPostingCrawled
CHECK_DEADLOCK FALSE
