SPECIFICATION Spec
CONSTANTS
    Requests = {r1}
    maxAttempts = 1
    Faults = {}
    r1 = r1
    r2 = r2
INVARIANTS
    ShutdownServes
CHECK_DEADLOCK FALSE
