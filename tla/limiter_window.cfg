SPECIFICATION Spec
CONSTANTS
    Callers = {c1, c2}
    Calls = {1, 2, 3, 4, 5}
    limit = 2
    window = 2
    Pause = 0
    MaxDelay = 1
    Faults = {"redisError"}
    None = None
    c1 = c1
    c2 = c2
    c3 = c3
SYMMETRY Symmetry
INVARIANTS
    TypeOK
    OvershootBounded
