SPECIFICATION Spec
CONSTANTS
    v1 = v1
    v2 = v2
    Workers = {w1, w2}
    Nobody = Nobody
    Attempts = 2
    MaxStalls = 1
    Evaluations = {v1, v2}
    CountOf <- Counts
    LastDay = 1
    MaxFaults = 2
    MaxStops = 2
INVARIANTS TypeOK NoCountLost CountedOncePerTry BucketPerProcess
CHECK_DEADLOCK FALSE
