SPECIFICATION MCSpec
CONSTANTS
    Workers = {w1, w2}
    Nobody = Nobody
    Attempts = 3
    MaxStalls = 1
    Callers = {c1}
    Recipients = {u1, u2}
    Channels <- TwoChannels
    MaxFaults = 3
    MaxStops = 2
    Mine = {n1, n2}
    Streams = {s1, s2}
    Calls = {p1, p2}
INVARIANTS TypeOK CompletedLeavesNonePending CompletedIsDelivered UnreadTypeOK StaleOnlyByOvertaking
PROPERTIES QueuedIsSettled
CHECK_DEADLOCK FALSE
