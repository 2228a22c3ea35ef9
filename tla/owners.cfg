SPECIFICATION MCSpec
CONSTANTS
    NoSession = NoSession
    Absent = Absent
    Users = {u1, u2, u3, a1}
    Agents = {a1}
    Founder = u1
    Requests = {r1}
    Handlers <- EveryHandler
    Logins = {p1, p2}
    Refreshes = {f1}
    MaxPerUser = 2
    Ids = {s1, s2, s3, s4, s5}
SYMMETRY Symmetry
INVARIANTS TypesOK LimitExceededByOverlapOnly LeftToInactive
PROPERTIES OwnerLostOnlyByTransfer
CHECK_DEADLOCK FALSE
