SPECIFICATION FairSpec
CONSTANTS
    Requests = {r1, r2, r3}
    Connections = {c1, c2}
    MaxInner = 2
    Nobody = Nobody
INVARIANTS TypeOK NothingLeaks StallsByInnerOnly
PROPERTY RequestsEnd
