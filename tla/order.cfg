SPECIFICATION OrderSpec
CONSTANTS
    None = None
    Deleted = Deleted
    Flags = {}
    Envs = {}
    Requests = {}
    System = {}
    Variants = {}
    Txs = {}
    Total = 0
    GivenWeights = {}
    MaxBatch = 1
    Places = {e1, e2}
    Calls = {r1}
    GivenPriorities = {1}
    MaxStrategies = 3
SYMMETRY OrderSymmetry
INVARIANTS OrderTypeOK
PROPERTIES CreateKeepsOrder CreatedInPlace
