SPECIFICATION MCSpec
CONSTANTS
    None = None
    Deleted = Deleted
    Flags = {f1, f2, f3}
    Envs = {e1, e2}
    Requests = {q1, q2}
    System = {e1}
    Variants = {f1, f2}
    Txs = {q1, q2}
    Total = 5
    GivenWeights = {3}
    MaxBatch = 2
    Places = {}
    Calls = {}
    GivenPriorities = {}
    MaxStrategies = 0
SYMMETRY Symmetry
INVARIANTS TypesOK MissingRowsAreKnown
PROPERTIES RepairsWhenAlone FitsWhenAlone
