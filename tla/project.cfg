SPECIFICATION MCSpec
CONSTANTS
    None = None
    Strategies = {s1, s2, s3}
    MaxGiven = 1
    Agents = {a1, a2}
    Keys = {k1, k2}
    Envs = {e1}
    Requests = {q1, q2}
SYMMETRY Symmetry
INVARIANTS TypesOK UnlinkedOnlyByOverlap
PROPERTIES SecondAgentOnlyByOvertaking UpdateLeavesCompact UpdateKeepsGivenOrder
