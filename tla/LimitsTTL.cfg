\* Two connections, whose hashes are a positive and a negative int64.
CONSTANTS
    Requests = {r1}
    Conns = {"a", "b"}
    Hash <- MCHash
    Configs <- MCConfigs
    Frequency = 1
    NoConn = none
    NoState = nostate
    Horizon = 3
SYMMETRY Symmetry
SPECIFICATION Spec
INVARIANTS
    NotClosedEarly
CHECK_DEADLOCK FALSE
