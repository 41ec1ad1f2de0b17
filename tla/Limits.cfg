\* Three requests, so that two of one connection race a third.
CONSTANTS
    Requests = {r1, r2, r3}
    Conns = {"a"}
    Hash <- MCHash
    Configs <- MCShortConfigs
    Frequency = 1
    NoConn = none
    NoState = nostate
    Horizon = 4
SYMMETRY Symmetry
SPECIFICATION Spec
INVARIANTS
    TypeOK
    IdleForgotten
    ServedWithinLimit
PROPERTY BusyClosed
CHECK_DEADLOCK FALSE
