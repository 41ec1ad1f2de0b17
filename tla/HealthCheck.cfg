\* Intervals that do not divide each other and a timeout longer than the tick.
CONSTANTS
    Endpoints = {"distributor", "query", "ruler", "compactor"}
    Config <- MCConfig
    Hour = 60
    AgeCap = 9
    FailureCap = 3
SPECIFICATION Spec
INVARIANTS
    TypeOK
    HealthFollowsChecks
    CheckedInTime
PROPERTIES
    ChangesFound
    StopsAtLast
CHECK_DEADLOCK FALSE
