CONSTANTS
    Delay = 2
    MaxInflight = 2
    OptionalParts = {"health", "readiness"}
SPECIFICATION Spec
INVARIANTS
    TypeOK
    ReadyMeansServing
    MetricsWhileServing
PROPERTIES
    DrainsFirst
    SignalEnds
CHECK_DEADLOCK FALSE
