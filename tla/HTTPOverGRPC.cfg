\* The OpenTSDB input in front of a gRPC downstream, without limits.
CONSTANTS
    Kinds = {"opentsdb"}
    MaxBody = 3
    MaxSizes = {0}
    WriteLimits = {0}
SPECIFICATION Spec
INVARIANT DeliveredAsForwarded
CHECK_DEADLOCK FALSE
