\* Four hosts give the heap two levels; a lap of the counter is shorter than
\* two rounds, so that it wraps. Bodies exceed either limit, and both.
CONSTANTS
    Forms = {"", "dns://", "h2c://", "grpc-proxy://", "http:blackhole"}
    Requests = {r1, r2, r3}
    Hosts = {h1, h2, h3, h4}
    DefaultHost = dflt
    NoHost = none
    Policies = {"", "round_robin", "least_inflight"}
    IndexWord = 7
    MaxMishaps = 1
    Kinds = {"plain", "replace", "trim", "opentsdb"}
    MaxBody = 3
    MaxSizes = {0, 2}
    WriteLimits = {0, 1}
SYMMETRY Symmetry
SPECIFICATION ProxySpec
INVARIANTS
    ProxyTypeOK
    HeapConsistent
    CountsExact
    RoundRobinFair
    DeliveredWhole
    BlameFits
PROPERTY HeapImplements
CHECK_DEADLOCK FALSE
