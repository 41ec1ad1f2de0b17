CONSTANTS
    t1 = t1
    t2 = t2
    sel = sel
    p1 = p1
    p2 = p2
    evil = evil
    Addresses = {client, p1, p2, evil}
    Junk = junk
    NoAddress = none
    ClientAddress = client
    Tenants = {t1, t2}
    BadTenant = bad
    Selectors = {sel}
    MalformedEntry = malformed
    Requests = {r1}
    Deployments <- MCDeployments
    Traffic <- MCTraffic
    ForwardResults <- MCForwardResults
    Configs <- MCConfigs
    Default <- MCDefault
    Timeouts = {"request", "read"}
    Limiting = TRUE
SPECIFICATION Spec
INVARIANTS
    TypeOK
    
    OverridesObeyed
    OriginHonest
PROPERTY Answered
CHECK_DEADLOCK FALSE
