SPECIFICATION Spec
CONSTANTS
    t1 = t1
    t2 = t2
    sel = sel
    c = c
    bar = bar
    BadTenant = BadTenant
    MalformedEntry = MalformedEntry
    Tenants = {t1, t2}
    Selectors = {sel}
    Requests = {p1, p2}
    Bar = bar
    Letters = {c}
    Creds <- MCCreds
    Scopes <- MCScopes
    Responses <- MCResponses
    Timeout = 1
    TTL = 1
    Horizon = 3
    MaxRulings = 2
INVARIANTS TypeOK GrantsWellFormed
PROPERTIES GrantsBounded DenialsFresh CallsEnd
