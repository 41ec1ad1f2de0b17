------------------------------- MODULE Gateway -------------------------------
(***************************************************************************)
(* What happens to a request between the router and the backend (api.go    *)
(* with the overrides and the error handlers): the layers that             *)
(* registerRoutes wraps around a proxy, from the outermost to the          *)
(* innermost, one step each.                                               *)
(*                                                                         *)
(* The runtime configuration is reloaded at any time. http.TimeoutHandler  *)
(* (external) answers 503 when its time is over and cancels the context,   *)
(* while the handler it wraps goes on in its own goroutine: the client's   *)
(* answer and the place the handler has reached are separate. The backend  *)
(* may never answer.                                                       *)
(*                                                                         *)
(* A header is where it comes from and its value; a tenant list stands for *)
(* its pipe-joined string.                                                 *)
(***************************************************************************)
EXTENDS AuthResult, ClientIP, ErrorHandler, Integers

CONSTANTS
    Requests,
    Deployments,    \* configurations of the process, with the proxies before it
    Traffic,        \* the requests that each deployment's clients may send
    ClientAddress,  \* the address requests really come from
    ForwardResults, \* what the forward authenticator returns, with extra headers
    Configs,        \* runtime configurations found on disk
    Default,        \* the configuration when there is no file
    Timeouts,       \* the timeouts that are configured to be positive
    Limiting        \* whether the limiters may refuse a request

Names == {"Authorization", "X-Scope-OrgID", "x-scope-orgid", "X-Prom-Label-Policy",
          "Sensitive", "Extra"}

\* The names a Connection header can list, canonical like all http.Header.Del
\* removes.
Nameable == Names \ {"x-scope-orgid"}

Features == {"histogram", "hint", "skip", "large"}

\* The classes that mimirOverrides has settings for.
Kinds == {"reads", "writes", "ruler"}

\* A route by what its layers look at: the overrides that apply to it, the kind
\* of its permission, a timeout of its own and the proxy behind it.
Routes ==
    [class : Kinds \cup {"loki_query", "loki_write", "other"},
     permission : {"", "read", "write", "export"}, websocket : BOOLEAN,
     override : {"", "upload"}, proxy : {"query", "write", "third_party", "reverse", "tail"}]

\* What the layers and the proxy look at in a request.
Asked ==
    [route : Routes, grpc : BOOLEAN, features : SUBSET Features, connection : SUBSET Nameable]

\* What an authenticator may return. Extra headers have canonical names.
Outcomes ==
    [err : Errors \cup {"none"}, tenants : Seq(Tenants), policies : Seq(Policies),
     extra : SUBSET Nameable]

Settings == [Kinds -> [block : {"unset", "yes", "no"}, code : Int]]

LokiSettings == [block : SUBSET {"queries", "writes", "histogram", "hint"}]

Configurations ==
    [global : Settings, tenant : [Tenants -> Settings],
     loki : [Tenants -> LokiSettings], lokiDefault : LokiSettings]

ASSUME GatewayAssumption ==
    /\ ClientAddress \in Addresses
    /\ Deployments \subseteq
          [authenticator : {"trust", "forward_auth"}, traffic : DOMAIN Traffic,
           proxies : Seq(Addresses), form : Forms, realIP : BOOLEAN,
           types : SUBSET {"xrealip", "remoteaddr", "xff"}, trusted : Int, setXFF : BOOLEAN,
           overGRPC : SUBSET {"query", "write", "third_party", "tail"}]
    /\ \A k \in DOMAIN Traffic :
          Traffic[k] \subseteq
              [route : Routes, grpc : BOOLEAN, features : SUBSET Features,
               connection : SUBSET Nameable, org : Seq(Tenants \cup {BadTenant}), forged : Seq(Entries), claimed : Entries]
    /\ ForwardResults \subseteq Outcomes
    /\ \A result \in ForwardResults : result.err = "none" => WellFormedGrant(result)
    /\ Configs \cup {Default} \subseteq Configurations
    /\ Limiting \in BOOLEAN

VARIABLES
    deployment,     \* fixed at start
    config,         \* what runtimeconfig.Manager.GetConfig returns
    pc,             \* the layer each request's handler has reached
    req,            \* its route, protocol and features
    hdr,            \* the header map of the request passed on
    orgCtx,         \* the tenants in its context
    addr,           \* its origin: what it says, the address in its context, the one told
    grant,          \* the result of its authentication
    deadline,       \* whether the overrides gave its context a deadline
    answer,         \* the status its client got, 0 for none yet
    blocked,        \* ghost: it was blocked by an override
    inForce         \* ghost: the configurations in force until it passed the overrides

vars == <<deployment, config, pc, req, hdr, orgCtx, addr, grant, deadline, answer, blocked, inForce>>

Headers ==
    [from : {"nobody", "client", "auth"}, val : Seq(Tenants \cup {BadTenant}) \cup Seq(Policies)]

Absent == [from |-> "nobody", val |-> <<>>]

Client(v) == [from |-> "client", val |-> v]

Auth(v) == [from |-> "auth", val |-> v]

NoRequest ==
    [route |-> [class |-> "other", permission |-> "", websocket |-> FALSE, override |-> "",
                proxy |-> "query"],
     grpc |-> FALSE, features |-> {}, connection |-> {}]

\* A result of NewAuthResult, or an error, with the extra headers of the response.
WithExtra(result, extra) ==
    [err |-> result.err, tenants |-> result.tenants, policies |-> result.policies,
     extra |-> extra]

\* The extractors' errors are all NoAddress.
NoOrigin ==
    [from |-> [xff |-> <<>>, realIP |-> Entry(Junk, "plain"), remote |-> Entry(Junk, "plain")],
     ip |-> NoAddress, told |-> NoAddress]

Layers ==
    {"clientip", "xff", "auth", "sensitive", "mimir", "loki", "limits", "route", "proxy", "backend"}

TypeOK ==
    /\ deployment \in Deployments
    /\ config \in Configs \cup {Default}
    /\ pc \in [Requests -> Layers \cup {"idle", "done"}]
    /\ req \in [Requests -> Asked]
    /\ hdr \in [Requests -> [Names -> Headers]]
    /\ addr \in [Requests ->
          [from : [xff : Seq(Entries), realIP : Entries, remote : Entries],
           ip : Addresses \cup {NoAddress}, told : Addresses \cup {Junk, NoAddress}]]
    /\ grant \in [Requests -> Outcomes]
    /\ orgCtx \in [Requests -> Seq(Tenants)]
    /\ deadline \in [Requests -> BOOLEAN]
    /\ answer \in [Requests -> 0 .. 599]
    /\ blocked \in [Requests -> BOOLEAN]
    /\ inForce \in [Requests -> SUBSET (Configs \cup {Default})]
    /\ \A r \in Requests : pc[r] = "done" => answer[r] # 0

Init ==
    /\ deployment \in Deployments
    /\ config = Default
    /\ pc = [r \in Requests |-> "idle"]
    /\ req = [r \in Requests |-> NoRequest]
    /\ hdr = [r \in Requests |-> [n \in Names |-> Absent]]
    /\ orgCtx = [r \in Requests |-> <<>>]
    /\ addr = [r \in Requests |-> NoOrigin]
    /\ grant = [r \in Requests |-> WithExtra(Failure("invalid"), {})]
    /\ deadline = [r \in Requests |-> FALSE]
    /\ answer = [r \in Requests |-> 0]
    /\ blocked = [r \in Requests |-> FALSE]
    /\ inForce = [r \in Requests |-> {}]

-----------------------------------------------------------------------------

\* The answer reaches the client unless a timeout was faster.
Reply(r, code) == answer' = [answer EXCEPT ![r] = IF @ = 0 THEN code ELSE @]

Stop(r, code) ==
    /\ Reply(r, code)
    /\ pc' = [pc EXCEPT ![r] = "done"]

Go(r, layer) ==
    /\ pc' = [pc EXCEPT ![r] = layer]
    /\ UNCHANGED answer

\* A request arrives through the proxies before the gateway, with whatever
\* headers its client sends.
Arrive(r) ==
    /\ pc[r] = "idle"
    /\ \E q \in Traffic[deployment.traffic] :
          /\ req' = [req EXCEPT ![r] = [route |-> q.route, grpc |-> q.grpc,
                features |-> q.features, connection |-> q.connection]]
          /\ hdr' = [hdr EXCEPT ![r] =
                [n \in Names |-> CASE n = "x-scope-orgid" -> Absent
                                   [] n = "X-Scope-OrgID" -> IF q.org = <<>> THEN Absent ELSE Client(q.org)
                                   [] OTHER -> Client(<<>>)]]
          /\ addr' = [addr EXCEPT ![r].from =
                Arriving(ClientAddress, q.forged, q.claimed,
                         deployment.proxies, deployment.form, deployment.realIP)]
    /\ inForce' = [inForce EXCEPT ![r] = {config}]
    /\ Go(r, "clientip")
    /\ UNCHANGED <<deployment, config, orgCtx, grant, deadline, blocked>>

\* clientIPMiddleware; without extractors it is not there.
ExtractClientIP(r) ==
    /\ pc[r] = "clientip"
    /\ addr' = [addr EXCEPT ![r].ip = GetClientIP(deployment.types, deployment.trusted, addr[r].from)]
    /\ Go(r, "xff")
    /\ UNCHANGED <<deployment, config, req, hdr, orgCtx, grant, deadline, blocked, inForce>>

\* xForwardedForMiddleware, if enabled and the client IP middleware is.
SetForwardedFor(r) ==
    /\ pc[r] = "xff"
    /\ addr' = IF deployment.setXFF /\ deployment.types # {}
               THEN [addr EXCEPT ![r].from.xff = XForwardedFor(@, addr[r].ip)] ELSE addr
    /\ Go(r, "auth")
    /\ UNCHANGED <<deployment, config, req, hdr, orgCtx, grant, deadline, blocked, inForce>>

-----------------------------------------------------------------------------
(* authMiddleware *)

\* TrustAuthenticator.Authenticate: the client's own X-Scope-OrgID.
TrustResult(org) ==
    WithExtra(IF org.from = "nobody" THEN Failure("unauthorized")
              ELSE NewAuthResult(<<org.val>>, <<>>), {})

\* Mutant: errors that are not denials are not answered.
StatusOfDenials(err) ==
    CASE err = "unauthorized" -> 401
      [] err = "forbidden"    -> 403
      [] OTHER                -> 0

Status(err) ==
    CASE err = "unauthorized" -> 401
      [] err = "forbidden"    -> 403
      [] OTHER                -> 502

\* AuthResultHeaders: the extra headers, and over them the tenants and policies.
AuthResultHeaders(result, n) ==
    CASE n = "X-Scope-OrgID"         -> Auth(result.tenants)
      [] n = "X-Prom-Label-Policy"   -> IF result.policies = <<>> THEN Absent ELSE Auth(result.policies)
      [] OTHER                       -> IF n \in result.extra THEN Auth(<<>>) ELSE Absent

\* Mutant: the client's label policies are not removed.
StrippedOrgOnly == {"Authorization", "X-Scope-OrgID"}

Stripped == {"Authorization", "X-Scope-OrgID", "X-Prom-Label-Policy"}

\* The client's headers are stripped and the result's are put over the rest;
\* for gRPC the tenant header moves to its lower-case name.
HeadersAfterAuth(h, result, grpc) ==
    LET kept == [n \in Names |-> IF n \in Stripped THEN Absent ELSE h[n]]
        put  == [n \in Names |-> IF AuthResultHeaders(result, n) = Absent
                                 THEN kept[n] ELSE AuthResultHeaders(result, n)]
    IN  IF grpc
        THEN [put EXCEPT !["X-Scope-OrgID"] = Absent, !["x-scope-orgid"] = put["X-Scope-OrgID"]]
        ELSE put

Authenticate(r) ==
    /\ pc[r] = "auth"
    /\ addr' = IF deployment.authenticator = "trust" THEN addr
               ELSE [addr EXCEPT ![r].told = ToldAddress(addr[r].ip, addr[r].from.remote)]
    /\ \E result \in IF deployment.authenticator = "trust"
                     THEN {TrustResult(hdr[r]["X-Scope-OrgID"])} ELSE ForwardResults :
          \/ /\ result.err # "none"
             /\ Stop(r, Status(result.err))
             /\ UNCHANGED <<hdr, orgCtx, grant>>
          \/ /\ result.err = "none"
             /\ hdr' = [hdr EXCEPT ![r] = HeadersAfterAuth(@, result, req[r].grpc)]
             /\ orgCtx' = [orgCtx EXCEPT ![r] = IF req[r].grpc THEN <<>> ELSE result.tenants]
             /\ grant' = [grant EXCEPT ![r] = result]
             /\ Go(r, "sensitive")
    /\ UNCHANGED <<deployment, config, req, deadline, blocked, inForce>>

\* sensitiveHeaderRemovalMiddleware, taken to be configured.
RemoveSensitive(r) ==
    /\ pc[r] = "sensitive"
    /\ hdr' = [hdr EXCEPT ![r]["Sensitive"] = Absent]
    /\ Go(r, "mimir")
    /\ UNCHANGED <<deployment, config, req, orgCtx, addr, grant, deadline, blocked, inForce>>

-----------------------------------------------------------------------------
(* The overrides *)

\* Mutant: the codes of the tenants' settings are not validated.
ValidCodesGlobalOnly(c) ==
    \A k \in DOMAIN c.global : c.global[k].code \div 100 \in {4, 5}

\* unmarshalYAML: only 4xx and 5xx may be answered to a blocked request.
ValidCodes(c) ==
    /\ \A k \in DOMAIN c.global : c.global[k].code \div 100 \in {4, 5}
    /\ \A t \in Tenants, k \in DOMAIN c.global : c.tenant[t][k].code \div 100 \in {4, 5}

\* The built-in settings answer 503 and 401.
ASSUME DefaultAssumption == ValidCodes(Default)

\* The manager loads the file again; it keeps the old one if the new is refused.
Reload ==
    /\ \E c \in Configs :
          /\ ValidCodes(c)
          /\ config' = c
          /\ inForce' = [r \in Requests |->
                IF pc[r] \in {"clientip", "xff", "auth", "sensitive", "mimir", "loki"}
                THEN inForce[r] \cup {c} ELSE inForce[r]]
    /\ UNCHANGED <<deployment, pc, req, hdr, orgCtx, addr, grant, deadline, answer, blocked>>

\* ExtractOrgIDFromHTTPRequest: the canonical header only.
OrgID(r) == hdr[r]["X-Scope-OrgID"].val

\* The settings of a tenant by its whole X-Scope-OrgID; several tenants have none.
HasOwn(org) == Len(org) = 1

\* getMimirOverridesForTenant, GetMimirConfig: global and tenant's settings of
\* one and the same configuration, the defaults when there is no tenant header.
MimirConfig(r) == IF OrgID(r) = <<>> THEN Default ELSE config

\* Mutant: a tenant's false does not override the global setting.
MimirBlockersNoException(c, r) ==
    LET k   == req[r].route.class
        own == IF HasOwn(OrgID(r)) THEN c.tenant[OrgID(r)[1]] ELSE Default.global
    IN  IF k \notin DOMAIN c.global THEN {}
        ELSE {s \in {own[k], c.global[k]} : s.block = "yes"}

\* Wrap: the setting that blocks the request, if any: the tenant's own if it
\* has one, else the global one.
MimirBlockers(c, r) ==
    LET k   == req[r].route.class
        own == IF HasOwn(OrgID(r)) THEN c.tenant[OrgID(r)[1]] ELSE Default.global
    IN  IF k \notin DOMAIN c.global THEN {}
        ELSE {s \in {IF own[k].block = "unset" THEN c.global[k] ELSE own[k]} : s.block = "yes"}

MimirOverrides(r) ==
    /\ pc[r] = "mimir"
    /\ LET blockers == MimirBlockers(MimirConfig(r), r)
       IN  \/ /\ blockers = {}
              /\ Go(r, "loki")
              /\ UNCHANGED blocked
           \/ \E s \in blockers :
              /\ Stop(r, s.code)
              /\ blocked' = [blocked EXCEPT ![r] = TRUE]
    /\ UNCHANGED <<deployment, config, req, hdr, orgCtx, addr, grant, deadline, inForce>>

\* getLokiOverridesFromRequest, GetLokiConfig
LokiConfig(r) == IF HasOwn(OrgID(r)) THEN config.loki[OrgID(r)[1]] ELSE Default.lokiDefault

\* The status a Loki override answers, or 0: blocked queries, then disabled log
\* volume histograms, then blocked hint queries; blocked writes.
LokiBlock(o, r) ==
    CASE req[r].route.class = "loki_query" ->
             IF "queries" \in o.block THEN 401
             ELSE IF "histogram" \in req[r].features \cap o.block THEN 403
             ELSE IF "hint" \in req[r].features \cap o.block THEN 401 ELSE 0
      [] req[r].route.class = "loki_write" -> IF "writes" \in o.block THEN 401 ELSE 0
      [] OTHER -> 0

\* A histogram or hint query that is not blocked gets a deadline.
LokiOverrides(r) ==
    /\ pc[r] = "loki"
    /\ LET code == LokiBlock(LokiConfig(r), r)
       IN  \/ /\ code = 0
              /\ Go(r, "limits")
              /\ deadline' = [deadline EXCEPT ![r] =
                     req[r].route.class = "loki_query" /\ req[r].features \cap {"histogram", "hint"} # {}]
              /\ UNCHANGED blocked
           \/ /\ code # 0
              /\ Stop(r, code)
              /\ blocked' = [blocked EXCEPT ![r] = TRUE]
              /\ UNCHANGED deadline
    /\ UNCHANGED <<deployment, config, req, hdr, orgCtx, addr, grant, inForce>>

-----------------------------------------------------------------------------
(* The limits, the route's own layers and the proxy *)

\* The connection's TTL changes a response header only; the request limiter
\* answers 503 when too many requests are in flight.
Limit(r) ==
    /\ pc[r] = "limits"
    /\ Go(r, "route") \/ (Limiting /\ Stop(r, 503))
    /\ UNCHANGED <<deployment, config, req, hdr, orgCtx, addr, grant, deadline, blocked, inForce>>

\* NewAPI puts the middlewares for writes, when they are configured, around the
\* proxy that registerWriteRoutes uses; rulers and others have their own.
WriteHandler(r) == req[r].route.proxy = "write"

\* newDropSkipLabelValidationMiddleware: X-Mimir-SkipLabelNameValidation is refused.
RouteMiddleware(r) ==
    /\ pc[r] = "route"
    /\ \/ /\ WriteHandler(r) /\ "skip" \in req[r].features
          /\ Stop(r, 400)
       \/ /\ ~(WriteHandler(r) /\ "skip" \in req[r].features)
          /\ Go(r, "proxy")
    /\ UNCHANGED <<deployment, config, req, hdr, orgCtx, addr, grant, deadline, blocked, inForce>>

\* errorHandler of the proxies, and of newReverseProxy, which answers 502 to all.
ErrorStatus(r, err) ==
    IF req[r].route.proxy = "reverse" THEN 502 ELSE StatusCode(err, answer[r] # 0, FALSE)

\* After Director, httputil.ReverseProxy removes the headers that the client's
\* Connection header lists; HTTP over gRPC passes all headers on.
Dropped(r) ==
    IF req[r].route.proxy \in deployment.overGRPC THEN {} ELSE req[r].connection

\* The transport sends nothing once the context is cancelled.
Proxy(r) ==
    /\ pc[r] = "proxy"
    /\ \/ /\ answer[r] = 0
          /\ hdr' = [hdr EXCEPT ![r] =
                [n \in Names |-> IF n \in Dropped(r) THEN Absent ELSE hdr[r][n]]]
          /\ Go(r, "backend")
       \/ /\ answer[r] # 0
          /\ Stop(r, ErrorStatus(r, "canceled"))
          /\ UNCHANGED hdr
    /\ UNCHANGED <<deployment, config, req, orgCtx, addr, grant, deadline, blocked, inForce>>

\* The errors the transport may return for r: the client is gone, the network
\* or a read of the body times out, and the rest; newMaxBytesMiddleware limits
\* the body of a write.
Failures(r) ==
    {"canceled", "unexpected EOF", "net read", "net op", "other"} \cup
        (IF WriteHandler(r) /\ "large" \in req[r].features THEN {"too large"} ELSE {})

BackendReplies(r) ==
    /\ pc[r] = "backend"
    /\ \E code \in {200} \cup {ErrorStatus(r, err) : err \in Failures(r)} : Stop(r, code)
    /\ UNCHANGED <<deployment, config, req, hdr, orgCtx, addr, grant, deadline, blocked, inForce>>

\* The context of the request ends: the transport gives up.
ContextEnds(r) ==
    /\ pc[r] = "backend"
    /\ \/ answer[r] # 0 /\ Stop(r, ErrorStatus(r, "canceled"))
       \/ deadline[r] /\ Stop(r, ErrorStatus(r, "deadline"))
    /\ UNCHANGED <<deployment, config, req, hdr, orgCtx, addr, grant, deadline, blocked, inForce>>

\* timeoutMiddleware, or the route's own override of it.
RouteTimeoutName(route) ==
    CASE route.override # "" -> route.override
      [] OTHER -> CASE route.permission \in {"read", "write", "export"} -> route.permission
                    [] OTHER -> "request"

\* Mutant: only the route's own timeout is there, around its handler.
TimeoutsOnRoutesOnly(r) ==
    IF req[r].route.websocket \/ pc[r] \notin {"route", "proxy", "backend"} THEN {}
    ELSE {RouteTimeoutName(req[r].route)} \cap Timeouts

\* The timeouts that may end the wait for r: the global one around
\* authentication and all that follows, the route's own around its handler.
\* Websocket routes have neither.
TimeoutsOn(r) ==
    IF req[r].route.websocket THEN {}
    ELSE Timeouts \cap
           ({"request"} \cup (IF pc[r] \in {"route", "proxy", "backend"}
                              THEN {RouteTimeoutName(req[r].route)} ELSE {}))

\* A TimeoutHandler answers; the handler inside goes on.
TimeOut(r) ==
    /\ pc[r] \notin {"idle", "clientip", "xff", "done"} /\ answer[r] = 0
    /\ TimeoutsOn(r) # {}
    /\ Reply(r, 503)
    /\ UNCHANGED <<deployment, config, pc, req, hdr, orgCtx, addr, grant, deadline, blocked, inForce>>

\* The handler has returned and the client has its answer.
Finish(r) ==
    /\ pc[r] = "done"
    /\ pc' = [pc EXCEPT ![r] = "idle"]
    /\ req' = [req EXCEPT ![r] = NoRequest]
    /\ hdr' = [hdr EXCEPT ![r] = [n \in Names |-> Absent]]
    /\ orgCtx' = [orgCtx EXCEPT ![r] = <<>>]
    /\ addr' = [addr EXCEPT ![r] = NoOrigin]
    /\ grant' = [grant EXCEPT ![r] = WithExtra(Failure("invalid"), {})]
    /\ deadline' = [deadline EXCEPT ![r] = FALSE]
    /\ answer' = [answer EXCEPT ![r] = 0]
    /\ blocked' = [blocked EXCEPT ![r] = FALSE]
    /\ inForce' = [inForce EXCEPT ![r] = {}]
    /\ UNCHANGED <<deployment, config>>

\* The gateway's own steps, as opposed to the backend's.
Handle(r) ==
    \/ ExtractClientIP(r) \/ SetForwardedFor(r)
    \/ Authenticate(r) \/ RemoveSensitive(r) \/ MimirOverrides(r) \/ LokiOverrides(r)
    \/ Limit(r) \/ RouteMiddleware(r) \/ Proxy(r) \/ ContextEnds(r) \/ TimeOut(r)

Next ==
    \/ \E r \in Requests : Arrive(r) \/ Handle(r) \/ BackendReplies(r) \/ Finish(r)
    \/ Reload

\* Goroutines run and timers fire; the authenticator answers (ForwardAuth's
\* CallsEnd); nothing is assumed of the backend.
Fairness == \A r \in Requests : WF_vars(Handle(r))

Spec == Init /\ [][Next]_vars /\ Fairness

-----------------------------------------------------------------------------
(* Properties *)

\* A request at the backend carries the tenants and label policies that its
\* authentication granted, under the name its protocol needs, and nothing the
\* client sent under those names; the context names the same tenants. What is
\* missing, on its way to an HTTP backend, is what the request's own Connection
\* header has declared to be for the gateway only.
BackendSeesGrant ==
    \A r \in Requests : pc[r] = "backend" =>
        LET org   == IF req[r].grpc THEN "x-scope-orgid" ELSE "X-Scope-OrgID"
            other == IF req[r].grpc THEN "X-Scope-OrgID" ELSE "x-scope-orgid"
            Is(n, header) == hdr[r][n] = IF n \in Dropped(r) THEN Absent ELSE header
        IN  /\ WellFormedGrant(grant[r])
            /\ Is(org, Auth(grant[r].tenants)) /\ hdr[r][other] = Absent
            /\ Is("X-Prom-Label-Policy",
                  IF grant[r].policies = <<>> THEN Absent ELSE Auth(grant[r].policies))
            /\ hdr[r]["Authorization"].from # "client" /\ hdr[r]["Sensitive"] = Absent
            /\ ~req[r].grpc => orgCtx[r] = grant[r].tenants

\* What the operator's file c says of a request of the single tenant t.
Forbids(c, t, r) ==
    LET class == req[r].route.class
    IN  \/ /\ class \in DOMAIN c.global
           /\ \/ c.tenant[t][class].block = "yes"
              \/ c.tenant[t][class].block # "no" /\ c.global[class].block = "yes"
        \/ class = "loki_write" /\ "writes" \in c.loki[t].block
        \/ class = "loki_query" /\ c.loki[t].block \cap ({"queries"} \cup req[r].features) # {}

\* Overrides act as one consistent configuration: a request of one tenant goes
\* on to the backend only if a configuration that was in force while it was
\* being admitted lets it, and is blocked only if one forbids it, however often
\* the file is reloaded meanwhile; whoever is blocked gets an error, whatever
\* code the file says. (gRPC requests have no overrides, requests of several
\* tenants only the global ones.)
OverridesObeyed ==
    \A r \in Requests :
        /\ blocked[r] => answer[r] \in 400 .. 599
        /\ grant[r].err = "none" /\ Len(grant[r].tenants) = 1 /\ ~req[r].grpc =>
              LET t == grant[r].tenants[1]
              IN  /\ pc[r] = "backend" => \E c \in inForce[r] : ~Forbids(c, t, r)
                  /\ blocked[r] => \E c \in inForce[r] : Forbids(c, t, r)

\* The address in X-Forwarded-For can be made up by the client: the extractors
\* look at an entry it wrote itself, or at an X-Real-IP no proxy has set.
Forgeable(d) ==
    \/ "xrealip" \in d.types /\ ~(d.realIP /\ d.proxies # <<>>)
    \/ "xff" \in d.types /\ "remoteaddr" \notin d.types /\ d.trusted >= Len(d.proxies)

\* The configuration fits the proxies: the entry the outermost one wrote is the
\* one that is taken, or there is none and the connection is the client's.
Exact(d) ==
    \/ d.proxies = <<>> /\ d.types \subseteq {"remoteaddr"}
    \/ d.types = {"xff"} /\ d.proxies # <<>> /\ d.trusted = Len(d.proxies) - 1
    \/ "xrealip" \in d.types /\ d.realIP /\ Len(d.proxies) = 1 /\ d.form # "brackets"

\* Whatever X-Forwarded-For and X-Real-IP the client sends, the auth service is
\* told the client's own address if the configuration fits the proxies, and
\* otherwise still no address the client made up, unless the configuration
\* trusts more entries than the proxies write.
OriginHonest ==
    \A r \in Requests : addr[r].told # NoAddress =>
        /\ Exact(deployment) => addr[r].told = ClientAddress
        /\ ~Forgeable(deployment) =>
              addr[r].told \in {ClientAddress} \cup Elements(deployment.proxies)

\* Every request other than a websocket's is answered, although the backend
\* may not answer and the handler may outlive the answer.
Answered ==
    \A r \in Requests : (pc[r] = "clientip" /\ ~req[r].route.websocket) ~> (answer[r] # 0)
==============================================================================
