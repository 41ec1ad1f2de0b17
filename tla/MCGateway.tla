------------------------------ MODULE MCGateway ------------------------------
(* Gateway for TLC: one route of every class, and configurations that contradict
   each other, one of them with a code that must be refused. *)
EXTENDS Gateway, TLC

CONSTANTS t1, t2, sel, p1, p2, evil

Route(class, permission, proxy) ==
    [class |-> class, permission |-> permission, websocket |-> FALSE,
     override |-> "", proxy |-> proxy]

Plain(class, permission, proxy) == [route |-> Route(class, permission, proxy), features |-> {}]

\* One route of every class, with the features its layers look at and some that
\* they must not.
MCRoutes ==
    {[Plain("loki_query", "read", "query") EXCEPT !.features = f] : f \in {{}, {"histogram"}, {"hint"}}}
    \cup {[Plain("writes", "write", proxy) EXCEPT !.features = f] :
              proxy \in {"write", "third_party"}, f \in {{}, {"skip"}, {"large"}}}
    \cup {Plain("reads", "read", "query"), Plain("ruler", "write", "reverse"),
          Plain("loki_write", "write", "write"), Plain("other", "", "query"),
          Plain("other", "write", "third_party"),
          [Plain("other", "write", "write") EXCEPT !.route.override = "upload"],
          [Plain("other", "read", "tail") EXCEPT !.route.websocket = TRUE]}

NotSent == Entry(Junk, "plain")

\* Requests for all routes, with the X-Scope-OrgID headers the client may send.
MCRequests(orgs) ==
    {q @@ [grpc |-> grpc, org |-> org, connection |-> {}, forged |-> <<>>, claimed |-> NotSent] :
        q \in MCRoutes, grpc \in BOOLEAN, org \in orgs}

\* Requests whose Connection header lists headers that others set, too.
ConnectionRequests ==
    {q @@ [grpc |-> grpc, org |-> <<t1>>, connection |-> names, forged |-> <<>>, claimed |-> NotSent] :
        q \in {Plain("reads", "read", "query"), Plain("other", "write", "write"),
                Plain("ruler", "write", "reverse")},
        grpc \in BOOLEAN,
        names \in {{"X-Scope-OrgID"}, {"X-Prom-Label-Policy", "Extra"}, {"Authorization"}}}

\* No proxy in front, no extractors.
Direct(authenticator) ==
    [authenticator |-> authenticator, traffic |-> authenticator, proxies |-> <<>>, form |-> "plain",
     realIP |-> FALSE, types |-> {}, trusted |-> 0, setXFF |-> FALSE,
     overGRPC |-> {"write"}]

\* One request with any origin: forged entries and a claimed X-Real-IP.
OriginRequests ==
    [route : {[Route("other", "read", "tail") EXCEPT !.websocket = TRUE]}, grpc : {FALSE},
     features : {{}}, connection : {{}}, org : {<<>>},
     forged : {<<>>, <<Entry(evil, "plain")>>, <<NotSent>>, <<Entry(evil, "port"), Entry(evil, "plain")>>},
     claimed : {NotSent, Entry(evil, "port")}]

\* Zero to two proxies, extractors that fit them and ones that do not.
Behind(proxies, types, trusted, form, realIP) ==
    [Direct("forward_auth") EXCEPT !.traffic = "origin", !.proxies = proxies, !.types = types,
        !.trusted = trusted, !.form = form, !.realIP = realIP, !.setXFF = TRUE]

MCDeployments ==
    {Direct("trust"), Direct("forward_auth")}
    \cup {Behind(proxies, {"xff"}, trusted, "port", FALSE) :
              proxies \in {<<>>, <<p1>>, <<p1, p2>>}, trusted \in {0, 1}}
    \cup {Behind(proxies, types, 0, "plain", FALSE) :
              proxies \in {<<>>, <<p1>>}, types \in {{}, {"remoteaddr"}, {"remoteaddr", "xff"}}}
    \cup {Behind(<<p1>>, {"xrealip", "xff"}, 0, form, realIP) :
              form \in {"plain", "brackets"}, realIP \in BOOLEAN}

MCTraffic ==
    [trust        |-> MCRequests({<<>>, <<t1>>, <<t1, t2>>, <<BadTenant>>}),
     forward_auth |-> MCRequests({<<>>, <<t1>>}) \cup ConnectionRequests,
     origin       |-> OriginRequests]

Grant(tenants, policies, extra) ==
    WithExtra(NewAuthResult(<<tenants>>, policies), extra)

MCForwardResults ==
    {Grant(<<t2>>, <<>>, {"Extra", "X-Scope-OrgID"}),
     Grant(<<t1>>, <<[tenant |-> t1, selector |-> sel]>>, {"Sensitive"}),
     WithExtra(Failure("forbidden"), {}), WithExtra(Failure("invalid"), {})}

Setting(block, code) == [k \in Kinds |-> [block |-> block, code |-> code]]

LokiOpen == [block |-> {}]

MCDefault ==
    [global |-> Setting("unset", 503), tenant |-> [t \in Tenants |-> Setting("unset", 401)],
     loki |-> [t \in Tenants |-> LokiOpen], lokiDefault |-> LokiOpen]

\* All is blocked but for t1; t1 alone is blocked; t2's Loki queries; a bad code.
MCConfigs ==
    {[MCDefault EXCEPT !.global = Setting("yes", 503), !.tenant[t1] = Setting("no", 401)],
     [MCDefault EXCEPT !.tenant[t1] = Setting("yes", 429),
                       !.loki[t1] = [block |-> {"writes", "histogram", "hint"}]],
     [MCDefault EXCEPT !.loki[t2] = [block |-> {"queries"}]],
     [MCDefault EXCEPT !.tenant[t2] = Setting("yes", 302)]}
===============================================================================
