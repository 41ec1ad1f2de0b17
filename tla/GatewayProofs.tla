---------------------------- MODULE GatewayProofs ----------------------------
(* Proofs that the backend sees what was granted, that overrides act as one   *)
(* configuration and that the auth service is not told a made-up address, for *)
(* any requests, tenants, configurations, deployments and forged headers.     *)
EXTENDS Gateway, SequenceTheorems, TLAPS

\* Where a request is before its authentication, from there on, and once its
\* sensitive headers are gone; where the overrides can still act on it.
Before == {"idle", "clientip", "xff", "auth"}

Past == {"mimir", "loki", "limits", "route", "proxy"}

After == {"sensitive"} \cup Past

Admitting == {"clientip", "xff", "auth", "sensitive", "mimir", "loki"}

\* What reaches the backend.
Reached(r) ==
    /\ WellFormedGrant(grant[r])
    /\ req[r].grpc =>
          /\ hdr[r]["x-scope-orgid"] =
                IF "x-scope-orgid" \in Dropped(r) THEN Absent ELSE Auth(grant[r].tenants)
          /\ hdr[r]["X-Scope-OrgID"] = Absent
    /\ ~req[r].grpc =>
          /\ hdr[r]["X-Scope-OrgID"] =
                IF "X-Scope-OrgID" \in Dropped(r) THEN Absent ELSE Auth(grant[r].tenants)
          /\ hdr[r]["x-scope-orgid"] = Absent
          /\ orgCtx[r] = grant[r].tenants
    /\ hdr[r]["X-Prom-Label-Policy"] =
          IF "X-Prom-Label-Policy" \in Dropped(r) THEN Absent
          ELSE IF grant[r].policies = <<>> THEN Absent ELSE Auth(grant[r].policies)
    /\ hdr[r]["Authorization"].from # "client" /\ hdr[r]["Sensitive"] = Absent

\* The client cannot spell the gRPC name of the tenant header. After its
\* authentication a request carries what was granted, until the proxy drops what
\* the Connection header lists.
GrantInv(r) ==
    /\ pc[r] \in Before =>
          /\ hdr[r]["x-scope-orgid"] = Absent
          /\ hdr[r]["X-Scope-OrgID"].val \in Seq(Tenants \cup {BadTenant})
    /\ pc[r] \in After =>
          /\ WellFormedGrant(grant[r])
          /\ req[r].grpc => /\ hdr[r]["x-scope-orgid"] = Auth(grant[r].tenants)
                            /\ hdr[r]["X-Scope-OrgID"] = Absent
          /\ ~req[r].grpc => /\ hdr[r]["X-Scope-OrgID"] = Auth(grant[r].tenants)
                             /\ hdr[r]["x-scope-orgid"] = Absent
                             /\ orgCtx[r] = grant[r].tenants
          /\ hdr[r]["X-Prom-Label-Policy"] =
                IF grant[r].policies = <<>> THEN Absent ELSE Auth(grant[r].policies)
          /\ hdr[r]["Authorization"].from # "client"
    /\ pc[r] \in Past => hdr[r]["Sensitive"] = Absent
    /\ pc[r] = "backend" => Reached(r)

\* A handler that is still running has not answered, but a time-out may have;
\* only a request that has ended was blocked, with an error.
AnswerInv(r) ==
    /\ pc[r] = "idle" => answer[r] = 0
    /\ pc[r] \in Layers => answer[r] \in {0, 503}
    /\ blocked[r] => pc[r] = "done" /\ answer[r] \in 400 .. 599

\* A request of one tenant, which has overrides.
OneTenant(r) == grant[r].err = "none" /\ Len(grant[r].tenants) = 1 /\ ~req[r].grpc

Allowed(r) == \E c \in inForce[r] : ~Forbids(c, grant[r].tenants[1], r)

\* The configuration is noted for as long as an override may look at it. Mimir's
\* and Loki's overrides look at different routes, so that what one of them lets
\* pass the other does not change.
OverrideInv(r) ==
    /\ pc[r] \in Admitting => config \in inForce[r]
    /\ OneTenant(r) =>
          /\ pc[r] = "loki" /\ req[r].route.class \in Kinds => Allowed(r)
          /\ pc[r] \in {"limits", "route", "proxy", "backend"} => Allowed(r)
          /\ blocked[r] => \E c \in inForce[r] : Forbids(c, grant[r].tenants[1], r)

\* Who connects to the gateway.
LastHop ==
    IF deployment.proxies = <<>> THEN ClientAddress
    ELSE deployment.proxies[Len(deployment.proxies)]

\* An address the auth service may be told.
Honest(a) ==
    /\ Exact(deployment) => a = ClientAddress
    /\ ~Forgeable(deployment) => a \in {ClientAddress} \cup Elements(deployment.proxies)

\* What a request says of its origin is what the proxies have made of it; the
\* address found in it is honest, and found whenever the configuration is exact
\* and there is a proxy.
OriginInv(r) ==
    /\ pc[r] = "clientip" =>
          \E forged \in Seq(Entries), claimed \in Entries :
              addr[r].from = Arriving(ClientAddress, forged, claimed, deployment.proxies,
                                      deployment.form, deployment.realIP)
    /\ pc[r] \in {"xff", "auth"} =>
          /\ addr[r].from.remote.addr = LastHop
          /\ addr[r].ip # NoAddress => Honest(addr[r].ip)
          /\ addr[r].ip = NoAddress /\ Exact(deployment) => deployment.proxies = <<>>
    /\ addr[r].told # NoAddress => Honest(addr[r].told)

RequestInv(r) == GrantInv(r) /\ AnswerInv(r) /\ OverrideInv(r) /\ OriginInv(r)

IInv == TypeOK /\ ValidCodes(config) /\ \A r \in Requests : RequestInv(r)

-----------------------------------------------------------------------------
(* Authentication *)

\* A header of the authenticator is not absent.
LEMMA AuthPresent == \A v : Auth(v) # Absent /\ Auth(v).from = "auth" /\ Auth(v).val = v
BY DEF Auth, Absent

\* NewAuthResult returns a well-formed grant or an error.
LEMMA NewAuthResultSound ==
    ASSUME NEW org \in Seq(Tenants \cup {BadTenant})
    PROVE  LET result == NewAuthResult(<<org>>, <<>>)
           IN  \/ result = Failure("invalid")
               \/ /\ result = [err |-> "none", tenants |-> org, policies |-> <<>>]
                  /\ org \in Seq(Tenants) /\ WellFormedGrant(result)
<1> DEFINE result == NewAuthResult(<<org>>, <<>>)
<1>1. <<org>> # <<>> /\ <<org>>[1] = org /\ Len(<<org>>) = 1
  OBVIOUS
<1>2. TenantIDs(<<org>>) = org
  BY <1>1 DEF TenantIDs
<1>3. CASE /\ ParsesTenantIDs(<<org>>) /\ Len(TenantIDs(<<org>>)) > 0
           /\ ParsesLabelPolicies(<<>>)
           /\ \A i \in DOMAIN <<>> : <<>>[i].tenant \in Elements(TenantIDs(<<org>>))
  <2>1. result = [err |-> "none", tenants |-> org, policies |-> <<>>]
    BY <1>2, <1>3, Zenon DEF NewAuthResult
  <2>2. Elements(org) \subseteq Tenants /\ NoDuplicates(org) /\ Len(org) > 0
    BY <1>1, <1>2, <1>3 DEF ParsesTenantIDs
  <2>3. org \in Seq(Tenants)
    <3>1. Len(org) \in Nat /\ DOMAIN org = 1 .. Len(org)
      BY LenProperties
    <3>2. \A k \in 1 .. Len(org) : org[k] \in Tenants
      BY <2>2, <3>1 DEF Elements
    <3>3. QED
      BY <3>1, <3>2
  <2>4. \A i \in DOMAIN <<>> : FALSE
    OBVIOUS
  <2>5. WellFormedGrant(result)
    BY <2>1, <2>2, <2>4 DEF WellFormedGrant
  <2>6. QED
    BY <2>1, <2>3, <2>5
<1>4. CASE ~ /\ ParsesTenantIDs(<<org>>) /\ Len(TenantIDs(<<org>>)) > 0
             /\ ParsesLabelPolicies(<<>>)
             /\ \A i \in DOMAIN <<>> : <<>>[i].tenant \in Elements(TenantIDs(<<org>>))
  BY <1>4, Zenon DEF NewAuthResult
<1>5. QED
  BY <1>3, <1>4

\* So does the trust authenticator, for whatever tenants the client names.
LEMMA TrustResultSound ==
    ASSUME NEW org, org.val \in Seq(Tenants \cup {BadTenant})
    PROVE  /\ TrustResult(org) \in Outcomes
           /\ TrustResult(org).err = "none" => WellFormedGrant(TrustResult(org))
<1>1. ASSUME NEW e \in Errors
      PROVE  WithExtra(Failure(e), {}) \in Outcomes /\ WithExtra(Failure(e), {}).err # "none"
  BY DEF WithExtra, Failure, Outcomes, Errors
<1>2. CASE org.from = "nobody"
  <2>1. TrustResult(org) = WithExtra(Failure("unauthorized"), {})
    BY <1>2 DEF TrustResult
  <2>2. "unauthorized" \in Errors
    BY DEF Errors
  <2>3. QED
    BY <1>1, <2>1, <2>2
<1>3. CASE org.from # "nobody"
  <2> DEFINE result == NewAuthResult(<<org.val>>, <<>>)
  <2>1. TrustResult(org) = WithExtra(result, {})
    BY <1>3 DEF TrustResult
  <2>2. \/ result = Failure("invalid")
        \/ /\ result = [err |-> "none", tenants |-> org.val, policies |-> <<>>]
           /\ org.val \in Seq(Tenants) /\ WellFormedGrant(result)
    BY NewAuthResultSound
  <2> HIDE DEF result
  <2>3. CASE result = Failure("invalid")
    <3>1. "invalid" \in Errors
      BY DEF Errors
    <3>2. QED
      BY <1>1, <2>1, <2>3, <3>1
  <2>4. CASE /\ result = [err |-> "none", tenants |-> org.val, policies |-> <<>>]
             /\ org.val \in Seq(Tenants) /\ WellFormedGrant(result)
    <3>1. TrustResult(org) = [err |-> "none", tenants |-> org.val, policies |-> <<>>, extra |-> {}]
      BY <2>1, <2>4 DEF WithExtra
    <3>2. <<>> \in Seq(Policies)
      BY EmptySeq
    <3>3. TrustResult(org) \in Outcomes
      BY <2>4, <3>1, <3>2 DEF Outcomes
    <3>4. WellFormedGrant(TrustResult(org))
      BY <2>4, <3>1 DEF WellFormedGrant
    <3>5. QED
      BY <3>3, <3>4
  <2>5. QED
    BY <2>2, <2>3, <2>4
<1>4. QED
  BY <1>2, <1>3

\* What authMiddleware leaves in the headers, whatever the client has sent.
LEMMA HeadersSound ==
    ASSUME NEW h, NEW result \in Outcomes, NEW grpc \in BOOLEAN,
           h["x-scope-orgid"] = Absent
    PROVE  LET new == HeadersAfterAuth(h, result, grpc)
           IN  /\ grpc => /\ new["x-scope-orgid"] = Auth(result.tenants)
                          /\ new["X-Scope-OrgID"] = Absent
               /\ ~grpc => /\ new["X-Scope-OrgID"] = Auth(result.tenants)
                           /\ new["x-scope-orgid"] = Absent
               /\ new["X-Prom-Label-Policy"] =
                     IF result.policies = <<>> THEN Absent ELSE Auth(result.policies)
               /\ new["Authorization"].from # "client"
<1> DEFINE kept == [n \in Names |-> IF n \in Stripped THEN Absent ELSE h[n]]
           put  == [n \in Names |-> IF AuthResultHeaders(result, n) = Absent
                                    THEN kept[n] ELSE AuthResultHeaders(result, n)]
           new  == HeadersAfterAuth(h, result, grpc)
<1>1. /\ AuthResultHeaders(result, "X-Scope-OrgID") = Auth(result.tenants)
      /\ AuthResultHeaders(result, "X-Prom-Label-Policy") =
            IF result.policies = <<>> THEN Absent ELSE Auth(result.policies)
  <2>1. \A n : n = "X-Scope-OrgID" => AuthResultHeaders(result, n) = Auth(result.tenants)
    BY DEF AuthResultHeaders
  <2>2. \A n : n = "X-Prom-Label-Policy" => AuthResultHeaders(result, n) =
                   IF result.policies = <<>> THEN Absent ELSE Auth(result.policies)
    BY DEF AuthResultHeaders
  <2>3. QED
    BY <2>1, <2>2, Zenon
<1>2. AuthResultHeaders(result, "x-scope-orgid") = Absent
  <2>1. "x-scope-orgid" \notin result.extra
    BY DEF Outcomes, Nameable
  <2>2. QED
    BY <2>1 DEF AuthResultHeaders
<1>3. AuthResultHeaders(result, "Authorization") \in {Absent, Auth(<<>>)}
  BY DEF AuthResultHeaders
<1>4. /\ kept["Authorization"] = Absent /\ kept["X-Scope-OrgID"] = Absent
      /\ kept["X-Prom-Label-Policy"] = Absent /\ kept["x-scope-orgid"] = Absent
  BY DEF Stripped, Names
<1>5. /\ put["X-Scope-OrgID"] = Auth(result.tenants) /\ put["x-scope-orgid"] = Absent
      /\ put["X-Prom-Label-Policy"] =
            IF result.policies = <<>> THEN Absent ELSE Auth(result.policies)
      /\ put["Authorization"] \in {Absent, Auth(<<>>)}
  <2>1. \A n \in Names : put[n] = IF AuthResultHeaders(result, n) = Absent
                                  THEN kept[n] ELSE AuthResultHeaders(result, n)
    OBVIOUS
  <2>2. /\ "X-Scope-OrgID" \in Names /\ "x-scope-orgid" \in Names
        /\ "X-Prom-Label-Policy" \in Names /\ "Authorization" \in Names
    BY DEF Names
  <2> HIDE DEF put, kept
  <2>3. QED
    BY <1>1, <1>2, <1>3, <1>4, <2>1, <2>2, AuthPresent, Zenon
<1>6. DOMAIN put = Names
  OBVIOUS
<1>7. new = IF grpc THEN [put EXCEPT !["X-Scope-OrgID"] = Absent,
                                     !["x-scope-orgid"] = put["X-Scope-OrgID"]]
            ELSE put
  BY DEF HeadersAfterAuth
<1>8. Absent.from # "client" /\ Auth(<<>>).from # "client"
  BY DEF Absent, Auth
<1>9. put["Authorization"].from # "client"
  <2> HIDE DEF put
  <2> QED
    BY <1>5, <1>8
<1> HIDE DEF put, new
<1>10. CASE grpc
  <2>1. new = [put EXCEPT !["X-Scope-OrgID"] = Absent, !["x-scope-orgid"] = put["X-Scope-OrgID"]]
    BY <1>7, <1>10
  <2>2. /\ new["x-scope-orgid"] = put["X-Scope-OrgID"] /\ new["X-Scope-OrgID"] = Absent
        /\ new["X-Prom-Label-Policy"] = put["X-Prom-Label-Policy"]
        /\ new["Authorization"] = put["Authorization"]
    BY <1>6, <2>1 DEF Names
  <2>3. QED
    BY <1>5, <1>9, <1>10, <2>2 DEF new
<1>11. CASE ~grpc
  <2>1. new = put
    BY <1>7, <1>11
  <2>2. QED
    BY <1>5, <1>9, <1>11, <2>1 DEF new
<1>12. QED
  BY <1>10, <1>11

\* They are headers.
LEMMA HeadersTyped ==
    ASSUME NEW h \in [Names -> Headers], NEW result \in Outcomes, NEW grpc \in BOOLEAN
    PROVE  HeadersAfterAuth(h, result, grpc) \in [Names -> Headers]
<1> DEFINE kept == [n \in Names |-> IF n \in Stripped THEN Absent ELSE h[n]]
           put  == [n \in Names |-> IF AuthResultHeaders(result, n) = Absent
                                    THEN kept[n] ELSE AuthResultHeaders(result, n)]
<1>1. /\ result.tenants \in Seq(Tenants) /\ result.policies \in Seq(Policies)
      /\ result.tenants \in Seq(Tenants \cup {BadTenant})
  <2>1. result.tenants \in Seq(Tenants) /\ result.policies \in Seq(Policies)
    BY DEF Outcomes
  <2>2. QED
    BY <2>1, SeqMonotonic
<1>2. <<>> \in Seq(Policies)
  BY EmptySeq
<1>3. Absent \in Headers
  BY <1>2 DEF Absent, Headers
<1>4. ASSUME NEW v, v \in Seq(Tenants \cup {BadTenant}) \cup Seq(Policies)
      PROVE  Auth(v) \in Headers
  BY <1>4 DEF Auth, Headers
<1>5. Auth(result.tenants) \in Headers /\ Auth(result.policies) \in Headers /\ Auth(<<>>) \in Headers
  BY <1>1, <1>2, <1>4
<1>6. ASSUME NEW n \in Names PROVE AuthResultHeaders(result, n) \in Headers
  BY <1>3, <1>5 DEF AuthResultHeaders
<1>7. put \in [Names -> Headers]
  BY <1>3, <1>6
<1>8. HeadersAfterAuth(h, result, grpc) =
         IF grpc THEN [put EXCEPT !["X-Scope-OrgID"] = Absent,
                                  !["x-scope-orgid"] = put["X-Scope-OrgID"]]
         ELSE put
  BY DEF HeadersAfterAuth
<1>9. "X-Scope-OrgID" \in Names
  BY DEF Names
<1> HIDE DEF put
<1>10. QED
  BY <1>3, <1>7, <1>8, <1>9

-----------------------------------------------------------------------------
(* The overrides *)

\* The codes that a file may give are errors.
LEMMA CodeIsError ==
    ASSUME NEW code \in Int, code \div 100 \in {4, 5}
    PROVE  code \in 400 .. 599
OBVIOUS

\* The configurations in force are configurations.
LEMMA ConfigTyped ==
    ASSUME NEW c \in Configs \cup {Default}
    PROVE  /\ c \in Configurations
           /\ c.global \in Settings /\ c.tenant \in [Tenants -> Settings]
           /\ c.loki \in [Tenants -> LokiSettings] /\ c.lokiDefault \in LokiSettings
           /\ DOMAIN c.global = Kinds
<1>1. c \in Configurations
  BY GatewayAssumption
<1>2. /\ c.global \in Settings /\ c.tenant \in [Tenants -> Settings]
      /\ c.loki \in [Tenants -> LokiSettings] /\ c.lokiDefault \in LokiSettings
  BY <1>1 DEF Configurations
<1>3. DOMAIN c.global = Kinds
  BY <1>2 DEF Settings
<1>4. QED
  BY <1>1, <1>2, <1>3

\* The overrides look at the tenants that were granted, and at none for gRPC.
LEMMA OrgIsGrant ==
    ASSUME TypeOK, NEW r \in Requests, GrantInv(r), pc[r] \in Past
    PROVE  /\ grant[r].tenants \in Seq(Tenants) /\ Len(grant[r].tenants) \in Nat
           /\ Len(grant[r].tenants) > 0
           /\ req[r].grpc => OrgID(r) = <<>>
           /\ ~req[r].grpc => OrgID(r) = grant[r].tenants
           /\ HasOwn(OrgID(r)) => OrgID(r)[1] \in Tenants
<1>1. grant[r] \in Outcomes
  BY DEF TypeOK
<1>2. grant[r].tenants \in Seq(Tenants) /\ Len(grant[r].tenants) \in Nat
  <2>1. grant[r].tenants \in Seq(Tenants)
    BY <1>1 DEF Outcomes
  <2>2. QED
    BY <2>1, LenProperties
<1>3. /\ WellFormedGrant(grant[r])
      /\ req[r].grpc => hdr[r]["X-Scope-OrgID"] = Absent
      /\ ~req[r].grpc => hdr[r]["X-Scope-OrgID"] = Auth(grant[r].tenants)
  BY DEF GrantInv, After
<1>4. /\ req[r].grpc => OrgID(r) = <<>>
      /\ ~req[r].grpc => OrgID(r) = grant[r].tenants
  BY <1>3 DEF OrgID, Auth, Absent
<1>5. Len(grant[r].tenants) > 0
  BY <1>3 DEF WellFormedGrant
<1>6. HasOwn(OrgID(r)) => OrgID(r)[1] \in Tenants
  <2>1. Len(<<>>) = 0
    OBVIOUS
  <2>2. HasOwn(OrgID(r)) => OrgID(r) = grant[r].tenants
    BY <1>4, <2>1 DEF HasOwn
  <2>3. HasOwn(OrgID(r)) => Len(OrgID(r)) = 1
    BY DEF HasOwn
  <2>4. \A t \in Seq(Tenants) : Len(t) = 1 => t[1] \in Tenants
    BY ElementOfSeq
  <2>5. QED
    BY <1>2, <2>2, <2>3, <2>4, Zenon
<1>7. QED
  BY <1>2, <1>4, <1>5, <1>6

\* The setting of a route's class that the Mimir overrides go by.
OwnSettings(c, r) == IF HasOwn(OrgID(r)) THEN c.tenant[OrgID(r)[1]] ELSE Default.global

\* Whoever is blocked by them gets an error.
LEMMA MimirCodes ==
    ASSUME TypeOK, ValidCodes(config), NEW r \in Requests, GrantInv(r), pc[r] \in Past,
           NEW s \in MimirBlockers(MimirConfig(r), r)
    PROVE  s.code \in 400 .. 599
<1> DEFINE c == MimirConfig(r)
           k == req[r].route.class
           own == OwnSettings(c, r)
<1>1. c \in Configs \cup {Default} /\ ValidCodes(c)
  <2>1. config \in Configs \cup {Default}
    BY DEF TypeOK
  <2>2. QED
    BY <2>1, DefaultAssumption DEF MimirConfig
<1> HIDE DEF c
<1>2. /\ c.global \in Settings /\ c.tenant \in [Tenants -> Settings] /\ DOMAIN c.global = Kinds
      /\ Default.global \in Settings /\ DOMAIN Default.global = Kinds
  BY <1>1, ConfigTyped
<1>3. k \in Kinds /\ s = (IF own[k].block = "unset" THEN c.global[k] ELSE own[k])
  <2>1. s \in MimirBlockers(c, r)
    BY DEF c
  <2>2. QED
    BY <1>2, <2>1 DEF MimirBlockers, OwnSettings
<1>4. own \in Settings /\ own[k].code \div 100 \in {4, 5}
  <2>1. CASE HasOwn(OrgID(r))
    <3>1. OrgID(r)[1] \in Tenants /\ own = c.tenant[OrgID(r)[1]]
      BY <2>1, OrgIsGrant DEF OwnSettings
    <3>2. QED
      BY <1>1, <1>2, <1>3, <3>1 DEF ValidCodes
  <2>2. CASE ~HasOwn(OrgID(r))
    BY <1>2, <1>3, <2>2, DefaultAssumption DEF OwnSettings, ValidCodes
  <2>3. QED
    BY <2>1, <2>2
<1>5. c.global[k].code \div 100 \in {4, 5}
  BY <1>1, <1>2, <1>3 DEF ValidCodes
<1> HIDE DEF own, k
<1>6. own[k].code \in Int /\ c.global[k].code \in Int
  BY <1>2, <1>3, <1>4 DEF Settings
<1>7. s.code \in Int /\ s.code \div 100 \in {4, 5}
  BY <1>3, <1>4, <1>5, <1>6
<1>8. QED
  BY <1>7, CodeIsError

\* They block a request of one tenant exactly when its file forbids it, ...
LEMMA MimirVerdict ==
    ASSUME TypeOK, NEW r \in Requests, GrantInv(r), pc[r] \in Past, OneTenant(r),
           req[r].route.class \in Kinds
    PROVE  /\ MimirConfig(r) = config
           /\ MimirBlockers(config, r) # {} <=> Forbids(config, grant[r].tenants[1], r)
<1> DEFINE k == req[r].route.class
           t == grant[r].tenants[1]
<1>1. config \in Configs \cup {Default}
  BY DEF TypeOK
<1>2. /\ config.global \in Settings /\ config.tenant \in [Tenants -> Settings]
      /\ DOMAIN config.global = Kinds
  BY <1>1, ConfigTyped
<1>3. OrgID(r) = grant[r].tenants /\ Len(grant[r].tenants) = 1
  BY OrgIsGrant DEF OneTenant
<1>4. HasOwn(OrgID(r)) /\ OrgID(r)[1] = t /\ t \in Tenants
  <2>1. HasOwn(OrgID(r))
    BY <1>3 DEF HasOwn
  <2>2. OrgID(r)[1] \in Tenants
    BY <2>1, OrgIsGrant
  <2>3. QED
    BY <1>3, <2>1, <2>2
<1>5. MimirConfig(r) = config
  <2>1. OrgID(r) # <<>>
    <3>1. Len(<<>>) # 1
      OBVIOUS
    <3>2. QED
      BY <1>3, <3>1, Zenon
  <2>2. QED
    BY <2>1 DEF MimirConfig
<1> DEFINE own == config.tenant[t]
<1>6. own \in Settings
  BY <1>2, <1>4
<1>7. /\ own[k].block \in {"unset", "yes", "no"} /\ config.global[k].block \in {"unset", "yes", "no"}
  BY <1>2, <1>6 DEF Settings
<1>8. MimirBlockers(config, r) =
         {s \in {IF own[k].block = "unset" THEN config.global[k] ELSE own[k]} : s.block = "yes"}
  BY <1>2, <1>4 DEF MimirBlockers
<1>9. Forbids(config, t, r) <=>
         own[k].block = "yes" \/ (own[k].block # "no" /\ config.global[k].block = "yes")
  BY <1>2 DEF Forbids, Kinds
<1> HIDE DEF own, k
<1>10. MimirBlockers(config, r) # {} <=>
          (IF own[k].block = "unset" THEN config.global[k] ELSE own[k]).block = "yes"
  BY <1>8
<1>11. QED
  BY <1>5, <1>7, <1>9, <1>10

\* ... and no other route; the Loki overrides do so for the others.
LEMMA LokiVerdict ==
    ASSUME TypeOK, NEW r \in Requests, GrantInv(r), pc[r] \in Past, OneTenant(r),
           req[r].route.class \notin Kinds
    PROVE  LokiBlock(LokiConfig(r), r) # 0 <=> Forbids(config, grant[r].tenants[1], r)
<1> DEFINE k == req[r].route.class
           t == grant[r].tenants[1]
           o == config.loki[t]
<1>1. config \in Configs \cup {Default} /\ req[r].features \subseteq Features
  <2>1. config \in Configs \cup {Default} /\ req[r] \in Asked
    BY DEF TypeOK
  <2>2. QED
    BY <2>1 DEF Asked
<1>2. config.loki \in [Tenants -> LokiSettings] /\ DOMAIN config.global = Kinds
  BY <1>1, ConfigTyped
<1>3. OrgID(r) = grant[r].tenants /\ Len(grant[r].tenants) = 1
  BY OrgIsGrant DEF OneTenant
<1>4. HasOwn(OrgID(r)) /\ OrgID(r)[1] = t /\ t \in Tenants
  <2>1. HasOwn(OrgID(r))
    BY <1>3 DEF HasOwn
  <2>2. OrgID(r)[1] \in Tenants
    BY <2>1, OrgIsGrant
  <2>3. QED
    BY <1>3, <2>1, <2>2
<1>5. LokiConfig(r) = o
  BY <1>4 DEF LokiConfig
<1>6. o.block \subseteq {"queries", "writes", "histogram", "hint"}
  BY <1>2, <1>4 DEF LokiSettings
<1>7. Forbids(config, t, r) <=>
         \/ k = "loki_write" /\ "writes" \in o.block
         \/ k = "loki_query" /\ o.block \cap ({"queries"} \cup req[r].features) # {}
  BY <1>2 DEF Forbids
<1>8. LokiBlock(o, r) # 0 <=>
         \/ k = "loki_write" /\ "writes" \in o.block
         \/ /\ k = "loki_query"
            /\ \/ "queries" \in o.block
               \/ "histogram" \in req[r].features \cap o.block
               \/ "hint" \in req[r].features \cap o.block
  BY DEF LokiBlock
<1> HIDE DEF o, k
<1>9. o.block \cap ({"queries"} \cup req[r].features) # {} <=>
         \/ "queries" \in o.block
         \/ "histogram" \in req[r].features \cap o.block
         \/ "hint" \in req[r].features \cap o.block
  BY <1>1, <1>6 DEF Features
<1>10. QED
  BY <1>5, <1>7, <1>8, <1>9

-----------------------------------------------------------------------------
(* The origin of a request *)

\* The address that the proxy with number j was called from.
Hop(j) == IF j = 1 THEN ClientAddress ELSE deployment.proxies[j - 1]

\* The deployment is one of the process's.
LEMMA DeploymentTyped ==
    ASSUME deployment \in Deployments
    PROVE  /\ deployment.proxies \in Seq(Addresses) /\ Len(deployment.proxies) \in Nat
           /\ deployment.form \in Forms /\ deployment.realIP \in BOOLEAN
           /\ deployment.trusted \in Int /\ deployment.traffic \in DOMAIN Traffic
           /\ ClientAddress \in Addresses
           /\ Junk \notin Addresses /\ NoAddress \notin Addresses
<1>1. /\ deployment.proxies \in Seq(Addresses) /\ deployment.form \in Forms
      /\ deployment.realIP \in BOOLEAN /\ deployment.trusted \in Int
      /\ deployment.traffic \in DOMAIN Traffic
  BY GatewayAssumption
<1>2. QED
  BY <1>1, LenProperties, GatewayAssumption, AddressAssumption

\* The hops are the client and the proxies.
LEMMA Hops ==
    ASSUME deployment \in Deployments, NEW j \in 1 .. Len(deployment.proxies) + 1
    PROVE  /\ (<<ClientAddress>> \o deployment.proxies)[j] = Hop(j)
           /\ Hop(j) \in Addresses
           /\ Hop(j) \in {ClientAddress} \cup Elements(deployment.proxies)
           /\ Hop(Len(deployment.proxies) + 1) = LastHop
<1> DEFINE P == deployment.proxies
<1>1. P \in Seq(Addresses) /\ Len(P) \in Nat /\ DOMAIN P = 1 .. Len(P)
  BY DeploymentTyped, LenProperties
<1>2. ClientAddress \in Addresses
  BY DeploymentTyped
<1>3. <<ClientAddress>> \in Seq(Addresses) /\ Len(<<ClientAddress>>) = 1 /\ <<ClientAddress>>[1] = ClientAddress
  BY <1>2
<1> HIDE DEF P
<1>4. (<<ClientAddress>> \o P)[j] = (IF j = 1 THEN ClientAddress ELSE P[j - 1])
  <2>1. j \in 1 .. Len(P) + 1
    BY DEF P
  <2>2. CASE j = 1
    BY <1>1, <1>3, <2>1, <2>2
  <2>3. CASE j # 1
    BY <1>1, <1>3, <2>1, <2>3
  <2>4. QED
    BY <2>2, <2>3
<1>5. j # 1 => j - 1 \in 1 .. Len(P)
  BY <1>1 DEF P
<1>6. \A i \in 1 .. Len(P) : P[i] \in Addresses /\ P[i] \in Elements(P)
  BY <1>1, ElementOfSeq DEF Elements
<1>7. (IF Len(P) + 1 = 1 THEN ClientAddress ELSE P[Len(P) + 1 - 1]) =
         (IF P = <<>> THEN ClientAddress ELSE P[Len(P)])
  <2>1. P = <<>> <=> Len(P) = 0
    BY <1>1, EmptySeq
  <2>2. Len(P) + 1 = 1 <=> Len(P) = 0
    BY <1>1
  <2>3. Len(P) + 1 - 1 = Len(P)
    BY <1>1
  <2>4. QED
    BY <2>1, <2>2, <2>3, Zenon
<1>8. QED
  BY <1>2, <1>4, <1>5, <1>6, <1>7 DEF P, Hop, LastHop

\* What arrives: the client's entries and then those of the proxies; the
\* proxies' X-Real-IP, if they set it; and the last one's connection.
LEMMA ArrivingIs ==
    ASSUME deployment \in Deployments, NEW forged \in Seq(Entries), NEW claimed \in Entries
    PROVE  LET from == Arriving(ClientAddress, forged, claimed, deployment.proxies,
                                deployment.form, deployment.realIP)
               m    == Len(deployment.proxies)
           IN  /\ from \in [xff : Seq(Entries), realIP : Entries, remote : Entries]
               /\ Len(from.xff) = Len(forged) + m
               /\ \A j \in 1 .. m : from.xff[Len(forged) + j] = Entry(Hop(j), deployment.form)
               /\ deployment.realIP /\ deployment.proxies # <<>> =>
                     from.realIP = Entry(Hop(m), deployment.form)
               /\ from.remote = Entry(LastHop, "port")
<1> DEFINE P == deployment.proxies
           m == Len(P)
           hops == <<ClientAddress>> \o P
           own == [i \in 1 .. m |-> Entry(hops[i], deployment.form)]
           xff == forged \o own
           realIP == IF deployment.realIP /\ P # <<>> THEN Entry(hops[m], deployment.form) ELSE claimed
           remote == Entry(hops[Len(hops)], "port")
<1>1. /\ P \in Seq(Addresses) /\ m \in Nat /\ deployment.form \in Forms
      /\ ClientAddress \in Addresses
  BY DeploymentTyped
<1>2. Len(hops) = m + 1
  <2>1. <<ClientAddress>> \in Seq(Addresses) /\ Len(<<ClientAddress>>) = 1
    BY <1>1
  <2>2. QED
    BY <1>1, <2>1
<1>3. \A j \in 1 .. m + 1 : hops[j] = Hop(j) /\ Hop(j) \in Addresses
  BY Hops
<1>4. Hop(m + 1) = LastHop /\ LastHop \in Addresses
  <2>1. m + 1 \in 1 .. m + 1
    BY <1>1
  <2>2. QED
    BY <1>3, <2>1, Hops
<1>5. \A a \in Addresses, f \in Forms : Entry(a, f) \in Entries
  BY DEF Entry, Entries
<1> HIDE DEF hops, m, P
<1>6. own \in Seq(Entries) /\ Len(own) = m /\ \A j \in 1 .. m : own[j] = Entry(Hop(j), deployment.form)
  <2>1. \A j \in 1 .. m : j \in 1 .. m + 1
    BY <1>1
  <2>2. \A j \in 1 .. m : own[j] = Entry(Hop(j), deployment.form) /\ own[j] \in Entries
    BY <1>1, <1>3, <1>5, <2>1
  <2>3. QED
    BY <1>1, <2>2
<1> HIDE DEF own
<1>7. Len(forged) \in Nat
  BY LenProperties
<1>8. xff \in Seq(Entries) /\ Len(xff) = Len(forged) + m
  BY <1>6
<1>9. \A j \in 1 .. m : xff[Len(forged) + j] = own[j]
  BY <1>1, <1>6, <1>7
<1>10. /\ deployment.realIP /\ P # <<>> => realIP = Entry(Hop(m), deployment.form)
       /\ realIP \in Entries
  <2>1. P # <<>> => m \in 1 .. m + 1
    <3>1. m = 0 <=> P = <<>>
      BY <1>1, EmptySeq DEF m
    <3>2. QED
      BY <1>1, <3>1
  <2>2. QED
    BY <1>1, <1>3, <1>5, <2>1
<1>11. remote = Entry(LastHop, "port") /\ remote \in Entries
  <2>1. m + 1 \in 1 .. m + 1
    BY <1>1
  <2>2. hops[Len(hops)] = LastHop
    BY <1>2, <1>3, <1>4, <2>1
  <2>3. QED
    BY <1>4, <1>5, <2>2 DEF Forms
<1>12. Arriving(ClientAddress, forged, claimed, deployment.proxies, deployment.form,
                deployment.realIP) = [xff |-> xff, realIP |-> realIP, remote |-> remote]
  BY DEF Arriving, hops, own, m, P
<1> HIDE DEF xff, realIP, remote
<1>13. QED
  BY <1>6, <1>8, <1>9, <1>10, <1>11, <1>12 DEF m, P

\* GetClientIP takes the first of the configured extractors that succeeds.
LEMMA FirstExtractor ==
    ASSUME NEW types, NEW trusted, NEW from
    PROVE  LET ip  == GetClientIP(types, trusted, from)
               one == "xrealip" \in types /\ XRealIPClientIP(from.realIP) # NoAddress
               two == "remoteaddr" \in types /\ RemoteAddrClientIP(from.remote) # NoAddress
               three == "xff" \in types /\ XFFClientIP(from.xff, trusted) # NoAddress
           IN  /\ one => ip = XRealIPClientIP(from.realIP)
               /\ ~one /\ two => ip = RemoteAddrClientIP(from.remote)
               /\ ~one /\ ~two /\ three => ip = XFFClientIP(from.xff, trusted)
               /\ ~one /\ ~two /\ ~three => ip = NoAddress
<1> DEFINE of(t) == CASE t = "xrealip"    -> XRealIPClientIP(from.realIP)
                      [] t = "remoteaddr" -> RemoteAddrClientIP(from.remote)
                      [] t = "xff"        -> XFFClientIP(from.xff, trusted)
           found == {n \in DOMAIN Priority : Priority[n] \in types /\ of(Priority[n]) # NoAddress}
           first == CHOOSE n \in found : \A m \in found : n <= m
           one == "xrealip" \in types /\ XRealIPClientIP(from.realIP) # NoAddress
           two == "remoteaddr" \in types /\ RemoteAddrClientIP(from.remote) # NoAddress
           three == "xff" \in types /\ XFFClientIP(from.xff, trusted) # NoAddress
<1>1. /\ of("xrealip") = XRealIPClientIP(from.realIP)
      /\ of("remoteaddr") = RemoteAddrClientIP(from.remote)
      /\ of("xff") = XFFClientIP(from.xff, trusted)
  OBVIOUS
<1>2. /\ DOMAIN Priority = {1, 2, 3} /\ Priority[1] = "xrealip"
      /\ Priority[2] = "remoteaddr" /\ Priority[3] = "xff"
  BY DEF Priority
<1>3. GetClientIP(types, trusted, from) = IF found = {} THEN NoAddress ELSE of(Priority[first])
  BY DEF GetClientIP
<1> HIDE DEF of
<1>4. /\ 1 \in found <=> one
      /\ 2 \in found <=> two
      /\ 3 \in found <=> three
      /\ found \subseteq {1, 2, 3}
  BY <1>1, <1>2
<1> HIDE DEF found, one, two, three
<1>5. ASSUME NEW n \in found, \A m \in found : n <= m PROVE first = n
  <2>1. first \in found /\ \A m \in found : first <= m
    BY <1>5
  <2>2. first <= n /\ n <= first /\ first \in {1, 2, 3} /\ n \in {1, 2, 3}
    BY <1>4, <1>5, <2>1
  <2> HIDE DEF first
  <2>3. QED
    BY <2>2
<1> HIDE DEF first
<1>6. one => found # {} /\ first = 1
  BY <1>4, <1>5
<1>7. ~one /\ two => found # {} /\ first = 2
  BY <1>4, <1>5
<1>8. ~one /\ ~two /\ three => found # {} /\ first = 3
  BY <1>4, <1>5
<1>9. ~one /\ ~two /\ ~three => found = {}
  BY <1>4
<1>10. QED
  BY <1>1, <1>2, <1>3, <1>6, <1>7, <1>8, <1>9, Zenon DEF one, two, three

\* The extractors return addresses.
LEMMA ExtractorsTyped ==
    ASSUME NEW xff \in Seq(Entries), NEW e \in Entries, NEW trusted \in Int
    PROVE  /\ Parsed(e, TRUE) \in Addresses \cup {NoAddress}
           /\ XFFClientIP(xff, trusted) \in Addresses \cup {NoAddress}
           /\ XRealIPClientIP(e) \in Addresses \cup {NoAddress}
           /\ RemoteAddrClientIP(e) \in Addresses \cup {NoAddress}
<1>1. \A x \in Entries, b \in BOOLEAN : Parsed(x, b) \in Addresses \cup {NoAddress}
  BY DEF Parsed, Entries
<1>2. XFFClientIP(xff, trusted) \in Addresses \cup {NoAddress}
  <2>1. CASE trusted < 0 \/ trusted > Len(xff) - 1
    BY <2>1 DEF XFFClientIP
  <2>2. CASE ~(trusted < 0 \/ trusted > Len(xff) - 1)
    <3>1. Len(xff) - trusted \in 1 .. Len(xff)
      BY <2>2, LenProperties
    <3>2. xff[Len(xff) - trusted] \in Entries
      BY <3>1, ElementOfSeq
    <3>3. QED
      BY <1>1, <2>2, <3>2, Zenon DEF XFFClientIP
  <2>3. QED
    BY <2>1, <2>2
<1>3. QED
  BY <1>1, <1>2 DEF XRealIPClientIP, RemoteAddrClientIP

\* The X-Forwarded-For extractor takes the entry of a proxy when it trusts
\* fewer entries than the proxies write, and always finds it.
LEMMA XFFTakesHop ==
    ASSUME deployment \in Deployments, NEW xff \in Seq(Entries), NEW n \in Nat,
           Len(xff) = n + Len(deployment.proxies),
           \A j \in 1 .. Len(deployment.proxies) : xff[n + j] = Entry(Hop(j), deployment.form),
           deployment.trusted >= 0, deployment.trusted < Len(deployment.proxies)
    PROVE  LET j == Len(deployment.proxies) - deployment.trusted
           IN  /\ j \in 1 .. Len(deployment.proxies)
               /\ XFFClientIP(xff, deployment.trusted) = Hop(j)
<1> DEFINE m == Len(deployment.proxies)
           k == deployment.trusted
           i == Len(xff) - k
<1>1. m \in Nat /\ k \in Int /\ Junk \notin Addresses /\ NoAddress \notin Addresses
  BY DeploymentTyped
<1>2. \A j \in 1 .. m : Hop(j) \in Addresses
  <2>1. \A j \in 1 .. m : j \in 1 .. m + 1
    BY <1>1
  <2>2. QED
    BY <2>1, Hops
<1>3. \A a \in Addresses : \A f : Parsed(Entry(a, f), TRUE) = a
  BY <1>1 DEF Parsed, Entry
<1>4. \A j \in 1 .. m : Parsed(xff[n + j], TRUE) = Hop(j) /\ Hop(j) # NoAddress
  BY <1>1, <1>2, <1>3
<1>5. m - k \in 1 .. m /\ i = n + (m - k) /\ ~(k < 0 \/ k > Len(xff) - 1)
  <2>1. \A a \in Nat, b \in Int, c \in Nat : \A l : l = c + a /\ b >= 0 /\ b < a =>
           a - b \in 1 .. a /\ l - b = c + (a - b) /\ ~(b < 0 \/ b > l - 1)
    OBVIOUS
  <2>2. QED
    BY <1>1, <2>1, Zenon
<1>6. \A j \in i .. Len(xff) : Parsed(xff[j], TRUE) # NoAddress
  <2>1. SUFFICES ASSUME NEW j \in i .. Len(xff)
                 PROVE  Parsed(xff[j], TRUE) # NoAddress
    OBVIOUS
  <2>2. j - n \in 1 .. m /\ j = n + (j - n)
    BY <1>1, <1>5
  <2>3. QED
    BY <1>4, <2>2
<1>7. XFFClientIP(xff, k) = Parsed(xff[i], TRUE)
  BY <1>5, <1>6, Zenon DEF XFFClientIP
<1>8. QED
  BY <1>4, <1>5, <1>7

\* Whatever the client forges, the address found is honest, and one is found if
\* the configuration fits the proxies.
LEMMA ClientIPHonest ==
    ASSUME deployment \in Deployments, NEW forged \in Seq(Entries), NEW claimed \in Entries
    PROVE  LET from == Arriving(ClientAddress, forged, claimed, deployment.proxies,
                                deployment.form, deployment.realIP)
               ip   == GetClientIP(deployment.types, deployment.trusted, from)
           IN  /\ ip \in Addresses \cup {NoAddress}
               /\ ip # NoAddress => Honest(ip)
               /\ ip = NoAddress /\ Exact(deployment) => deployment.proxies = <<>>
<1> DEFINE from == Arriving(ClientAddress, forged, claimed, deployment.proxies,
                            deployment.form, deployment.realIP)
           ip == GetClientIP(deployment.types, deployment.trusted, from)
           P == deployment.proxies
           m == Len(P)
           k == deployment.trusted
           real == XRealIPClientIP(from.realIP)
           conn == RemoteAddrClientIP(from.remote)
           fwd == XFFClientIP(from.xff, k)
           one == "xrealip" \in deployment.types /\ real # NoAddress
           three == "xff" \in deployment.types /\ fwd # NoAddress
           honest == {ClientAddress} \cup Elements(P)
<1>1. /\ from.xff \in Seq(Entries) /\ from.realIP \in Entries /\ from.remote \in Entries
      /\ Len(from.xff) = Len(forged) + m
      /\ \A j \in 1 .. m : from.xff[Len(forged) + j] = Entry(Hop(j), deployment.form)
      /\ deployment.realIP /\ P # <<>> => from.realIP = Entry(Hop(m), deployment.form)
      /\ from.remote = Entry(LastHop, "port")
  BY ArrivingIs
<1>2. /\ m \in Nat /\ k \in Int /\ Junk \notin Addresses /\ NoAddress \notin Addresses
      /\ Len(forged) \in Nat /\ P \in Seq(Addresses)
  BY DeploymentTyped, LenProperties
<1>3. m = 0 <=> P = <<>>
  BY <1>2, EmptySeq
<1> HIDE DEF from, m, P
<1>4. /\ \A j \in 1 .. m + 1 : Hop(j) \in Addresses /\ Hop(j) \in honest
      /\ LastHop \in Addresses /\ LastHop \in honest
      /\ P = <<>> => LastHop = ClientAddress
  <2>1. \A j \in 1 .. m + 1 : Hop(j) \in Addresses /\ Hop(j) \in honest
    BY Hops DEF m, P
  <2>2. m + 1 \in 1 .. m + 1
    BY <1>2
  <2>3. Hop(m + 1) = LastHop
    BY <2>2, Hops DEF m, P
  <2>4. P = <<>> => LastHop = ClientAddress
    BY DEF LastHop, P
  <2>5. QED
    BY <2>1, <2>2, <2>3, <2>4
<1>5. /\ real \in Addresses \cup {NoAddress} /\ fwd \in Addresses \cup {NoAddress}
      /\ conn \in Addresses \cup {NoAddress}
  BY <1>1, <1>2, ExtractorsTyped
<1>6. conn = LastHop /\ conn # NoAddress
  <2>1. \A a \in Addresses : RemoteAddrClientIP(Entry(a, "port")) = a
    BY <1>2 DEF RemoteAddrClientIP, Parsed, Entry
  <2>2. QED
    BY <1>1, <1>2, <1>4, <2>1
<1>7. deployment.realIP /\ P # <<>> /\ real # NoAddress => real = Hop(m) /\ Hop(m) \in honest
  <2>1. P # <<>> => m \in 1 .. m + 1
    BY <1>2, <1>3
  <2>2. QED
    BY <1>1, <1>4, <2>1 DEF XRealIPClientIP, Parsed, Entry
<1>8. k >= 0 /\ k < m => m - k \in 1 .. m + 1 /\ fwd = Hop(m - k) /\ fwd \in honest /\ fwd # NoAddress
  <2>1. k >= 0 /\ k < m => fwd = Hop(m - k)
    BY <1>1, <1>2, XFFTakesHop DEF m, P
  <2>2. k >= 0 /\ k < m => m - k \in 1 .. m + 1
    BY <1>2
  <2>3. QED
    BY <1>2, <1>4, <2>1, <2>2
<1>9. k < 0 => fwd = NoAddress
  BY DEF XFFClientIP
<1>10. Hop(1) = ClientAddress
  BY DEF Hop
\* With X-Real-IP exact, that extractor succeeds.
<1>11. "xrealip" \in deployment.types /\ Exact(deployment) =>
          real = ClientAddress /\ real # NoAddress
  <2>1. SUFFICES ASSUME "xrealip" \in deployment.types, Exact(deployment)
                 PROVE  real = ClientAddress /\ real # NoAddress
    OBVIOUS
  <2>2. deployment.realIP /\ m = 1 /\ deployment.form # "brackets"
    BY <2>1 DEF Exact, m, P
  <2>3. from.realIP = Entry(Hop(1), deployment.form)
    BY <1>1, <1>3, <2>2
  <2>4. ClientAddress \in Addresses
    BY DeploymentTyped
  <2>5. QED
    BY <1>2, <1>10, <2>2, <2>3, <2>4 DEF XRealIPClientIP, Parsed, Entry
<1>12. /\ one => ip = real
       /\ ~one /\ "remoteaddr" \in deployment.types => ip = conn
       /\ ~one /\ "remoteaddr" \notin deployment.types /\ three => ip = fwd
       /\ ~one /\ "remoteaddr" \notin deployment.types /\ ~three => ip = NoAddress
  BY <1>6, FirstExtractor
<1> HIDE DEF real, conn, fwd, ip
<1>13. ip \in Addresses \cup {NoAddress}
  BY <1>5, <1>12
<1>14. ip # NoAddress /\ Exact(deployment) => ip = ClientAddress
  <2>1. SUFFICES ASSUME ip # NoAddress, Exact(deployment) PROVE ip = ClientAddress
    OBVIOUS
  <2>2. CASE "xrealip" \in deployment.types
    BY <1>11, <1>12, <2>1, <2>2
  <2>3. CASE P = <<>> /\ deployment.types \subseteq {"remoteaddr"}
    BY <1>4, <1>6, <1>12, <2>1, <2>3
  <2>4. CASE deployment.types = {"xff"} /\ P # <<>> /\ k = m - 1
    <3>1. k >= 0 /\ k < m /\ m - k = 1
      BY <1>2, <1>3, <2>4
    <3>2. fwd = ClientAddress
      BY <1>8, <1>10, <3>1
    <3>3. QED
      BY <1>12, <2>1, <2>4, <3>2
  <2>5. QED
    BY <2>1, <2>2, <2>3, <2>4 DEF Exact, P, m
<1>15. ip # NoAddress /\ ~Forgeable(deployment) => ip \in honest
  <2>1. SUFFICES ASSUME ip # NoAddress, ~Forgeable(deployment) PROVE ip \in honest
    OBVIOUS
  <2>2. CASE one
    BY <1>7, <1>12, <2>1, <2>2 DEF Forgeable, P
  <2>3. CASE ~one /\ "remoteaddr" \in deployment.types
    BY <1>4, <1>6, <1>12, <2>3
  <2>4. CASE ~one /\ "remoteaddr" \notin deployment.types /\ three
    <3>1. ~(k >= m) /\ ~(k < 0)
      BY <1>9, <2>1, <2>4 DEF Forgeable, P, m
    <3>2. fwd \in honest
      BY <1>2, <1>8, <3>1
    <3>3. QED
      BY <1>12, <2>4, <3>2
  <2>5. QED
    BY <1>12, <2>1, <2>2, <2>3, <2>4
<1>16. ip = NoAddress /\ Exact(deployment) => P = <<>>
  <2>1. SUFFICES ASSUME ip = NoAddress, Exact(deployment), P # <<>> PROVE FALSE
    OBVIOUS
  <2>2. CASE "xrealip" \in deployment.types
    BY <1>11, <1>12, <2>1, <2>2
  <2>3. CASE deployment.types = {"xff"} /\ k = m - 1
    <3>1. k >= 0 /\ k < m
      BY <1>2, <1>3, <2>1, <2>3
    <3>2. QED
      BY <1>8, <1>12, <2>1, <2>3, <3>1
  <2>4. QED
    BY <2>1, <2>2, <2>3 DEF Exact, P, m
<1>17. QED
  BY <1>13, <1>14, <1>15, <1>16 DEF Honest, ip, from, P

-----------------------------------------------------------------------------
(* Steps *)

\* All that is kept of one request.
Fields(q) ==
    <<pc[q], req[q], hdr[q], orgCtx[q], addr[q], grant[q], answer[q], blocked[q], inForce[q]>>

\* A step that does not touch a request keeps its invariant.
LEMMA Elsewhere ==
    ASSUME NEW q \in Requests, RequestInv(q), UNCHANGED <<deployment, config>>,
           Fields(q)' = Fields(q)
    PROVE  RequestInv(q)'
<1>1. /\ pc'[q] = pc[q] /\ req'[q] = req[q] /\ hdr'[q] = hdr[q] /\ orgCtx'[q] = orgCtx[q]
      /\ addr'[q] = addr[q] /\ grant'[q] = grant[q] /\ answer'[q] = answer[q]
      /\ blocked'[q] = blocked[q] /\ inForce'[q] = inForce[q]
      /\ deployment' = deployment /\ config' = config
  BY Zenon DEF Fields
<1>2. GrantInv(q)'
  <2>1. GrantInv(q)
    BY DEF RequestInv
  <2>2. QED
    BY <1>1, <2>1, Zenon DEF GrantInv, Before, After, Past, Reached, Dropped
<1>3. AnswerInv(q)'
  <2>1. AnswerInv(q)
    BY DEF RequestInv
  <2>2. QED
    BY <1>1, <2>1 DEF AnswerInv
<1>4. OverrideInv(q)'
  <2>1. OverrideInv(q)
    BY DEF RequestInv
  <2>2. QED
    BY <1>1, <2>1, ZenonT(40) DEF OverrideInv, OneTenant, Allowed, Forbids, Admitting, Kinds
<1>5. OriginInv(q)'
  <2>1. OriginInv(q)
    BY DEF RequestInv
  <2>2. QED
    BY <1>1, <2>1, Zenon DEF OriginInv, Honest, LastHop
<1>6. QED
  BY <1>2, <1>3, <1>4, <1>5 DEF RequestInv

\* A step of one request.
LEMMA OneRequest ==
    ASSUME IInv, NEW r \in Requests, UNCHANGED <<deployment, config>>, TypeOK', RequestInv(r)',
           \A q \in Requests \ {r} : Fields(q)' = Fields(q)
    PROVE  IInv'
<1>1. ValidCodes(config)'
  BY DEF IInv, ValidCodes
<1>2. ASSUME NEW q \in Requests PROVE RequestInv(q)'
  <2>1. CASE q = r
    BY <2>1
  <2>2. CASE q # r
    <3>1. RequestInv(q) /\ Fields(q)' = Fields(q)
      BY <2>2 DEF IInv
    <3>2. QED
      BY <3>1, Elsewhere
  <2>3. QED
    BY <2>1, <2>2
<1>3. QED
  BY <1>1, <1>2 DEF IInv

\* What a running handler has not done yet.
LEMMA Running ==
    ASSUME IInv, NEW r \in Requests, pc[r] \in Layers
    PROVE  answer[r] \in {0, 503} /\ ~blocked[r] /\ RequestInv(r) /\ GrantInv(r) /\ TypeOK
           /\ OverrideInv(r) /\ OriginInv(r) /\ ValidCodes(config)
<1>1. RequestInv(r) /\ TypeOK /\ ValidCodes(config)
  BY DEF IInv
<1>2. GrantInv(r) /\ AnswerInv(r) /\ OverrideInv(r) /\ OriginInv(r)
  BY <1>1 DEF RequestInv
<1>3. pc[r] # "done"
  BY DEF Layers
<1>4. QED
  BY <1>1, <1>2, <1>3 DEF AnswerInv

\* What the auth service was told.
Told(r) == addr[r].told # NoAddress => Honest(addr[r].told)

\* It stays honest when neither it nor the deployment changes.
LEMMA ToldKept ==
    ASSUME NEW r \in Requests, OriginInv(r), UNCHANGED deployment, addr'[r].told = addr[r].told
    PROVE  Told(r)'
<1>1. \A a : Honest(a)' <=> Honest(a)
  BY DEF Honest
<1>2. QED
  BY <1>1 DEF OriginInv, Told

\* The invariant of a request whose handler has just ended.
LEMMA EndedInv ==
    ASSUME NEW r \in Requests, Told(r)', pc'[r] = "done",
           blocked'[r] => /\ answer'[r] \in 400 .. 599
                          /\ OneTenant(r)' =>
                                (\E c \in inForce[r] : Forbids(c, grant[r].tenants[1], r))'
    PROVE  RequestInv(r)'
<1>1. GrantInv(r)'
  BY DEF GrantInv, Before, After, Past
<1>2. AnswerInv(r)'
  BY DEF AnswerInv, Layers
<1>3. OverrideInv(r)'
  BY DEF OverrideInv, Admitting
<1>4. OriginInv(r)'
  BY DEF OriginInv, Told
<1>5. QED
  BY <1>1, <1>2, <1>3, <1>4 DEF RequestInv

\* How a handler ends with an answer, ...
Ends(r, code) ==
    /\ pc' \in [Requests -> Layers \cup {"idle", "done"}]
    /\ answer' \in [Requests -> 0 .. 599]
    /\ pc'[r] = "done" /\ answer'[r] \in {answer[r], code} /\ answer'[r] # 0
    /\ \A q \in Requests \ {r} : pc'[q] = pc[q] /\ answer'[q] = answer[q]
    /\ \A q \in Requests : pc'[q] = "done" => answer'[q] # 0

\* Stop ends a handler and touches no other.
LEMMA StopEffect ==
    ASSUME TypeOK, NEW r \in Requests, NEW code \in 1 .. 599, Stop(r, code)
    PROVE  Ends(r, code)
<1>1. /\ pc' = [pc EXCEPT ![r] = "done"]
      /\ answer' = [answer EXCEPT ![r] = IF answer[r] = 0 THEN code ELSE answer[r]]
  BY DEF Stop, Reply
<1>2. pc \in [Requests -> Layers \cup {"idle", "done"}] /\ answer \in [Requests -> 0 .. 599]
  BY DEF TypeOK
<1>3. pc'[r] = "done" /\ answer'[r] \in {answer[r], code} /\ answer'[r] # 0
  BY <1>1, <1>2
<1>4. \A q \in Requests \ {r} : pc'[q] = pc[q] /\ answer'[q] = answer[q]
  BY <1>1, <1>2
<1>5. pc' \in [Requests -> Layers \cup {"idle", "done"}] /\ answer' \in [Requests -> 0 .. 599]
  BY <1>1, <1>2
<1>6. \A q \in Requests : pc[q] = "done" => answer[q] # 0
  BY DEF TypeOK
<1>7. \A q \in Requests : pc'[q] = "done" => answer'[q] # 0
  BY <1>3, <1>4, <1>6, Zenon
<1>8. QED
  BY <1>3, <1>4, <1>5, <1>7 DEF Ends

\* ... and how it goes on to the next layer.
LEMMA GoEffect ==
    ASSUME TypeOK, NEW r \in Requests, NEW layer \in Layers, Go(r, layer)
    PROVE  /\ pc' \in [Requests -> Layers \cup {"idle", "done"}] /\ answer' = answer
           /\ pc'[r] = layer /\ \A q \in Requests \ {r} : pc'[q] = pc[q]
           /\ \A q \in Requests : pc'[q] = "done" => answer'[q] # 0
<1>1. pc' = [pc EXCEPT ![r] = layer] /\ answer' = answer
  BY DEF Go
<1>2. pc \in [Requests -> Layers \cup {"idle", "done"}]
  BY DEF TypeOK
<1>3. pc' \in [Requests -> Layers \cup {"idle", "done"}]
  BY <1>1, <1>2
<1>4. pc'[r] = layer /\ \A q \in Requests \ {r} : pc'[q] = pc[q]
  BY <1>1, <1>2
<1>5. layer # "done"
  BY DEF Layers
<1>6. \A q \in Requests : pc[q] = "done" => answer[q] # 0
  BY DEF TypeOK
<1>7. \A q \in Requests : pc'[q] = "done" => answer'[q] # 0
  BY <1>1, <1>4, <1>5, <1>6, Zenon
<1>8. QED
  BY <1>1, <1>3, <1>4, <1>7

\* A handler ends and nothing else changes.
LEMMA StopStep ==
    ASSUME IInv, NEW r \in Requests, pc[r] \in Layers, NEW code \in 1 .. 599, Stop(r, code),
           UNCHANGED <<deployment, config, req, hdr, orgCtx, addr, grant, deadline, blocked, inForce>>
    PROVE  IInv'
<1>1. ~blocked[r] /\ OriginInv(r) /\ TypeOK
  BY Running
<1>2. /\ pc' \in [Requests -> Layers \cup {"idle", "done"}]
      /\ answer' \in [Requests -> 0 .. 599] /\ pc'[r] = "done"
      /\ \A q \in Requests \ {r} : pc'[q] = pc[q] /\ answer'[q] = answer[q]
      /\ \A q \in Requests : pc'[q] = "done" => answer'[q] # 0
  <2>1. Ends(r, code)
    BY <1>1, StopEffect
  <2>2. QED
    BY <2>1 DEF Ends
<1>3. TypeOK'
  BY <1>1, <1>2, Zenon DEF TypeOK
<1>4. RequestInv(r)'
  <2>1. ~blocked'[r]
    BY <1>1
  <2>2. QED
    BY <1>1, <1>2, <2>1, ToldKept, EndedInv
<1>5. \A q \in Requests \ {r} : Fields(q)' = Fields(q)
  BY <1>2 DEF Fields
<1>6. QED
  BY <1>3, <1>4, <1>5, OneRequest

\* A handler goes on from one layer to the next after the overrides.
LEMMA GoStep ==
    ASSUME IInv, NEW r \in Requests, pc[r] \in {"limits", "route", "proxy"},
           NEW layer \in {"limits", "route", "proxy"}, Go(r, layer),
           UNCHANGED <<deployment, config, req, hdr, orgCtx, addr, grant, deadline, blocked, inForce>>
    PROVE  IInv'
<1>1. pc[r] \in Layers /\ layer \in Layers
  BY DEF Layers
<1>2. /\ answer[r] \in {0, 503} /\ ~blocked[r] /\ GrantInv(r) /\ OverrideInv(r)
      /\ OriginInv(r) /\ TypeOK
  BY <1>1, Running
<1>3. /\ pc' \in [Requests -> Layers \cup {"idle", "done"}] /\ answer' = answer
      /\ pc'[r] = layer /\ \A q \in Requests \ {r} : pc'[q] = pc[q]
      /\ \A q \in Requests : pc'[q] = "done" => answer'[q] # 0
  BY <1>1, <1>2, GoEffect
<1>4. TypeOK'
  BY <1>2, <1>3, Zenon DEF TypeOK
<1>5. RequestInv(r)'
  <2>1. GrantInv(r)'
    <3>1. /\ pc[r] \in After /\ pc[r] \in Past /\ pc'[r] \in After /\ pc'[r] \in Past
          /\ pc'[r] \notin Before /\ pc'[r] # "backend"
      BY <1>3 DEF After, Past, Before
    <3>2. QED
      BY <1>2, <3>1, Zenon DEF GrantInv
  <2>2. AnswerInv(r)'
    BY <1>1, <1>2, <1>3 DEF AnswerInv, Layers
  <2>3. OverrideInv(r)'
    <3>1. OneTenant(r)' <=> OneTenant(r)
      BY DEF OneTenant
    <3>2. Allowed(r)' <=> Allowed(r)
      BY DEF Allowed, Forbids
    <3>3. OneTenant(r) => Allowed(r)
      BY <1>2 DEF OverrideInv
    <3>4. ~blocked'[r] /\ pc'[r] \notin Admitting /\ pc'[r] # "loki"
      BY <1>2, <1>3 DEF Admitting
    <3>5. QED
      BY <3>1, <3>2, <3>3, <3>4 DEF OverrideInv
  <2>4. OriginInv(r)'
    BY <1>2, <1>3 DEF OriginInv, Honest
  <2>5. QED
    BY <2>1, <2>2, <2>3, <2>4 DEF RequestInv
<1>6. \A q \in Requests \ {r} : Fields(q)' = Fields(q)
  BY <1>3 DEF Fields
<1>7. QED
  BY <1>4, <1>5, <1>6, OneRequest

\* The proxy hands the request on, without what the Connection header lists.
LEMMA SendStep ==
    ASSUME IInv, NEW r \in Requests, pc[r] = "proxy", Go(r, "backend"),
           hdr' = [hdr EXCEPT ![r] =
               [n \in Names |-> IF n \in Dropped(r) THEN Absent ELSE hdr[r][n]]],
           UNCHANGED <<deployment, config, req, orgCtx, addr, grant, deadline, blocked, inForce>>
    PROVE  IInv'
<1>1. pc[r] \in Layers /\ "backend" \in Layers
  BY DEF Layers
<1>2. /\ answer[r] \in {0, 503} /\ ~blocked[r] /\ GrantInv(r) /\ OverrideInv(r)
      /\ OriginInv(r) /\ TypeOK
  BY <1>1, Running
<1>3. /\ pc' \in [Requests -> Layers \cup {"idle", "done"}] /\ answer' = answer
      /\ pc'[r] = "backend" /\ \A q \in Requests \ {r} : pc'[q] = pc[q]
      /\ \A q \in Requests : pc'[q] = "done" => answer'[q] # 0
  BY <1>1, <1>2, GoEffect
<1> DEFINE new == [n \in Names |-> IF n \in Dropped(r) THEN Absent ELSE hdr[r][n]]
<1>4. Absent \in Headers
  BY EmptySeq DEF Absent, Headers
<1>5. hdr[r] \in [Names -> Headers] /\ hdr \in [Requests -> [Names -> Headers]]
  BY <1>2 DEF TypeOK
<1>6. /\ new \in [Names -> Headers]
      /\ \A n \in Names : new[n] = IF n \in Dropped(r) THEN Absent ELSE hdr[r][n]
  BY <1>4, <1>5
<1> HIDE DEF new
<1>7. /\ hdr' \in [Requests -> [Names -> Headers]] /\ hdr'[r] = new
      /\ \A q \in Requests \ {r} : hdr'[q] = hdr[q]
  BY <1>5, <1>6 DEF new
<1>8. TypeOK'
  BY <1>2, <1>3, <1>7, Zenon DEF TypeOK
<1>9. RequestInv(r)'
  <2>1. GrantInv(r)'
    <3>1. pc[r] \in After /\ pc[r] \in Past
      BY DEF After, Past
    <3>2. pc'[r] \notin Before /\ pc'[r] \notin After /\ pc'[r] \notin Past
      BY <1>3 DEF After, Past, Before
    <3>3. Dropped(r)' = Dropped(r)
      BY DEF Dropped
    <3>4. /\ "X-Scope-OrgID" \in Names /\ "x-scope-orgid" \in Names /\ "Sensitive" \in Names
          /\ "X-Prom-Label-Policy" \in Names /\ "Authorization" \in Names
      BY DEF Names
    <3>5. Absent.from # "client"
      BY DEF Absent
    <3>8. \A n \in Names : hdr'[r][n] = IF n \in Dropped(r) THEN Absent ELSE hdr[r][n]
      BY <1>6, <1>7
    <3>9. /\ WellFormedGrant(grant[r])
          /\ req[r].grpc => /\ hdr[r]["x-scope-orgid"] = Auth(grant[r].tenants)
                            /\ hdr[r]["X-Scope-OrgID"] = Absent
          /\ ~req[r].grpc => /\ hdr[r]["X-Scope-OrgID"] = Auth(grant[r].tenants)
                             /\ hdr[r]["x-scope-orgid"] = Absent
                             /\ orgCtx[r] = grant[r].tenants
          /\ hdr[r]["X-Prom-Label-Policy"] =
                IF grant[r].policies = <<>> THEN Absent ELSE Auth(grant[r].policies)
          /\ hdr[r]["Authorization"].from # "client" /\ hdr[r]["Sensitive"] = Absent
      BY <1>2, <3>1, Zenon DEF GrantInv
    <3>10. /\ req[r].grpc =>
                 /\ hdr'[r]["x-scope-orgid"] =
                       IF "x-scope-orgid" \in Dropped(r) THEN Absent ELSE Auth(grant[r].tenants)
                 /\ hdr'[r]["X-Scope-OrgID"] = Absent
           /\ ~req[r].grpc =>
                 /\ hdr'[r]["X-Scope-OrgID"] =
                       IF "X-Scope-OrgID" \in Dropped(r) THEN Absent ELSE Auth(grant[r].tenants)
                 /\ hdr'[r]["x-scope-orgid"] = Absent
      BY <3>4, <3>8, <3>9, Zenon
    <3>11. /\ hdr'[r]["X-Prom-Label-Policy"] =
                 IF "X-Prom-Label-Policy" \in Dropped(r) THEN Absent
                 ELSE IF grant[r].policies = <<>> THEN Absent ELSE Auth(grant[r].policies)
           /\ hdr'[r]["Authorization"].from # "client" /\ hdr'[r]["Sensitive"] = Absent
      BY <3>4, <3>5, <3>8, <3>9, Zenon
    <3>12. grant' = grant /\ req' = req /\ orgCtx' = orgCtx
      OBVIOUS
    <3>6. Reached(r)'
      BY <3>3, <3>9, <3>10, <3>11, <3>12, Zenon DEF Reached
    <3>7. QED
      BY <3>2, <3>6 DEF GrantInv
  <2>2. AnswerInv(r)'
    BY <1>1, <1>2, <1>3 DEF AnswerInv, Layers
  <2>3. OverrideInv(r)'
    <3>1. OneTenant(r)' <=> OneTenant(r)
      BY DEF OneTenant
    <3>2. Allowed(r)' <=> Allowed(r)
      BY DEF Allowed, Forbids
    <3>3. OneTenant(r) => Allowed(r)
      BY <1>2 DEF OverrideInv
    <3>4. ~blocked'[r] /\ pc'[r] \notin Admitting /\ pc'[r] # "loki"
      BY <1>2, <1>3 DEF Admitting
    <3>5. QED
      BY <3>1, <3>2, <3>3, <3>4 DEF OverrideInv
  <2>4. OriginInv(r)'
    BY <1>2, <1>3 DEF OriginInv, Honest
  <2>5. QED
    BY <2>1, <2>2, <2>3, <2>4 DEF RequestInv
<1>10. \A q \in Requests \ {r} : Fields(q)' = Fields(q)
  BY <1>3, <1>7 DEF Fields
<1>11. QED
  BY <1>8, <1>9, <1>10, OneRequest

\* A time-out answers for a handler that goes on.
LEMMA TimeOutStep ==
    ASSUME IInv, NEW r \in Requests, TimeOut(r)
    PROVE  IInv'
<1>1. pc \in [Requests -> Layers \cup {"idle", "done"}] /\ answer \in [Requests -> 0 .. 599]
  BY DEF IInv, TypeOK
<1>2. pc[r] \in Layers /\ pc[r] \notin {"idle", "done"}
  BY <1>1 DEF TimeOut, Layers
<1>3. /\ answer[r] \in {0, 503} /\ ~blocked[r] /\ RequestInv(r) /\ TypeOK
  BY <1>2, Running
<1>4. answer' = [answer EXCEPT ![r] = 503]
  BY DEF TimeOut, Reply
<1>5. /\ UNCHANGED <<deployment, config, pc, req, hdr, orgCtx, addr, grant, deadline, blocked, inForce>>
  BY DEF TimeOut
<1>6. answer'[r] = 503 /\ \A q \in Requests \ {r} : answer'[q] = answer[q]
  BY <1>1, <1>4
<1>7. TypeOK'
  <2>1. answer' \in [Requests -> 0 .. 599]
    BY <1>1, <1>4
  <2>2. \A q \in Requests : pc'[q] = "done" => answer'[q] # 0
    BY <1>2, <1>3, <1>5, <1>6 DEF TypeOK
  <2>3. QED
    BY <1>3, <1>5, <2>1, <2>2, Zenon DEF TypeOK
<1>8. RequestInv(r)'
  <2>1. GrantInv(r)'
    BY <1>3, <1>5, Zenon DEF RequestInv, GrantInv, Reached, Dropped
  <2>2. AnswerInv(r)'
    BY <1>2, <1>3, <1>5, <1>6 DEF AnswerInv
  <2>3. OverrideInv(r)'
    <3>1. OverrideInv(r)
      BY <1>3 DEF RequestInv
    <3>2. OneTenant(r)' <=> OneTenant(r)
      BY <1>5 DEF OneTenant
    <3>3. Allowed(r)' <=> Allowed(r)
      BY <1>5 DEF Allowed, Forbids
    <3>4. blocked' = blocked /\ config' = config /\ inForce' = inForce /\ pc' = pc /\ req' = req
      BY <1>5
    <3>5. QED
      BY <1>3, <3>1, <3>2, <3>3, <3>4 DEF OverrideInv
  <2>4. OriginInv(r)'
    BY <1>3, <1>5, Zenon DEF RequestInv, OriginInv, Honest, LastHop
  <2>5. QED
    BY <2>1, <2>2, <2>3, <2>4 DEF RequestInv
<1>9. \A q \in Requests \ {r} : Fields(q)' = Fields(q)
  BY <1>5, <1>6 DEF Fields
<1>10. QED
  BY <1>5, <1>7, <1>8, <1>9, OneRequest

\* The statuses of the error handlers.
LEMMA ErrorStatusIs ==
    ASSUME NEW r, NEW err
    PROVE  ErrorStatus(r, err) \in 1 .. 599
<1> DEFINE codes == {413, 499, 502, 504, 598}
<1>1. StatusCode(err, TRUE, FALSE) \in codes
  BY DEF StatusCode
<1>2. StatusCode(err, FALSE, FALSE) \in codes
  BY DEF StatusCode
<1>3. ErrorStatus(r, err) \in {502, StatusCode(err, TRUE, FALSE), StatusCode(err, FALSE, FALSE)}
  <2>1. CASE answer[r] # 0
    <3>1. (answer[r] # 0) = TRUE
      BY <2>1
    <3>2. QED
      BY <3>1, Zenon DEF ErrorStatus
  <2>2. CASE ~(answer[r] # 0)
    <3>1. (answer[r] # 0) = FALSE
      BY <2>2
    <3>2. QED
      BY <3>1, Zenon DEF ErrorStatus
  <2>3. QED
    BY <2>1, <2>2
<1>4. codes \subseteq 1 .. 599 /\ 502 \in codes
  OBVIOUS
<1>5. \/ ErrorStatus(r, err) = 502
      \/ ErrorStatus(r, err) = StatusCode(err, TRUE, FALSE)
      \/ ErrorStatus(r, err) = StatusCode(err, FALSE, FALSE)
  BY <1>3, Zenon
<1> HIDE DEF codes
<1>6. ErrorStatus(r, err) \in codes
  BY <1>1, <1>2, <1>4, <1>5, Zenon
<1>7. QED
  BY <1>4, <1>6

\* The layers behind the overrides.
LEMMA BehindOverrides ==
    ASSUME IInv, NEW r \in Requests,
           Limit(r) \/ RouteMiddleware(r) \/ Proxy(r) \/ BackendReplies(r) \/ ContextEnds(r)
    PROVE  IInv'
<1> DEFINE rest == UNCHANGED <<deployment, config, req, hdr, orgCtx, addr, grant, deadline,
                               blocked, inForce>>
           late == {"limits", "route", "proxy"}
           sent == /\ pc[r] = "proxy" /\ Go(r, "backend")
                   /\ hdr' = [hdr EXCEPT ![r] =
                         [n \in Names |-> IF n \in Dropped(r) THEN Absent ELSE hdr[r][n]]]
                   /\ UNCHANGED <<deployment, config, req, orgCtx, addr, grant, deadline,
                                  blocked, inForce>>
<1>1. late \subseteq Layers /\ "backend" \in Layers
  BY DEF Layers
<1>2. pc[r] \in late \cup {"backend"}
  BY DEF Limit, RouteMiddleware, Proxy, BackendReplies, ContextEnds
<1>3. \/ \E layer \in late : rest /\ pc[r] \in late /\ Go(r, layer)
      \/ \E code \in 1 .. 599 : rest /\ Stop(r, code)
      \/ sent
  <2>1. CASE Limit(r)
    BY <2>1 DEF Limit
  <2>2. CASE RouteMiddleware(r)
    BY <2>2 DEF RouteMiddleware
  <2>3. CASE Proxy(r)
    BY <2>3, ErrorStatusIs DEF Proxy
  <2>4. CASE BackendReplies(r)
    <3>1. /\ rest
          /\ \E code \in {200} \cup {ErrorStatus(r, err) : err \in Failures(r)} : Stop(r, code)
      BY <2>4 DEF BackendReplies
    <3>2. \A code \in {200} \cup {ErrorStatus(r, err) : err \in Failures(r)} : code \in 1 .. 599
      BY ErrorStatusIs
    <3>3. QED
      BY <3>1, <3>2
  <2>5. CASE ContextEnds(r)
    BY <2>5, ErrorStatusIs DEF ContextEnds
  <2>6. QED
    BY <2>1, <2>2, <2>3, <2>4, <2>5
<1>4. QED
  BY <1>1, <1>2, <1>3, GoStep, StopStep, SendStep

\* A blocked request: the file that blocks it is in force.
LEMMA BlockStep ==
    ASSUME IInv, NEW r \in Requests, pc[r] \in {"mimir", "loki"}, NEW code \in 400 .. 599,
           Stop(r, code), blocked' = [blocked EXCEPT ![r] = TRUE],
           OneTenant(r) => Forbids(config, grant[r].tenants[1], r),
           UNCHANGED <<deployment, config, req, hdr, orgCtx, addr, grant, deadline, inForce>>
    PROVE  IInv'
<1>1. pc[r] \in Layers /\ pc[r] \in Admitting /\ code \in 1 .. 599
  BY DEF Layers, Admitting
<1>2. answer[r] \in {0, 503} /\ OverrideInv(r) /\ OriginInv(r) /\ TypeOK
  BY <1>1, Running
<1>3. /\ pc' \in [Requests -> Layers \cup {"idle", "done"}]
      /\ answer' \in [Requests -> 0 .. 599] /\ pc'[r] = "done"
      /\ answer'[r] \in {answer[r], code} /\ answer'[r] # 0
      /\ \A q \in Requests \ {r} : pc'[q] = pc[q] /\ answer'[q] = answer[q]
      /\ \A q \in Requests : pc'[q] = "done" => answer'[q] # 0
  <2>1. Ends(r, code)
    BY <1>1, <1>2, StopEffect
  <2>2. QED
    BY <2>1 DEF Ends
<1>4. blocked \in [Requests -> BOOLEAN]
  BY <1>2 DEF TypeOK
<1>5. blocked' \in [Requests -> BOOLEAN] /\ \A q \in Requests \ {r} : blocked'[q] = blocked[q]
  BY <1>4
<1>6. TypeOK'
  BY <1>2, <1>3, <1>5, Zenon DEF TypeOK
<1>7. RequestInv(r)'
  <2>1. answer'[r] \in 400 .. 599
    BY <1>2, <1>3
  <2>2. config \in inForce[r]
    BY <1>1, <1>2 DEF OverrideInv
  <2>3. OneTenant(r)' <=> OneTenant(r)
    BY DEF OneTenant
  <2>4. \A c, t : Forbids(c, t, r)' <=> Forbids(c, t, r)
    BY DEF Forbids
  <2>5. OneTenant(r)' => (\E c \in inForce[r] : Forbids(c, grant[r].tenants[1], r))'
    BY <2>2, <2>3, <2>4
  <2>6. QED
    BY <1>2, <1>3, <2>1, <2>5, ToldKept, EndedInv
<1>8. \A q \in Requests \ {r} : Fields(q)' = Fields(q)
  BY <1>3, <1>5 DEF Fields
<1>9. QED
  BY <1>6, <1>7, <1>8, OneRequest

\* A request that an override lets pass: if the override is the one for its
\* route, the file in force allows it.
LEMMA PassStep ==
    ASSUME IInv, NEW r \in Requests, NEW layer \in {"loki", "limits"}, Go(r, layer),
           pc[r] = IF layer = "loki" THEN "mimir" ELSE "loki",
           deadline' \in [Requests -> BOOLEAN],
           OneTenant(r) /\ (layer = "loki" <=> req[r].route.class \in Kinds) =>
               ~Forbids(config, grant[r].tenants[1], r),
           UNCHANGED <<deployment, config, req, hdr, orgCtx, addr, grant, blocked, inForce>>
    PROVE  IInv'
<1>1. pc[r] \in Layers /\ layer \in Layers /\ pc[r] \in Admitting
  BY DEF Layers, Admitting
<1>2. /\ answer[r] \in {0, 503} /\ ~blocked[r] /\ GrantInv(r) /\ OverrideInv(r)
      /\ OriginInv(r) /\ TypeOK
  BY <1>1, Running
<1>3. /\ pc' \in [Requests -> Layers \cup {"idle", "done"}] /\ answer' = answer
      /\ pc'[r] = layer /\ \A q \in Requests \ {r} : pc'[q] = pc[q]
      /\ \A q \in Requests : pc'[q] = "done" => answer'[q] # 0
  BY <1>1, <1>2, GoEffect
<1>4. TypeOK'
  BY <1>2, <1>3, Zenon DEF TypeOK
<1>5. RequestInv(r)'
  <2>1. GrantInv(r)'
    <3>1. /\ pc[r] \in After /\ pc[r] \in Past /\ pc'[r] \in After /\ pc'[r] \in Past
          /\ pc'[r] \notin Before /\ pc'[r] # "backend"
      BY <1>3 DEF After, Past, Before
    <3>2. QED
      BY <1>2, <3>1, Zenon DEF GrantInv
  <2>2. AnswerInv(r)'
    BY <1>1, <1>2, <1>3 DEF AnswerInv, Layers
  <2>3. OverrideInv(r)'
    <3>1. OneTenant(r)' <=> OneTenant(r)
      BY DEF OneTenant
    <3>2. Allowed(r)' <=> Allowed(r)
      BY DEF Allowed, Forbids
    <3>3. config \in inForce[r]
      BY <1>1, <1>2 DEF OverrideInv
    <3>4. OneTenant(r) /\ (layer = "loki" <=> req[r].route.class \in Kinds) => Allowed(r)
      BY <3>3 DEF Allowed
    <3>5. OneTenant(r) /\ layer = "limits" /\ req[r].route.class \in Kinds => Allowed(r)
      BY <1>2 DEF OverrideInv
    <3>6. /\ OneTenant(r) /\ layer = "loki" /\ req[r].route.class \in Kinds => Allowed(r)
          /\ OneTenant(r) /\ layer = "limits" => Allowed(r)
      BY <3>4, <3>5
    <3>7. ~blocked'[r]
      BY <1>2
    <3>8. QED
      BY <1>3, <3>1, <3>2, <3>3, <3>6, <3>7 DEF OverrideInv
  <2>4. OriginInv(r)'
    BY <1>2, <1>3 DEF OriginInv, Honest
  <2>5. QED
    BY <2>1, <2>2, <2>3, <2>4 DEF RequestInv
<1>6. \A q \in Requests \ {r} : Fields(q)' = Fields(q)
  BY <1>3 DEF Fields
<1>7. QED
  BY <1>4, <1>5, <1>6, OneRequest

\* The Mimir overrides.
LEMMA MimirStep ==
    ASSUME IInv, NEW r \in Requests, MimirOverrides(r)
    PROVE  IInv'
<1> DEFINE blockers == MimirBlockers(MimirConfig(r), r)
           class == req[r].route.class
<1>1. pc[r] = "mimir" /\ pc[r] \in Layers /\ pc[r] \in Past
  BY DEF MimirOverrides, Layers, Past
<1>2. TypeOK /\ GrantInv(r) /\ ValidCodes(config)
  BY <1>1, Running
<1>3. OneTenant(r) /\ class \in Kinds =>
         (blockers # {} <=> Forbids(config, grant[r].tenants[1], r))
  BY <1>1, <1>2, MimirVerdict, Zenon
<1>4. blockers # {} => class \in Kinds
  <2>1. MimirConfig(r) \in Configs \cup {Default}
    <3>1. config \in Configs \cup {Default}
      BY <1>2 DEF TypeOK
    <3>2. QED
      BY <3>1 DEF MimirConfig
  <2>2. DOMAIN MimirConfig(r).global = Kinds
    BY <2>1, ConfigTyped
  <2>3. QED
    BY <2>2 DEF MimirBlockers
<1> HIDE DEF blockers, class
<1>5. UNCHANGED <<deployment, config, req, hdr, orgCtx, addr, grant, deadline, inForce>>
  BY DEF MimirOverrides
<1>6. CASE blockers = {} /\ Go(r, "loki") /\ UNCHANGED blocked
  <2>1. OneTenant(r) /\ class \in Kinds => ~Forbids(config, grant[r].tenants[1], r)
    BY <1>3, <1>6
  <2>2. deadline' \in [Requests -> BOOLEAN]
    BY <1>2, <1>5 DEF TypeOK
  <2>3. QED
    BY <1>1, <1>5, <1>6, <2>1, <2>2, PassStep DEF class
<1>7. CASE \E s \in blockers : Stop(r, s.code) /\ blocked' = [blocked EXCEPT ![r] = TRUE]
  <2>1. PICK s \in blockers : Stop(r, s.code) /\ blocked' = [blocked EXCEPT ![r] = TRUE]
    BY <1>7
  <2>2. s.code \in 400 .. 599
    BY <1>1, <1>2, MimirCodes DEF blockers
  <2>3. OneTenant(r) => Forbids(config, grant[r].tenants[1], r)
    BY <1>3, <1>4
  <2>4. QED
    BY <1>1, <1>5, <2>1, <2>2, <2>3, BlockStep
<1>8. QED
  BY <1>6, <1>7 DEF MimirOverrides, blockers

\* The Loki overrides.
LEMMA LokiStep ==
    ASSUME IInv, NEW r \in Requests, LokiOverrides(r)
    PROVE  IInv'
<1> DEFINE code == LokiBlock(LokiConfig(r), r)
           class == req[r].route.class
<1>1. pc[r] = "loki" /\ pc[r] \in Layers /\ pc[r] \in Past
  BY DEF LokiOverrides, Layers, Past
<1>2. TypeOK /\ GrantInv(r) /\ OverrideInv(r)
  BY <1>1, Running
<1>3. OneTenant(r) /\ class \notin Kinds =>
         (code # 0 <=> Forbids(config, grant[r].tenants[1], r))
  BY <1>1, <1>2, LokiVerdict, Zenon
<1>4. code \in {0, 401, 403}
  BY DEF LokiBlock
<1>5. code # 0 => class \notin Kinds
  BY DEF LokiBlock, Kinds
<1> HIDE DEF code, class
<1>6. UNCHANGED <<deployment, config, req, hdr, orgCtx, addr, grant, inForce>>
  BY DEF LokiOverrides
<1>7. CASE /\ code = 0 /\ Go(r, "limits") /\ UNCHANGED blocked
           /\ deadline' = [deadline EXCEPT ![r] =
                 req[r].route.class = "loki_query" /\ req[r].features \cap {"histogram", "hint"} # {}]
  <2>1. OneTenant(r) /\ class \notin Kinds => ~Forbids(config, grant[r].tenants[1], r)
    BY <1>3, <1>7
  <2>2. deadline' \in [Requests -> BOOLEAN]
    <3>1. deadline \in [Requests -> BOOLEAN]
      BY <1>2 DEF TypeOK
    <3>2. QED
      BY <1>7, <3>1
  <2>3. QED
    BY <1>1, <1>6, <1>7, <2>1, <2>2, PassStep DEF class
<1>8. CASE /\ code # 0 /\ Stop(r, code) /\ blocked' = [blocked EXCEPT ![r] = TRUE]
           /\ UNCHANGED deadline
  <2>1. code \in 400 .. 599
    BY <1>4, <1>8
  <2>2. OneTenant(r) => Forbids(config, grant[r].tenants[1], r)
    BY <1>3, <1>5, <1>8
  <2>3. QED
    BY <1>1, <1>6, <1>8, <2>1, <2>2, BlockStep
<1>9. QED
  BY <1>7, <1>8 DEF LokiOverrides, code

\* A request arrives.
LEMMA ArriveStep ==
    ASSUME IInv, NEW r \in Requests, Arrive(r)
    PROVE  IInv'
<1>1. TypeOK /\ RequestInv(r) /\ pc[r] = "idle" /\ deployment \in Deployments
  BY DEF IInv, Arrive, TypeOK
<1>2. PICK q \in Traffic[deployment.traffic] :
          /\ req' = [req EXCEPT ![r] = [route |-> q.route, grpc |-> q.grpc,
                features |-> q.features, connection |-> q.connection]]
          /\ hdr' = [hdr EXCEPT ![r] =
                [n \in Names |-> CASE n = "x-scope-orgid" -> Absent
                                   [] n = "X-Scope-OrgID" -> IF q.org = <<>> THEN Absent ELSE Client(q.org)
                                   [] OTHER -> Client(<<>>)]]
          /\ addr' = [addr EXCEPT ![r].from =
                Arriving(ClientAddress, q.forged, q.claimed,
                         deployment.proxies, deployment.form, deployment.realIP)]
  BY DEF Arrive
<1>3. /\ q.route \in Routes /\ q.grpc \in BOOLEAN /\ q.features \subseteq Features
      /\ q.connection \subseteq Nameable
      /\ q.org \in Seq(Tenants \cup {BadTenant}) /\ q.forged \in Seq(Entries) /\ q.claimed \in Entries
  <2>1. deployment.traffic \in DOMAIN Traffic
    BY <1>1, DeploymentTyped
  <2>2. QED
    BY <2>1, GatewayAssumption
<1>4. /\ inForce' = [inForce EXCEPT ![r] = {config}] /\ Go(r, "clientip")
      /\ UNCHANGED <<deployment, config, orgCtx, grant, deadline, blocked>>
  BY DEF Arrive
<1>5. /\ pc' \in [Requests -> Layers \cup {"idle", "done"}] /\ answer' = answer
      /\ pc'[r] = "clientip" /\ \A p \in Requests \ {r} : pc'[p] = pc[p]
      /\ \A p \in Requests : pc'[p] = "done" => answer'[p] # 0
  <2>1. "clientip" \in Layers
    BY DEF Layers
  <2>2. QED
    BY <1>1, <1>4, <2>1, GoEffect
<1> DEFINE from == Arriving(ClientAddress, q.forged, q.claimed, deployment.proxies,
                            deployment.form, deployment.realIP)
           new == [n \in Names |-> CASE n = "x-scope-orgid" -> Absent
                                     [] n = "X-Scope-OrgID" -> IF q.org = <<>> THEN Absent ELSE Client(q.org)
                                     [] OTHER -> Client(<<>>)]
           asked == [route |-> q.route, grpc |-> q.grpc, features |-> q.features,
                     connection |-> q.connection]
<1>6. from \in [xff : Seq(Entries), realIP : Entries, remote : Entries]
  BY <1>1, <1>3, ArrivingIs
<1>7. /\ new \in [Names -> Headers] /\ new["x-scope-orgid"] = Absent
      /\ new["X-Scope-OrgID"].val \in Seq(Tenants \cup {BadTenant})
  <2>1. <<>> \in Seq(Tenants \cup {BadTenant})
    BY EmptySeq
  <2>2. Absent \in Headers /\ \A v \in Seq(Tenants \cup {BadTenant}) : Client(v) \in Headers
    BY <2>1 DEF Absent, Client, Headers
  <2>3. new \in [Names -> Headers]
    BY <1>3, <2>1, <2>2
  <2>4. "x-scope-orgid" \in Names /\ "X-Scope-OrgID" \in Names
    BY DEF Names
  <2>5. new["x-scope-orgid"] = Absent
    BY <2>4
  <2>6. new["X-Scope-OrgID"] = IF q.org = <<>> THEN Absent ELSE Client(q.org)
    BY <2>4
  <2> HIDE DEF new
  <2>7. new["X-Scope-OrgID"].val \in Seq(Tenants \cup {BadTenant})
    BY <1>3, <2>1, <2>6 DEF Absent, Client
  <2>8. QED
    BY <2>3, <2>5, <2>7
<1>8. asked \in Asked
  BY <1>3 DEF Asked
<1>9. req' = [req EXCEPT ![r] = asked] /\ hdr' = [hdr EXCEPT ![r] = new]
      /\ addr' = [addr EXCEPT ![r] = [addr[r] EXCEPT !.from = from]]
  BY <1>2
<1> HIDE DEF from, new, asked
<1>10. TypeOK'
  <2>1. req' \in [Requests -> Asked]
    BY <1>1, <1>8, <1>9 DEF TypeOK
  <2>2. hdr' \in [Requests -> [Names -> Headers]]
    BY <1>1, <1>7, <1>9 DEF TypeOK
  <2>3. addr' \in [Requests ->
            [from : [xff : Seq(Entries), realIP : Entries, remote : Entries],
             ip : Addresses \cup {NoAddress}, told : Addresses \cup {Junk, NoAddress}]]
    <3>1. addr \in [Requests ->
              [from : [xff : Seq(Entries), realIP : Entries, remote : Entries],
               ip : Addresses \cup {NoAddress}, told : Addresses \cup {Junk, NoAddress}]]
      BY <1>1 DEF TypeOK
    <3>2. [addr[r] EXCEPT !.from = from] \in
              [from : [xff : Seq(Entries), realIP : Entries, remote : Entries],
               ip : Addresses \cup {NoAddress}, told : Addresses \cup {Junk, NoAddress}]
      BY <1>6, <3>1
    <3>3. QED
      BY <1>9, <3>1, <3>2
  <2>4. inForce' \in [Requests -> SUBSET (Configs \cup {Default})]
    BY <1>1, <1>4 DEF TypeOK
  <2>5. QED
    BY <1>1, <1>4, <1>5, <2>1, <2>2, <2>3, <2>4, Zenon DEF TypeOK
<1>11. /\ hdr'[r] = new /\ addr'[r].from = from /\ addr'[r].told = addr[r].told
       /\ inForce'[r] = {config}
  BY <1>1, <1>4, <1>9 DEF TypeOK
<1>12. RequestInv(r)'
  <2>1. GrantInv(r)'
    BY <1>5, <1>7, <1>11 DEF GrantInv, After, Past
  <2>2. answer[r] = 0 /\ ~blocked[r]
    BY <1>1 DEF RequestInv, AnswerInv
  <2>3. AnswerInv(r)'
    BY <1>4, <1>5, <2>2 DEF AnswerInv
  <2>4. OverrideInv(r)'
    <3>1. ~blocked'[r] /\ config' \in inForce'[r]
      BY <1>4, <1>11, <2>2
    <3>2. QED
      BY <1>5, <3>1 DEF OverrideInv
  <2>5. OriginInv(r)'
    <3>1. addr[r].told # NoAddress => Honest(addr[r].told)
      BY <1>1 DEF RequestInv, OriginInv
    <3>2. (addr[r].told # NoAddress => Honest(addr[r].told))'
      BY <1>4, <1>11, <3>1 DEF Honest
    <3>3. (\E forged \in Seq(Entries), claimed \in Entries :
              addr[r].from = Arriving(ClientAddress, forged, claimed, deployment.proxies,
                                      deployment.form, deployment.realIP))'
      BY <1>3, <1>4, <1>11 DEF from
    <3>4. QED
      BY <1>5, <3>2, <3>3 DEF OriginInv
  <2>6. QED
    BY <2>1, <2>3, <2>4, <2>5 DEF RequestInv
<1>13. \A p \in Requests \ {r} : Fields(p)' = Fields(p)
  BY <1>1, <1>4, <1>5, <1>9 DEF Fields, TypeOK
<1>14. QED
  BY <1>4, <1>10, <1>12, <1>13, OneRequest

\* The middlewares before authentication only look for the request's origin.
LEMMA OriginStep ==
    ASSUME IInv, NEW r \in Requests, NEW layer \in {"xff", "auth"}, Go(r, layer),
           pc[r] = IF layer = "xff" THEN "clientip" ELSE "xff",
           NEW new \in [from : [xff : Seq(Entries), realIP : Entries, remote : Entries],
                        ip : Addresses \cup {NoAddress}, told : Addresses \cup {Junk, NoAddress}],
           addr' = [addr EXCEPT ![r] = new], new.told = addr[r].told,
           new.from.remote.addr = LastHop, new.ip # NoAddress => Honest(new.ip),
           new.ip = NoAddress /\ Exact(deployment) => deployment.proxies = <<>>,
           UNCHANGED <<deployment, config, req, hdr, orgCtx, grant, deadline, blocked, inForce>>
    PROVE  IInv'
<1>1. pc[r] \in Layers /\ layer \in Layers /\ pc[r] \in Admitting /\ pc[r] \in Before
  BY DEF Layers, Admitting, Before
<1>2. /\ answer[r] \in {0, 503} /\ ~blocked[r] /\ GrantInv(r) /\ OverrideInv(r)
      /\ OriginInv(r) /\ TypeOK
  BY <1>1, Running
<1>3. /\ pc' \in [Requests -> Layers \cup {"idle", "done"}] /\ answer' = answer
      /\ pc'[r] = layer /\ \A q \in Requests \ {r} : pc'[q] = pc[q]
      /\ \A q \in Requests : pc'[q] = "done" => answer'[q] # 0
  BY <1>1, <1>2, GoEffect
<1>4. addr'[r] = new /\ \A q \in Requests \ {r} : addr'[q] = addr[q]
  BY <1>2 DEF TypeOK
<1>5. TypeOK'
  <2>1. addr' \in [Requests ->
            [from : [xff : Seq(Entries), realIP : Entries, remote : Entries],
             ip : Addresses \cup {NoAddress}, told : Addresses \cup {Junk, NoAddress}]]
    BY <1>2 DEF TypeOK
  <2>2. QED
    BY <1>2, <1>3, <2>1, Zenon DEF TypeOK
<1>6. RequestInv(r)'
  <2>1. GrantInv(r)'
    <3>1. pc'[r] \notin After /\ pc'[r] \notin Past /\ pc'[r] # "backend"
      BY <1>3 DEF After, Past
    <3>2. QED
      BY <1>1, <1>2, <3>1, Zenon DEF GrantInv
  <2>2. AnswerInv(r)'
    BY <1>1, <1>2, <1>3 DEF AnswerInv, Layers
  <2>3. OverrideInv(r)'
    <3>1. ~blocked'[r] /\ config' \in inForce'[r]
      BY <1>1, <1>2 DEF OverrideInv
    <3>2. QED
      BY <1>3, <3>1 DEF OverrideInv
  <2>4. OriginInv(r)'
    <3>1. \A a : Honest(a)' <=> Honest(a)
      BY DEF Honest
    <3>2. LastHop' = LastHop
      BY DEF LastHop
    <3>3. addr[r].told # NoAddress => Honest(addr[r].told)
      BY <1>2 DEF OriginInv
    <3>4. pc'[r] # "clientip"
      BY <1>3
    <3>5. QED
      BY <1>4, <3>1, <3>2, <3>3, <3>4 DEF OriginInv
  <2>5. QED
    BY <2>1, <2>2, <2>3, <2>4 DEF RequestInv
<1>7. \A q \in Requests \ {r} : Fields(q)' = Fields(q)
  BY <1>3, <1>4 DEF Fields
<1>8. QED
  BY <1>5, <1>6, <1>7, OneRequest

\* clientIPMiddleware finds the address.
LEMMA ClientIPStep ==
    ASSUME IInv, NEW r \in Requests, ExtractClientIP(r)
    PROVE  IInv'
<1> DEFINE from == addr[r].from
           ip == GetClientIP(deployment.types, deployment.trusted, from)
           new == [addr[r] EXCEPT !.ip = ip]
<1>1. pc[r] = "clientip" /\ pc[r] \in Layers /\ TypeOK /\ deployment \in Deployments
  BY DEF IInv, ExtractClientIP, Layers, TypeOK
<1>2. OriginInv(r)
  BY <1>1, Running
<1>3. addr[r] \in [from : [xff : Seq(Entries), realIP : Entries, remote : Entries],
                   ip : Addresses \cup {NoAddress}, told : Addresses \cup {Junk, NoAddress}]
  BY <1>1 DEF TypeOK
<1>4. PICK forged \in Seq(Entries), claimed \in Entries :
         from = Arriving(ClientAddress, forged, claimed, deployment.proxies,
                         deployment.form, deployment.realIP)
  BY <1>1, <1>2 DEF OriginInv
<1>5. /\ ip \in Addresses \cup {NoAddress} /\ (ip # NoAddress => Honest(ip))
      /\ (ip = NoAddress /\ Exact(deployment) => deployment.proxies = <<>>)
  BY <1>1, <1>4, ClientIPHonest, Zenon
<1>6. from.remote.addr = LastHop
  <2>1. from.remote = Entry(LastHop, "port")
    BY <1>1, <1>4, ArrivingIs
  <2>2. QED
    BY <2>1 DEF Entry
<1> HIDE DEF ip
<1>7. /\ new \in [from : [xff : Seq(Entries), realIP : Entries, remote : Entries],
                  ip : Addresses \cup {NoAddress}, told : Addresses \cup {Junk, NoAddress}]
      /\ new.ip = ip /\ new.told = addr[r].told /\ new.from = from
  BY <1>3, <1>5
<1>8. /\ addr' = [addr EXCEPT ![r] = new] /\ Go(r, "xff")
      /\ UNCHANGED <<deployment, config, req, hdr, orgCtx, grant, deadline, blocked, inForce>>
  BY DEF ExtractClientIP, ip
<1> HIDE DEF new, from
<1>9. new.from.remote.addr = LastHop
  BY <1>6, <1>7
<1>10. QED
  BY <1>1, <1>5, <1>7, <1>8, <1>9, OriginStep

\* xForwardedForMiddleware hands it on.
LEMMA ForwardedForStep ==
    ASSUME IInv, NEW r \in Requests, SetForwardedFor(r)
    PROVE  IInv'
<1> DEFINE from == addr[r].from
           xff == IF deployment.setXFF /\ deployment.types # {}
                  THEN XForwardedFor(from.xff, addr[r].ip) ELSE from.xff
           new == [addr[r] EXCEPT !.from = [from EXCEPT !.xff = xff]]
<1>1. pc[r] = "xff" /\ pc[r] \in Layers /\ TypeOK
  BY DEF IInv, SetForwardedFor, Layers
<1>2. OriginInv(r)
  BY <1>1, Running
<1>3. addr[r] \in [from : [xff : Seq(Entries), realIP : Entries, remote : Entries],
                   ip : Addresses \cup {NoAddress}, told : Addresses \cup {Junk, NoAddress}]
  BY <1>1 DEF TypeOK
<1>4. addr \in [Requests ->
          [from : [xff : Seq(Entries), realIP : Entries, remote : Entries],
           ip : Addresses \cup {NoAddress}, told : Addresses \cup {Junk, NoAddress}]]
  BY <1>1 DEF TypeOK
<1>5. XForwardedFor(from.xff, addr[r].ip) \in Seq(Entries)
  <2>1. addr[r].ip # NoAddress => Entry(addr[r].ip, "plain") \in Entries
    BY <1>3 DEF Entry, Entries, Forms
  <2>2. addr[r].ip # NoAddress => <<Entry(addr[r].ip, "plain")>> \in Seq(Entries)
    BY <2>1
  <2>3. QED
    BY <1>3, <2>2 DEF XForwardedFor
<1>6. xff \in Seq(Entries)
  BY <1>3, <1>5
<1>7. addr' = [addr EXCEPT ![r] = new]
  <2>1. CASE deployment.setXFF /\ deployment.types # {}
    BY <2>1 DEF SetForwardedFor
  <2>2. CASE ~(deployment.setXFF /\ deployment.types # {})
    <3>1. addr' = addr /\ xff = from.xff
      BY <2>2 DEF SetForwardedFor
    <3>2. new = addr[r]
      BY <1>3, <3>1
    <3> HIDE DEF new
    <3>3. QED
      BY <1>4, <3>1, <3>2
  <2>3. QED
    BY <2>1, <2>2
<1> HIDE DEF xff
<1>8. /\ new \in [from : [xff : Seq(Entries), realIP : Entries, remote : Entries],
                  ip : Addresses \cup {NoAddress}, told : Addresses \cup {Junk, NoAddress}]
      /\ new.ip = addr[r].ip /\ new.told = addr[r].told
      /\ new.from.remote.addr = addr[r].from.remote.addr
  BY <1>3, <1>6
<1> HIDE DEF new, from
<1>9. /\ Go(r, "auth")
      /\ UNCHANGED <<deployment, config, req, hdr, orgCtx, grant, deadline, blocked, inForce>>
  BY DEF SetForwardedFor
<1>10. /\ new.from.remote.addr = LastHop
       /\ new.ip # NoAddress => Honest(new.ip)
       /\ new.ip = NoAddress /\ Exact(deployment) => deployment.proxies = <<>>
  BY <1>1, <1>2, <1>8 DEF OriginInv
<1>11. QED
  BY <1>1, <1>7, <1>8, <1>9, <1>10, OriginStep

\* Whoever connects is honest if the configuration is exact and found no address.
LEMMA LastHopHonest ==
    ASSUME deployment \in Deployments, Exact(deployment) => deployment.proxies = <<>>
    PROVE  Honest(LastHop)
<1>1. Len(deployment.proxies) + 1 \in 1 .. Len(deployment.proxies) + 1
  BY DeploymentTyped
<1>2. /\ Hop(Len(deployment.proxies) + 1) = LastHop
      /\ Hop(Len(deployment.proxies) + 1) \in {ClientAddress} \cup Elements(deployment.proxies)
  BY <1>1, Hops
<1>3. deployment.proxies = <<>> => LastHop = ClientAddress
  BY DEF LastHop
<1>4. QED
  BY <1>2, <1>3 DEF Honest

\* authMiddleware: the auth service is told an honest address, and the request
\* goes on with what it grants.
LEMMA AuthenticateStep ==
    ASSUME IInv, NEW r \in Requests, Authenticate(r)
    PROVE  IInv'
<1> DEFINE trust == deployment.authenticator = "trust"
           told == ToldAddress(addr[r].ip, addr[r].from.remote)
           origin == IF trust THEN addr[r] ELSE [addr[r] EXCEPT !.told = told]
<1>1. pc[r] = "auth" /\ pc[r] \in Layers /\ pc[r] \in Before /\ pc[r] \in Admitting
  BY DEF Authenticate, Layers, Before, Admitting
<1>2. /\ answer[r] \in {0, 503} /\ ~blocked[r] /\ GrantInv(r) /\ OverrideInv(r)
      /\ OriginInv(r) /\ TypeOK
  BY <1>1, Running
<1>3. /\ addr \in [Requests ->
            [from : [xff : Seq(Entries), realIP : Entries, remote : Entries],
             ip : Addresses \cup {NoAddress}, told : Addresses \cup {Junk, NoAddress}]]
      /\ deployment \in Deployments /\ hdr \in [Requests -> [Names -> Headers]]
      /\ req \in [Requests -> Asked]
      /\ grant \in [Requests -> Outcomes] /\ orgCtx \in [Requests -> Seq(Tenants)]
  BY <1>2 DEF TypeOK
<1>4. /\ told \in Addresses \cup {Junk, NoAddress}
      /\ Honest(told)
  <2>1. /\ addr[r].ip \in Addresses \cup {NoAddress}
        /\ addr[r].from.remote.addr \in Addresses \cup {Junk}
    BY <1>3 DEF Entries
  <2>2. /\ addr[r].from.remote.addr = LastHop
        /\ addr[r].ip # NoAddress => Honest(addr[r].ip)
        /\ addr[r].ip = NoAddress => (Exact(deployment) => deployment.proxies = <<>>)
    BY <1>1, <1>2 DEF OriginInv
  <2>3. addr[r].ip = NoAddress => Honest(LastHop)
    BY <1>3, <2>2, LastHopHonest
  <2>4. QED
    BY <2>1, <2>2, <2>3 DEF ToldAddress
<1> HIDE DEF told
<1>5. addr' = [addr EXCEPT ![r] = origin]
  <2>1. CASE trust
    <3>1. addr' = addr /\ origin = addr[r]
      BY <2>1 DEF Authenticate
    <3> HIDE DEF origin
    <3>2. QED
      BY <1>3, <3>1
  <2>2. CASE ~trust
    BY <2>2 DEF Authenticate, told
  <2>3. QED
    BY <2>1, <2>2
<1>6. /\ origin \in [from : [xff : Seq(Entries), realIP : Entries, remote : Entries],
                     ip : Addresses \cup {NoAddress}, told : Addresses \cup {Junk, NoAddress}]
      /\ origin.told \in {addr[r].told, told}
  BY <1>3, <1>4
<1> HIDE DEF origin
<1>7. /\ addr' \in [Requests ->
            [from : [xff : Seq(Entries), realIP : Entries, remote : Entries],
             ip : Addresses \cup {NoAddress}, told : Addresses \cup {Junk, NoAddress}]]
      /\ addr'[r] = origin /\ \A q \in Requests \ {r} : addr'[q] = addr[q]
  BY <1>3, <1>5, <1>6
<1>8. UNCHANGED <<deployment, config, req, deadline, blocked, inForce>>
  BY DEF Authenticate
<1>9. Told(r)'
  <2>1. origin.told # NoAddress => Honest(origin.told)
    BY <1>2, <1>4, <1>6 DEF OriginInv
  <2>2. QED
    BY <1>7, <1>8, <2>1 DEF Told, Honest
<1> DEFINE results == IF trust THEN {TrustResult(hdr[r]["X-Scope-OrgID"])} ELSE ForwardResults
<1>10. \A result \in results : result \in Outcomes /\ (result.err = "none" => WellFormedGrant(result))
  <2>1. CASE trust
    <3>1. hdr[r]["X-Scope-OrgID"].val \in Seq(Tenants \cup {BadTenant})
      BY <1>1, <1>2 DEF GrantInv
    <3>2. QED
      BY <2>1, <3>1, TrustResultSound
  <2>2. CASE ~trust
    BY <2>2, GatewayAssumption
  <2>3. QED
    BY <2>1, <2>2
<1> HIDE DEF trust
<1>11. PICK result \in results :
          \/ /\ result.err # "none" /\ Stop(r, Status(result.err))
             /\ UNCHANGED <<hdr, orgCtx, grant>>
          \/ /\ result.err = "none"
             /\ hdr' = [hdr EXCEPT ![r] = HeadersAfterAuth(hdr[r], result, req[r].grpc)]
             /\ orgCtx' = [orgCtx EXCEPT ![r] = IF req[r].grpc THEN <<>> ELSE result.tenants]
             /\ grant' = [grant EXCEPT ![r] = result]
             /\ Go(r, "sensitive")
  BY DEF Authenticate, trust
<1> HIDE DEF results
<1>12. result \in Outcomes /\ (result.err = "none" => WellFormedGrant(result))
  BY <1>10
<1>13. CASE result.err # "none" /\ Stop(r, Status(result.err)) /\ UNCHANGED <<hdr, orgCtx, grant>>
  <2>1. Status(result.err) \in 1 .. 599
    BY DEF Status
  <2>2. Ends(r, Status(result.err))
    <3>1. Stop(r, Status(result.err))
      BY <1>13
    <3>2. TypeOK
      BY <1>2
    <3>3. QED
      BY <2>1, <3>1, <3>2, StopEffect, ZenonT(40)
  <2>3. /\ pc' \in [Requests -> Layers \cup {"idle", "done"}]
        /\ answer' \in [Requests -> 0 .. 599] /\ pc'[r] = "done"
        /\ \A q \in Requests \ {r} : pc'[q] = pc[q] /\ answer'[q] = answer[q]
        /\ \A q \in Requests : pc'[q] = "done" => answer'[q] # 0
    BY <2>2 DEF Ends
  <2>4. TypeOK'
    BY <1>2, <1>7, <1>8, <1>13, <2>3, Zenon DEF TypeOK
  <2>5. RequestInv(r)'
    BY <1>2, <1>8, <1>9, <2>3, EndedInv
  <2>6. \A q \in Requests \ {r} : Fields(q)' = Fields(q)
    BY <1>7, <1>8, <1>13, <2>3 DEF Fields
  <2>7. QED
    BY <1>8, <2>4, <2>5, <2>6, OneRequest
<1>14. CASE /\ result.err = "none"
            /\ hdr' = [hdr EXCEPT ![r] = HeadersAfterAuth(hdr[r], result, req[r].grpc)]
            /\ orgCtx' = [orgCtx EXCEPT ![r] = IF req[r].grpc THEN <<>> ELSE result.tenants]
            /\ grant' = [grant EXCEPT ![r] = result]
            /\ Go(r, "sensitive")
  <2> DEFINE new == HeadersAfterAuth(hdr[r], result, req[r].grpc)
             ctx == IF req[r].grpc THEN <<>> ELSE result.tenants
  <2>1. hdr[r] \in [Names -> Headers] /\ req[r].grpc \in BOOLEAN
    BY <1>3 DEF Asked
  <2>2. hdr[r]["x-scope-orgid"] = Absent
    BY <1>1, <1>2 DEF GrantInv
  <2>3. new \in [Names -> Headers]
    BY <1>12, <2>1, HeadersTyped
  <2>4. /\ req[r].grpc => /\ new["x-scope-orgid"] = Auth(result.tenants)
                          /\ new["X-Scope-OrgID"] = Absent
        /\ ~req[r].grpc => /\ new["X-Scope-OrgID"] = Auth(result.tenants)
                           /\ new["x-scope-orgid"] = Absent
        /\ new["X-Prom-Label-Policy"] =
              IF result.policies = <<>> THEN Absent ELSE Auth(result.policies)
        /\ new["Authorization"].from # "client"
    BY <1>12, <2>1, <2>2, HeadersSound, Zenon
  <2>5. ctx \in Seq(Tenants) /\ (~req[r].grpc => ctx = result.tenants)
    <3>1. <<>> \in Seq(Tenants) /\ result.tenants \in Seq(Tenants)
      BY <1>12, EmptySeq DEF Outcomes
    <3>2. QED
      BY <3>1
  <2> HIDE DEF new, ctx
  <2>6. /\ hdr' = [hdr EXCEPT ![r] = new] /\ orgCtx' = [orgCtx EXCEPT ![r] = ctx]
        /\ grant' = [grant EXCEPT ![r] = result]
    BY <1>14 DEF new, ctx
  <2>7. "sensitive" \in Layers
    BY DEF Layers
  <2>8. /\ pc' \in [Requests -> Layers \cup {"idle", "done"}] /\ answer' = answer
        /\ pc'[r] = "sensitive" /\ \A q \in Requests \ {r} : pc'[q] = pc[q]
        /\ \A q \in Requests : pc'[q] = "done" => answer'[q] # 0
    BY <1>2, <1>14, <2>7, GoEffect
  <2>9. /\ hdr' \in [Requests -> [Names -> Headers]] /\ orgCtx' \in [Requests -> Seq(Tenants)]
        /\ grant' \in [Requests -> Outcomes]
    BY <1>3, <1>12, <2>3, <2>5, <2>6
  <2>10. /\ hdr'[r] = new /\ orgCtx'[r] = ctx /\ grant'[r] = result
         /\ \A q \in Requests \ {r} :
               hdr'[q] = hdr[q] /\ orgCtx'[q] = orgCtx[q] /\ grant'[q] = grant[q]
    BY <1>3, <2>6
  <2>11. TypeOK'
    <3>1. /\ deployment' \in Deployments /\ config' \in Configs \cup {Default}
          /\ req' \in [Requests -> Asked]
          /\ inForce' \in [Requests -> SUBSET (Configs \cup {Default})]
      BY <1>2, <1>8 DEF TypeOK
    <3>2. /\ deadline' \in [Requests -> BOOLEAN] /\ blocked' \in [Requests -> BOOLEAN]
          /\ answer' \in [Requests -> 0 .. 599]
      BY <1>2, <1>8, <2>8 DEF TypeOK
    <3>3. QED
      BY <1>7, <2>8, <2>9, <3>1, <3>2, Zenon DEF TypeOK
  <2>12. RequestInv(r)'
    <3>1. GrantInv(r)'
      <4>1. pc'[r] \notin Before /\ pc'[r] \notin Past /\ pc'[r] # "backend"
        BY <2>8 DEF Before, Past
      <4>2. req'[r] = req[r] /\ WellFormedGrant(result)
        BY <1>8, <1>12, <1>14
      <4>3. QED
        BY <2>4, <2>5, <2>10, <4>1, <4>2, Zenon DEF GrantInv
    <3>2. AnswerInv(r)'
      BY <1>2, <1>8, <2>8 DEF AnswerInv
    <3>3. OverrideInv(r)'
      <4>1. ~blocked'[r] /\ config' \in inForce'[r]
        BY <1>1, <1>2, <1>8 DEF OverrideInv
      <4>2. QED
        BY <2>8, <4>1 DEF OverrideInv
    <3>4. OriginInv(r)'
      BY <1>9, <2>8 DEF OriginInv, Told
    <3>5. QED
      BY <3>1, <3>2, <3>3, <3>4 DEF RequestInv
  <2>13. \A q \in Requests \ {r} : Fields(q)' = Fields(q)
    BY <1>7, <1>8, <2>8, <2>10 DEF Fields
  <2>14. QED
    BY <1>8, <2>11, <2>12, <2>13, OneRequest
<1>15. QED
  BY <1>11, <1>13, <1>14

\* The sensitive headers go and the granted ones stay.
LEMMA SensitiveStep ==
    ASSUME IInv, NEW r \in Requests, RemoveSensitive(r)
    PROVE  IInv'
<1>1. pc[r] = "sensitive" /\ pc[r] \in Layers /\ pc[r] \in Admitting /\ pc[r] \in After
  BY DEF RemoveSensitive, Layers, Admitting, After
<1>2. /\ answer[r] \in {0, 503} /\ ~blocked[r] /\ GrantInv(r) /\ OverrideInv(r)
      /\ OriginInv(r) /\ TypeOK
  BY <1>1, Running
<1>3. hdr \in [Requests -> [Names -> Headers]]
  BY <1>2 DEF TypeOK
<1> DEFINE new == [hdr[r] EXCEPT !["Sensitive"] = Absent]
<1>4. /\ hdr' = [hdr EXCEPT ![r] = new] /\ Go(r, "mimir")
      /\ UNCHANGED <<deployment, config, req, orgCtx, addr, grant, deadline, blocked, inForce>>
  BY DEF RemoveSensitive
<1>5. Absent \in Headers
  BY EmptySeq DEF Absent, Headers
<1>6. /\ new \in [Names -> Headers] /\ new["Sensitive"] = Absent
      /\ new["X-Scope-OrgID"] = hdr[r]["X-Scope-OrgID"]
      /\ new["x-scope-orgid"] = hdr[r]["x-scope-orgid"]
      /\ new["X-Prom-Label-Policy"] = hdr[r]["X-Prom-Label-Policy"]
      /\ new["Authorization"] = hdr[r]["Authorization"]
  <2>1. hdr[r] \in [Names -> Headers]
    BY <1>3
  <2>2. new \in [Names -> Headers]
    BY <1>5, <2>1
  <2>3. QED
    BY <2>1, <2>2 DEF Names
<1> HIDE DEF new
<1>7. /\ hdr' \in [Requests -> [Names -> Headers]] /\ hdr'[r] = new
      /\ \A q \in Requests \ {r} : hdr'[q] = hdr[q]
  BY <1>3, <1>4, <1>6
<1>8. "mimir" \in Layers
  BY DEF Layers
<1>9. /\ pc' \in [Requests -> Layers \cup {"idle", "done"}] /\ answer' = answer
      /\ pc'[r] = "mimir" /\ \A q \in Requests \ {r} : pc'[q] = pc[q]
      /\ \A q \in Requests : pc'[q] = "done" => answer'[q] # 0
  BY <1>2, <1>4, <1>8, GoEffect
<1>10. TypeOK'
  BY <1>2, <1>4, <1>7, <1>9, Zenon DEF TypeOK
<1>11. RequestInv(r)'
  <2>1. GrantInv(r)'
    <3>1. pc'[r] \notin Before /\ pc'[r] # "backend"
      BY <1>9 DEF Before
    <3>2. QED
      <4>1. /\ WellFormedGrant(grant[r])
            /\ req[r].grpc => /\ hdr[r]["x-scope-orgid"] = Auth(grant[r].tenants)
                              /\ hdr[r]["X-Scope-OrgID"] = Absent
            /\ ~req[r].grpc => /\ hdr[r]["X-Scope-OrgID"] = Auth(grant[r].tenants)
                               /\ hdr[r]["x-scope-orgid"] = Absent
                               /\ orgCtx[r] = grant[r].tenants
            /\ hdr[r]["X-Prom-Label-Policy"] =
                  IF grant[r].policies = <<>> THEN Absent ELSE Auth(grant[r].policies)
            /\ hdr[r]["Authorization"].from # "client"
        BY <1>1, <1>2, Zenon DEF GrantInv
      <4>2. grant'[r] = grant[r] /\ req'[r] = req[r] /\ orgCtx'[r] = orgCtx[r]
        BY <1>4
      <4>3. QED
        BY <1>6, <1>7, <3>1, <4>1, <4>2, Zenon DEF GrantInv
  <2>2. AnswerInv(r)'
    BY <1>2, <1>4, <1>9 DEF AnswerInv
  <2>3. OverrideInv(r)'
    <3>1. ~blocked'[r] /\ config' \in inForce'[r]
      BY <1>1, <1>2, <1>4 DEF OverrideInv
    <3>2. QED
      BY <1>9, <3>1 DEF OverrideInv
  <2>4. OriginInv(r)'
    <3>1. Told(r)'
      BY <1>2, <1>4, ToldKept
    <3>2. QED
      BY <1>9, <3>1 DEF OriginInv, Told
  <2>5. QED
    BY <2>1, <2>2, <2>3, <2>4 DEF RequestInv
<1>12. \A q \in Requests \ {r} : Fields(q)' = Fields(q)
  BY <1>4, <1>7, <1>9 DEF Fields
<1>13. QED
  BY <1>4, <1>10, <1>11, <1>12, OneRequest

\* What is kept of a request that is not there.
LEMMA RestTyped ==
    /\ NoRequest \in Asked
    /\ [n \in Names |-> Absent] \in [Names -> Headers] /\ <<>> \in Seq(Tenants)
    /\ WithExtra(Failure("invalid"), {}) \in Outcomes
    /\ NoOrigin \in
          [from : [xff : Seq(Entries), realIP : Entries, remote : Entries],
           ip : Addresses \cup {NoAddress}, told : Addresses \cup {Junk, NoAddress}]
<1>1. <<>> \in Seq(Tenants) /\ <<>> \in Seq(Policies) /\ <<>> \in Seq(Entries)
  BY EmptySeq
<1>2. NoRequest \in Asked
  BY DEF NoRequest, Routes, Asked
<1>3. [n \in Names |-> Absent] \in [Names -> Headers]
  BY <1>1 DEF Absent, Headers
<1>4. WithExtra(Failure("invalid"), {}) \in Outcomes
  BY <1>1 DEF WithExtra, Failure, Outcomes, Errors
<1>5. Entry(Junk, "plain") \in Entries
  BY DEF Entry, Entries, Forms
<1>6. NoOrigin \in
          [from : [xff : Seq(Entries), realIP : Entries, remote : Entries],
           ip : Addresses \cup {NoAddress}, told : Addresses \cup {Junk, NoAddress}]
  BY <1>1, <1>5 DEF NoOrigin
<1>7. QED
  BY <1>1, <1>2, <1>3, <1>4, <1>6

\* A request that is not there, to be proved about in both states of a step.
AtRest(r) ==
    /\ pc[r] = "idle" /\ hdr[r] = [n \in Names |-> Absent] /\ addr[r] = NoOrigin
    /\ answer[r] = 0 /\ ~blocked[r]

RestInv == \A r \in Requests : AtRest(r) => RequestInv(r)

\* A request that is not there satisfies the invariant.
LEMMA RestHolds == RestInv
<1> SUFFICES ASSUME NEW r \in Requests, AtRest(r) PROVE RequestInv(r)
  BY DEF RestInv
<1> USE DEF AtRest
<1>1. /\ hdr[r]["x-scope-orgid"] = Absent
      /\ hdr[r]["X-Scope-OrgID"].val \in Seq(Tenants \cup {BadTenant})
  <2>1. hdr[r]["x-scope-orgid"] = Absent /\ hdr[r]["X-Scope-OrgID"] = Absent
    BY DEF Names
  <2>2. Absent.val = <<>>
    BY DEF Absent
  <2>3. <<>> \in Seq(Tenants \cup {BadTenant})
    BY EmptySeq
  <2>4. QED
    BY <2>1, <2>2, <2>3, Zenon
<1>2. GrantInv(r)
  BY <1>1 DEF GrantInv, After, Past
<1>3. AnswerInv(r)
  BY DEF AnswerInv, Layers
<1>4. OverrideInv(r)
  BY DEF OverrideInv, Admitting
<1>5. OriginInv(r)
  BY DEF OriginInv, NoOrigin
<1>6. QED
  BY <1>2, <1>3, <1>4, <1>5 DEF RequestInv

\* The next request finds nothing of this one.
LEMMA FinishStep ==
    ASSUME IInv, NEW r \in Requests, Finish(r)
    PROVE  IInv'
<1> DEFINE none == [n \in Names |-> Absent]
           failed == WithExtra(Failure("invalid"), {})
<1>1. TypeOK
  BY DEF IInv
<1>2. /\ pc' = [pc EXCEPT ![r] = "idle"] /\ req' = [req EXCEPT ![r] = NoRequest]
      /\ hdr' = [hdr EXCEPT ![r] = none] /\ orgCtx' = [orgCtx EXCEPT ![r] = <<>>]
      /\ addr' = [addr EXCEPT ![r] = NoOrigin] /\ grant' = [grant EXCEPT ![r] = failed]
      /\ deadline' = [deadline EXCEPT ![r] = FALSE] /\ answer' = [answer EXCEPT ![r] = 0]
      /\ blocked' = [blocked EXCEPT ![r] = FALSE] /\ inForce' = [inForce EXCEPT ![r] = {}]
      /\ deployment' = deployment /\ config' = config
  BY DEF Finish
<1>3. /\ NoRequest \in Asked
      /\ none \in [Names -> Headers] /\ <<>> \in Seq(Tenants) /\ failed \in Outcomes
      /\ NoOrigin \in
            [from : [xff : Seq(Entries), realIP : Entries, remote : Entries],
             ip : Addresses \cup {NoAddress}, told : Addresses \cup {Junk, NoAddress}]
  BY RestTyped
<1> HIDE DEF none, failed
<1>4. TypeOK'
  <2>1. pc' \in [Requests -> Layers \cup {"idle", "done"}]
    BY <1>1, <1>2 DEF TypeOK
  <2>2. req' \in [Requests -> Asked]
    BY <1>1, <1>2, <1>3 DEF TypeOK
  <2>3. hdr' \in [Requests -> [Names -> Headers]]
    BY <1>1, <1>2, <1>3 DEF TypeOK
  <2>4. addr' \in [Requests ->
            [from : [xff : Seq(Entries), realIP : Entries, remote : Entries],
             ip : Addresses \cup {NoAddress}, told : Addresses \cup {Junk, NoAddress}]]
    BY <1>1, <1>2, <1>3 DEF TypeOK
  <2>5. grant' \in [Requests -> Outcomes] /\ orgCtx' \in [Requests -> Seq(Tenants)]
    BY <1>1, <1>2, <1>3 DEF TypeOK
  <2>6. deadline' \in [Requests -> BOOLEAN] /\ blocked' \in [Requests -> BOOLEAN]
    BY <1>1, <1>2 DEF TypeOK
  <2>7. answer' \in [Requests -> 0 .. 599]
    <3>1. answer \in [Requests -> 0 .. 599]
      BY <1>1 DEF TypeOK
    <3>2. 0 \in 0 .. 599
      OBVIOUS
    <3>3. QED
      BY <1>2, <3>1, <3>2
  <2>8. inForce' \in [Requests -> SUBSET (Configs \cup {Default})]
    BY <1>1, <1>2 DEF TypeOK
  <2>9. \A q \in Requests : pc'[q] = "done" => answer'[q] # 0
    BY <1>1, <1>2 DEF TypeOK
  <2>10. deployment' \in Deployments /\ config' \in Configs \cup {Default}
    BY <1>1, <1>2 DEF TypeOK
  <2>11. QED
    BY <2>1, <2>2, <2>3, <2>4, <2>5, <2>6, <2>7, <2>8, <2>9, <2>10, Zenon DEF TypeOK
<1>5. /\ pc'[r] = "idle" /\ hdr'[r] = none /\ addr'[r] = NoOrigin /\ answer'[r] = 0
      /\ ~blocked'[r]
  BY <1>1, <1>2 DEF TypeOK
<1>6. RequestInv(r)'
  <2>1. RestInv'
    BY RestHolds, PTL
  <2>2. AtRest(r)'
    BY <1>5 DEF AtRest, none
  <2>3. QED
    BY <2>1, <2>2 DEF RestInv
<1>7. \A q \in Requests \ {r} : Fields(q)' = Fields(q)
  BY <1>1, <1>2 DEF Fields, TypeOK
<1>8. QED
  BY <1>2, <1>4, <1>6, <1>7, OneRequest

\* A reloaded file joins those in force for every request that an override may
\* still look at, and takes none away.
LEMMA ReloadStep ==
    ASSUME IInv, Reload
    PROVE  IInv'
<1>1. PICK c \in Configs :
          /\ ValidCodes(c) /\ config' = c
          /\ inForce' = [r \in Requests |->
                IF pc[r] \in {"clientip", "xff", "auth", "sensitive", "mimir", "loki"}
                THEN inForce[r] \cup {c} ELSE inForce[r]]
  BY DEF Reload
<1>2. UNCHANGED <<deployment, pc, req, hdr, orgCtx, addr, grant, deadline, answer, blocked>>
  BY DEF Reload
<1>3. TypeOK
  BY DEF IInv
<1>4. \A r \in Requests :
          /\ inForce[r] \subseteq inForce'[r] /\ inForce'[r] \subseteq Configs \cup {Default}
          /\ pc[r] \in Admitting => c \in inForce'[r]
  BY <1>1, <1>3 DEF TypeOK, Admitting
<1>5. TypeOK'
  <2>1. inForce' \in [Requests -> SUBSET (Configs \cup {Default})]
    BY <1>1, <1>4
  <2>2. config' \in Configs \cup {Default}
    BY <1>1
  <2>3. QED
    BY <1>2, <1>3, <2>1, <2>2, Zenon DEF TypeOK
<1>6. ValidCodes(config)'
  BY <1>1 DEF ValidCodes
<1>7. ASSUME NEW r \in Requests PROVE RequestInv(r)'
  <2>1. GrantInv(r) /\ AnswerInv(r) /\ OverrideInv(r) /\ OriginInv(r)
    BY DEF IInv, RequestInv
  <2>2. GrantInv(r)'
    BY <1>2, <2>1, Zenon DEF GrantInv, Reached, Dropped
  <2>3. AnswerInv(r)'
    BY <1>2, <2>1 DEF AnswerInv
  <2>4. OverrideInv(r)'
    <3>1. OneTenant(r)' <=> OneTenant(r)
      BY <1>2 DEF OneTenant
    <3>2. \A d, t : Forbids(d, t, r)' <=> Forbids(d, t, r)
      BY <1>2 DEF Forbids
    <3>3. grant' = grant /\ pc' = pc /\ req' = req /\ blocked' = blocked
      BY <1>2
    <3>4. Allowed(r) => Allowed(r)'
      BY <1>4, <3>2, <3>3 DEF Allowed
    <3>5. (\E d \in inForce[r] : Forbids(d, grant[r].tenants[1], r)) =>
             (\E d \in inForce[r] : Forbids(d, grant[r].tenants[1], r))'
      BY <1>4, <3>2, <3>3
    <3>6. pc[r] \in Admitting => config' \in inForce'[r]
      BY <1>1, <1>4
    <3>7. QED
      BY <2>1, <3>1, <3>3, <3>4, <3>5, <3>6 DEF OverrideInv
  <2>5. OriginInv(r)'
    BY <1>2, <2>1, Zenon DEF OriginInv, Honest, LastHop
  <2>6. QED
    BY <2>2, <2>3, <2>4, <2>5 DEF RequestInv
<1>8. QED
  BY <1>5, <1>6, <1>7 DEF IInv

-----------------------------------------------------------------------------
(* Theorems *)

\* The invariant holds at the start ...
LEMMA InitIInv == Init => IInv
<1> SUFFICES ASSUME Init PROVE IInv
  OBVIOUS
<1> DEFINE none == [n \in Names |-> Absent]
           failed == WithExtra(Failure("invalid"), {})
<1>1. /\ NoRequest \in Asked
      /\ none \in [Names -> Headers] /\ <<>> \in Seq(Tenants) /\ failed \in Outcomes
      /\ NoOrigin \in
            [from : [xff : Seq(Entries), realIP : Entries, remote : Entries],
             ip : Addresses \cup {NoAddress}, told : Addresses \cup {Junk, NoAddress}]
  BY RestTyped
<1>2. /\ pc = [r \in Requests |-> "idle"] /\ req = [r \in Requests |-> NoRequest]
      /\ hdr = [r \in Requests |-> none] /\ orgCtx = [r \in Requests |-> <<>>]
      /\ addr = [r \in Requests |-> NoOrigin] /\ grant = [r \in Requests |-> failed]
      /\ answer = [r \in Requests |-> 0] /\ inForce = [r \in Requests |-> {}]
      /\ deployment \in Deployments /\ config = Default
  BY DEF Init
<1>3. deadline = [r \in Requests |-> FALSE] /\ blocked = [r \in Requests |-> FALSE]
  BY DEF Init
<1> HIDE DEF none, failed
<1>4. TypeOK
  <2>1. pc \in [Requests -> Layers \cup {"idle", "done"}]
    BY <1>2
  <2>2. /\ req \in [Requests -> Asked]
        /\ hdr \in [Requests -> [Names -> Headers]] /\ grant \in [Requests -> Outcomes]
        /\ orgCtx \in [Requests -> Seq(Tenants)]
    BY <1>1, <1>2
  <2>3. addr \in [Requests ->
            [from : [xff : Seq(Entries), realIP : Entries, remote : Entries],
             ip : Addresses \cup {NoAddress}, told : Addresses \cup {Junk, NoAddress}]]
    BY <1>1, <1>2
  <2>4. deadline \in [Requests -> BOOLEAN] /\ blocked \in [Requests -> BOOLEAN]
    BY <1>3
  <2>5. answer \in [Requests -> 0 .. 599] /\ inForce \in [Requests -> SUBSET (Configs \cup {Default})]
    BY <1>2
  <2>6. \A r \in Requests : pc[r] = "done" => answer[r] # 0
    BY <1>2
  <2>7. QED
    BY <1>2, <2>1, <2>2, <2>3, <2>4, <2>5, <2>6, Zenon DEF TypeOK
<1>5. ASSUME NEW r \in Requests PROVE RequestInv(r)
  <2>1. AtRest(r)
    BY <1>2, <1>3 DEF AtRest, none
  <2>2. QED
    BY <2>1, RestHolds DEF RestInv
<1>6. ValidCodes(config)
  BY <1>2, DefaultAssumption
<1>7. QED
  BY <1>4, <1>5, <1>6 DEF IInv

\* ... and every step keeps it.
LEMMA NextIInv == IInv /\ [Next]_vars => IInv'
<1> SUFFICES ASSUME IInv, [Next]_vars PROVE IInv'
  OBVIOUS
<1>1. CASE UNCHANGED vars
  <2>1. /\ pc' = pc /\ req' = req /\ hdr' = hdr /\ orgCtx' = orgCtx /\ addr' = addr
        /\ grant' = grant /\ answer' = answer /\ blocked' = blocked /\ inForce' = inForce
        /\ deployment' = deployment /\ config' = config /\ deadline' = deadline
    BY <1>1 DEF vars
  <2>2. TypeOK' /\ ValidCodes(config)'
    BY <2>1, Zenon DEF IInv, TypeOK, ValidCodes
  <2>3. ASSUME NEW q \in Requests PROVE RequestInv(q)'
    <3>1. RequestInv(q)
      BY DEF IInv
    <3>2. Fields(q)' = Fields(q)
      BY <2>1, Zenon DEF Fields
    <3>3. QED
      BY <2>1, <3>1, <3>2, Elsewhere
  <2>4. QED
    BY <2>2, <2>3 DEF IInv
<1>2. ASSUME NEW r \in Requests, Arrive(r) PROVE IInv'
  BY <1>2, ArriveStep
<1>3. ASSUME NEW r \in Requests, ExtractClientIP(r) PROVE IInv'
  BY <1>3, ClientIPStep
<1>4. ASSUME NEW r \in Requests, SetForwardedFor(r) PROVE IInv'
  BY <1>4, ForwardedForStep
<1>5. ASSUME NEW r \in Requests, Authenticate(r) PROVE IInv'
  BY <1>5, AuthenticateStep
<1>6. ASSUME NEW r \in Requests, RemoveSensitive(r) PROVE IInv'
  BY <1>6, SensitiveStep
<1>7. ASSUME NEW r \in Requests, MimirOverrides(r) PROVE IInv'
  BY <1>7, MimirStep
<1>8. ASSUME NEW r \in Requests, LokiOverrides(r) PROVE IInv'
  BY <1>8, LokiStep
<1>9. ASSUME NEW r \in Requests,
             Limit(r) \/ RouteMiddleware(r) \/ Proxy(r) \/ BackendReplies(r) \/ ContextEnds(r)
      PROVE  IInv'
  BY <1>9, BehindOverrides
<1>10. ASSUME NEW r \in Requests, TimeOut(r) PROVE IInv'
  BY <1>10, TimeOutStep
<1>11. ASSUME NEW r \in Requests, Finish(r) PROVE IInv'
  BY <1>11, FinishStep
<1>12. CASE Reload
  BY <1>12, ReloadStep
<1>13. QED
  BY <1>1, <1>2, <1>3, <1>4, <1>5, <1>6, <1>7, <1>8, <1>9, <1>10, <1>11, <1>12, Zenon
     DEF Next, Handle

\* The invariant holds throughout.
LEMMA Invariance == Spec => []IInv
<1>1. QED
  BY InitIInv, NextIInv, PTL DEF Spec

\* Every variable keeps its type, and a handler that has ended has answered.
THEOREM TypeCorrect == Spec => []TypeOK
<1>1. IInv => TypeOK
  BY DEF IInv
<1>2. QED
  BY <1>1, Invariance, PTL

\* For any clients, proxies, authenticators' answers and configurations, the
\* backend sees the tenants and policies that were granted under the name its
\* protocol needs, and nothing the client sent in their place; only what the
\* request's own Connection header lists is missing at an HTTP backend.
THEOREM GrantReachesBackend == Spec => []BackendSeesGrant
<1>1. IInv => BackendSeesGrant
  <2> SUFFICES ASSUME IInv, NEW r \in Requests, pc[r] = "backend"
               PROVE  LET org   == IF req[r].grpc THEN "x-scope-orgid" ELSE "X-Scope-OrgID"
                          other == IF req[r].grpc THEN "X-Scope-OrgID" ELSE "x-scope-orgid"
                          Is(n, header) == hdr[r][n] = IF n \in Dropped(r) THEN Absent ELSE header
                      IN  /\ WellFormedGrant(grant[r])
                          /\ Is(org, Auth(grant[r].tenants)) /\ hdr[r][other] = Absent
                          /\ Is("X-Prom-Label-Policy",
                                IF grant[r].policies = <<>> THEN Absent ELSE Auth(grant[r].policies))
                          /\ hdr[r]["Authorization"].from # "client" /\ hdr[r]["Sensitive"] = Absent
                          /\ ~req[r].grpc => orgCtx[r] = grant[r].tenants
    BY Zenon DEF BackendSeesGrant
  <2>1. GrantInv(r)
    BY DEF IInv, RequestInv
  <2>2. Reached(r)
    BY <2>1 DEF GrantInv
  <2>3. QED
    BY <2>2, Zenon DEF Reached
<1>2. QED
  BY <1>1, Invariance, PTL

\* However often the file is reloaded while a request is admitted, what happens
\* to it is what one of the files in force meanwhile says, and who is blocked
\* gets an error.
THEOREM OverridesActAsOne == Spec => []OverridesObeyed
<1>1. IInv => OverridesObeyed
  <2> SUFFICES ASSUME IInv, NEW r \in Requests
               PROVE  /\ blocked[r] => answer[r] \in 400 .. 599
                      /\ OneTenant(r) =>
                            LET t == grant[r].tenants[1]
                            IN  /\ pc[r] = "backend" => \E c \in inForce[r] : ~Forbids(c, t, r)
                                /\ blocked[r] => \E c \in inForce[r] : Forbids(c, t, r)
    BY Zenon DEF OverridesObeyed, OneTenant
  <2>1. AnswerInv(r) /\ OverrideInv(r)
    BY DEF IInv, RequestInv
  <2>2. QED
    BY <2>1 DEF AnswerInv, OverrideInv, Allowed
<1>2. QED
  BY <1>1, Invariance, PTL

\* Whatever headers a client forges and however many proxies there are, the
\* auth service is told the client's address if the configuration fits the
\* proxies, and never a made-up one unless it trusts what no proxy wrote.
THEOREM OriginNotForged == Spec => []OriginHonest
<1>1. IInv => OriginHonest
  <2> SUFFICES ASSUME IInv, NEW r \in Requests
               PROVE  addr[r].told # NoAddress => Honest(addr[r].told)
    BY Zenon DEF OriginHonest, Honest
  <2>1. OriginInv(r)
    BY DEF IInv, RequestInv
  <2>2. QED
    BY <2>1 DEF OriginInv
<1>2. QED
  BY <1>1, Invariance, PTL
===============================================================================
