---------------------------- MODULE ProxyProofs ----------------------------
(* Proofs about the handlers of a downstream: HTTP over gRPC delivers a body *)
(* whole or not at all and blames whom it should, for bodies and limits of   *)
(* any size; round robin is fair, and the heap of least inflight is in order *)
(* and implements the balancer, for any number of hosts and requests.        *)
EXTENDS Proxy, FiniteSetTheorems, SequenceTheorems, WellFoundedInduction, TLAPS

-----------------------------------------------------------------------------
(* HTTP over gRPC *)

\* The length of a client's body is declared truly or not at all.
Declared == kind # "opentsdb" /\ step # "idle" => length \in {-1, size}

\* The backend is called with the whole body.
Whole == kind # "opentsdb" /\ step \in {"calling", "waiting"} => got = size

\* Nothing is sent before the call, and what was sent is what was read.
Sent ==
    /\ step \notin {"waiting", "done", "passed"} => sent = Grpc!Nothing
    /\ kind # "opentsdb" /\ sent # Grpc!Nothing => sent.body = size

\* The body is read in the proxy only.
Unread == step \in {"idle", "routing", "proxy"} => got = 0

GrpcInv == Grpc!TypeOK /\ Unread /\ Declared /\ Whole /\ Sent /\ BlameFits

\* A read that fails is answered 413 only for a body beyond a limit, 598 only
\* for a client that stalls or a deadline, 499 only for a broken connection or a
\* context that has ended, and 502 only for one of them or a body that is shorter
\* than declared.
LEMMA ReadFailure ==
    ASSUME Grpc!TypeOK, NEW err, Grpc!FailRead(err),
           err \in Grpc!ReadErrors \/ (ctx # "live" /\ err = ctx)
    PROVE  /\ step' = "done" /\ status' \in {413, 499, 502, 598} /\ got' = got
           /\ status' = 598 => client = "stalled" \/ ctx = "deadline"
           /\ status' = 413 => \E limit \in Grpc!Limits : size > limit
           /\ status' = 502 => got = size \/ client = "broken" \/ ctx # "live"
           /\ status' = 499 => client = "broken" \/ ctx # "live"
<1>1. step' = "done" /\ got' = got
  BY DEF Grpc!FailRead, Grpc!Answer
<1>2. PICK ended \in BOOLEAN, stuck \in BOOLEAN :
        /\ status' = Grpc!StatusCode(Grpc!ReadError(err), ended, stuck)
        /\ stuck <=> client = "stalled" /\ kind # "opentsdb"
  BY DEF Grpc!FailRead, Grpc!Answer
<1>3. CASE err \in Grpc!ReadErrors
  <2>1. \/ err = "too large" /\ \E limit \in Grpc!Limits : got >= limit /\ got < size
        \/ err = "other" /\ (got = size \/ client = "broken" \/ ctx # "live")
        \/ err = "unexpected EOF" /\ client = "broken"
        \/ err = "net timeout" /\ client = "stalled" /\ kind # "opentsdb"
    <3>1. client \in {"sending", "stalled", "broken"}
      BY DEF Grpc!TypeOK
    <3>2. err \in Grpc!ConnectionErrors =>
            \/ err = "other" /\ (client = "broken" \/ ctx # "live")
            \/ err = "unexpected EOF" /\ client = "broken"
            \/ err = "net timeout" /\ client = "stalled"
      BY <3>1 DEF Grpc!ConnectionErrors
    <3>3. QED
      BY <1>3, <3>2 DEF Grpc!ReadErrors
  <2>2. status' = Grpc!StatusCode(err, ended, stuck)
    <3>1. Grpc!ReadError(err) = err
      BY <2>1 DEF Grpc!ReadError
    <3>2. QED
      BY <1>2, <3>1, Zenon
  <2>3. CASE err = "too large" /\ \E limit \in Grpc!Limits : got >= limit /\ got < size
    <3>1. status' = 413
      <4>1. Grpc!StatusCode("too large", ended, stuck) = 413
        BY DEF Grpc!StatusCode
      <4>2. QED
        BY <2>2, <2>3, <4>1, Zenon
    <3>2. \E limit \in Grpc!Limits : size > limit
      <4>1. PICK limit \in Grpc!Limits : got >= limit /\ got < size
        BY <2>3
      <4>2. limit \in Nat /\ got \in Nat /\ size \in Nat
        BY GrpcAssumption DEF Grpc!TypeOK, Grpc!Limits
      <4>3. QED
        BY <4>1, <4>2
    <3>3. QED
      BY <1>1, <3>1, <3>2
  <2>4. CASE err = "other" /\ (got = size \/ client = "broken" \/ ctx # "live")
    <3>1. status' = 502
      <4>1. Grpc!StatusCode("other", ended, stuck) = 502
        BY DEF Grpc!StatusCode
      <4>2. QED
        BY <2>2, <2>4, <4>1, Zenon
    <3>2. QED
      BY <1>1, <2>4, <3>1
  <2>5. CASE err = "unexpected EOF" /\ client = "broken"
    <3>1. status' = 499
      <4>1. Grpc!StatusCode("unexpected EOF", ended, stuck) = 499
        BY DEF Grpc!StatusCode
      <4>2. QED
        BY <2>2, <2>5, <4>1, Zenon
    <3>2. status' # 413 /\ status' # 502 /\ status' # 598
      BY <3>1
    <3>3. QED
      BY <1>1, <2>5, <3>1, <3>2, Zenon
  <2>6. CASE err = "net timeout" /\ client = "stalled" /\ kind # "opentsdb"
    <3>1. client = "stalled"
      BY <2>6
    <3>2. Grpc!StatusCode("net timeout", ended, stuck) = IF stuck THEN 598 ELSE 504
      BY DEF Grpc!StatusCode
    <3>3. status' = 598
      BY <1>2, <2>2, <2>6, <3>1, <3>2, Zenon
    <3>4. QED
      BY <1>1, <3>1, <3>3
  <2>7. QED
    BY <2>1, <2>3, <2>4, <2>5, <2>6
<1>4. CASE ctx # "live" /\ err = ctx
  <2>1. CASE ctx = "deadline"
    <3>1. Grpc!ReadError(err) = "read timeout"
      BY <1>4, <2>1 DEF Grpc!ReadError
    <3>2. status' = 598
      <4>1. Grpc!StatusCode("read timeout", ended, stuck) = 598
        BY DEF Grpc!StatusCode
      <4>2. QED
        BY <1>2, <3>1, <4>1, Zenon
    <3>3. QED
      BY <1>1, <2>1, <3>2
  <2>2. CASE ctx = "canceled"
    <3>1. Grpc!ReadError(err) = "canceled"
      BY <1>4, <2>2 DEF Grpc!ReadError
    <3>2. status' = 499
      <4>1. Grpc!StatusCode("canceled", ended, stuck) = 499
        BY DEF Grpc!StatusCode
      <4>2. QED
        BY <1>2, <3>1, <4>1, Zenon
    <3>3. QED
      BY <1>1, <1>4, <3>2
  <2>3. QED
    BY <1>4, <2>1, <2>2 DEF Grpc!TypeOK
<1>5. QED
  BY <1>3, <1>4

\* A call that fails is answered 499 only if the context has ended.
LEMMA CallFailure ==
    ASSUME \/ \E err \in {"grpc deadline", "grpc canceled", "other"} : Grpc!CallError(err)
           \/ ctx # "live" /\ Grpc!CallError(Grpc!ContextError)
    PROVE  step' = "done" /\ status' \in {499, 502, 504} /\ (status' = 499 => ctx # "live")
<1> USE DEF Grpc!CallError, Grpc!ContextError, Grpc!Answer, Grpc!StatusCode
<1>1. step' = "done"
  OBVIOUS
<1>2. \/ status' = 499 /\ ctx # "live"
      \/ status' = 502
      \/ status' = 504
  OBVIOUS
<1>3. QED
  BY ONLY <1>1, <1>2

\* The invariant holds before a request arrives.
LEMMA GrpcInit == ProxyInit => GrpcInv
<1> SUFFICES ASSUME Grpc!Init PROVE GrpcInv
  BY DEF ProxyInit
<1>1. kind \in Kinds
  BY GrpcAssumption DEF Grpc!Init
<1>2. Grpc!TypeOK
  BY <1>1, GrpcAssumption DEF Grpc!Init, Grpc!TypeOK, Grpc!Nothing, Grpc!URLs
<1>3. Unread /\ Declared /\ Whole /\ Sent /\ BlameFits
  BY DEF Grpc!Init, Unread, Declared, Whole, Sent, BlameFits, Grpc!BlameFits
<1>4. QED
  BY <1>2, <1>3 DEF GrpcInv

\* Each step of a request keeps the invariant.
LEMMA GrpcNext == GrpcInv /\ Grpc!Next => GrpcInv'
<1> SUFFICES ASSUME GrpcInv, Grpc!Next PROVE GrpcInv'
  OBVIOUS
<1> USE DEF GrpcInv
<1>0. /\ size \in Nat /\ got \in Nat /\ got <= size /\ length \in Int /\ MaxBody \in Nat
      /\ maxSize \in Nat /\ writeLimit \in Nat /\ size <= MaxBody
  BY GrpcAssumption DEF Grpc!TypeOK
<1>r. [url EXCEPT !.rewritten = TRUE] \in Grpc!URLs
  BY DEF Grpc!TypeOK, Grpc!URLs
\* A step that gives no answer blames nobody.
<1>b. ASSUME status' = 0 PROVE BlameFits'
  BY <1>b DEF BlameFits, Grpc!BlameFits
<1>1. CASE Grpc!Arrive
  <2>0. PICK query \in BOOLEAN : url' = [rewritten |-> FALSE, query |-> query]
    BY <1>1 DEF Grpc!Arrive
  <2>1. Grpc!TypeOK'
    <3>1. url' \in Grpc!URLs /\ uri' \in Grpc!URLs
      BY <1>1, <2>0 DEF Grpc!Arrive, Grpc!URLs
    <3>2. got = 0
      BY <1>1 DEF Grpc!Arrive, Unread
    <3>3. QED
      BY <1>0, <1>1, <3>1, <3>2 DEF Grpc!Arrive, Grpc!TypeOK
  <2>2. Unread' /\ Declared' /\ Whole' /\ Sent'
    BY <1>1 DEF Grpc!Arrive, Unread, Declared, Whole, Sent
  <2>3. status' = 0
    BY <1>1 DEF Grpc!Arrive, Grpc!TypeOK
  <2>4. QED
    BY <1>b, <2>1, <2>2, <2>3
<1>2. CASE Grpc!ClientFails \/ Grpc!ContextEnds
  <2>1. Grpc!TypeOK'
    BY <1>2 DEF Grpc!ClientFails, Grpc!ContextEnds, Grpc!config, Grpc!TypeOK
  <2>2. Unread' /\ Declared' /\ Whole' /\ Sent'
    BY <1>2 DEF Grpc!ClientFails, Grpc!ContextEnds, Grpc!config, Unread, Declared, Whole, Sent
  <2>3. status' = 0
    BY <1>2 DEF Grpc!ClientFails, Grpc!ContextEnds, Grpc!TypeOK
  <2>4. QED
    BY <1>b, <2>1, <2>2, <2>3
<1>3. CASE Grpc!RouteMiddleware
  <2>1. url' \in Grpc!URLs /\ uri' \in Grpc!URLs
    <3>1. [rewritten |-> TRUE, query |-> FALSE] \in Grpc!URLs
      BY DEF Grpc!URLs
    <3>2. QED
      BY <1>3, <1>r, <3>1 DEF Grpc!RouteMiddleware, Grpc!ReplacePrefix, Grpc!TrimPrefix, Grpc!TypeOK
  <2>2. Grpc!TypeOK'
    BY <1>3, <2>1 DEF Grpc!RouteMiddleware, Grpc!config, Grpc!TypeOK
  <2>3. Unread' /\ Declared' /\ Whole' /\ Sent'
    BY <1>3 DEF Grpc!RouteMiddleware, Grpc!config, Unread, Declared, Whole, Sent
  <2>4. status' = 0
    BY <1>3 DEF Grpc!RouteMiddleware, Grpc!TypeOK
  <2>5. QED
    BY <1>b, <2>2, <2>3, <2>4
<1>4. CASE Grpc!OpenTSDB
  <2>0. /\ kind = "opentsdb" /\ kind' = kind /\ step = "routing"
        /\ UNCHANGED <<maxSize, writeLimit, got, client, ctx, sent, length>>
    BY <1>4 DEF Grpc!OpenTSDB, Grpc!config, Grpc!UpdateRequest
  <2>1. url' \in Grpc!URLs /\ uri' \in Grpc!URLs
    BY <1>4, <1>r DEF Grpc!OpenTSDB, Grpc!UpdateRequest, Grpc!TypeOK
  <2>2. got = 0
    BY <2>0 DEF Unread
  <2>3. Grpc!TypeOK'
    BY <1>0, <1>4, <2>0, <2>1, <2>2 DEF Grpc!OpenTSDB, Grpc!UpdateRequest, Grpc!Answer, Grpc!TypeOK
  <2>4. QED
    BY <1>4, <2>0, <2>3 DEF Unread, Declared, Whole, Sent, BlameFits, Grpc!BlameFits, Grpc!OpenTSDB
<1>5. CASE Grpc!MaxBytes
  <2>0. /\ step = "proxy"
        /\ UNCHANGED <<maxSize, writeLimit, kind, url, uri, size, length, got, client, ctx, sent>>
    BY <1>5 DEF Grpc!MaxBytes, Grpc!config
  <2>1. CASE step' = "reading" /\ status' = status
    <3>1. Grpc!TypeOK' /\ Unread' /\ Declared' /\ Whole' /\ Sent'
      BY <2>0, <2>1 DEF Grpc!TypeOK, Unread, Declared, Whole, Sent
    <3>2. status' = 0
      BY <2>0, <2>1 DEF Grpc!TypeOK
    <3>3. QED
      BY <1>b, <3>1, <3>2
  <2>2. CASE maxSize # 0 /\ length > maxSize /\ step' = "done" /\ status' = 413
    <3>1. step' = "done" /\ status' = 413
      BY <2>2
    <3>2. Grpc!TypeOK' /\ Unread' /\ Declared' /\ Whole' /\ Sent'
      BY <2>0, <3>1 DEF Grpc!TypeOK, Unread, Declared, Whole, Sent
    <3>3. ASSUME kind # "opentsdb" PROVE maxSize \in Grpc!Limits /\ size > maxSize
      <4>1. length \in {-1, size}
        BY <2>0, <3>3 DEF Declared
      <4>2. size > maxSize
        BY <1>0, <2>2, <4>1
      <4>3. maxSize \in Grpc!Limits
        BY <2>2 DEF Grpc!Limits
      <4>4. QED
        BY <4>2, <4>3
    <3>4. BlameFits'
      BY <2>0, <3>1, <3>3 DEF BlameFits, Grpc!BlameFits, Grpc!Limits, Sent
    <3>5. QED
      BY <3>2, <3>4
  <2>3. QED
    BY <1>5, <2>1, <2>2 DEF Grpc!MaxBytes, Grpc!Answer, Grpc!StatusCode
<1>6. CASE Grpc!Read
  <2>0. /\ step = "reading" /\ sent = Grpc!Nothing
        /\ UNCHANGED <<maxSize, writeLimit, kind, url, uri, size, length, client, ctx, sent>>
    BY <1>6 DEF Grpc!Read, Grpc!config, Sent
  <2>1. CASE Grpc!ReadByte
    <3>1. got' = got + 1 /\ got < size /\ UNCHANGED <<step, status>>
      BY <2>1 DEF Grpc!ReadByte
    <3>2. got' \in 0 .. size
      BY <1>0, <3>1
    <3>3. Grpc!TypeOK' /\ Unread' /\ Declared' /\ Whole' /\ Sent'
      BY <2>0, <3>1, <3>2 DEF Grpc!TypeOK, Unread, Declared, Whole, Sent
    <3>4. status' = 0
      BY <2>0, <3>1 DEF Grpc!TypeOK
    <3>5. QED
      BY <1>b, <3>3, <3>4
  <2>2. ASSUME NEW err, Grpc!FailRead(err),
               err \in Grpc!ReadErrors \/ (ctx # "live" /\ err = ctx)
        PROVE  GrpcInv'
    <3>1. /\ step' = "done" /\ status' \in {413, 499, 502, 598} /\ got' = got
          /\ status' = 598 => client = "stalled" \/ ctx = "deadline"
          /\ status' = 413 => \E limit \in Grpc!Limits : size > limit
          /\ status' = 502 => got = size \/ client = "broken" \/ ctx # "live"
          /\ status' = 499 => client = "broken" \/ ctx # "live"
      BY <2>2, ReadFailure
    <3>2. Grpc!TypeOK' /\ Unread' /\ Declared' /\ Whole' /\ Sent'
      BY <2>0, <3>1 DEF Grpc!TypeOK, Unread, Declared, Whole, Sent
    <3>3. BlameFits'
      BY <2>0, <3>1 DEF BlameFits, Grpc!BlameFits, Grpc!Limits
    <3>4. QED
      BY <3>2, <3>3
  <2>3. CASE Grpc!HasBody /\ step' = "calling" /\ UNCHANGED <<got, status>>
    <3>1. kind # "opentsdb" => got = size
      BY <2>0, <2>3, <1>0 DEF Grpc!HasBody, Declared
    <3>2. Grpc!TypeOK' /\ Unread' /\ Declared' /\ Whole' /\ Sent'
      BY <2>0, <2>3, <3>1 DEF Grpc!TypeOK, Unread, Declared, Whole, Sent
    <3>3. status' = 0
      BY <2>0, <2>3 DEF Grpc!TypeOK
    <3>4. QED
      BY <1>b, <3>2, <3>3
  <2>4. QED
    BY <1>6, <2>1, <2>2, <2>3 DEF Grpc!Read
<1>7. CASE Grpc!Handle
  <2>0. /\ step = "calling"
        /\ UNCHANGED <<maxSize, writeLimit, kind, url, uri, size, length, got, client, ctx>>
    BY <1>7 DEF Grpc!Handle, Grpc!config
  <2>1. CASE sent' = [uri |-> uri, body |-> got] /\ step' = "waiting" /\ status' = status
    <3>1. sent' \in [uri : Grpc!URLs, body : -1 .. MaxBody] /\ sent'.body = got
      BY <2>1, <1>0 DEF Grpc!TypeOK
    <3>2. Grpc!TypeOK' /\ Unread' /\ Declared' /\ Whole' /\ Sent'
      BY <2>0, <2>1, <3>1 DEF Grpc!TypeOK, Unread, Declared, Whole, Sent
    <3>3. status' = 0
      BY <2>0, <2>1 DEF Grpc!TypeOK
    <3>4. QED
      BY <1>b, <3>2, <3>3
  <2>2. CASE ctx # "live" /\ Grpc!CallError(Grpc!ContextError) /\ UNCHANGED sent
    <3>1. step' = "done" /\ status' \in {499, 502, 504} /\ (status' = 499 => ctx # "live")
      BY <2>2, CallFailure
    <3>2. Grpc!TypeOK' /\ Unread' /\ Declared' /\ Whole' /\ Sent'
      BY <2>0, <2>2, <3>1 DEF Grpc!TypeOK, Unread, Declared, Whole, Sent
    <3>3. BlameFits'
      BY <2>0, <3>1 DEF BlameFits, Grpc!BlameFits, Whole
    <3>4. QED
      BY <3>2, <3>3
  <2>3. QED
    BY <1>7, <2>1, <2>2 DEF Grpc!Handle
<1>8. CASE Grpc!HandleReturns
  <2>0. /\ step = "waiting"
        /\ UNCHANGED <<maxSize, writeLimit, kind, url, uri, size, length, got, client, ctx, sent>>
    BY <1>8 DEF Grpc!HandleReturns, Grpc!config
  <2>1. CASE step' = "passed" /\ status' \in Grpc!BackendCodes
    <3>1. Grpc!TypeOK' /\ Unread' /\ Declared' /\ Whole' /\ Sent'
      BY <2>0, <2>1 DEF Grpc!BackendCodes, Grpc!TypeOK, Unread, Declared, Whole, Sent
    <3>2. BlameFits'
      BY <2>1 DEF BlameFits, Grpc!BlameFits
    <3>3. QED
      BY <3>1, <3>2
  <2>2. CASE \/ \E err \in {"grpc deadline", "grpc canceled", "other"} : Grpc!CallError(err)
             \/ ctx # "live" /\ Grpc!CallError(Grpc!ContextError)
    <3>1. step' = "done" /\ status' \in {499, 502, 504} /\ (status' = 499 => ctx # "live")
      BY <2>2, CallFailure
    <3>2. Grpc!TypeOK' /\ Unread' /\ Declared' /\ Whole' /\ Sent'
      BY <2>0, <3>1 DEF Grpc!TypeOK, Unread, Declared, Whole, Sent
    <3>3. BlameFits'
      BY <2>0, <3>1 DEF BlameFits, Grpc!BlameFits, Whole
    <3>4. QED
      BY <3>2, <3>3
  <2>3. QED
    BY <1>8, <2>1, <2>2 DEF Grpc!HandleReturns
<1>9. QED
  BY <1>1, <1>2, <1>3, <1>4, <1>5, <1>6, <1>7, <1>8 DEF Grpc!Next

\* With every step of the proxy, whichever scheme it serves.
LEMMA GrpcInvariant == ProxySpec => []GrpcInv
<1>1. GrpcInv /\ [ProxyNext]_proxyVars => GrpcInv'
  <2> SUFFICES ASSUME GrpcInv, [ProxyNext]_proxyVars PROVE GrpcInv'
    OBVIOUS
  <2>1. CASE UNCHANGED grpcVars
    BY <2>1 DEF grpcVars, GrpcInv, Grpc!TypeOK, Unread, Declared, Whole, Sent, BlameFits, Grpc!BlameFits, Grpc!Limits
  <2>2. CASE Grpc!Next
    BY <2>2, GrpcNext
  <2>3. QED
    BY <2>1, <2>2 DEF ProxyNext, proxyVars
<1>2. QED
  BY GrpcInit, <1>1, PTL DEF ProxySpec

\* HTTPOverGRPC hands the backend the client's whole body or nothing.
THEOREM Delivered == ProxySpec => []DeliveredWhole
<1>1. GrpcInv => DeliveredWhole
  BY DEF GrpcInv, Sent, DeliveredWhole, Grpc!DeliveredWhole
<1>2. QED
  BY <1>1, GrpcInvariant, PTL

\* errorHandler's status blames the client, the limits, the context or the
\* backend only for what they did.
THEOREM Blame == ProxySpec => []BlameFits
<1>1. GrpcInv => BlameFits
  BY DEF GrpcInv
<1>2. QED
  BY <1>1, GrpcInvariant, PTL

-----------------------------------------------------------------------------
(* The round-robin provider *)

\* A multiple of n between -n and n is 0 or n.
LEMMA Multiples ==
    ASSUME NEW n \in Nat \ {0}, NEW d \in Int, n * d > -n, n * d <= n
    PROVE  d = 0 \/ d = 1
<1>1. CASE d <= -1
  <2>1. PICK e \in Nat : d = -1 - e
    <3>1. -1 - d \in Nat /\ d = -1 - (-1 - d)
      BY <1>1
    <3>q. QED
      BY <3>1
  <2>2. n * d = -n - n * e
    BY <2>1
  <2>3. n * e >= 0
    BY <2>1
  <2>q. QED
    BY <2>2, <2>3
<1>2. CASE d >= 2
  <2>1. PICK e \in Nat : d = 2 + e
    <3>1. d - 2 \in Nat /\ d = 2 + (d - 2)
      BY <1>2
    <3>q. QED
      BY <3>1
  <2>2. n * d = n + n + n * e
    BY <2>1
  <2>3. n * e >= 0
    BY <2>1
  <2>q. QED
    BY <2>2, <2>3
<1>3. QED
  BY <1>1, <1>2

\* Counting one on, modulo n.
LEMMA ModSucc ==
    ASSUME NEW c \in Nat, NEW n \in Nat \ {0}
    PROVE  /\ c % n \in 0 .. n - 1
           /\ (c + 1) % n = IF (c % n) + 1 = n THEN 0 ELSE (c % n) + 1
<1>1. /\ c % n \in 0 .. n - 1
      /\ (c + 1) % n \in 0 .. n - 1
  OBVIOUS
<1>2. PICK p \in Int : c = n * p + (c % n)
  <2>1. c = n * (c \div n) + (c % n) /\ c \div n \in Int
    OBVIOUS
  <2>q. QED
    BY <2>1
<1>3. PICK q \in Int : c + 1 = n * q + ((c + 1) % n)
  <2>1. c + 1 = n * ((c + 1) \div n) + ((c + 1) % n) /\ (c + 1) \div n \in Int
    OBVIOUS
  <2>q. QED
    BY <2>1
<1>4. n * (q - p) = (c % n) + 1 - ((c + 1) % n)
  <2>1. n * (q - p) = n * q - n * p
    OBVIOUS
  <2>2. n * q \in Int /\ n * p \in Int
    OBVIOUS
  <2>q. QED
    BY <1>1, <1>2, <1>3, <2>1, <2>2
<1>5. q - p = 0 \/ q - p = 1
  <2>1. n * (q - p) > -n /\ n * (q - p) <= n
    BY <1>1, <1>4
  <2>q. QED
    BY <2>1, Multiples
<1>6. n * (q - p) = 0 \/ n * (q - p) = n
  BY <1>5
<1>7. QED
  BY <1>1, <1>4, <1>6

\* How many picks after the next one host j of n is taken, if host p + 1 was
\* the last.
Turn(n, p, j) == IF j - 1 > p THEN j - p - 2 ELSE j - p - 2 + n

\* Each host of the list hs has been picked once more than the m that come
\* next, at counter c.
Laps(hs, c, picks) ==
    hs # <<>> =>
        \E b \in Nat, m \in 0 .. Len(hs) : \A j \in 1 .. Len(hs) :
            picks[hs[j]] = IF Turn(Len(hs), c % Len(hs), j) < m THEN b ELSE b + 1

\* The list holds each host of the set once.
Listed(s, set) ==
    /\ IsFiniteSet(set) /\ Len(s) = Cardinality(set)
    /\ \A i, j \in 1 .. Len(s) : s[i] = s[j] => i = j
    /\ \A i \in 1 .. Len(s) : s[i] \in set
    /\ \A h \in set : \E i \in 1 .. Len(s) : s[i] = h

Counters ==
    /\ hosts \in Seq(Hosts) /\ hostsSet \in SUBSET Hosts
    /\ count \in 0 .. IndexWord - 1
    /\ served \in [Hosts -> Nat] /\ DOMAIN host = Requests

RoundRobinInv == Counters /\ Listed(hosts, hostsSet) /\ Laps(hosts, count, served)

\* A host that is new goes to the end of the list.
LEMMA ListedAdd ==
    ASSUME NEW s \in Seq(Hosts), NEW set, Listed(s, set), NEW h \in Hosts, h \notin set
    PROVE  Listed(Append(s, h), set \cup {h})
<1> DEFINE t == Append(s, h)
<1>1. /\ t \in Seq(Hosts) /\ Len(t) = Len(s) + 1 /\ Len(s) \in Nat
      /\ t[Len(s) + 1] = h /\ \A i \in 1 .. Len(s) : t[i] = s[i]
  OBVIOUS
<1>2. /\ \A i, j \in 1 .. Len(s) : s[i] = s[j] => i = j
      /\ \A i \in 1 .. Len(s) : s[i] \in set
      /\ \A g \in set : \E i \in 1 .. Len(s) : s[i] = g
  BY DEF Listed
<1> HIDE DEF t
<1>3. \A i, j \in 1 .. Len(t) : t[i] = t[j] => i = j
  BY <1>1, <1>2
<1>4. /\ \A i \in 1 .. Len(t) : t[i] \in set \cup {h}
      /\ \A g \in set \cup {h} : \E i \in 1 .. Len(t) : t[i] = g
  BY <1>1, <1>2
<1>5. IsFiniteSet(set \cup {h}) /\ Cardinality(set \cup {h}) = Len(s) + 1
  BY FS_AddElement DEF Listed
<1>6. Listed(t, set \cup {h})
  BY <1>1, <1>3, <1>4, <1>5 DEF Listed
<1>7. QED
  BY <1>6 DEF t

\* A host that leaves gives its place to the last one.
LEMMA ListedRemove ==
    ASSUME NEW s \in Seq(Hosts), NEW set, Listed(s, set), NEW h \in set
    PROVE  WithoutHost(s, h) \in Seq(Hosts) /\ Listed(WithoutHost(s, h), set \ {h})
<1> DEFINE k == CHOOSE i \in DOMAIN s : s[i] = h
           n == Len(s)
           e == [s EXCEPT ![k] = Last(s)]
           t == WithoutHost(s, h)
<1>1. n \in Nat /\ DOMAIN s = 1 .. n
  OBVIOUS
<1>2. /\ \A i, j \in 1 .. n : s[i] = s[j] => i = j
      /\ \A i \in 1 .. n : s[i] \in set
      /\ \A g \in set : \E i \in 1 .. n : s[i] = g
  BY DEF Listed
<1>3. k \in 1 .. n /\ s[k] = h
  BY <1>1, <1>2
<1>4. n > 0 /\ Last(s) = s[n] /\ s[n] \in Hosts
  BY <1>1, <1>3 DEF Last
<1> HIDE DEF k
<1>5. /\ e \in Seq(Hosts) /\ Len(e) = n
      /\ \A i \in 1 .. n : e[i] = IF i = k THEN s[n] ELSE s[i]
  BY <1>1, <1>3, <1>4
<1>6. t = SubSeq(e, 1, n - 1)
  BY <1>5 DEF WithoutHost, Front, k
<1> HIDE DEF e, t, n
<1>7. t \in Seq(Hosts) /\ Len(t) = n - 1 /\ \A i \in 1 .. n - 1 : t[i] = e[i]
  BY <1>1, <1>4, <1>5, <1>6
<1>8. \A i \in 1 .. n - 1 : t[i] = IF i = k THEN s[n] ELSE s[i]
  BY <1>1, <1>5, <1>7
<1>9. \A i, j \in 1 .. n - 1 : t[i] = t[j] => i = j
  BY <1>1, <1>2, <1>3, <1>4, <1>8
<1>10. \A i \in 1 .. n - 1 : t[i] \in set \ {h}
  BY <1>1, <1>2, <1>3, <1>4, <1>8
<1>11. \A g \in set \ {h} : \E i \in 1 .. n - 1 : t[i] = g
  <2> SUFFICES ASSUME NEW g \in set \ {h} PROVE \E i \in 1 .. n - 1 : t[i] = g
    OBVIOUS
  <2>1. PICK j \in 1 .. n : s[j] = g
    BY <1>2
  <2>2. j # k
    BY <1>3, <2>1
  <2>3. CASE j = n
    <3>1. k \in 1 .. n - 1 /\ t[k] = g
      BY <1>1, <1>3, <1>8, <2>1, <2>2, <2>3
    <3>2. QED
      BY <3>1
  <2>4. CASE j # n
    <3>1. j \in 1 .. n - 1 /\ t[j] = g
      BY <1>1, <1>8, <2>1, <2>2, <2>4
    <3>2. QED
      BY <3>1
  <2>5. QED
    BY <2>3, <2>4
<1>12. IsFiniteSet(set \ {h}) /\ Cardinality(set \ {h}) = n - 1
  BY FS_RemoveElement DEF Listed, n
<1>13. Listed(t, set \ {h})
  BY <1>7, <1>9, <1>10, <1>11, <1>12 DEF Listed
<1>14. QED
  BY <1>7, <1>13 DEF t

\* Turns are counted from 0, and the host of the last pick has the last one.
LEMMA TurnRange ==
    ASSUME NEW n \in Nat \ {0}, NEW p \in 0 .. n - 1, NEW j \in 1 .. n
    PROVE  Turn(n, p, j) \in 0 .. n - 1 /\ (Turn(n, p, j) = n - 1 <=> j = p + 1)
BY DEF Turn

\* With each pick every other host's turn comes one nearer.
LEMMA TurnNext ==
    ASSUME NEW n \in Nat \ {0}, NEW p \in 0 .. n - 1, NEW q,
           q = IF p + 1 = n THEN 0 ELSE p + 1, NEW j \in 1 .. n
    PROVE  /\ j = q + 1 => Turn(n, p, j) = 0
           /\ j # q + 1 => Turn(n, q, j) = Turn(n, p, j) - 1
BY DEF Turn

\* Nothing has been picked since the hosts changed.
LEMMA LapFresh ==
    ASSUME NEW hs \in Seq(Hosts), NEW c \in Nat
    PROVE  Laps(hs, c, Unserved)
<1> SUFFICES ASSUME hs # <<>> PROVE Laps(hs, c, Unserved)
  BY DEF Laps
<1> DEFINE n == Len(hs)
<1>1. n \in Nat \ {0} /\ \A j \in 1 .. n : hs[j] \in Hosts
  OBVIOUS
<1>2. c % n \in 0 .. n - 1
  BY <1>1, ModSucc
<1>3. \A j \in 1 .. n : Turn(n, c % n, j) < n
  BY <1>1, <1>2, TurnRange
<1>4. \A j \in 1 .. n : Unserved[hs[j]] = 0
  BY <1>1 DEF Unserved
<1>5. \A j \in 1 .. n : Unserved[hs[j]] = IF Turn(n, c % n, j) < n THEN 0 ELSE 0 + 1
  BY <1>3, <1>4
<1>6. 0 \in Nat /\ n \in 0 .. n
  BY <1>1
<1>7. QED
  BY <1>5, <1>6 DEF Laps

\* The counter starts again from 0 and with it the first lap.
LEMMA LapWrap ==
    ASSUME NEW hs \in Seq(Hosts), hs # <<>>,
           \A i, j \in 1 .. Len(hs) : hs[i] = hs[j] => i = j
    PROVE  Laps(hs, 0, [Unserved EXCEPT ![hs[1]] = @ + 1])
<1> DEFINE n == Len(hs)
           after == [Unserved EXCEPT ![hs[1]] = @ + 1]
<1>1. n \in Nat \ {0} /\ \A j \in 1 .. n : hs[j] \in Hosts
  OBVIOUS
<1>2. 0 % n = 0
  BY <1>1
<1>3. \A j \in 1 .. n : after[hs[j]] = IF j = 1 THEN 1 ELSE 0
  BY <1>1 DEF Unserved
<1>4. \A j \in 1 .. n : Turn(n, 0, j) < n - 1 <=> j # 1
  BY <1>1 DEF Turn
<1> HIDE DEF after
<1>5. \A j \in 1 .. n : after[hs[j]] = IF Turn(n, 0 % n, j) < n - 1 THEN 0 ELSE 0 + 1
  BY <1>2, <1>3, <1>4
<1>6. 0 \in Nat /\ n - 1 \in 0 .. n
  BY <1>1
<1>7. Laps(hs, 0, after)
  BY <1>5, <1>6 DEF Laps
<1>8. QED
  BY <1>7 DEF after

\* A pick takes the host whose turn is next.
LEMMA LapPick ==
    ASSUME NEW hs \in Seq(Hosts), hs # <<>>,
           \A i, j \in 1 .. Len(hs) : hs[i] = hs[j] => i = j,
           NEW c \in Nat, NEW picks \in [Hosts -> Nat], Laps(hs, c, picks)
    PROVE  Laps(hs, c + 1, [picks EXCEPT ![hs[((c + 1) % Len(hs)) + 1]] = @ + 1])
<1> DEFINE n == Len(hs)
           p == c % n
           q == (c + 1) % n
           after == [picks EXCEPT ![hs[q + 1]] = @ + 1]
<1>1. n \in Nat \ {0} /\ \A j \in 1 .. n : hs[j] \in Hosts
  OBVIOUS
<1>2. p \in 0 .. n - 1 /\ q = IF p + 1 = n THEN 0 ELSE p + 1
  BY <1>1, ModSucc
<1>3. PICK b \in Nat, m \in 0 .. n : \A j \in 1 .. n :
        picks[hs[j]] = IF Turn(n, p, j) < m THEN b ELSE b + 1
  BY DEF Laps
<1> HIDE DEF n, p, q
<1>4. q \in 0 .. n - 1 /\ q + 1 \in 1 .. n
  BY <1>1, <1>2
<1>5. \A j \in 1 .. n : after[hs[j]] = IF j = q + 1 THEN picks[hs[j]] + 1 ELSE picks[hs[j]]
  BY <1>1, <1>4 DEF n
<1> HIDE DEF after
<1>6. \A j \in 1 .. n :
        /\ Turn(n, p, j) \in 0 .. n - 1 /\ Turn(n, q, j) \in 0 .. n - 1
        /\ j = q + 1 => Turn(n, p, j) = 0 /\ Turn(n, q, j) = n - 1
        /\ j # q + 1 => Turn(n, q, j) = Turn(n, p, j) - 1
  <2> SUFFICES ASSUME NEW j \in 1 .. n
               PROVE  /\ Turn(n, p, j) \in 0 .. n - 1 /\ Turn(n, q, j) \in 0 .. n - 1
                      /\ j = q + 1 => Turn(n, p, j) = 0 /\ Turn(n, q, j) = n - 1
                      /\ j # q + 1 => Turn(n, q, j) = Turn(n, p, j) - 1
    OBVIOUS
  <2>1. Turn(n, p, j) \in 0 .. n - 1
    BY <1>1, <1>2, TurnRange
  <2>2. Turn(n, q, j) \in 0 .. n - 1 /\ (Turn(n, q, j) = n - 1 <=> j = q + 1)
    BY <1>1, <1>4, TurnRange
  <2>3. /\ j = q + 1 => Turn(n, p, j) = 0
        /\ j # q + 1 => Turn(n, q, j) = Turn(n, p, j) - 1
    BY <1>1, <1>2, TurnNext
  <2>4. QED
    BY <2>1, <2>2, <2>3, Zenon
<1>7. CASE m = 0
  <2>1. n - 1 \in 0 .. n /\ b + 1 \in Nat
    BY <1>1
  <2>2. \A j \in 1 .. n : after[hs[j]] = IF Turn(n, q, j) < n - 1 THEN b + 1 ELSE (b + 1) + 1
    <3> SUFFICES ASSUME NEW j \in 1 .. n
                 PROVE after[hs[j]] = IF Turn(n, q, j) < n - 1 THEN b + 1 ELSE (b + 1) + 1
      OBVIOUS
    <3>1. picks[hs[j]] = b + 1
      BY <1>3, <1>6, <1>7
    <3>2. Turn(n, q, j) < n - 1 <=> j # q + 1
      BY <1>1, <1>6
    <3>3. QED
      BY <1>5, <3>1, <3>2
  <2>3. QED
    BY <2>1, <2>2 DEF Laps, after, q, n
<1>8. CASE m > 0
  <2>1. m - 1 \in 0 .. n
    BY <1>1, <1>8
  <2>2. \A j \in 1 .. n : after[hs[j]] = IF Turn(n, q, j) < m - 1 THEN b ELSE b + 1
    <3> SUFFICES ASSUME NEW j \in 1 .. n
                 PROVE after[hs[j]] = IF Turn(n, q, j) < m - 1 THEN b ELSE b + 1
      OBVIOUS
    <3>1. CASE j = q + 1
      <4>1. picks[hs[j]] = b
        BY <1>3, <1>6, <1>8, <3>1
      <4>2. ~(Turn(n, q, j) < m - 1)
        BY <1>1, <1>6, <3>1
      <4>3. QED
        BY <1>5, <3>1, <4>1, <4>2
    <3>2. CASE j # q + 1
      <4>1. Turn(n, q, j) < m - 1 <=> Turn(n, p, j) < m
        <5>1. Turn(n, q, j) = Turn(n, p, j) - 1 /\ Turn(n, p, j) \in 0 .. n - 1
          BY <1>6, <3>2, Zenon
        <5>2. \A t \in 0 .. n - 1 : t - 1 < m - 1 <=> t < m
          BY <1>1
        <5>3. QED
          BY <5>1, <5>2, Zenon
      <4>2. picks[hs[j]] = IF Turn(n, p, j) < m THEN b ELSE b + 1
        BY <1>3
      <4>3. after[hs[j]] = picks[hs[j]]
        BY <1>5, <3>2
      <4>4. QED
        BY <4>1, <4>2, <4>3
    <3>3. QED
      BY <3>1, <3>2
  <2>3. QED
    BY <2>1, <2>2 DEF Laps, after, q, n
<1>9. QED
  BY <1>7, <1>8

\* The index has a width.
LEMMA Word == IndexWord \in Nat \ {0}
BY ProxyAssumption

\* At the start every host has had no turn.
LEMMA RoundRobinInit == ProxyInit => RoundRobinInv
<1> SUFFICES ASSUME Init PROVE RoundRobinInv
  BY DEF ProxyInit
<1>0. /\ hosts = <<>> /\ hostsSet = {} /\ count = 0 /\ served = [h \in Hosts |-> 0]
      /\ host = [r \in Requests |-> NoHost]
  BY DEF Init, Unserved
<1>1. Counters
  BY Word, <1>0 DEF Counters
<1>2. Listed(hosts, hostsSet)
  BY FS_EmptySet DEF Init, Listed
<1>3. Laps(hosts, count, served)
  BY DEF Init, Laps
<1>4. QED
  BY <1>1, <1>2, <1>3 DEF RoundRobinInv

\* A pick, by roundRobinHostProvider.StartHost.
LEMMA RoundRobinPick ==
    ASSUME RoundRobinInv, NEW r \in Requests, StartRoundRobin(r), hosts # <<>>
    PROVE  RoundRobinInv'
<1> DEFINE k == (count' % Len(hosts)) + 1
<1>1. /\ count' = (count + 1) % IndexWord
      /\ host' = [host EXCEPT ![r] = hosts[k]]
      /\ served' = [(IF count' = 0 THEN Unserved ELSE served) EXCEPT ![host'[r]] = @ + 1]
      /\ UNCHANGED <<hosts, hostsSet>>
  BY DEF StartRoundRobin, PickIndex
<1>2. /\ count \in Nat /\ IndexWord \in Nat \ {0} /\ count \in 0 .. IndexWord - 1
      /\ hosts \in Seq(Hosts) /\ served \in [Hosts -> Nat] /\ DOMAIN host = Requests
      /\ hostsSet \in SUBSET Hosts
  BY Word DEF RoundRobinInv, Counters
<1>l. Listed(hosts, hostsSet)
  BY DEF RoundRobinInv
<1>3. /\ count % IndexWord = count
      /\ count' = IF count + 1 = IndexWord THEN 0 ELSE count + 1
  <2>1. count % IndexWord = count
    BY <1>2
  <2>2. (count + 1) % IndexWord =
          IF (count % IndexWord) + 1 = IndexWord THEN 0 ELSE (count % IndexWord) + 1
    BY <1>2, ModSucc
  <2>3. QED
    BY <1>1, <2>1, <2>2, Zenon
<1>4. count' \in 0 .. IndexWord - 1 /\ count' \in Nat
  BY <1>2, <1>3
<1>5. Len(hosts) \in Nat \ {0} /\ k \in 1 .. Len(hosts)
  <2>1. Len(hosts) \in Nat \ {0}
    BY <1>2
  <2>2. count' % Len(hosts) \in 0 .. Len(hosts) - 1
    BY <1>4, <2>1, ModSucc
  <2>3. QED
    BY <2>1, <2>2
<1> HIDE DEF k
<1>6. hosts[k] \in Hosts /\ host'[r] = hosts[k] /\ DOMAIN host' = Requests
  BY <1>1, <1>2, <1>5
<1>7. \A i, j \in 1 .. Len(hosts) : hosts[i] = hosts[j] => i = j
  BY <1>l DEF Listed
<1>8. CASE count' = 0
  <2>1. k = 1
    BY <1>5, <1>8 DEF k
  <2>2. served' = [Unserved EXCEPT ![hosts[1]] = @ + 1]
    BY <1>1, <1>6, <1>8, <2>1
  <2>3. Laps(hosts, 0, [Unserved EXCEPT ![hosts[1]] = @ + 1])
    BY <1>2, <1>7, LapWrap
  <2>4. Laps(hosts, count, served)'
    BY <1>1, <1>8, <2>2, <2>3, Zenon
  <2>5. served' \in [Hosts -> Nat]
    BY <1>6, <2>1, <2>2 DEF Unserved
  <2>6. QED
    BY <1>1, <1>2, <1>l, <1>4, <1>6, <2>4, <2>5 DEF RoundRobinInv, Counters, Listed
<1>9. CASE count' # 0
  <2>1. count' = count + 1
    BY <1>3, <1>9
  <2>2. served' = [served EXCEPT ![hosts[k]] = @ + 1]
    BY <1>1, <1>6, <1>9
  <2>3. Laps(hosts, count, served)
    BY DEF RoundRobinInv
  <2>4. Laps(hosts, count + 1, [served EXCEPT ![hosts[((count + 1) % Len(hosts)) + 1]] = @ + 1])
    BY <1>2, <1>7, <2>3, LapPick
  <2>5. Laps(hosts, count, served)'
    BY <1>1, <2>1, <2>2, <2>4, Zenon DEF k
  <2>6. served' \in [Hosts -> Nat]
    BY <1>2, <1>6, <2>2
  <2>7. QED
    BY <1>1, <1>2, <1>l, <1>4, <1>6, <2>5, <2>6 DEF RoundRobinInv, Counters, Listed
<1>10. QED
  BY <1>8, <1>9

\* Each step keeps the list, the counter and the laps.
LEMMA RoundRobinNext == RoundRobinInv /\ Next => RoundRobinInv'
<1> SUFFICES ASSUME RoundRobinInv, Next PROVE RoundRobinInv'
  OBVIOUS
<1>0. hosts \in Seq(Hosts) /\ count \in Nat /\ hostsSet \in SUBSET Hosts
  BY Word DEF RoundRobinInv, Counters
<1>l. Listed(hosts, hostsSet)
  BY DEF RoundRobinInv
<1>u. ASSUME UNCHANGED <<hosts, hostsSet, count, served>>, DOMAIN host' = DOMAIN host
      PROVE  RoundRobinInv'
  BY <1>u DEF RoundRobinInv, Counters, Listed, Laps
<1>c. ASSUME hosts' \in Seq(Hosts), hostsSet' \in SUBSET Hosts, Listed(hosts', hostsSet'),
             served' = Unserved, UNCHANGED <<count, host>>
      PROVE  RoundRobinInv'
  <2>1. Laps(hosts', count, Unserved)
    BY <1>0, <1>c, LapFresh
  <2>2. Laps(hosts, count, served)'
    BY <1>c, <2>1
  <2>3. Counters'
    BY <1>c DEF RoundRobinInv, Counters, Unserved
  <2>4. QED
    BY <1>c, <2>2, <2>3 DEF RoundRobinInv
<1>1. ASSUME NEW h \in Hosts, InstanceAdded(h) PROVE RoundRobinInv'
  <2>1. CASE UNCHANGED <<hosts, hostsSet, count, served, host>>
    BY <1>u, <2>1
  <2>2. CASE /\ h \notin hostsSet /\ hosts' = Append(hosts, h) /\ hostsSet' = hostsSet \cup {h}
             /\ served' = Unserved /\ UNCHANGED <<count, host>>
    <3>1. hosts' \in Seq(Hosts) /\ hostsSet' \in SUBSET Hosts
      BY <1>0, <2>2
    <3>2. Listed(Append(hosts, h), hostsSet \cup {h})
      BY <1>0, <1>l, <2>2, ListedAdd
    <3>3. QED
      BY <1>c, <2>2, <3>1, <3>2
  <2>3. QED
    BY <1>1, <2>1, <2>2 DEF InstanceAdded
<1>2. ASSUME NEW h \in Hosts, InstanceRemoved(h) PROVE RoundRobinInv'
  <2>1. CASE UNCHANGED <<hosts, hostsSet, count, served, host>>
    BY <1>u, <2>1
  <2>2. CASE /\ h \in hostsSet /\ hosts' = WithoutHost(hosts, h) /\ hostsSet' = hostsSet \ {h}
             /\ served' = Unserved /\ UNCHANGED <<count, host>>
    <3>1. WithoutHost(hosts, h) \in Seq(Hosts) /\ Listed(WithoutHost(hosts, h), hostsSet \ {h})
      BY <1>0, <1>l, <2>2, ListedRemove
    <3>2. hostsSet' \in SUBSET Hosts
      BY <1>0, <2>2
    <3>3. QED
      BY <1>c, <2>2, <3>1, <3>2
  <2>3. QED
    BY <1>2, <2>1, <2>2 DEF InstanceRemoved
<1>3. ASSUME NEW r \in Requests, Director(r) PROVE RoundRobinInv'
  <2>1. CASE StartRoundRobin(r) /\ hosts # <<>>
    BY <2>1, RoundRobinPick
  <2>2. CASE ~(StartRoundRobin(r) /\ hosts # <<>>)
    <3>1. UNCHANGED <<hosts, hostsSet, count, served>> /\ DOMAIN host' = DOMAIN host
      BY <1>3, <2>2 DEF Director, StartRoundRobin, StartLeastInflight, StartFixed, providerVars
    <3>2. QED
      BY <1>u, <3>1
  <2>3. QED
    BY <2>1, <2>2
<1>4. ASSUME NEW r \in Requests,
             \/ TooLarge(r) \/ RoundTripFails(r) \/ UpgradeRefused(r)
             \/ ModifyResponse(r) \/ UpgradeFails(r) \/ Copied(r)
      PROVE  RoundRobinInv'
  <2>1. UNCHANGED <<hosts, hostsSet, count, served>> /\ DOMAIN host' = DOMAIN host
    BY <1>4 DEF TooLarge, RoundTripFails, UpgradeRefused, ModifyResponse, UpgradeFails, Copied, ResponseEnds,
                EndHost, Over, providerVars
  <2>2. QED
    BY <1>u, <2>1
<1>5. QED
  BY <1>1, <1>2, <1>3, <1>4 DEF Next

\* The list, the counter and the laps agree in every state.
LEMMA RoundRobinInvariant == ProxySpec => []RoundRobinInv
<1>1. RoundRobinInv /\ [ProxyNext]_proxyVars => RoundRobinInv'
  <2> SUFFICES ASSUME RoundRobinInv, [ProxyNext]_proxyVars PROVE RoundRobinInv'
    OBVIOUS
  <2>1. CASE UNCHANGED vars
    BY <2>1 DEF vars, providerVars, ghosts, RoundRobinInv, Counters, Listed, Laps
  <2>2. CASE Next
    BY <2>2, RoundRobinNext
  <2>3. QED
    BY <2>1, <2>2 DEF ProxyNext, proxyVars
<1>2. QED
  BY RoundRobinInit, <1>1, PTL DEF ProxySpec

\* roundRobinHostProvider: the set and the list of hosts agree, and no host is
\* picked twice more often than another, for any number of hosts, requests and
\* changes, and across the overflow of the counter.
THEOREM RoundRobin == ProxySpec => []RoundRobinFair
<1>1. RoundRobinInv => RoundRobinFair
  <2> SUFFICES ASSUME RoundRobinInv PROVE RoundRobinFair
    OBVIOUS
  <2>1. hosts \in Seq(Hosts) /\ Listed(hosts, hostsSet)
    BY DEF RoundRobinInv, Counters
  <2>2. hostsSet = ToSet(hosts) /\ Len(hosts) = Cardinality(hostsSet)
    BY <2>1 DEF Listed, ToSet
  <2>3. ASSUME NEW g \in hostsSet, NEW h \in hostsSet PROVE served[g] <= served[h] + 1
    <3>1. PICK i \in 1 .. Len(hosts), j \in 1 .. Len(hosts) : g = hosts[i] /\ h = hosts[j]
      BY DEF RoundRobinInv, Listed
    <3>2. hosts # <<>>
      BY <2>1, <3>1
    <3>3. PICK b \in Nat : \A l \in 1 .. Len(hosts) : served[hosts[l]] = b \/ served[hosts[l]] = b + 1
      BY <3>2 DEF RoundRobinInv, Laps
    <3>4. QED
      BY <3>1, <3>3
  <2>4. QED
    BY <2>2, <2>3 DEF RoundRobinFair
<1>2. QED
  BY <1>1, RoundRobinInvariant, PTL

-----------------------------------------------------------------------------
(* Induction over the natural numbers *)

\* A set of natural numbers that is not empty has a least element.
LEMMA LeastElement ==
    ASSUME NEW S, S \subseteq Nat, S # {}
    PROVE  \E x \in S : \A y \in S : x <= y
<1> DEFINE R == OpToRel(<, Nat)
<1>1. IsWellFoundedOn(R, Nat)
  BY NatLessThanWellFounded
<1>2. PICK x \in S : \A y \in S : ~ (<<y, x>> \in R)
  <2> HIDE DEF R
  <2> QED
    BY <1>1, WFMin
<1>3. ASSUME NEW y \in S PROVE x <= y
  <2>1. x \in Nat /\ y \in Nat
    OBVIOUS
  <2>2. <<y, x>> \in R <=> y < x
    BY <2>1 DEF OpToRel
  <2> HIDE DEF R
  <2>3. QED
    BY <1>2, <2>1, <2>2
<1>4. QED
  BY <1>3

\* Induction over the natural numbers, for a set.
LEMMA Induction ==
    ASSUME NEW S, 0 \in S, \A n \in Nat : n \in S => n + 1 \in S
    PROVE  \A n \in Nat : n \in S
<1> DEFINE T == Nat \ S
<1> SUFFICES ASSUME T # {} PROVE FALSE
  OBVIOUS
<1>1. PICK x \in T : \A y \in T : x <= y
  BY LeastElement
<1>2. x - 1 \in Nat /\ x - 1 \notin T /\ (x - 1) + 1 = x
  BY <1>1
<1>3. QED
  BY <1>1, <1>2

-----------------------------------------------------------------------------
(* The heap of the least-inflight provider *)

Entry == [name : Hosts, val : Int]

\* The index finds every counter, and nothing else.
Indexed(h) ==
    /\ h \in [q : Seq(Entry), nameIndex : [Hosts -> Nat]]
    /\ \A i \in 1 .. Len(h.q) : h.nameIndex[h.q[i].name] = i
    /\ \A m \in Hosts : h.nameIndex[m] # 0 =>
          h.nameIndex[m] \in 1 .. Len(h.q) /\ h.q[h.nameIndex[m]].name = m

\* g holds the counters of h; those beyond the first n are in their places.
Moved(h, g, n) ==
    /\ Len(g.q) = Len(h.q)
    /\ \A j \in n + 1 .. Len(h.q) : g.q[j] = h.q[j]
    /\ \A m \in Hosts : h.nameIndex[m] = 0 <=> g.nameIndex[m] = 0
    /\ \A m \in Hosts : h.nameIndex[m] # 0 => g.q[g.nameIndex[m]].val = h.q[h.nameIndex[m]].val

\* What is known of the parts of a heap.
LEMMA HeapParts ==
    ASSUME NEW h, Indexed(h)
    PROVE  /\ h = [q |-> h.q, nameIndex |-> h.nameIndex]
           /\ h.q \in Seq(Entry) /\ h.nameIndex \in [Hosts -> Nat] /\ Len(h.q) \in Nat
           /\ DOMAIN h.q = 1 .. Len(h.q)
           /\ \A i \in 1 .. Len(h.q) : h.q[i] \in Entry /\ h.q[i].name \in Hosts /\ h.q[i].val \in Int
<1>1. h \in [q : Seq(Entry), nameIndex : [Hosts -> Nat]]
  BY DEF Indexed
<1>2. h.q \in Seq(Entry) /\ h.nameIndex \in [Hosts -> Nat] /\ h = [q |-> h.q, nameIndex |-> h.nameIndex]
  BY <1>1
<1>3. Len(h.q) \in Nat /\ DOMAIN h.q = 1 .. Len(h.q)
  BY <1>2, LenProperties
<1>4. ASSUME NEW i \in 1 .. Len(h.q) PROVE h.q[i] \in Entry
  BY <1>2, ElementOfSeq, Zenon
<1>5. ASSUME NEW i \in 1 .. Len(h.q) PROVE h.q[i].name \in Hosts /\ h.q[i].val \in Int
  BY <1>4 DEF Entry
<1>6. QED
  BY <1>2, <1>3, <1>4, <1>5

\* Swap exchanges two counters and keeps the index right.
LEMMA Swapped ==
    ASSUME NEW h, Indexed(h), NEW i \in 1 .. Len(h.q), NEW j \in 1 .. Len(h.q), i # j
    PROVE  /\ Indexed(Heap!Swap(h, i, j))
           /\ Heap!Swap(h, i, j).q[i] = h.q[j] /\ Heap!Swap(h, i, j).q[j] = h.q[i]
           /\ \A k \in 1 .. Len(h.q) : k # i /\ k # j => Heap!Swap(h, i, j).q[k] = h.q[k]
           /\ \A n \in Nat : i <= n /\ j <= n => Moved(h, Heap!Swap(h, i, j), n)
<1> DEFINE g == Heap!Swap(h, i, j)
           L == Len(h.q)
           a == h.q[i].name
           b == h.q[j].name
<1>1. /\ h.q \in Seq(Entry) /\ h.nameIndex \in [Hosts -> Nat] /\ L \in Nat
      /\ \A k \in 1 .. L : h.q[k] \in Entry /\ h.q[k].name \in Hosts /\ h.q[k].val \in Int
  BY HeapParts
<1>2. /\ g.q = [h.q EXCEPT ![i] = h.q[j], ![j] = h.q[i]]
      /\ g.nameIndex = [h.nameIndex EXCEPT ![b] = i, ![a] = j]
      /\ g = [q |-> g.q, nameIndex |-> g.nameIndex]
  BY DEF Heap!Swap
<1>3. /\ \A k \in 1 .. L : h.nameIndex[h.q[k].name] = k
      /\ \A m \in Hosts : h.nameIndex[m] # 0 =>
            h.nameIndex[m] \in 1 .. L /\ h.q[h.nameIndex[m]].name = m
  BY DEF Indexed
<1>4. a \in Hosts /\ b \in Hosts /\ a # b /\ h.nameIndex[a] = i /\ h.nameIndex[b] = j
  BY <1>1, <1>3
<1> HIDE DEF g
<1>5. g.q \in Seq(Entry) /\ Len(g.q) = L
  BY <1>1, <1>2
<1>6. /\ g.q[i] = h.q[j] /\ g.q[j] = h.q[i]
      /\ \A k \in 1 .. L : k # i /\ k # j => g.q[k] = h.q[k]
  BY <1>1, <1>2
<1>7. /\ g.nameIndex \in [Hosts -> Nat] /\ g.nameIndex[a] = j /\ g.nameIndex[b] = i
      /\ \A m \in Hosts : m # a /\ m # b => g.nameIndex[m] = h.nameIndex[m]
  <2> DEFINE f == [h.nameIndex EXCEPT ![b] = i]
  <2>1. i \in Nat /\ j \in Nat
    BY <1>1
  <2> HIDE DEF a, b
  <2>2. f \in [Hosts -> Nat] /\ f[b] = i /\ \A m \in Hosts : m # b => f[m] = h.nameIndex[m]
    BY <1>1, <1>4, <2>1
  <2>3. g.nameIndex = [f EXCEPT ![a] = j]
    BY <1>2
  <2> HIDE DEF f
  <2>4. QED
    BY <1>4, <2>1, <2>2, <2>3
<1>8. \A k \in 1 .. L : g.nameIndex[g.q[k].name] = k
  <2> SUFFICES ASSUME NEW k \in 1 .. L PROVE g.nameIndex[g.q[k].name] = k
    OBVIOUS
  <2>1. CASE k = i \/ k = j
    <3>1. CASE k = i
      BY <1>6, <1>7, <3>1
    <3>2. CASE k = j
      BY <1>6, <1>7, <3>2
    <3>3. QED
      BY <2>1, <3>1, <3>2
  <2>2. CASE k # i /\ k # j
    <3>1. h.q[k].name # a /\ h.q[k].name # b /\ h.q[k].name \in Hosts
      BY <1>1, <1>3, <1>4, <2>2
    <3>2. g.q[k] = h.q[k] /\ h.nameIndex[h.q[k].name] = k
      BY <1>3, <1>6, <2>2
    <3>3. g.nameIndex[h.q[k].name] = h.nameIndex[h.q[k].name]
      BY <1>7, <3>1
    <3>4. QED
      BY <3>2, <3>3
  <2>3. QED
    BY <2>1, <2>2
<1>9. ASSUME NEW m \in Hosts
      PROVE  /\ h.nameIndex[m] = 0 <=> g.nameIndex[m] = 0
             /\ h.nameIndex[m] # 0 =>
                   /\ g.nameIndex[m] \in 1 .. L
                   /\ g.q[g.nameIndex[m]] = h.q[h.nameIndex[m]]
  <2>0. i # 0 /\ j # 0
    BY <1>1
  <2>1. CASE m = a \/ m = b
    <3>1. \/ h.nameIndex[m] = i /\ g.nameIndex[m] = j
          \/ h.nameIndex[m] = j /\ g.nameIndex[m] = i
      BY <1>4, <1>7, <2>1
    <3> HIDE DEF a, b
    <3>2. QED
      BY <1>6, <2>0, <3>1
  <2>2. CASE m # a /\ m # b
    <3>1. g.nameIndex[m] = h.nameIndex[m]
      BY <1>7, <2>2
    <3>2. ASSUME h.nameIndex[m] # 0 PROVE h.nameIndex[m] \in 1 .. L /\ h.nameIndex[m] # i /\ h.nameIndex[m] # j
      BY <1>3, <2>2, <3>2
    <3>3. QED
      BY <1>6, <3>1, <3>2
  <2>3. QED
    BY <2>1, <2>2
<1>10. Indexed(g)
  <2>1. g \in [q : Seq(Entry), nameIndex : [Hosts -> Nat]]
    BY <1>2, <1>5, <1>7
  <2>2. \A m \in Hosts : g.nameIndex[m] # 0 =>
          g.nameIndex[m] \in 1 .. Len(g.q) /\ g.q[g.nameIndex[m]].name = m
    BY <1>3, <1>5, <1>9
  <2>3. QED
    BY <1>5, <1>8, <2>1, <2>2 DEF Indexed
<1>11. ASSUME NEW n \in Nat, i <= n, j <= n PROVE Moved(h, g, n)
  <2>1. ASSUME NEW k \in n + 1 .. L PROVE g.q[k] = h.q[k]
    <3>1. k \in 1 .. L /\ k # i /\ k # j
      BY <1>1, <1>11
    <3>2. QED
      BY <1>6, <3>1
  <2>2. QED
    BY <1>5, <1>9, <2>1 DEF Moved
<1>12. QED
  BY <1>6, <1>10, <1>11 DEF g

\* Moves follow each other.
LEMMA MovedTwice ==
    ASSUME NEW f, NEW g, NEW h, NEW n, Indexed(g), Moved(f, g, n), Moved(g, h, n)
    PROVE  Moved(f, h, n)
BY DEF Moved

-----------------------------------------------------------------------------
(* Heap order, of the values v at the first n positions *)

InOrder(v, n) == \A i \in 2 .. n : v[i \div 2] <= v[i]

\* Position p aside, the values are in order.
NearlyInOrder(v, n, p) ==
    /\ \A i \in 2 .. n : i # p /\ i \div 2 # p => v[i \div 2] <= v[i]
    /\ \A i \in 2 .. n : i \div 2 = p /\ p > 1 => v[p \div 2] <= v[i]

\* The value at p is in order with its children, and with its parent.
AboveChildren(v, n, p) == \A i \in 2 .. n : i \div 2 = p => v[p] <= v[i]

BelowParent(v, p) == p > 1 => v[p \div 2] <= v[p]

\* w is v with the values at i and j exchanged.
Exchanged(v, w, n, i, j) ==
    /\ v \in [1 .. n -> Int] /\ w \in [1 .. n -> Int]
    /\ w[i] = v[j] /\ w[j] = v[i]
    /\ \A k \in 1 .. n : k # i /\ k # j => w[k] = v[k]

\* A parent is above its children.
LEMMA Parents ==
    ASSUME NEW i \in Nat, i > 1
    PROVE  /\ i \div 2 \in Nat /\ i \div 2 >= 1 /\ i \div 2 < i
           /\ \A p \in Nat : i \div 2 = p <=> i = 2 * p \/ i = 2 * p + 1
OBVIOUS

\* The parts of the order are the order.
LEMMA OrderParts ==
    ASSUME NEW n \in Nat, NEW v, NEW p \in 1 .. n
    PROVE  NearlyInOrder(v, n, p) /\ AboveChildren(v, n, p) /\ BelowParent(v, p) => InOrder(v, n)
BY DEF NearlyInOrder, AboveChildren, BelowParent, InOrder

\* Moving up a value that is less than its parent.
LEMMA OrderUp ==
    ASSUME NEW n \in Nat, NEW v, NEW w, NEW p \in 2 .. n,
           NearlyInOrder(v, n, p), AboveChildren(v, n, p), v[p] < v[p \div 2],
           Exchanged(v, w, n, p, p \div 2)
    PROVE  NearlyInOrder(w, n, p \div 2) /\ AboveChildren(w, n, p \div 2)
<1> DEFINE m == p \div 2
<1>0. m \in Nat /\ m >= 1 /\ m < p /\ p \in Nat /\ m \in 1 .. n /\ p \in 1 .. n
  BY Parents
<1>1. /\ \A k \in 1 .. n : v[k] \in Int
      /\ w[p] = v[m] /\ w[m] = v[p] /\ v[p] < v[m]
      /\ \A k \in 1 .. n : k # p /\ k # m => w[k] = v[k]
  BY DEF Exchanged
<1>2. /\ \A i \in 2 .. n : i # p /\ i \div 2 # p => v[i \div 2] <= v[i]
      /\ \A i \in 2 .. n : i \div 2 = p => v[m] <= v[i]
      /\ \A i \in 2 .. n : i \div 2 = p => v[p] <= v[i]
  BY <1>0 DEF NearlyInOrder, AboveChildren
<1>3. p \div 2 = m /\ (m > 1 => m \div 2 # p /\ m \div 2 \in 1 .. n /\ m \div 2 # m /\ m \in 2 .. n)
  BY <1>0, Parents
<1> HIDE DEF m
<1>4. ASSUME NEW i \in 2 .. n
      PROVE  /\ i \div 2 \in Nat /\ i \div 2 >= 1 /\ i \div 2 < i
             /\ i \in 1 .. n /\ i \div 2 \in 1 .. n
  BY Parents
<1>5. ASSUME NEW i \in 2 .. n, i \div 2 = m PROVE w[m] <= w[i] /\ v[m] <= w[i]
  <2>1. i # m
    BY <1>4, <1>5
  <2>2. CASE i = p
    BY <1>0, <1>1, <2>2
  <2>3. CASE i # p
    <3>1. v[m] <= v[i]
      BY <1>0, <1>2, <1>5, <2>3
    <3>2. w[i] = v[i] /\ v[i] \in Int /\ v[m] \in Int /\ v[p] \in Int
      BY <1>0, <1>1, <1>4, <2>1, <2>3
    <3>3. QED
      BY <1>1, <3>1, <3>2
  <2>4. QED
    BY <2>2, <2>3
<1>6. AboveChildren(w, n, m)
  BY <1>5 DEF AboveChildren
<1>7. ASSUME NEW i \in 2 .. n, i # m, i \div 2 # m PROVE w[i \div 2] <= w[i]
  <2>1. i # p /\ w[i] = v[i]
    BY <1>1, <1>3, <1>4, <1>7
  <2>2. CASE i \div 2 = p
    BY <1>1, <1>2, <2>1, <2>2
  <2>3. CASE i \div 2 # p
    BY <1>1, <1>2, <1>4, <1>7, <2>1, <2>3
  <2>4. QED
    BY <2>2, <2>3
<1>8. ASSUME NEW i \in 2 .. n, i \div 2 = m, m > 1 PROVE w[m \div 2] <= w[i]
  <2>1. w[m \div 2] = v[m \div 2] /\ v[m \div 2] <= v[m]
    BY <1>0, <1>1, <1>2, <1>3, <1>8
  <2>2. v[m] <= w[i] /\ w[i] \in Int /\ v[m] \in Int /\ v[m \div 2] \in Int
    BY <1>0, <1>3, <1>4, <1>5, <1>8 DEF Exchanged
  <2>3. QED
    BY <2>1, <2>2
<1>9. NearlyInOrder(w, n, m)
  BY <1>7, <1>8 DEF NearlyInOrder
<1>10. QED
  BY <1>6, <1>9 DEF m

\* Moving down a value that is greater than its least child.
LEMMA OrderDown ==
    ASSUME NEW n \in Nat, NEW v, NEW w, NEW p \in 1 .. n, NEW c \in 2 .. n, c \div 2 = p,
           NearlyInOrder(v, n, p), v[c] < v[p], \A i \in 2 .. n : i \div 2 = p => v[c] <= v[i],
           Exchanged(v, w, n, p, c)
    PROVE  NearlyInOrder(w, n, c) /\ BelowParent(w, c)
<1>0. p \in Nat /\ c \in Nat /\ p >= 1 /\ p < c /\ c \in 1 .. n
  BY Parents
<1>1. /\ \A k \in 1 .. n : v[k] \in Int
      /\ w[p] = v[c] /\ w[c] = v[p] /\ v[c] < v[p]
      /\ \A k \in 1 .. n : k # p /\ k # c => w[k] = v[k]
  BY DEF Exchanged
<1>2. /\ \A i \in 2 .. n : i # p /\ i \div 2 # p => v[i \div 2] <= v[i]
      /\ \A i \in 2 .. n : i \div 2 = p /\ p > 1 => v[p \div 2] <= v[i]
  BY DEF NearlyInOrder
<1>3. \A i \in 2 .. n : i \div 2 = p => v[c] <= v[i]
  OBVIOUS
<1>4. ASSUME NEW i \in 2 .. n
      PROVE  /\ i \div 2 \in Nat /\ i \div 2 >= 1 /\ i \div 2 < i
             /\ i \in 1 .. n /\ i \div 2 \in 1 .. n
  BY Parents
<1>5. ASSUME NEW i \in 2 .. n, i # c, i \div 2 # c PROVE w[i \div 2] <= w[i]
  <2>1. CASE i = p
    <3>1. p > 1 /\ p \div 2 # p /\ p \div 2 # c /\ p \div 2 \in 1 .. n
      BY <1>0, <1>4, <1>5, <2>1
    <3>2. v[p \div 2] <= v[c]
      BY <1>2, <3>1
    <3>3. QED
      BY <1>1, <2>1, <3>1, <3>2
  <2>2. CASE i \div 2 = p
    <3>1. i # p
      BY <1>4, <2>2
    <3>2. QED
      BY <1>1, <1>3, <1>4, <1>5, <2>2, <3>1
  <2>3. CASE i # p /\ i \div 2 # p
    BY <1>1, <1>2, <1>4, <1>5, <2>3
  <2>4. QED
    BY <2>1, <2>2, <2>3
<1>6. ASSUME NEW i \in 2 .. n, i \div 2 = c PROVE w[c \div 2] <= w[i]
  <2>1. i # p /\ i # c /\ i \div 2 # p
    BY <1>0, <1>4, <1>6
  <2>2. QED
    BY <1>1, <1>2, <1>4, <1>6, <2>1
<1>7. NearlyInOrder(w, n, c)
  BY <1>5, <1>6 DEF NearlyInOrder
<1>8. BelowParent(w, c)
  BY <1>0, <1>1 DEF BelowParent
<1>9. QED
  BY <1>7, <1>8

\* The value at the root is a least one.
LEMMA RootLeast ==
    ASSUME NEW n \in Nat, NEW v \in [1 .. n -> Int], InOrder(v, n)
    PROVE  \A i \in 1 .. n : v[1] <= v[i]
<1> DEFINE S == {i \in 1 .. n : ~(v[1] <= v[i])}
<1> SUFFICES ASSUME S # {} PROVE FALSE
  OBVIOUS
<1>0. S \subseteq Nat
  OBVIOUS
<1>1. PICK i \in S : \A k \in S : i <= k
  <2> HIDE DEF S
  <2>1. QED
    BY <1>0, LeastElement
<1>2. i \in 1 .. n /\ v[i] < v[1] /\ i # 1
  BY <1>1
<1>3. i \in Nat /\ i > 1 /\ i \div 2 \in 1 .. n /\ i \div 2 < i
  BY <1>2, Parents
<1>4. v[1] <= v[i \div 2]
  BY <1>1, <1>3
<1>5. v[i \div 2] <= v[i]
  BY <1>2, <1>3 DEF InOrder
<1>6. v[1] \in Int /\ v[i] \in Int /\ v[i \div 2] \in Int
  BY <1>2, <1>3
<1>7. QED
  BY <1>2, <1>4, <1>5, <1>6

-----------------------------------------------------------------------------
(* The loops of container/heap *)

\* The values at the first n positions of a heap.
Vals(h, n) == [k \in 1 .. n |-> h.q[k].val]

\* A round of up or down at position p of a heap that began as h.
LoopState(h, n, s) ==
    /\ s = [heap |-> s.heap, pos |-> s.pos]
    /\ Indexed(s.heap) /\ Moved(h, s.heap, n)
    /\ s.pos \in 1 .. n
    /\ NearlyInOrder(Vals(s.heap, n), n, s.pos)

\* Heaps that are moves of each other are of the same length.
LEMMA LoopLength ==
    ASSUME NEW h, Indexed(h), NEW n \in 1 .. Len(h.q), NEW s, LoopState(h, n, s)
    PROVE  /\ n \in Nat /\ s.pos \in Nat /\ Len(s.heap.q) = Len(h.q) /\ n \in 1 .. Len(s.heap.q)
           /\ s.pos \in 1 .. Len(s.heap.q)
           /\ \A k \in 1 .. n : Vals(s.heap, n)[k] = s.heap.q[k].val
<1>1. Len(h.q) \in Nat
  BY HeapParts
<1>2. Len(s.heap.q) = Len(h.q) /\ s.pos \in 1 .. n
  BY DEF LoopState, Moved
<1>3. QED
  BY <1>1, <1>2 DEF Vals

\* A swap within the first n positions exchanges two of their values.
LEMMA SwapVals ==
    ASSUME NEW h, Indexed(h), NEW n \in 1 .. Len(h.q), NEW i \in 1 .. n, NEW j \in 1 .. n, i # j
    PROVE  Exchanged(Vals(h, n), Vals(Heap!Swap(h, i, j), n), n, i, j)
<1> DEFINE g == Heap!Swap(h, i, j)
<1>1. Len(h.q) \in Nat /\ \A k \in 1 .. Len(h.q) : h.q[k].val \in Int
  BY HeapParts
<1>2. i \in 1 .. Len(h.q) /\ j \in 1 .. Len(h.q) /\ \A k \in 1 .. n : k \in 1 .. Len(h.q)
  BY <1>1
<1>3. /\ g.q[i] = h.q[j] /\ g.q[j] = h.q[i]
      /\ \A k \in 1 .. Len(h.q) : k # i /\ k # j => g.q[k] = h.q[k]
  BY <1>2, Swapped
<1> HIDE DEF g
<1>4. \A k \in 1 .. n : g.q[k].val \in Int
  BY <1>1, <1>2, <1>3
<1>5. Exchanged(Vals(h, n), Vals(g, n), n, i, j)
  BY <1>1, <1>2, <1>3, <1>4 DEF Exchanged, Vals
<1>6. QED
  BY <1>5 DEF g

\* A swap of a round keeps what is known of the counters.
LEMMA SwapRound ==
    ASSUME NEW h, Indexed(h), NEW n \in 1 .. Len(h.q), NEW s, LoopState(h, n, s),
           NEW p \in 1 .. n, p # s.pos,
           NEW t, t = [heap |-> Heap!Swap(s.heap, s.pos, p), pos |-> p],
           NearlyInOrder(Vals(t.heap, n), n, p)
    PROVE  LoopState(h, n, t)
<1>1. Indexed(s.heap) /\ Moved(h, s.heap, n) /\ s.pos \in 1 .. n
  BY DEF LoopState
<1>2. /\ n \in Nat /\ s.pos \in Nat /\ Len(s.heap.q) = Len(h.q) /\ n \in 1 .. Len(s.heap.q)
      /\ s.pos \in 1 .. Len(s.heap.q)
  BY LoopLength
<1>3. p \in 1 .. Len(s.heap.q) /\ p <= n /\ s.pos <= n
  BY <1>1, <1>2
<1>4. Indexed(t.heap) /\ Moved(s.heap, t.heap, n) /\ t.pos = p
  BY <1>1, <1>2, <1>3, Swapped
<1>5. Moved(h, t.heap, n)
  BY <1>1, <1>4, MovedTwice
<1>6. t = [heap |-> t.heap, pos |-> t.pos]
  OBVIOUS
<1>7. QED
  BY <1>4, <1>5, <1>6 DEF LoopState

\* A round of up ends the loop or moves up.
LEMMA UpRoundKeeps ==
    ASSUME NEW h, Indexed(h), NEW n \in 1 .. Len(h.q), NEW s, LoopState(h, n, s),
           AboveChildren(Vals(s.heap, n), n, s.pos)
    PROVE  /\ LoopState(h, n, Heap!UpRound(s))
           /\ AboveChildren(Vals(Heap!UpRound(s).heap, n), n, Heap!UpRound(s).pos)
           /\ IF BelowParent(Vals(s.heap, n), s.pos)
              THEN Heap!UpRound(s) = s ELSE Heap!UpRound(s).pos < s.pos
<1> DEFINE p == s.pos
           m == p \div 2
           v == Vals(s.heap, n)
<1>1. /\ Indexed(s.heap) /\ p \in 1 .. n /\ n \in Nat /\ p \in Nat /\ n \in 1 .. Len(s.heap.q)
      /\ \A k \in 1 .. n : v[k] = s.heap.q[k].val
  BY LoopLength DEF LoopState
<1>2. p > 1 => m \in 1 .. n /\ m # p /\ m < p /\ p \in 2 .. n
  BY <1>1, Parents
<1>3. p > 1 => (Heap!Less(s.heap, p, m) <=> v[p] < v[m])
  BY <1>1, <1>2 DEF Heap!Less
<1>4. \A k \in 1 .. n : v[k] \in Int
  <2>1. Len(s.heap.q) \in Nat /\ \A k \in 1 .. Len(s.heap.q) : s.heap.q[k].val \in Int
    BY <1>1, HeapParts
  <2>2. QED
    BY <1>1, <2>1
<1>5. CASE BelowParent(v, p)
  <2>1. ~(p > 1 /\ Heap!Less(s.heap, p, m))
    BY <1>1, <1>2, <1>3, <1>4, <1>5 DEF BelowParent
  <2>2. Heap!UpRound(s) = s
    BY <2>1 DEF Heap!UpRound
  <2>3. QED
    BY <1>5, <2>2
<1>6. CASE ~BelowParent(v, p)
  <2> DEFINE t == [heap |-> Heap!Swap(s.heap, p, m), pos |-> m]
             w == Vals(t.heap, n)
  <2>1. p > 1 /\ v[p] < v[m]
    BY <1>1, <1>2, <1>4, <1>6 DEF BelowParent
  <2>2. Heap!UpRound(s) = t
    BY <1>3, <2>1 DEF Heap!UpRound
  <2>3. Exchanged(v, w, n, p, m)
    BY <1>1, <1>2, <2>1, SwapVals
  <2>4. NearlyInOrder(v, n, p) /\ AboveChildren(v, n, p)
    BY DEF LoopState
  <2>5. NearlyInOrder(w, n, m) /\ AboveChildren(w, n, m)
    <3> HIDE DEF v, w, p, t
    <3>1. QED
      BY <1>1, <1>2, <2>1, <2>3, <2>4, OrderUp DEF m
  <2>6. LoopState(h, n, t)
    BY <1>2, <2>1, <2>5, SwapRound
  <2>7. QED
    BY <1>2, <1>6, <2>1, <2>2, <2>5, <2>6
<1>7. QED
  BY <1>5, <1>6

\* r is the first n rounds of up from position i.
RoundsOfUp(r, h, i, n) ==
    r = [k \in 0 .. n |-> IF k = 0 THEN [heap |-> h, pos |-> i] ELSE Heap!UpRound(r[k - 1])]

\* There are such rounds.
LEMMA UpRounds ==
    ASSUME NEW h, NEW i
    PROVE  \A n \in Nat : \E r : RoundsOfUp(r, h, i, n)
<1> DEFINE Is(r, n) == RoundsOfUp(r, h, i, n)
           S == {n \in Nat : \E r : Is(r, n)}
<1>1. 0 \in S
  <2> DEFINE r == [k \in 0 .. 0 |-> [heap |-> h, pos |-> i]]
  <2>1. Is(r, 0)
    BY DEF RoundsOfUp
  <2> HIDE DEF r, Is
  <2>2. QED
    BY <2>1
<1>2. ASSUME NEW n \in Nat, n \in S PROVE n + 1 \in S
  <2>1. PICK r : Is(r, n)
    BY <1>2
  <2> DEFINE t == [k \in 0 .. n + 1 |-> IF k <= n THEN r[k] ELSE Heap!UpRound(r[n])]
  <2>2. \A k \in 0 .. n : t[k] = r[k]
    OBVIOUS
  <2>3. ASSUME NEW k \in 0 .. n + 1
        PROVE  t[k] = IF k = 0 THEN [heap |-> h, pos |-> i] ELSE Heap!UpRound(t[k - 1])
    <3>1. CASE k <= n
      <4>1. t[k] = r[k] /\ r[k] = IF k = 0 THEN [heap |-> h, pos |-> i] ELSE Heap!UpRound(r[k - 1])
        BY <2>1, <3>1 DEF RoundsOfUp
      <4>2. k # 0 => k - 1 \in 0 .. n
        BY <3>1
      <4> HIDE DEF t
      <4>3. QED
        BY <2>2, <4>1, <4>2
    <3>2. CASE k = n + 1
      <4>1. t[k] = Heap!UpRound(r[n]) /\ k - 1 = n /\ k # 0 /\ n \in 0 .. n
        BY <3>2
      <4> HIDE DEF t
      <4>2. QED
        BY <2>2, <4>1
    <3>3. QED
      BY <3>1, <3>2
  <2>4. t = [k \in 0 .. n + 1 |-> t[k]]
    OBVIOUS
  <2> HIDE DEF t
  <2>5. Is(t, n + 1)
    BY <2>3, <2>4 DEF RoundsOfUp
  <2> HIDE DEF Is
  <2>6. n + 1 \in Nat
    OBVIOUS
  <2>7. QED
    BY <2>5, <2>6
<1>3. \A n \in Nat : n \in S
  <2> HIDE DEF S
  <2>1. QED
    BY <1>1, <1>2, Induction
<1>4. QED
  BY <1>3

\* heap.up restores the order above a value that may be too small.
LEMMA UpWorks ==
    ASSUME NEW h, Indexed(h), NEW n \in 1 .. Len(h.q), NEW i \in 1 .. n,
           NearlyInOrder(Vals(h, n), n, i), AboveChildren(Vals(h, n), n, i)
    PROVE  /\ Indexed(Heap!Up(h, i)) /\ Moved(h, Heap!Up(h, i), n)
           /\ InOrder(Vals(Heap!Up(h, i), n), n)
<1> DEFINE r == CHOOSE r : r = [k \in 0 .. i |->
                  IF k = 0 THEN [heap |-> h, pos |-> i] ELSE Heap!UpRound(r[k - 1])]
           s0 == [heap |-> h, pos |-> i]
<1>0. i \in Nat /\ n \in Nat
  BY HeapParts
<1>1. Heap!Up(h, i) = r[i].heap
  BY DEF Heap!Up
<1>2. r = [k \in 0 .. i |-> IF k = 0 THEN s0 ELSE Heap!UpRound(r[k - 1])]
  <2>1. PICK f : RoundsOfUp(f, h, i, i)
    BY <1>0, UpRounds
  <2>2. f = [k \in 0 .. i |->
               IF k = 0 THEN [heap |-> h, pos |-> i] ELSE Heap!UpRound(f[k - 1])]
    BY <2>1 DEF RoundsOfUp
  <2>3. QED
    BY <2>2, Zenon
<1> HIDE DEF r
<1>3. r[0] = s0 /\ \A k \in Nat : k + 1 <= i => r[k + 1] = Heap!UpRound(r[k])
  <2> HIDE DEF s0
  <2>1. r[0] = s0
    BY <1>0, <1>2
  <2>2. ASSUME NEW k \in Nat, k + 1 <= i PROVE r[k + 1] = Heap!UpRound(r[k])
    <3>1. k + 1 \in 0 .. i /\ k + 1 # 0 /\ (k + 1) - 1 = k
      BY <1>0, <2>2
    <3>2. QED
      BY <1>2, <3>1
  <2>3. QED
    BY <2>1, <2>2
<1> DEFINE Known(s) == LoopState(h, n, s) /\ AboveChildren(Vals(s.heap, n), n, s.pos)
           Done(s) == BelowParent(Vals(s.heap, n), s.pos)
           S == {k \in Nat : k <= i => Known(r[k]) /\ (Done(r[k]) \/ r[k].pos + k <= i)}
<1>4. 0 \in S
  <2>1. Moved(h, h, n)
    BY DEF Moved
  <2>2. s0 = [heap |-> s0.heap, pos |-> s0.pos] /\ s0.heap = h /\ s0.pos = i
    OBVIOUS
  <2>3. Known(s0) /\ s0.pos + 0 <= i
    BY <1>0, <2>1, <2>2 DEF LoopState
  <2> HIDE DEF Known, Done, s0
  <2>4. QED
    BY <1>3, <2>3
<1>5. ASSUME NEW k \in Nat, k \in S PROVE k + 1 \in S
  <2> SUFFICES ASSUME k + 1 <= i
               PROVE  Known(r[k + 1]) /\ (Done(r[k + 1]) \/ r[k + 1].pos + (k + 1) <= i)
    OBVIOUS
  <2>1. Known(r[k]) /\ (Done(r[k]) \/ r[k].pos + k <= i) /\ r[k + 1] = Heap!UpRound(r[k])
    BY <1>0, <1>3, <1>5
  <2>2. Known(r[k + 1]) /\ IF Done(r[k]) THEN r[k + 1] = r[k] ELSE r[k + 1].pos < r[k].pos
    BY <2>1, UpRoundKeeps
  <2>3. r[k].pos \in Nat /\ r[k + 1].pos \in Nat
    BY <2>1, <2>2, LoopLength
  <2> HIDE DEF Known, Done
  <2>4. QED
    BY <1>0, <2>1, <2>2, <2>3
<1>6. Known(r[i]) /\ Done(r[i])
  <2>1. \A k \in Nat : k \in S
    <3> HIDE DEF S
    <3>1. QED
      BY <1>4, <1>5, Induction
  <2>2. i \in S
    BY <1>0, <2>1
  <2>3. Known(r[i]) /\ (Done(r[i]) \/ r[i].pos + i <= i)
    BY <1>0, <2>2
  <2>4. r[i].pos \in Nat /\ r[i].pos >= 1
    BY <1>0, <2>3 DEF LoopState
  <2> HIDE DEF Known, Done
  <2>5. QED
    BY <1>0, <2>3, <2>4
<1>7. r[i].pos \in 1 .. n
  BY <1>6 DEF LoopState
<1>8. InOrder(Vals(r[i].heap, n), n)
  BY <1>0, <1>6, <1>7, OrderParts DEF LoopState
<1>9. QED
  BY <1>1, <1>6, <1>8 DEF LoopState

\* A round of down ends the loop or moves down.
LEMMA DownRoundKeeps ==
    ASSUME NEW h, Indexed(h), NEW n \in 1 .. Len(h.q), NEW s, LoopState(h, n, s)
    PROVE  /\ LoopState(h, n, Heap!DownRound(s, n))
           /\ IF AboveChildren(Vals(s.heap, n), n, s.pos)
              THEN Heap!DownRound(s, n) = s
              ELSE /\ Heap!DownRound(s, n).pos > s.pos
                   /\ BelowParent(Vals(Heap!DownRound(s, n).heap, n), Heap!DownRound(s, n).pos)
<1> DEFINE p == s.pos
           c == Heap!Child(s.heap, p, n)
           v == Vals(s.heap, n)
<1>1. /\ Indexed(s.heap) /\ p \in 1 .. n /\ n \in Nat /\ p \in Nat /\ n \in 1 .. Len(s.heap.q)
      /\ \A k \in 1 .. n : v[k] = s.heap.q[k].val
  BY LoopLength DEF LoopState
<1>2. \A k \in 1 .. n : v[k] \in Int
  <2>1. Len(s.heap.q) \in Nat /\ \A k \in 1 .. Len(s.heap.q) : s.heap.q[k].val \in Int
    BY <1>1, HeapParts
  <2>2. QED
    BY <1>1, <2>1
<1>3. ASSUME NEW i \in 2 .. n, i \div 2 = p
      PROVE  i \in 1 .. n /\ 2 * p <= n /\ (i = 2 * p \/ i = 2 * p + 1)
  <2>1. i \in Nat /\ i > 1 /\ i <= n /\ p \in Nat /\ n \in Nat
    BY <1>1
  <2> HIDE DEF p
  <2>2. i = 2 * p \/ i = 2 * p + 1
    BY <1>3, <2>1, Parents
  <2>3. QED
    BY <2>1, <2>2
<1>4. ASSUME 2 * p <= n
      PROVE  /\ c \in 2 .. n /\ c \div 2 = p /\ c \in 1 .. n /\ c > p
             /\ \A i \in 2 .. n : i \div 2 = p => v[c] <= v[i]
             /\ Heap!Less(s.heap, c, p) <=> v[c] < v[p]
  <2>1. 2 * p \in 2 .. n /\ 2 * p \in 1 .. n /\ (2 * p) \div 2 = p /\ 2 * p > p
    BY <1>1, <1>4
  <2>2. 2 * p < n => 2 * p + 1 \in 2 .. n /\ 2 * p + 1 \in 1 .. n /\ (2 * p + 1) \div 2 = p
    <3>1. p \in Nat /\ p >= 1 /\ n \in Nat
      BY <1>1
    <3> HIDE DEF p
    <3>2. QED
      BY <3>1
  <2>3. c = IF 2 * p < n /\ v[2 * p + 1] < v[2 * p] THEN 2 * p + 1 ELSE 2 * p
    BY <1>1, <2>1, <2>2 DEF Heap!Child, Heap!Less
  <2>4. c \in 2 .. n /\ c \div 2 = p /\ c \in 1 .. n /\ c > p
    BY <1>1, <2>1, <2>2, <2>3
  <2>5. ASSUME NEW i \in 2 .. n, i \div 2 = p PROVE v[c] <= v[i]
    <3>1. i = 2 * p \/ (i = 2 * p + 1 /\ 2 * p < n)
      BY <1>1, <1>3, <2>5
    <3> DEFINE left == 2 * p
               right == 2 * p + 1
    <3>2. /\ v[left] \in Int /\ (left < n => v[right] \in Int)
          /\ c = IF left < n /\ v[right] < v[left] THEN right ELSE left
          /\ i = left \/ (i = right /\ left < n)
      BY <1>2, <2>1, <2>2, <2>3, <3>1
    <3> HIDE DEF left, right, c, v, p
    <3>3. QED
      BY <3>2
  <2>6. Heap!Less(s.heap, c, p) <=> v[c] < v[p]
    BY <1>1, <2>4 DEF Heap!Less
  <2>7. QED
    BY <2>4, <2>5, <2>6
<1> HIDE DEF c
<1>5. Heap!DownRound(s, n) =
        IF 2 * p <= n /\ Heap!Less(s.heap, c, p)
        THEN [heap |-> Heap!Swap(s.heap, p, c), pos |-> c] ELSE s
  BY DEF Heap!DownRound, c
<1>6. CASE AboveChildren(v, n, p)
  <2>1. ASSUME 2 * p <= n PROVE ~Heap!Less(s.heap, c, p)
    <3>1. v[p] <= v[c]
      BY <1>4, <1>6, <2>1 DEF AboveChildren
    <3>2. v[p] \in Int /\ v[c] \in Int
      BY <1>1, <1>2, <1>4, <2>1
    <3> HIDE DEF v, p
    <3>3. QED
      BY <1>4, <2>1, <3>1, <3>2
  <2>2. Heap!DownRound(s, n) = s
    BY <1>5, <2>1
  <2>3. QED
    BY <1>6, <2>2
<1>7. CASE ~AboveChildren(v, n, p)
  <2> DEFINE t == [heap |-> Heap!Swap(s.heap, p, c), pos |-> c]
             w == Vals(t.heap, n)
  <2>1. PICK i \in 2 .. n : i \div 2 = p /\ ~(v[p] <= v[i])
    BY <1>7 DEF AboveChildren
  <2>2. 2 * p <= n /\ v[i] \in Int /\ v[p] \in Int
    BY <1>1, <1>2, <1>3, <2>1
  <2>3. v[c] < v[p] /\ c \in 2 .. n /\ c \div 2 = p /\ c \in 1 .. n /\ c > p /\ c # p
    <3>1. v[c] <= v[i] /\ v[c] \in Int
      BY <1>2, <1>4, <2>1, <2>2
    <3>2. c # p
      BY <1>1, <1>4, <2>2
    <3> HIDE DEF v, p
    <3>3. QED
      BY <1>4, <2>1, <2>2, <3>1, <3>2
  <2>4. Heap!DownRound(s, n) = t
    BY <1>4, <1>5, <2>2, <2>3
  <2>5. Exchanged(v, w, n, p, c)
    BY <1>1, <2>3, SwapVals
  <2>6. NearlyInOrder(v, n, p)
    BY DEF LoopState
  <2>7. NearlyInOrder(w, n, c) /\ BelowParent(w, c)
    <3> HIDE DEF v, w, p, t
    <3>1. QED
      BY <1>1, <1>4, <2>2, <2>3, <2>5, <2>6, OrderDown
  <2>8. LoopState(h, n, t)
    BY <2>3, <2>7, SwapRound
  <2>9. QED
    BY <1>7, <2>3, <2>4, <2>7, <2>8
<1>8. QED
  BY <1>6, <1>7

\* r is the first l rounds of down from position i among the first n.
RoundsOfDown(r, h, i, n, l) ==
    r = [k \in 0 .. l |-> IF k = 0 THEN [heap |-> h, pos |-> i] ELSE Heap!DownRound(r[k - 1], n)]

\* There are such rounds.
LEMMA DownRounds ==
    ASSUME NEW h, NEW i, NEW n
    PROVE  \A l \in Nat : \E r : RoundsOfDown(r, h, i, n, l)
<1> DEFINE Is(r, l) == RoundsOfDown(r, h, i, n, l)
           S == {l \in Nat : \E r : Is(r, l)}
<1>1. 0 \in S
  <2> DEFINE r == [k \in 0 .. 0 |-> [heap |-> h, pos |-> i]]
  <2>1. Is(r, 0)
    BY DEF RoundsOfDown
  <2> HIDE DEF r, Is
  <2>2. QED
    BY <2>1
<1>2. ASSUME NEW l \in Nat, l \in S PROVE l + 1 \in S
  <2>1. PICK r : Is(r, l)
    BY <1>2
  <2> DEFINE t == [k \in 0 .. l + 1 |-> IF k <= l THEN r[k] ELSE Heap!DownRound(r[l], n)]
  <2>2. \A k \in 0 .. l : t[k] = r[k]
    OBVIOUS
  <2>3. ASSUME NEW k \in 0 .. l + 1
        PROVE  t[k] = IF k = 0 THEN [heap |-> h, pos |-> i] ELSE Heap!DownRound(t[k - 1], n)
    <3>1. CASE k <= l
      <4>1. t[k] = r[k] /\ r[k] = IF k = 0 THEN [heap |-> h, pos |-> i] ELSE Heap!DownRound(r[k - 1], n)
        BY <2>1, <3>1 DEF RoundsOfDown
      <4>2. k # 0 => k - 1 \in 0 .. l
        BY <3>1
      <4> HIDE DEF t
      <4>3. QED
        BY <2>2, <4>1, <4>2
    <3>2. CASE k = l + 1
      <4>1. t[k] = Heap!DownRound(r[l], n) /\ k - 1 = l /\ k # 0 /\ l \in 0 .. l
        BY <3>2
      <4> HIDE DEF t
      <4>2. QED
        BY <2>2, <4>1
    <3>3. QED
      BY <3>1, <3>2
  <2>4. t = [k \in 0 .. l + 1 |-> t[k]]
    OBVIOUS
  <2> HIDE DEF t
  <2>5. Is(t, l + 1)
    BY <2>3, <2>4 DEF RoundsOfDown
  <2> HIDE DEF Is
  <2>6. l + 1 \in Nat
    OBVIOUS
  <2>7. QED
    BY <2>5, <2>6
<1>3. \A l \in Nat : l \in S
  <2> HIDE DEF S
  <2>1. QED
    BY <1>1, <1>2, Induction
<1>4. QED
  BY <1>3

\* heap.down restores the order below a value that may be too great.
LEMMA DownWorks ==
    ASSUME NEW h, Indexed(h), NEW n \in 1 .. Len(h.q), NEW i \in 1 .. n,
           NearlyInOrder(Vals(h, n), n, i)
    PROVE  LET d == Heap!Down(h, i, n)
           IN  /\ LoopState(h, n, d) /\ AboveChildren(Vals(d.heap, n), n, d.pos)
               /\ \/ d.pos = i /\ d.heap = h
                  \/ d.pos > i /\ BelowParent(Vals(d.heap, n), d.pos)
<1> DEFINE r == CHOOSE r : r = [k \in 0 .. n |->
                  IF k = 0 THEN [heap |-> h, pos |-> i] ELSE Heap!DownRound(r[k - 1], n)]
           s0 == [heap |-> h, pos |-> i]
<1>0. i \in Nat /\ n \in Nat
  BY HeapParts
<1>1. Heap!Down(h, i, n) = r[n]
  BY DEF Heap!Down
<1>2. r = [k \in 0 .. n |-> IF k = 0 THEN s0 ELSE Heap!DownRound(r[k - 1], n)]
  <2>1. PICK f : RoundsOfDown(f, h, i, n, n)
    BY <1>0, DownRounds
  <2>2. f = [k \in 0 .. n |->
               IF k = 0 THEN [heap |-> h, pos |-> i] ELSE Heap!DownRound(f[k - 1], n)]
    BY <2>1 DEF RoundsOfDown
  <2>3. QED
    BY <2>2, Zenon
<1> HIDE DEF r
<1>3. r[0] = s0 /\ \A k \in Nat : k + 1 <= n => r[k + 1] = Heap!DownRound(r[k], n)
  <2> HIDE DEF s0
  <2>1. r[0] = s0
    BY <1>0, <1>2
  <2>2. ASSUME NEW k \in Nat, k + 1 <= n PROVE r[k + 1] = Heap!DownRound(r[k], n)
    <3>1. k + 1 \in 0 .. n /\ k + 1 # 0 /\ (k + 1) - 1 = k
      BY <1>0, <2>2
    <3>2. QED
      BY <1>2, <3>1
  <2>3. QED
    BY <2>1, <2>2
<1> DEFINE Known(s) ==
             /\ LoopState(h, n, s)
             /\ \/ s.pos = i /\ s.heap = h
                \/ s.pos > i /\ BelowParent(Vals(s.heap, n), s.pos)
           Done(s) == AboveChildren(Vals(s.heap, n), n, s.pos)
           S == {k \in Nat : k <= n => Known(r[k]) /\ (Done(r[k]) \/ r[k].pos >= i + k)}
<1>4. 0 \in S
  <2>1. Moved(h, h, n)
    BY DEF Moved
  <2>2. s0 = [heap |-> s0.heap, pos |-> s0.pos] /\ s0.heap = h /\ s0.pos = i
    OBVIOUS
  <2>3. Known(s0) /\ s0.pos >= i + 0
    BY <1>0, <2>1, <2>2 DEF LoopState
  <2> HIDE DEF Known, Done, s0
  <2>4. QED
    BY <1>3, <2>3
<1>5. ASSUME NEW k \in Nat, k \in S PROVE k + 1 \in S
  <2> SUFFICES ASSUME k + 1 <= n
               PROVE  Known(r[k + 1]) /\ (Done(r[k + 1]) \/ r[k + 1].pos >= i + (k + 1))
    OBVIOUS
  <2>1. Known(r[k]) /\ (Done(r[k]) \/ r[k].pos >= i + k) /\ r[k + 1] = Heap!DownRound(r[k], n)
    BY <1>0, <1>3, <1>5
  <2>2. /\ LoopState(h, n, r[k + 1])
        /\ IF Done(r[k]) THEN r[k + 1] = r[k]
           ELSE r[k + 1].pos > r[k].pos /\ BelowParent(Vals(r[k + 1].heap, n), r[k + 1].pos)
    BY <2>1, DownRoundKeeps
  <2>3. r[k].pos \in Nat /\ r[k + 1].pos \in Nat /\ r[k].pos >= i
    <3>1. r[k].pos \in Nat /\ r[k + 1].pos \in Nat
      BY <2>1, <2>2, LoopLength
    <3>2. QED
      BY <1>0, <2>1, <3>1
  <2>4. CASE Done(r[k])
    <3> HIDE DEF Known, Done
    <3>1. QED
      BY <2>1, <2>2, <2>4
  <2>5. CASE ~Done(r[k])
    <3>1. r[k + 1].pos > r[k].pos /\ BelowParent(Vals(r[k + 1].heap, n), r[k + 1].pos)
      BY <2>2, <2>5
    <3>2. r[k].pos >= i + k
      BY <2>1, <2>5
    <3>3. r[k + 1].pos > i /\ r[k + 1].pos >= i + (k + 1)
      BY <1>0, <2>3, <3>1, <3>2
    <3>4. QED
      BY <2>2, <3>1, <3>3
  <2>6. QED
    BY <2>4, <2>5
<1>6. Known(r[n]) /\ Done(r[n])
  <2>1. \A k \in Nat : k \in S
    <3> HIDE DEF S
    <3>1. QED
      BY <1>4, <1>5, Induction
  <2>2. n \in S
    BY <1>0, <2>1
  <2>3. Known(r[n]) /\ (Done(r[n]) \/ r[n].pos >= i + n)
    BY <1>0, <2>2
  <2>4. r[n].pos \in Nat /\ r[n].pos <= n /\ i >= 1
    BY <1>0, <2>3 DEF LoopState
  <2> HIDE DEF Known, Done
  <2>5. QED
    BY <1>0, <2>3, <2>4
<1>7. QED
  BY <1>1, <1>6

\* heap.Fix, and heap.Remove before it pops: one value may be out of order.
LEMMA SiftWorks ==
    ASSUME NEW h, Indexed(h), NEW n \in 1 .. Len(h.q), NEW i \in 1 .. n,
           NearlyInOrder(Vals(h, n), n, i)
    PROVE  /\ Indexed(Heap!Sift(h, i, n)) /\ Moved(h, Heap!Sift(h, i, n), n)
           /\ InOrder(Vals(Heap!Sift(h, i, n), n), n)
<1> DEFINE d == Heap!Down(h, i, n)
<1>1. /\ LoopState(h, n, d) /\ AboveChildren(Vals(d.heap, n), n, d.pos)
      /\ \/ d.pos = i /\ d.heap = h
         \/ d.pos > i /\ BelowParent(Vals(d.heap, n), d.pos)
  BY DownWorks
<1>2. Heap!Sift(h, i, n) = IF d.pos > i THEN d.heap ELSE Heap!Up(h, i)
  BY DEF Heap!Sift
<1> HIDE DEF d
<1>3. i \in Nat /\ n \in Nat
  BY HeapParts
<1>4. CASE d.pos = i /\ d.heap = h
  <2>1. Heap!Sift(h, i, n) = Heap!Up(h, i)
    BY <1>2, <1>3, <1>4
  <2>2. QED
    BY <1>1, <1>4, <2>1, UpWorks
<1>5. CASE d.pos > i /\ BelowParent(Vals(d.heap, n), d.pos)
  <2>1. Heap!Sift(h, i, n) = d.heap
    BY <1>2, <1>5
  <2>2. d.pos \in 1 .. n /\ NearlyInOrder(Vals(d.heap, n), n, d.pos)
    BY <1>1 DEF LoopState
  <2>3. InOrder(Vals(d.heap, n), n)
    BY <1>1, <1>3, <1>5, <2>2, OrderParts
  <2>4. QED
    BY <1>1, <2>1, <2>3 DEF LoopState
<1>6. QED
  BY <1>1, <1>4, <1>5

-----------------------------------------------------------------------------
(* The operations of namedMinHeap *)

\* A heap between two operations.
HeapOK(h) == Indexed(h) /\ InOrder(Vals(h, Len(h.q)), Len(h.q))

\* The counters a heap stands for.
LEMMA CountersOf ==
    ASSUME NEW h, Indexed(h)
    PROVE  /\ Heap!Names(h) = {m \in Hosts : h.nameIndex[m] # 0}
           /\ DOMAIN Heap!Counters(h) = Heap!Names(h)
           /\ Heap!Counters(h) = [m \in Heap!Names(h) |-> h.q[h.nameIndex[m]].val]
           /\ \A i \in 1 .. Len(h.q) :
                 h.q[i].name \in Heap!Names(h) /\ Heap!Counters(h)[h.q[i].name] = h.q[i].val
           /\ \A m \in Heap!Names(h) : Heap!Counters(h)[m] \in Int
<1>1. /\ DOMAIN h.q = 1 .. Len(h.q) /\ h.nameIndex \in [Hosts -> Nat]
      /\ \A i \in 1 .. Len(h.q) : h.q[i].name \in Hosts /\ h.q[i].val \in Int
  BY HeapParts
<1>2. /\ \A i \in 1 .. Len(h.q) : h.nameIndex[h.q[i].name] = i
      /\ \A m \in Hosts : h.nameIndex[m] # 0 =>
            h.nameIndex[m] \in 1 .. Len(h.q) /\ h.q[h.nameIndex[m]].name = m
  BY DEF Indexed
<1>3. Heap!Names(h) = {h.q[i].name : i \in 1 .. Len(h.q)}
  BY <1>1 DEF Heap!Names
<1>4. Heap!Names(h) = {m \in Hosts : h.nameIndex[m] # 0}
  BY <1>1, <1>2, <1>3
<1>5. Heap!Counters(h) = [m \in Heap!Names(h) |-> h.q[h.nameIndex[m]].val]
  BY DEF Heap!Counters
<1>6. \A i \in 1 .. Len(h.q) :
         h.q[i].name \in Heap!Names(h) /\ Heap!Counters(h)[h.q[i].name] = h.q[i].val
  BY <1>2, <1>3, <1>5
<1>7. \A m \in Heap!Names(h) : Heap!Counters(h)[m] \in Int
  BY <1>1, <1>2, <1>4, <1>5
<1>8. QED
  BY <1>4, <1>5, <1>6, <1>7

\* Moving counters about does not change them.
LEMMA MovedCounters ==
    ASSUME NEW h, NEW g, NEW n, Indexed(h), Indexed(g), Moved(h, g, n)
    PROVE  Heap!Names(g) = Heap!Names(h) /\ Heap!Counters(g) = Heap!Counters(h)
<1>1. Heap!Names(h) = {m \in Hosts : h.nameIndex[m] # 0} /\ Heap!Names(g) = {m \in Hosts : g.nameIndex[m] # 0}
  BY CountersOf
<1>2. /\ Heap!Counters(h) = [m \in Heap!Names(h) |-> h.q[h.nameIndex[m]].val]
      /\ Heap!Counters(g) = [m \in Heap!Names(g) |-> g.q[g.nameIndex[m]].val]
  BY CountersOf
<1>3. Heap!Names(g) = Heap!Names(h)
  BY <1>1 DEF Moved
<1>4. \A m \in Heap!Names(h) : g.q[g.nameIndex[m]].val = h.q[h.nameIndex[m]].val
  BY <1>1 DEF Moved
<1>5. QED
  BY <1>2, <1>3, <1>4

\* Changing the value at one position leaves the others in order.
LEMMA OrderChanged ==
    ASSUME NEW n \in Nat, NEW v \in [1 .. n -> Int], NEW w, NEW p \in 1 .. n, InOrder(v, n),
           \A k \in 1 .. n : k # p => w[k] = v[k]
    PROVE  NearlyInOrder(w, n, p)
<1>1. ASSUME NEW i \in 2 .. n
      PROVE  i \div 2 < i /\ i \in 1 .. n /\ i \div 2 \in 1 .. n /\ v[i \div 2] <= v[i]
  BY Parents DEF InOrder
<1>2. ASSUME NEW i \in 2 .. n, i # p, i \div 2 # p PROVE w[i \div 2] <= w[i]
  BY <1>1, <1>2
<1>3. ASSUME NEW i \in 2 .. n, i \div 2 = p, p > 1 PROVE w[p \div 2] <= w[i]
  <2>1. p \in 2 .. n
    BY <1>3
  <2>2. i # p /\ p \div 2 # p /\ v[p \div 2] <= v[p] /\ v[p] <= v[i] /\ i \in 1 .. n /\ p \div 2 \in 1 .. n
    <3>1. p \div 2 < p /\ p \div 2 \in 1 .. n /\ v[p \div 2] <= v[p]
      BY <1>1, <2>1
    <3>2. p < i /\ i \in 1 .. n /\ v[p] <= v[i]
      BY <1>1, <1>3
    <3>3. p \div 2 # p /\ i # p
      BY <3>1, <3>2
    <3>4. QED
      BY <3>1, <3>2, <3>3
  <2>3. w[i] = v[i] /\ w[p \div 2] = v[p \div 2] /\ v[i] \in Int /\ v[p] \in Int /\ v[p \div 2] \in Int
    BY <2>2
  <2>4. QED
    BY <2>2, <2>3
<1>4. QED
  BY <1>2, <1>3 DEF NearlyInOrder

\* Inc and Dec change one counter.
LEMMA ChangeWorks ==
    ASSUME NEW h, HeapOK(h), NEW m \in Hosts, h.nameIndex[m] # 0, NEW d \in Int
    PROVE  /\ HeapOK(Heap!Change(h, m, d))
           /\ m \in Heap!Names(h)
           /\ Heap!Counters(Heap!Change(h, m, d)) = [Heap!Counters(h) EXCEPT ![m] = @ + d]
<1> DEFINE i == h.nameIndex[m]
           n == Len(h.q)
           e == [h EXCEPT !.q[i].val = @ + d]
           g == Heap!Change(h, m, d)
<1>0. Indexed(h) /\ InOrder(Vals(h, n), n)
  BY DEF HeapOK
<1>1. /\ h = [q |-> h.q, nameIndex |-> h.nameIndex]
      /\ h.q \in Seq(Entry) /\ h.nameIndex \in [Hosts -> Nat] /\ n \in Nat
      /\ \A k \in 1 .. n : h.q[k] \in Entry /\ h.q[k].name \in Hosts /\ h.q[k].val \in Int
  BY <1>0, HeapParts
<1>2. /\ \A k \in 1 .. n : h.nameIndex[h.q[k].name] = k
      /\ \A x \in Hosts : h.nameIndex[x] # 0 =>
            h.nameIndex[x] \in 1 .. n /\ h.q[h.nameIndex[x]].name = x
  BY <1>0 DEF Indexed
<1>3. i \in 1 .. n /\ h.q[i].name = m
  BY <1>2
<1>4. e = [q |-> [h.q EXCEPT ![i] = [h.q[i] EXCEPT !.val = @ + d]], nameIndex |-> h.nameIndex]
  BY <1>1
<1>5. /\ e = [q |-> e.q, nameIndex |-> e.nameIndex] /\ e.nameIndex = h.nameIndex
      /\ e.q = [h.q EXCEPT ![i] = [h.q[i] EXCEPT !.val = @ + d]]
  BY <1>4
<1> HIDE DEF e
<1>6. [h.q[i] EXCEPT !.val = @ + d] = [name |-> m, val |-> h.q[i].val + d]
  BY <1>1, <1>3 DEF Entry
<1>7. [name |-> m, val |-> h.q[i].val + d] \in Entry
  BY <1>1, <1>3 DEF Entry
<1>8. e.q \in Seq(Entry) /\ Len(e.q) = n
  BY <1>1, <1>3, <1>5, <1>6, <1>7
<1>9. e.q[i] = [name |-> m, val |-> h.q[i].val + d] /\ \A k \in 1 .. n : k # i => e.q[k] = h.q[k]
  <2>1. e.q = [h.q EXCEPT ![i] = [name |-> m, val |-> h.q[i].val + d]]
    BY <1>5, <1>6
  <2> HIDE DEF i
  <2>2. QED
    BY <1>1, <1>3, <2>1
<1>10. \A k \in 1 .. n : e.q[k].name = h.q[k].name
  BY <1>3, <1>9
<1>11. Indexed(e)
  <2>1. e \in [q : Seq(Entry), nameIndex : [Hosts -> Nat]]
    BY <1>1, <1>5, <1>8
  <2>2. \A k \in 1 .. Len(e.q) : e.nameIndex[e.q[k].name] = k
    BY <1>2, <1>5, <1>8, <1>10
  <2>3. \A x \in Hosts : e.nameIndex[x] # 0 =>
           e.nameIndex[x] \in 1 .. Len(e.q) /\ e.q[e.nameIndex[x]].name = x
    BY <1>2, <1>5, <1>8, <1>10
  <2>4. QED
    BY <2>1, <2>2, <2>3 DEF Indexed
<1>12. NearlyInOrder(Vals(e, n), n, i)
  <2>1. Vals(h, n) \in [1 .. n -> Int]
    BY <1>1 DEF Vals
  <2>2. \A k \in 1 .. n : k # i => Vals(e, n)[k] = Vals(h, n)[k]
    BY <1>9 DEF Vals
  <2>3. QED
    BY <1>0, <1>1, <1>3, <2>1, <2>2, OrderChanged
<1>13. g = Heap!Sift(e, i, n)
  BY <1>8 DEF Heap!Change, Heap!Fix, e
<1>14. n \in 1 .. Len(e.q) /\ i \in 1 .. n
  BY <1>1, <1>3, <1>8
<1>15. Indexed(g) /\ Moved(e, g, n) /\ InOrder(Vals(g, n), n)
  BY <1>11, <1>12, <1>13, <1>14, SiftWorks
<1>16. Len(g.q) = n
  BY <1>8, <1>15 DEF Moved
<1>17. Heap!Counters(g) = Heap!Counters(e)
  BY <1>11, <1>15, MovedCounters
<1>18. /\ Heap!Names(h) = {x \in Hosts : h.nameIndex[x] # 0} /\ Heap!Names(e) = Heap!Names(h)
       /\ Heap!Counters(h) = [x \in Heap!Names(h) |-> h.q[h.nameIndex[x]].val]
       /\ Heap!Counters(e) = [x \in Heap!Names(h) |-> e.q[h.nameIndex[x]].val]
  <2>1. /\ Heap!Names(h) = {x \in Hosts : h.nameIndex[x] # 0}
        /\ Heap!Counters(h) = [x \in Heap!Names(h) |-> h.q[h.nameIndex[x]].val]
    BY <1>0, CountersOf
  <2>2. /\ Heap!Names(e) = {x \in Hosts : e.nameIndex[x] # 0}
        /\ Heap!Counters(e) = [x \in Heap!Names(e) |-> e.q[e.nameIndex[x]].val]
    BY <1>11, CountersOf
  <2>3. e.nameIndex = h.nameIndex
    BY <1>5
  <2>4. Heap!Names(e) = Heap!Names(h)
    BY <2>1, <2>2, <2>3
  <2>5. QED
    BY <2>1, <2>2, <2>3, <2>4
<1>19. ASSUME NEW x \in Heap!Names(h)
       PROVE  e.q[h.nameIndex[x]].val =
                IF x = m THEN h.q[h.nameIndex[x]].val + d ELSE h.q[h.nameIndex[x]].val
  <2>1. CASE x = m
    BY <1>9, <2>1
  <2>2. CASE x # m
    <3>1. h.nameIndex[x] \in 1 .. n /\ h.nameIndex[x] # i
      BY <1>2, <1>3, <1>18, <2>2
    <3>2. QED
      BY <1>9, <2>2, <3>1
  <2>3. QED
    BY <2>1, <2>2
<1>20. Heap!Counters(e) = [Heap!Counters(h) EXCEPT ![m] = @ + d] /\ m \in Heap!Names(h)
  BY <1>18, <1>19
<1>21. QED
  BY <1>15, <1>16, <1>17, <1>20 DEF HeapOK

\* Add begins a counter at zero.
LEMMA AddWorks ==
    ASSUME NEW h, HeapOK(h), NEW m \in Hosts, h.nameIndex[m] = 0
    PROVE  /\ HeapOK(Heap!Add(h, m))
           /\ Heap!Names(Heap!Add(h, m)) = Heap!Names(h) \cup {m} /\ m \notin Heap!Names(h)
           /\ Heap!Counters(Heap!Add(h, m)) =
                [x \in Heap!Names(h) \cup {m} |-> IF x = m THEN 0 ELSE Heap!Counters(h)[x]]
<1> DEFINE n == Len(h.q)
           c == [name |-> m, val |-> 0]
           e == [q |-> Append(h.q, c), nameIndex |-> [h.nameIndex EXCEPT ![m] = n + 1]]
           g == Heap!Add(h, m)
<1>0. Indexed(h) /\ InOrder(Vals(h, n), n)
  BY DEF HeapOK
<1>1. /\ h.q \in Seq(Entry) /\ h.nameIndex \in [Hosts -> Nat] /\ n \in Nat
      /\ \A k \in 1 .. n : h.q[k] \in Entry /\ h.q[k].name \in Hosts /\ h.q[k].val \in Int
  BY <1>0, HeapParts
<1>2. /\ \A k \in 1 .. n : h.nameIndex[h.q[k].name] = k
      /\ \A x \in Hosts : h.nameIndex[x] # 0 =>
            h.nameIndex[x] \in 1 .. n /\ h.q[h.nameIndex[x]].name = x
  BY <1>0 DEF Indexed
<1>3. /\ e = [q |-> e.q, nameIndex |-> e.nameIndex] /\ e.q = Append(h.q, c)
      /\ e.nameIndex = [h.nameIndex EXCEPT ![m] = n + 1]
  OBVIOUS
<1>4. c \in Entry /\ c.name = m /\ c.val = 0
  BY DEF Entry
<1>5. g = Heap!Up(e, Len(e.q))
  BY DEF Heap!Add
<1> HIDE DEF e, c
<1>6. /\ e.q \in Seq(Entry) /\ Len(e.q) = n + 1
      /\ e.q[n + 1] = c /\ \A k \in 1 .. n : e.q[k] = h.q[k]
  BY <1>1, <1>3, <1>4
<1>7. /\ e.nameIndex \in [Hosts -> Nat] /\ e.nameIndex[m] = n + 1
      /\ \A x \in Hosts : x # m => e.nameIndex[x] = h.nameIndex[x]
  BY <1>1, <1>3
<1>8. Indexed(e)
  <2>1. e \in [q : Seq(Entry), nameIndex : [Hosts -> Nat]]
    BY <1>3, <1>6, <1>7
  <2>2. ASSUME NEW k \in 1 .. n + 1 PROVE e.nameIndex[e.q[k].name] = k
    <3>1. CASE k = n + 1
      BY <1>4, <1>6, <1>7, <3>1
    <3>2. CASE k # n + 1
      <4>1. k \in 1 .. n
        BY <1>1, <3>2
      <4>2. h.q[k].name # m
        BY <1>1, <1>2, <4>1
      <4>3. QED
        BY <1>1, <1>2, <1>6, <1>7, <4>1, <4>2
    <3>3. QED
      BY <3>1, <3>2
  <2>3. ASSUME NEW x \in Hosts, e.nameIndex[x] # 0
        PROVE  e.nameIndex[x] \in 1 .. n + 1 /\ e.q[e.nameIndex[x]].name = x
    <3>1. CASE x = m
      BY <1>1, <1>4, <1>6, <1>7, <3>1
    <3>2. CASE x # m
      <4>1. e.nameIndex[x] = h.nameIndex[x] /\ h.nameIndex[x] \in 1 .. n /\ h.q[h.nameIndex[x]].name = x
        BY <1>2, <1>7, <2>3, <3>2
      <4>2. QED
        BY <1>1, <1>6, <4>1
    <3>3. QED
      BY <3>1, <3>2
  <2>4. QED
    BY <1>6, <2>1, <2>2, <2>3 DEF Indexed
<1>9. NearlyInOrder(Vals(e, n + 1), n + 1, n + 1) /\ AboveChildren(Vals(e, n + 1), n + 1, n + 1)
  <2> DEFINE v == Vals(h, n)
             w == Vals(e, n + 1)
  <2>1. \A k \in 1 .. n : w[k] = v[k]
    BY <1>1, <1>6 DEF Vals
  <2>2. \A i \in 2 .. n : v[i \div 2] <= v[i]
    BY <1>0 DEF InOrder
  <2> HIDE DEF v, w
  <2>3. ASSUME NEW i \in 2 .. n + 1 PROVE i \div 2 < i /\ i \div 2 >= 1 /\ i \div 2 \in Nat /\ i \div 2 # n + 1
    BY <1>1, Parents
  <2>4. ASSUME NEW i \in 2 .. n + 1, i # n + 1 PROVE w[i \div 2] <= w[i]
    <3>1. i \in 2 .. n /\ i \in 1 .. n /\ i \div 2 \in 1 .. n
      BY <1>1, <2>3, <2>4
    <3>2. QED
      BY <2>1, <2>2, <3>1
  <2>5. NearlyInOrder(w, n + 1, n + 1) /\ AboveChildren(w, n + 1, n + 1)
    BY <2>3, <2>4 DEF NearlyInOrder, AboveChildren
  <2>6. QED
    BY <2>5 DEF w
<1>10. n + 1 \in 1 .. Len(e.q) /\ n + 1 \in 1 .. n + 1
  BY <1>1, <1>6
<1>11. Indexed(g) /\ Moved(e, g, n + 1) /\ InOrder(Vals(g, n + 1), n + 1)
  BY <1>5, <1>6, <1>8, <1>9, <1>10, UpWorks
<1>12. Len(g.q) = n + 1
  BY <1>6, <1>11 DEF Moved
<1>13. Heap!Counters(g) = Heap!Counters(e) /\ Heap!Names(g) = Heap!Names(e)
  BY <1>8, <1>11, MovedCounters
<1>14. /\ Heap!Names(h) = {x \in Hosts : h.nameIndex[x] # 0}
       /\ Heap!Names(e) = {x \in Hosts : e.nameIndex[x] # 0}
       /\ Heap!Counters(h) = [x \in Heap!Names(h) |-> h.q[h.nameIndex[x]].val]
       /\ Heap!Counters(e) = [x \in Heap!Names(e) |-> e.q[e.nameIndex[x]].val]
  BY <1>0, <1>8, CountersOf
<1>15. n + 1 # 0
  BY <1>1
<1>16. Heap!Names(e) = Heap!Names(h) \cup {m} /\ m \notin Heap!Names(h)
  BY <1>7, <1>14, <1>15
<1>17. ASSUME NEW x \in Heap!Names(h) \cup {m}
       PROVE  e.q[e.nameIndex[x]].val = IF x = m THEN 0 ELSE Heap!Counters(h)[x]
  <2>1. CASE x = m
    BY <1>4, <1>6, <1>7, <2>1
  <2>2. CASE x # m
    <3>1. x \in Heap!Names(h) /\ e.nameIndex[x] = h.nameIndex[x] /\ h.nameIndex[x] \in 1 .. n
      BY <1>2, <1>7, <1>14, <2>2
    <3>2. QED
      BY <1>6, <1>14, <2>2, <3>1
  <2>3. QED
    BY <2>1, <2>2
<1>18. Heap!Counters(e) = [x \in Heap!Names(h) \cup {m} |-> IF x = m THEN 0 ELSE Heap!Counters(h)[x]]
  BY <1>14, <1>16, <1>17
<1>19. QED
  BY <1>11, <1>12, <1>13, <1>16, <1>18 DEF HeapOK

\* Pop forgets the last counter.
LEMMA PopWorks ==
    ASSUME NEW h, Indexed(h), Len(h.q) > 0, InOrder(Vals(h, Len(h.q) - 1), Len(h.q) - 1),
           NEW m, m = h.q[Len(h.q)].name
    PROVE  /\ HeapOK(Heap!Pop(h))
           /\ Heap!Names(Heap!Pop(h)) = Heap!Names(h) \ {m} /\ m \in Heap!Names(h)
           /\ Heap!Counters(Heap!Pop(h)) = [x \in Heap!Names(h) \ {m} |-> Heap!Counters(h)[x]]
<1> DEFINE n == Len(h.q)
           g == Heap!Pop(h)
<1>1. /\ h.q \in Seq(Entry) /\ h.nameIndex \in [Hosts -> Nat] /\ n \in Nat /\ n \in 1 .. n
      /\ \A k \in 1 .. n : h.q[k] \in Entry /\ h.q[k].name \in Hosts /\ h.q[k].val \in Int
  BY HeapParts
<1>2. /\ \A k \in 1 .. n : h.nameIndex[h.q[k].name] = k
      /\ \A x \in Hosts : h.nameIndex[x] # 0 =>
            h.nameIndex[x] \in 1 .. n /\ h.q[h.nameIndex[x]].name = x
  BY DEF Indexed
<1>3. m \in Hosts /\ h.nameIndex[m] = n
  BY <1>1, <1>2
<1>4. /\ g = [q |-> g.q, nameIndex |-> g.nameIndex] /\ g.q = SubSeq(h.q, 1, n - 1)
      /\ g.nameIndex = [h.nameIndex EXCEPT ![m] = 0]
  BY DEF Heap!Pop, Heap!Front, Heap!Last
<1> HIDE DEF g
<1>5. g.q \in Seq(Entry) /\ Len(g.q) = n - 1 /\ \A k \in 1 .. n - 1 : g.q[k] = h.q[k]
  BY <1>1, <1>4
<1>6. /\ g.nameIndex \in [Hosts -> Nat] /\ g.nameIndex[m] = 0
      /\ \A x \in Hosts : x # m => g.nameIndex[x] = h.nameIndex[x]
  BY <1>1, <1>3, <1>4
<1>7. \A x \in Hosts : x # m /\ h.nameIndex[x] # 0 => h.nameIndex[x] \in 1 .. n - 1
  BY <1>1, <1>2, <1>3
<1>8. \A k \in 1 .. n - 1 : k \in 1 .. n /\ h.q[k].name # m /\ h.q[k].name \in Hosts
  BY <1>1, <1>2, <1>3
<1>9. Indexed(g)
  <2>1. g \in [q : Seq(Entry), nameIndex : [Hosts -> Nat]]
    BY <1>4, <1>5, <1>6
  <2>2. ASSUME NEW k \in 1 .. n - 1 PROVE g.nameIndex[g.q[k].name] = k
    <3>1. k \in 1 .. n /\ h.q[k].name # m /\ h.q[k].name \in Hosts /\ g.q[k] = h.q[k]
      BY <1>5, <1>8
    <3>2. QED
      BY <1>2, <1>6, <3>1
  <2>3. ASSUME NEW x \in Hosts, g.nameIndex[x] # 0
        PROVE  g.nameIndex[x] \in 1 .. n - 1 /\ g.q[g.nameIndex[x]].name = x
    <3>1. x # m /\ g.nameIndex[x] = h.nameIndex[x]
      BY <1>6, <2>3
    <3>2. h.nameIndex[x] \in 1 .. n - 1 /\ h.q[h.nameIndex[x]].name = x
      BY <1>2, <1>7, <2>3, <3>1
    <3>3. QED
      BY <1>5, <3>1, <3>2
  <2>4. QED
    BY <1>5, <2>1, <2>2, <2>3 DEF Indexed
<1>10. Vals(g, n - 1) = Vals(h, n - 1)
  BY <1>5 DEF Vals
<1>11. /\ Heap!Names(h) = {x \in Hosts : h.nameIndex[x] # 0}
       /\ Heap!Names(g) = {x \in Hosts : g.nameIndex[x] # 0}
       /\ Heap!Counters(h) = [x \in Heap!Names(h) |-> h.q[h.nameIndex[x]].val]
       /\ Heap!Counters(g) = [x \in Heap!Names(g) |-> g.q[g.nameIndex[x]].val]
  BY <1>9, CountersOf
<1>12. Heap!Names(g) = Heap!Names(h) \ {m} /\ m \in Heap!Names(h)
  BY <1>1, <1>3, <1>6, <1>11
<1>13. ASSUME NEW x \in Heap!Names(h) \ {m} PROVE g.q[g.nameIndex[x]].val = Heap!Counters(h)[x]
  <2>1. x \in Hosts /\ x # m /\ h.nameIndex[x] # 0 /\ Heap!Counters(h)[x] = h.q[h.nameIndex[x]].val
    BY <1>11
  <2>2. g.nameIndex[x] = h.nameIndex[x] /\ h.nameIndex[x] \in 1 .. n - 1
    BY <1>6, <1>7, <2>1
  <2>3. QED
    BY <1>5, <2>1, <2>2
<1>14. Heap!Counters(g) = [x \in Heap!Names(h) \ {m} |-> Heap!Counters(h)[x]]
  BY <1>11, <1>12, <1>13
<1>15. QED
  BY <1>5, <1>9, <1>10, <1>12, <1>14 DEF HeapOK, g

\* Remove forgets a counter wherever it is.
LEMMA RemoveWorks ==
    ASSUME NEW h, HeapOK(h), NEW m \in Hosts, h.nameIndex[m] # 0
    PROVE  /\ HeapOK(Heap!RemoveName(h, m))
           /\ Heap!Names(Heap!RemoveName(h, m)) = Heap!Names(h) \ {m} /\ m \in Heap!Names(h)
           /\ Heap!Counters(Heap!RemoveName(h, m)) =
                [x \in Heap!Names(h) \ {m} |-> Heap!Counters(h)[x]]
<1> DEFINE i == h.nameIndex[m]
           n == Len(h.q)
<1>0. Indexed(h) /\ InOrder(Vals(h, n), n)
  BY DEF HeapOK
<1>1. i \in 1 .. n /\ h.q[i].name = m
  BY <1>0 DEF Indexed
<1>2. n \in Nat /\ n > 0 /\ n \in 1 .. n /\ i \in Nat /\ \A k \in 1 .. n : h.q[k].val \in Int
  BY <1>0, <1>1, HeapParts
<1>3. InOrder(Vals(h, n - 1), n - 1)
  <2>1. ASSUME NEW k \in 2 .. n - 1 PROVE Vals(h, n - 1)[k \div 2] <= Vals(h, n - 1)[k]
    <3>1. k \in 2 .. n /\ k \in 1 .. n - 1 /\ k \div 2 \in 1 .. n - 1 /\ k \in 1 .. n /\ k \div 2 \in 1 .. n
      BY <1>2, Parents
    <3>2. Vals(h, n)[k \div 2] <= Vals(h, n)[k]
      BY <1>0, <3>1 DEF InOrder
    <3>3. QED
      BY <3>1, <3>2 DEF Vals
  <2>2. QED
    BY <2>1 DEF InOrder
<1>4. CASE i = n
  <2>1. Heap!RemoveName(h, m) = Heap!Pop(h)
    BY <1>4 DEF Heap!RemoveName
  <2>2. m = h.q[Len(h.q)].name
    BY <1>1, <1>4
  <2>3. QED
    BY <1>0, <1>2, <1>3, <2>1, <2>2, PopWorks
<1>5. CASE i # n
  <2> DEFINE e == Heap!Swap(h, i, n)
             g == Heap!Sift(e, i, n - 1)
  <2>1. Heap!RemoveName(h, m) = Heap!Pop(g)
    BY <1>5 DEF Heap!RemoveName
  <2>2. i \in 1 .. n - 1 /\ n - 1 \in Nat /\ n - 1 \in 1 .. n /\ i <= n
    BY <1>1, <1>2, <1>5
  <2>3. /\ Indexed(e) /\ e.q[n] = h.q[i] /\ \A k \in 1 .. n : k # i /\ k # n => e.q[k] = h.q[k]
        /\ Moved(h, e, n)
    <3>1. /\ Indexed(e) /\ e.q[n] = h.q[i] /\ \A k \in 1 .. n : k # i /\ k # n => e.q[k] = h.q[k]
          /\ \A l \in Nat : i <= l /\ n <= l => Moved(h, e, l)
      <4>1. Indexed(h) /\ i \in 1 .. Len(h.q) /\ n \in 1 .. Len(h.q) /\ i # n
        BY <1>0, <1>1, <1>2, <1>5
      <4> HIDE DEF i, n
      <4>2. QED
        BY <4>1, Swapped
    <3> HIDE DEF e
    <3>2. QED
      BY <1>2, <2>2, <3>1
  <2>4. Len(e.q) = n
    BY <2>3 DEF Moved
  <2> HIDE DEF e
  <2>5. NearlyInOrder(Vals(e, n - 1), n - 1, i)
    <3>1. Vals(h, n - 1) \in [1 .. n - 1 -> Int]
      BY <1>2 DEF Vals
    <3>2. ASSUME NEW k \in 1 .. n - 1, k # i PROVE Vals(e, n - 1)[k] = Vals(h, n - 1)[k]
      <4>1. k \in 1 .. n /\ k # n
        BY <1>2
      <4>2. QED
        BY <2>3, <3>2, <4>1 DEF Vals
    <3>3. QED
      BY <1>3, <2>2, <3>1, <3>2, OrderChanged
  <2>6. Indexed(g) /\ Moved(e, g, n - 1) /\ InOrder(Vals(g, n - 1), n - 1)
    BY <2>2, <2>3, <2>4, <2>5, SiftWorks
  <2> HIDE DEF g
  <2>7. Len(g.q) = n /\ g.q[n] = e.q[n]
    BY <1>2, <2>4, <2>6 DEF Moved
  <2>8. m = g.q[Len(g.q)].name /\ Len(g.q) > 0 /\ InOrder(Vals(g, Len(g.q) - 1), Len(g.q) - 1)
    BY <1>1, <1>2, <2>3, <2>6, <2>7
  <2>9. /\ HeapOK(Heap!Pop(g))
        /\ Heap!Names(Heap!Pop(g)) = Heap!Names(g) \ {m} /\ m \in Heap!Names(g)
        /\ Heap!Counters(Heap!Pop(g)) = [x \in Heap!Names(g) \ {m} |-> Heap!Counters(g)[x]]
    BY <2>6, <2>8, PopWorks
  <2>10. Heap!Names(g) = Heap!Names(h) /\ Heap!Counters(g) = Heap!Counters(h)
    <3>1. Heap!Names(g) = Heap!Names(e) /\ Heap!Counters(g) = Heap!Counters(e)
      BY <2>3, <2>6, MovedCounters
    <3>2. Heap!Names(e) = Heap!Names(h) /\ Heap!Counters(e) = Heap!Counters(h)
      BY <1>0, <2>3, MovedCounters
    <3>3. QED
      BY <3>1, <3>2
  <2>11. QED
    BY <2>1, <2>9, <2>10
<1>6. QED
  BY <1>4, <1>5

\* Min names a counter of least value.
LEMMA MinWorks ==
    ASSUME NEW h, HeapOK(h), h.q # <<>>
    PROVE  /\ Heap!MinName(h) \in Heap!Names(h)
           /\ \A x \in Heap!Names(h) : Heap!Counters(h)[Heap!MinName(h)] <= Heap!Counters(h)[x]
<1> DEFINE n == Len(h.q)
<1>0. Indexed(h) /\ InOrder(Vals(h, n), n)
  BY DEF HeapOK
<1>1. h.q \in Seq(Entry) /\ n \in Nat /\ \A k \in 1 .. n : h.q[k].val \in Int
  BY <1>0, HeapParts
<1>2. 1 \in 1 .. n
  <2>1. n # 0
    BY <1>1, EmptySeq
  <2>2. QED
    BY <1>1, <2>1
<1>3. \A i \in 1 .. n : h.q[1].val <= h.q[i].val
  <2>1. Vals(h, n) \in [1 .. n -> Int]
    BY <1>1 DEF Vals
  <2>2. \A i \in 1 .. n : Vals(h, n)[1] <= Vals(h, n)[i]
    BY <1>0, <1>1, <2>1, RootLeast
  <2>3. QED
    BY <1>2, <2>2 DEF Vals
<1>4. /\ Heap!Names(h) = {x \in Hosts : h.nameIndex[x] # 0}
      /\ Heap!Counters(h) = [x \in Heap!Names(h) |-> h.q[h.nameIndex[x]].val]
      /\ \A i \in 1 .. n : h.q[i].name \in Heap!Names(h) /\ Heap!Counters(h)[h.q[i].name] = h.q[i].val
  BY <1>0, CountersOf
<1>5. Heap!MinName(h) = h.q[1].name
  BY DEF Heap!MinName
<1>6. \A x \in Heap!Names(h) : h.nameIndex[x] \in 1 .. n
  BY <1>0, <1>4 DEF Indexed
<1>7. Heap!MinName(h) \in Heap!Names(h) /\ Heap!Counters(h)[Heap!MinName(h)] = h.q[1].val
  BY <1>2, <1>4, <1>5
<1>8. ASSUME NEW x \in Heap!Names(h)
      PROVE  Heap!Counters(h)[Heap!MinName(h)] <= Heap!Counters(h)[x]
  <2>1. h.nameIndex[x] \in 1 .. n /\ Heap!Counters(h)[x] = h.q[h.nameIndex[x]].val
    BY <1>4, <1>6
  <2>2. h.q[1].val <= h.q[h.nameIndex[x]].val
    BY <1>3, <2>1
  <2>3. QED
    BY <1>7, <2>1, <2>2
<1>9. QED
  BY <1>7, <1>8

\* A heap is no longer than there are hosts.
LEMMA HeapLength ==
    ASSUME NEW h, Indexed(h)
    PROVE  /\ Len(h.q) <= Cardinality(Hosts) /\ Cardinality(Hosts) \in Nat
           /\ h.nameIndex \in [Hosts -> 0 .. Cardinality(Hosts)]
<1> DEFINE n == Len(h.q)
           f == [i \in 1 .. n |-> h.q[i].name]
<1>1. n \in Nat /\ h.nameIndex \in [Hosts -> Nat] /\ \A i \in 1 .. n : h.q[i].name \in Hosts
  BY HeapParts
<1>2. /\ \A i \in 1 .. n : h.nameIndex[h.q[i].name] = i
      /\ \A x \in Hosts : h.nameIndex[x] # 0 => h.nameIndex[x] \in 1 .. n
  BY DEF Indexed
<1>3. f \in Injection(1 .. n, Hosts)
  <2>1. f \in [1 .. n -> Hosts]
    BY <1>1
  <2>2. \A i, j \in 1 .. n : f[i] = f[j] => i = j
    BY <1>2
  <2>3. QED
    BY <2>1, <2>2 DEF Injection, IsInjective
<1>4. IsFiniteSet(Hosts) /\ Cardinality(Hosts) \in Nat
  BY ProxyAssumption, FS_CardinalityType
<1>5. Cardinality(1 .. n) <= Cardinality(Hosts)
  <2> HIDE DEF f
  <2>1. QED
    BY <1>3, <1>4, FS_Injection
<1>6. n <= Cardinality(Hosts)
  <2>1. Cardinality(1 .. n) = n
    BY <1>1, FS_Interval
  <2>2. QED
    BY <1>5, <2>1
<1>7. QED
  BY <1>1, <1>2, <1>4, <1>6

-----------------------------------------------------------------------------
(* The least-inflight provider *)

\* The requests a host counts.
Fresh(h) == {r \in Requests : host[r] = h /\ pc[r] = "sent" /\ r \notin stale}

\* The states of the requests.
Flying ==
    /\ policy \in Policies
    /\ pc \in [Requests -> {"new", "sent", "copying", "upgrading"}]
    /\ host \in [Requests -> Hosts \cup {DefaultHost, NoHost}]
    /\ \A r \in Requests : pc[r] = "new" <=> host[r] = NoHost
    /\ mishaps \in 0 .. MaxMishaps
    /\ stale \in SUBSET Requests /\ drift \in [Hosts -> Int]
    /\ \A r \in Requests : pc[r] = "new" => r \notin stale

\* Only the least-inflight policy counts, and it knows the host of a request
\* that is not stale.
Known ==
    /\ policy # "least_inflight" => Heap!Names(heap) = {}
    /\ policy = "least_inflight" =>
          \A r \in Requests : host[r] \in Hosts /\ pc[r] = "sent" /\ r \notin stale => host[r] \in Heap!Names(heap)

\* CountsExact, of the counters the heap stands for.
Exact ==
    /\ \A m \in Heap!Names(heap) : Heap!Counters(heap)[m] = Cardinality(Fresh(m)) + drift[m]
    /\ \A m \in Hosts \ Heap!Names(heap) : drift[m] = 0

LeastInv == Flying /\ HeapOK(heap) /\ Known /\ Exact

\* The sets of requests have a size.
LEMMA FreshFinite == \A m : IsFiniteSet(Fresh(m)) /\ Cardinality(Fresh(m)) \in Nat
<1>1. ASSUME NEW m PROVE IsFiniteSet(Fresh(m)) /\ Cardinality(Fresh(m)) \in Nat
  <2>1. Fresh(m) \subseteq Requests
    BY DEF Fresh
  <2>2. IsFiniteSet(Fresh(m))
    BY <2>1, ProxyAssumption, FS_Subset
  <2>3. QED
    BY <2>2, FS_CardinalityType
<1>2. QED
  BY <1>1

\* What is known of the names and the counters of a heap.
LEMMA NamesOf ==
    ASSUME NEW h, HeapOK(h)
    PROVE  /\ Heap!Names(h) \subseteq Hosts
           /\ \A m \in Hosts : m \in Heap!Names(h) <=> h.nameIndex[m] # 0
           /\ DOMAIN Heap!Counters(h) = Heap!Names(h)
           /\ Heap!Counters(h) \in [Heap!Names(h) -> Int]
<1>1. Indexed(h)
  BY DEF HeapOK
<1>2. QED
  BY <1>1, CountersOf

\* A counter that is changed is another heap.
LEMMA CountedDown ==
    ASSUME NEW h, HeapOK(h), NEW m \in Heap!Names(h)
    PROVE  /\ HeapOK(Heap!Dec(h, m)) /\ Heap!Dec(h, m) # h
           /\ Heap!Names(Heap!Dec(h, m)) = Heap!Names(h)
           /\ Heap!Counters(Heap!Dec(h, m)) = [Heap!Counters(h) EXCEPT ![m] = @ - 1]
<1>1. m \in Hosts /\ h.nameIndex[m] # 0 /\ Heap!Counters(h) \in [Heap!Names(h) -> Int]
  BY NamesOf
<1>2. Heap!Dec(h, m) = Heap!Change(h, m, -1)
  BY <1>1 DEF Heap!Dec
<1>3. /\ HeapOK(Heap!Dec(h, m))
      /\ Heap!Counters(Heap!Dec(h, m)) = [Heap!Counters(h) EXCEPT ![m] = @ + (-1)]
  BY <1>1, <1>2, ChangeWorks
<1>4. Heap!Counters(Heap!Dec(h, m)) = [Heap!Counters(h) EXCEPT ![m] = @ - 1]
  BY <1>1, <1>3
<1>5. Heap!Names(Heap!Dec(h, m)) = Heap!Names(h)
  <2>1. DOMAIN Heap!Counters(Heap!Dec(h, m)) = Heap!Names(Heap!Dec(h, m))
    BY <1>3, NamesOf
  <2>2. QED
    BY <1>1, <1>4, <2>1
<1>6. Heap!Dec(h, m) # h
  <2>1. Heap!Counters(Heap!Dec(h, m))[m] # Heap!Counters(h)[m]
    BY <1>1, <1>4
  <2>2. QED
    BY <2>1
<1>7. QED
  BY <1>3, <1>4, <1>5, <1>6

\* EndHost counts a host down when it is known, and does nothing otherwise; a
\* host that is known drifts when it misses the end of a request it counted, or
\* has one of another.
LEMMA EndHostWorks ==
    ASSUME LeastInv, NEW m, NEW counted, EndHost(m, counted)
    PROVE  /\ \/ m \notin Heap!Names(heap) /\ UNCHANGED heap
              \/ /\ policy = "least_inflight" /\ m \in Heap!Names(heap)
                 /\ HeapOK(heap') /\ Heap!Names(heap') = Heap!Names(heap)
                 /\ Heap!Counters(heap') = [Heap!Counters(heap) EXCEPT ![m] = @ - 1]
           /\ drift' \in [Hosts -> Int]
           /\ \A g \in Heap!Names(heap) :
                 drift'[g] = drift[g] + (IF g \in counted /\ g # m THEN 1 ELSE 0)
                                      - (IF g = m /\ g \notin counted THEN 1 ELSE 0)
           /\ \A g \in Hosts \ Heap!Names(heap) : g \notin counted => drift'[g] = drift[g]
<1>0. HeapOK(heap) /\ Known /\ drift \in [Hosts -> Int]
  BY DEF LeastInv, Flying
<1>1. /\ Heap!Names(heap) \subseteq Hosts
      /\ \A x \in Hosts : x \in Heap!Names(heap) <=> heap.nameIndex[x] # 0
  BY <1>0, NamesOf
<1>2. /\ drift' \in [Hosts -> Int]
      /\ \A g \in Heap!Names(heap) :
            drift'[g] = drift[g] + (IF g \in counted /\ g # m THEN 1 ELSE 0)
                                 - (IF g = m /\ g \notin counted THEN 1 ELSE 0)
      /\ \A g \in Hosts \ Heap!Names(heap) : g \notin counted => drift'[g] = drift[g]
  <2> DEFINE Missed(g) == IF g \in counted /\ g # m THEN 1 ELSE 0
             Surplus(g) == IF g = m /\ g \notin counted /\ heap.nameIndex[g] # 0 THEN 1 ELSE 0
  <2>1. drift' = [g \in Hosts |-> drift[g] + Missed(g) - Surplus(g)]
    BY DEF EndHost
  <2>2. \A g \in Hosts : Missed(g) \in Int /\ Surplus(g) \in Int /\ drift[g] \in Int
    BY <1>0
  <2>3. \A g \in Heap!Names(heap) : Surplus(g) = IF g = m /\ g \notin counted THEN 1 ELSE 0
    BY <1>1
  <2>4. drift' \in [Hosts -> Int]
    <3> HIDE DEF Missed, Surplus
    <3>1. QED
      BY <2>1, <2>2
  <2>5. ASSUME NEW g \in Heap!Names(heap)
        PROVE  drift'[g] = drift[g] + (IF g \in counted /\ g # m THEN 1 ELSE 0)
                                    - (IF g = m /\ g \notin counted THEN 1 ELSE 0)
    <3>1. g \in Hosts
      BY <1>1
    <3>2. drift'[g] = drift[g] + Missed(g) - Surplus(g)
      BY <2>1, <3>1
    <3>3. QED
      BY <2>3, <3>2
  <2>6. ASSUME NEW g \in Hosts \ Heap!Names(heap), g \notin counted PROVE drift'[g] = drift[g]
    <3>1. drift'[g] = drift[g] + Missed(g) - Surplus(g)
      BY <2>1
    <3>2. Missed(g) = 0 /\ Surplus(g) = 0 /\ drift[g] \in Int
      BY <1>0, <1>1, <2>6
    <3> HIDE DEF Missed, Surplus
    <3>3. QED
      BY <3>1, <3>2
  <2>7. QED
    BY <2>4, <2>5, <2>6
<1>3. CASE m \in Heap!Names(heap)
  <2>1. policy = "least_inflight" /\ m \in Hosts
    BY <1>0, <1>1, <1>3 DEF Known
  <2>2. heap' = Heap!Dec(heap, m)
    BY <2>1 DEF EndHost
  <2>3. /\ HeapOK(heap') /\ Heap!Names(heap') = Heap!Names(heap)
        /\ Heap!Counters(heap') = [Heap!Counters(heap) EXCEPT ![m] = @ - 1]
    BY <1>0, <1>3, <2>2, CountedDown
  <2>4. QED
    BY <1>2, <1>3, <2>1, <2>3
<1>4. CASE m \notin Heap!Names(heap)
  <2>1. heap' = heap
    <3>1. CASE policy = "least_inflight" /\ m \in Hosts
      <4>1. heap.nameIndex[m] = 0
        BY <1>1, <1>4, <3>1
      <4>2. QED
        BY <3>1, <4>1 DEF EndHost, Heap!Dec
    <3>2. QED
      BY <3>1 DEF EndHost
  <2>2. QED
    BY <1>2, <1>4, <2>1
<1>5. QED
  BY <1>3, <1>4

\* The hosts that counted a request that is in flight.
LEMMA CountedFresh ==
    ASSUME LeastInv, NEW r \in Requests, pc[r] = "sent"
    PROVE  /\ \A x \in Heap!Names(heap) : x \in CountedOn(r) <=> r \in Fresh(x)
           /\ \A x \in Hosts : x \in CountedOn(r) => x \in Heap!Names(heap)
<1>1. \A x \in Heap!Names(heap) : policy = "least_inflight"
  BY DEF LeastInv, Known
<1>2. \A x \in Heap!Names(heap) : x \in CountedOn(r) <=> r \in Fresh(x)
  BY <1>1 DEF CountedOn, Fresh
<1>3. \A x \in Hosts : x \in CountedOn(r) => x \in Heap!Names(heap)
  BY DEF LeastInv, Known, CountedOn
<1>4. QED
  BY <1>2, <1>3

\* When the end of request r is reported for host m, the counters and the
\* drifts go on agreeing with the requests in flight.
LEMMA ExactEnd ==
    ASSUME LeastInv, NEW r \in Requests, NEW m, NEW counted, EndHost(m, counted),
           \A x \in Heap!Names(heap) : x \in counted <=> r \in Fresh(x),
           \A x \in Hosts : x \in counted => x \in Heap!Names(heap),
           \A x \in Hosts : Fresh(x)' = Fresh(x) \ {r}
    PROVE  /\ HeapOK(heap') /\ Heap!Names(heap') = Heap!Names(heap)
           /\ drift' \in [Hosts -> Int] /\ Exact'
<1> DEFINE c == Heap!Counters(heap)
<1>0. HeapOK(heap) /\ Exact /\ drift \in [Hosts -> Int]
  BY DEF LeastInv, Flying
<1>1. Heap!Names(heap) \subseteq Hosts /\ c \in [Heap!Names(heap) -> Int]
  BY <1>0, NamesOf
<1>2. /\ HeapOK(heap') /\ Heap!Names(heap') = Heap!Names(heap) /\ drift' \in [Hosts -> Int]
      /\ \A x \in Heap!Names(heap) : Heap!Counters(heap')[x] = IF x = m THEN c[x] - 1 ELSE c[x]
  <2>1. CASE m \notin Heap!Names(heap) /\ UNCHANGED heap
    BY <1>0, <2>1, EndHostWorks
  <2>2. CASE /\ HeapOK(heap') /\ Heap!Names(heap') = Heap!Names(heap) /\ m \in Heap!Names(heap)
             /\ Heap!Counters(heap') = [c EXCEPT ![m] = @ - 1]
    <3>1. drift' \in [Hosts -> Int]
      BY EndHostWorks
    <3>2. \A x \in Heap!Names(heap) : Heap!Counters(heap')[x] = IF x = m THEN c[x] - 1 ELSE c[x]
      <4> HIDE DEF c
      <4>1. QED
        BY <1>1, <2>2
    <3>3. QED
      BY <2>2, <3>1, <3>2
  <2>3. QED
    BY <2>1, <2>2, EndHostWorks
<1>3. ASSUME NEW x \in Heap!Names(heap)
      PROVE  Heap!Counters(heap')[x] = Cardinality(Fresh(x)') + drift'[x]
  <2>1. /\ x \in Hosts /\ c[x] \in Int /\ Cardinality(Fresh(x)) \in Nat /\ drift[x] \in Int
        /\ c[x] = Cardinality(Fresh(x)) + drift[x]
    BY <1>0, <1>1, FreshFinite DEF Exact
  <2>2. Cardinality(Fresh(x)') = IF x \in counted THEN Cardinality(Fresh(x)) - 1 ELSE Cardinality(Fresh(x))
    <3>1. Fresh(x)' = Fresh(x) \ {r}
      BY <2>1
    <3>2. CASE r \in Fresh(x)
      BY <3>1, <3>2, FreshFinite, FS_RemoveElement
    <3>3. CASE r \notin Fresh(x)
      BY <3>1, <3>3
    <3>4. QED
      BY <3>2, <3>3
  <2>3. drift'[x] = drift[x] + (IF x \in counted /\ x # m THEN 1 ELSE 0)
                             - (IF x = m /\ x \notin counted THEN 1 ELSE 0)
    BY EndHostWorks
  <2>4. Heap!Counters(heap')[x] = IF x = m THEN c[x] - 1 ELSE c[x]
    BY <1>2
  <2> HIDE DEF c
  <2>5. QED
    BY <2>1, <2>2, <2>3, <2>4
<1>4. \A x \in Hosts \ Heap!Names(heap) : drift'[x] = 0
  BY <1>0, EndHostWorks DEF Exact
<1>5. Exact'
  BY <1>2, <1>3, <1>4 DEF Exact
<1>6. QED
  BY <1>2, <1>5

\* The invariant holds before a request arrives.
LEMMA LeastInit == ProxyInit => LeastInv
<1> SUFFICES ASSUME Init PROVE LeastInv
  BY DEF ProxyInit
<1>1. heap.q = <<>> /\ heap.nameIndex = [n \in Hosts |-> 0] /\ heap = Heap!Empty(Hosts)
  BY DEF Init, Heap!Empty
<1>2. HeapOK(heap)
  <2>1. heap \in [q : Seq(Entry), nameIndex : [Hosts -> Nat]]
    BY <1>1 DEF Heap!Empty
  <2>2. Len(heap.q) = 0
    BY <1>1
  <2>3. Indexed(heap)
    BY <1>1, <2>1, <2>2 DEF Indexed
  <2>4. InOrder(Vals(heap, Len(heap.q)), Len(heap.q))
    BY <2>2 DEF InOrder
  <2>5. QED
    BY <2>3, <2>4 DEF HeapOK
<1>3. Heap!Names(heap) = {}
  BY <1>1 DEF Heap!Names
<1>4. Flying
  <2>1. mishaps \in 0 .. MaxMishaps /\ policy \in Policies
    <3>1. MaxMishaps \in Nat
      BY ProxyAssumption
    <3>2. mishaps = 0 /\ policy \in Policies
      BY DEF Init
    <3>3. QED
      BY <3>1, <3>2
  <2>2. pc = [r \in Requests |-> "new"] /\ host = [r \in Requests |-> NoHost] /\ stale = {} /\ drift = [h \in Hosts |-> 0]
    BY DEF Init
  <2>3. \A r \in Requests : pc[r] = "new" /\ host[r] = NoHost /\ r \notin stale
    BY <2>2
  <2>4. QED
    BY <2>1, <2>2, <2>3 DEF Flying
<1>5. Known /\ Exact
  BY <1>3 DEF Known, Exact, Init
<1>6. QED
  BY <1>2, <1>4, <1>5 DEF LeastInv

\* A host appears with a counter at zero and no request it counts.
LEMMA AddedKeeps ==
    ASSUME LeastInv, NEW h \in Hosts, InstanceAdded(h)
    PROVE  LeastInv'
<1>0. HeapOK(heap) /\ Exact /\ Known /\ Flying
  BY DEF LeastInv
<1>1. Flying'
  BY <1>0 DEF InstanceAdded, Flying
<1>2. \A m : Fresh(m)' = Fresh(m)
  BY DEF InstanceAdded, Fresh
<1>3. CASE UNCHANGED heap
  <2>1. Known'
    BY <1>0, <1>3 DEF InstanceAdded, Known
  <2>2. Exact'
    BY <1>0, <1>2, <1>3 DEF InstanceAdded, Exact
  <2>3. QED
    BY <1>0, <1>1, <1>3, <2>1, <2>2 DEF LeastInv
<1>4. CASE policy = "least_inflight" /\ heap' = Heap!Add(heap, h) /\ heap' # heap
  <2>1. heap.nameIndex[h] = 0
    BY <1>4 DEF Heap!Add
  <2>2. /\ HeapOK(heap') /\ Heap!Names(heap') = Heap!Names(heap) \cup {h} /\ h \notin Heap!Names(heap)
        /\ Heap!Counters(heap') =
             [x \in Heap!Names(heap) \cup {h} |-> IF x = h THEN 0 ELSE Heap!Counters(heap)[x]]
    BY <1>0, <1>4, <2>1, AddWorks
  <2>3. Known'
    BY <1>0, <1>4, <2>2 DEF InstanceAdded, Known
  <2>4. Fresh(h) = {}
    BY <1>0, <1>4, <2>2 DEF Known, Fresh
  <2>5. ASSUME NEW m \in Heap!Names(heap')
        PROVE  Heap!Counters(heap')[m] = Cardinality(Fresh(m)') + drift'[m]
    <3>1. CASE m = h
      <4>1. Heap!Counters(heap')[m] = 0 /\ Cardinality(Fresh(m)') = 0
        BY <1>2, <2>2, <2>4, <3>1, FS_EmptySet
      <4>2. drift'[m] = 0
        BY <1>0, <1>4, <2>2, <3>1 DEF InstanceAdded, Exact
      <4>3. QED
        BY <4>1, <4>2
    <3>2. CASE m # h
      <4>1. m \in Heap!Names(heap) /\ Heap!Counters(heap')[m] = Heap!Counters(heap)[m]
        BY <2>2, <3>2
      <4>2. QED
        BY <1>0, <1>2, <4>1 DEF Exact, InstanceAdded
    <3>3. QED
      BY <3>1, <3>2
  <2>6. Exact'
    <3>1. \A m \in Hosts \ Heap!Names(heap') : drift'[m] = 0
      BY <1>0, <2>2 DEF Exact, InstanceAdded
    <3>2. QED
      BY <2>5, <3>1 DEF Exact
  <2>7. QED
    BY <1>1, <2>2, <2>3, <2>6 DEF LeastInv
<1>5. QED
  BY <1>3, <1>4 DEF InstanceAdded

\* The requests of a host that disappears are stale.
LEMMA RemovedKeeps ==
    ASSUME LeastInv, NEW h \in Hosts, InstanceRemoved(h)
    PROVE  LeastInv'
<1>0. HeapOK(heap) /\ Exact /\ Known /\ Flying
  BY DEF LeastInv
<1>1. CASE policy # "least_inflight"
  <2>1. UNCHANGED <<policy, heap, pc, host, mishaps, stale, drift>>
    BY <1>1 DEF InstanceRemoved
  <2>2. QED
    BY <1>0, <2>1 DEF LeastInv, Flying, Known, Exact, Fresh
<1>2. CASE policy = "least_inflight"
  <2>1. /\ heap' = Heap!RemoveName(heap, h)
        /\ stale' = stale \cup {r \in Requests : host[r] = h}
        /\ drift' = [drift EXCEPT ![h] = 0] /\ UNCHANGED <<policy, pc, host, mishaps>>
    BY <1>2 DEF InstanceRemoved
  <2>2. /\ HeapOK(heap') /\ Heap!Names(heap') = Heap!Names(heap) \ {h}
        /\ Heap!Counters(heap') = [x \in Heap!Names(heap) \ {h} |-> Heap!Counters(heap)[x]]
    <3>1. CASE heap.nameIndex[h] = 0
      <4>1. heap' = heap
        BY <2>1, <3>1 DEF Heap!RemoveName
      <4>2. h \notin Heap!Names(heap) /\ Heap!Counters(heap) \in [Heap!Names(heap) -> Int]
        BY <1>0, <3>1, NamesOf
      <4>3. QED
        BY <1>0, <4>1, <4>2
    <3>2. CASE heap.nameIndex[h] # 0
      BY <1>0, <2>1, <3>2, RemoveWorks
    <3>3. QED
      BY <3>1, <3>2
  <2>3. \A r \in Requests : host[r] = h => pc[r] # "new"
    BY <1>0, ProxyAssumption DEF Flying
  <2>4. Flying'
    BY <1>0, <2>1, <2>3 DEF Flying
  <2>5. Known'
    BY <1>0, <1>2, <2>1, <2>2 DEF Known
  <2>6. ASSUME NEW m, m # h PROVE Fresh(m)' = Fresh(m)
    BY <2>1, <2>6 DEF Fresh
  <2>7. ASSUME NEW m \in Heap!Names(heap')
        PROVE  Heap!Counters(heap')[m] = Cardinality(Fresh(m)') + drift'[m]
    <3>1. m # h /\ m \in Heap!Names(heap) /\ Heap!Counters(heap')[m] = Heap!Counters(heap)[m]
      BY <2>2
    <3>2. Fresh(m)' = Fresh(m)
      BY <2>6, <3>1
    <3>3. QED
      BY <1>0, <2>1, <3>1, <3>2 DEF Exact
  <2>8. Exact'
    <3>1. \A m \in Hosts \ Heap!Names(heap') : drift'[m] = 0
      BY <1>0, <2>1, <2>2 DEF Exact, Flying
    <3>2. QED
      BY <2>7, <3>1 DEF Exact
  <2>9. QED
    BY <2>2, <2>4, <2>5, <2>8 DEF LeastInv
<1>3. QED
  BY <1>1, <1>2

\* Round robin chooses one of its hosts.
LEMMA PickedHost ==
    ASSUME RoundRobinInv, NEW r \in Requests, StartRoundRobin(r), hosts # <<>>
    PROVE  \E m \in Hosts : host' = [host EXCEPT ![r] = m]
<1> DEFINE k == (count' % Len(hosts)) + 1
<1>1. count' = (count + 1) % IndexWord /\ host' = [host EXCEPT ![r] = hosts[k]]
  BY DEF StartRoundRobin, PickIndex
<1>2. count \in Nat /\ IndexWord \in Nat \ {0} /\ hosts \in Seq(Hosts)
  BY Word DEF RoundRobinInv, Counters
<1>3. count' \in Nat
  <2>1. count + 1 \in Nat
    BY <1>2
  <2>2. (count + 1) % IndexWord \in 0 .. IndexWord - 1
    BY <1>2, <2>1, ModSucc
  <2>3. QED
    BY <1>1, <2>2
<1>4. Len(hosts) \in Nat \ {0}
  BY <1>2
<1>5. k \in 1 .. Len(hosts)
  <2>1. count' % Len(hosts) \in 0 .. Len(hosts) - 1
    BY <1>3, <1>4, ModSucc
  <2>2. QED
    BY <1>4, <2>1
<1> HIDE DEF k
<1>6. hosts[k] \in Hosts
  BY <1>2, <1>5
<1>7. QED
  BY <1>1, <1>6

\* What a step of Director does: a least counted host is counted up, or nothing
\* is counted and, for least inflight, the default host is taken.
LEMMA DirectorWorks ==
    ASSUME LeastInv, RoundRobinInv, NEW r \in Requests, Director(r)
    PROVE  \E m \in Hosts \cup {DefaultHost} :
              /\ host' = [host EXCEPT ![r] = m] /\ pc' = [pc EXCEPT ![r] = "sent"]
              /\ UNCHANGED <<policy, mishaps, stale, drift>>
              /\ \/ /\ Heap!Names(heap) = {} /\ UNCHANGED heap
                    /\ policy = "least_inflight" => m = DefaultHost
                 \/ /\ policy = "least_inflight" /\ m \in Heap!Names(heap)
                    /\ \A x \in Heap!Names(heap) : Heap!Counters(heap)[m] <= Heap!Counters(heap)[x]
                    /\ HeapOK(heap') /\ Heap!Names(heap') = Heap!Names(heap)
                    /\ Heap!Counters(heap') = [Heap!Counters(heap) EXCEPT ![m] = @ + 1]
<1>0. HeapOK(heap) /\ Known
  BY DEF LeastInv
<1>1. pc' = [pc EXCEPT ![r] = "sent"] /\ UNCHANGED <<policy, mishaps, stale, drift>>
  BY DEF Director
<1>2. CASE StartLeastInflight(r) /\ heap.q # <<>>
  <2> DEFINE m == Heap!MinName(heap)
  <2>1. policy = "least_inflight" /\ host' = [host EXCEPT ![r] = m] /\ heap' = Heap!Change(heap, m, 1)
    BY <1>2 DEF StartLeastInflight, Heap!Inc
  <2>2. m \in Heap!Names(heap) /\ \A x \in Heap!Names(heap) : Heap!Counters(heap)[m] <= Heap!Counters(heap)[x]
    BY <1>0, <1>2, MinWorks
  <2> HIDE DEF m
  <2>3. m \in Hosts /\ heap.nameIndex[m] # 0 /\ DOMAIN Heap!Counters(heap) = Heap!Names(heap)
    BY <1>0, <2>2, NamesOf
  <2>4. HeapOK(heap') /\ Heap!Counters(heap') = [Heap!Counters(heap) EXCEPT ![m] = @ + 1]
    BY <1>0, <2>1, <2>3, ChangeWorks
  <2>5. DOMAIN Heap!Counters(heap') = Heap!Names(heap')
    BY <2>4, NamesOf
  <2>6. Heap!Names(heap') = Heap!Names(heap)
    BY <2>3, <2>4, <2>5
  <2>7. QED
    BY <1>1, <2>1, <2>2, <2>3, <2>4, <2>6
<1>3. CASE StartLeastInflight(r) /\ heap.q = <<>>
  <2>1. host' = [host EXCEPT ![r] = DefaultHost] /\ UNCHANGED heap
    BY <1>3 DEF StartLeastInflight
  <2>2. Heap!Names(heap) = {}
    BY <1>3 DEF Heap!Names
  <2>3. QED
    BY <1>1, <2>1, <2>2
<1>4. CASE StartRoundRobin(r) \/ StartFixed(r)
  <2>1. policy # "least_inflight" /\ UNCHANGED heap
    BY <1>4 DEF StartRoundRobin, StartFixed, providerVars
  <2>2. Heap!Names(heap) = {}
    BY <1>0, <2>1 DEF Known
  <2>3. \E m \in Hosts \cup {DefaultHost} : host' = [host EXCEPT ![r] = m]
    <3>1. CASE StartRoundRobin(r) /\ hosts # <<>>
      BY <3>1, PickedHost
    <3>2. CASE ~ (StartRoundRobin(r) /\ hosts # <<>>)
      BY <1>4, <3>2 DEF StartRoundRobin, StartFixed
    <3>3. QED
      BY <3>1, <3>2
  <2>4. QED
    BY <1>1, <2>1, <2>2, <2>3
<1>5. QED
  BY <1>2, <1>3, <1>4 DEF Director

\* A request that starts is counted where it was sent.
LEMMA DirectorKeeps ==
    ASSUME LeastInv, RoundRobinInv, NEW r \in Requests, Director(r)
    PROVE  LeastInv'
<1>0. HeapOK(heap) /\ Exact /\ Known /\ Flying /\ pc[r] = "new"
  BY DEF LeastInv, Director
<1>1. PICK m \in Hosts \cup {DefaultHost} :
              /\ host' = [host EXCEPT ![r] = m] /\ pc' = [pc EXCEPT ![r] = "sent"]
              /\ UNCHANGED <<policy, mishaps, stale, drift>>
              /\ \/ /\ Heap!Names(heap) = {} /\ UNCHANGED heap
                    /\ policy = "least_inflight" => m = DefaultHost
                 \/ /\ policy = "least_inflight" /\ m \in Heap!Names(heap)
                    /\ \A x \in Heap!Names(heap) : Heap!Counters(heap)[m] <= Heap!Counters(heap)[x]
                    /\ HeapOK(heap') /\ Heap!Names(heap') = Heap!Names(heap)
                    /\ Heap!Counters(heap') = [Heap!Counters(heap) EXCEPT ![m] = @ + 1]
  BY DirectorWorks
<1>2. /\ pc \in [Requests -> {"new", "sent", "copying", "upgrading"}]
      /\ host \in [Requests -> Hosts \cup {DefaultHost, NoHost}]
      /\ host[r] = NoHost /\ m # NoHost /\ NoHost \notin Hosts /\ DefaultHost \notin Hosts
  BY <1>0, ProxyAssumption DEF Flying
<1>3. /\ \A x \in Requests : x # r => host'[x] = host[x] /\ pc'[x] = pc[x]
      /\ host'[r] = m /\ pc'[r] = "sent"
  BY <1>1, <1>2
<1>4. Flying'
  <2>1. /\ pc' \in [Requests -> {"new", "sent", "copying", "upgrading"}]
        /\ host' \in [Requests -> Hosts \cup {DefaultHost, NoHost}]
    BY <1>1, <1>2
  <2>2. \A x \in Requests : pc'[x] = "new" <=> host'[x] = NoHost
    BY <1>0, <1>2, <1>3 DEF Flying
  <2>3. \A x \in Requests : pc'[x] = "new" => x \notin stale'
    BY <1>0, <1>1, <1>3 DEF Flying
  <2>4. QED
    BY <1>0, <1>1, <2>1, <2>2, <2>3 DEF Flying
<1>5. ASSUME NEW x, x # m PROVE Fresh(x)' = Fresh(x)
  BY <1>0, <1>1, <1>3, <1>5 DEF Fresh
<1>6. CASE Heap!Names(heap) = {} /\ UNCHANGED heap /\ (policy = "least_inflight" => m = DefaultHost)
  <2>1. Exact'
    BY <1>0, <1>1, <1>6 DEF Exact
  <2>2. Known'
    BY <1>0, <1>1, <1>2, <1>3, <1>6 DEF Known
  <2>3. QED
    BY <1>0, <1>4, <1>6, <2>1, <2>2 DEF LeastInv
<1>7. CASE /\ policy = "least_inflight" /\ m \in Heap!Names(heap)
           /\ HeapOK(heap') /\ Heap!Names(heap') = Heap!Names(heap)
           /\ Heap!Counters(heap') = [Heap!Counters(heap) EXCEPT ![m] = @ + 1]
  <2>1. Known'
    BY <1>0, <1>1, <1>3, <1>7 DEF Known
  <2>2. Cardinality(Fresh(m)') = Cardinality(Fresh(m)) + 1
    <3>1. r \notin stale /\ r \notin Fresh(m)
      BY <1>0 DEF Flying, Fresh
    <3>2. Fresh(m)' = Fresh(m) \cup {r}
      BY <1>1, <1>3, <3>1 DEF Fresh
    <3>3. QED
      BY <3>1, <3>2, FreshFinite, FS_AddElement
  <2>3. ASSUME NEW x \in Heap!Names(heap)
        PROVE  Heap!Counters(heap')[x] = Cardinality(Fresh(x)') + drift'[x]
    <3>0. /\ Heap!Counters(heap) \in [Heap!Names(heap) -> Int] /\ Heap!Counters(heap)[x] \in Int
          /\ Cardinality(Fresh(x)) \in Nat /\ drift[x] \in Int /\ drift' = drift
      BY <1>0, <1>1, NamesOf, FreshFinite DEF Flying
    <3>1. Heap!Counters(heap)[x] = Cardinality(Fresh(x)) + drift[x]
      BY <1>0 DEF Exact
    <3>2. CASE x = m
      <4>1. Heap!Counters(heap')[x] = Heap!Counters(heap)[x] + 1
        BY <1>7, <3>0, <3>2
      <4>2. Cardinality(Fresh(x)') = Cardinality(Fresh(x)) + 1
        BY <2>2, <3>2
      <4>3. QED
        BY <3>0, <3>1, <4>1, <4>2
    <3>3. CASE x # m
      <4>1. Heap!Counters(heap')[x] = Heap!Counters(heap)[x]
        BY <1>7, <3>0, <3>3
      <4>2. Fresh(x)' = Fresh(x)
        BY <1>5, <3>3
      <4>3. QED
        BY <3>0, <3>1, <4>1, <4>2
    <3>4. QED
      BY <3>2, <3>3
  <2>4. Exact'
    BY <1>0, <1>1, <1>7, <2>3 DEF Exact
  <2>5. QED
    BY <1>4, <1>7, <2>1, <2>4 DEF LeastInv
<1>8. QED
  BY <1>1, <1>6, <1>7

\* A request that leaves "sent", or was not there, is not counted any more.
LEMMA LeftFresh ==
    ASSUME LeastInv, NEW r \in Requests, pc'[r] # "sent",
           \A x \in Requests : x # r => pc'[x] = pc[x] /\ host'[x] = host[x] /\ (x \in stale' <=> x \in stale)
    PROVE  /\ \A m : Fresh(m)' = Fresh(m) \ {r}
           /\ Heap!Names(heap') = Heap!Names(heap) /\ policy' = policy => Known'
<1>1. \A m : Fresh(m)' = Fresh(m) \ {r}
  BY DEF Fresh
<1>2. ASSUME Heap!Names(heap') = Heap!Names(heap), policy' = policy PROVE Known'
  BY <1>2 DEF Known, LeastInv
<1>3. QED
  BY <1>1, <1>2

\* Over leaves the states of the requests in order.
LEMMA OverKeeps ==
    ASSUME Flying, NEW r \in Requests, Over(r), policy' = policy,
           mishaps' \in 0 .. MaxMishaps, drift' \in [Hosts -> Int]
    PROVE  /\ Flying' /\ pc'[r] # "sent"
           /\ \A x \in Requests : x # r => pc'[x] = pc[x] /\ host'[x] = host[x] /\ (x \in stale' <=> x \in stale)
<1>1. /\ pc \in [Requests -> {"new", "sent", "copying", "upgrading"}]
      /\ host \in [Requests -> Hosts \cup {DefaultHost, NoHost}]
      /\ pc' = [pc EXCEPT ![r] = "new"] /\ host' = [host EXCEPT ![r] = NoHost] /\ stale' = stale \ {r}
  BY DEF Flying, Over
<1>2. /\ pc' \in [Requests -> {"new", "sent", "copying", "upgrading"}]
      /\ host' \in [Requests -> Hosts \cup {DefaultHost, NoHost}]
      /\ pc'[r] = "new" /\ host'[r] = NoHost
      /\ \A x \in Requests : x # r => pc'[x] = pc[x] /\ host'[x] = host[x] /\ (x \in stale' <=> x \in stale)
  BY <1>1
<1>3. \A x \in Requests : pc'[x] = "new" <=> host'[x] = NoHost
  BY <1>2 DEF Flying
<1>4. \A x \in Requests : pc'[x] = "new" => x \notin stale'
  BY <1>1, <1>2 DEF Flying
<1>5. Flying'
  BY <1>1, <1>2, <1>3, <1>4 DEF Flying
<1>6. QED
  BY <1>2, <1>5

\* Each step of a request after Director keeps the counters exact.
LEMMA RequestKeeps ==
    ASSUME LeastInv, NEW r \in Requests,
           \/ TooLarge(r) \/ RoundTripFails(r) \/ UpgradeRefused(r)
           \/ ModifyResponse(r) \/ UpgradeFails(r) \/ Copied(r)
    PROVE  LeastInv'
<1>0. HeapOK(heap) /\ Exact /\ Known /\ Flying
  BY DEF LeastInv
<1>1. ASSUME Over(r), policy' = policy, mishaps' \in 0 .. MaxMishaps, NEW m, NEW counted, EndHost(m, counted),
             \A x \in Heap!Names(heap) : x \in counted <=> r \in Fresh(x),
             \A x \in Hosts : x \in counted => x \in Heap!Names(heap)
      PROVE  LeastInv'
  <2>1. \A x \in Hosts : Fresh(x)' = Fresh(x) \ {r}
    <3>1. pc'[r] = "new" /\ pc'[r] # "sent" /\
          \A x \in Requests : x # r => pc'[x] = pc[x] /\ host'[x] = host[x] /\ (x \in stale' <=> x \in stale)
      BY <1>0, <1>1 DEF Over, Flying
    <3>2. QED
      BY <3>1, LeftFresh
  <2>2. HeapOK(heap') /\ Heap!Names(heap') = Heap!Names(heap) /\ drift' \in [Hosts -> Int] /\ Exact'
    BY <1>1, <2>1, ExactEnd
  <2>3. /\ Flying' /\ pc'[r] # "sent"
        /\ \A x \in Requests : x # r => pc'[x] = pc[x] /\ host'[x] = host[x] /\ (x \in stale' <=> x \in stale)
    BY <1>0, <1>1, <2>2, OverKeeps
  <2>4. Known'
    BY <1>1, <2>2, <2>3, LeftFresh
  <2>5. QED
    BY <2>2, <2>3, <2>4 DEF LeastInv
<1>2. ASSUME mishaps < MaxMishaps, mishaps' = mishaps + 1
      PROVE  mishaps' \in 0 .. MaxMishaps
  <2>1. MaxMishaps \in Nat
    BY ProxyAssumption
  <2>2. mishaps \in 0 .. MaxMishaps
    BY <1>0 DEF Flying
  <2>3. QED
    BY <1>2, <2>1, <2>2
<1>3. CASE TooLarge(r)
  <2>1. PICK m \in Hosts \cup {NoHost} : Written(m) /\ EndHost(m, {})
    BY <1>3 DEF TooLarge
  <2>2. pc[r] = "new" /\ UNCHANGED <<policy, pc, host, stale>>
    BY <1>3 DEF TooLarge
  <2>3. \A x : Fresh(x)' = Fresh(x) /\ r \notin Fresh(x)
    BY <2>2 DEF Fresh
  <2>4. HeapOK(heap') /\ Heap!Names(heap') = Heap!Names(heap) /\ drift' \in [Hosts -> Int] /\ Exact'
    <3>1. /\ \A x \in Heap!Names(heap) : x \in {} <=> r \in Fresh(x)
          /\ \A x \in Hosts : x \in {} => x \in Heap!Names(heap)
          /\ \A x \in Hosts : Fresh(x)' = Fresh(x) \ {r}
      BY <2>3
    <3>2. QED
      BY <2>1, <3>1, ExactEnd
  <2>5. mishaps' \in 0 .. MaxMishaps
    BY <1>0, <1>2, <2>1 DEF Written, Flying
  <2>6. Flying'
    BY <1>0, <2>2, <2>4, <2>5 DEF Flying
  <2>7. Known'
    BY <1>0, <2>2, <2>4 DEF Known
  <2>8. QED
    BY <2>4, <2>6, <2>7 DEF LeastInv
<1>4. CASE RoundTripFails(r) \/ UpgradeRefused(r)
  <2>1. /\ Over(r) /\ policy' = policy /\ pc[r] = "sent"
        /\ \E m : EndHost(m, CountedOn(r))
    BY <1>4 DEF RoundTripFails, UpgradeRefused
  <2>2. mishaps' \in 0 .. MaxMishaps
    BY <1>0, <1>2, <1>4 DEF RoundTripFails, UpgradeRefused, Flying
  <2>3. /\ \A x \in Heap!Names(heap) : x \in CountedOn(r) <=> r \in Fresh(x)
        /\ \A x \in Hosts : x \in CountedOn(r) => x \in Heap!Names(heap)
    BY <2>1, CountedFresh
  <2>4. QED
    BY <1>1, <2>1, <2>2, <2>3
<1>5. CASE UpgradeFails(r)
  <2>1. EndHost(host[r], {}) /\ Over(r) /\ policy' = policy /\ pc[r] = "upgrading"
    BY <1>5 DEF UpgradeFails
  <2>2. mishaps' \in 0 .. MaxMishaps
    BY <1>2, <1>5 DEF UpgradeFails
  <2>3. /\ \A x \in Heap!Names(heap) : x \in {} <=> r \in Fresh(x)
        /\ \A x \in Hosts : x \in {} => x \in Heap!Names(heap)
    BY <2>1 DEF Fresh
  <2>4. QED
    BY <1>1, <2>1, <2>2, <2>3
<1>6. CASE ModifyResponse(r)
  <2>1. /\ EndHost(host[r], CountedOn(r)) /\ UNCHANGED <<policy, host, mishaps, stale>> /\ pc[r] = "sent"
        /\ \E next \in {"copying", "upgrading"} : pc' = [pc EXCEPT ![r] = next]
    BY <1>6 DEF ModifyResponse, ResponseEnds
  <2>2. /\ pc' \in [Requests -> {"new", "sent", "copying", "upgrading"}]
        /\ pc'[r] # "sent" /\ pc'[r] # "new" /\ \A x \in Requests : x # r => pc'[x] = pc[x]
    BY <1>0, <2>1 DEF Flying
  <2>3. \A m : Fresh(m)' = Fresh(m) \ {r}
    BY <2>1, <2>2, LeftFresh
  <2>4. HeapOK(heap') /\ Heap!Names(heap') = Heap!Names(heap) /\ drift' \in [Hosts -> Int] /\ Exact'
    <3>1. /\ \A x \in Heap!Names(heap) : x \in CountedOn(r) <=> r \in Fresh(x)
          /\ \A x \in Hosts : x \in CountedOn(r) => x \in Heap!Names(heap)
      BY <2>1, CountedFresh
    <3>2. QED
      BY <2>1, <2>3, <3>1, ExactEnd
  <2>5. Known'
    BY <2>1, <2>2, <2>4, LeftFresh
  <2>6. Flying'
    BY <1>0, <2>1, <2>2, <2>4 DEF Flying
  <2>7. QED
    BY <2>4, <2>5, <2>6 DEF LeastInv
<1>7. CASE Copied(r)
  <2>1. /\ Over(r) /\ UNCHANGED <<policy, heap, mishaps, drift>> /\ pc[r] # "sent"
        /\ mishaps' \in 0 .. MaxMishaps /\ drift' \in [Hosts -> Int]
    BY <1>0, <1>7 DEF Copied, providerVars, Flying
  <2>2. /\ Flying' /\ pc'[r] # "sent"
        /\ \A x \in Requests : x # r => pc'[x] = pc[x] /\ host'[x] = host[x] /\ (x \in stale' <=> x \in stale)
    BY <1>0, <2>1, OverKeeps
  <2>3. Known' /\ \A m : Fresh(m)' = Fresh(m) \ {r}
    BY <2>1, <2>2, LeftFresh
  <2>4. \A m : Fresh(m)' = Fresh(m)
    BY <2>1, <2>3 DEF Fresh
  <2>5. Exact'
    BY <1>0, <2>1, <2>4 DEF Exact
  <2>6. QED
    BY <1>0, <2>1, <2>2, <2>3, <2>5 DEF LeastInv
<1>8. QED
  BY <1>3, <1>4, <1>5, <1>6, <1>7

\* Each step of the proxy keeps the heap and its counters.
LEMMA LeastNext == LeastInv /\ RoundRobinInv /\ Next => LeastInv'
BY AddedKeeps, RemovedKeeps, DirectorKeeps, RequestKeeps DEF Next

\* The heap and its counters are right in every state.
LEMMA LeastInvariant == ProxySpec => []LeastInv
<1>1. LeastInv /\ RoundRobinInv /\ [ProxyNext]_proxyVars => LeastInv'
  <2> SUFFICES ASSUME LeastInv, RoundRobinInv, [ProxyNext]_proxyVars PROVE LeastInv'
    OBVIOUS
  <2>1. CASE UNCHANGED vars
    <3>1. UNCHANGED <<policy, heap, pc, host, mishaps, stale, drift>>
      BY <2>1 DEF vars, providerVars, ghosts
    <3>2. QED
      BY <3>1 DEF LeastInv, Flying, Known, Exact, Fresh
  <2>2. CASE Next
    BY <2>2, LeastNext
  <2>3. QED
    BY <2>1, <2>2 DEF ProxyNext, proxyVars
<1>2. QED
  BY LeastInit, RoundRobinInvariant, <1>1, PTL DEF ProxySpec

\* namedMinHeap: the index finds every counter and the counters are in heap
\* order after any operations on it, for any number of hosts and requests.
THEOREM HeapInOrder == ProxySpec => []HeapConsistent
<1>1. LeastInv => HeapConsistent
  <2> SUFFICES ASSUME LeastInv PROVE HeapConsistent
    OBVIOUS
  <2> DEFINE n == Len(heap.q)
  <2>0. HeapOK(heap) /\ Indexed(heap) /\ InOrder(Vals(heap, n), n)
    BY DEF LeastInv, HeapOK
  <2>1. DOMAIN heap.q = 1 .. n /\ n \in Nat
    BY <2>0, HeapParts
  <2>2. \A m \in Hosts : heap.nameIndex[m] # 0 => m \in Heap!Names(heap)
    BY <2>0, NamesOf
  <2>3. \A i \in DOMAIN heap.q : heap.nameIndex[heap.q[i].name] = i
    BY <2>0, <2>1 DEF Indexed
  <2>4. ASSUME NEW i \in 2 .. n PROVE heap.q[i \div 2].val <= heap.q[i].val
    <3>1. i \in 1 .. n /\ i \div 2 \in 1 .. n
      BY <2>1, Parents
    <3>2. Vals(heap, n)[i \div 2] <= Vals(heap, n)[i]
      BY <2>0 DEF InOrder
    <3>3. QED
      BY <3>1, <3>2 DEF Vals
  <2>5. QED
    BY <2>2, <2>3, <2>4 DEF HeapConsistent
<1>2. QED
  BY <1>1, LeastInvariant, PTL

\* leastInflightHostProvider: a counter is the number of the host's requests in
\* flight plus the ends it missed less those it had for no request of its own,
\* however hosts come and go and requests end: once, twice, under another
\* host's name or after their host was removed.
THEOREM Counted == ProxySpec => []CountsExact
<1>1. LeastInv => CountsExact
  <2> SUFFICES ASSUME LeastInv PROVE CountsExact
    OBVIOUS
  <2>0. HeapOK(heap) /\ Indexed(heap) /\ Exact
    BY DEF LeastInv, HeapOK
  <2>1. \A m : InFlight(m) \ stale = Fresh(m)
    BY DEF InFlight, Fresh
  <2>2. ASSUME NEW i \in DOMAIN heap.q
        PROVE  heap.q[i].val = Cardinality(InFlight(heap.q[i].name) \ stale) + drift[heap.q[i].name]
    <3>1. i \in 1 .. Len(heap.q)
      BY <2>0, HeapParts
    <3>2. heap.q[i].name \in Heap!Names(heap) /\ Heap!Counters(heap)[heap.q[i].name] = heap.q[i].val
      BY <2>0, <3>1, CountersOf
    <3>3. InFlight(heap.q[i].name) \ stale = Fresh(heap.q[i].name)
      BY <2>1
    <3>4. QED
      BY <2>0, <3>2, <3>3 DEF Exact
  <2>3. QED
    BY <2>2 DEF CountsExact
<1>2. QED
  BY <1>1, LeastInvariant, PTL

\* The handler NewProxy chose and what every handler keeps have their types.
THEOREM ProxyTypes == ProxySpec => []ProxyTypeOK
<1> DEFINE Chosen == scheme \in {SchemeOf(form) : form \in Forms}
<1>1. ProxySpec => []Chosen
  <2>1. ProxyInit => Chosen
    BY DEF ProxyInit
  <2>2. Chosen /\ [ProxyNext]_proxyVars => Chosen'
    BY DEF ProxyNext, proxyVars
  <2>3. QED
    BY <2>1, <2>2, PTL DEF ProxySpec
<1>2. Chosen /\ GrpcInv /\ RoundRobinInv /\ LeastInv => ProxyTypeOK
  <2> SUFFICES ASSUME Chosen, GrpcInv, RoundRobinInv, LeastInv PROVE ProxyTypeOK
    OBVIOUS
  <2>1. Indexed(heap)
    BY DEF LeastInv, HeapOK
  <2>2. heap.q \in Seq([name : Hosts, val : Int]) /\ heap.nameIndex \in [Hosts -> 0 .. Cardinality(Hosts)]
    BY <2>1, HeapParts, HeapLength DEF Entry
  <2>3. /\ hosts \in Seq(Hosts) /\ hostsSet \in SUBSET Hosts /\ count \in 0 .. IndexWord - 1
        /\ served \in [Hosts -> Nat]
    BY DEF RoundRobinInv, Counters
  <2>4. Flying
    BY DEF LeastInv
  <2>5. TypeOK
    BY <2>2, <2>3, <2>4 DEF TypeOK, Flying
  <2>6. Grpc!TypeOK
    BY DEF GrpcInv
  <2>7. QED
    BY <2>5, <2>6 DEF ProxyTypeOK
<1>3. QED
  BY <1>1, <1>2, GrpcInvariant, RoundRobinInvariant, LeastInvariant, PTL

-----------------------------------------------------------------------------
(* The heap implements the least-inflight balancer *)

\* The hosts of the requests as the balancer sees them.
Seen == [r \in Requests |-> IF policy = "least_inflight" THEN host[r] ELSE NoHost]

\* What is seen of a request that is sent to m, or is over.
LEMMA SeenChange ==
    ASSUME LeastInv, NEW r \in Requests, NEW m, host' = [host EXCEPT ![r] = m], policy' = policy,
           policy = "least_inflight"
    PROVE  Seen' = [Seen EXCEPT ![r] = m]
<1>1. host \in [Requests -> Hosts \cup {DefaultHost, NoHost}]
  BY DEF LeastInv, Flying
<1>2. QED
  BY <1>1 DEF Seen

\* Nothing is seen of the other policies.
LEMMA SeenNothing ==
    ASSUME policy # "least_inflight", policy' = policy
    PROVE  Seen' = Seen
BY DEF Seen

\* What the balancer sees is the counters and the hosts of the requests.
LEMMA BalancerVars ==
    /\ Balancer!lvars = <<Heap!Counters(heap), Seen>>
    /\ Balancer!lvars' = <<Heap!Counters(heap'), Seen'>>
BY DEF Balancer!lvars, Seen

\* An end of a request is one the balancer allows.
LEMMA EndSeen ==
    ASSUME LeastInv, NEW r \in Requests, NEW m, NEW counted, EndHost(m, counted), policy' = policy,
           host' \in {host, [host EXCEPT ![r] = NoHost]}, policy = "least_inflight"
    PROVE  Balancer!EndFor(r, m)
<1>0. HeapOK(heap)
  BY DEF LeastInv
<1>1. DOMAIN Heap!Counters(heap) = Heap!Names(heap)
  BY <1>0, NamesOf
<1>2. Heap!Counters(heap') =
        IF m \in DOMAIN Heap!Counters(heap)
        THEN [Heap!Counters(heap) EXCEPT ![m] = @ - 1] ELSE Heap!Counters(heap)
  BY <1>1, EndHostWorks
<1>3. Seen' \in {Seen, [Seen EXCEPT ![r] = NoHost]}
  <2>1. CASE host' = host
    BY <2>1 DEF Seen
  <2>2. CASE host' = [host EXCEPT ![r] = NoHost]
    BY <2>2, SeenChange
  <2>3. QED
    BY <2>1, <2>2
<1>4. QED
  BY <1>2, <1>3 DEF Balancer!EndFor, Balancer!EndOn, Seen

\* A step of the proxy is one of the balancer's or is not seen.
LEMMA StepSeen ==
    ASSUME LeastInv, RoundRobinInv, Next
    PROVE  Balancer!LNext \/ UNCHANGED Balancer!lvars
<1> DEFINE C == Heap!Counters(heap)
<1>0. HeapOK(heap) /\ Known /\ Flying
  BY DEF LeastInv
<1>1. DOMAIN C = Heap!Names(heap) /\ C \in [Heap!Names(heap) -> Int]
  BY <1>0, NamesOf
<1>2. ASSUME UNCHANGED heap, Seen' = Seen PROVE UNCHANGED Balancer!lvars
  BY <1>2, BalancerVars
<1>3. ASSUME NEW h \in Hosts, InstanceAdded(h) PROVE Balancer!LNext \/ UNCHANGED Balancer!lvars
  <2>1. Seen' = Seen
    BY <1>3 DEF InstanceAdded, Seen
  <2>2. CASE UNCHANGED heap
    BY <1>2, <2>1, <2>2
  <2>3. CASE heap' # heap
    <3>1. heap' = Heap!Add(heap, h) /\ heap.nameIndex[h] = 0
      BY <1>3, <2>3 DEF InstanceAdded, Heap!Add
    <3>2. /\ h \notin Heap!Names(heap)
          /\ Heap!Counters(heap') = [x \in Heap!Names(heap) \cup {h} |-> IF x = h THEN 0 ELSE C[x]]
      BY <1>0, <3>1, AddWorks
    <3>3. Balancer!Appear(h)
      BY <1>1, <2>1, <3>2 DEF Balancer!Appear, Seen
    <3>4. QED
      BY <3>3 DEF Balancer!LNext
  <2>4. QED
    BY <2>2, <2>3
<1>4. ASSUME NEW h \in Hosts, InstanceRemoved(h) PROVE Balancer!LNext \/ UNCHANGED Balancer!lvars
  <2>1. Seen' = Seen
    BY <1>4 DEF InstanceRemoved, Seen
  <2>2. CASE UNCHANGED heap
    BY <1>2, <2>1, <2>2
  <2>3. CASE heap' # heap
    <3>1. heap' = Heap!RemoveName(heap, h) /\ heap.nameIndex[h] # 0
      BY <1>4, <2>3 DEF InstanceRemoved, Heap!RemoveName
    <3>2. /\ h \in Heap!Names(heap)
          /\ Heap!Counters(heap') = [x \in Heap!Names(heap) \ {h} |-> C[x]]
      BY <1>0, <3>1, RemoveWorks
    <3>3. Balancer!Disappear(h)
      BY <1>1, <2>1, <3>2 DEF Balancer!Disappear, Seen
    <3>4. QED
      BY <3>3 DEF Balancer!LNext
  <2>4. QED
    BY <2>2, <2>3
<1>5. ASSUME NEW r \in Requests, Director(r) PROVE Balancer!LNext \/ UNCHANGED Balancer!lvars
  <2>1. PICK m \in Hosts \cup {DefaultHost} :
              /\ host' = [host EXCEPT ![r] = m] /\ policy' = policy
              /\ \/ /\ Heap!Names(heap) = {} /\ UNCHANGED heap
                    /\ policy = "least_inflight" => m = DefaultHost
                 \/ /\ policy = "least_inflight" /\ m \in Heap!Names(heap)
                    /\ \A x \in Heap!Names(heap) : C[m] <= C[x]
                    /\ Heap!Counters(heap') = [C EXCEPT ![m] = @ + 1]
    BY <1>5, DirectorWorks
  <2>2. CASE policy # "least_inflight"
    <3>1. Seen' = Seen /\ UNCHANGED heap
      BY <2>1, <2>2, SeenNothing
    <3>2. QED
      BY <1>2, <3>1
  <2>3. CASE policy = "least_inflight" /\ Heap!Names(heap) = {} /\ UNCHANGED heap
    <3>1. Seen' = [Seen EXCEPT ![r] = DefaultHost]
      BY <2>1, <2>3, ProxyAssumption, SeenChange
    <3>2. Balancer!StartDefault(r)
      BY <1>1, <2>3, <3>1 DEF Balancer!StartDefault, Balancer!Started, Seen
    <3>3. QED
      BY <3>2 DEF Balancer!LNext
  <2>4. CASE /\ policy = "least_inflight" /\ m \in Heap!Names(heap)
             /\ \A x \in Heap!Names(heap) : C[m] <= C[x]
             /\ Heap!Counters(heap') = [C EXCEPT ![m] = @ + 1]
    <3>1. Seen' = [Seen EXCEPT ![r] = m]
      BY <2>1, <2>4, SeenChange
    <3>2. Balancer!StartLeast(r)
      BY <1>1, <2>4, <3>1 DEF Balancer!StartLeast, Balancer!Started, Seen
    <3>3. QED
      BY <3>2 DEF Balancer!LNext
  <2>5. QED
    BY <2>1, <2>2, <2>3, <2>4
<1>6. ASSUME NEW r \in Requests, NEW m \in Hosts \cup {DefaultHost, NoHost}, NEW counted, EndHost(m, counted),
             policy' = policy, host' \in {host, [host EXCEPT ![r] = NoHost]}
      PROVE  Balancer!LNext \/ UNCHANGED Balancer!lvars
  <2>1. CASE policy = "least_inflight"
    <3>1. Balancer!EndFor(r, m)
      BY <1>6, <2>1, EndSeen
    <3>2. QED
      BY <3>1 DEF Balancer!LNext
  <2>2. CASE policy # "least_inflight"
    <3>1. Seen' = Seen /\ UNCHANGED heap
      BY <1>6, <2>2, SeenNothing DEF EndHost
    <3>2. QED
      BY <1>2, <3>1
  <2>3. QED
    BY <2>1, <2>2
<1>7. ASSUME NEW r \in Requests,
             TooLarge(r) \/ RoundTripFails(r) \/ UpgradeRefused(r) \/ ModifyResponse(r) \/ UpgradeFails(r)
      PROVE  Balancer!LNext \/ UNCHANGED Balancer!lvars
  <2>1. policy' = policy /\ host' \in {host, [host EXCEPT ![r] = NoHost]}
    BY <1>7 DEF TooLarge, RoundTripFails, UpgradeRefused, ModifyResponse, UpgradeFails, Over
  <2>2. \E m \in Hosts \cup {DefaultHost, NoHost} : \E counted : EndHost(m, counted)
    <3>1. host[r] \in Hosts \cup {DefaultHost, NoHost}
      BY <1>0 DEF Flying
    <3>2. CASE RoundTripFails(r) \/ ModifyResponse(r) \/ UpgradeFails(r)
      BY <3>1, <3>2 DEF RoundTripFails, ModifyResponse, ResponseEnds, UpgradeFails
    <3>3. CASE TooLarge(r) \/ UpgradeRefused(r)
      BY <3>3 DEF TooLarge, UpgradeRefused
    <3>4. QED
      BY <1>7, <3>2, <3>3
  <2>3. QED
    BY <1>6, <2>1, <2>2
<1>8. ASSUME NEW r \in Requests, Copied(r) PROVE Balancer!LNext \/ UNCHANGED Balancer!lvars
  <2>1. host' = [host EXCEPT ![r] = NoHost] /\ policy' = policy /\ UNCHANGED heap
    BY <1>8 DEF Copied, Over, providerVars
  <2>2. CASE policy = "least_inflight"
    <3>1. Seen' = [Seen EXCEPT ![r] = NoHost]
      BY <2>1, <2>2, ProxyAssumption, SeenChange
    <3>2. NoHost \notin DOMAIN C
      <4>1. Heap!Names(heap) \subseteq Hosts
        BY <1>0, NamesOf
      <4>2. QED
        BY <1>1, <4>1, ProxyAssumption
    <3>3. Balancer!EndFor(r, NoHost)
      BY <2>1, <3>1, <3>2 DEF Balancer!EndFor, Balancer!EndOn, Seen
    <3>4. QED
      BY <3>3 DEF Balancer!LNext
  <2>3. CASE policy # "least_inflight"
    BY <1>2, <2>1, <2>3, SeenNothing
  <2>4. QED
    BY <2>2, <2>3
<1>9. QED
  BY <1>3, <1>4, <1>5, <1>7, <1>8 DEF Next

\* The least-inflight provider implements what it promises: a request starts on
\* a host of least count, and the counters change only as requests start and
\* end and hosts appear and disappear, whatever the heap does.
THEOREM HeapIsBalancer == ProxySpec => HeapImplements
<1>1. ProxyInit => Balancer!LInit
  <2> SUFFICES ASSUME ProxyInit PROVE Balancer!LInit
    OBVIOUS
  <2>1. LeastInv /\ heap = Heap!Empty(Hosts) /\ host = [r \in Requests |-> NoHost]
    BY LeastInit DEF ProxyInit, Init
  <2>2. Heap!Names(heap) = {}
    BY <2>1 DEF Heap!Empty, Heap!Names
  <2>3. Heap!Counters(heap) = [h \in {} |-> 0]
    <3>1. Heap!Counters(heap) \in [{} -> Int]
      BY <2>1, <2>2, NamesOf DEF LeastInv
    <3>2. QED
      BY <3>1
  <2>4. QED
    BY <2>1, <2>3 DEF Balancer!LInit
<1>2. LeastInv /\ RoundRobinInv /\ [ProxyNext]_proxyVars => [Balancer!LNext]_(Balancer!lvars)
  <2> SUFFICES ASSUME LeastInv, RoundRobinInv, [ProxyNext]_proxyVars
               PROVE  Balancer!LNext \/ UNCHANGED Balancer!lvars
    OBVIOUS
  <2>1. CASE UNCHANGED vars
    <3>1. UNCHANGED <<heap, policy, host>>
      BY <2>1 DEF vars, providerVars
    <3>2. QED
      BY <3>1, BalancerVars DEF Seen
  <2>2. CASE Next
    BY <2>2, StepSeen
  <2>3. QED
    BY <2>1, <2>2 DEF ProxyNext, proxyVars
<1>3. QED
  BY <1>1, <1>2, LeastInvariant, RoundRobinInvariant, PTL DEF ProxySpec, HeapImplements, Balancer!LSpec
=============================================================================
