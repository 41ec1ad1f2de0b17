---------------------------- MODULE HTTPOverGRPC ----------------------------
(***************************************************************************)
(* One request on its way to a backend that is reached by HTTP over gRPC   *)
(* (util/proxy/grpc.go): the route's rewriting of the path                 *)
(* (router/routes.go) or the OpenTSDB conversion (inputs), the size        *)
(* limits, the reading of the whole body, the call. The proxy keeps no     *)
(* state between requests, so one is enough.                               *)
(*                                                                         *)
(* A body is its number of bytes, of which a prefix has been read. What    *)
(* net/http (external) keeps in two places, r.URL and r.RequestURI, and    *)
(* r.Body and r.ContentLength, is two variables each: the server makes     *)
(* them agree, the handlers may not. The client may stall or its           *)
(* connection break, and the context may end, between any two steps.       *)
(***************************************************************************)
EXTENDS Integers, ErrorHandler

CONSTANTS
    Kinds,          \* "plain", "replace", "trim", "opentsdb": how the route handles requests
    MaxBody,        \* bound: bytes of a body
    MaxSizes,       \* values of Config.MaxSize to look at, 0 for no limit
    WriteLimits     \* values of MaxBytesWriteLimit to look at, 0 for no limit

VARIABLES
    maxSize, writeLimit,    \* fixed at start
    step,       \* where the handler is
    kind,       \* the kind of its route
    url,        \* r.URL: whether its path was rewritten, and its query if any
    uri,        \* r.RequestURI, likewise
    size,       \* bytes of r.Body
    length,     \* r.ContentLength, -1 for unknown
    got,        \* bytes of it read by HTTPRequest
    client,     \* the connection the client's body comes from
    ctx,        \* the request's context
    sent,       \* what was handed to the backend
    status      \* the answer, 0 for none yet: the gateway's own if step is "done",
                \* the backend's if it is "passed"

gvars == <<maxSize, writeLimit, step, kind, url, uri, size, length, got, client, ctx, sent, status>>

Nothing == [uri |-> [rewritten |-> FALSE, query |-> FALSE], body |-> -1]

URLs == [rewritten : BOOLEAN, query : BOOLEAN]

TypeOK ==
    /\ maxSize \in MaxSizes /\ writeLimit \in WriteLimits
    /\ step \in {"idle", "routing", "proxy", "reading", "calling", "waiting", "done", "passed"}
    /\ kind \in Kinds
    /\ url \in URLs /\ uri \in URLs
    /\ size \in 0 .. MaxBody /\ length \in -1 .. MaxBody /\ got \in 0 .. size
    /\ client \in {"sending", "stalled", "broken"}
    /\ ctx \in {"live", "canceled", "deadline"}
    /\ sent \in [uri : URLs, body : -1 .. MaxBody]
    /\ status \in 0 .. 599 /\ (step = "done" \/ step = "passed" <=> status # 0)

Init ==
    /\ maxSize \in MaxSizes /\ writeLimit \in WriteLimits
    /\ step = "idle" /\ kind = CHOOSE k \in Kinds : TRUE
    /\ url = Nothing.uri /\ uri = Nothing.uri
    /\ size = 0 /\ length = 0 /\ got = 0
    /\ client = "sending" /\ ctx = "live"
    /\ sent = Nothing /\ status = 0

-----------------------------------------------------------------------------
(* What surrounds the proxy *)

config == <<maxSize, writeLimit, kind>>

\* A request as net/http hands it over.
Arrive ==
    /\ step = "idle" /\ step' = "routing"
    /\ kind' \in Kinds
    /\ \E query \in BOOLEAN : url' = [rewritten |-> FALSE, query |-> query]
    /\ uri' = url'
    /\ size' \in 0 .. MaxBody /\ length' \in {-1, size'}
    /\ UNCHANGED <<maxSize, writeLimit, got, client, ctx, sent, status>>

\* The client stalls, until the server's read deadline fires, or its connection
\* breaks: it is closed or reset, or carries no well-formed body any more.
ClientFails ==
    /\ client = "sending" /\ step \notin {"idle", "done", "passed"}
    /\ client' \in {"stalled", "broken"}
    /\ UNCHANGED <<config, step, url, uri, size, length, got, ctx, sent, status>>

\* A time-out around the handler, or the client's leaving, ends the context.
ContextEnds ==
    /\ ctx = "live" /\ step \notin {"idle", "done", "passed"}
    /\ ctx' \in {"canceled", "deadline"}
    /\ UNCHANGED <<config, step, url, uri, size, length, got, client, sent, status>>

Answer(code) == step' = "done" /\ status' = code

\* ReplacePrefix: the request URI becomes the new path alone.
ReplacePrefix ==
    /\ kind = "replace"
    /\ url' = [url EXCEPT !.rewritten = TRUE]
    /\ uri' = [rewritten |-> TRUE, query |-> FALSE]

\* TrimPrefix
TrimPrefix ==
    /\ kind = "trim"
    /\ url' = [url EXCEPT !.rewritten = TRUE]
    /\ UNCHANGED uri

\* The route's own middleware, if it has one.
RouteMiddleware ==
    /\ step = "routing" /\ kind # "opentsdb"
    /\ ReplacePrefix \/ TrimPrefix \/ (kind = "plain" /\ UNCHANGED <<url, uri>>)
    /\ step' = "proxy"
    /\ UNCHANGED <<config, size, length, got, client, ctx, sent, status>>

\* updateRequest: another path and body, of any size but 0, in the request; the
\* content length stays.
UpdateRequest ==
    /\ url' = [url EXCEPT !.rewritten = TRUE]
    /\ uri' = url'
    /\ size' \in 1 .. MaxBody
    /\ UNCHANGED length

\* OpenTSDBHandler.ServeHTTP: the body is read to its end, whatever becomes of
\* the context, and answered 400 when it cannot be read, unzipped or parsed.
\* Points that are not numbers are left out of the new body.
OpenTSDB ==
    /\ step = "routing" /\ kind = "opentsdb"
    /\ \/ /\ client = "sending" /\ size > 0
          /\ UpdateRequest
          /\ step' = "proxy"
          /\ UNCHANGED status
       \/ /\ Answer(400)
          /\ UNCHANGED <<url, uri, size, length>>
    /\ UNCHANGED <<config, got, client, ctx, sent>>

-----------------------------------------------------------------------------
(* The proxy *)

\* wrapMaxBytesHandler: the declared length first, the bytes while reading.
MaxBytes ==
    /\ step = "proxy"
    /\ \/ maxSize # 0 /\ length > maxSize /\ Answer(StatusCode("too large", FALSE, FALSE))
       \/ (maxSize = 0 \/ length <= maxSize) /\ step' = "reading" /\ UNCHANGED status
    /\ UNCHANGED <<config, url, uri, size, length, got, client, ctx, sent>>

\* The limits on r.Body; newMaxBytesMiddleware is not around the OpenTSDB handler.
Limits == ({maxSize} \cup IF kind = "opentsdb" THEN {} ELSE {writeLimit}) \ {0}

\* ReadSize has the bytes it was told of; io.ReadAll has the end of the body.
HasBody == got = length \/ (length = -1 /\ got = size)

\* The connection fails, or the server closes the body, before the end of a body
\* of unknown length.
EndMissing == length = -1 /\ (client # "sending" \/ ctx # "live") /\ kind # "opentsdb"

\* The next byte arrives; the client's comes from its connection, the
\* converted body from memory.
ReadByte ==
    /\ got < size
    /\ client = "sending" \/ kind = "opentsdb"
    /\ \A limit \in Limits : got < limit
    /\ got' = got + 1
    /\ UNCHANGED <<step, status>>

\* What the client's connection makes of a read: a time-out; the end of the
\* connection, or a reset, a cancelled stream or a malformed chunk; the body that
\* the server closes when it has done with a request whose context has ended.
ConnectionErrors ==
    (CASE client = "sending" -> {}
       [] client = "stalled" -> {"net timeout"}
       [] client = "broken"  -> {"unexpected EOF", "other"})
    \cup (IF ctx # "live" THEN {"other"} ELSE {})

\* What a read returns if it fails: the limit, the end of a body that is shorter
\* than its declared length, what the connection does.
ReadErrors ==
    (IF \E limit \in Limits : got >= limit /\ got < size THEN {"too large"} ELSE {})
    \cup (IF got = size /\ length # -1 THEN {"other"} ELSE {})
    \cup (IF kind = "opentsdb" THEN {} ELSE ConnectionErrors)

\* Mutant: the end of the context is passed on as it is.
ReadErrorUnnamed(err) == err

\* readRequest: a deadline that passed while reading has its own error.
ReadError(err) == IF err = "deadline" THEN "read timeout" ELSE err

\* Mutant: the handler goes on after its error was answered.
FailReadGoesOn(err) ==
    /\ step' = "calling" /\ status' = StatusCode(ReadError(err), ctx # "live", client = "stalled")
    /\ UNCHANGED got

FailRead(err) ==
    /\ Answer(StatusCode(ReadError(err), ctx # "live", client = "stalled" /\ kind # "opentsdb"))
    /\ UNCHANGED got

\* Mutant: a body that cannot be read on is taken as it is.
ReadTakesPart ==
    /\ step = "reading"
    /\ \/ ReadByte
       \/ HasBody /\ ctx = "live" /\ step' = "calling" /\ UNCHANGED <<got, status>>
       \/ ~HasBody /\ ReadErrors # {} /\ step' = "calling" /\ UNCHANGED <<got, status>>
    /\ UNCHANGED <<config, url, uri, size, length, client, ctx, sent>>

\* HTTPRequest: ReadSize looks at the context before every read, which may end
\* while the read waits; io.ReadAll does not; both are followed by a last look.
Read ==
    /\ step = "reading"
    /\ \/ /\ ~HasBody \/ EndMissing
          /\ ReadByte \/ \E err \in ReadErrors : FailRead(err)
       \/ ~HasBody /\ length # -1 /\ ctx # "live" /\ FailRead(ctx)
       \/ HasBody /\ ctx # "live" /\ FailRead(ctx)
       \/ HasBody /\ ctx = "live" /\ step' = "calling" /\ UNCHANGED <<got, status>>
    /\ UNCHANGED <<config, url, uri, size, length, client, ctx, sent>>

CallError(err) == Answer(StatusCode(err, ctx # "live", FALSE))

ContextError == IF ctx = "deadline" THEN "grpc deadline" ELSE "grpc canceled"

\* handleDownstream: the request goes out unless the context has ended.
Handle ==
    /\ step = "calling"
    /\ \/ /\ ctx = "live"
          /\ sent' = [uri |-> uri, body |-> got]
          /\ step' = "waiting"
          /\ UNCHANGED status
       \/ ctx # "live" /\ CallError(ContextError) /\ UNCHANGED sent
    /\ UNCHANGED <<config, url, uri, size, length, got, client, ctx>>

\* Statuses of backends, among them all that the gateway answers itself.
BackendCodes == {200, 413, 429, 499, 502, 504, 598}

\* The response, by itself or inside an error, is passed on whatever its status;
\* or an error: the backend's gRPC status, the connection's, or the end of the
\* context.
HandleReturns ==
    /\ step = "waiting"
    /\ \/ step' = "passed" /\ status' \in BackendCodes
       \/ \E err \in {"grpc deadline", "grpc canceled", "other"} : CallError(err)
       \/ ctx # "live" /\ CallError(ContextError)
    /\ UNCHANGED <<config, url, uri, size, length, got, client, ctx, sent>>

Next ==
    \/ Arrive \/ ClientFails \/ ContextEnds
    \/ RouteMiddleware \/ OpenTSDB
    \/ MaxBytes \/ Read \/ Handle \/ HandleReturns

Spec == Init /\ [][Next]_gvars

-----------------------------------------------------------------------------
(* Properties *)

\* A request whose body is the client's reaches the backend with all of it or
\* not at all, whatever the client's connection, the limits and the context do
\* while it is read (ReadSize, HTTPRequest).
DeliveredWhole ==
    sent # Nothing /\ kind # "opentsdb" => sent.body = size

\* The status the gateway answers itself says whose fault it was (errorHandler):
\* 598 and 413 are for a client too slow or a body too large, and then the
\* backend never saw the request; 504, a slow backend, only after the client had
\* sent all of its body; 502 and 499 otherwise only if the client's connection
\* broke or the context ended, 499 never without one of them. Not promised, since
\* the code does otherwise: 502 only for a backend. A connection that is reset
\* while the body is read is answered 502, too.
BlameFits ==
    kind # "opentsdb" /\ step = "done" =>
        /\ status = 598 => sent = Nothing /\ (client = "stalled" \/ ctx = "deadline")
        /\ status = 413 => sent = Nothing /\ \E limit \in Limits : size > limit
        /\ status = 504 => got = size
        /\ status = 502 => got = size \/ client = "broken" \/ ctx # "live"
        /\ status = 499 => client = "broken" \/ ctx # "live"

\* The backend gets the request that the handlers before the proxy left: its
\* URL and its whole body.
DeliveredAsForwarded ==
    sent # Nothing => sent = [uri |-> url, body |-> size]
==============================================================================
