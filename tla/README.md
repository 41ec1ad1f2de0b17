# db-auth-gateway in TLA+

db-auth-gateway is a reverse proxy in front of Mimir, Loki, Tempo and Pyroscope. It authenticates a
request, replaces the client's tenant and label-policy headers with the ones granted, applies limits and
runtime overrides, and forwards the request to a backend over HTTP or gRPC. This directory holds a
TLA+ specification of each stateful part of it, the TLC models that check them on small instances, and
TLAPS proofs of every safety property the runs check, the refinement included. Line numbers below are those of `src/`.

## 1. Inventory

| Part (source) | State | Operations | What is hard | What makes it correct |
|---|---|---|---|---|
| Forward authenticator (`pkg/auth/forward.go`) | cache of grants by credential and scope, calls in flight | cache hit, call, response, time-out, expiry | two calls for one key, rulings that are old when they arrive, a service that is silent or changes its mind | a grant given is a ruling for that very question, of bounded age; denials are never remembered; calls end |
| Auth results (`pkg/auth/authenticator.go`) | none | parse and cross-check tenants and policies | partly valid answers | no policy for a tenant that is not granted |
| Trust authenticator (`pkg/auth/trust.go`) | none | the client's own X-Scope-OrgID | | as above |
| Request pipeline (`pkg/gateway/api.go`) | one request's headers, context and answer | auth, header removal, overrides, limits, time-outs, proxy | the order of the layers, time-outs beside a running handler | the backend sees the grant and nothing of the client's; every request is answered |
| Runtime overrides (`pkg/gateway/*overrides*.go`) | the configuration in force | reload, validation, Mimir and Loki middlewares | a reload between the layers of one request | each layer obeys one configuration; a blocked request is answered with an error |
| Connection limiter (`connection_limiter_middleware.go`) | age of each remote address | read the clock, look up, judge, delete, sweep | four steps, two of them locked; times noted late and out of order; reuse of addresses | old connections in use are closed, idle ones forgotten, none closed early |
| Request limiter (`request_limiter_middleware.go`) | one counter | add, compare, subtract | many requests at the limit | the limit holds and is given back |
| HTTP proxy and host providers (`pkg/util/proxy/http.go`, `dnslb/`) | indexed heap of counters, or list and counter | start and end on a host, hosts appear and disappear | hosts that come back, paths that end a request twice or another host than its own, wrapping counter | the heap stays one, every count is explained, laps are fair |
| gRPC balancer (`grpc_bounded_load_balancer.go`) | counters per address, total, pickers | connection and RPC stats, build, pick | stats in any order, unsigned counters, stale thresholds | total is the sum, counts are exact, overloaded connections are skipped |
| Mirroring (`pkg/util/proxy/mirror.go`) | segments, offset, index of each reader, buffer pool | write, read, close, finish, reclaim | one writer, several readers, two goroutines per reader | every mirror reads the body, whole and in order; buffers are reused only when nobody needs them; nobody waits for ever |
| Health checker (`pkg/gateway/healthcheck`) | last check, failures, status, gauge | tick, iterate, check, stop | slow checks hold up the iteration | status follows the checks, in time; stop works |
| Process (`libmain/main.go`, servers of `pkg/util`) | start-up step, deferred calls, goroutines, readiness | start, serve, signal, drain, stop | a failure or a signal at any moment, a side server that ends unnoticed | ready means serving; drain before close; a signal ends it |
| HTTP over gRPC (`pkg/util/proxy/grpc.go`, `error.go`) | one request's body, limits and context | check the length, read all of the body, call, answer | a client that stalls or whose connection breaks, a time-out that means one thing while reading and another while calling, limits inside limits | the backend gets the whole body or nothing; the status fits what happened |
| Client IP, X-Forwarded-For (`pkg/middleware/clientip`, `x_forwarded_for_middleware.go`) | the address in a request's context | extract by priority, set the header | a list whose beginning the client writes, more or fewer proxies than configured | the auth service is not told an address the client made up |
| Route middlewares (`pkg/router/routes.go`) and OpenTSDB input (`pkg/inputs`) | URL and request URI, body and declared length | rewrite | two copies of one thing | the backend gets the request the handler left |
| Native gRPC (`native_grpc.go`) | none | | | not modelled: configuration of a library |
| Route tables and matcher (`pkg/router`, `routes_matcher.go`) | none | | regular expressions | not modelled: constant data; `Gateway` takes one route of every class |
| Trace ids, metrics, usage text, flags | counters | | | not modelled: no decision depends on them |

How the parts interact: `Main` builds the authenticator, the API and the servers. `registerRoutes` wraps
every proxy in the layers of the pipeline, which find out the client's address, call the authenticator and
read the overrides. `NewProxy` makes each proxy by the form of its URL. A proxy asks a host provider (HTTP) or is given a connection by the balancer (gRPC), and may be wrapped by the
mirror. The health checker talks to the backends only; readiness is set by the signal handler and read
by the readiness server.

## 2. Modules

| Module | Models | Composes |
|---|---|---|
| `AuthResult` | what `NewAuthResult` accepts and builds | |
| `ForwardAuth`, `MCForwardAuth` | the forward authenticator | `AuthResult` |
| `ClientIP` | the extractors, the addresses told to the backend and the auth service | |
| `ErrorHandler` | the status of each class of error | |
| `Gateway`, `MCGateway` | the pipeline, both authenticators as results, overrides | `AuthResult`, `ClientIP`, `ErrorHandler` |
| `Limits`, `MCLimits` | the two limiters, one after the other as in `registerRoutes` | |
| `NamedMinHeap` | `namedMinHeap` over `container/heap` | |
| `LeastInflight` | abstract specification: a counter per host, start on a least one | |
| `HTTPProxy` | reverse proxy with its three host policies | `NamedMinHeap`; refines `LeastInflight` |
| `HTTPOverGRPC` | one request through a route's middleware or the OpenTSDB input to a gRPC downstream | `ErrorHandler` |
| `Proxy`, `MCProxy` | `NewProxy`: the handler a downstream gets | `HTTPProxy`, `HTTPOverGRPC` |
| `BoundedLoadBalancer`, `MCBoundedLoadBalancer` | stats handler and picker | |
| `MultiReaderBuffer` | tee, buffer and readers of one mirrored request | |
| `HealthCheck`, `MCHealthCheck` | health checker on its timer service | |
| `Lifecycle` | the process | |
| `ForwardAuthProofs`, `GatewayProofs`, `LimitsProofs`, `ProxyProofs`, `BoundedLoadBalancerProofs`, `MultiReaderBufferProofs`, `HealthCheckProofs`, `LifecycleProofs` | theorems | the module each is named after |

`PROJECT.json` maps each definition to the lines it stands for. An operator whose comment begins with
"Mutant:" is not part of the specification: it is a plausible wrong version of the operator that follows
it, and replacing that one by it makes the property named in `PROJECT.json` fail.

### ForwardAuth
A request is `idle`, `calling`, `decided` or `answered`. `Authenticate` is the code up to the HTTP call,
with a cache hit answering at once; `Decide` is the moment the service rules; `Receive` is everything
after the response arrives, including classification, `NewAuthResult` and `cache.Set`. `Fail` is a
transport error, `Expire` the client's time-out, `Janitor` the clean-up of the cache library. The service
rules differently whenever it likes. `CacheKey` is the concatenation of credential, separator and scope:
credentials contain the separator in the model as they may in the code, and the key still tells the
questions apart because scopes do not contain it.

### Gateway
One step per layer: `ExtractClientIP`, `SetForwardedFor`, `Authenticate` (with the headers it strips and sets), `RemoveSensitive`,
`MimirOverrides`, `LokiOverrides`, `Limit`, `RouteMiddleware`, `Proxy`. The answer the client has and the
layer the handler is in are separate, because `http.TimeoutHandler` answers while the handler goes on.
`Reload` puts a configuration in force that `ValidCodes` accepts, at any time. A header records who wrote
it, the client or the authenticator, which is what `BackendSeesGrant` is about. `Proxy` is also what
`httputil.ReverseProxy` does after `Director` has run: it removes the headers that the request's Connection
header lists (`Dropped`), granted ones included, from what goes to an HTTP downstream. `BackendSeesGrant` says so:
what reaches the backend under a granted name is the grant or, in that one case, nothing, and never the
client's. A deployment is a choice of
authenticator and extractors together with the proxies before the gateway; `Arriving` builds what such a
chain of proxies makes of a client's forged X-Forwarded-For and X-Real-IP. `OriginHonest` is about what
`ForwardAuthenticator` then tells the auth service. It names the two configurations that cannot be honest
(`Forgeable`: more trusted entries than the proxies write, or an X-Real-IP that no proxy sets) and the ones
that must be exact (`Exact`); in between the address is at least the client's or a proxy's.

### Limits
`ReadClock` (before the lock), `ConnectionState` (the locked section, with the time read before), `Judge` (not
locked) and `Delete` (locked) are the connection limiter's steps,
`Count` and `Return` the request limiter's. `Sweep` is the cleaner's tick, `Reconnect` a new connection
with a used remote address. `Remainder` keeps Go's sign. A request that is slow between `ReadClock` and
`ConnectionState` sets `lastSeen` back. Whether a connection stays in use is therefore told by
the times that its lookups had read (`lastStamp`, `since`), and whether it is idle by their moments
(`lastRequest`).

### HTTPProxy, NamedMinHeap, LeastInflight
`Director` starts a request on a host, `ModifyResponse` and `RoundTripFails` end it, and `UpgradeFails`
ends it once more, as `ReverseProxy` calls the error handler after a failed upgrade. The error handler ends the
host of the request it is given: in `TooLarge` and `UpgradeRefused` that is the client's own, with the host of
its target if that is absolute (`Written`), and in `UpgradeRefused` the host that was started is not ended. The loops of
`container/heap` are iterated rounds (`UpRound`, `DownRound`), as many as the loop can take; a round after the
loop's end changes nothing, and `DownWorks` and `UpWorks` prove that there are enough of them. `InstanceAdded` and
`InstanceRemoved` are DNS discovery. `stale` marks the requests whose host has left since they started, and
`drift` keeps account, for each host, of the ends it missed and of those it had for no request of its own: `CountsExact`
says that nothing else makes a count inexact. `HeapImplements` states that the provider with its heap is a step-by-step implementation of
`LeastInflight`, whose counters are a function and whose least host is any of the least ones.

### HTTPOverGRPC, Proxy
What net/http keeps twice is two variables: `url` and `uri`, `size` and `length`. `RouteMiddleware` and
`OpenTSDB` are what may come before the proxy, `MaxBytes` the check of the declared length, `Read` one round
of `ReadSize` or `io.ReadAll` with every way it can end, `Handle` and `HandleReturns` the call. `ClientFails`
and `ContextEnds` happen at any moment; a broken connection may show as the end of the body or as any other error
(`ConnectionErrors`). What the backend answers is passed on whatever its status (`BackendCodes`, step `passed`), so that
`BlameFits` is about the statuses the gateway answers itself (step `done`). `Proxy` puts it beside `HTTPProxy`, of which a downstream gets one by
its URL; the other handlers keep no state.

### BoundedLoadBalancer
`ConnBegin`, `ConnEnd`, `OutHeader`, `End` are the stats handler's events in any order the RPCs allow;
`Build`, `PickStart`, `PickTry` are the picker, one step per connection it tries. Counters are words of
`Word` values and wrap as the code's unsigned ones do.

### MultiReaderBuffer
`Start` and `Refuse` launch the mirrors before the main request is sent (`Launched`). `CopySegment` takes a buffer,
from the pool if there is one, and fills it before the lock is taken; `Write` appends it. A buffer and the segment
it holds are different things (`bytes`): a buffer that `reclaimBuffer` puts into the pool may be filled with a later
segment, or by another user of the pool (`OthersUse`), while a reader still holds it, and then the reader
delivers what it finds there. `EndOfBody`,
`AbortBody`, `RoundTripReturns` are the main request's side; `Loop`, `Fetch`, `Copy`,
`Wake`, `ReturnEOF` cut `Read` where another goroutine can step in; `CloseReader` is the transport's
`Close`; `FinishStore`, `FinishClear`, `FinishReclaim` are `finish` with `reclaimBuffer`. `lost` remembers the segments whose
buffer was recycled while a reader held them, the finding of `mirror_pool`: `ReadersSeePrefix` excuses those and nothing
else.

### HealthCheck
`Tick` is time, `Iterate` the timer service's callback with the wait for all checks, `CheckSucceeds`,
`CheckFails`, `CheckCancelled` the ends of a check, `Stop` and `Terminate` the service's stop. `Flip` is an
endpoint changing its health.

### Lifecycle
`StartStep` walks through Main's steps; `defers` is its stack of deferred stops. `LoopStarts`, `Subscribe`,
`Signalled`, `Sleep`, `LoopReturns` are the signal handler, `ServeStarts` and `ServeFails` the server;
`SideServerEnds` is the end of the metrics or the readiness server's own `Serve`, after which the gateway goes on
without it (`fallen`); `Signal` is a SIGTERM at any moment, which kills the process while `Loop` is not subscribed.

## 3. Runs

Passing runs. Every action of every module fires in them.

| Run | Checks | Bounds, and why they are enough |
|---|---|---|
| `forward_auth` | `GrantsBounded`, `GrantsWellFormed`, `DenialsFresh`, `CallsEnd` | 2 requests (replies in either order), 2 tenants, credentials and scopes over a letter and the separator, time-out 1, TTL 1, clock to 3 (an entry is made, used and expires), 2 rulings (one may revoke the other) |
| `gateway` | `BackendSeesGrant`, `OverridesObeyed`, `OriginHonest`, `Answered` | 1 request, since requests share only the configuration; Connection headers that list granted names, on HTTP and gRPC downstreams; a route of every class with the features its layers look at, 4 configurations, one of them invalid, reloaded at any time; all client headers; both authenticators; both time-outs. 16 further deployments with 0 to 2 proxies, 0 or 1 trusted, each extractor, and forged lists of 0 to 2 entries, valid or not: one too few, just enough and one too many; 4 addresses: the client's, those of two proxies and one that is made up |
| `limits` | `ServedWithinLimit`, `BusyClosed`, `IdleForgotten` | 3 requests of one connection (two inside the limit and one refused, or one deleting under another), 4 configurations, one refused; TTLs up to 2 and the clock to 4, longer than every TTL, than sweep and idle time together, and than the delay between a clock read and its lock that sets `lastSeen` back |
| `proxy` | `HeapConsistent`, `CountsExact`, `RoundRobinFair`, `HeapImplements`, `DeliveredWhole`, `BlameFits` | 5 forms of URL. gRPC: bodies of 0 to 3 bytes read byte by byte, declared or not, `MaxSize` 2 and write limit 1 or none (below, at and above either). HTTP: 4 hosts (a heap with an inner node, so that removal sifts up and down), 3 requests, a counter that wraps, 1 mishap (an upgrade that fails or is refused, or a too large request that names a host: `MaxMishaps`) |
| `bounded_lb` | `TotalIsSum`, `CountsExact`, `PickAvoidsOverload` | 2 addresses, one with 2 connections and one with 1, 2 RPCs, 2 pickers (one stale), words of 4 and 3 values, which wrap |
| `mirror_buffer` | `ReadersSeePrefix`, `EndMeansAll`, `SlotsInRange`, `ReadersProceed` | 2 readers (slow and fast, closed and open), 2 segments (one recycled or held while the other is yet to come, or is written into its buffer, or after an early reply), the second delivered in 2 parts; a pool that other requests use, too. The three invariants are proved for any number of readers and segments |
| `health_check` | `HealthFollowsChecks`, `CheckedInTime`, `ChangesFound`, `StopsAtLast` | 4 endpoints, of which `NewChecker` keeps 2, with different intervals and retries (2 and 0) and a time-out longer than a tick |
| `lifecycle` | `ReadyMeansServing`, `MetricsWhileServing`, `DrainsFirst`, `SignalEnds` | delay 2, 2 requests, optional parts on or off, each side server ending or not |

Each also checks its module's type invariant. Symmetry is used for the RPCs of `bounded_lb` and the requests
of `proxy` and `limits`, runs that check no liveness.

Runs that end in a violation, each against a sentence of the repository:

| Run | What it shows |
|---|---|
| `mirror_pool` | `Read` advances its index and releases the lock before it copies the segment; another reader's `finish` takes the segment for read and puts its buffer back into the pool (`mirror.go:241`, `:457`, `:489`). |
| `lb_reconnect` | An RPC that ends after its address was forgotten and tracked again is subtracted from the new connection's counter, which wraps (`grpc_bounded_load_balancer.go:326-331`). |
| `grpc_opentsdb` | The OpenTSDB handler replaces the body and leaves the declared length, so that the gRPC proxy forwards a part of the converted body, or refuses it (`opentsdb.go:24`, `common.go:41`, `grpc.go:283`). The same property fails for routes with `ReplacePrefix` (the query is lost from the request URI, `routes.go:83`) and `TrimPrefix` (the request URI keeps the prefix) in front of a gRPC downstream; their comments promise less, so that the run has the OpenTSDB kind only. |
| `limits_ttl` | Half of the hashes are negative as `int64`, and their TTL lies below `minTTL` (`connection_limiter_middleware.go:134`, `:140`). |

### Fairness
- `ForwardAuth`: time passes and a call that is due expires (the HTTP client's time-out). Nothing is
  assumed of the service.
- `Gateway`: the gateway's own layers and time-outs run. The backend and the auth service may be silent.
- `MultiReaderBuffer`: each mirror's transport reads on, and a `finish` that has begun goes on. Writes and
  closes are not assumed: `ReadersProceed` asks for an end only once the body has ended.
- `HealthCheck`: time passes, a due iteration starts, a check ends by its time-out. `Terminate` has strong
  fairness: Go's `select` picks at random between a waiting tick and the stop.
- `Lifecycle`: Main, Loop and the start of Serve run. Shutdown and the stop of the health checker have time
  limits in the code, so that requests in flight need no fairness.
- `Limits`, `Proxy` with its parts and `BoundedLoadBalancer` check safety only.

## 4. Proofs

A TLC run looks at one small instance; the theorems hold for every value of the constants that the named
assumptions of the modules allow. Every proof has the same outline: an inductive invariant `IInv`, stronger
than what is claimed, a lemma that the initial states satisfy it, lemmas that each action keeps it, and
theorems that draw the properties from it. The inductive invariants were found with TLC on
the instances of the runs, with quantifiers over all sequences or numbers cut to what the instance reaches.

`ForwardAuthProofs` proves, for all sets of requests, tenants, credentials, scopes and responses and every
time-out, TTL and horizon:

- `TypeCorrect`: the types, in particular that the cache holds grants only;
- `GrantsAreWellFormed`: no grant has duplicate tenants or a policy for a foreign tenant;
- `GrantsAreBounded`: a grant rests on a ruling for that credential and scope at most time-out + TTL old;
- `DenialsAreFresh`: a denial rests on a ruling made since the request asked.

The assumptions are those of the modules: the kinds of the constants, and that no scope contains the
separator, from which `CacheKeyInjective` follows. `GrantsBounded` is not inductive: the invariant
`IInv` adds that a call is no older than its time-out (`CallsInTime`, so that a reply is young when it
arrives), that a reply is a ruling made after its question (`RepliesRuled`), that a cache entry goes back
to a ruling for its key that is young enough for as long as the entry lives (`EntriesRuled`, the age being
time-out + TTL at its expiry), and that entries are well formed (`EntriesWellFormed`). There is one lemma
for each of these parts with one step per action, and `InductiveInvariant` joins them.

`LifecycleProofs` proves, for every shutdown delay, number of requests and choice of optional parts:

- `TypeCorrect`: the types, and that the parts up are those whose stop is deferred;
- `ReadyServes`, `MetricsOutliveServing`: the invariants `ReadyMeansServing` and `MetricsWhileServing`, the latter unless
  the instrumentation server has ended by itself;
- `ListenerClosesLast`: the action property `DrainsFirst`.

Its `IInv` adds that each part is deferred once and after its own step (`DefersOrdered`, so that one stop
takes down one part), what Main has built at which step (`Started`), what is there while it serves
(`Served`), and that a shutdown means that Loop has returned, and Loop that it has slept (`Drained`).

`GatewayProofs` proves, for any requests, deployments, traffic, runtime configurations and results of
authentication:

- `TypeCorrect`;
- `GrantReachesBackend`: a request at the backend carries the tenants and policies it was granted and no
  others, under the name of its protocol, but for what its Connection header has taken away (`BackendSeesGrant`);
- `OverridesActAsOne`: a request passes or is blocked as one file that was in force while it was admitted says,
  and a blocked one is answered with an error (`OverridesObeyed`);
- `OriginNotForged`: `OriginHonest`, for proxy chains and forged lists of any length.

The assumptions are the kinds of the constants (`GatewayAssumption`), that what is no address is not one
(`AddressAssumption`), and that the built-in settings pass the validation of a file (`DefaultAssumption`). `IInv`
adds to the types that the configuration in force is valid, and says of each request: where its headers come
from at each layer, in particular that a client cannot spell the name under which gRPC reads the tenant
(`GrantInv`); that a handler that still runs was answered by nobody or by a time-out (`AnswerInv`); that the
configuration is among those in force while the request is admitted, and that the overrides of Mimir and of
Loki look at different routes, so that two reads of two configurations act as one (`OverrideInv`); and that
what arrives was built by the proxies from some forged list, with the address found in it (`OriginInv`). The
central fact about the extractor is `XFFTakesHop`: counted from the end, the trusted entries of a list are
those the proxies wrote, whatever stands before them. A step concerns one request, so that the proof is
one lemma per action and a frame for the others (`Elsewhere`, `OneRequest`). Writing it showed that two guards
of a CASE in `AuthResultHeaders` overlapped, which TLC does not report; they are now exclusive, in the order of
the code.

`LimitsProofs` proves, for any requests, connections, hashes and configurations, negative numbers included:

- `TypeCorrect`;
- `WithinLimit`: no more requests are served than the limit (`ServedWithinLimit`);
- `NoLeak`: `IdleForgotten`;
- `ClosedInTime`: the action property `BusyClosed`, with times that are noted late and out of order.

`Counted` states that the counter is the number of requests between their add and their subtract, from which
the limit follows by the cardinality of a subset. `ConnInv` relates a connection's entry to the requests
that hold a copy of it: a copy may be old when it is judged and its entry deleted meanwhile, so that
`BusyClosed` needs to know that entry and copies are at least as old as the use of the address and that `lastSeen`
is the time noted last (`Tracked`), and that an address without an entry was told to close, or that the time noted
of its latest lookup is too long ago (`Missing`). `IdleForgotten` needs the time to the next sweep (`Swept`).

`ProxyProofs` proves of `ProxySpec`, for bodies of any size and all limits, and any hosts and word size:

- `Delivered`, `Blame`: `DeliveredWhole` and `BlameFits` of the gRPC proxy;
- `RoundRobin`: `RoundRobinFair` of the list provider;
- `HeapInOrder`: `HeapConsistent` of the least-inflight provider;
- `Counted`: `CountsExact` of the same;
- `HeapIsBalancer`: the refinement `HeapImplements`, that the provider with its heap implements `LeastInflight`;
- `ProxyTypes`: `ProxyTypeOK`, for all handlers.

The handlers share no state, and each has its own inductive invariant. `GrpcInv` adds how much is read at
each step, how it compares to the declared length and the limits, and that a call is made only with all of it
(`Unread`, `Declared`, `Whole`, `Sent`). `RoundRobinInv` adds that list and set hold the same hosts, once each,
and that the counts of a lap are given by the counter's position (`Laps`): those that come next
have been picked once less than the others.

`LeastInv` is the invariant of least inflight, over any finite sets of hosts and requests. Its first part,
`HeapOK`, is about the heap alone: the index and the array are inverse (`Indexed`), and no counter is less than
its parent (`InOrder`). `SwapRound` shows that exchanging two entries keeps the index, `UpRoundKeeps` and
`DownRoundKeeps` that a round keeps the loop's invariant: the heap holds the same counters, and the order can
be wrong only around the position the loop stands at (`NearlyInOrder`, with `OrderUp` and `OrderDown` for the
order and `AboveChildren`, `BelowParent` for what else is known there). By induction over the rounds the loops
end with the order restored (`UpWorks`, `DownWorks`), and `Fix` and the restoring part of `Remove` are one
lemma (`SiftWorks`). `ChangeWorks`, `AddWorks`, `RemoveWorks` and `MinWorks` then say what each operation of
`namedMinHeap` does to the counters a heap stands for, and nothing after them looks into the heap.

The other parts of `LeastInv` are why the counts are right: a request that is sent and not stale has a host
the provider knows (`Known`, so that a host that appears begins at zero rightly), a new request is not stale (`Flying`),
and the counters are those of `CountsExact`, drift included (`Exact`). The refinement takes each step to the one of
`LeastInflight` it stands for: `Director` to `StartDefault` or `StartLeast`, the ends to `EndRequest`, `Copied`
to `Leave`, discovery to `Appear` and `Disappear`, and everything else, the other policies and handlers
included, to a stutter (`StepSeen`).

The prover has no induction over data, but induction over the naturals for a set follows from the
well-order (`LeastElement`, `Induction`), and that is enough for loops of finitely many rounds. Writing the
proof showed that two guards of the CASE in `RemoveName` overlapped for an empty heap, where the code returns
first; it is now an IF in the order of the code.

`BoundedLoadBalancerProofs` proves, for any addresses, connections, pickers and RPCs:

- `TotalAdded`: `TotalIsSum`, in every order of events and modulo the word;
- `TypeCorrect`: no index leaves a picker's list, although a sort and a wrapping counter choose it;
- `Counts`: `CountsExact`, in every order of connection and RPC events;
- `AvoidsOverload`: the action property `PickAvoidsOverload`.

It assumes that there are fewer RPCs than the counters have values and no more addresses than the index has
(2^64 and 2^32 in the code; the numbers are parameters). `IInv` adds that a picker lists no
more addresses than there are and a pick's place is in its list (`PickersFit`, `PicksFit`), that the RPCs of an
address that is no longer tracked are stale (`Staleness`), and that an undisturbed pick has found all
connections overloaded that it has passed by (`Tried`).

`TotalIsSum` is about a fold over the tracked addresses. The equations of the fold have one solution on the
subsets of a finite set, by induction over their size (`SetInduction`, `SumsExist`, `SumsUnique`, `SumOverIs`);
from it follow the recursion, that any address may be taken out first (`SumTakes`), and what the sum does when
one counter changes (`SumRecursion`, `SumChange`). Each event then moves the total and one term by the same amount modulo the word
(`TotalMoves`, `TotalNext`).

`MultiReaderBufferProofs` proves, for any number of mirrors and segments, with early replies or without:

- `TypeCorrect`;
- `InRange`: `SlotsInRange`, no slice index is out of range;
- `SeesPrefix`: what a mirror reads is a prefix of the body, but for segments recycled while it held them
  (`ReadersSeePrefix`);
- `ReadsAll`: a mirror that ends has all that was written before the close (`EndMeansAll`).

`IInv` counts the segments: written is what is buffered, what the offset says was recycled, and a `Gap` that is
zero until the buffer is reset under late writes (`Buffered`). Of each reader it says where its index stands
(`Index`), which segment a `Read` holds between its two critical sections (`Fetching`), when it may be at the
end (`Ended`), that what it has read is in order (`Ordered`), and that the buffers it still holds keep their bytes
and are not in the pool unless it lost them (`Kept`).

`HealthCheckProofs` proves, for any endpoints, intervals, time-outs and retries:

- `TypeCorrect`;
- `ReportsFollow`: `HealthFollowsChecks`, before `Retries` failures and after one more;
- `ChecksInTime`: no endpoint goes unchecked for longer than its interval plus the longer of the ticker's
  period and the longest time-out (`CheckedInTime`).

`CheckerAssumption` has the caps of the model's counters larger than what is claimed, so that a cap is never
the reason why it holds. `IInv` adds what the last checks have recorded (`Recorded`) and, for every state of
the iteration, how old the last check may be (`Punctual`); the shortest interval and the longest time-out are
those of an endpoint, by the well-order of the naturals.

Model-checked only are the liveness properties (`CallsEnd`, `Answered`, `ReadersProceed`, `ChangesFound`,
`StopsAtLast`, `SignalEnds`): fairness and ENABLED are outside the prover. The runs that end in a violation show
what does not hold and have nothing to prove.

## 5. Abstractions and limits

- `MultiReaderBuffer` has a constant `EarlyReply`: a backend that answers before it has read the body, on
  which `RoundTrip` closes the buffer while the transport goes on writing (`mirror.go:311`). The passing run has
  it TRUE, and its properties are about what was written before the close (`cut`). Of the segments written
  after it little can be promised: they are not announced, a mirror ends without them, and reclaiming resets
  the offset under readers that have not finished (`mirror.go:358`). With 3 readers TLC reaches a state in
  which `reclaimBuffer` takes off more segments than there are, an index out of range in the code: two mirrors
  stand at the end of a closed buffer, a third one's `finish` resets it, one more segment is written, and one
  of the two finishes. The second half of `SlotsInRange` therefore ends with the first late write, and `Recycle`
  takes no step there, since the code panics.
- When `ReverseProxy` refuses an Upgrade value after `Director` has chosen a host, the error handler gets the client's
  request (`http.go:146`): the chosen host is never ended and looks busier than it is until it leaves DNS, although the
  comment at `least_inflight.go:15` asks that every selected host be ended. `CountsExact` counts such ends in `drift`.
- A host that leaves DNS and returns counts from zero while its old requests run (`least_inflight.go:62`), and
  their ends are subtracted from its new count. `HTTPProxy` does the same and notes it in the host's `drift`.
- In `Limits` a connection is its remote address, as in the code: a new connection from an old address
  inherits its age, and one that was idle for longer than `maxTTL` starts afresh. `BusyClosed` is about
  connections that stay in use, each lookup at most `maxTTL` after the time that the one before it had read; for
  lookups that are merely at most `maxTTL` apart it is false: a request that gets the lock long after it read the clock
  (`connection_limiter_middleware.go:146`) sets `lastSeen` back, the sweep drops the connection in use, and its next
  request starts a new TTL. The request limiter's
  conversion of its limit to `int32` is the identity, which it is for limits below 2^31.
- In `Lifecycle`, `ready` is set before `signal.Notify` (`main.go:253`): a SIGTERM in between, or a second one
  after Loop has returned, kills the process without draining. The model does so too, and `DrainsFirst` is
  about orderly shutdown.
- In `HealthCheck` an endpoint becomes unhealthy when its failures exceed `Retries`, as the code has it
  (`checker.go:263`). Its documentation says that `Retries` of them suffice (`config.go:24`, the flag's help at `:44`,
  and the comment at `checker.go:262`): they do not. `HealthFollowsChecks` promises only what both readings agree on. An iteration waits for its slowest check, so that the next tick may be late by a
  time-out: `CheckedInTime` allows for it.
- In `Gateway` a route is its class, and everything that no override looks at is one class (`other`). Requests
  with a gRPC content type get no overrides, and requests for several tenants the
  global ones only, as in the code. Tenant IDs and PromQL selectors are valid or not: their grammars belong
  to libraries. The OpenTSDB route is in no matcher of the overrides (`mimir_overrides.go:186`) and so in no
  class. Ruler, InfluxDB, OpenTSDB and Tempo writes skip the write handler's checks there as they do
  in the code.
- `Answered` assumes that the global request time-out is positive. Its default is 0, which means none: a request then
  waits for as long as its backend or its client's patience does.
- In `Lifecycle` the metrics server may end with a line in the log (`instrumentation_server.go:51-55`) while the gateway
  serves on. `MetricsWhileServing` is about what Main does to it and says nothing of a server that ended by itself.
- In `ClientIP` an address is valid or not and written plainly, with a port or in brackets. The defaults of the
  extractors are `xff` with two trusted proxies. With `remoteaddr` before `xff` in the fixed priority, `xff`
  is never reached, since a connection always has an address.
- In `HTTPProxy` the hosts that a client may write into its target are those that DNS knows: any other is as good as
  none, since `EndHost` does not know it.
- A connection that is reset while the gRPC proxy reads the body is answered 502, like a failing backend
  (`grpc.go:218`, `error.go:107`): `BlameFits` names it as the other reason for a 502.
- In `HTTPOverGRPC` a body is its number of bytes and a read delivers one; the OpenTSDB conversion is a body
  of any other size. Errors of a call are the classes `errorHandler` tells apart.
- A revoked grant may be served for time-out + TTL, not TTL alone, since the TTL counts from the arrival of
  the reply: `GrantsBounded` states the sum.

- Not modelled, and why: the native gRPC proxy (a library's, configured only), the tables of routes and their
  matcher (constant data and regular expressions), trace ids and metrics (no decision depends on them), usage
  text and flags (formatting), TLS, keep-alive and dialing (configuration of libraries).

## 6. Plan

Written, in this order: the authenticator with its proofs, the mirror's buffer, the two balancers, the
health checker, the limiters, the pipeline, the process with its proofs; then the gRPC proxy with the
handlers before it, the choice of proxy, the client's address, and the mirror with early replies; then the
proofs for the limiters, the health checker, the proxies, the gRPC balancer, the mirror's buffer and the
pipeline, and last those that need induction, the total of the gRPC balancer and the heap with its refinement.
What could come next is modelling: the limit on concurrent mirrors with a bound on the segments kept, and HTTP
over gRPC as a user of the balancer.
