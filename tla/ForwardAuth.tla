----------------------------- MODULE ForwardAuth -----------------------------
(***************************************************************************)
(* ForwardAuthenticator (pkg/auth/forward.go): concurrent requests ask an  *)
(* external service whether a credential holds a scope, and share a cache  *)
(* of the grants it gave.                                                  *)
(*                                                                         *)
(* A call is three steps, because the service decides at some moment       *)
(* between the two ends of the call: Authenticate sends the question,      *)
(* Decide is the service ruling on it, and Receive is the answer reaching  *)
(* the gateway. Two calls for one key may therefore arrive in the opposite *)
(* order of their rulings, and a ruling may already be old when it is      *)
(* cached. Time is a discrete clock that cannot pass a call's deadline.    *)
(***************************************************************************)
EXTENDS AuthResult, Integers, FiniteSets

CONSTANTS
    Requests,   \* slots for requests being served concurrently
    Bar,        \* the character "|" of a cache key
    Letters,    \* the other characters
    Creds,      \* Authorization header values: sequences of characters
    Scopes,     \* required scopes: sequences of characters (may be empty)
    Responses,  \* answers the auth service can give
    Timeout,    \* cfg.Timeout; 0 means no deadline, as in http.Client
    TTL,        \* cfg.CacheTTL; 0 disables the cache
    Horizon,    \* bound: the last instant of the clock
    MaxRulings  \* bound: the distinct rulings the service gives

ASSUME CharAssumption ==
    /\ Bar \notin Letters
    /\ Creds \subseteq Seq(Letters \cup {Bar})
    /\ Scopes \subseteq Seq(Letters)

ASSUME TimeAssumption ==
    Timeout \in Nat /\ TTL \in Nat /\ Horizon \in Nat /\ MaxRulings \in Nat

Statuses == {200, 401, 403, 500}

ASSUME NonEmptyAssumption == Creds # {} /\ Scopes # {} /\ Responses # {}

ASSUME ResponseAssumption ==
    \A r \in Responses :
        /\ r.status \in Statuses
        /\ r.orgIDs \in Seq(Seq(Tenants \cup {BadTenant}))
        /\ r.labelPolicies \in Seq(Policies \cup {MalformedEntry})

VARIABLES
    now,     \* the clock
    cache,   \* a.cache: cache key -> entry or NoEntry
    pc,      \* slot -> where the request of that slot is
    ask,     \* slot -> the credential and scope of its request
    since,   \* slot -> when its call to the service began
    reply,   \* slot -> the ruling travelling back to it
    answer,  \* slot -> what Authenticate returned
    ruled    \* history: the rulings of the service, each with its instant

vars == <<now, cache, pc, ask, since, reply, answer, ruled>>

-----------------------------------------------------------------------------

Questions == Creds \X Scopes

\* Mutant: the scope is left out of the key.
CacheKeyNoScope(q) == q[1] \o <<Bar>>

\* cacheKey: the Authorization value, a bar, the required scope.
CacheKey(q) == q[1] \o <<Bar>> \o q[2]

Keys == {CacheKey(q) : q \in Questions}

NoEntry == [result |-> Failure("invalid"), expires |-> -1]

Entries == [result : Grants, expires : Nat] \cup {NoEntry}

Instants == 0 .. Horizon

Rulings == [question : Questions, response : Responses, at : Instants]

TypeOK ==
    /\ now \in Instants
    /\ cache \in [Keys -> Entries]
    /\ pc \in [Requests -> {"idle", "calling", "decided", "answered"}]
    /\ ask \in [Requests -> Questions]
    /\ since \in [Requests -> Instants]
    /\ reply \in [Requests -> Responses]
    /\ answer \in [Requests -> Results]
    /\ ruled \subseteq Rulings

\* NewForwardAuthenticator starts with an empty cache. The contents of a slot
\* that serves no request are arbitrary but fixed.
NoQuestion == CHOOSE q \in Questions : TRUE

NoReply == CHOOSE r \in Responses : TRUE

Init ==
    /\ now = 0
    /\ cache = [k \in Keys |-> NoEntry]
    /\ pc = [p \in Requests |-> "idle"]
    /\ ask = [p \in Requests |-> NoQuestion]
    /\ since = [p \in Requests |-> 0]
    /\ reply = [p \in Requests |-> NoReply]
    /\ answer = [p \in Requests |-> Failure("invalid")]
    /\ ruled = {}

-----------------------------------------------------------------------------

\* Mutant: an expired entry is still served until the janitor removes it.
HitIgnoringExpiry(k) == TTL > 0 /\ cache[k] # NoEntry

\* cache.Get (go-cache): found unless the entry's expiration has passed. No
\* cache exists when the TTL is 0.
Hit(k) ==
    /\ TTL > 0
    /\ cache[k] # NoEntry
    /\ now <= cache[k].expires

\* Authenticate up to a.client.Do: a hit is returned without asking, a miss
\* sends the question. The bound on the clock lets every call reach its
\* deadline before the horizon.
Authenticate(p, q) ==
    /\ pc[p] = "idle"
    /\ ask' = [ask EXCEPT ![p] = q]
    /\ \/ /\ Hit(CacheKey(q))
          /\ pc' = [pc EXCEPT ![p] = "answered"]
          /\ answer' = [answer EXCEPT ![p] = cache[CacheKey(q)].result]
          /\ UNCHANGED since
       \/ /\ ~Hit(CacheKey(q))
          /\ now + Timeout <= Horizon
          /\ pc' = [pc EXCEPT ![p] = "calling"]
          /\ since' = [since EXCEPT ![p] = now]
          /\ UNCHANGED answer
    /\ UNCHANGED <<now, cache, reply, ruled>>

\* The external service rules on the question; it may rule differently each
\* time it is asked (a credential is revoked, granted again, ...).
Decide(p, r) ==
    /\ pc[p] = "calling"
    /\ Cardinality(ruled) < MaxRulings
    /\ pc' = [pc EXCEPT ![p] = "decided"]
    /\ reply' = [reply EXCEPT ![p] = r]
    /\ ruled' = ruled \cup {[question |-> ask[p], response |-> r, at |-> now]}
    /\ UNCHANGED <<now, cache, ask, since, answer>>

\* Authenticate's switch on the status, and NewAuthResult for a 200.
Outcome(r) ==
    CASE r.status = 401 -> Failure("unauthorized")
      [] r.status = 403 -> Failure("forbidden")
      [] r.status = 200 -> NewAuthResult(r.orgIDs, r.labelPolicies)
      [] OTHER          -> Failure("invalid")

\* Mutant: the result is cached whatever the service answered.
CacheSetAlways(q, result) ==
    cache' = IF TTL > 0
             THEN [cache EXCEPT ![CacheKey(q)] = [result |-> result, expires |-> now + TTL]]
             ELSE cache

\* cache.Set with the default expiration, only after a result without error
\* and only if there is a cache.
CacheSet(q, result) ==
    cache' = IF TTL > 0 /\ result.err = "none"
             THEN [cache EXCEPT ![CacheKey(q)] = [result |-> result, expires |-> now + TTL]]
             ELSE cache

\* Authenticate from a.client.Do's return: the answer arrives in time.
Receive(p) ==
    /\ pc[p] = "decided"
    /\ pc' = [pc EXCEPT ![p] = "answered"]
    /\ answer' = [answer EXCEPT ![p] = Outcome(reply[p])]
    /\ CacheSet(ask[p], Outcome(reply[p]))
    /\ UNCHANGED <<now, ask, since, reply, ruled>>

\* a.client.Do returns an error: the service is unreachable, the connection
\* breaks or the caller's context is cancelled, before or after the ruling.
Fail(p) ==
    /\ pc[p] \in {"calling", "decided"}
    /\ pc' = [pc EXCEPT ![p] = "answered"]
    /\ answer' = [answer EXCEPT ![p] = Failure("invalid")]
    /\ UNCHANGED <<now, cache, ask, since, reply, ruled>>

\* The deadline http.Client.Timeout puts on a call has come.
Due(p) ==
    /\ Timeout > 0
    /\ pc[p] \in {"calling", "decided"}
    /\ now = since[p] + Timeout

Expire(p) == Due(p) /\ Fail(p)

\* Mutant: no deadline is set on the client.
TickPastDeadlines ==
    /\ now < Horizon
    /\ now' = now + 1
    /\ UNCHANGED <<cache, pc, ask, since, reply, answer, ruled>>

\* Time passes, but not past a deadline: the client's timer ends the call.
Tick ==
    /\ now < Horizon
    /\ \A p \in Requests : ~Due(p)
    /\ now' = now + 1
    /\ UNCHANGED <<cache, pc, ask, since, reply, answer, ruled>>

\* go-cache's janitor, started because the cleanup interval 2 * CacheTTL is
\* positive: it deletes what has expired.
Janitor ==
    /\ TTL > 0
    /\ cache' = [k \in Keys |-> IF cache[k] # NoEntry /\ now > cache[k].expires
                                THEN NoEntry ELSE cache[k]]
    /\ UNCHANGED <<now, pc, ask, since, reply, answer, ruled>>

\* The handler is done with the answer; its slot serves another request.
Finish(p) ==
    /\ pc[p] = "answered"
    /\ pc' = [pc EXCEPT ![p] = "idle"]
    /\ ask' = [ask EXCEPT ![p] = NoQuestion]
    /\ since' = [since EXCEPT ![p] = 0]
    /\ reply' = [reply EXCEPT ![p] = NoReply]
    /\ answer' = [answer EXCEPT ![p] = Failure("invalid")]
    /\ UNCHANGED <<now, cache, ruled>>

Next ==
    \/ \E p \in Requests :
          \/ \E q \in Questions : Authenticate(p, q)
          \/ \E r \in Responses : Decide(p, r)
          \/ Receive(p)
          \/ Fail(p)
          \/ Expire(p)
          \/ Finish(p)
    \/ Tick
    \/ Janitor

\* The clock runs and the client's timer fires; nothing is assumed of the
\* service or of the network.
Fairness == WF_vars(Tick) /\ \A p \in Requests : WF_vars(Expire(p))

Spec == Init /\ [][Next]_vars /\ Fairness

-----------------------------------------------------------------------------

\* p's call to Authenticate returns in this step.
Answers(p) == pc[p] # "answered" /\ pc'[p] = "answered"

\* A grant is never older than the call's deadline plus the cache's TTL: when
\* Authenticate returns a result, the service gave exactly this grant, for
\* exactly this credential and scope, at most Timeout + TTL ago. Neither a hit
\* on another key, nor a slow answer cached after the credential was revoked,
\* nor a late overwrite stretches the bound.
GrantsBounded ==
    [][\A p \in Requests :
          Answers(p) /\ answer'[p].err = "none" =>
             \E d \in ruled' :
                /\ d.question = ask'[p]
                /\ d.response.status = 200
                /\ Outcome(d.response) = answer'[p]
                /\ Timeout > 0 => now <= d.at + Timeout + TTL]_vars

\* A denial is never served from memory: when Authenticate reports 401 or 403
\* the service gave that ruling on this question during this very call, so a
\* credential that is granted access is not kept out by an earlier refusal.
DenialsFresh ==
    [][\A p \in Requests :
          Answers(p) /\ answer'[p].err \in {"unauthorized", "forbidden"} =>
             \E d \in ruled' :
                /\ d.question = ask'[p]
                /\ d.response.status \in {401, 403}
                /\ Outcome(d.response) = answer'[p]
                /\ pc[p] = "decided" /\ d.at >= since[p]]_vars

\* No request proceeds, from a fresh answer or from the cache, with a result
\* that names no tenant, names one twice, or has a label policy for a tenant
\* outside the grant.
GrantsWellFormed ==
    \A p \in Requests :
        pc[p] = "answered" /\ answer[p].err = "none" => WellFormedGrant(answer[p])

\* Every call to the service ends, whatever the service does: the client's
\* timeout answers for a service that stays silent.
CallsEnd == \A p \in Requests : pc[p] \in {"calling", "decided"} ~> pc[p] = "answered"
===============================================================================
