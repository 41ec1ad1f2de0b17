-------------------------- MODULE ForwardAuthProofs --------------------------
(***************************************************************************)
(* Proofs about ForwardAuth for every set of requests, credentials, scopes *)
(* and responses and every timeout and TTL, 0 included.                    *)
(***************************************************************************)
EXTENDS ForwardAuth, TLAPS

-----------------------------------------------------------------------------
(* The inductive invariant *)

\* A call in progress has not passed its deadline.
CallsInTime ==
    \A p \in Requests :
        pc[p] \in {"calling", "decided"} =>
            /\ since[p] <= now
            /\ Timeout > 0 => now <= since[p] + Timeout

\* A ruling on its way back was given during the call that carries it.
RepliesRuled ==
    \A p \in Requests :
        pc[p] = "decided" =>
            \E d \in ruled :
                /\ d.question = ask[p]
                /\ d.response = reply[p]
                /\ since[p] <= d.at /\ d.at <= now

\* What an entry holds was granted for the very question it is stored under,
\* and the entry expires at most Timeout + TTL after the ruling.
EntriesRuled ==
    \A q \in Questions :
        cache[CacheKey(q)] # NoEntry =>
            \E d \in ruled :
                /\ d.question = q
                /\ d.response.status = 200
                /\ Outcome(d.response) = cache[CacheKey(q)].result
                /\ Timeout > 0 => cache[CacheKey(q)].expires <= d.at + Timeout + TTL

EntriesWellFormed ==
    \A k \in Keys : cache[k] # NoEntry => WellFormedGrant(cache[k].result)

IInv ==
    /\ TypeOK
    /\ CallsInTime
    /\ RepliesRuled
    /\ EntriesRuled
    /\ EntriesWellFormed
    /\ GrantsWellFormed

-----------------------------------------------------------------------------
(* Facts about the operators *)

\* The cache key determines credential and scope, although a credential may
\* itself contain the separator: no scope contains it (api.go validScope).
LEMMA CacheKeyInjective ==
    \A q, r \in Questions : CacheKey(q) = CacheKey(r) => q = r
<1>1. ASSUME NEW c \in Seq(Letters \cup {Bar}), NEW d \in Seq(Letters \cup {Bar}),
             NEW s \in Seq(Letters), NEW t \in Seq(Letters),
             c \o <<Bar>> \o s = d \o <<Bar>> \o t
      PROVE  Len(c) >= Len(d)
  <2>1. SUFFICES ASSUME Len(c) < Len(d) PROVE FALSE
    OBVIOUS
  <2> DEFINE n == Len(d) + 1
  <2>2. (d \o <<Bar>> \o t)[n] = Bar
    OBVIOUS
  <2>3. n \in Len(c) + 2 .. Len(c) + 1 + Len(s)
    BY <1>1, <2>1
  <2>4. (c \o <<Bar>> \o s)[n] = s[n - Len(c) - 1]
    BY <2>3
  <2>5. s[n - Len(c) - 1] \in Letters
    BY <2>3
  <2> QED
    BY <1>1, <2>2, <2>4, <2>5, CharAssumption
<1>2. ASSUME NEW q \in Questions, NEW r \in Questions, CacheKey(q) = CacheKey(r)
      PROVE  q = r
  <2>1. PICK c \in Creds, s \in Scopes : q = <<c, s>>
    BY DEF Questions
  <2>2. PICK d \in Creds, t \in Scopes : r = <<d, t>>
    BY DEF Questions
  <2>3. /\ c \in Seq(Letters \cup {Bar}) /\ d \in Seq(Letters \cup {Bar})
        /\ s \in Seq(Letters) /\ t \in Seq(Letters)
    BY CharAssumption
  <2>4. c \o <<Bar>> \o s = d \o <<Bar>> \o t
    BY <1>2, <2>1, <2>2 DEF CacheKey
  <2>5. Len(c) = Len(d)
    <3>1. Len(c) >= Len(d)
      BY <1>1, <2>3, <2>4
    <3>2. Len(d) >= Len(c)
      BY <1>1, <2>3, <2>4
    <3> QED
      BY <2>3, <3>1, <3>2
  <2>6. Len(s) = Len(t)
    BY <2>3, <2>4, <2>5
  <2>7. ASSUME NEW i \in 1 .. Len(c) PROVE c[i] = d[i]
    <3>1. (c \o <<Bar>> \o s)[i] = c[i] /\ (d \o <<Bar>> \o t)[i] = d[i]
      BY <2>3, <2>5
    <3> QED
      BY <2>4, <3>1
  <2>8. ASSUME NEW i \in 1 .. Len(s) PROVE s[i] = t[i]
    <3>1. /\ (c \o <<Bar>> \o s)[i + Len(c) + 1] = s[i]
          /\ (d \o <<Bar>> \o t)[i + Len(c) + 1] = t[i]
      BY <2>3, <2>5, <2>6
    <3> QED
      BY <2>4, <3>1
  <2>9. c = d /\ s = t
    <3>1. c = d
      BY <2>3, <2>5, <2>7, SMTT(30)
    <3>2. s = t
      BY <2>3, <2>6, <2>8, SMTT(30)
    <3> QED
      BY <3>1, <3>2
  <2> QED
    BY <2>1, <2>2, <2>9
<1> QED
  BY <1>2

\* The fixed contents of an idle slot exist.
LEMMA Defaults == NoQuestion \in Questions /\ NoReply \in Responses
<1>1. \E q : q \in Questions
  <2>1. PICK c \in Creds, s \in Scopes : TRUE
    BY NonEmptyAssumption
  <2>2. <<c, s>> \in Questions
    BY <2>1 DEF Questions
  <2> QED
    BY <2>2
<1>2. \E r : r \in Responses
  BY NonEmptyAssumption
<1> QED
  BY <1>1, <1>2, Zenon DEF NoQuestion, NoReply

\* NewAuthResult returns an error or a well-formed grant.
LEMMA OutcomeType ==
    ASSUME NEW r \in Responses
    PROVE  /\ Outcome(r) \in Results
           /\ Outcome(r).err = "none" =>
                 /\ Outcome(r) \in Grants
                 /\ r.status = 200
                 /\ WellFormedGrant(Outcome(r))
           /\ Outcome(r).err \in {"unauthorized", "forbidden"} => r.status \in {401, 403}
<1> DEFINE n == NewAuthResult(r.orgIDs, r.labelPolicies)
<1>1. /\ r.status \in Statuses
      /\ r.orgIDs \in Seq(Seq(Tenants \cup {BadTenant}))
      /\ r.labelPolicies \in Seq(Policies \cup {MalformedEntry})
  BY ResponseAssumption
<1>2. \/ n = Failure("invalid")
      \/ n \in Grants /\ WellFormedGrant(n)
  <2>1. SUFFICES ASSUME n # Failure("invalid")
                 PROVE  n \in Grants /\ WellFormedGrant(n)
    OBVIOUS
  <2> DEFINE ids == r.orgIDs[1]
  <2>2. /\ n = [err |-> "none", tenants |-> TenantIDs(r.orgIDs), policies |-> r.labelPolicies]
        /\ ParsesTenantIDs(r.orgIDs)
        /\ Len(TenantIDs(r.orgIDs)) > 0
        /\ ParsesLabelPolicies(r.labelPolicies)
        /\ \A i \in DOMAIN r.labelPolicies :
              r.labelPolicies[i].tenant \in Elements(TenantIDs(r.orgIDs))
    BY <2>1 DEF NewAuthResult
  <2>3. r.orgIDs # <<>> /\ TenantIDs(r.orgIDs) = ids /\ Len(r.orgIDs) = 1
    BY <2>2 DEF TenantIDs, ParsesTenantIDs
  <2>4. ids \in Seq(Tenants) /\ NoDuplicates(ids)
    <3>1. ids \in Seq(Tenants \cup {BadTenant})
      BY <1>1, <2>3
    <3>2. \A i \in 1 .. Len(ids) : ids[i] \in Tenants
      BY <2>2, <2>3, <3>1 DEF ParsesTenantIDs, Elements
    <3> QED
      BY <2>2, <2>3, <3>1, <3>2 DEF ParsesTenantIDs
  <2>5. r.labelPolicies \in Seq(Policies)
    <3>1. \A i \in 1 .. Len(r.labelPolicies) : r.labelPolicies[i] \in Policies
      BY <1>1, <2>2 DEF ParsesLabelPolicies, Elements
    <3> QED
      BY <1>1, <3>1
  <2> QED
    BY <2>2, <2>3, <2>4, <2>5 DEF Grants, WellFormedGrant
<1>3. CASE r.status = 200
  <2>1. Outcome(r) = n
    BY <1>3 DEF Outcome
  <2>2. CASE n = Failure("invalid")
    BY <2>1, <2>2 DEF Results, Failure, Errors
  <2>3. CASE n \in Grants /\ WellFormedGrant(n)
    BY <1>3, <2>1, <2>3 DEF Results, Grants
  <2> QED
    BY <1>2, <2>2, <2>3
<1>4. CASE r.status # 200
  BY <1>1, <1>4 DEF Outcome, Results, Failure, Errors, Statuses
<1> QED
  BY <1>3, <1>4
-----------------------------------------------------------------------------
(* The invariant is inductive *)

\* At the start nothing is cached and nobody asks.
LEMMA InitIInv == Init => IInv
<1> SUFFICES ASSUME Init PROVE IInv
  OBVIOUS
<1>1. NoQuestion \in Questions /\ NoReply \in Responses
  BY Defaults
<1>2. TypeOK
  BY <1>1, TimeAssumption DEF Init, TypeOK, Instants, Entries, Results, Errors
<1>3. CallsInTime /\ RepliesRuled /\ GrantsWellFormed
  BY DEF Init, CallsInTime, RepliesRuled, GrantsWellFormed
<1>4. EntriesRuled /\ EntriesWellFormed
  BY DEF Init, EntriesRuled, EntriesWellFormed, Keys
<1> QED
  BY <1>2, <1>3, <1>4 DEF IInv

\* What a hit returns.
LEMMA HitGrant ==
    ASSUME IInv, NEW q \in Questions, Hit(CacheKey(q))
    PROVE  /\ cache[CacheKey(q)].result \in Grants
           /\ WellFormedGrant(cache[CacheKey(q)].result)
           /\ \E d \in ruled :
                 /\ d.question = q
                 /\ d.response.status = 200
                 /\ Outcome(d.response) = cache[CacheKey(q)].result
                 /\ Timeout > 0 => now <= d.at + Timeout + TTL
<1>1. CacheKey(q) \in Keys /\ cache[CacheKey(q)] # NoEntry /\ now <= cache[CacheKey(q)].expires
  BY DEF Hit, Keys
<1>2. cache[CacheKey(q)] \in [result : Grants, expires : Nat]
  BY <1>1 DEF IInv, TypeOK, Entries
<1>3. PICK d \in ruled :
         /\ d.question = q
         /\ d.response.status = 200
         /\ Outcome(d.response) = cache[CacheKey(q)].result
         /\ Timeout > 0 => cache[CacheKey(q)].expires <= d.at + Timeout + TTL
  BY <1>1 DEF IInv, EntriesRuled
<1>4. d.at \in Nat /\ now \in Nat
  BY TimeAssumption DEF IInv, TypeOK, Rulings, Instants
<1>5. Timeout > 0 => now <= d.at + Timeout + TTL
  BY <1>1, <1>2, <1>3, <1>4, TimeAssumption
<1> QED
  BY <1>1, <1>2, <1>3, <1>5 DEF IInv, EntriesWellFormed

\* Types are kept.
LEMMA TypeStep == IInv /\ [Next]_vars => TypeOK'
<1> SUFFICES ASSUME IInv, [Next]_vars PROVE TypeOK'
  OBVIOUS
<1> USE TimeAssumption DEF IInv, TypeOK, Instants
<1>1. NoQuestion \in Questions /\ NoReply \in Responses
  BY Defaults
<1>2. Failure("invalid") \in Results
  BY DEF Results, Errors
<1>3. ASSUME NEW p \in Requests, NEW q \in Questions, Authenticate(p, q) PROVE TypeOK'
  <2>1. CASE Hit(CacheKey(q))
    <3>1. cache[CacheKey(q)].result \in Results
      BY <2>1, HitGrant DEF Results
    <3> QED
      BY <1>3, <2>1, <3>1 DEF Authenticate
  <2>2. CASE ~Hit(CacheKey(q))
    BY <1>3, <2>2 DEF Authenticate
  <2> QED
    BY <2>1, <2>2
<1>4. ASSUME NEW p \in Requests, NEW r \in Responses, Decide(p, r) PROVE TypeOK'
  BY <1>4 DEF Decide, Rulings
<1>5. ASSUME NEW p \in Requests, Receive(p) PROVE TypeOK'
  <2>1. /\ Outcome(reply[p]) \in Results
        /\ Outcome(reply[p]).err = "none" => Outcome(reply[p]) \in Grants
    BY OutcomeType
  <2>2. cache' \in [Keys -> Entries]
    <3>1. CASE TTL > 0 /\ Outcome(reply[p]).err = "none"
      <4>1. cache' = [cache EXCEPT ![CacheKey(ask[p])] =
                        [result |-> Outcome(reply[p]), expires |-> now + TTL]]
        BY <1>5, <3>1 DEF Receive, CacheSet
      <4>2. [result |-> Outcome(reply[p]), expires |-> now + TTL] \in Entries
        BY <2>1, <3>1 DEF Entries
      <4> QED
        BY <4>1, <4>2
    <3>2. CASE ~(TTL > 0 /\ Outcome(reply[p]).err = "none")
      BY <1>5, <3>2 DEF Receive, CacheSet
    <3> QED
      BY <3>1, <3>2
  <2> QED
    BY <1>5, <2>1, <2>2 DEF Receive
<1>6. ASSUME NEW p \in Requests, Fail(p) PROVE TypeOK'
  BY <1>2, <1>6 DEF Fail
<1>7. ASSUME NEW p \in Requests, Finish(p) PROVE TypeOK'
  BY <1>1, <1>2, <1>7 DEF Finish
<1>8. CASE Tick
  BY <1>8 DEF Tick
<1>9. CASE Janitor
  <2>1. cache' \in [Keys -> Entries]
    BY <1>9 DEF Janitor, Entries
  <2> QED
    BY <1>9, <2>1 DEF Janitor
<1>10. CASE UNCHANGED vars
  BY <1>10 DEF vars
<1> QED
  BY <1>3, <1>4, <1>5, <1>6, <1>7, <1>8, <1>9, <1>10 DEF Next, Expire

\* A call of the service ends in time.
LEMMA CallsInTimeStep == IInv /\ [Next]_vars => CallsInTime'
<1> SUFFICES ASSUME IInv, [Next]_vars, NEW p \in Requests,
                    pc'[p] \in {"calling", "decided"}
             PROVE  /\ since'[p] <= now'
                    /\ Timeout > 0 => now' <= since'[p] + Timeout
  BY DEF CallsInTime
<1> USE TimeAssumption DEF IInv, TypeOK, Instants, CallsInTime
<1>1. ASSUME NEW o \in Requests, NEW q \in Questions, Authenticate(o, q)
      PROVE  since'[p] <= now' /\ (Timeout > 0 => now' <= since'[p] + Timeout)
  BY <1>1 DEF Authenticate
<1>2. ASSUME NEW o \in Requests, \E r \in Responses : Decide(o, r)
      PROVE  since'[p] <= now' /\ (Timeout > 0 => now' <= since'[p] + Timeout)
  BY <1>2 DEF Decide
<1>3. ASSUME NEW o \in Requests, Receive(o) \/ Fail(o) \/ Finish(o)
      PROVE  since'[p] <= now' /\ (Timeout > 0 => now' <= since'[p] + Timeout)
  BY <1>3 DEF Receive, Fail, Finish
<1>4. CASE Tick
  BY <1>4 DEF Tick, Due
<1>5. CASE Janitor \/ UNCHANGED vars
  BY <1>5 DEF Janitor, vars
<1> QED
  BY <1>1, <1>2, <1>3, <1>4, <1>5 DEF Next, Expire

\* A reply not yet handled is a ruling made since its request asked.
LEMMA RepliesRuledStep == IInv /\ [Next]_vars => RepliesRuled'
<1> SUFFICES ASSUME IInv, [Next]_vars, NEW p \in Requests, pc'[p] = "decided"
             PROVE  \E d \in ruled' :
                       /\ d.question = ask'[p]
                       /\ d.response = reply'[p]
                       /\ since'[p] <= d.at /\ d.at <= now'
  BY DEF RepliesRuled
<1> USE TimeAssumption DEF IInv, TypeOK, Instants
<1> DEFINE Carried ==
      /\ pc[p] = "decided" /\ ask'[p] = ask[p] /\ reply'[p] = reply[p]
      /\ since'[p] = since[p] /\ now <= now' /\ ruled \subseteq ruled'
<1>1. ASSUME Carried
      PROVE  \E d \in ruled' :
                /\ d.question = ask'[p]
                /\ d.response = reply'[p]
                /\ since'[p] <= d.at /\ d.at <= now'
  <2>1. PICK d \in ruled : /\ d.question = ask[p] /\ d.response = reply[p]
                           /\ since[p] <= d.at /\ d.at <= now
    BY <1>1 DEF RepliesRuled
  <2>2. d.at \in Nat /\ now \in Nat /\ now' \in Nat
    BY TypeStep DEF Rulings
  <2> QED
    BY <1>1, <2>1, <2>2
<1>2. ASSUME NEW r \in Responses, Decide(p, r)
      PROVE  \E d \in ruled' :
                /\ d.question = ask'[p]
                /\ d.response = reply'[p]
                /\ since'[p] <= d.at /\ d.at <= now'
  <2> DEFINE d == [question |-> ask[p], response |-> r, at |-> now]
  <2>1. d \in ruled' /\ ask'[p] = ask[p] /\ reply'[p] = r /\ since'[p] = since[p] /\ now' = now
    BY <1>2 DEF Decide
  <2>2. since[p] <= now
    BY <1>2 DEF Decide, CallsInTime
  <2> QED
    BY <2>1, <2>2
<1>3. ASSUME NEW o \in Requests, NEW q \in Questions, Authenticate(o, q) PROVE Carried
  BY <1>3 DEF Authenticate
<1>4. ASSUME NEW o \in Requests, o # p, NEW r \in Responses, Decide(o, r) PROVE Carried
  BY <1>4 DEF Decide
<1>5. ASSUME NEW o \in Requests, Receive(o) \/ Fail(o) \/ Finish(o) PROVE Carried
  BY <1>5 DEF Receive, Fail, Finish
<1>6. ASSUME Tick \/ Janitor \/ UNCHANGED vars PROVE Carried
  BY <1>6 DEF Tick, Janitor, vars
<1> QED
  BY <1>1, <1>2, <1>3, <1>4, <1>5, <1>6 DEF Next, Expire

\* How a step changes the cache: one entry is written by a call that received
\* a grant, or some entries are dropped, or nothing changes.
LEMMA CacheStep ==
    ASSUME IInv, [Next]_vars
    PROVE  /\ ruled \subseteq ruled'
           /\ \/ \E p \in Requests :
                    /\ pc[p] = "decided"
                    /\ Outcome(reply[p]).err = "none"
                    /\ cache' = [cache EXCEPT ![CacheKey(ask[p])] =
                                   [result |-> Outcome(reply[p]), expires |-> now + TTL]]
              \/ \A k \in Keys : cache'[k] = cache[k] \/ cache'[k] = NoEntry
<1>1. ASSUME NEW p \in Requests, Receive(p) PROVE ruled' = ruled
  BY <1>1 DEF Receive
<1>2. ruled \subseteq ruled'
  BY <1>1 DEF Next, vars, Authenticate, Decide, Fail, Expire, Finish, Tick, Janitor
<1>3. ASSUME NEW p \in Requests, Receive(p), cache' # cache
      PROVE  /\ pc[p] = "decided"
             /\ Outcome(reply[p]).err = "none"
             /\ cache' = [cache EXCEPT ![CacheKey(ask[p])] =
                            [result |-> Outcome(reply[p]), expires |-> now + TTL]]
  BY <1>3 DEF Receive, CacheSet
<1>4. ASSUME Janitor PROVE \A k \in Keys : cache'[k] = cache[k] \/ cache'[k] = NoEntry
  BY <1>4 DEF Janitor
<1>5. CASE cache' = cache
  BY <1>2, <1>5
<1>6. CASE cache' # cache
  <2>1. Janitor \/ \E p \in Requests : Receive(p)
    BY <1>6 DEF Next, vars, Authenticate, Decide, Fail, Expire, Finish, Tick
  <2> QED
    BY <1>2, <1>3, <1>4, <1>6, <2>1
<1> QED
  BY <1>5, <1>6

\* A cache entry rests on a ruling of the service.
LEMMA EntriesStep == IInv /\ [Next]_vars => EntriesRuled' /\ EntriesWellFormed'
<1> SUFFICES ASSUME IInv, [Next]_vars PROVE EntriesRuled' /\ EntriesWellFormed'
  OBVIOUS
<1> USE TimeAssumption
<1>1. CASE \A k \in Keys : cache'[k] = cache[k] \/ cache'[k] = NoEntry
  <2>1. ASSUME NEW q \in Questions, cache'[CacheKey(q)] # NoEntry
        PROVE  cache[CacheKey(q)] # NoEntry /\ cache'[CacheKey(q)] = cache[CacheKey(q)]
    BY <1>1, <2>1 DEF Keys
  <2>2. EntriesRuled'
    BY <2>1, CacheStep DEF IInv, EntriesRuled
  <2>3. EntriesWellFormed'
    BY <1>1 DEF IInv, EntriesWellFormed
  <2> QED
    BY <2>2, <2>3
<1>2. ASSUME NEW p \in Requests,
             pc[p] = "decided",
             Outcome(reply[p]).err = "none",
             cache' = [cache EXCEPT ![CacheKey(ask[p])] =
                         [result |-> Outcome(reply[p]), expires |-> now + TTL]]
      PROVE  EntriesRuled' /\ EntriesWellFormed'
  <2>1. /\ reply[p] \in Responses /\ ask[p] \in Questions /\ now \in Nat /\ since[p] \in Nat
        /\ cache \in [Keys -> Entries]
    BY DEF IInv, TypeOK, Instants
  <2>2. reply[p].status = 200 /\ WellFormedGrant(Outcome(reply[p]))
    BY <1>2, <2>1, OutcomeType
  <2>3. PICK d \in ruled : /\ d.question = ask[p] /\ d.response = reply[p]
                           /\ since[p] <= d.at
    BY <1>2 DEF IInv, RepliesRuled
  <2>4. d.at \in Nat /\ d \in ruled'
    BY CacheStep DEF IInv, TypeOK, Rulings, Instants
  <2>5. Timeout > 0 => now + TTL <= d.at + Timeout + TTL
    BY <1>2, <2>1, <2>3, <2>4 DEF IInv, CallsInTime
  <2>6. /\ CacheKey(ask[p]) \in Keys
        /\ cache'[CacheKey(ask[p])] = [result |-> Outcome(reply[p]), expires |-> now + TTL]
        /\ \A k \in Keys : k # CacheKey(ask[p]) => cache'[k] = cache[k]
    BY <1>2, <2>1 DEF Keys
  <2>7. EntriesWellFormed'
    BY <2>2, <2>6 DEF IInv, EntriesWellFormed
  <2>8. ASSUME NEW q \in Questions, cache'[CacheKey(q)] # NoEntry
        PROVE  \E e \in ruled' :
                  /\ e.question = q
                  /\ e.response.status = 200
                  /\ Outcome(e.response) = cache'[CacheKey(q)].result
                  /\ Timeout > 0 => cache'[CacheKey(q)].expires <= e.at + Timeout + TTL
    <3>1. CASE q = ask[p]
      BY <2>2, <2>3, <2>4, <2>5, <2>6, <3>1
    <3>2. CASE q # ask[p]
      <4>1. CacheKey(q) # CacheKey(ask[p])
        BY <2>1, <3>2, CacheKeyInjective
      <4>2. CacheKey(q) \in Keys /\ cache'[CacheKey(q)] = cache[CacheKey(q)]
        BY <2>6, <4>1 DEF Keys
      <4> QED
        BY <2>8, <4>2, CacheStep DEF IInv, EntriesRuled
    <3> QED
      BY <3>1, <3>2
  <2> QED
    BY <2>7, <2>8 DEF EntriesRuled
<1> QED
  BY <1>1, <1>2, CacheStep

\* How a slot comes to hold an answer.
LEMMA AnswerStep ==
    ASSUME IInv, [Next]_vars, NEW p \in Requests, pc'[p] = "answered"
    PROVE  \/ pc[p] = "answered" /\ answer'[p] = answer[p]
           \/ answer'[p] = Failure("invalid")
           \/ /\ \E q \in Questions :
                    Hit(CacheKey(q)) /\ ask'[p] = q /\ answer'[p] = cache[CacheKey(q)].result
              /\ pc[p] = "idle"
           \/ /\ pc[p] = "decided" /\ ask'[p] = ask[p] /\ ruled' = ruled
              /\ answer'[p] = Outcome(reply[p])
<1> USE DEF IInv, TypeOK
<1>1. ASSUME NEW o \in Requests, NEW q \in Questions, Authenticate(o, q)
      PROVE  \/ pc[p] = "answered" /\ answer'[p] = answer[p]
             \/ /\ Hit(CacheKey(q)) /\ ask'[p] = q /\ answer'[p] = cache[CacheKey(q)].result
                /\ pc[p] = "idle"
  BY <1>1 DEF Authenticate
<1>2. ASSUME NEW o \in Requests, NEW r \in Responses, Decide(o, r)
      PROVE  pc[p] = "answered" /\ answer'[p] = answer[p]
  BY <1>2 DEF Decide
<1>3. ASSUME NEW o \in Requests, Receive(o)
      PROVE  \/ pc[p] = "answered" /\ answer'[p] = answer[p]
             \/ /\ pc[p] = "decided" /\ ask'[p] = ask[p] /\ ruled' = ruled
                /\ answer'[p] = Outcome(reply[p])
  BY <1>3 DEF Receive
<1>4. ASSUME NEW o \in Requests, Fail(o)
      PROVE  \/ pc[p] = "answered" /\ answer'[p] = answer[p]
             \/ answer'[p] = Failure("invalid")
  BY <1>4 DEF Fail
<1>5. ASSUME NEW o \in Requests, Finish(o)
      PROVE  pc[p] = "answered" /\ answer'[p] = answer[p]
  BY <1>5 DEF Finish
<1>6. ASSUME Tick \/ Janitor \/ UNCHANGED vars
      PROVE  pc[p] = "answered" /\ answer'[p] = answer[p]
  BY <1>6 DEF Tick, Janitor, vars
<1> QED
  BY <1>1, <1>2, <1>3, <1>4, <1>5, <1>6 DEF Next, Expire

\* A grant returned is well-formed.
LEMMA GrantsWellFormedStep == IInv /\ [Next]_vars => GrantsWellFormed'
<1> SUFFICES ASSUME IInv, [Next]_vars, NEW p \in Requests,
                    pc'[p] = "answered", answer'[p].err = "none"
             PROVE  WellFormedGrant(answer'[p])
  BY DEF GrantsWellFormed
<1>1. CASE pc[p] = "answered" /\ answer'[p] = answer[p]
  BY <1>1 DEF IInv, GrantsWellFormed
<1>2. CASE answer'[p] = Failure("invalid")
  BY <1>2 DEF Failure
<1>3. CASE \E q \in Questions : Hit(CacheKey(q)) /\ answer'[p] = cache[CacheKey(q)].result
  BY <1>3, HitGrant
<1>4. CASE answer'[p] = Outcome(reply[p])
  BY <1>4, OutcomeType DEF IInv, TypeOK
<1> QED
  BY <1>1, <1>2, <1>3, <1>4, AnswerStep

\* The invariant holds throughout.
LEMMA InductiveInvariant == Spec => []IInv
<1>1. IInv /\ [Next]_vars => IInv'
  BY TypeStep, CallsInTimeStep, RepliesRuledStep, EntriesStep, GrantsWellFormedStep DEF IInv
<1> QED
  BY InitIInv, <1>1, PTL DEF Spec

-----------------------------------------------------------------------------
(* The results *)

\* Every variable keeps its type; in particular only grants are ever cached.
THEOREM TypeCorrect == Spec => []TypeOK
<1>1. IInv => TypeOK
  BY DEF IInv
<1> QED
  BY <1>1, InductiveInvariant, PTL

\* forward.go and NewAuthResult: no request proceeds with a grant that names no
\* tenant, repeats one or restricts a tenant it does not grant, whether the
\* grant comes from the service or from the cache.
THEOREM GrantsAreWellFormed == Spec => []GrantsWellFormed
<1>1. IInv => GrantsWellFormed
  BY DEF IInv
<1> QED
  BY <1>1, InductiveInvariant, PTL

\* forward.go: a grant is at most Timeout + TTL older than a ruling of the
\* service on the same credential and scope, for every interleaving of calls.
THEOREM GrantsAreBounded == Spec => GrantsBounded
<1> DEFINE Bounded(p) ==
      Answers(p) /\ answer'[p].err = "none" =>
         \E d \in ruled' :
            /\ d.question = ask'[p]
            /\ d.response.status = 200
            /\ Outcome(d.response) = answer'[p]
            /\ Timeout > 0 => now <= d.at + Timeout + TTL
<1>1. ASSUME IInv, [Next]_vars, NEW p \in Requests PROVE Bounded(p)
  <2> SUFFICES ASSUME Answers(p), answer'[p].err = "none"
               PROVE  \E d \in ruled' :
                         /\ d.question = ask'[p]
                         /\ d.response.status = 200
                         /\ Outcome(d.response) = answer'[p]
                         /\ Timeout > 0 => now <= d.at + Timeout + TTL
    OBVIOUS
  <2>1. ruled \subseteq ruled'
    BY <1>1, CacheStep
  <2>2. CASE answer'[p] = Failure("invalid")
    BY <2>2 DEF Failure
  <2>3. ASSUME NEW q \in Questions, Hit(CacheKey(q)), ask'[p] = q,
               answer'[p] = cache[CacheKey(q)].result
        PROVE  \E d \in ruled' :
                  /\ d.question = ask'[p]
                  /\ d.response.status = 200
                  /\ Outcome(d.response) = answer'[p]
                  /\ Timeout > 0 => now <= d.at + Timeout + TTL
    BY <1>1, <2>1, <2>3, HitGrant
  <2>4. CASE /\ pc[p] = "decided" /\ ask'[p] = ask[p]
             /\ answer'[p] = Outcome(reply[p])
    <3>1. PICK d \in ruled : /\ d.question = ask[p] /\ d.response = reply[p]
                             /\ since[p] <= d.at /\ d.at <= now
      BY <1>1, <2>4 DEF IInv, RepliesRuled
    <3>2. d.response.status = 200
      BY <1>1, <2>4, <3>1, OutcomeType DEF IInv, TypeOK
    <3>3. d.at \in Nat /\ now \in Nat /\ since[p] \in Nat
      BY <1>1, TimeAssumption DEF IInv, TypeOK, Rulings, Instants
    <3>4. Timeout > 0 => now <= d.at + Timeout + TTL
      BY <1>1, <2>4, <3>1, <3>3, TimeAssumption DEF IInv, CallsInTime
    <3> QED
      BY <2>1, <2>4, <3>1, <3>2, <3>4
  <2> QED
    BY <1>1, <2>2, <2>3, <2>4, AnswerStep DEF Answers
<1>2. IInv /\ [Next]_vars => [\A p \in Requests : Bounded(p)]_vars
  BY <1>1
<1> QED
  BY <1>2, InductiveInvariant, PTL DEF Spec, GrantsBounded

\* forward.go: 401 and 403 are never remembered. Whoever is refused was refused
\* by the service during the call that asked.
THEOREM DenialsAreFresh == Spec => DenialsFresh
<1> DEFINE Fresh(p) ==
      Answers(p) /\ answer'[p].err \in {"unauthorized", "forbidden"} =>
         \E d \in ruled' :
            /\ d.question = ask'[p]
            /\ d.response.status \in {401, 403}
            /\ Outcome(d.response) = answer'[p]
            /\ pc[p] = "decided" /\ d.at >= since[p]
<1>1. ASSUME IInv, [Next]_vars, NEW p \in Requests PROVE Fresh(p)
  <2> SUFFICES ASSUME Answers(p), answer'[p].err \in {"unauthorized", "forbidden"}
               PROVE  \E d \in ruled' :
                         /\ d.question = ask'[p]
                         /\ d.response.status \in {401, 403}
                         /\ Outcome(d.response) = answer'[p]
                         /\ pc[p] = "decided" /\ d.at >= since[p]
    OBVIOUS
  <2>1. answer'[p] # Failure("invalid")
    BY DEF Failure
  <2>2. ~ \E q \in Questions : Hit(CacheKey(q)) /\ answer'[p] = cache[CacheKey(q)].result
    BY <1>1, HitGrant DEF Grants
  <2>3. /\ pc[p] = "decided" /\ ask'[p] = ask[p] /\ ruled' = ruled
        /\ answer'[p] = Outcome(reply[p])
    BY <1>1, <2>1, <2>2, AnswerStep DEF Answers
  <2>4. PICK d \in ruled : /\ d.question = ask[p] /\ d.response = reply[p]
                           /\ since[p] <= d.at
    BY <1>1, <2>3 DEF IInv, RepliesRuled
  <2>5. d.response.status \in {401, 403}
    BY <1>1, <2>3, <2>4, OutcomeType DEF IInv, TypeOK
  <2>6. d.at \in Nat /\ since[p] \in Nat
    BY <1>1, TimeAssumption DEF IInv, TypeOK, Rulings, Instants
  <2> QED
    BY <2>3, <2>4, <2>5, <2>6
<1>2. IInv /\ [Next]_vars => [\A p \in Requests : Fresh(p)]_vars
  BY <1>1
<1> QED
  BY <1>2, InductiveInvariant, PTL DEF Spec, DenialsFresh
===============================================================================
