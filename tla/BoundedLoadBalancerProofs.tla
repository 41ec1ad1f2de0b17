---------------------- MODULE BoundedLoadBalancerProofs ----------------------
(* Proofs about the bounded-load balancer: for any number of addresses, RPCs  *)
(* and pickers its counters are exact until a stale RPC is subtracted, and an *)
(* undisturbed Pick avoids overloaded connections if it can.                  *)
EXTENDS BoundedLoadBalancer, FiniteSetTheorems, SequenceTheorems, WellFoundedInduction, TLAPS

PickRecords ==
    [picker : 0 .. MaxPickers, threshold : 0 .. Word - 1,
     tries : 0 .. Cardinality(Addrs), addr : Addrs \cup {NoAddr}]

\* Pickers list addresses, no more than there are.
PickersFit ==
    /\ Len(pickers) <= MaxPickers
    /\ \A k \in 1 .. Len(pickers) : Len(pickers[k].addrs) <= Cardinality(Addrs)

\* A Pick in progress is within its picker's connections, and has one at its end.
PicksFit ==
    \A r \in RPCs :
        /\ pc[r] \in {"picked", "stream"} => pick[r].addr \in Addrs
        /\ pc[r] = "picking" =>
              /\ pick[r].picker \in 1 .. Len(pickers)
              /\ pick[r].tries < Len(pickers[pick[r].picker].addrs)

\* RPCs without an address are not stale, and those of an address that is not
\* tracked are.
Staleness ==
    \A r \in RPCs :
        /\ rpcAddr[r] = NoAddr => r \notin stale
        /\ rpcAddr[r] # NoAddr /\ rpcAddr[r] \notin tracked => r \in stale

\* The connections that an undisturbed Pick has tried since its picker's index
\* was last 0 are overloaded.
Tried ==
    \A r \in RPCs : solo = r /\ pc[r] = "picking" =>
        LET p == pickers[pick[r].picker]
        IN  \A j \in 0 .. pick[r].tries - 1 :
                p.next >= j =>
                    IsOverloaded(p.addrs[((p.next - j) % Len(p.addrs)) + 1], pick[r].threshold)

IInv == TypeOK /\ PickersFit /\ PicksFit /\ Staleness /\ CountsExact /\ Tried

-----------------------------------------------------------------------------
(* Facts about the constants and the operators *)

\* What is assumed of the constants.
LEMMA Sizes ==
    /\ Word \in Nat \ {0} /\ IndexWord \in Nat \ {0}
    /\ Cardinality(Addrs) \in Nat /\ Cardinality(RPCs) \in Nat /\ Cardinality(RPCs) < Word
    /\ Cardinality(Addrs) <= IndexWord /\ MaxPickers \in Nat
BY BalancerAssumption, FS_CardinalityType

\* The counters' arithmetic stays in their range, and is exact where it does
\* not overflow.
LEMMA WordArithmetic ==
    ASSUME NEW n \in 0 .. Word - 1, NEW m \in 0 .. Word - 1
    PROVE  /\ Plus(n, m) \in 0 .. Word - 1 /\ Minus(n, m) \in 0 .. Word - 1
           /\ n + m < Word => Plus(n, m) = n + m
           /\ n >= m => Minus(n, m) = n - m
BY Sizes DEF Plus, Minus

\* The number of RPCs in a set, with one more and one less.
LEMMA RPCSets ==
    ASSUME NEW S \in SUBSET RPCs, NEW r \in RPCs
    PROVE  /\ IsFiniteSet(S) /\ Cardinality(S) \in 0 .. Cardinality(RPCs)
           /\ r \notin S => Cardinality(S \cup {r}) = Cardinality(S) + 1
           /\ r \in S => Cardinality(S \ {r}) = Cardinality(S) - 1 /\ Cardinality(S) > 0
<1>1. IsFiniteSet(S) /\ Cardinality(S) <= Cardinality(RPCs)
  BY BalancerAssumption, FS_Subset
<1>2. Cardinality(S) \in Nat
  BY <1>1, FS_CardinalityType
<1>3. r \notin S => Cardinality(S \cup {r}) = Cardinality(S) + 1
  BY <1>1, FS_AddElement
<1>4. ASSUME r \in S PROVE Cardinality(S \ {r}) = Cardinality(S) - 1 /\ Cardinality(S) > 0
  <2>1. Cardinality(S \ {r}) = Cardinality(S) - 1 /\ IsFiniteSet(S \ {r})
    BY <1>1, <1>4, FS_RemoveElement
  <2>2. Cardinality(S \ {r}) \in Nat
    BY <2>1, FS_CardinalityType
  <2>3. QED
    BY <1>2, <2>1, <2>2
<1>5. QED
  BY <1>1, <1>2, <1>3, <1>4, Sizes

\* The next index and connection of a picker that has one.
LEMMA NextInRange ==
    ASSUME TypeOK, NEW k \in 1 .. Len(pickers), Len(pickers[k].addrs) > 0
    PROVE  NextIndex(k) \in 0 .. IndexWord - 1 /\ NextConn(k) \in Addrs
<1>0. pickers \in Seq([addrs : Seq(Addrs), next : 0 .. IndexWord - 1])
  BY DEF TypeOK
<1>1. pickers[k] \in [addrs : Seq(Addrs), next : 0 .. IndexWord - 1]
  BY <1>0, ElementOfSeq, Zenon
<1>2. NextIndex(k) \in 0 .. IndexWord - 1
  BY <1>1, Sizes DEF NextIndex
<1>3. Len(pickers[k].addrs) \in Nat \ {0} /\ pickers[k].addrs \in Seq(Addrs)
  BY <1>1
<1>4. NextIndex(k) \in Nat
  BY <1>2, Sizes
<1>5. (NextIndex(k) % Len(pickers[k].addrs)) + 1 \in 1 .. Len(pickers[k].addrs)
  BY <1>3, <1>4
<1>6. QED
  BY <1>2, <1>3, <1>5 DEF NextConn

\* nextRoundRobinConnection changes the index of one picker.
LEMMA Advance ==
    ASSUME TypeOK, NEW k \in 1 .. Len(pickers), Len(pickers[k].addrs) > 0, AdvanceIndex(k)
    PROVE  /\ pickers' \in Seq([addrs : Seq(Addrs), next : 0 .. IndexWord - 1])
           /\ Len(pickers') = Len(pickers)
           /\ \A l \in 1 .. Len(pickers) : pickers'[l].addrs = pickers[l].addrs
           /\ pickers'[k].next = NextIndex(k)
<1> DEFINE P == [addrs : Seq(Addrs), next : 0 .. IndexWord - 1]
<1>0. pickers \in Seq(P)
  BY DEF TypeOK
<1>1. pickers \in Seq(P) /\ pickers[k] \in P
  BY <1>0, ElementOfSeq, Zenon
<1>2. NextIndex(k) \in 0 .. IndexWord - 1
  BY NextInRange
<1>3. [pickers[k] EXCEPT !.next = NextIndex(k)] \in P
  BY <1>1, <1>2
<1>4. pickers' = [pickers EXCEPT ![k] = [pickers[k] EXCEPT !.next = NextIndex(k)]]
  BY <1>1 DEF AdvanceIndex
<1>5. pickers' \in Seq(P) /\ Len(pickers') = Len(pickers)
  BY <1>1, <1>3, <1>4
<1>6. \A l \in 1 .. Len(pickers) :
        pickers'[l] = IF l = k THEN [pickers[k] EXCEPT !.next = NextIndex(k)] ELSE pickers[l]
  BY <1>1, <1>4
<1>7. \A l \in 1 .. Len(pickers) : pickers'[l].addrs = pickers[l].addrs
  BY <1>1, <1>6
<1>8. pickers'[k].next = NextIndex(k)
  BY <1>1, <1>6
<1>9. QED
  BY <1>5, <1>7, <1>8

\* What picking an address adds is a pick.
LEMMA PickedRecords == \A a \in Addrs \cup {NoAddr} : Picked(a) \in PickRecords
BY Sizes DEF Picked, PickRecords

\* getOverloadThreshold returns a number of the counters' range.
LEMMA ThresholdsInRange == TypeOK => Thresholds \subseteq 0 .. Word - 1
<1> SUFFICES ASSUME TypeOK PROVE Thresholds \subseteq 0 .. Word - 1
  OBVIOUS
<1>1. CASE FactorNum <= FactorDen \/ total = 0 \/ tracked = {}
  BY <1>1, Sizes DEF Thresholds
<1>2. CASE ~(FactorNum <= FactorDen \/ total = 0 \/ tracked = {})
  <2> DEFINE n == total * FactorNum
             d == Cardinality(tracked) * FactorDen
  <2>1. IsFiniteSet(tracked)
    BY BalancerAssumption, FS_Subset DEF TypeOK
  <2>2. Cardinality(tracked) \in Nat \ {0}
    BY <1>2, <2>1, FS_CardinalityType, FS_EmptySet
  <2>3. total \in Nat /\ FactorNum \in Nat /\ FactorDen \in Nat \ {0}
    BY Sizes, BalancerAssumption DEF TypeOK
  <2>4. n \in Nat
    BY <2>3
  <2>5. d \in Nat \ {0}
    BY <2>2, <2>3
  <2> HIDE DEF n, d
  <2>6. Ceil(n, d) \in Nat
    BY <2>4, <2>5 DEF Ceil
  <2>7. QED
    BY <1>2, <2>6, Sizes DEF Thresholds, n, d
<1>3. QED
  BY <1>1, <1>2

-----------------------------------------------------------------------------
(* The inductive invariant *)

\* At the start there is no picker and nothing in flight.
LEMMA InitInv == Init => IInv
<1> SUFFICES ASSUME Init PROVE IInv
  OBVIOUS
<1>1. NoPick \in PickRecords
  BY PickedRecords DEF NoPick
<1>2. TypeOK
  <2>1. /\ conns \in [Addrs -> Nat] /\ \A a \in Addrs : conns[a] <= MaxConns[a]
        /\ tracked = {a \in Addrs : conns[a] > 0}
    BY BalancerAssumption DEF Init
  <2>2. inflight \in [Addrs -> 0 .. Word - 1] /\ total \in 0 .. Word - 1
    BY Sizes DEF Init
  <2>3. pickers \in Seq([addrs : Seq(Addrs), next : 0 .. IndexWord - 1])
    BY DEF Init
  <2>4. pick \in [RPCs -> PickRecords]
    BY <1>1 DEF Init
  <2>5. /\ rpcAddr \in [RPCs -> Addrs \cup {NoAddr}]
        /\ pc \in [RPCs -> {"idle", "picking", "picked", "stream", "sent"}]
        /\ stale \in SUBSET RPCs /\ damaged \in SUBSET Addrs /\ solo \in RPCs \cup {NoRPC}
    BY DEF Init
  <2>6. QED
    BY <2>1, <2>2, <2>3, <2>4, <2>5 DEF TypeOK, PickRecords
<1>3. PickersFit /\ PicksFit /\ Staleness /\ CountsExact
  BY Sizes DEF Init, PickersFit, PicksFit, Staleness, CountsExact
<1>4. Tried
  BY BalancerAssumption DEF Init, Tried
<1>5. QED
  BY <1>2, <1>3, <1>4 DEF IInv

\* What leaves the pickers alone, or the statistics, or ends every undisturbed
\* Pick, keeps the parts that are about them.
LEMMA Frames ==
    /\ IInv /\ UNCHANGED <<pickers, pc, pick>> => PickersFit' /\ PicksFit'
    /\ IInv /\ UNCHANGED statsVars => Staleness' /\ CountsExact'
    /\ solo' = NoRPC => Tried'
<1>1. IInv /\ UNCHANGED <<pickers, pc, pick>> => PickersFit' /\ PicksFit'
  BY DEF IInv, PickersFit, PicksFit
<1>2. IInv /\ UNCHANGED statsVars => Staleness' /\ CountsExact'
  BY DEF IInv, Staleness, CountsExact, statsVars
<1>3. solo' = NoRPC => Tried'
  BY BalancerAssumption DEF Tried
<1>4. QED
  BY <1>1, <1>2, <1>3

\* A new connection counts at its address only.
LEMMA ConnBeginInv == ASSUME IInv, NEW a \in Addrs, ConnBegin(a) PROVE IInv'
<1>1. /\ conns[a] < MaxConns[a] /\ conns' = [conns EXCEPT ![a] = @ + 1]
      /\ tracked' = tracked \cup {a}
      /\ inflight' = [inflight EXCEPT ![a] = IF a \in tracked THEN @ ELSE 0]
      /\ solo' = NoRPC
      /\ UNCHANGED <<total, rpcAddr, stale, damaged, pickers, pc, pick>>
  BY DEF ConnBegin
<1>2. /\ conns \in [Addrs -> Nat] /\ \A b \in Addrs : conns[b] <= MaxConns[b]
      /\ tracked = {b \in Addrs : conns[b] > 0} /\ inflight \in [Addrs -> 0 .. Word - 1]
      /\ MaxConns \in [Addrs -> Nat]
  BY BalancerAssumption DEF IInv, TypeOK
<1>3. TypeOK'
  <2>1. /\ conns' \in [Addrs -> Nat] /\ \A b \in Addrs : conns'[b] <= MaxConns'[b]
        /\ tracked' = {b \in Addrs : conns'[b] > 0}
    BY <1>1, <1>2
  <2>2. inflight' \in [Addrs -> 0 .. Word - 1]
    BY <1>1, <1>2, Sizes
  <2>3. QED
    BY <1>1, <2>1, <2>2 DEF IInv, TypeOK
<1>4. Staleness'
  BY <1>1 DEF IInv, Staleness
<1>5. CountsExact'
  <2> SUFFICES ASSUME NEW b \in tracked' \ damaged'
               PROVE  inflight'[b] = Cardinality({r \in RPCs : rpcAddr[r] = b /\ r \notin stale})
    BY <1>1 DEF CountsExact
  <2>1. CASE b \in tracked
    <3>1. inflight'[b] = inflight[b]
      BY <1>1, <1>2, <2>1
    <3>2. QED
      BY <1>1, <2>1, <3>1 DEF IInv, CountsExact
  <2>2. CASE b \notin tracked
    <3>1. b = a /\ inflight'[b] = 0
      BY <1>1, <1>2, <2>2
    <3>2. a # NoAddr
      BY BalancerAssumption
    <3>3. {r \in RPCs : rpcAddr[r] = b /\ r \notin stale} = {}
      BY <2>2, <3>1, <3>2 DEF IInv, Staleness
    <3>4. QED
      BY <3>1, <3>3, FS_EmptySet
  <2>3. QED
    BY <2>1, <2>2
<1>6. QED
  BY <1>1, <1>3, <1>4, <1>5, Frames DEF IInv

\* The last connection of an address takes its count along.
LEMMA ConnEndInv == ASSUME IInv, NEW a \in Addrs, ConnEnd(a) PROVE IInv'
<1>1. /\ conns[a] > 0 /\ conns' = [conns EXCEPT ![a] = @ - 1] /\ solo' = NoRPC
      /\ UNCHANGED <<rpcAddr, pickers, pc, pick>>
  BY DEF ConnEnd
<1>2. /\ conns \in [Addrs -> Nat] /\ \A b \in Addrs : conns[b] <= MaxConns[b]
      /\ tracked = {b \in Addrs : conns[b] > 0} /\ inflight \in [Addrs -> 0 .. Word - 1]
      /\ MaxConns \in [Addrs -> Nat]
  BY BalancerAssumption DEF IInv, TypeOK
<1>3. conns' \in [Addrs -> Nat] /\ \A b \in Addrs : conns'[b] <= MaxConns'[b]
  BY <1>1, <1>2
<1>4. CASE /\ conns[a] = 1 /\ tracked' = tracked \ {a} /\ inflight' = [inflight EXCEPT ![a] = 0]
           /\ total' = Minus(total, inflight[a])
           /\ stale' = stale \cup {r \in RPCs : rpcAddr[r] = a} /\ damaged' = damaged \ {a}
  <2>1. tracked' = {b \in Addrs : conns'[b] > 0}
    BY <1>1, <1>2, <1>4
  <2>2. inflight' \in [Addrs -> 0 .. Word - 1]
    BY <1>2, <1>4, Sizes
  <2>3. total' \in 0 .. Word - 1
    BY <1>2, <1>4, WordArithmetic DEF IInv, TypeOK
  <2>4. TypeOK'
    BY <1>1, <1>3, <1>4, <2>1, <2>2, <2>3 DEF IInv, TypeOK
  <2>5. Staleness'
    <3>1. a # NoAddr
      BY BalancerAssumption
    <3>2. QED
      BY <1>1, <1>4, <3>1 DEF IInv, Staleness
  <2>6. CountsExact'
    <3> SUFFICES ASSUME NEW b \in tracked' \ damaged'
                 PROVE  inflight'[b] = Cardinality({r \in RPCs : rpcAddr[r] = b /\ r \notin stale'})
      BY <1>1 DEF CountsExact
    <3>1. b # a /\ b \in tracked \ damaged /\ inflight'[b] = inflight[b]
      BY <1>2, <1>4
    <3>2. {r \in RPCs : rpcAddr[r] = b /\ r \notin stale'} = {r \in RPCs : rpcAddr[r] = b /\ r \notin stale}
      BY <1>4, <3>1
    <3>3. QED
      BY <3>1, <3>2 DEF IInv, CountsExact
  <2>7. QED
    BY <1>1, <2>4, <2>5, <2>6, Frames DEF IInv
<1>5. CASE conns[a] # 1 /\ UNCHANGED <<tracked, inflight, total, stale, damaged>>
  <2>1. tracked' = {b \in Addrs : conns'[b] > 0}
    BY <1>1, <1>2, <1>5
  <2>2. TypeOK'
    BY <1>1, <1>3, <1>5, <2>1 DEF IInv, TypeOK
  <2>3. Staleness' /\ CountsExact'
    BY <1>1, <1>5 DEF IInv, Staleness, CountsExact
  <2>4. QED
    BY <1>1, <2>2, <2>3, Frames DEF IInv
<1>6. QED
  BY <1>4, <1>5 DEF ConnEnd, LastConn, Forget

\* A call gets its stream, or picks again.
LEMMA NewStreamInv == ASSUME IInv, NEW r \in RPCs, NewStream(r) PROVE IInv'
<1>1. pc[r] = "picked" /\ solo' = NoRPC /\ UNCHANGED <<statsVars, pickers>>
  BY DEF NewStream
<1>2. /\ pc \in [RPCs -> {"idle", "picking", "picked", "stream", "sent"}]
      /\ pick \in [RPCs -> PickRecords]
  BY DEF IInv, TypeOK, PickRecords
<1>3. \/ pc' = [pc EXCEPT ![r] = "stream"] /\ pick' = pick
      \/ pc' = [pc EXCEPT ![r] = "idle"] /\ pick' = [pick EXCEPT ![r] = NoPick]
  BY DEF NewStream
<1>4. /\ pc' \in [RPCs -> {"idle", "picking", "picked", "stream", "sent"}]
      /\ pick' \in [RPCs -> PickRecords]
  BY <1>2, <1>3, PickedRecords DEF NoPick
<1>5. TypeOK'
  BY <1>1, <1>4 DEF IInv, TypeOK, PickRecords, statsVars
<1>6. PickersFit' /\ PicksFit'
  BY <1>1, <1>2, <1>3 DEF IInv, PickersFit, PicksFit
<1>7. QED
  BY <1>1, <1>5, <1>6, Frames DEF IInv

\* A call that is tried again stays counted where it was.
LEMMA RetryInv == ASSUME IInv, NEW r \in RPCs, Retry(r) PROVE IInv'
<1>1. /\ pc' = [pc EXCEPT ![r] = "idle"] /\ solo' = NoRPC
      /\ UNCHANGED <<statsVars, pickers, pick>>
  BY DEF Retry
<1>2. pc \in [RPCs -> {"idle", "picking", "picked", "stream", "sent"}]
  BY DEF IInv, TypeOK
<1>3. TypeOK'
  BY <1>1, <1>2 DEF IInv, TypeOK, statsVars
<1>4. PickersFit' /\ PicksFit'
  BY <1>1, <1>2 DEF IInv, PickersFit, PicksFit
<1>5. QED
  BY <1>1, <1>3, <1>4, Frames DEF IInv

\* What OutHeader and End do to the RPC's own Pick.
LEMMA PickOver ==
    ASSUME IInv, NEW r \in RPCs, NEW where \in {"idle", "sent"}, pc' = [pc EXCEPT ![r] = where],
           pick' = [pick EXCEPT ![r] = NoPick], UNCHANGED pickers, solo' = NoRPC
    PROVE  /\ pc' \in [RPCs -> {"idle", "picking", "picked", "stream", "sent"}]
           /\ pick' \in [RPCs -> PickRecords]
           /\ PickersFit' /\ PicksFit' /\ Tried'
<1>1. /\ pc \in [RPCs -> {"idle", "picking", "picked", "stream", "sent"}]
      /\ pick \in [RPCs -> PickRecords]
  BY DEF IInv, TypeOK, PickRecords
<1>2. /\ pc' \in [RPCs -> {"idle", "picking", "picked", "stream", "sent"}]
      /\ pick' \in [RPCs -> PickRecords]
  BY <1>1, PickedRecords DEF NoPick
<1>3. PickersFit' /\ PicksFit'
  BY <1>1 DEF IInv, PickersFit, PicksFit
<1>4. QED
  BY <1>2, <1>3, Frames

\* The first header counts the call at the address it was picked for.
LEMMA OutHeaderInv == ASSUME IInv, NEW r \in RPCs, OutHeader(r) PROVE IInv'
<1> DEFINE a == pick[r].addr
<1>1. /\ pc[r] = "stream" /\ pc' = [pc EXCEPT ![r] = "sent"]
      /\ pick' = [pick EXCEPT ![r] = NoPick] /\ solo' = NoRPC
      /\ UNCHANGED <<conns, tracked, damaged, pickers>>
  BY DEF OutHeader
<1>2. /\ pc' \in [RPCs -> {"idle", "picking", "picked", "stream", "sent"}]
      /\ pick' \in [RPCs -> PickRecords] /\ PickersFit' /\ PicksFit' /\ Tried'
  BY <1>1, PickOver
<1>3. a \in Addrs /\ a # NoAddr
  BY <1>1, BalancerAssumption DEF IInv, PicksFit
<1>4. /\ inflight \in [Addrs -> 0 .. Word - 1] /\ total \in 0 .. Word - 1
      /\ rpcAddr \in [RPCs -> Addrs \cup {NoAddr}] /\ tracked \subseteq Addrs /\ stale \in SUBSET RPCs
  BY DEF IInv, TypeOK
<1> HIDE DEF a
<1>5. CASE UNCHANGED <<rpcAddr, inflight, total, stale>>
  <2>1. TypeOK'
    BY <1>1, <1>2, <1>5 DEF IInv, TypeOK, PickRecords
  <2>2. Staleness' /\ CountsExact'
    BY <1>1, <1>5 DEF IInv, Staleness, CountsExact
  <2>3. QED
    BY <1>2, <2>1, <2>2 DEF IInv
<1>6. CASE /\ rpcAddr[r] = NoAddr /\ rpcAddr' = [rpcAddr EXCEPT ![r] = a] /\ a \in tracked
           /\ inflight' = [inflight EXCEPT ![a] = Plus(@, 1)]
           /\ total' = Plus(total, 1) /\ UNCHANGED stale
  <2>1. inflight[a] \in 0 .. Word - 1 /\ Plus(inflight[a], 1) \in 0 .. Word - 1 /\ total' \in 0 .. Word - 1
    BY <1>3, <1>4, <1>6, Sizes DEF Plus
  <2>2. inflight' \in [Addrs -> 0 .. Word - 1] /\ rpcAddr' \in [RPCs -> Addrs \cup {NoAddr}]
    BY <1>3, <1>4, <1>6, <2>1
  <2>3. TypeOK'
    BY <1>1, <1>2, <1>6, <2>1, <2>2 DEF IInv, TypeOK, PickRecords
  <2>4. Staleness'
    BY <1>1, <1>3, <1>4, <1>6 DEF IInv, Staleness
  <2>5. r \notin stale
    BY <1>6 DEF IInv, Staleness
  <2>6. CountsExact'
    <3> SUFFICES ASSUME NEW b \in tracked \ damaged
                 PROVE  inflight'[b] = Cardinality({q \in RPCs : rpcAddr'[q] = b /\ q \notin stale})
      BY <1>1, <1>6 DEF CountsExact
    <3> DEFINE S == {q \in RPCs : rpcAddr[q] = b /\ q \notin stale}
    <3>1. inflight[b] = Cardinality(S) /\ b # NoAddr
      BY <1>4, BalancerAssumption DEF IInv, CountsExact
    <3>2. CASE b # a
      <4>1. {q \in RPCs : rpcAddr'[q] = b /\ q \notin stale} = S
        BY <1>4, <1>6, <3>1, <3>2
      <4>2. inflight'[b] = inflight[b]
        BY <1>4, <1>6, <3>2
      <4>3. QED
        BY <3>1, <4>1, <4>2
    <3>3. CASE b = a
      <4>1. {q \in RPCs : rpcAddr'[q] = b /\ q \notin stale} = S \cup {r} /\ r \notin S
        BY <1>4, <1>6, <2>5, <3>1, <3>3
      <4>2. /\ Cardinality(S \cup {r}) = Cardinality(S) + 1
            /\ Cardinality(S \cup {r}) \in 0 .. Cardinality(RPCs)
        <5>1. Cardinality(S \cup {r}) = Cardinality(S) + 1
          BY <4>1, RPCSets
        <5>2. S \cup {r} \in SUBSET RPCs
          OBVIOUS
        <5>3. Cardinality(S \cup {r}) \in 0 .. Cardinality(RPCs)
          BY <5>2, RPCSets
        <5>4. QED
          BY <5>1, <5>3
      <4>3. Cardinality(S) \in Nat
        <5>1. S \in SUBSET RPCs
          OBVIOUS
        <5> HIDE DEF S
        <5>2. Cardinality(S) \in 0 .. Cardinality(RPCs)
          BY <5>1, RPCSets
        <5>3. QED
          BY <5>2, Sizes
      <4>4. inflight'[b] = Plus(Cardinality(S), 1)
        <5>1. inflight'[b] = Plus(inflight[b], 1)
          BY <1>3, <1>4, <1>6, <3>3
        <5>2. QED
          BY <3>1, <5>1
      <4> HIDE DEF S
      <4>5. Plus(Cardinality(S), 1) = Cardinality(S) + 1
        BY <4>2, <4>3, Sizes DEF Plus
      <4>6. QED
        BY <4>1, <4>2, <4>4, <4>5
    <3>4. QED
      BY <3>2, <3>3
  <2>7. QED
    BY <1>2, <2>3, <2>4, <2>6 DEF IInv
<1>7. CASE /\ rpcAddr[r] = NoAddr /\ rpcAddr' = [rpcAddr EXCEPT ![r] = a] /\ a \notin tracked
           /\ stale' = stale \cup {r} /\ UNCHANGED <<inflight, total>>
  <2>1. rpcAddr' \in [RPCs -> Addrs \cup {NoAddr}] /\ stale' \in SUBSET RPCs
    BY <1>3, <1>4, <1>7
  <2>2. TypeOK'
    BY <1>1, <1>2, <1>7, <2>1 DEF IInv, TypeOK, PickRecords
  <2>3. Staleness'
    BY <1>1, <1>3, <1>4, <1>7 DEF IInv, Staleness
  <2>4. CountsExact'
    <3> SUFFICES ASSUME NEW b \in tracked \ damaged
                 PROVE  inflight[b] = Cardinality({q \in RPCs : rpcAddr'[q] = b /\ q \notin stale'})
      BY <1>1, <1>7 DEF CountsExact
    <3>1. b # a /\ b # NoAddr
      BY <1>4, <1>7, BalancerAssumption
    <3>2. {q \in RPCs : rpcAddr'[q] = b /\ q \notin stale'} = {q \in RPCs : rpcAddr[q] = b /\ q \notin stale}
      BY <1>4, <1>7, <3>1
    <3>3. QED
      BY <3>2 DEF IInv, CountsExact
  <2>5. QED
    BY <1>2, <2>2, <2>3, <2>4 DEF IInv
<1>8. QED
  BY <1>5, <1>6, <1>7 DEF OutHeader, FirstHeader, a

\* The end takes it off there.
LEMMA EndInv == ASSUME IInv, NEW r \in RPCs, End(r) PROVE IInv'
<1> DEFINE a == rpcAddr[r]
<1>1. /\ pc' = [pc EXCEPT ![r] = "idle"] /\ pick' = [pick EXCEPT ![r] = NoPick]
      /\ rpcAddr' = [rpcAddr EXCEPT ![r] = NoAddr] /\ stale' = stale \ {r}
      /\ solo' = NoRPC /\ UNCHANGED <<conns, tracked, pickers>>
  BY DEF End
<1>2. /\ pc' \in [RPCs -> {"idle", "picking", "picked", "stream", "sent"}]
      /\ pick' \in [RPCs -> PickRecords] /\ PickersFit' /\ PicksFit' /\ Tried'
  BY <1>1, PickOver
<1>3. /\ inflight \in [Addrs -> 0 .. Word - 1] /\ total \in 0 .. Word - 1
      /\ rpcAddr \in [RPCs -> Addrs \cup {NoAddr}] /\ tracked \subseteq Addrs
      /\ stale \in SUBSET RPCs /\ damaged \in SUBSET Addrs
  BY DEF IInv, TypeOK
<1>4. rpcAddr' \in [RPCs -> Addrs \cup {NoAddr}] /\ stale' \in SUBSET RPCs
  BY <1>1, <1>3
<1>5. Staleness'
  BY <1>1, <1>3 DEF IInv, Staleness
\* The other RPCs of an address are what they were.
<1>6. \A b \in Addrs : {q \in RPCs : rpcAddr'[q] = b /\ q \notin stale'}
                         = {q \in RPCs : rpcAddr[q] = b /\ q \notin stale} \ {r}
  BY <1>1, <1>3, BalancerAssumption
<1>7. CASE /\ a \in tracked /\ inflight' = [inflight EXCEPT ![a] = Minus(@, 1)]
           /\ total' = Minus(total, 1)
           /\ damaged' = IF r \in stale THEN damaged \cup {a} ELSE damaged
  <2>1. inflight' \in [Addrs -> 0 .. Word - 1] /\ total' \in 0 .. Word - 1
    BY <1>3, <1>7, Sizes DEF Minus
  <2>2. damaged' \in SUBSET Addrs
    BY <1>3, <1>7
  <2>3. TypeOK'
    BY <1>1, <1>2, <1>4, <2>1, <2>2 DEF IInv, TypeOK, PickRecords
  <2>4. CountsExact'
    <3> SUFFICES ASSUME NEW b \in tracked \ damaged'
                 PROVE  inflight'[b] = Cardinality({q \in RPCs : rpcAddr'[q] = b /\ q \notin stale'})
      BY <1>1 DEF CountsExact
    <3> DEFINE S == {q \in RPCs : rpcAddr[q] = b /\ q \notin stale}
    <3>1. b \in tracked \ damaged /\ b \in Addrs
      BY <1>3, <1>7
    <3>2. inflight[b] = Cardinality(S)
      BY <3>1 DEF IInv, CountsExact
    <3>3. CASE b # a
      <4>1. S \ {r} = S
        BY <3>3
      <4>2. inflight'[b] = inflight[b]
        BY <1>3, <1>7, <3>1, <3>3
      <4>3. QED
        BY <1>6, <3>1, <3>2, <4>1, <4>2
    <3>4. CASE b = a
      <4>1. r \in S
        BY <1>7, <3>4
      <4>2. S \in SUBSET RPCs
        OBVIOUS
      <4>3. {q \in RPCs : rpcAddr'[q] = b /\ q \notin stale'} = S \ {r}
        BY <1>6, <3>1
      <4>4. inflight'[b] = Minus(inflight[b], 1)
        BY <1>3, <1>7, <3>1, <3>4
      <4> HIDE DEF S
      <4>5. /\ Cardinality(S \ {r}) = Cardinality(S) - 1 /\ Cardinality(S) > 0
            /\ Cardinality(S) \in 0 .. Cardinality(RPCs)
        BY <4>1, <4>2, RPCSets
      <4>6. Minus(Cardinality(S), 1) = Cardinality(S) - 1
        BY <4>5, Sizes DEF Minus
      <4>7. QED
        BY <3>2, <4>3, <4>4, <4>5, <4>6
    <3>5. QED
      BY <3>3, <3>4
  <2>5. QED
    BY <1>2, <1>5, <2>3, <2>4 DEF IInv
<1>8. CASE a \notin tracked /\ UNCHANGED <<inflight, total, damaged>>
  <2>1. TypeOK'
    BY <1>1, <1>2, <1>4, <1>8 DEF IInv, TypeOK, PickRecords
  <2>2. CountsExact'
    <3> SUFFICES ASSUME NEW b \in tracked \ damaged
                 PROVE  inflight[b] = Cardinality({q \in RPCs : rpcAddr'[q] = b /\ q \notin stale'})
      BY <1>1, <1>8 DEF CountsExact
    <3>1. {q \in RPCs : rpcAddr[q] = b /\ q \notin stale} \ {r} = {q \in RPCs : rpcAddr[q] = b /\ q \notin stale}
      BY <1>8
    <3>2. b \in Addrs
      BY <1>3
    <3>3. QED
      BY <1>6, <3>1, <3>2 DEF IInv, CountsExact
  <2>3. QED
    BY <1>2, <1>5, <2>1, <2>2 DEF IInv
<1>9. QED
  BY <1>7, <1>8 DEF End, Decrement

\* A new picker has the addresses that are connected.
LEMMA BuildInv == ASSUME IInv, Build PROVE IInv'
<1> DEFINE P == [addrs : Seq(Addrs), next : 0 .. IndexWord - 1]
           up == {a \in Addrs : conns[a] > 0}
<1>1. Len(pickers) < MaxPickers /\ solo' = NoRPC /\ UNCHANGED <<statsVars, pc, pick>>
  BY DEF Build
<1>2. PICK ready \in Sorted(up) : \E start \in StartIndexes(Len(ready)) :
        pickers' = Append(pickers, [addrs |-> ready, next |-> start])
  BY DEF Build
<1>3. PICK start \in StartIndexes(Len(ready)) :
        pickers' = Append(pickers, [addrs |-> ready, next |-> start])
  BY <1>2
<1>4. IsFiniteSet(up) /\ Cardinality(up) <= Cardinality(Addrs)
  BY BalancerAssumption, FS_Subset
<1>5. Cardinality(up) \in Nat
  BY <1>4, FS_CardinalityType
<1>6. ready \in [1 .. Cardinality(up) -> Addrs]
  BY <1>2 DEF Sorted
<1> HIDE DEF up
<1>7. ready \in Seq(Addrs) /\ Len(ready) = Cardinality(up)
  BY <1>5, <1>6
<1>8. start \in 0 .. IndexWord - 1
  BY <1>3, <1>4, <1>5, <1>7, Sizes DEF StartIndexes
<1>9. [addrs |-> ready, next |-> start] \in P
  BY <1>7, <1>8
<1>10. pickers \in Seq(P)
  BY DEF IInv, TypeOK
<1>11. /\ pickers' \in Seq(P) /\ Len(pickers') = Len(pickers) + 1
       /\ \A k \in 1 .. Len(pickers) : pickers'[k] = pickers[k]
       /\ pickers'[Len(pickers) + 1] = [addrs |-> ready, next |-> start]
  BY <1>3, <1>9, <1>10, AppendProperties
<1>12. Len(pickers) \in Nat
  BY <1>10, LenProperties
<1>13. TypeOK'
  BY <1>1, <1>11 DEF IInv, TypeOK, statsVars
<1>14. PickersFit'
  <2>1. Len(pickers') <= MaxPickers
    BY <1>1, <1>11, <1>12, Sizes
  <2>2. ASSUME NEW k \in 1 .. Len(pickers') PROVE Len(pickers'[k].addrs) <= Cardinality(Addrs)
    <3>1. CASE k \in 1 .. Len(pickers)
      BY <1>11, <3>1 DEF IInv, PickersFit
    <3>2. CASE k = Len(pickers) + 1
      <4>1. pickers'[k].addrs = ready
        BY <1>11, <3>2
      <4>2. QED
        BY <1>4, <1>7, <4>1
    <3>3. QED
      BY <1>11, <1>12, <3>1, <3>2
  <2>3. QED
    BY <2>1, <2>2 DEF PickersFit
<1>15. PicksFit'
  <2> SUFFICES ASSUME NEW r \in RPCs
               PROVE  /\ pc[r] \in {"picked", "stream"} => pick[r].addr \in Addrs
                      /\ pc[r] = "picking" =>
                            /\ pick[r].picker \in 1 .. Len(pickers')
                            /\ pick[r].tries < Len(pickers'[pick[r].picker].addrs)
    BY <1>1 DEF PicksFit
  <2>1. /\ pc[r] \in {"picked", "stream"} => pick[r].addr \in Addrs
        /\ pc[r] = "picking" =>
              /\ pick[r].picker \in 1 .. Len(pickers)
              /\ pick[r].tries < Len(pickers[pick[r].picker].addrs)
    BY DEF IInv, PicksFit
  <2>2. ASSUME NEW k \in 1 .. Len(pickers) PROVE k \in 1 .. Len(pickers') /\ pickers'[k] = pickers[k]
    BY <1>11, <1>12
  <2>3. QED
    BY <2>1, <2>2
<1>16. QED
  BY <1>1, <1>13, <1>14, <1>15, Frames DEF IInv

\* A step of a Pick that leaves the lists of the pickers alone.
LEMMA PickStep ==
    ASSUME IInv, NEW r \in RPCs, UNCHANGED statsVars,
           pickers' \in Seq([addrs : Seq(Addrs), next : 0 .. IndexWord - 1]),
           Len(pickers') = Len(pickers),
           \A l \in 1 .. Len(pickers) : pickers'[l].addrs = pickers[l].addrs,
           NEW where \in {"picking", "picked"}, pc' = [pc EXCEPT ![r] = where],
           NEW p \in PickRecords, pick' = [pick EXCEPT ![r] = p],
           solo' \in RPCs \cup {NoRPC},
           where = "picked" => p.addr \in Addrs,
           where = "picking" => p.picker \in 1 .. Len(pickers) /\ p.tries < Len(pickers[p.picker].addrs),
           Tried'
    PROVE  IInv'
<1>1. /\ pc \in [RPCs -> {"idle", "picking", "picked", "stream", "sent"}]
      /\ pick \in [RPCs -> PickRecords]
  BY DEF IInv, TypeOK, PickRecords
<1>2. /\ pc' \in [RPCs -> {"idle", "picking", "picked", "stream", "sent"}]
      /\ pick' \in [RPCs -> PickRecords]
  BY <1>1
<1>3. TypeOK'
  BY <1>2 DEF IInv, TypeOK, PickRecords, statsVars
<1>4. PickersFit'
  BY DEF IInv, PickersFit
<1>5. PicksFit'
  <2> SUFFICES ASSUME NEW q \in RPCs
               PROVE  /\ pc'[q] \in {"picked", "stream"} => pick'[q].addr \in Addrs
                      /\ pc'[q] = "picking" =>
                            /\ pick'[q].picker \in 1 .. Len(pickers)
                            /\ pick'[q].tries < Len(pickers[pick'[q].picker].addrs)
    BY DEF PicksFit
  <2>1. CASE q = r
    <3>1. pc'[q] = where /\ pick'[q] = p
      BY <1>1, <2>1
    <3>2. QED
      BY <3>1
  <2>2. CASE q # r
    <3>1. pc'[q] = pc[q] /\ pick'[q] = pick[q]
      BY <1>1, <2>2
    <3>2. QED
      BY <3>1 DEF IInv, PicksFit
  <2>3. QED
    BY <2>1, <2>2
<1>6. Staleness' /\ CountsExact'
  BY Frames
<1>7. QED
  BY <1>3, <1>4, <1>5, <1>6 DEF IInv

\* A call starts to pick at an index of its picker.
LEMMA PickStartInv == ASSUME IInv, NEW r \in RPCs, PickStart(r) PROVE IInv'
<1> DEFINE k == Len(pickers)
<1>1. pickers # <<>> /\ pickers[k].addrs # <<>> /\ UNCHANGED statsVars
  BY DEF PickStart
<1>2. pickers \in Seq([addrs : Seq(Addrs), next : 0 .. IndexWord - 1]) /\ TypeOK
  BY DEF IInv, TypeOK
<1>3. k \in 1 .. Len(pickers)
  BY <1>1, <1>2, LenProperties, EmptySeq
<1>4. pickers[k] \in [addrs : Seq(Addrs), next : 0 .. IndexWord - 1]
  BY <1>2, <1>3, ElementOfSeq, Zenon
<1>5. Len(pickers[k].addrs) > 0
  BY <1>1, <1>4
<1>6. k \in 0 .. MaxPickers
  BY <1>3, Sizes DEF IInv, PickersFit
<1> HIDE DEF k
<1>7. PICK threshold \in Thresholds :
        \/ /\ AdvanceIndex(k) /\ pc' = [pc EXCEPT ![r] = "picked"]
           /\ pick' = [pick EXCEPT ![r] = Picked(NextConn(k))] /\ solo' = NoRPC
        \/ /\ pc' = [pc EXCEPT ![r] = "picking"]
           /\ pick' = [pick EXCEPT ![r] = [picker |-> k, threshold |-> threshold,
                                           tries |-> 0, addr |-> NoAddr]]
           /\ solo' = r /\ UNCHANGED pickers
  BY DEF PickStart, k
<1>8. CASE /\ AdvanceIndex(k) /\ pc' = [pc EXCEPT ![r] = "picked"]
           /\ pick' = [pick EXCEPT ![r] = Picked(NextConn(k))] /\ solo' = NoRPC
  <2>1. NextConn(k) \in Addrs
    BY <1>2, <1>3, <1>5, NextInRange
  <2>2. Picked(NextConn(k)) \in PickRecords /\ Picked(NextConn(k)).addr = NextConn(k)
    BY <2>1, PickedRecords DEF Picked
  <2>3. /\ pickers' \in Seq([addrs : Seq(Addrs), next : 0 .. IndexWord - 1])
        /\ Len(pickers') = Len(pickers)
        /\ \A l \in 1 .. Len(pickers) : pickers'[l].addrs = pickers[l].addrs
    BY <1>2, <1>3, <1>5, <1>8, Advance
  <2>4. Tried'
    BY <1>8, Frames
  <2> DEFINE p == Picked(NextConn(k))
  <2>5. p \in PickRecords /\ p.addr \in Addrs /\ pick' = [pick EXCEPT ![r] = p]
    BY <1>8, <2>1, <2>2
  <2> HIDE DEF p
  <2>6. QED
    BY <1>1, <1>8, <2>3, <2>4, <2>5, PickStep
<1>9. CASE /\ pc' = [pc EXCEPT ![r] = "picking"]
           /\ pick' = [pick EXCEPT ![r] = [picker |-> k, threshold |-> threshold,
                                           tries |-> 0, addr |-> NoAddr]]
           /\ solo' = r /\ UNCHANGED pickers
  <2> DEFINE p == [picker |-> k, threshold |-> threshold, tries |-> 0, addr |-> NoAddr]
  <2>1. threshold \in 0 .. Word - 1
    BY <1>2, ThresholdsInRange
  <2>2. p \in PickRecords /\ p.picker = k /\ p.tries = 0
    BY <1>6, <2>1, Sizes DEF PickRecords
  <2> HIDE DEF p
  <2>3. pick' = [pick EXCEPT ![r] = p]
    BY <1>9 DEF p
  <2>4. pick'[r] = p
    BY <2>3 DEF IInv, TypeOK
  <2>5. Tried'
    <3> SUFFICES ASSUME NEW q \in RPCs, solo' = q PROVE 0 .. pick'[q].tries - 1 = {}
      BY DEF Tried
    <3>1. pick'[q].tries = 0
      BY <1>9, <2>2, <2>4
    <3>2. QED
      BY <3>1
  <2>6. p.picker \in 1 .. Len(pickers) /\ p.tries < Len(pickers[p.picker].addrs)
    BY <1>3, <1>5, <2>2
  <2>7. QED
    BY <1>1, <1>2, <1>9, <2>2, <2>3, <2>5, <2>6, PickStep
<1>10. QED
  BY <1>7, <1>8, <1>9

\* Each overloaded connection is remembered by its distance from the index.
LEMMA PickTryInv == ASSUME IInv, NEW r \in RPCs, PickTry(r) PROVE IInv'
<1> DEFINE k == pick[r].picker
           a == NextConn(k)
           addrs == pickers[k].addrs
           n == Len(addrs)
<1>1. pc[r] = "picking" /\ AdvanceIndex(k) /\ UNCHANGED statsVars
  BY DEF PickTry
<1>2. TypeOK /\ pick[r] \in PickRecords /\ pick \in [RPCs -> PickRecords]
  BY DEF IInv, TypeOK, PickRecords
<1>3. k \in 1 .. Len(pickers) /\ pick[r].tries < n
  BY <1>1 DEF IInv, PicksFit
<1>4. pick[r].tries \in Nat /\ pick[r].threshold \in 0 .. Word - 1
  BY <1>2, Sizes DEF PickRecords
<1>5. pickers[k] \in [addrs : Seq(Addrs), next : 0 .. IndexWord - 1]
  <2>1. pickers \in Seq([addrs : Seq(Addrs), next : 0 .. IndexWord - 1])
    BY <1>2 DEF TypeOK
  <2>2. QED
    BY <1>3, <2>1, ElementOfSeq, Zenon
<1>6. addrs \in Seq(Addrs) /\ n \in Nat /\ n > 0 /\ n <= Cardinality(Addrs)
  <2>1. n <= Cardinality(Addrs)
    BY <1>3 DEF IInv, PickersFit
  <2>2. addrs \in Seq(Addrs)
    BY <1>5
  <2>3. n \in Nat
    BY <2>2
  <2>4. QED
    BY <1>3, <1>4, <2>1, <2>2, <2>3
<1>7. /\ pickers' \in Seq([addrs : Seq(Addrs), next : 0 .. IndexWord - 1])
      /\ Len(pickers') = Len(pickers)
      /\ \A l \in 1 .. Len(pickers) : pickers'[l].addrs = pickers[l].addrs
      /\ pickers'[k].next = NextIndex(k)
  BY <1>1, <1>2, <1>3, <1>6, Advance
<1>8. a \in Addrs /\ NextIndex(k) \in 0 .. IndexWord - 1
  BY <1>2, <1>3, <1>6, NextInRange
<1>9. \/ /\ pc' = [pc EXCEPT ![r] = "picked"] /\ pick' = [pick EXCEPT ![r] = Picked(a)] /\ solo' = NoRPC
      \/ /\ ~LastTry(r) /\ IsOverloaded(a, pick[r].threshold)
         /\ pick' = [pick EXCEPT ![r].tries = @ + 1]
         /\ solo' = IF solo = r THEN r ELSE NoRPC
         /\ UNCHANGED pc
  BY DEF PickTry
<1>10. CASE /\ pc' = [pc EXCEPT ![r] = "picked"] /\ pick' = [pick EXCEPT ![r] = Picked(a)] /\ solo' = NoRPC
  <2> DEFINE p == Picked(a)
  <2>1. p \in PickRecords /\ p.addr \in Addrs
    BY <1>8, PickedRecords DEF Picked
  <2>2. pick' = [pick EXCEPT ![r] = p]
    BY <1>10
  <2>3. Tried'
    BY <1>10, Frames
  <2> HIDE DEF p
  <2>4. QED
    BY <1>1, <1>7, <1>10, <2>1, <2>2, <2>3, PickStep
<1>11. CASE /\ ~LastTry(r) /\ IsOverloaded(a, pick[r].threshold)
            /\ pick' = [pick EXCEPT ![r].tries = @ + 1]
            /\ solo' = IF solo = r THEN r ELSE NoRPC
            /\ UNCHANGED pc
  <2> DEFINE p == [pick[r] EXCEPT !.tries = @ + 1]
             next == pickers[k].next
             c == NextIndex(k)
  <2>1. pick[r].tries + 1 < n
    <3>1. pick[r].tries + 1 # n
      BY <1>11, Zenon DEF LastTry
    <3> HIDE DEF n, k
    <3>2. QED
      BY <1>3, <1>4, <1>6, <3>1
  <2>2. p \in PickRecords
    <3>1. pick[r].tries + 1 \in 0 .. Cardinality(Addrs)
      <4> HIDE DEF n, k
      <4>1. QED
        BY <1>4, <1>6, <2>1, Sizes
    <3>2. QED
      BY <1>2, <3>1 DEF PickRecords
  <2>3. p.picker = k /\ p.tries = pick[r].tries + 1 /\ p.threshold = pick[r].threshold
    BY <1>2 DEF PickRecords
  <2>4. pick' = [pick EXCEPT ![r] = p] /\ pick'[r] = p
    BY <1>2, <1>11
  <2>5. pc' = [pc EXCEPT ![r] = "picking"]
    BY <1>1, <1>2, <1>11 DEF TypeOK
  <2> HIDE DEF p
  <2>6. Tried'
    <3> SUFFICES ASSUME NEW q \in RPCs, solo' = q,
                        NEW j \in 0 .. pick'[q].tries - 1, pickers'[pick'[q].picker].next >= j
                 PROVE  IsOverloaded(pickers'[pick'[q].picker].addrs
                            [((pickers'[pick'[q].picker].next - j) % Len(pickers'[pick'[q].picker].addrs)) + 1],
                                     pick'[q].threshold)
      BY <1>1 DEF Tried, IsOverloaded, statsVars
    <3>1. q = r /\ solo = r
      BY <1>11, BalancerAssumption
    <3>2. pick'[q].picker = k /\ pick'[q].tries = pick[r].tries + 1 /\ pick'[q].threshold = pick[r].threshold
      BY <2>3, <2>4, <3>1
    <3>3. pickers'[k].addrs = addrs /\ pickers'[k].next = c
      BY <1>3, <1>7
    <3>4. j \in 0 .. pick[r].tries /\ c >= j
      BY <1>4, <3>2, <3>3
    <3>5. IsOverloaded(addrs[((c - j) % n) + 1], pick[r].threshold)
      <4>1. CASE j = 0
        <5>1. addrs[((c - j) % n) + 1] = a
          BY <1>6, <1>8, <4>1 DEF NextConn
        <5>2. QED
          BY <1>11, <5>1
      <4>2. CASE j # 0
        <5>1. next \in 0 .. IndexWord - 1
          BY <1>5
        <5>2. c = next + 1
          BY <1>8, <3>4, <4>2, <5>1, Sizes DEF NextIndex
        <5>3. j - 1 \in 0 .. pick[r].tries - 1 /\ next >= j - 1 /\ next - (j - 1) = c - j
          BY <1>4, <3>4, <4>2, <5>1, <5>2
        <5>4. IsOverloaded(addrs[((next - (j - 1)) % n) + 1], pick[r].threshold)
          BY <1>1, <3>1, <5>3 DEF IInv, Tried
        <5>5. QED
          BY <5>3, <5>4
      <4>3. QED
        BY <4>1, <4>2
    <3>6. QED
      BY <3>2, <3>3, <3>5
  <2>7. p.picker \in 1 .. Len(pickers) /\ p.tries < Len(pickers[p.picker].addrs)
    BY <1>3, <2>1, <2>3, Zenon
  <2>8. solo' \in RPCs \cup {NoRPC}
    <3>1. solo' = r \/ solo' = NoRPC
      BY <1>11, Zenon
    <3>2. QED
      BY <3>1
  <2> HIDE DEF k
  <2>9. QED
    BY <1>1, <1>7, <2>2, <2>4, <2>5, <2>6, <2>7, <2>8, PickStep
<1>12. QED
  BY <1>9, <1>10, <1>11

\* Every step keeps the invariant.
LEMMA NextInv == IInv /\ [Next]_vars => IInv'
<1> SUFFICES ASSUME IInv, [Next]_vars PROVE IInv'
  OBVIOUS
<1>1. CASE UNCHANGED vars
  <2>1. UNCHANGED statsVars /\ UNCHANGED <<pickers, pc, pick, solo>>
    BY <1>1 DEF vars, pickVars
  <2>2. TypeOK'
    BY <2>1 DEF IInv, TypeOK, statsVars
  <2>3. Tried'
    BY <2>1 DEF IInv, Tried, IsOverloaded, statsVars
  <2>4. QED
    BY <2>1, <2>2, <2>3, Frames DEF IInv
<1>2. ASSUME NEW a \in Addrs, ConnBegin(a) \/ ConnEnd(a) PROVE IInv'
  BY <1>2, ConnBeginInv, ConnEndInv
<1>3. ASSUME NEW r \in RPCs, NewStream(r) \/ OutHeader(r) \/ Retry(r) \/ End(r) PROVE IInv'
  BY <1>3, NewStreamInv, OutHeaderInv, RetryInv, EndInv
<1>4. ASSUME NEW r \in RPCs, PickStart(r) \/ PickTry(r) PROVE IInv'
  BY <1>4, PickStartInv, PickTryInv
<1>5. CASE Build
  BY <1>5, BuildInv
<1>6. QED
  BY <1>1, <1>2, <1>3, <1>4, <1>5 DEF Next

\* The invariant holds throughout.
LEMMA Invariance == Spec => []IInv
BY InitInv, NextInv, PTL DEF Spec

-----------------------------------------------------------------------------
(* Theorems *)

\* The counters, indexes and pickers stay in their ranges; the addresses with a
\* counter are those with a connection (HandleConn, Build, Pick).
THEOREM TypeCorrect == Spec => []TypeOK
<1>1. IInv => TypeOK
  BY DEF IInv
<1>2. QED
  BY <1>1, Invariance, PTL

\* HandleRPC and HandleConn: the counter of an address is the number of its RPCs
\* that were tracked from their header on, until an RPC it never counted is
\* subtracted from it.
THEOREM Counts == Spec => []CountsExact
<1>1. IInv => CountsExact
  BY DEF IInv
<1>2. QED
  BY <1>1, Invariance, PTL

\* A multiple of n between -n and n is 0 or n.
LEMMA Multiples ==
    ASSUME NEW n \in Nat \ {0}, NEW d \in Int, n * d > -n, n * d <= n
    PROVE  d = 0 \/ d = 1
<1>1. CASE d <= -1
  <2>1. PICK e \in Nat : d = -1 - e
    <3>1. -1 - d \in Nat /\ d = -1 - (-1 - d)
      BY <1>1
    <3>q. QED
      BY <3>1
  <2>2. n * d = -n - n * e
    BY <2>1
  <2>3. n * e >= 0
    BY <2>1
  <2>q. QED
    BY <2>2, <2>3
<1>2. CASE d >= 2
  <2>1. PICK e \in Nat : d = 2 + e
    <3>1. d - 2 \in Nat /\ d = 2 + (d - 2)
      BY <1>2
    <3>q. QED
      BY <3>1
  <2>2. n * d = n + n + n * e
    BY <2>1
  <2>3. n * e >= 0
    BY <2>1
  <2>q. QED
    BY <2>2, <2>3
<1>3. QED
  BY <1>1, <1>2


\* A remainder is unique.
LEMMA ModOf ==
    ASSUME NEW n \in Nat \ {0}, NEW q \in Int, NEW m \in 0 .. n - 1
    PROVE  (n * q + m) % n = m
<1> DEFINE x == n * q + m
<1>0. n * q \in Int
  OBVIOUS
<1>1. x \in Int /\ x = n * q + m
  BY <1>0
<1> HIDE DEF x
<1>2. x % n \in 0 .. n - 1 /\ x = n * (x \div n) + (x % n) /\ x \div n \in Int
  BY <1>1
<1>3. PICK p \in Int : x = n * p + (x % n)
  BY <1>2
<1>4. n * (q - p) = (x % n) - m
  <2>1. n * (q - p) = n * q - n * p
    OBVIOUS
  <2>2. n * q \in Int /\ n * p \in Int
    OBVIOUS
  <2>3. x % n \in Int
    BY <1>2
  <2>4. n * q = x - m /\ n * p = x - (x % n)
    BY <1>1, <1>3, <2>2, <2>3
  <2>5. QED
    BY <1>1, <2>1, <2>3, <2>4
<1>5. q - p = 0 \/ q - p = 1
  <2>1. n * (q - p) > -n /\ n * (q - p) <= n
    BY <1>2, <1>4
  <2>2. QED
    BY <2>1, Multiples
<1>6. n * (q - p) = 0 \/ n * (q - p) = n
  BY <1>5
<1>7. x % n = m
  <2>1. x % n \in 0 .. n - 1
    BY <1>2
  <2>2. (x % n) - m = 0 \/ (x % n) - m = n
    BY <1>4, <1>6
  <2>3. QED
    BY <2>1, <2>2
<1>8. QED
  BY <1>7 DEF x

\* The last n values of a counter that has not wrapped since pick each of n
\* connections.
LEMMA Covers ==
    ASSUME NEW n \in Nat \ {0}, NEW c \in Nat, c >= n, NEW m \in 0 .. n - 1
    PROVE  \E j \in 0 .. n - 1 : (c - j) % n = m
<1> DEFINE p == c % n
<1>1. p \in 0 .. n - 1 /\ c = n * (c \div n) + p /\ c \div n \in Int
  OBVIOUS
<1> HIDE DEF p
<1>2. PICK q \in Int : c = n * q + p
  BY <1>1
<1>3. n * q \in Int /\ n * (q - 1) = n * q - n
  OBVIOUS
<1>4. CASE m <= p
  <2>1. p - m \in 0 .. n - 1 /\ c - (p - m) = n * q + m
    BY <1>1, <1>2, <1>3, <1>4
  <2>2. (n * q + m) % n = m
    BY ModOf
  <2>3. QED
    BY <2>1, <2>2
<1>5. CASE m > p
  <2>1. p - m + n \in 0 .. n - 1 /\ c - (p - m + n) = n * (q - 1) + m
    BY <1>1, <1>2, <1>3, <1>5
  <2>2. (n * (q - 1) + m) % n = m
    BY ModOf
  <2>3. QED
    BY <2>1, <2>2
<1>6. QED
  BY <1>1, <1>4, <1>5

\* Only PickTry ends a Pick that has begun to look for a connection.
LEMMA PickEnds ==
    ASSUME TypeOK, [Next]_vars, NEW r \in RPCs, pc[r] = "picking", pc'[r] = "picked"
    PROVE  PickTry(r)
<1>1. pc \in [RPCs -> {"idle", "picking", "picked", "stream", "sent"}]
  BY DEF TypeOK
<1>2. pc' # pc
  OBVIOUS
<1>3. ~Build /\ (\A a \in Addrs : ~ConnBegin(a) /\ ~ConnEnd(a)) /\ ~UNCHANGED vars
  BY <1>2 DEF Build, ConnBegin, ConnEnd, vars, pickVars
<1>4. ASSUME NEW q \in RPCs PROVE ~NewStream(q) /\ ~OutHeader(q) /\ ~Retry(q) /\ ~End(q)
  <2>1. NewStream(q) \/ OutHeader(q) \/ Retry(q) \/ End(q) =>
          \E where \in {"idle", "stream", "sent"} : pc' = [pc EXCEPT ![q] = where]
    BY DEF NewStream, OutHeader, Retry, End
  <2>2. ASSUME NEW where \in {"idle", "stream", "sent"}, pc' = [pc EXCEPT ![q] = where] PROVE FALSE
    BY <1>1, <2>2
  <2>3. QED
    BY <2>1, <2>2
<1>5. ASSUME NEW q \in RPCs, PickStart(q) PROVE FALSE
  <2>1. pc[q] = "idle" /\ \E where \in {"picking", "picked"} : pc' = [pc EXCEPT ![q] = where]
    BY <1>5 DEF PickStart
  <2>2. QED
    BY <1>1, <2>1
<1>6. PICK q \in RPCs : PickTry(q)
  BY <1>3, <1>4, <1>5 DEF Next
<1>7. pc' = pc \/ pc' = [pc EXCEPT ![q] = "picked"]
  BY <1>6 DEF PickTry
<1>8. q = r
  BY <1>1, <1>7
<1>9. QED
  BY <1>6, <1>8

\* Pick: while no other goroutine interferes and the picker's index does not
\* wrap, an overloaded connection is taken only if every connection is.
THEOREM AvoidsOverload == Spec => PickAvoidsOverload
<1> DEFINE A == \A r \in RPCs :
              LET k == pick[r].picker
                  t == pick[r].threshold
              IN  /\ pc[r] = "picking" /\ pc'[r] = "picked"
                  /\ solo = r /\ NextIndex(k) > pick[r].tries
                  /\ IsOverloaded(pick'[r].addr, t)
                  => \A j \in DOMAIN pickers[k].addrs : IsOverloaded(pickers[k].addrs[j], t)
<1>1. IInv /\ [Next]_vars => A
  <2> SUFFICES ASSUME IInv, [Next]_vars, NEW r \in RPCs,
                      pc[r] = "picking", pc'[r] = "picked", solo = r,
                      NextIndex(pick[r].picker) > pick[r].tries,
                      IsOverloaded(pick'[r].addr, pick[r].threshold),
                      NEW i \in DOMAIN pickers[pick[r].picker].addrs
               PROVE  IsOverloaded(pickers[pick[r].picker].addrs[i], pick[r].threshold)
    BY Zenon
  <2> DEFINE k == pick[r].picker
             t == pick[r].threshold
             addrs == pickers[k].addrs
             n == Len(addrs)
             next == pickers[k].next
             c == NextIndex(k)
  <2>1. PickTry(r)
    BY PickEnds DEF IInv
  <2>2. TypeOK /\ pick[r] \in PickRecords /\ pick \in [RPCs -> PickRecords]
    BY DEF IInv, TypeOK, PickRecords
  <2>3. pick[r].tries \in Nat
    BY <2>2, Sizes DEF PickRecords
  <2>4. k \in 1 .. Len(pickers) /\ pick[r].tries < n
    BY DEF IInv, PicksFit
  <2>5. pickers[k] \in [addrs : Seq(Addrs), next : 0 .. IndexWord - 1]
    <3>1. pickers \in Seq([addrs : Seq(Addrs), next : 0 .. IndexWord - 1])
      BY <2>2 DEF TypeOK
    <3>2. QED
      BY <2>4, <3>1, ElementOfSeq, Zenon
  <2>6. addrs \in Seq(Addrs) /\ next \in 0 .. IndexWord - 1
    BY <2>5
  <2>7. n \in Nat \ {0} /\ DOMAIN addrs = 1 .. n /\ next \in Nat
    <3>1. n \in Nat /\ DOMAIN addrs = 1 .. n
      BY <2>6, LenProperties
    <3>2. next \in Nat
      BY <2>6, Sizes
    <3> HIDE DEF n, k, addrs, next
    <3>3. QED
      BY <2>3, <2>4, <3>1, <3>2
  <2>8. pick'[r].addr = NextConn(k) /\ LastTry(r)
    <3>1. /\ LastTry(r) \/ ~IsOverloaded(NextConn(k), t)
          /\ pick' = [pick EXCEPT ![r] = Picked(NextConn(k))]
      BY <2>1 DEF PickTry
    <3>2. pick'[r].addr = NextConn(k)
      BY <2>2, <3>1 DEF Picked
    <3>3. QED
      BY <3>1, <3>2
  <2>9. pick[r].tries + 1 = n
    BY <2>8 DEF LastTry
  <2>10. c = next + 1
    <3>1. c = (next + 1) % IndexWord /\ c > pick[r].tries
      BY DEF NextIndex
    <3>2. next \in 0 .. IndexWord - 1
      BY <2>6
    <3> HIDE DEF c, next, addrs, k
    <3>3. CASE next + 1 = IndexWord
      <4>1. c = 0
        BY <3>1, <3>3, Sizes
      <4>2. QED
        BY <2>3, <3>1, <4>1
    <3>4. CASE next + 1 # IndexWord
      BY <3>1, <3>2, <3>4, Sizes
    <3>5. QED
      BY <3>3, <3>4
  <2>11. c >= n /\ c \in Nat
    <3>1. c > pick[r].tries
      OBVIOUS
    <3> HIDE DEF c, next, n
    <3>2. QED
      BY <2>3, <2>7, <2>9, <2>10, <3>1
  <2>12. i - 1 \in 0 .. n - 1 /\ i \in Int
    <3>1. i \in 1 .. n
      BY <2>7
    <3> HIDE DEF n
    <3>2. QED
      BY <2>7, <3>1
  <2>13. \A j \in 0 .. pick[r].tries - 1 : next >= j => IsOverloaded(addrs[((next - j) % n) + 1], t)
    BY DEF IInv, Tried
  <2>14. IsOverloaded(addrs[(c % n) + 1], t)
    BY <2>8 DEF NextConn
  <2> HIDE DEF k, t, addrs, n, next, c
  <2>15. PICK j \in 0 .. n - 1 : (c - j) % n = i - 1
    BY <2>7, <2>11, <2>12, Covers
  <2>16. ((c - j) % n) + 1 = i
    BY <2>12, <2>15
  <2>17. IsOverloaded(addrs[i], t)
    <3>1. CASE j = 0
      <4>1. c - j = c
        BY <2>11, <3>1
      <4>2. QED
        BY <2>14, <2>16, <4>1
    <3>2. CASE j # 0
      <4>1. j - 1 \in 0 .. pick[r].tries - 1 /\ next >= j - 1 /\ next - (j - 1) = c - j
        BY <2>3, <2>7, <2>9, <2>10, <2>11, <3>2
      <4>2. IsOverloaded(addrs[((next - (j - 1)) % n) + 1], t)
        BY <2>13, <4>1
      <4>3. QED
        BY <2>16, <4>1, <4>2
    <3>3. QED
      BY <3>1, <3>2
  <2>18. QED
    BY <2>17 DEF addrs, t, k
<1>2. QED
  BY <1>1, Invariance, PTL DEF Spec, PickAvoidsOverload

-----------------------------------------------------------------------------
(* Induction *)

\* A set of natural numbers that is not empty has a least element.
LEMMA LeastElement ==
    ASSUME NEW S, S \subseteq Nat, S # {}
    PROVE  \E x \in S : \A y \in S : x <= y
<1> DEFINE R == OpToRel(<, Nat)
<1>1. IsWellFoundedOn(R, Nat)
  BY NatLessThanWellFounded
<1>2. PICK x \in S : \A y \in S : ~ (<<y, x>> \in R)
  <2> HIDE DEF R
  <2> QED
    BY <1>1, WFMin
<1>3. ASSUME NEW y \in S PROVE x <= y
  <2>1. x \in Nat /\ y \in Nat
    OBVIOUS
  <2>2. <<y, x>> \in R <=> y < x
    BY <2>1 DEF OpToRel
  <2> HIDE DEF R
  <2>3. QED
    BY <1>2, <2>1, <2>2
<1>4. QED
  BY <1>3

\* Induction over the natural numbers, for a set.
LEMMA Induction ==
    ASSUME NEW S, 0 \in S, \A n \in Nat : n \in S => n + 1 \in S
    PROVE  \A n \in Nat : n \in S
<1> DEFINE T == Nat \ S
<1> SUFFICES ASSUME T # {} PROVE FALSE
  OBVIOUS
<1>1. PICK x \in T : \A y \in T : x <= y
  BY LeastElement
<1>2. x - 1 \in Nat /\ x - 1 \notin T /\ (x - 1) + 1 = x
  BY <1>1
<1>3. QED
  BY <1>1, <1>2

\* Induction over the subsets of a finite set, by taking out an element.
LEMMA SetInduction ==
    ASSUME NEW T, IsFiniteSet(T), NEW S,
           \A s \in SUBSET T : (\A x \in s : s \ {x} \in S) => s \in S
    PROVE  \A s \in SUBSET T : s \in S
<1> DEFINE N == {n \in Nat : \A s \in SUBSET T : Cardinality(s) = n => s \in S}
<1>1. ASSUME NEW s \in SUBSET T
      PROVE  /\ IsFiniteSet(s) /\ Cardinality(s) \in Nat
             /\ \A x \in s : s \ {x} \in SUBSET T /\ Cardinality(s \ {x}) = Cardinality(s) - 1
  <2>1. IsFiniteSet(s)
    BY FS_Subset
  <2>2. QED
    BY <2>1, FS_CardinalityType, FS_RemoveElement
<1>2. 0 \in N
  <2>1. ASSUME NEW s \in SUBSET T, Cardinality(s) = 0 PROVE s \in S
    <3>1. s = {}
      BY <1>1, <2>1, FS_EmptySet
    <3>2. QED
      BY <3>1
  <2>2. QED
    BY <2>1
<1>3. ASSUME NEW n \in Nat, n \in N PROVE n + 1 \in N
  <2>1. ASSUME NEW s \in SUBSET T, Cardinality(s) = n + 1 PROVE s \in S
    <3>1. ASSUME NEW x \in s PROVE s \ {x} \in S
      <4>1. s \ {x} \in SUBSET T /\ Cardinality(s \ {x}) = n
        BY <1>1, <2>1
      <4>2. QED
        BY <1>3, <4>1
    <3>2. QED
      BY <3>1
  <2>2. QED
    BY <2>1
<1> HIDE DEF N
<1>4. \A n \in Nat : n \in N
  BY <1>2, <1>3, Induction
<1>5. QED
  BY <1>1, <1>4 DEF N

-----------------------------------------------------------------------------
(* Sums *)

Any(s) == CHOOSE x \in s : TRUE

\* g is the sum of f over each of the sets of X, taking out any element first.
Sums(g, f, X) ==
    g = [s \in X |-> IF s = {} THEN 0 ELSE f[Any(s)] + g[s \ {Any(s)}]]

SumOver(f, S) == MapThenSumSet(LAMBDA a : f[a], S)

\* The subsets of a finite set have sums.
LEMMA SumsExist ==
    ASSUME NEW T, IsFiniteSet(T), NEW f
    PROVE  \E g : Sums(g, f, SUBSET T)
<1> DEFINE X(n) == {s \in SUBSET T : Cardinality(s) <= n}
           N == {n \in Nat : \E g : Sums(g, f, X(n))}
<1>1. ASSUME NEW s \in SUBSET T
      PROVE  /\ IsFiniteSet(s) /\ Cardinality(s) \in Nat
             /\ s # {} => Any(s) \in s /\ Cardinality(s \ {Any(s)}) = Cardinality(s) - 1
  <2>1. IsFiniteSet(s)
    BY FS_Subset
  <2>2. s # {} => Any(s) \in s
    BY DEF Any
  <2>3. QED
    BY <2>1, <2>2, FS_CardinalityType, FS_RemoveElement
<1>2. 0 \in N
  <2> DEFINE g == [s \in X(0) |-> 0]
  <2>1. ASSUME NEW s \in X(0) PROVE s = {}
    <3>1. s \in SUBSET T /\ Cardinality(s) <= 0
      OBVIOUS
    <3>2. IsFiniteSet(s) /\ Cardinality(s) \in Nat
      BY <1>1, <3>1
    <3>3. Cardinality(s) = 0
      BY <3>1, <3>2
    <3>4. QED
      BY <3>2, <3>3, FS_EmptySet
  <2>2. g = [s \in X(0) |-> IF s = {} THEN 0 ELSE f[Any(s)] + g[s \ {Any(s)}]]
    BY <2>1
  <2>3. Sums(g, f, X(0))
    BY <2>2 DEF Sums
  <2>4. QED
    BY <2>3
<1>3. ASSUME NEW n \in Nat, n \in N PROVE n + 1 \in N
  <2>1. PICK g : Sums(g, f, X(n))
    BY <1>3
  <2> DEFINE h == [s \in X(n + 1) |-> IF s = {} THEN 0 ELSE f[Any(s)] + g[s \ {Any(s)}]]
  <2>2. ASSUME NEW s \in X(n) PROVE s \in X(n + 1)
    <3>1. s \in SUBSET T /\ Cardinality(s) <= n
      OBVIOUS
    <3>2. Cardinality(s) \in Nat
      BY <1>1, <3>1
    <3>3. QED
      BY <3>1, <3>2
  <2>3. \A s \in X(n) : h[s] = g[s]
    BY <2>1, <2>2 DEF Sums
  <2>4. \A s \in X(n + 1) : s # {} => s \ {Any(s)} \in X(n)
    BY <1>1
  <2>5. h = [s \in X(n + 1) |-> IF s = {} THEN 0 ELSE f[Any(s)] + h[s \ {Any(s)}]]
    BY <2>3, <2>4
  <2> HIDE DEF h
  <2>6. \E i : Sums(i, f, X(n + 1))
    BY <2>5 DEF Sums
  <2>7. n + 1 \in Nat
    OBVIOUS
  <2>8. QED
    BY <2>6, <2>7, Zenon
<1>4. \A n \in Nat : n \in N
  <2> HIDE DEF N
  <2>1. QED
    BY <1>2, <1>3, Induction
<1>5. PICK n \in Nat : n = Cardinality(T)
  BY FS_CardinalityType
<1>6. X(n) = SUBSET T
  BY <1>5, FS_Subset
<1>7. QED
  BY <1>4, <1>6

\* Sums do not depend on the set they are computed in.
LEMMA SumsUnique ==
    ASSUME NEW S, NEW T, IsFiniteSet(T), T \subseteq S, NEW f, NEW g, NEW h,
           Sums(g, f, SUBSET S), Sums(h, f, SUBSET T)
    PROVE  g[T] = h[T]
<1> DEFINE E == {s \in SUBSET T : g[s] = h[s]}
<1>1. ASSUME NEW s \in SUBSET T, \A x \in s : s \ {x} \in E PROVE s \in E
  <2>1. CASE s = {}
    BY <2>1 DEF Sums
  <2>2. CASE s # {}
    <3>1. Any(s) \in s
      BY <2>2 DEF Any
    <3>2. g[s \ {Any(s)}] = h[s \ {Any(s)}]
      BY <1>1, <3>1
    <3>3. g[s] = f[Any(s)] + g[s \ {Any(s)}] /\ h[s] = f[Any(s)] + h[s \ {Any(s)}]
      BY <2>2 DEF Sums
    <3>4. QED
      BY <3>2, <3>3
  <2>3. QED
    BY <2>1, <2>2
<1> HIDE DEF E
<1>2. \A s \in SUBSET T : s \in E
  BY <1>1, SetInduction
<1>3. T \in E
  BY <1>2
<1>4. QED
  BY <1>3 DEF E

\* The sum over a finite set is any such sum's.
LEMMA SumOverIs ==
    ASSUME NEW S, NEW T, IsFiniteSet(T), T \subseteq S, NEW f, NEW g, Sums(g, f, SUBSET S)
    PROVE  SumOver(f, T) = g[T]
<1> DEFINE iter == CHOOSE h : h = [s \in SUBSET T |->
                 IF s = {} THEN 0 ELSE f[CHOOSE x \in s : TRUE] + h[s \ {CHOOSE x \in s : TRUE}]]
<1>1. SumOver(f, T) = iter[T]
  BY DEF SumOver, MapThenSumSet, MapThenFoldSet
<1>2. Sums(iter, f, SUBSET T)
  <2>1. PICK h : Sums(h, f, SUBSET T)
    BY SumsExist
  <2>2. h = [s \in SUBSET T |->
              IF s = {} THEN 0 ELSE f[CHOOSE x \in s : TRUE] + h[s \ {CHOOSE x \in s : TRUE}]]
    BY <2>1 DEF Sums, Any
  <2>3. iter = [s \in SUBSET T |->
              IF s = {} THEN 0 ELSE f[CHOOSE x \in s : TRUE] + iter[s \ {CHOOSE x \in s : TRUE}]]
    BY <2>2, Zenon
  <2> HIDE DEF iter
  <2>4. QED
    BY <2>3 DEF Sums, Any
<1> HIDE DEF iter
<1>3. g[T] = iter[T]
  BY <1>2, SumsUnique
<1>4. QED
  BY <1>1, <1>3

\* The sum over a finite set takes out any element first.
LEMMA SumRecursion ==
    ASSUME NEW T, IsFiniteSet(T), NEW f
    PROVE  /\ SumOver(f, {}) = 0
           /\ T # {} => Any(T) \in T /\ SumOver(f, T) = f[Any(T)] + SumOver(f, T \ {Any(T)})
<1>1. PICK g : Sums(g, f, SUBSET T)
  BY SumsExist
<1>2. \A s \in SUBSET T : IsFiniteSet(s)
  BY FS_Subset
<1>3. \A s \in SUBSET T : SumOver(f, s) = g[s]
  BY <1>1, <1>2, SumOverIs
<1>4. \A s \in SUBSET T : g[s] = IF s = {} THEN 0 ELSE f[Any(s)] + g[s \ {Any(s)}]
  BY <1>1 DEF Sums
<1>5. T # {} => Any(T) \in T
  BY DEF Any
<1>6. T \ {Any(T)} \in SUBSET T /\ {} \in SUBSET T /\ T \in SUBSET T
  OBVIOUS
<1>7. QED
  BY <1>3, <1>4, <1>5, <1>6

\* A sum of integers is one, and depends on the values in the set only.
LEMMA SumValues ==
    ASSUME NEW T, IsFiniteSet(T), NEW f, NEW g, \A x \in T : f[x] \in Int /\ f[x] = g[x]
    PROVE  SumOver(f, T) \in Int /\ SumOver(g, T) = SumOver(f, T)
<1> DEFINE E == {s \in SUBSET T : SumOver(f, s) \in Int /\ SumOver(g, s) = SumOver(f, s)}
<1>1. ASSUME NEW s \in SUBSET T, \A x \in s : s \ {x} \in E PROVE s \in E
  <2>1. IsFiniteSet(s)
    BY FS_Subset
  <2>2. CASE s = {}
    BY <2>1, <2>2, SumRecursion
  <2>3. CASE s # {}
    <3>1. /\ Any(s) \in s /\ SumOver(f, s) = f[Any(s)] + SumOver(f, s \ {Any(s)})
          /\ SumOver(g, s) = g[Any(s)] + SumOver(g, s \ {Any(s)})
      BY <2>1, <2>3, SumRecursion
    <3>2. /\ SumOver(f, s \ {Any(s)}) \in Int
          /\ SumOver(g, s \ {Any(s)}) = SumOver(f, s \ {Any(s)})
      BY <1>1, <3>1
    <3>3. QED
      BY <3>1, <3>2
  <2>4. QED
    BY <2>2, <2>3
<1> HIDE DEF E
<1>2. \A s \in SUBSET T : s \in E
  BY <1>1, SetInduction
<1>3. T \in E
  BY <1>2
<1>4. QED
  BY <1>3 DEF E

\* A sum does not depend on the order: each element may be taken out first.
LEMMA SumTakes ==
    ASSUME NEW T, IsFiniteSet(T), NEW f, \A x \in T : f[x] \in Int
    PROVE  \A x \in T : SumOver(f, T) = f[x] + SumOver(f, T \ {x})
<1> DEFINE E == {s \in SUBSET T : \A x \in s : SumOver(f, s) = f[x] + SumOver(f, s \ {x})}
<1>0. ASSUME NEW s \in SUBSET T PROVE IsFiniteSet(s) /\ SumOver(f, s) \in Int
  <2>1. IsFiniteSet(s)
    BY FS_Subset
  <2>2. QED
    BY <2>1, SumValues
<1>1. ASSUME NEW s \in SUBSET T, \A x \in s : s \ {x} \in E PROVE s \in E
  <2> SUFFICES ASSUME NEW x \in s PROVE SumOver(f, s) = f[x] + SumOver(f, s \ {x})
    OBVIOUS
  <2> DEFINE y == Any(s)
  <2>1. y \in s /\ SumOver(f, s) = f[y] + SumOver(f, s \ {y})
    BY <1>0, SumRecursion
  <2> HIDE DEF y
  <2>2. CASE x = y
    BY <2>1, <2>2
  <2>3. CASE x # y
    <3>1. SumOver(f, s \ {y}) = f[x] + SumOver(f, (s \ {y}) \ {x})
      BY <1>1, <2>1, <2>3
    <3>2. SumOver(f, s \ {x}) = f[y] + SumOver(f, (s \ {x}) \ {y})
      BY <1>1, <2>1, <2>3
    <3>3. (s \ {x}) \ {y} = (s \ {y}) \ {x}
      OBVIOUS
    <3>4. (s \ {y}) \ {x} \in SUBSET T /\ x \in T /\ y \in T
      BY <2>1
    <3>5. SumOver(f, (s \ {y}) \ {x}) \in Int /\ f[x] \in Int /\ f[y] \in Int
      BY <1>0, <3>4
    <3> DEFINE rest == SumOver(f, (s \ {y}) \ {x})
    <3>6. SumOver(f, s) = f[y] + (f[x] + rest) /\ SumOver(f, s \ {x}) = f[y] + rest
      BY <2>1, <3>1, <3>2, <3>3, Zenon
    <3>7. rest \in Int
      BY <3>5
    <3> HIDE DEF rest
    <3>8. QED
      BY <3>5, <3>6, <3>7
  <2>4. QED
    BY <2>2, <2>3
<1> HIDE DEF E
<1>2. \A s \in SUBSET T : s \in E
  BY <1>1, SetInduction
<1>3. T \in E
  BY <1>2
<1>4. QED
  BY <1>3 DEF E

\* One value of a sum changes.
LEMMA SumChange ==
    ASSUME NEW T, IsFiniteSet(T), NEW f, NEW g, NEW a \in T, g[a] \in Int,
           \A x \in T : f[x] \in Int /\ (x # a => g[x] = f[x])
    PROVE  SumOver(g, T) = SumOver(f, T) - f[a] + g[a]
<1>1. IsFiniteSet(T \ {a})
  BY FS_Subset
<1>2. SumOver(f, T \ {a}) \in Int /\ SumOver(g, T \ {a}) = SumOver(f, T \ {a})
  BY <1>1, SumValues
<1>3. SumOver(f, T) = f[a] + SumOver(f, T \ {a})
  BY SumTakes
<1>4. SumOver(g, T) = g[a] + SumOver(g, T \ {a})
  <2>1. \A x \in T : g[x] \in Int
    OBVIOUS
  <2>2. QED
    BY <2>1, SumTakes
<1>5. f[a] \in Int
  OBVIOUS
<1>6. QED
  BY <1>2, <1>3, <1>4, <1>5

\* A remainder may be taken before or after adding.
LEMMA ModPlus ==
    ASSUME NEW n \in Nat \ {0}, NEW x \in Int, NEW y \in Int
    PROVE  ((x % n) + y) % n = (x + y) % n
<1> DEFINE z == (x % n) + y
<1>1. x % n \in 0 .. n - 1 /\ x = n * (x \div n) + (x % n) /\ x \div n \in Int
  OBVIOUS
<1>2. PICK p \in Int : x = n * p + (x % n)
  BY <1>1
<1>3. z \in Int
  BY <1>1
<1>4. z % n \in 0 .. n - 1 /\ z = n * (z \div n) + (z % n) /\ z \div n \in Int
  <2> HIDE DEF z
  <2>1. QED
    BY <1>3
<1>5. PICK q \in Int : z = n * q + (z % n)
  BY <1>4
<1>6. x + y = n * (p + q) + (z % n)
  <2>1. n * p \in Int /\ n * q \in Int /\ n * (p + q) = n * p + n * q
    OBVIOUS
  <2>2. x % n \in Int /\ z % n \in Int
    BY <1>1, <1>4
  <2>3. x + y = n * p + z
    BY <1>1, <1>2, <2>1, <2>2
  <2> HIDE DEF z
  <2>4. QED
    BY <1>3, <1>5, <2>1, <2>2, <2>3
<1>7. (n * (p + q) + (z % n)) % n = z % n
  <2>1. p + q \in Int
    OBVIOUS
  <2> HIDE DEF z
  <2>2. QED
    BY <1>4, <2>1, ModOf
<1>8. QED
  BY <1>6, <1>7

\* Changing a counter and the total together keeps the total the sum, whatever
\* wraps.
LEMMA TotalMoves ==
    ASSUME NEW s \in Int, NEW c \in Int, NEW d \in Int
    PROVE  /\ Plus(s % Word, d) = (s - c + Plus(c, d)) % Word
           /\ Minus(s % Word, d) = (s - c + Minus(c, d)) % Word
           /\ Minus(s % Word, d) = (s - d) % Word
<1>0. Word \in Nat \ {0}
  BY Sizes
<1>1. ASSUME NEW e \in Int PROVE ((s % Word) + e) % Word = (s - c + ((c + e) % Word)) % Word
  <2>1. ((s % Word) + e) % Word = (s + e) % Word
    BY <1>0, ModPlus
  <2>2. (((c + e) % Word) + (s - c)) % Word = ((c + e) + (s - c)) % Word
    <3>1. c + e \in Int /\ s - c \in Int
      OBVIOUS
    <3>2. QED
      BY <1>0, <3>1, ModPlus
  <2>3. (c + e) + (s - c) = s + e
    OBVIOUS
  <2>4. ((c + e) % Word) + (s - c) = s - c + ((c + e) % Word)
    <3>1. (c + e) % Word \in Int
      BY <1>0
    <3>2. QED
      BY <3>1
  <2>5. QED
    BY <2>1, <2>2, <2>3, <2>4
<1>2. ((s % Word) + d) % Word = (s - c + ((c + d) % Word)) % Word
  BY <1>1
<1>3. ((s % Word) + (-d)) % Word = (s - c + ((c + (-d)) % Word)) % Word
  BY <1>1
<1>4. ((s % Word) + (-d)) % Word = (s + (-d)) % Word
  <2>1. -d \in Int
    OBVIOUS
  <2>2. QED
    BY <1>0, <2>1, ModPlus
<1>5. s % Word \in Int
  BY <1>0
<1>6. (s % Word) + (-d) = (s % Word) - d /\ c + (-d) = c - d /\ s + (-d) = s - d
  BY <1>5
<1>7. QED
  BY <1>2, <1>3, <1>4, <1>6 DEF Plus, Minus

\* Every step of the statistics moves the total with the counters.
LEMMA TotalNext == IInv /\ TotalIsSum /\ [Next]_vars => TotalIsSum'
<1> SUFFICES ASSUME IInv, TotalIsSum, [Next]_vars PROVE TotalIsSum'
  OBVIOUS
<1> DEFINE s == SumOver(inflight, tracked)
<1>1. /\ inflight \in [Addrs -> 0 .. Word - 1] /\ tracked \in SUBSET Addrs /\ IsFiniteSet(tracked)
      /\ \A a \in Addrs : inflight[a] \in Int
  <2>1. inflight \in [Addrs -> 0 .. Word - 1] /\ tracked \in SUBSET Addrs
    BY DEF IInv, TypeOK
  <2>2. QED
    BY <2>1, BalancerAssumption, FS_Subset
<1>2. total = s % Word /\ s \in Int
  <2>1. s \in Int
    BY <1>1, SumValues
  <2>2. QED
    BY <2>1 DEF TotalIsSum, SumOver
<1>3. SUFFICES total' = SumOver(inflight', tracked') % Word
  BY DEF TotalIsSum, SumOver, MapThenSumSet, MapThenFoldSet
<1> HIDE DEF s
<1>4. ASSUME UNCHANGED <<total, inflight, tracked>>
      PROVE  total' = SumOver(inflight', tracked') % Word
  BY <1>2, <1>4 DEF s
<1>5. ASSUME NEW a \in Addrs, ConnBegin(a) PROVE total' = SumOver(inflight', tracked') % Word
  <2>1. /\ tracked' = tracked \cup {a} /\ UNCHANGED total
        /\ inflight' = [inflight EXCEPT ![a] = IF a \in tracked THEN @ ELSE 0]
    BY <1>5 DEF ConnBegin
  <2>2. CASE a \in tracked
    <3>1. tracked' = tracked /\ inflight' = inflight
      BY <1>1, <2>1, <2>2
    <3>2. QED
      BY <1>2, <2>1, <3>1 DEF s
  <2>3. CASE a \notin tracked
    <3>1. IsFiniteSet(tracked') /\ a \in tracked' /\ tracked' \ {a} = tracked
      BY <1>1, <2>1, <2>3, FS_AddElement
    <3>2. inflight'[a] = 0 /\ \A x \in tracked : inflight'[x] = inflight[x]
      BY <1>1, <2>1, <2>3
    <3>3. \A x \in tracked' : inflight'[x] \in Int
      BY <1>1, <2>1, <3>2
    <3>4. SumOver(inflight', tracked') = inflight'[a] + SumOver(inflight', tracked)
      BY <3>1, <3>3, SumTakes
    <3>5. SumOver(inflight', tracked) = s
      <4>1. \A x \in tracked : inflight[x] \in Int /\ inflight[x] = inflight'[x]
        BY <1>1, <3>2
      <4>2. QED
        BY <1>1, <4>1, SumValues DEF s
    <3>6. QED
      BY <1>2, <2>1, <3>2, <3>4, <3>5
  <2>4. QED
    BY <2>2, <2>3
<1>6. ASSUME NEW a \in Addrs, ConnEnd(a) PROVE total' = SumOver(inflight', tracked') % Word
  <2>1. CASE UNCHANGED <<total, inflight, tracked>>
    BY <1>4, <2>1
  <2>2. CASE LastConn(a) /\ Forget(a)
    <3>1. /\ tracked' = tracked \ {a} /\ inflight' = [inflight EXCEPT ![a] = 0]
          /\ total' = Minus(total, inflight[a]) /\ a \in tracked
      BY <2>2 DEF Forget, LastConn, IInv, TypeOK
    <3>2. IsFiniteSet(tracked')
      BY <1>1, <3>1, FS_Subset
    <3>3. \A x \in tracked' : inflight[x] \in Int /\ inflight[x] = inflight'[x]
      BY <1>1, <3>1
    <3>4. SumOver(inflight', tracked') = SumOver(inflight, tracked') /\ SumOver(inflight, tracked') \in Int
      BY <3>2, <3>3, SumValues
    <3>5. s = inflight[a] + SumOver(inflight, tracked')
      BY <1>1, <3>1, SumTakes DEF s
    <3>6. inflight[a] \in Int
      BY <1>1
    <3>7. SumOver(inflight', tracked') = s - inflight[a]
      BY <3>4, <3>5, <3>6
    <3>8. Minus(s % Word, inflight[a]) = (s - inflight[a]) % Word
      BY <1>2, <3>6, TotalMoves
    <3>9. QED
      BY <1>2, <3>1, <3>7, <3>8
  <2>3. QED
    BY <1>6, <2>1, <2>2 DEF ConnEnd
<1>7. ASSUME NEW a \in tracked, tracked' = tracked, NEW c \in Int,
             inflight' = [inflight EXCEPT ![a] = c], total' = (s - inflight[a] + c) % Word
      PROVE  total' = SumOver(inflight', tracked') % Word
  <2>1. inflight'[a] = c /\ \A x \in tracked : inflight[x] \in Int /\ (x # a => inflight'[x] = inflight[x])
    BY <1>1, <1>7
  <2>2. SumOver(inflight', tracked) = s - inflight[a] + c
    BY <1>1, <2>1, SumChange DEF s
  <2>3. QED
    BY <1>7, <2>2
<1>8. ASSUME NEW r \in RPCs, OutHeader(r) PROVE total' = SumOver(inflight', tracked') % Word
  <2> DEFINE a == pick[r].addr
             c == Plus(inflight[a], 1)
  <2>1. tracked' = tracked
    BY <1>8 DEF OutHeader
  <2>2. CASE UNCHANGED <<inflight, total>>
    BY <1>4, <2>1, <2>2
  <2>3. CASE a \in tracked /\ inflight' = [inflight EXCEPT ![a] = Plus(@, 1)] /\ total' = Plus(total, 1)
    <3>1. inflight' = [inflight EXCEPT ![a] = c]
      BY <1>1, <2>3
    <3>2. inflight[a] \in Int
      BY <1>1, <2>3
    <3>3. c \in Int
      BY <3>2, Sizes DEF Plus
    <3>4. total' = (s - inflight[a] + c) % Word
      <4>1. 1 \in Int /\ s \in Int
        BY <1>2
      <4> HIDE DEF a
      <4>2. QED
        BY <1>2, <2>3, <3>2, <4>1, TotalMoves, Zenon
    <3> HIDE DEF c, a
    <3>5. QED
      BY <1>7, <2>1, <2>3, <3>1, <3>3, <3>4
  <2>4. QED
    BY <1>8, <2>2, <2>3 DEF OutHeader
<1>9. ASSUME NEW r \in RPCs, End(r) PROVE total' = SumOver(inflight', tracked') % Word
  <2> DEFINE a == rpcAddr[r]
             c == Minus(inflight[a], 1)
  <2>1. tracked' = tracked
    BY <1>9 DEF End
  <2>2. CASE UNCHANGED <<inflight, total>>
    BY <1>4, <2>1, <2>2
  <2>3. CASE a \in tracked /\ inflight' = [inflight EXCEPT ![a] = Minus(@, 1)] /\ total' = Minus(total, 1)
    <3>1. inflight' = [inflight EXCEPT ![a] = c]
      BY <1>1, <2>3
    <3>2. inflight[a] \in Int
      BY <1>1, <2>3
    <3>3. c \in Int
      BY <3>2, Sizes DEF Minus
    <3>4. total' = (s - inflight[a] + c) % Word
      <4>1. 1 \in Int /\ s \in Int
        BY <1>2
      <4> HIDE DEF a
      <4>2. QED
        BY <1>2, <2>3, <3>2, <4>1, TotalMoves, Zenon
    <3> HIDE DEF c, a
    <3>5. QED
      BY <1>7, <2>1, <2>3, <3>1, <3>3, <3>4
  <2>4. QED
    BY <1>9, <2>2, <2>3 DEF End, Decrement
<1>10. ASSUME UNCHANGED statsVars PROVE total' = SumOver(inflight', tracked') % Word
  BY <1>4, <1>10 DEF statsVars
<1>11. /\ \A r \in RPCs : NewStream(r) \/ Retry(r) \/ PickStart(r) \/ PickTry(r) => UNCHANGED statsVars
       /\ Build \/ UNCHANGED vars => UNCHANGED statsVars
  BY DEF NewStream, Retry, PickStart, PickTry, Build, vars
<1>12. QED
  BY <1>5, <1>6, <1>8, <1>9, <1>10, <1>11 DEF Next

\* HandleConn and HandleRPC: the total is the sum of the counters of the
\* addresses that are tracked, modulo the counters' width, for any number of
\* addresses and whatever connections are lost under the RPCs.
THEOREM TotalAdded == Spec => []TotalIsSum
<1>1. Init => TotalIsSum
  <2> SUFFICES ASSUME Init PROVE total = SumOver(inflight, tracked) % Word
    BY DEF TotalIsSum, SumOver
  <2>1. SumOver(inflight, {}) = 0
    BY FS_EmptySet, SumRecursion
  <2>2. 0 % Word = 0
    BY Sizes
  <2>3. QED
    BY <2>1, <2>2 DEF Init
<1>2. QED
  BY <1>1, TotalNext, Invariance, PTL DEF Spec
=============================================================================
