----------------------- MODULE MultiReaderBufferProofs -----------------------
(* Proofs that every mirror sees a prefix of the body, all of it if it was    *)
(* not cancelled, and that the buffer is never indexed out of range, for any  *)
(* number of mirrors, any body and any sizes of its segments.                 *)
EXTENDS MultiReaderBuffer, FiniteSetTheorems, SequenceTheorems,
        WellFoundedInduction, TLAPS

\* What was written and is neither buffered nor counted by the offset. It is 0
\* until reclaimBuffer frees the buffer and forgets the offset.
Gap == written - Len(data) - offset

\* mb.data holds the last segments written, in buffers of its own, and so does
\* Write with the next one. Once the offset is forgotten the buffer is closed, and
\* everything written while it was open lies before it.
Buffered ==
    /\ \A k \in 1 .. Len(data) :
          /\ bytes[data[k]] = written - Len(data) + k
          /\ data[k] \in 1 .. written \ pooled
    /\ p2 # 0 => bytes[p2] = written + 1 /\ p2 \in 1 .. written + 1 /\ p2 \notin pooled
    /\ alloc => offset + Len(data) >= 1
    /\ open => cut = written /\ Gap = 0
    /\ Gap > 0 => cut <= Gap

\* The parts a reader has got.
Got(r) == Len(taken[r]) + Len(held[r])

\* Reader r has got what belongs to its index n: exactly the first n segments,
\* or, once the offset is forgotten, at least what was written to the open buffer.
Reached(r, n) ==
    /\ Gap = 0 => Got(r) = Extent(n)
    /\ Gap > 0 => /\ Got(r) >= Extent(cut)
                  /\ n <= offset + Len(data) => Got(r) <= Extent(Gap + n)

\* The index of a reader.
Index(r) ==
    /\ Gap = 0 => i[r] <= written
    /\ closeCh[r] => (i[r] = -1 <=> fin[r] # "no")
    /\ closeCh[r] /\ i[r] = -1 => pc[r] \in {"finish", "eof"}
    /\ closeCh[r] /\ i[r] # -1 => i[r] >= offset /\ Reached(r, i[r])

\* A Read between its bounds check and its access.
Fetching(r) ==
    pc[r] = "fetch" =>
        /\ held[r] = <<>> /\ i[r] \in {loaded[r], -1}
        /\ loaded[r] \in offset .. offset + Len(data) - 1
        /\ Reached(r, loaded[r])

\* A reader that was not closed ends after the buffer, with all that belongs to it.
Ended(r) ==
    closeCh[r] /\ pc[r] \in {"finish", "eof"} =>
        ~open /\ held[r] = <<>> /\ Len(taken[r]) >= Extent(cut)

\* Reader r lost the segment of the k-th part before it had copied it.
Lost(r, k) == PartAt(k) \in lost[r]

\* What a reader has delivered are the parts of the body in their order, but for
\* what it lost, as far as the body was written to the open buffer.
Ordered(r) ==
    /\ Got(r) <= Extent(written)
    /\ \A k \in 1 .. Len(taken[r]) :
          k <= Extent(cut) => taken[r][k] = PartAt(k) \/ Lost(r, k)

\* So are the parts it holds, and their buffers stay as they are: nobody can take
\* them from the pool.
Kept(r) ==
    \A k \in 1 .. Len(held[r]) :
        /\ held[r][k] <= written
        /\ Len(taken[r]) + k <= Extent(cut) =>
              \/ Lost(r, Len(taken[r]) + k)
              \/ /\ bytes[held[r][k]] = PartAt(Len(taken[r]) + k)
                 /\ held[r][k] \notin pooled

ReaderInv(r) == Index(r) /\ Fetching(r) /\ Ended(r) /\ Ordered(r) /\ Kept(r)

IInv == TypeOK /\ Buffered /\ \A r \in Readers : ReaderInv(r)

-----------------------------------------------------------------------------
(* The parts of the first n segments *)

\* The first n segments have a finite number of parts.
LEMMA ExtentType == \A n \in Nat : Extent(n) \in Nat
<1> SUFFICES ASSUME NEW n \in Nat PROVE Extent(n) \in Nat
  OBVIOUS
<1>1. IsFiniteSet(1 .. n)
  BY FS_Interval
<1>2. Large \cap 1 .. n \subseteq 1 .. n
  OBVIOUS
<1>3. IsFiniteSet(Large \cap 1 .. n)
  BY <1>1, <1>2, FS_Subset
<1>4. Cardinality(Large \cap 1 .. n) \in Nat
  BY <1>3, FS_CardinalityType
<1>5. QED
  BY <1>4 DEF Extent

\* No segment, no part.
LEMMA ExtentZero == Extent(0) = 0
<1>1. Large \cap 1 .. 0 = {}
  OBVIOUS
<1>2. QED
  BY <1>1, FS_EmptySet DEF Extent

\* A segment adds its parts.
LEMMA ExtentNext == \A n \in Nat : Extent(n + 1) = Extent(n) + Parts(n + 1)
<1> SUFFICES ASSUME NEW n \in Nat PROVE Extent(n + 1) = Extent(n) + Parts(n + 1)
  OBVIOUS
<1> DEFINE A == Large \cap 1 .. n
           B == Large \cap 1 .. n + 1
<1>1. IsFiniteSet(1 .. n) /\ A \subseteq 1 .. n
  BY FS_Interval
<1>2. IsFiniteSet(A) /\ Cardinality(A) \in Nat
  BY <1>1, FS_Subset, FS_CardinalityType
<1>3. n + 1 \notin A
  OBVIOUS
<1>4. CASE n + 1 \in Large
  <2>1. B = A \cup {n + 1}
    BY <1>4
  <2>2. Cardinality(B) = Cardinality(A) + 1
    <3> HIDE DEF A, B
    <3> QED
      BY <1>2, <1>3, <2>1, FS_AddElement
  <2>3. QED
    BY <1>2, <1>4, <2>2 DEF Extent, Parts
<1>5. CASE n + 1 \notin Large
  <2>1. B = A
    BY <1>5
  <2>2. QED
    BY <1>2, <1>5, <2>1 DEF Extent, Parts
<1>6. QED
  BY <1>4, <1>5

\* More segments have no fewer parts.
LEMMA ExtentMonotone ==
    \A m, n \in Nat : m <= n => Extent(m) <= Extent(n)
<1> SUFFICES ASSUME NEW m \in Nat, NEW n \in Nat, m <= n
             PROVE  Extent(m) <= Extent(n)
  OBVIOUS
<1>1. IsFiniteSet(1 .. n) /\ Large \cap 1 .. n \subseteq 1 .. n
  BY FS_Interval
<1>2. IsFiniteSet(Large \cap 1 .. n)
  BY <1>1, FS_Subset
<1>3. Large \cap 1 .. m \subseteq Large \cap 1 .. n
  OBVIOUS
<1>4. /\ Cardinality(Large \cap 1 .. m) <= Cardinality(Large \cap 1 .. n)
      /\ IsFiniteSet(Large \cap 1 .. m)
  BY <1>2, <1>3, FS_Subset
<1>5. /\ Cardinality(Large \cap 1 .. m) \in Nat
      /\ Cardinality(Large \cap 1 .. n) \in Nat
  BY <1>2, <1>4, FS_CardinalityType
<1>6. QED
  BY <1>4, <1>5 DEF Extent

\* The parts between two extents are parts of the segment between them.
LEMMA PartOf ==
    ASSUME NEW s \in 1 .. Segments, NEW k \in Nat,
           Extent(s - 1) < k, k <= Extent(s)
    PROVE  PartAt(k) = s
<1> USE MirrorAssumption
<1>1. ASSUME NEW t \in 1 .. Segments, Extent(t - 1) < k, k <= Extent(t)
      PROVE  t = s
  <2>1. s - 1 \in Nat /\ t - 1 \in Nat /\ s \in Nat /\ t \in Nat
    OBVIOUS
  <2>2. /\ Extent(s) \in Nat /\ Extent(t) \in Nat
        /\ Extent(s - 1) \in Nat /\ Extent(t - 1) \in Nat
    BY <2>1, ExtentType
  <2>3. s <= t - 1 => Extent(s) <= Extent(t - 1)
    BY <2>1, ExtentMonotone
  <2>4. t <= s - 1 => Extent(t) <= Extent(s - 1)
    BY <2>1, ExtentMonotone
  <2>5. QED
    BY <1>1, <2>1, <2>2, <2>3, <2>4
<1>2. \E t \in 1 .. Segments : Extent(t - 1) < k /\ k <= Extent(t)
  OBVIOUS
<1>3. PartAt(k) \in 1 .. Segments /\ Extent(PartAt(k) - 1) < k /\ k <= Extent(PartAt(k))
  BY <1>2 DEF PartAt
<1>4. QED
  BY <1>1, <1>3

-----------------------------------------------------------------------------
(* The slowest reader *)

\* A set of natural numbers that is not empty has a least element.
LEMMA LeastElement ==
    ASSUME NEW S, S \subseteq Nat, S # {}
    PROVE  \E x \in S : \A y \in S : x <= y
<1> DEFINE R == OpToRel(<, Nat)
<1>1. IsWellFoundedOn(R, Nat)
  BY NatLessThanWellFounded
<1>2. PICK x \in S : \A y \in S : ~ (<<y, x>> \in R)
  <2> HIDE DEF R
  <2> QED
    BY <1>1, WFMin
<1>3. ASSUME NEW y \in S PROVE x <= y
  <2>1. x \in Nat /\ y \in Nat
    OBVIOUS
  <2>2. <<y, x>> \in R <=> y < x
    BY <2>1 DEF OpToRel
  <2> HIDE DEF R
  <2>3. QED
    BY <1>2, <2>1, <2>2
<1>4. QED
  BY <1>3

\* minI is one of the positions and no reader that is not finished is behind it.
LEMMA SlowestIsLeast ==
    ASSUME TypeOK, Positions # {}
    PROVE  /\ Slowest \in 0 .. Segments
           /\ \A r \in Readers : i[r] # -1 => Slowest <= i[r]
<1>1. i \in [Readers -> -1 .. Segments] /\ Segments \in Nat
  BY MirrorAssumption DEF TypeOK
<1>2. \A p \in Positions : p \in 0 .. Segments
  BY <1>1 DEF Positions
<1>3. Positions \subseteq Nat
  BY <1>1, <1>2
<1>4. \E x \in Positions : \A y \in Positions : x <= y
  BY <1>3, LeastElement
<1>5. Slowest \in Positions /\ \A y \in Positions : Slowest <= y
  BY <1>4 DEF Slowest
<1>6. \A r \in Readers : i[r] # -1 => i[r] \in Positions
  BY DEF Positions
<1>7. QED
  BY <1>2, <1>5, <1>6

-----------------------------------------------------------------------------
(* What every step leaves alone *)

\* The types of the numbers that describe the buffer and a reader.
LEMMA Numbers ==
    ASSUME TypeOK
    PROVE  /\ Segments \in Nat /\ offset \in Nat /\ written \in Nat /\ cut \in Nat
           /\ cut <= written /\ written <= Segments /\ Len(data) \in Nat
           /\ offset + Len(data) <= written /\ Gap \in Nat
           /\ \A r \in Readers :
                 /\ i[r] \in Int /\ i[r] >= -1 /\ i[r] <= Segments
                 /\ loaded[r] \in Nat /\ loaded[r] <= Segments
                 /\ held[r] \in Seq(1 .. Segments) /\ taken[r] \in Seq(0 .. Segments)
                 /\ Len(held[r]) \in Nat /\ Len(taken[r]) \in Nat /\ Got(r) \in Nat
<1>1. /\ data \in Seq(1 .. Segments) /\ offset + Len(data) <= written
      /\ offset \in 0 .. Segments /\ written \in 0 .. Segments /\ cut \in 0 .. written
      /\ i \in [Readers -> -1 .. Segments] /\ loaded \in [Readers -> 0 .. Segments]
      /\ held \in [Readers -> Seq(1 .. Segments)]
      /\ taken \in [Readers -> Seq(0 .. Segments)]
  BY DEF TypeOK
<1>2. Segments \in Nat
  BY MirrorAssumption
<1>3. Len(data) \in Nat
  BY <1>1, LenProperties
<1>4. offset \in Nat /\ written \in Nat /\ cut \in Nat /\ cut <= written /\ written <= Segments
  BY <1>1, <1>2
<1>5. Gap \in Nat
  BY <1>1, <1>3, <1>4 DEF Gap
<1>6. ASSUME NEW r \in Readers
      PROVE  /\ i[r] \in Int /\ i[r] >= -1 /\ i[r] <= Segments
             /\ loaded[r] \in Nat /\ loaded[r] <= Segments
             /\ held[r] \in Seq(1 .. Segments) /\ taken[r] \in Seq(0 .. Segments)
             /\ Len(held[r]) \in Nat /\ Len(taken[r]) \in Nat /\ Got(r) \in Nat
  <2>1. held[r] \in Seq(1 .. Segments) /\ taken[r] \in Seq(0 .. Segments)
    BY <1>1
  <2>2. Len(held[r]) \in Nat /\ Len(taken[r]) \in Nat
    BY <2>1, LenProperties
  <2>3. Got(r) \in Nat
    <3>1. \A m, n \in Nat : m + n \in Nat
      OBVIOUS
    <3>2. QED
      BY <2>2, <3>1, Zenon DEF Got
  <2>4. i[r] \in -1 .. Segments /\ loaded[r] \in 0 .. Segments
    BY <1>1
  <2>5. /\ i[r] \in Int /\ i[r] >= -1 /\ i[r] <= Segments
        /\ loaded[r] \in Nat /\ loaded[r] <= Segments
    BY <1>2, <2>4
  <2>6. QED
    BY <2>1, <2>2, <2>3, <2>5
<1>7. QED
  BY <1>1, <1>2, <1>3, <1>4, <1>5, <1>6

\* A step that changes neither the buffer nor the body keeps what is known of
\* the buffer, ...
LEMMA BufferedKept ==
    ASSUME Buffered, UNCHANGED <<bufferVars, bodyVars>>
    PROVE  Buffered'
BY DEF Buffered, Gap, bufferVars, poolVars, bodyVars

\* ... and of every reader that it does not touch.
LEMMA Elsewhere ==
    ASSUME NEW q \in Readers, ReaderInv(q), UNCHANGED <<bufferVars, bodyVars>>,
           pc'[q] = pc[q], i'[q] = i[q], loaded'[q] = loaded[q], held'[q] = held[q],
           closeCh'[q] = closeCh[q], fin'[q] = fin[q], taken'[q] = taken[q]
    PROVE  ReaderInv(q)'
<1>1. /\ Gap' = Gap /\ Got(q)' = Got(q) /\ Len(data)' = Len(data) /\ offset' = offset
      /\ written' = written /\ cut' = cut /\ open' = open
      /\ bytes' = bytes /\ pooled' = pooled /\ lost' = lost
  BY DEF Gap, Got, bufferVars, poolVars, bodyVars
<1>2. \A n : Reached(q, n)' <=> Reached(q, n)
  BY <1>1, Zenon DEF Reached
<1>3. Index(q)'
  BY <1>1, <1>2, Zenon DEF ReaderInv, Index
<1>4. Fetching(q)'
  BY <1>1, <1>2, Zenon DEF ReaderInv, Fetching
<1>5. Ended(q)'
  BY <1>1, Zenon DEF ReaderInv, Ended
<1>6. Ordered(q)'
  BY <1>1, Zenon DEF ReaderInv, Ordered, Lost
<1>7. Kept(q)'
  BY <1>1, Zenon DEF ReaderInv, Kept, Lost
<1>8. QED
  BY <1>3, <1>4, <1>5, <1>6, <1>7 DEF ReaderInv

\* The fields of reader q.
Fields(q) == <<pc[q], i[q], loaded[q], held[q], closeCh[q], fin[q], taken[q]>>

\* A reader that neither fetches nor copies keeps what it has got.
LEMMA SameParts ==
    ASSUME NEW r \in Readers, ReaderInv(r), UNCHANGED <<bufferVars, bodyVars>>,
           taken'[r] = taken[r], held'[r] = held[r]
    PROVE  Ordered(r)' /\ Kept(r)'
<1>1. /\ Got(r)' = Got(r) /\ written' = written /\ cut' = cut
      /\ bytes' = bytes /\ pooled' = pooled /\ lost' = lost
  BY DEF Got, bufferVars, poolVars, bodyVars
<1>2. QED
  BY <1>1, Zenon DEF ReaderInv, Ordered, Kept, Lost

\* So a step of one reader is only about that reader.
LEMMA OneReader ==
    ASSUME IInv, NEW r \in Readers, UNCHANGED <<bufferVars, bodyVars>>,
           \A q \in Readers \ {r} : Fields(q)' = Fields(q),
           TypeOK', ReaderInv(r)'
    PROVE  IInv'
<1>1. Buffered'
  BY BufferedKept DEF IInv
<1>2. ASSUME NEW q \in Readers, q # r PROVE ReaderInv(q)'
  <2>1. Fields(q)' = Fields(q)
    BY <1>2
  <2>2. /\ pc'[q] = pc[q] /\ i'[q] = i[q] /\ loaded'[q] = loaded[q] /\ held'[q] = held[q]
        /\ closeCh'[q] = closeCh[q] /\ fin'[q] = fin[q] /\ taken'[q] = taken[q]
    BY <2>1 DEF Fields
  <2>3. QED
    BY <2>2, Elsewhere DEF IInv
<1>3. QED
  BY <1>1, <1>2 DEF IInv

-----------------------------------------------------------------------------
(* The goroutine of a mirror *)

\* TryGo starts or refuses.
LEMMA StartStep ==
    ASSUME IInv, NEW r \in Readers, Start(r) \/ Refuse(r)
    PROVE  IInv'
<1> USE DEF Start, Refuse
<1>1. TypeOK'
  BY DEF IInv, TypeOK, bufferVars, poolVars, bodyVars
<1>2. UNCHANGED <<bufferVars, bodyVars, i, loaded, held, closeCh, fin, taken>>
  OBVIOUS
<1>3. /\ pc[r] = "new" /\ pc'[r] \in {"loop", "refused"}
      /\ \A q \in Readers \ {r} : pc'[q] = pc[q]
  BY DEF IInv, TypeOK
<1>4. ReaderInv(r)
  BY DEF IInv
<1>5. /\ Gap' = Gap /\ Got(r)' = Got(r) /\ offset' = offset
      /\ written' = written /\ cut' = cut /\ Len(data)' = Len(data)
      /\ i' = i /\ closeCh' = closeCh /\ fin' = fin /\ taken' = taken /\ held' = held
  BY <1>2 DEF Gap, Got, bufferVars, poolVars, bodyVars
<1>6. Index(r)'
  BY <1>3, <1>4, <1>5, Zenon DEF ReaderInv, Index, Reached
<1>7. Fetching(r)' /\ Ended(r)'
  BY <1>3 DEF Fetching, Ended
<1>8. Ordered(r)' /\ Kept(r)'
  BY <1>2, <1>4, <1>5, SameParts
<1>9. \A q \in Readers \ {r} : Fields(q)' = Fields(q)
  BY <1>2, <1>3 DEF Fields
<1>10. QED
  BY <1>1, <1>2, <1>6, <1>7, <1>8, <1>9, OneReader DEF ReaderInv

\* The mirror closes its reader.
LEMMA CloseReaderStep ==
    ASSUME IInv, NEW r \in Readers, CloseReader(r)
    PROVE  IInv'
<1> USE DEF CloseReader
<1>1. TypeOK'
  BY DEF IInv, TypeOK, bufferVars, poolVars, bodyVars
<1>2. UNCHANGED <<bufferVars, bodyVars, pc, i, loaded, held, fin, taken>>
  OBVIOUS
<1>3. closeCh'[r] = FALSE /\ \A q \in Readers \ {r} : closeCh'[q] = closeCh[q]
  BY DEF IInv, TypeOK
<1>4. ReaderInv(r)
  BY DEF IInv
<1>5. /\ Gap' = Gap /\ Got(r)' = Got(r) /\ offset' = offset
      /\ written' = written /\ cut' = cut /\ Len(data)' = Len(data)
      /\ i' = i /\ pc' = pc /\ loaded' = loaded /\ taken' = taken /\ held' = held
  BY <1>2 DEF Gap, Got, bufferVars, poolVars, bodyVars
<1>6. Index(r)'
  BY <1>3, <1>4, <1>5, Zenon DEF ReaderInv, Index
<1>7. Fetching(r)'
  BY <1>4, <1>5, Zenon DEF ReaderInv, Fetching, Reached
<1>8. Ended(r)'
  BY <1>3 DEF Ended
<1>9. Ordered(r)' /\ Kept(r)'
  BY <1>2, <1>4, <1>5, SameParts
<1>10. \A q \in Readers \ {r} : Fields(q)' = Fields(q)
  BY <1>2, <1>3 DEF Fields
<1>11. QED
  BY <1>1, <1>2, <1>6, <1>7, <1>8, <1>9, <1>10, OneReader DEF ReaderInv

\* The select of Read is left, or Read returns after its finish.
LEMMA WakeStep ==
    ASSUME IInv, NEW r \in Readers, Wake(r) \/ ReturnEOF(r)
    PROVE  IInv'
<1> USE DEF Wake, ReturnEOF
<1>1. TypeOK'
  BY DEF IInv, TypeOK, bufferVars, poolVars, bodyVars
<1>2. UNCHANGED <<bufferVars, bodyVars, i, loaded, held, closeCh, fin, taken>>
  OBVIOUS
<1>3. pc \in [Readers -> {"new", "refused", "loop", "fetch", "copy", "wait", "finish", "eof"}]
  BY DEF IInv, TypeOK
<1>4. /\ \/ pc[r] = "wait" /\ pc'[r] = "loop"
         \/ pc[r] = "wait" /\ pc'[r] = "finish" /\ ~closeCh[r]
         \/ pc[r] = "finish" /\ pc'[r] = "eof"
      /\ \A q \in Readers \ {r} : pc'[q] = pc[q]
  BY <1>3
<1>5. ReaderInv(r)
  BY DEF IInv
<1>6. /\ Gap' = Gap /\ Got(r)' = Got(r) /\ offset' = offset
      /\ written' = written /\ cut' = cut /\ Len(data)' = Len(data) /\ open' = open
      /\ i' = i /\ closeCh' = closeCh /\ fin' = fin /\ taken' = taken /\ held' = held
  BY <1>2 DEF Gap, Got, bufferVars, poolVars, bodyVars
<1>7. Index(r)'
  BY <1>4, <1>5, <1>6, Zenon DEF ReaderInv, Index, Reached
<1>8. Fetching(r)'
  BY <1>4 DEF Fetching
<1>9. Ended(r)'
  BY <1>4, <1>5, <1>6, Zenon DEF ReaderInv, Ended
<1>10. Ordered(r)' /\ Kept(r)'
  BY <1>2, <1>5, <1>6, SameParts
<1>11. \A q \in Readers \ {r} : Fields(q)' = Fields(q)
  BY <1>2, <1>4 DEF Fields
<1>12. QED
  BY <1>1, <1>2, <1>7, <1>8, <1>9, <1>10, <1>11, OneReader DEF ReaderInv

\* One round of Read's loop.
LEMMA LoopStep ==
    ASSUME IInv, NEW r \in Readers, Loop(r)
    PROVE  IInv'
<1> USE DEF Loop
<1>1. /\ pc \in [Readers -> {"new", "refused", "loop", "fetch", "copy", "wait", "finish", "eof"}]
      /\ loaded \in [Readers -> 0 .. Segments]
      /\ pc[r] = "loop"
  BY DEF IInv, TypeOK
<1>2. /\ UNCHANGED <<bufferVars, bodyVars, i, held, closeCh, fin, taken>>
      /\ UNCHANGED <<data, alloc, offset, open, p2, bytes, pooled, lost, written, cut, body>>
  BY DEF bufferVars, poolVars, bodyVars
<1>3. ReaderInv(r) /\ Buffered
  BY DEF IInv
<1>4. /\ Segments \in Nat /\ offset \in Nat /\ written \in Nat /\ cut \in Nat
      /\ cut <= written /\ Len(data) \in Nat /\ Gap \in Nat
      /\ i[r] \in Int /\ i[r] >= -1 /\ i[r] <= Segments
      /\ Len(taken[r]) \in Nat /\ held[r] \in Seq(1 .. Segments)
  BY Numbers DEF IInv
<1>5. /\ Gap' = Gap /\ Got(r)' = Got(r) /\ offset' = offset
      /\ written' = written /\ cut' = cut /\ Len(data)' = Len(data) /\ open' = open
      /\ i' = i /\ closeCh' = closeCh /\ fin' = fin /\ taken' = taken /\ held' = held
  BY <1>2 DEF Gap, Got
<1>6. closeCh[r] => i[r] # -1
  BY <1>1, <1>3 DEF ReaderInv, Index
<1>7. \/ pc'[r] = "copy" /\ UNCHANGED loaded
      \/ pc'[r] = "eof" /\ ~closeCh[r] /\ UNCHANGED loaded
      \/ pc'[r] = "wait" /\ UNCHANGED loaded
      \/ /\ pc'[r] = "fetch" /\ held[r] = <<>> /\ closeCh[r] /\ i[r] # -1
         /\ i[r] < Len(data) + offset /\ loaded' = [loaded EXCEPT ![r] = i[r]]
      \/ /\ pc'[r] = "finish" /\ held[r] = <<>> /\ closeCh[r] /\ i[r] # -1
         /\ ~(i[r] < Len(data) + offset) /\ ~open /\ UNCHANGED loaded
  BY <1>1, <1>6 DEF HasSegment
<1>8. \A q \in Readers \ {r} : pc'[q] = pc[q] /\ loaded'[q] = loaded[q]
  BY <1>1
<1>9. loaded' \in [Readers -> 0 .. Segments]
  <2>1. i[r] # -1 => i[r] \in 0 .. Segments
    BY <1>4
  <2>2. QED
    BY <1>1, <2>1
<1>10. /\ snap' \in [Readers -> BOOLEAN]
       /\ pc' \in [Readers -> {"new", "refused", "loop", "fetch", "copy", "wait", "finish", "eof"}]
  BY DEF IInv, TypeOK
<1>11. TypeOK'
  BY <1>2, <1>9, <1>10 DEF IInv, TypeOK
<1>12. Index(r)'
  BY <1>3, <1>5, <1>6, Zenon DEF ReaderInv, Index, Reached
<1>13. Fetching(r)'
  <2> SUFFICES ASSUME pc'[r] = "fetch" PROVE Fetching(r)'
    BY DEF Fetching
  <2>1. /\ held[r] = <<>> /\ closeCh[r] /\ i[r] # -1 /\ i[r] < Len(data) + offset
        /\ loaded'[r] = i[r]
    BY <1>1, <1>7
  <2>2. i[r] >= offset /\ Reached(r, i[r])
    BY <1>3, <2>1 DEF ReaderInv, Index
  <2>3. i[r] \in offset .. offset + Len(data) - 1
    BY <1>4, <2>1, <2>2
  <2>4. QED
    BY <1>5, <2>1, <2>2, <2>3, Zenon DEF Fetching, Reached
<1>14. Ended(r)'
  <2> SUFFICES ASSUME closeCh'[r], pc'[r] \in {"finish", "eof"} PROVE Ended(r)'
    BY DEF Ended
  <2>1. /\ held[r] = <<>> /\ closeCh[r] /\ i[r] # -1
        /\ ~(i[r] < Len(data) + offset) /\ ~open
    BY <1>5, <1>7
  <2>2. /\ Gap = 0 => i[r] <= written
        /\ Reached(r, i[r])
    BY <1>3, <2>1 DEF ReaderInv, Index
  <2>3. Got(r) = Len(taken[r])
    BY <1>4, <2>1 DEF Got
  <2>4. CASE Gap = 0
    <3>1. i[r] = written
      BY <1>4, <2>1, <2>2, <2>4 DEF Gap
    <3>2. Got(r) = Extent(written)
      BY <2>2, <2>4, <3>1 DEF Reached
    <3>3. Extent(cut) <= Extent(written)
      BY <1>4, ExtentMonotone
    <3>4. QED
      BY <1>5, <2>1, <2>3, <3>2, <3>3 DEF Ended
  <2>5. CASE Gap > 0
    <3>1. Got(r) >= Extent(cut)
      BY <2>2, <2>5 DEF Reached
    <3>2. QED
      BY <1>5, <2>1, <2>3, <3>1 DEF Ended
  <2>6. QED
    BY <1>4, <2>4, <2>5
<1>15. Ordered(r)' /\ Kept(r)'
  BY <1>2, <1>3, <1>5, SameParts
<1>16. \A q \in Readers \ {r} : Fields(q)' = Fields(q)
  BY <1>2, <1>8 DEF Fields
<1>17. QED
  BY <1>2, <1>11, <1>12, <1>13, <1>14, <1>15, <1>16, OneReader DEF ReaderInv

\* The parts of a segment are a sequence.
LEMMA Copies ==
    ASSUME NEW S, NEW x \in S, NEW n \in Nat
    PROVE  [k \in 1 .. n |-> x] \in Seq(S) /\ Len([k \in 1 .. n |-> x]) = n
OBVIOUS

\* The segment at the loaded index is read.
LEMMA FetchStep ==
    ASSUME IInv, NEW r \in Readers, Fetch(r)
    PROVE  IInv'
<1> DEFINE s == Gap + loaded[r] + 1
           parts == [k \in 1 .. Parts(s) |-> Segment(r)]
<1>1. /\ pc \in [Readers -> {"new", "refused", "loop", "fetch", "copy", "wait", "finish", "eof"}]
      /\ loaded \in [Readers -> 0 .. Segments] /\ i \in [Readers -> -1 .. Segments]
      /\ held \in [Readers -> Seq(1 .. Segments)]
  BY DEF IInv, TypeOK
<1>2. /\ UNCHANGED <<bufferVars, bodyVars, closeCh, fin, taken, snap>>
      /\ UNCHANGED <<data, alloc, offset, open, p2, bytes, pooled, lost, written, cut, body>>
  BY DEF Fetch, bufferVars, poolVars, bodyVars
<1>3. ReaderInv(r) /\ Buffered
  BY DEF IInv
<1>4. /\ Segments \in Nat /\ offset \in Nat /\ written \in Nat /\ cut \in Nat
      /\ cut <= written /\ written <= Segments /\ Len(data) \in Nat /\ Gap \in Nat
      /\ offset + Len(data) <= written
      /\ i[r] \in Int /\ loaded[r] \in Nat
      /\ Len(taken[r]) \in Nat /\ held[r] \in Seq(1 .. Segments)
  BY Numbers DEF IInv
<1>5. /\ held[r] = <<>> /\ i[r] \in {loaded[r], -1}
      /\ loaded[r] \in offset .. offset + Len(data) - 1
      /\ Reached(r, loaded[r])
      /\ pc[r] = "fetch"
  BY <1>3 DEF Fetch, ReaderInv, Fetching
<1>6. bytes[Segment(r)] = s /\ Segment(r) \in 1 .. written \ pooled
  <2>1. loaded[r] - offset + 1 \in 1 .. Len(data)
    BY <1>4, <1>5
  <2>2. /\ bytes[Segment(r)] = written - Len(data) + (loaded[r] - offset + 1)
        /\ Segment(r) \in 1 .. written \ pooled
    BY <1>3, <2>1 DEF Buffered, Segment
  <2>3. written - Len(data) + (loaded[r] - offset + 1) = s
    BY <1>4 DEF Gap
  <2>4. QED
    BY <2>2, <2>3
<1>7. s \in 1 .. Segments /\ s <= written /\ s - 1 = Gap + loaded[r]
  BY <1>4, <1>5 DEF Gap
<1>8. /\ held' = [held EXCEPT ![r] = parts]
      /\ i' = [i EXCEPT ![r] = i[r] + 1]
      /\ pc' = [pc EXCEPT ![r] = "copy"]
      /\ loaded' = [loaded EXCEPT ![r] = 0]
  BY <1>6 DEF Fetch
<1>9. Parts(s) \in Nat /\ parts \in Seq(1 .. Segments) /\ Len(parts) = Parts(s)
  <2>1. Parts(s) \in Nat
    BY DEF Parts
  <2>2. Segment(r) \in 1 .. Segments
    BY <1>4, <1>6
  <2> HIDE DEF s
  <2>3. QED
    BY <2>1, <2>2, Copies, Zenon
<1> HIDE DEF s, parts
<1>10. /\ held'[r] = parts /\ i'[r] = i[r] + 1 /\ pc'[r] = "copy"
       /\ \A q \in Readers \ {r} : /\ held'[q] = held[q] /\ i'[q] = i[q]
                                   /\ pc'[q] = pc[q] /\ loaded'[q] = loaded[q]
  BY <1>1, <1>8
<1>11. TypeOK'
  <2>1. i[r] + 1 \in -1 .. Segments
    BY <1>4, <1>5
  <2>2. /\ i' \in [Readers -> -1 .. Segments] /\ loaded' \in [Readers -> 0 .. Segments]
        /\ held' \in [Readers -> Seq(1 .. Segments)]
        /\ pc' \in [Readers -> {"new", "refused", "loop", "fetch", "copy", "wait", "finish", "eof"}]
    BY <1>1, <1>4, <1>8, <1>9, <2>1
  <2>3. QED
    BY <1>2, <2>2 DEF IInv, TypeOK
<1>12. /\ Gap' = Gap /\ offset' = offset /\ written' = written /\ cut' = cut
       /\ Len(data)' = Len(data) /\ closeCh' = closeCh /\ fin' = fin /\ taken' = taken
  BY <1>2 DEF Gap
<1>13. Got(r) = Len(taken[r]) /\ Got(r)' = Len(taken[r]) + Parts(s)
  <2>1. Got(r) = Len(taken[r]) + 0
    BY <1>5, EmptySeq, Zenon DEF Got
  <2>2. Got(r)' = Len(taken[r]) + Parts(s)
    BY <1>9, <1>10, <1>12, Zenon DEF Got
  <2>3. QED
    BY <1>4, <2>1, <2>2
<1>14. /\ Extent(s - 1) \in Nat /\ Extent(s) \in Nat /\ Extent(cut) \in Nat
       /\ Extent(written) \in Nat /\ Extent(s) <= Extent(written)
       /\ Extent(s) = Extent(s - 1) + Parts(s)
  <2>1. s - 1 \in Nat /\ s \in Nat /\ (s - 1) + 1 = s
    BY <1>4, <1>7
  <2>2. Extent((s - 1) + 1) = Extent(s - 1) + Parts((s - 1) + 1)
    BY <2>1, ExtentNext
  <2>3. QED
    BY <1>4, <1>7, <2>1, <2>2, ExtentType, ExtentMonotone
<1>15. Gap = 0 => Len(taken[r]) = Extent(s - 1)
  BY <1>4, <1>5, <1>7, <1>13 DEF Reached
<1>16. Gap > 0 => Len(taken[r]) >= Extent(cut)
  BY <1>5, <1>13 DEF Reached
<1>17. Len(taken[r]) <= Extent(s - 1)
  <2>1. loaded[r] <= offset + Len(data)
    BY <1>4, <1>5
  <2>2. Gap > 0 => Got(r) <= Extent(Gap + loaded[r])
    BY <1>5, <2>1 DEF Reached
  <2>3. QED
    BY <1>4, <1>7, <1>13, <1>14, <1>15, <2>2
<1>18. Index(r)'
  <2>1. closeCh[r] => i[r] = loaded[r] /\ fin[r] = "no"
    BY <1>3, <1>4, <1>5 DEF ReaderInv, Index
  <2>2. closeCh[r] => i'[r] = loaded[r] + 1 /\ i'[r] # -1 /\ i'[r] >= offset
    BY <1>4, <1>5, <1>10, <2>1
  <2>3. Gap = 0 => i'[r] <= written
    BY <1>4, <1>5, <1>10 DEF Gap
  <2>4. Gap = 0 => Got(r)' = Extent(loaded[r] + 1)
    BY <1>4, <1>7, <1>13, <1>14, <1>15, SMTT(30)
  <2>5. Gap > 0 => Got(r)' >= Extent(cut)
    BY <1>4, <1>9, <1>13, <1>14, <1>16, SMTT(30)
  <2>6. Got(r)' <= Extent(Gap + (loaded[r] + 1))
    <3>1. Gap + (loaded[r] + 1) = s
      BY <1>4 DEF s
    <3>2. Got(r)' <= Extent(s)
      BY <1>4, <1>9, <1>13, <1>14, <1>17
    <3>3. QED
      BY <3>1, <3>2, Zenon
  <2>7. closeCh'[r] => Reached(r, i[r])'
    BY <1>12, <2>2, <2>4, <2>5, <2>6, Zenon DEF Reached
  <2>8. QED
    BY <1>12, <2>1, <2>2, <2>3, <2>7, Zenon DEF Index
<1>19. Fetching(r)' /\ Ended(r)'
  BY <1>10 DEF Fetching, Ended
<1>20. Ordered(r)'
  <2>1. Got(r)' <= Extent(written)
    BY <1>4, <1>9, <1>13, <1>14, <1>17, SMTT(30)
  <2>2. lost' = lost
    BY <1>2
  <2>3. QED
    BY <1>3, <1>12, <2>1, <2>2, Zenon DEF ReaderInv, Ordered, Lost
<1>21. Kept(r)'
  <2>1. ASSUME NEW k \in 1 .. Len(parts)
        PROVE  parts[k] = Segment(r) /\ k \in Nat /\ k >= 1 /\ k <= Parts(s)
    BY <1>9 DEF parts
  <2>2. ASSUME NEW k \in 1 .. Len(parts), Len(taken[r]) + k <= Extent(cut)
        PROVE  s = PartAt(Len(taken[r]) + k)
    <3>1. k \in Nat /\ k >= 1 /\ k <= Parts(s)
      BY <2>1
    <3>2. Gap = 0
      BY <1>4, <1>14, <1>16, <2>2, <3>1, SMTT(30)
    <3>3. Extent(s - 1) < Len(taken[r]) + k /\ Len(taken[r]) + k <= Extent(s)
      <4>1. Len(taken[r]) = Extent(s - 1)
        BY <1>15, <3>2
      <4>2. QED
        BY <1>9, <1>14, <3>1, <4>1
    <3>4. QED
      BY <1>4, <1>7, <3>1, <3>3, PartOf
  <2>3. Segment(r) <= written /\ Segment(r) \notin pooled /\ bytes[Segment(r)] = s
    BY <1>4, <1>6
  <2>4. bytes' = bytes /\ pooled' = pooled
    BY <1>2
  <2>5. QED
    BY <1>10, <1>12, <2>1, <2>2, <2>3, <2>4, Zenon DEF Kept
<1>22. \A q \in Readers \ {r} : Fields(q)' = Fields(q)
  BY <1>2, <1>10 DEF Fields
<1>23. QED
  BY <1>2, <1>11, <1>18, <1>19, <1>20, <1>21, <1>22, OneReader DEF ReaderInv

\* t continued with n elements, ...
LEMMA Continued ==
    ASSUME NEW S, NEW t \in Seq(S), NEW n \in Nat, NEW f \in [1 .. n -> S]
    PROVE  /\ t \o f \in Seq(S)
           /\ Len(t \o f) = Len(t) + n
           /\ \A k \in 1 .. Len(t) : (t \o f)[k] = t[k]
           /\ \A k \in 1 .. n : (t \o f)[Len(t) + k] = f[k]
<1>1. f \in Seq(S) /\ Len(f) = n
  OBVIOUS
<1>2. QED
  BY <1>1

\* ... and what is left of h.
LEMMA CutBack ==
    ASSUME NEW S, NEW h \in Seq(S), NEW n \in 0 .. Len(h)
    PROVE  /\ SubSeq(h, n + 1, Len(h)) \in Seq(S)
           /\ Len(SubSeq(h, n + 1, Len(h))) = Len(h) - n
           /\ \A k \in 1 .. Len(h) - n : SubSeq(h, n + 1, Len(h))[k] = h[n + k]
OBVIOUS

\* Some of what is held is delivered.
LEMMA CopyStep ==
    ASSUME IInv, NEW r \in Readers, Copy(r)
    PROVE  IInv'
<1>1. /\ pc \in [Readers -> {"new", "refused", "loop", "fetch", "copy", "wait", "finish", "eof"}]
      /\ taken \in [Readers -> Seq(0 .. Segments)] /\ held \in [Readers -> Seq(1 .. Segments)]
      /\ bytes \in [1 .. Segments -> 0 .. Segments]
      /\ pc[r] = "copy" /\ pc' = [pc EXCEPT ![r] = "loop"]
  BY DEF Copy, IInv, TypeOK
<1>2. /\ UNCHANGED <<bufferVars, bodyVars, i, loaded, snap, closeCh, fin>>
      /\ UNCHANGED <<data, alloc, offset, open, p2, bytes, pooled, lost, written, cut, body>>
  BY DEF Copy, bufferVars, poolVars, bodyVars
<1>3. ReaderInv(r)
  BY DEF IInv
<1> DEFINE t == taken[r]
           h == held[r]
<1>4. t \in Seq(0 .. Segments) /\ h \in Seq(1 .. Segments) /\ Len(t) \in Nat /\ Len(h) \in Nat
  BY Numbers DEF IInv
<1>5. PICK n \in 0 .. Len(h) :
         /\ taken' = [taken EXCEPT ![r] = t \o [k \in 1 .. n |-> bytes[h[k]]]]
         /\ held' = [held EXCEPT ![r] = SubSeq(h, n + 1, Len(h))]
  <2>1. PICK n \in 1 .. Len(held[r]) \cup {0} :
           /\ taken' = [taken EXCEPT ![r] = t \o [k \in 1 .. n |-> bytes[h[k]]]]
           /\ held' = [held EXCEPT ![r] = SubSeq(h, n + 1, Len(h))]
    BY DEF Copy
  <2>2. n \in 0 .. Len(h)
    BY <1>4
  <2>3. QED
    BY <2>1, <2>2
<1> DEFINE f == [k \in 1 .. n |-> bytes[h[k]]]
<1>6. /\ taken'[r] = t \o f /\ held'[r] = SubSeq(h, n + 1, Len(h))
      /\ pc'[r] = "loop"
      /\ \A q \in Readers \ {r} : /\ taken'[q] = taken[q] /\ held'[q] = held[q]
                                  /\ pc'[q] = pc[q]
  BY <1>1, <1>5
<1>7. /\ taken'[r] \in Seq(0 .. Segments) /\ held'[r] \in Seq(1 .. Segments)
      /\ Len(taken'[r]) = Len(t) + n /\ Len(held'[r]) = Len(h) - n
      /\ \A k \in 1 .. Len(t) : taken'[r][k] = t[k]
      /\ \A k \in 1 .. n : taken'[r][Len(t) + k] = bytes[h[k]]
      /\ \A k \in 1 .. Len(h) - n : held'[r][k] = h[n + k]
  <2> HIDE DEF t, h
  <2>1. n \in 0 .. Len(h) /\ h \in Seq(1 .. Segments) /\ t \in Seq(0 .. Segments) /\ n \in Nat
    BY <1>4
  <2>2. f \in [1 .. n -> 0 .. Segments]
    <3>1. \A k \in 1 .. n : k \in 1 .. Len(h)
      BY <1>4
    <3>2. \A k \in 1 .. n : h[k] \in 1 .. Segments
      BY <1>4, <3>1, ElementOfSeq, Zenon
    <3>3. QED
      BY <1>1, <3>2
  <2>3. /\ t \o f \in Seq(0 .. Segments)
        /\ Len(t \o f) = Len(t) + n
        /\ \A k \in 1 .. Len(t) : (t \o f)[k] = t[k]
        /\ \A k \in 1 .. n : (t \o f)[Len(t) + k] = bytes[h[k]]
    <3>1. \A k \in 1 .. n : f[k] = bytes[h[k]]
      OBVIOUS
    <3> HIDE DEF f
    <3> DEFINE F(S, a, m, g) ==
             /\ a \o g \in Seq(S)
             /\ Len(a \o g) = Len(a) + m
             /\ \A k \in 1 .. Len(a) : (a \o g)[k] = a[k]
             /\ \A k \in 1 .. m : (a \o g)[Len(a) + k] = g[k]
    <3>2. \A S : \A a \in Seq(S) : \A m \in Nat : \A g \in [1 .. m -> S] : F(S, a, m, g)
      BY Continued
    <3> HIDE DEF F
    <3>3. F(0 .. Segments, t, n, f)
      BY ONLY <2>1, <2>2, <3>2, Zenon
    <3>4. QED
      BY <3>1, <3>3, Zenon DEF F
  <2>4. /\ SubSeq(h, n + 1, Len(h)) \in Seq(1 .. Segments)
        /\ Len(SubSeq(h, n + 1, Len(h))) = Len(h) - n
        /\ \A k \in 1 .. Len(h) - n : SubSeq(h, n + 1, Len(h))[k] = h[n + k]
    BY ONLY <2>1, CutBack, Zenon
  <2>5. QED
    BY <1>6, <2>3, <2>4, Zenon
<1>8. TypeOK'
  <2>1. /\ taken' \in [Readers -> Seq(0 .. Segments)] /\ held' \in [Readers -> Seq(1 .. Segments)]
        /\ pc' \in [Readers -> {"new", "refused", "loop", "fetch", "copy", "wait", "finish", "eof"}]
    <3> HIDE DEF t, h
    <3> QED
      BY <1>1, <1>5, <1>6, <1>7
  <2>2. QED
    BY <1>2, <2>1 DEF IInv, TypeOK
<1>9. Got(r)' = Got(r)
  <2>1. Got(r)' = (Len(t) + n) + (Len(h) - n)
    BY <1>7, Zenon DEF Got
  <2>2. Got(r) = Len(t) + Len(h)
    BY DEF Got
  <2> HIDE DEF t, h
  <2>3. QED
    BY <1>4, <2>1, <2>2
<1>10. /\ Gap' = Gap /\ offset' = offset /\ written' = written /\ cut' = cut
       /\ Len(data)' = Len(data) /\ closeCh' = closeCh /\ fin' = fin /\ i' = i
       /\ bytes' = bytes /\ pooled' = pooled /\ lost' = lost
  BY <1>2 DEF Gap
<1>11. Index(r)'
  BY <1>1, <1>3, <1>6, <1>9, <1>10, Zenon DEF ReaderInv, Index, Reached
<1>12. Fetching(r)' /\ Ended(r)'
  BY <1>6 DEF Fetching, Ended
<1>13. Ordered(r)' /\ Kept(r)'
  <2>1. /\ Got(r) <= Extent(written)
        /\ \A k \in 1 .. Len(t) : k <= Extent(cut) => t[k] = PartAt(k) \/ Lost(r, k)
        /\ \A k \in 1 .. Len(h) :
              /\ h[k] <= written
              /\ Len(t) + k <= Extent(cut) =>
                    \/ Lost(r, Len(t) + k)
                    \/ bytes[h[k]] = PartAt(Len(t) + k) /\ h[k] \notin pooled
    BY <1>3 DEF ReaderInv, Ordered, Kept
  <2> HIDE DEF t, h
  <2>2. ASSUME NEW k \in 1 .. Len(taken'[r]), k <= Extent(cut)
        PROVE  taken'[r][k] = PartAt(k) \/ Lost(r, k)
    <3>1. CASE k <= Len(t)
      <4>1. k \in 1 .. Len(t)
        BY <1>4, <1>7, <3>1
      <4>2. QED
        BY <1>7, <2>1, <2>2, <4>1, Zenon
    <3>2. CASE k > Len(t)
      <4>1. PICK j \in 1 .. n : k = Len(t) + j
        <5>1. k - Len(t) \in 1 .. n /\ k = Len(t) + (k - Len(t))
          BY <1>4, <1>7, <3>2
        <5>2. QED
          BY <5>1
      <4>2. j \in 1 .. Len(h)
        BY <1>4
      <4>3. QED
        BY <1>7, <2>1, <2>2, <4>1, <4>2, Zenon
    <3>3. QED
      BY <1>4, <1>7, <3>1, <3>2
  <2>3. ASSUME NEW k \in 1 .. Len(held'[r])
        PROVE  /\ held'[r][k] <= written
               /\ Len(taken'[r]) + k <= Extent(cut) =>
                     \/ Lost(r, Len(taken'[r]) + k)
                     \/ /\ bytes[held'[r][k]] = PartAt(Len(taken'[r]) + k)
                        /\ held'[r][k] \notin pooled
    <3>1. /\ k \in 1 .. Len(h) - n /\ n + k \in 1 .. Len(h)
          /\ Len(taken'[r]) + k = Len(t) + (n + k)
      BY <1>4, <1>7
    <3>2. QED
      BY <1>7, <2>1, <3>1, Zenon
  <2>4. \A k : Lost(r, k)' <=> Lost(r, k)
    BY <1>10, Zenon DEF Lost
  <2>5. QED
    BY <1>9, <1>10, <2>1, <2>2, <2>3, <2>4, Zenon DEF Ordered, Kept
<1>14. \A q \in Readers \ {r} : Fields(q)' = Fields(q)
  BY <1>2, <1>6 DEF Fields
<1>15. QED
  BY <1>2, <1>8, <1>11, <1>12, <1>13, <1>14, OneReader DEF ReaderInv

-----------------------------------------------------------------------------
(* finish *)

\* The index is stored as -1.
LEMMA FinishStoreStep ==
    ASSUME IInv, NEW r \in Readers, FinishStore(r)
    PROVE  IInv'
<1> USE DEF FinishStore
<1>1. /\ i \in [Readers -> -1 .. Segments] /\ Segments \in Nat
      /\ fin \in [Readers -> {"no", "stored", "cleared", "done"}]
  BY MirrorAssumption DEF IInv, TypeOK
<1>2. /\ UNCHANGED <<bufferVars, bodyVars, pc, loaded, held, snap, closeCh, taken>>
      /\ UNCHANGED <<data, alloc, offset, open, p2, bytes, pooled, lost, written, cut, body>>
  BY DEF bufferVars, poolVars, bodyVars
<1>3. /\ i'[r] = -1 /\ fin'[r] = "stored"
      /\ \A q \in Readers \ {r} : i'[q] = i[q] /\ fin'[q] = fin[q]
  BY <1>1
<1>4. TypeOK'
  <2>1. /\ i' \in [Readers -> -1 .. Segments]
        /\ fin' \in [Readers -> {"no", "stored", "cleared", "done"}]
    BY <1>1
  <2>2. QED
    BY <1>2, <2>1 DEF IInv, TypeOK
<1>5. ReaderInv(r)
  BY DEF IInv
<1>6. /\ Gap' = Gap /\ Got(r)' = Got(r) /\ offset' = offset
      /\ written' = written /\ cut' = cut /\ Len(data)' = Len(data) /\ open' = open
      /\ closeCh' = closeCh /\ pc' = pc /\ taken' = taken /\ held' = held
      /\ loaded' = loaded
  BY <1>2 DEF Gap, Got
<1>7. Index(r)'
  <2>1. closeCh[r] => pc[r] = "finish"
    OBVIOUS
  <2>2. i'[r] <= written
    <3>1. written \in Nat
      BY Numbers DEF IInv
    <3>2. QED
      BY <1>3, <3>1
  <2>3. "stored" # "no"
    OBVIOUS
  <2>4. QED
    BY <1>3, <1>6, <2>1, <2>2, <2>3, Zenon DEF Index
<1>8. Fetching(r)'
  BY <1>3, <1>5, <1>6, Zenon DEF ReaderInv, Fetching, Reached
<1>9. Ended(r)' /\ Ordered(r)' /\ Kept(r)'
  <2>1. Ended(r)'
    BY <1>5, <1>6, Zenon DEF ReaderInv, Ended
  <2>2. QED
    BY <1>2, <1>5, <1>6, <2>1, SameParts
<1>10. \A q \in Readers \ {r} : Fields(q)' = Fields(q)
  BY <1>2, <1>3 DEF Fields
<1>11. QED
  BY <1>2, <1>4, <1>7, <1>8, <1>9, <1>10, OneReader DEF ReaderInv

\* The held segment is dropped.
LEMMA FinishClearStep ==
    ASSUME IInv, NEW r \in Readers, FinishClear(r)
    PROVE  IInv'
<1> USE DEF FinishClear
<1>1. /\ held \in [Readers -> Seq(1 .. Segments)]
      /\ fin \in [Readers -> {"no", "stored", "cleared", "done"}] /\ fin[r] = "stored"
  BY DEF IInv, TypeOK
<1>2. /\ UNCHANGED <<bufferVars, bodyVars, pc, i, loaded, snap, closeCh, taken>>
      /\ UNCHANGED <<data, alloc, offset, open, p2, bytes, pooled, lost, written, cut, body>>
  BY DEF bufferVars, poolVars, bodyVars
<1>3. /\ held'[r] = <<>> /\ fin'[r] = "cleared"
      /\ \A q \in Readers \ {r} : held'[q] = held[q] /\ fin'[q] = fin[q]
  BY <1>1
<1>4. TypeOK'
  <2>1. /\ held' \in [Readers -> Seq(1 .. Segments)]
        /\ fin' \in [Readers -> {"no", "stored", "cleared", "done"}]
    BY <1>1, EmptySeq
  <2>2. QED
    BY <1>2, <2>1 DEF IInv, TypeOK
<1>5. ReaderInv(r)
  BY DEF IInv
<1>6. /\ Gap' = Gap /\ offset' = offset
      /\ written' = written /\ cut' = cut /\ Len(data)' = Len(data) /\ open' = open
      /\ closeCh' = closeCh /\ pc' = pc /\ i' = i /\ taken' = taken /\ loaded' = loaded
  BY <1>2 DEF Gap
<1>7. Index(r)'
  <2>1. /\ "stored" # "no" /\ "cleared" # "no"
    OBVIOUS
  <2>2. /\ Gap = 0 => i[r] <= written
        /\ closeCh[r] => i[r] = -1
        /\ closeCh[r] /\ i[r] = -1 => pc[r] \in {"finish", "eof"}
    BY <1>1, <1>5, <2>1, Zenon DEF ReaderInv, Index
  <2>3. QED
    BY <1>3, <1>6, <2>1, <2>2, Zenon DEF Index
<1>8. held[r] = <<>> => Got(r)' = Got(r)
  BY <1>3, <1>6, Zenon DEF Got
<1>9. Fetching(r)'
  BY <1>3, <1>5, <1>6, <1>8, Zenon DEF ReaderInv, Fetching, Reached
<1>10. Ended(r)'
  BY <1>3, <1>5, <1>6, Zenon DEF ReaderInv, Ended
<1>11. Ordered(r)' /\ Kept(r)'
  <2>1. /\ written \in Nat /\ Len(taken[r]) \in Nat /\ Len(held[r]) \in Nat
        /\ Extent(written) \in Nat
    BY Numbers, ExtentType DEF IInv
  <2>2. Len(taken[r]) + Len(held[r]) <= Extent(written)
    BY <1>5 DEF ReaderInv, Ordered, Got
  <2>3. Len(taken[r]) + 0 <= Extent(written)
    <3>1. \A a, b, c \in Nat : a + b <= c => a + 0 <= c
      OBVIOUS
    <3>2. QED
      BY <2>1, <2>2, <3>1, Zenon
  <2>4. Len(held'[r]) = 0
    BY <1>3, EmptySeq, Zenon
  <2>5. Got(r)' <= Extent(written)
    BY <1>6, <2>3, <2>4, Zenon DEF Got
  <2>6. \A k \in 1 .. 0 : FALSE
    OBVIOUS
  <2>7. lost' = lost
    BY <1>2
  <2>8. QED
    BY <1>5, <1>6, <2>4, <2>5, <2>6, <2>7, Zenon DEF ReaderInv, Ordered, Kept, Lost
<1>12. \A q \in Readers \ {r} : Fields(q)' = Fields(q)
  BY <1>2, <1>3 DEF Fields
<1>13. QED
  BY <1>2, <1>4, <1>7, <1>9, <1>10, <1>11, <1>12, OneReader DEF ReaderInv

-----------------------------------------------------------------------------
(* The main request *)

\* The buffer is closed, at the end of the body or before.
LEMMA CloseStep ==
    ASSUME IInv, EndOfBody \/ AbortBody \/ RoundTripReturns
    PROVE  IInv'
<1> USE DEF EndOfBody, AbortBody, RoundTripReturns
<1>1. /\ UNCHANGED <<data, alloc, offset, p2, bytes, pooled, lost, written, cut, readerVars>>
      /\ open' = FALSE /\ body' \in {"reading", "ended"}
  BY DEF bodyVars, poolVars, IInv, TypeOK
<1>2. UNCHANGED <<pc, i, loaded, held, snap, closeCh, fin, taken>>
  BY <1>1 DEF readerVars
<1>3. TypeOK'
  BY <1>1, <1>2 DEF IInv, TypeOK
<1>4. Buffered'
  BY <1>1 DEF IInv, Buffered, Gap
<1>5. ASSUME NEW r \in Readers PROVE ReaderInv(r)'
  <2>1. ReaderInv(r)
    BY DEF IInv
  <2>2. /\ Gap' = Gap /\ Got(r)' = Got(r) /\ Len(data)' = Len(data)
    BY <1>1, <1>2 DEF Gap, Got
  <2>3. Index(r)' /\ Fetching(r)'
    BY <1>1, <1>2, <2>1, <2>2, Zenon DEF ReaderInv, Index, Fetching, Reached
  <2>4. Ended(r)' /\ Ordered(r)' /\ Kept(r)'
    BY <1>1, <1>2, <2>1, <2>2, Zenon DEF ReaderInv, Ended, Ordered, Kept, Lost, poolVars
  <2>5. QED
    BY <2>3, <2>4 DEF ReaderInv
<1>6. QED
  BY <1>3, <1>4, <1>5 DEF IInv

\* A buffer that is new or comes from the pool is filled: neither mb.data nor
\* Write nor a reader that did not lose its segment has that one.
LEMMA FillStep ==
    ASSUME IInv, NEW b \in 1 .. Segments, b \in pooled \/ b = written + 1,
           NEW x \in 0 .. Segments, bytes' = [bytes EXCEPT ![b] = x],
           pooled' \subseteq pooled,
           UNCHANGED <<data, alloc, offset, open, lost, bodyVars, readerVars>>,
           p2' # 0 => /\ bytes'[p2'] = written + 1 /\ p2' \in 1 .. written + 1
                      /\ p2' \notin pooled' /\ written < Segments
    PROVE  p2' \in 0 .. Segments => IInv'
<1> SUFFICES ASSUME p2' \in 0 .. Segments PROVE IInv'
  OBVIOUS
<1>1. /\ UNCHANGED <<data, alloc, offset, open, lost, written, cut, body>>
      /\ UNCHANGED <<pc, i, loaded, held, snap, closeCh, fin, taken>>
  BY DEF bodyVars, readerVars
<1>2. /\ bytes \in [1 .. Segments -> 0 .. Segments] /\ pooled \subseteq 1 .. written
      /\ written \in Nat /\ written <= Segments
  BY Numbers DEF IInv, TypeOK
<1>3. \A c : c \in 1 .. written /\ c \notin pooled =>
                 bytes'[c] = bytes[c] /\ c \notin pooled'
  BY <1>2
<1>4. TypeOK'
  <2>1. bytes' \in [1 .. Segments -> 0 .. Segments] /\ pooled' \subseteq 1 .. written
    BY <1>2
  <2>2. QED
    BY <1>1, <2>1 DEF IInv, TypeOK
<1>5. Gap' = Gap
  BY <1>1 DEF Gap
<1>6. Buffered'
  <2>1. Buffered
    BY DEF IInv
  <2>2. ASSUME NEW k \in 1 .. Len(data)
        PROVE  bytes'[data[k]] = bytes[data[k]] /\ data[k] \in 1 .. written \ pooled'
    BY <1>3, <2>1 DEF Buffered
  <2>3. p2' # 0 => bytes'[p2'] = written + 1 /\ p2' \in 1 .. written + 1 /\ p2' \notin pooled'
    OBVIOUS
  <2>4. \A k \in 1 .. Len(data)' :
           /\ bytes'[data'[k]] = written' - Len(data)' + k
           /\ data'[k] \in 1 .. written' \ pooled'
    BY <1>1, <2>1, <2>2 DEF Buffered
  <2>5. /\ alloc' => offset' + Len(data)' >= 1
        /\ open' => cut' = written' /\ Gap' = 0
        /\ Gap' > 0 => cut' <= Gap'
    BY <1>1, <1>5, <2>1 DEF Buffered
  <2>6. QED
    BY <1>1, <2>3, <2>4, <2>5 DEF Buffered
<1>7. ASSUME NEW r \in Readers PROVE ReaderInv(r)'
  <2>1. ReaderInv(r) /\ held[r] \in Seq(1 .. Segments)
    BY Numbers DEF IInv
  <2>2. Got(r)' = Got(r)
    BY <1>1 DEF Got
  <2>3. Index(r)' /\ Fetching(r)'
    BY <1>1, <1>5, <2>1, <2>2 DEF ReaderInv, Index, Fetching, Reached
  <2>4. ASSUME NEW k \in 1 .. Len(held[r]), held[r][k] \notin pooled
        PROVE  bytes'[held[r][k]] = bytes[held[r][k]] /\ held[r][k] \notin pooled'
    <3>1. held[r][k] \in 1 .. Segments /\ held[r][k] <= written
      BY <2>1, ElementOfSeq DEF ReaderInv, Kept
    <3>2. held[r][k] \in 1 .. written
      BY <1>2, <3>1
    <3>3. QED
      BY <1>3, <2>4, <3>2
  <2>5. Kept(r)'
    BY <1>1, <2>1, <2>4, Zenon DEF ReaderInv, Kept, Lost
  <2>6. Ended(r)' /\ Ordered(r)'
    BY <1>1, <2>1, <2>2 DEF ReaderInv, Ended, Ordered, Lost
  <2>7. QED
    BY <2>3, <2>5, <2>6 DEF ReaderInv
<1>8. QED
  BY <1>4, <1>6, <1>7 DEF IInv

\* Write copies the next segment.
LEMMA CopySegmentStep ==
    ASSUME IInv, CopySegment
    PROVE  IInv'
<1>1. PICK b \in pooled \cup {written + 1} :
         /\ p2' = b /\ bytes' = [bytes EXCEPT ![b] = written + 1]
         /\ pooled' = pooled \ {b}
  BY DEF CopySegment
<1>2. /\ written < Segments
      /\ UNCHANGED <<data, alloc, offset, open, lost, bodyVars, readerVars>>
  BY DEF CopySegment
<1>3. /\ written \in Nat /\ Segments \in Nat /\ pooled \subseteq 1 .. written
      /\ bytes \in [1 .. Segments -> 0 .. Segments]
  BY Numbers DEF IInv, TypeOK
<1>4. /\ b \in 1 .. Segments /\ b \in 1 .. written + 1 /\ b \in 0 .. Segments
      /\ written + 1 \in 0 .. Segments
  BY <1>2, <1>3
<1>5. bytes'[b] = written + 1
  BY <1>1, <1>3, <1>4
<1>6. QED
  BY <1>1, <1>2, <1>4, <1>5, FillStep

\* Another user of the pool fills one of its buffers.
LEMMA OthersUseStep ==
    ASSUME IInv, NEW b \in 1 .. Segments, OthersUse(b)
    PROVE  IInv'
<1>1. /\ b \in pooled /\ bytes' = [bytes EXCEPT ![b] = 0]
      /\ UNCHANGED <<data, alloc, offset, open, lost, bodyVars, readerVars>>
      /\ pooled' = pooled /\ p2' = p2
  BY DEF OthersUse
<1>2. /\ Segments \in Nat /\ bytes \in [1 .. Segments -> 0 .. Segments]
      /\ p2 \in 0 .. Segments /\ (p2 # 0 => written < Segments)
      /\ p2 # 0 => bytes[p2] = written + 1 /\ p2 \in 1 .. written + 1 /\ p2 \notin pooled
  BY MirrorAssumption DEF IInv, TypeOK, Buffered
<1>3. p2 # 0 => bytes'[p2] = bytes[p2]
  BY <1>1, <1>2
<1>4. 0 \in 0 .. Segments
  BY <1>2
<1>5. QED
  BY <1>1, <1>2, <1>3, <1>4, FillStep

\* A segment is written, to the open buffer or to the closed one.
LEMMA WriteStep ==
    ASSUME IInv, Write
    PROVE  IInv'
<1>1. /\ UNCHANGED <<offset, open, bytes, pooled, lost, body>>
      /\ UNCHANGED <<pc, i, loaded, held, closeCh, fin, taken>>
      /\ written' = written + 1 /\ written < Segments
      /\ data' = Append(data, p2) /\ alloc' = TRUE /\ p2' = 0
      /\ open => cut' = cut + 1
      /\ ~open => cut' = cut
      /\ \A r \in Readers : pc[r] # "fetch"
  BY DEF Write, LockFree, IInv, TypeOK
<1>own. /\ p2 \in 1 .. written + 1 /\ p2 \notin pooled /\ bytes[p2] = written + 1
  BY DEF Write, IInv, Buffered
<1>2. /\ Segments \in Nat /\ offset \in Nat /\ written \in Nat /\ cut \in Nat
      /\ cut <= written /\ written <= Segments /\ Len(data) \in Nat /\ Gap \in Nat
      /\ offset + Len(data) <= written
  BY Numbers DEF IInv
<1>3. data \in Seq(1 .. Segments) /\ Buffered
  BY DEF IInv, TypeOK
<1>4. /\ data' \in Seq(1 .. Segments) /\ Len(data') = Len(data) + 1
      /\ \A k \in 1 .. Len(data) : data'[k] = data[k]
      /\ data'[Len(data) + 1] = p2
  <2>1. p2 \in 1 .. Segments
    BY <1>1, <1>2, <1>own
  <2>2. QED
    BY <1>1, <1>3, <2>1, AppendProperties
<1>5. Gap' = Gap
  BY <1>1, <1>2, <1>4 DEF Gap
<1>6. /\ cut' \in Nat /\ cut' <= written' /\ written' \in Nat
      /\ open => cut = written /\ cut' = written' /\ Gap = 0
  <2>1. open => cut = written /\ Gap = 0
    BY <1>3 DEF Buffered
  <2>2. open \/ ~open
    OBVIOUS
  <2>3. cut' = cut + 1 \/ cut' = cut
    BY <1>1
  <2>4. cut' \in Nat /\ cut' <= written' /\ written' \in Nat
    BY <1>1, <1>2, <2>3
  <2>5. QED
    BY <1>1, <2>1, <2>4
<1>7. TypeOK'
  <2>1. /\ offset' + Len(data') <= written' /\ written' \in 0 .. Segments
        /\ cut' \in 0 .. written' /\ offset' \in 0 .. Segments
    <3>1. offset' = offset
      BY <1>1
    <3>2. QED
      BY <1>1, <1>2, <1>4, <1>6, <3>1
  <2>2. snap' \in [Readers -> BOOLEAN]
    BY DEF Write, IInv, TypeOK
  <2>3. QED
    <3>1. p2' \in 0 .. Segments /\ ~(p2' # 0)
      BY <1>1, <1>2
    <3>2. pooled' \subseteq 1 .. written'
      BY <1>1, <1>2 DEF IInv, TypeOK
    <3>3. QED
      BY <1>1, <1>4, <2>1, <2>2, <3>1, <3>2 DEF IInv, TypeOK
<1>8. Buffered'
  <2>1. ASSUME NEW k \in 1 .. Len(data')
        PROVE  /\ bytes'[data'[k]] = written' - Len(data') + k
               /\ data'[k] \in 1 .. written' \ pooled'
    <3>1. CASE k = Len(data) + 1
      BY <1>1, <1>2, <1>4, <1>own, <3>1
    <3>2. CASE k # Len(data) + 1
      <4>1. k \in 1 .. Len(data)
        BY <1>2, <1>4, <3>2
      <4>2. bytes[data'[k]] = written - Len(data) + k /\ data'[k] \in 1 .. written \ pooled
        BY <1>3, <1>4, <4>1 DEF Buffered
      <4>3. QED
        BY <1>1, <1>2, <1>4, <4>1, <4>2
    <3>3. QED
      BY <3>1, <3>2
  <2>2. offset' + Len(data') >= 1
    <3>1. offset' = offset
      BY <1>1
    <3>2. QED
      BY <1>2, <1>4, <3>1
  <2>3. open' => cut' = written' /\ Gap' = 0
    BY <1>1, <1>5, <1>6
  <2>4. Gap' > 0 => cut' <= Gap'
    <3> SUFFICES ASSUME Gap > 0 PROVE cut' <= Gap
      BY <1>5
    <3>1. ~open
      BY <1>2, <1>6
    <3>2. QED
      BY <1>1, <1>3, <3>1 DEF Buffered
  <2>5. QED
    BY <1>1, <2>1, <2>2, <2>3, <2>4 DEF Buffered
<1>9. ASSUME NEW r \in Readers PROVE ReaderInv(r)'
  <2>1. ReaderInv(r)
    BY DEF IInv
  <2>2. /\ i[r] \in Int /\ Len(taken[r]) \in Nat /\ Len(held[r]) \in Nat /\ Got(r) \in Nat
    BY Numbers DEF IInv
  <2>3. /\ Got(r)' = Got(r) /\ offset' = offset /\ open' = open /\ pc' = pc /\ i' = i
        /\ held' = held /\ closeCh' = closeCh /\ fin' = fin /\ taken' = taken
        /\ bytes' = bytes /\ pooled' = pooled /\ lost' = lost
    BY <1>1 DEF Got
  <2>4. /\ Extent(cut) \in Nat /\ Extent(cut') \in Nat
        /\ Extent(written) \in Nat /\ Extent(written') \in Nat
        /\ Extent(written) <= Extent(written')
    <3>1. written \in Nat /\ written' \in Nat /\ written <= written' /\ cut \in Nat /\ cut' \in Nat
      BY <1>1, <1>2, <1>6
    <3>2. QED
      BY <3>1, ExtentType, ExtentMonotone, Zenon
  <2>5. Got(r) <= Extent(written)
    BY <2>1 DEF ReaderInv, Ordered
  <2>6. \A k \in Nat : k <= Got(r) /\ k <= Extent(cut') => k <= Extent(cut)
    <3>1. CASE open
      <4>1. Got(r) <= Extent(cut)
        BY <1>6, <2>5, <3>1
      <4>2. QED
        BY <2>2, <2>4, <4>1
    <3>2. CASE ~open
      BY <1>1, <3>2
    <3>3. QED
      BY <3>1, <3>2
  <2>7. Ordered(r)' /\ Kept(r)'
    <3>1. Got(r) <= Extent(written')
      BY <2>2, <2>4, <2>5
    <3>2. ASSUME NEW k \in 1 .. Len(taken[r]), k <= Extent(cut')
          PROVE  taken[r][k] = PartAt(k) \/ Lost(r, k)
      <4>1. k \in Nat /\ k <= Got(r)
        <5>1. \A a, b \in Nat : \A c \in 1 .. a : c \in Nat /\ c <= a + b
          OBVIOUS
        <5>2. QED
          BY <2>2, <5>1, Zenon DEF Got
      <4>2. QED
        BY <2>1, <2>6, <3>2, <4>1 DEF ReaderInv, Ordered
    <3>3. ASSUME NEW k \in 1 .. Len(held[r]), Len(taken[r]) + k <= Extent(cut')
          PROVE  \/ Lost(r, Len(taken[r]) + k)
                 \/ /\ bytes[held[r][k]] = PartAt(Len(taken[r]) + k)
                    /\ held[r][k] \notin pooled
      <4>1. Len(taken[r]) + k \in Nat /\ Len(taken[r]) + k <= Got(r)
        BY <2>2 DEF Got
      <4>2. QED
        BY <2>1, <2>6, <3>3, <4>1 DEF ReaderInv, Kept
    <3>4. \A k \in 1 .. Len(held[r]) : held[r][k] <= written'
      <4>1. held[r] \in Seq(1 .. Segments)
        BY Numbers DEF IInv
      <4>2. ASSUME NEW k \in 1 .. Len(held[r]) PROVE held[r][k] <= written'
        <5>1. held[r][k] \in 1 .. Segments /\ held[r][k] <= written
          BY <2>1, <4>1, <4>2, ElementOfSeq DEF ReaderInv, Kept
        <5>2. QED
          BY <1>1, <1>2, <5>1
      <4>3. QED
        BY <4>2
    <3>5. \A k : Lost(r, k)' <=> Lost(r, k)
      BY <2>3, Zenon DEF Lost
    <3>6. QED
      BY <2>3, <3>1, <3>2, <3>3, <3>4, <3>5, Zenon DEF Ordered, Kept
  <2>8. Index(r)'
    <3>1. Gap = 0 => i[r] <= written'
      BY <1>1, <1>2, <2>1, <2>2 DEF ReaderInv, Index
    <3>2. ASSUME closeCh[r], i[r] # -1
          PROVE  i[r] >= offset /\ Reached(r, i[r])'
      <4>1. /\ i[r] >= offset
            /\ Gap = 0 => Got(r) = Extent(i[r])
            /\ Gap > 0 => Got(r) >= Extent(cut)
            /\ Gap > 0 => (i[r] <= offset + Len(data) => Got(r) <= Extent(Gap + i[r]))
        BY <2>1, <3>2 DEF ReaderInv, Index, Reached
      <4>2. ASSUME Gap > 0
            PROVE  /\ Got(r) >= Extent(cut')
                   /\ i[r] <= offset + Len(data') => Got(r) <= Extent(Gap + i[r])
        <5>1. cut' = cut
          BY <1>1, <1>2, <1>6, <4>2
        <5>2. Got(r) >= Extent(cut')
          BY <4>1, <4>2, <5>1
        <5>3. ASSUME i[r] = offset + Len(data) + 1
              PROVE  Got(r) <= Extent(Gap + i[r])
          <6>1. Gap + i[r] \in Nat /\ written <= Gap + i[r]
            BY <1>2, <5>3 DEF Gap
          <6>2. Extent(Gap + i[r]) \in Nat /\ Extent(written) <= Extent(Gap + i[r])
            BY <1>2, <6>1, ExtentType, ExtentMonotone
          <6>3. \A a, b, c \in Nat : a <= b /\ b <= c => a <= c
            OBVIOUS
          <6>4. QED
            BY <2>2, <2>4, <2>5, <6>2, <6>3, Zenon
        <5>4. i[r] <= offset + Len(data') =>
                 i[r] <= offset + Len(data) \/ i[r] = offset + Len(data) + 1
          BY <1>2, <1>4, <2>2
        <5>5. QED
          BY <4>1, <4>2, <5>2, <5>3, <5>4
      <4>3. Reached(r, i[r])'
        BY <1>5, <2>3, <4>1, <4>2, Zenon DEF Reached
      <4>4. QED
        BY <4>1, <4>3
    <3>3. QED
      BY <1>5, <2>1, <2>3, <3>1, <3>2, Zenon DEF ReaderInv, Index
  <2>9. Fetching(r)'
    BY <1>1 DEF Fetching
  <2>10. Ended(r)'
    <3>1. closeCh[r] /\ pc[r] \in {"finish", "eof"} => ~open
      BY <2>1 DEF ReaderInv, Ended
    <3>2. ~open => cut' = cut
      BY <1>1
    <3>3. QED
      BY <2>1, <2>3, <3>1, <3>2, Zenon DEF ReaderInv, Ended
  <2>11. QED
    BY <2>7, <2>8, <2>9, <2>10 DEF ReaderInv
<1>10. QED
  BY <1>7, <1>8, <1>9 DEF IInv

-----------------------------------------------------------------------------
(* reclaimBuffer *)

\* What all of its outcomes have in common. Nobody is between the bounds check
\* of a Read and its access.
LEMMA ReclaimFrame ==
    ASSUME IInv, NEW r \in Readers, FinishReclaim(r)
    PROVE  /\ UNCHANGED <<bodyVars, pc, i, loaded, held, snap, closeCh, taken>>
           /\ written' = written /\ cut' = cut /\ body' = body
           /\ fin' \in [Readers -> {"no", "stored", "cleared", "done"}]
           /\ \A q \in Readers :
                 /\ pc[q] # "fetch"
                 /\ closeCh[q] => (i[q] = -1 <=> fin'[q] # "no")
<1>1. /\ fin \in [Readers -> {"no", "stored", "cleared", "done"}]
      /\ fin[r] = "cleared" /\ fin' = [fin EXCEPT ![r] = "done"]
      /\ \A q \in Readers : pc[q] # "fetch"
  BY DEF FinishReclaim, LockFree, IInv, TypeOK
<1>2. /\ UNCHANGED <<bodyVars, pc, i, loaded, held, snap, closeCh, taken>>
      /\ written' = written /\ cut' = cut /\ body' = body
  BY DEF FinishReclaim, bodyVars
<1>3. fin' \in [Readers -> {"no", "stored", "cleared", "done"}]
  BY <1>1
<1>4. ASSUME NEW q \in Readers PROVE closeCh[q] => (i[q] = -1 <=> fin'[q] # "no")
  <2>1. fin'[q] # "no" <=> fin[q] # "no"
    BY <1>1
  <2>2. ReaderInv(q)
    BY DEF IInv
  <2>3. QED
    BY <2>1, <2>2, Zenon DEF ReaderInv, Index
<1>5. QED
  BY <1>1, <1>2, <1>3, <1>4

\* A reader keeps what is known of it when its index is not below the new
\* offset and it has what belongs to its index in the new buffer.
LEMMA ReclaimReader ==
    ASSUME IInv, NEW r \in Readers, FinishReclaim(r), NEW q \in Readers,
           open' => open,
           Gap' = 0 => Gap = 0,
           lost[q] \subseteq lost'[q], Kept(q)',
           closeCh[q] /\ i[q] # -1 => i[q] >= offset' /\ Reached(q, i[q])'
    PROVE  ReaderInv(q)'
<1>1. /\ pc' = pc /\ i' = i /\ held' = held /\ closeCh' = closeCh /\ taken' = taken
      /\ written' = written /\ cut' = cut /\ pc[q] # "fetch"
      /\ closeCh[q] => (i[q] = -1 <=> fin'[q] # "no")
  BY ReclaimFrame
<1>2. ReaderInv(q)
  BY DEF IInv
<1>3. Index(q)'
  BY <1>1, <1>2, Zenon DEF ReaderInv, Index
<1>4. Fetching(q)'
  BY <1>1 DEF Fetching
<1>5. Got(q)' = Got(q)
  BY <1>1 DEF Got
<1>6. Ended(q)' /\ Ordered(q)'
  BY <1>1, <1>2, <1>5, Zenon DEF ReaderInv, Ended, Ordered, Lost
<1>7. QED
  BY <1>3, <1>4, <1>6 DEF ReaderInv

\* Buffers that go to the pool are marked as lost for the readers that hold them;
\* the others stay out of it.
LEMMA PutKeeps ==
    ASSUME IInv, NEW n \in 0 .. Len(data), Put(n), UNCHANGED <<bytes, held, taken, written, cut>>
    PROVE  /\ pooled' \subseteq 1 .. written
           /\ lost' \in [Readers -> SUBSET (1 .. Segments)]
           /\ \A k \in n + 1 .. Len(data) : data[k] \notin pooled'
           /\ p2 # 0 => p2 \notin pooled'
           /\ \A q \in Readers : lost[q] \subseteq lost'[q] /\ Kept(q)'
<1>1. /\ Segments \in Nat /\ written \in Nat /\ written <= Segments /\ Len(data) \in Nat
      /\ offset \in Nat /\ offset + Len(data) <= written
  BY Numbers DEF IInv
<1>2. /\ pooled \subseteq 1 .. written /\ lost \in [Readers -> SUBSET (1 .. Segments)]
      /\ Buffered
  BY DEF IInv, TypeOK
<1>3. /\ pooled' = pooled \cup {data[k] : k \in 1 .. n}
      /\ lost' = [r \in Readers |->
                   lost[r] \cup {bytes[data[k]] : k \in
                       {m \in 1 .. n : \E h \in DOMAIN held[r] : held[r][h] = data[m]}}]
  BY DEF Put, HeldBelow
<1>4. \A k \in 1 .. n : k \in 1 .. Len(data)
  BY <1>1
<1>5. \A k \in 1 .. Len(data) : /\ data[k] \in 1 .. written /\ data[k] \notin pooled
                                /\ bytes[data[k]] = written - Len(data) + k
  BY <1>2 DEF Buffered
<1>6. pooled' \subseteq 1 .. written
  BY <1>2, <1>3, <1>4, <1>5
<1>7. lost' \in [Readers -> SUBSET (1 .. Segments)]
  <2>1. \A k \in 1 .. n : bytes[data[k]] \in 1 .. Segments
    <3>1. \A k \in 1 .. Len(data) : written - Len(data) + k \in 1 .. Segments
      BY <1>1
    <3>2. QED
      BY <1>4, <1>5, <3>1
  <2>2. QED
    BY <1>2, <1>3, <2>1
<1>8. ASSUME NEW k \in n + 1 .. Len(data) PROVE data[k] \notin pooled'
  <2>1. k \in 1 .. Len(data) /\ k \in Nat
    BY <1>1
  <2>2. ASSUME NEW m \in 1 .. n, data[k] = data[m] PROVE FALSE
    <3>1. written - Len(data) + k = written - Len(data) + m
      BY <1>4, <1>5, <2>1, <2>2
    <3>2. QED
      BY <1>1, <2>1, <3>1
  <2>3. QED
    BY <1>3, <1>5, <2>1, <2>2
<1>9. ASSUME p2 # 0 PROVE p2 \notin pooled'
  <2>1. bytes[p2] = written + 1 /\ p2 \notin pooled
    BY <1>2, <1>9 DEF Buffered
  <2>2. ASSUME NEW m \in 1 .. n, p2 = data[m] PROVE FALSE
    <3>1. written + 1 = written - Len(data) + m
      BY <1>4, <1>5, <2>1, <2>2
    <3>2. QED
      BY <1>1, <3>1
  <2>3. QED
    BY <1>3, <2>1, <2>2
<1>10. ASSUME NEW q \in Readers PROVE lost[q] \subseteq lost'[q] /\ Kept(q)'
  <2>1. lost[q] \subseteq lost'[q]
    BY <1>2, <1>3
  <2>2. Kept(q)
    BY DEF IInv, ReaderInv
  <2>3. held[q] \in Seq(1 .. Segments) /\ DOMAIN held[q] = 1 .. Len(held[q])
    BY Numbers, LenProperties DEF IInv
  <2>4. ASSUME NEW h \in 1 .. Len(held[q]), NEW m \in 1 .. n, held[q][h] = data[m]
        PROVE  bytes[held[q][h]] \in lost'[q]
    <3>1. m \in {x \in 1 .. n : \E y \in DOMAIN held[q] : held[q][y] = data[x]}
      BY <2>3, <2>4
    <3>2. QED
      BY <1>2, <1>3, <2>4, <3>1
  <2>5. ASSUME NEW h \in 1 .. Len(held[q]), Len(taken[q]) + h <= Extent(cut)
        PROVE  \/ PartAt(Len(taken[q]) + h) \in lost'[q]
               \/ /\ bytes[held[q][h]] = PartAt(Len(taken[q]) + h)
                  /\ held[q][h] \notin pooled'
    <3>1. \/ PartAt(Len(taken[q]) + h) \in lost[q]
          \/ /\ bytes[held[q][h]] = PartAt(Len(taken[q]) + h)
             /\ held[q][h] \notin pooled
      BY <2>2, <2>5 DEF Kept, Lost
    <3>2. CASE held[q][h] \in {data[m] : m \in 1 .. n}
      BY <2>1, <2>4, <3>1, <3>2
    <3>3. CASE held[q][h] \notin {data[m] : m \in 1 .. n}
      BY <1>3, <2>1, <3>1, <3>3
    <3>4. QED
      BY <3>2, <3>3
  <2>6. QED
    BY <2>1, <2>2, <2>5, Zenon DEF Kept, Lost
<1>11. QED
  BY <1>6, <1>7, <1>8, <1>9, <1>10

\* Nothing to reclaim, or nothing is below the slowest reader.
LEMMA ReclaimNothing ==
    ASSUME IInv, NEW r \in Readers, FinishReclaim(r), UNCHANGED bufferVars
    PROVE  IInv'
<1>1. /\ UNCHANGED <<bodyVars, pc, i, loaded, held, snap, closeCh, taken>>
      /\ UNCHANGED <<data, alloc, offset, open, p2, bytes, pooled, lost, written, cut, body>>
      /\ fin' \in [Readers -> {"no", "stored", "cleared", "done"}]
  BY ReclaimFrame DEF bufferVars, poolVars
<1>2. TypeOK'
  BY <1>1 DEF IInv, TypeOK
<1>3. Buffered'
  BY <1>1, BufferedKept DEF IInv
<1>4. Gap' = Gap
  BY <1>1 DEF Gap
<1>5. ASSUME NEW q \in Readers PROVE ReaderInv(q)'
  <2>1. ReaderInv(q)
    BY DEF IInv
  <2>2. Got(q)' = Got(q) /\ Len(data)' = Len(data) /\ lost' = lost
    BY <1>1 DEF Got
  <2>3. Kept(q)'
    BY <1>1, <2>1, SameParts
  <2>4. closeCh[q] /\ i[q] # -1 => i[q] >= offset' /\ Reached(q, i[q])'
    BY <1>1, <1>4, <2>1, <2>2, Zenon DEF ReaderInv, Index, Reached
  <2>5. QED
    BY <1>1, <1>4, <2>2, <2>3, <2>4, ReclaimReader
<1>6. QED
  BY <1>2, <1>3, <1>5 DEF IInv

\* All readers are done: the buffer is freed and its offset forgotten. A reader
\* that was not closed has read all of it.
LEMMA ReclaimAll ==
    ASSUME IInv, NEW r \in Readers, FinishReclaim(r), alloc, ReadersDone,
           Put(Len(data)), UNCHANGED <<p2, bytes>>,
           data' = <<>>, alloc' = FALSE, offset' = 0, open' = FALSE
    PROVE  IInv'
<1>1. /\ UNCHANGED <<pc, i, loaded, held, snap, closeCh, taken>>
      /\ UNCHANGED <<written, cut, body>>
      /\ fin' \in [Readers -> {"no", "stored", "cleared", "done"}]
  BY ReclaimFrame
<1>2. /\ Segments \in Nat /\ offset \in Nat /\ written \in Nat /\ cut \in Nat
      /\ cut <= written /\ Len(data) \in Nat /\ Gap \in Nat
      /\ offset + Len(data) <= written
  BY Numbers DEF IInv
<1>3. offset + Len(data) >= 1
  BY DEF IInv, Buffered
<1>4. data' \in Seq(1 .. Segments) /\ Len(data') = 0
  BY EmptySeq
<1>5. Gap' = written /\ written >= 1
  BY <1>1, <1>2, <1>3, <1>4 DEF Gap
<1>6. /\ pooled' \subseteq 1 .. written
      /\ lost' \in [Readers -> SUBSET (1 .. Segments)]
      /\ p2 # 0 => p2 \notin pooled'
      /\ \A q \in Readers : lost[q] \subseteq lost'[q] /\ Kept(q)'
  BY <1>1, <1>2, PutKeeps
<1>7. TypeOK'
  <2>1. /\ offset' + Len(data') <= written' /\ offset' \in 0 .. Segments
    BY <1>1, <1>2, <1>4
  <2>2. alloc' \in BOOLEAN /\ open' \in BOOLEAN
    OBVIOUS
  <2>3. QED
    BY <1>1, <1>4, <1>6, <2>1, <2>2 DEF IInv, TypeOK
<1>8. Buffered'
  <2>1. \A k \in 1 .. Len(data') : FALSE
    BY <1>4
  <2>2. cut' <= Gap'
    BY <1>1, <1>2, <1>5
  <2>3. p2' # 0 => bytes'[p2'] = written' + 1 /\ p2' \in 1 .. written' + 1 /\ p2' \notin pooled'
    BY <1>1, <1>6, Zenon DEF IInv, Buffered
  <2>4. Gap' # 0
    BY <1>5, <1>2
  <2>5. QED
    BY <2>1, <2>2, <2>3, <2>4, Zenon DEF Buffered
<1>9. ASSUME NEW q \in Readers PROVE ReaderInv(q)'
  <2>1. ReaderInv(q)
    BY DEF IInv
  <2>2. /\ i[q] \in Int /\ i[q] >= -1 /\ Got(q) \in Nat
    BY Numbers DEF IInv
  <2>3. Gap' # 0 /\ Gap' > 0
    BY <1>2, <1>5
  <2>4. ASSUME closeCh[q], i[q] # -1 PROVE i[q] >= offset' /\ Reached(q, i[q])'
    <3>1. Positions # {}
      BY <2>4 DEF Positions
    <3>2. Slowest = Len(data) + offset
      BY <3>1 DEF ReadersDone
    <3>3. Slowest <= i[q]
      BY <2>4, <3>1, SlowestIsLeast DEF IInv
    <3>4. i[q] >= 1 /\ i[q] >= 0
      BY <1>2, <1>3, <2>2, <3>2, <3>3
    <3>5. /\ Gap = 0 => i[q] <= written
          /\ Gap = 0 => Got(q) = Extent(i[q])
          /\ Gap > 0 => Got(q) >= Extent(cut)
      BY <2>1, <2>4 DEF ReaderInv, Index, Reached
    <3>6. Got(q) >= Extent(cut)
      <4>1. CASE Gap = 0
        <5>1. i[q] = written
          BY <1>2, <2>2, <3>2, <3>3, <3>5, <4>1 DEF Gap
        <5>2. Extent(cut) <= Extent(written) /\ Extent(cut) \in Nat /\ Extent(written) \in Nat
          BY <1>2, ExtentType, ExtentMonotone
        <5>3. QED
          BY <3>5, <4>1, <5>1, <5>2
      <4>2. CASE Gap > 0
        BY <3>5, <4>2
      <4>3. QED
        BY <1>2, <4>1, <4>2
    <3>7. Got(q)' = Got(q) /\ i'[q] = i[q]
      BY <1>1 DEF Got
    <3>8. ~(i[q] <= offset' + Len(data'))
      BY <1>4, <2>2, <3>4
    <3>9. QED
      BY <1>1, <2>3, <3>4, <3>6, <3>7, <3>8, Zenon DEF Reached
  <2>5. QED
    BY <1>6, <2>3, <2>4, ReclaimReader
<1>10. QED
  BY <1>7, <1>8, <1>9 DEF IInv

\* The segments below the slowest reader are recycled.
LEMMA ReclaimSome ==
    ASSUME IInv, NEW r \in Readers, FinishReclaim(r), alloc, ~ReadersDone,
           Slowest > offset, Recycle
    PROVE  IInv'
<1>1. /\ UNCHANGED <<pc, i, loaded, held, snap, closeCh, taken>>
      /\ UNCHANGED <<written, cut, body, alloc, open>>
      /\ fin' \in [Readers -> {"no", "stored", "cleared", "done"}]
  BY ReclaimFrame DEF Recycle
<1>2. /\ Segments \in Nat /\ offset \in Nat /\ written \in Nat /\ cut \in Nat
      /\ cut <= written /\ Len(data) \in Nat /\ Gap \in Nat
      /\ offset + Len(data) <= written
  BY Numbers DEF IInv
<1>3. Positions # {}
  BY DEF ReadersDone
<1>4. /\ Slowest \in 0 .. Segments
      /\ \A q \in Readers : i[q] # -1 => Slowest <= i[q]
  BY <1>3, SlowestIsLeast DEF IInv
<1> DEFINE n == Slowest - offset
<1>5. n \in 0 .. Len(data) /\ offset + n = Slowest
  BY <1>2, <1>4 DEF Recycle
<1>6. /\ data' = SubSeq(data, n + 1, Len(data)) /\ offset' = Slowest
      /\ Put(n) /\ UNCHANGED <<p2, bytes>>
  BY DEF Recycle
<1> HIDE DEF n
<1>7. data \in Seq(1 .. Segments) /\ Buffered
  BY DEF IInv, TypeOK
<1>8. /\ data' \in Seq(1 .. Segments) /\ Len(data') = Len(data) - n
      /\ \A k \in 1 .. Len(data) - n : data'[k] = data[n + k]
  <2>1. /\ SubSeq(data, n + 1, Len(data)) \in Seq(1 .. Segments)
        /\ Len(SubSeq(data, n + 1, Len(data))) = Len(data) - n
        /\ \A k \in 1 .. Len(data) - n : SubSeq(data, n + 1, Len(data))[k] = data[n + k]
    BY ONLY <1>5, <1>7, CutBack, Zenon
  <2>2. QED
    BY <1>6, <2>1, Zenon
<1>9. Gap' = Gap /\ offset' + Len(data') = offset + Len(data)
  BY <1>1, <1>2, <1>5, <1>6, <1>8, SMTT(30) DEF Gap
<1>10. /\ pooled' \subseteq 1 .. written
       /\ lost' \in [Readers -> SUBSET (1 .. Segments)]
       /\ \A k \in n + 1 .. Len(data) : data[k] \notin pooled'
       /\ p2 # 0 => p2 \notin pooled'
       /\ \A q \in Readers : lost[q] \subseteq lost'[q] /\ Kept(q)'
  BY <1>1, <1>5, <1>6, PutKeeps
<1>11. TypeOK'
  <2>1. offset' + Len(data') <= written' /\ offset' \in 0 .. Segments
    BY <1>1, <1>2, <1>4, <1>6, <1>9
  <2>2. QED
    BY <1>1, <1>6, <1>8, <1>10, <2>1 DEF IInv, TypeOK
<1>12. Buffered'
  <2>1. ASSUME NEW k \in 1 .. Len(data')
        PROVE  /\ bytes'[data'[k]] = written' - Len(data') + k
               /\ data'[k] \in 1 .. written' \ pooled'
    <3>1. k \in 1 .. Len(data) - n /\ n + k \in 1 .. Len(data)
      BY <1>2, <1>5, <1>8
    <3>2. /\ bytes[data[n + k]] = written - Len(data) + (n + k)
          /\ data[n + k] \in 1 .. written
      BY <1>7, <3>1 DEF Buffered
    <3>3. data[n + k] \notin pooled'
      <4>1. n + k \in n + 1 .. Len(data)
        BY <1>2, <1>5, <3>1
      <4>2. QED
        BY <1>10, <4>1
    <3>4. written - Len(data) + (n + k) = written' - Len(data') + k
      BY <1>1, <1>2, <1>5, <1>8, <3>1
    <3>5. QED
      BY <1>1, <1>6, <1>8, <3>1, <3>2, <3>3, <3>4
  <2>2. p2' # 0 => bytes'[p2'] = written' + 1 /\ p2' \in 1 .. written' + 1 /\ p2' \notin pooled'
    BY <1>1, <1>6, <1>7, <1>10, Zenon DEF Buffered
  <2>3. QED
    BY <1>1, <1>7, <1>9, <2>1, <2>2, Zenon DEF Buffered
<1>13. ASSUME NEW q \in Readers PROVE ReaderInv(q)'
  <2>1. ReaderInv(q)
    BY DEF IInv
  <2>2. Got(q)' = Got(q) /\ i'[q] = i[q]
    BY <1>1 DEF Got
  <2>3. ASSUME closeCh[q], i[q] # -1 PROVE i[q] >= offset' /\ Reached(q, i[q])'
    <3>1. i[q] >= offset'
      <4>1. i[q] \in Int
        BY Numbers DEF IInv
      <4>2. QED
        BY <1>4, <1>6, <2>3, <4>1
    <3>2. Reached(q, i[q])
      BY <2>1, <2>3 DEF ReaderInv, Index
    <3>3. Reached(q, i[q])'
      BY <1>1, <1>9, <2>2, <3>2, Zenon DEF Reached
    <3>4. QED
      BY <3>1, <3>3
  <2>4. QED
    BY <1>1, <1>9, <1>10, <2>3, ReclaimReader
<1>14. QED
  BY <1>11, <1>12, <1>13 DEF IInv

\* reclaimBuffer, whatever it does.
LEMMA FinishReclaimStep ==
    ASSUME IInv, NEW r \in Readers, FinishReclaim(r)
    PROVE  IInv'
<1>1. \/ UNCHANGED bufferVars
      \/ /\ alloc /\ ReadersDone
         /\ Put(Len(data)) /\ UNCHANGED <<p2, bytes>>
         /\ data' = <<>> /\ alloc' = FALSE /\ offset' = 0 /\ open' = FALSE
      \/ alloc /\ ~ReadersDone /\ Slowest > offset /\ Recycle
  BY DEF FinishReclaim
<1>2. QED
  BY <1>1, ReclaimNothing, ReclaimAll, ReclaimSome

-----------------------------------------------------------------------------
(* The theorems *)

\* The invariant holds when RoundTrip has made the buffer, ...
LEMMA InitInv ==
    ASSUME Init
    PROVE  IInv
<1> USE DEF Init
<1>1. Segments \in Nat
  BY MirrorAssumption
<1>2. <<>> \in Seq(1 .. Segments) /\ Len(<<>>) = 0
  BY EmptySeq
<1>3. TypeOK
  <2>1. Len(data) = 0 /\ data \in Seq(1 .. Segments)
    BY <1>2, Zenon
  <2>2. /\ held \in [Readers -> Seq(1 .. Segments)]
        /\ taken \in [Readers -> Seq(1 .. Segments)]
    BY <1>2, Zenon
  <2>3. /\ offset + Len(data) <= written /\ offset \in 0 .. Segments
        /\ written \in 0 .. Segments /\ cut \in 0 .. written
        /\ i \in [Readers -> -1 .. Segments] /\ loaded \in [Readers -> 0 .. Segments]
    BY <1>1, <2>1
  <2>4. alloc \in BOOLEAN /\ open \in BOOLEAN
    OBVIOUS
  <2>5. QED
    BY <2>1, <2>2, <2>3, <2>4 DEF TypeOK
<1>4. Gap = 0
  <2>1. Len(data) = 0 /\ written = 0 /\ offset = 0
    BY <1>2, Zenon
  <2>2. Gap = 0 - 0 - 0
    BY <2>1, Zenon DEF Gap
  <2>3. QED
    BY <2>2
<1>5. Buffered
  BY <1>2, <1>4 DEF Buffered
<1>6. ASSUME NEW r \in Readers PROVE ReaderInv(r)
  <2>1. /\ Got(r) = 0 /\ Len(taken[r]) = 0 /\ Len(held[r]) = 0 /\ pc[r] = "new" /\ i[r] = 0
        /\ fin[r] = "no"
    BY <1>2 DEF Got
  <2>2. Reached(r, i[r])
    BY <1>4, <2>1, ExtentZero DEF Reached
  <2>3. Index(r)
    BY <2>1, <2>2 DEF Index
  <2>4. Fetching(r) /\ Ended(r)
    BY <2>1 DEF Fetching, Ended
  <2>5. Ordered(r)
    BY <2>1, ExtentZero DEF Ordered
  <2>6. Kept(r)
    <3>1. \A k \in 1 .. 0 : FALSE
      OBVIOUS
    <3>2. QED
      BY <2>1, <3>1, Zenon DEF Kept
  <2>7. QED
    BY <2>3, <2>4, <2>5, <2>6 DEF ReaderInv
<1>7. QED
  BY <1>3, <1>5, <1>6 DEF IInv

\* ... and every step keeps it.
LEMMA NextInv ==
    ASSUME IInv, [Next]_vars
    PROVE  IInv'
<1>1. CASE UNCHANGED vars
  <2>1. /\ UNCHANGED <<bufferVars, bodyVars>>
        /\ UNCHANGED <<data, alloc, offset, open, p2, bytes, pooled, lost, written, cut, body>>
        /\ UNCHANGED <<pc, i, loaded, held, snap, closeCh, fin, taken>>
    BY <1>1 DEF vars, bufferVars, poolVars, bodyVars, readerVars
  <2>2. TypeOK'
    BY <2>1 DEF IInv, TypeOK
  <2>3. Buffered' /\ \A r \in Readers : ReaderInv(r)'
    BY <2>1, BufferedKept, Elsewhere DEF IInv
  <2>4. QED
    BY <2>2, <2>3 DEF IInv
<1>2. CASE CopySegment \/ Write \/ \E b \in 1 .. Segments : OthersUse(b)
  BY <1>2, CopySegmentStep, OthersUseStep, WriteStep
<1>3. CASE EndOfBody \/ AbortBody \/ RoundTripReturns
  BY <1>3, CloseStep
<1>4. ASSUME NEW r \in Readers, Start(r) \/ Refuse(r) PROVE IInv'
  BY <1>4, StartStep
<1>5. ASSUME NEW r \in Readers, Read(r) PROVE IInv'
  BY <1>5, LoopStep, FetchStep, CopyStep, WakeStep DEF Read
<1>6. ASSUME NEW r \in Readers, CloseReader(r) PROVE IInv'
  BY <1>6, CloseReaderStep
<1>7. ASSUME NEW r \in Readers, Finish(r) PROVE IInv'
  BY <1>7, FinishStoreStep, FinishClearStep, FinishReclaimStep DEF Finish
<1>8. QED
  BY <1>1, <1>2, <1>3, <1>4, <1>5, <1>6, <1>7 DEF Next

\* So it holds in every state of every behaviour.
LEMMA Inductive == Spec => []IInv
<1>1. Init => IInv
  BY InitInv
<1>2. IInv /\ [Next]_vars => IInv'
  BY NextInv
<1>3. QED
  BY <1>1, <1>2, PTL DEF Spec

\* The state of the buffer and of its readers is well typed: in particular an
\* index never exceeds the segments of the body, although a Read that finish
\* overtakes increments the -1 that finish has stored.
THEOREM TypeCorrect == Spec => []TypeOK
<1>1. IInv => TypeOK
  BY DEF IInv
<1>2. QED
  BY <1>1, Inductive, PTL

\* mb.data is never indexed out of range.
THEOREM InRange == Spec => []SlotsInRange
<1>1. ASSUME IInv PROVE SlotsInRange
  <2>1. /\ offset \in Nat /\ written \in Nat /\ cut \in Nat /\ Len(data) \in Nat
        /\ Gap \in Nat /\ data \in Seq(1 .. Segments) /\ Segments \in Nat
    BY <1>1, Numbers DEF IInv, TypeOK
  <2>2. ASSUME NEW r \in Readers, pc[r] = "fetch"
        PROVE  loaded[r] - offset + 1 \in DOMAIN data
    <3>1. loaded[r] \in offset .. offset + Len(data) - 1
      BY <1>1, <2>2 DEF IInv, ReaderInv, Fetching
    <3>2. loaded[r] - offset + 1 \in 1 .. Len(data)
      BY <2>1, <3>1
    <3>3. QED
      BY <2>1, <3>2, LenProperties
  <2>3. ASSUME cut = written, alloc, Positions # {}
        PROVE  Slowest - offset <= Len(data)
    <3>1. offset + Len(data) >= 1 /\ (Gap > 0 => cut <= Gap)
      BY <1>1, <2>3 DEF IInv, Buffered
    <3>2. Gap = 0
      BY <2>1, <2>3, <3>1 DEF Gap
    <3>3. PICK r \in Readers : i[r] # -1
      BY <2>3 DEF Positions
    <3>4. Slowest \in 0 .. Segments /\ Slowest <= i[r] /\ i[r] \in Int
      BY <1>1, <2>3, <3>3, SlowestIsLeast, Numbers DEF IInv
    <3>5. i[r] <= written
      BY <1>1, <3>2 DEF IInv, ReaderInv, Index
    <3>6. QED
      BY <2>1, <3>2, <3>4, <3>5 DEF Gap
  <2>4. QED
    BY <2>2, <2>3 DEF SlotsInRange
<1>2. QED
  BY <1>1, Inductive, PTL

\* A mirror sees a prefix of the body, as far as it was written before the
\* buffer was closed, but for segments whose buffer was recycled while it held
\* them; whatever is done with recycled buffers, it spoils no other segment.
THEOREM SeesPrefix == Spec => []ReadersSeePrefix
<1>1. ASSUME IInv PROVE ReadersSeePrefix
  <2>1. ASSUME NEW r \in Readers, NEW k \in DOMAIN taken[r], k <= Extent(cut)
        PROVE  taken[r][k] = PartAt(k) \/ PartAt(k) \in lost[r]
    <3>1. taken[r] \in Seq(0 .. Segments)
      BY <1>1, Numbers DEF IInv
    <3>2. k \in 1 .. Len(taken[r])
      BY <3>1, LenProperties
    <3>3. QED
      BY <1>1, <2>1, <3>2 DEF IInv, ReaderInv, Ordered, Lost
  <2>2. QED
    BY <2>1 DEF ReadersSeePrefix
<1>2. QED
  BY <1>1, Inductive, PTL

\* A mirror that was not cancelled and meets the end of its stream has read
\* everything that was written before the buffer was closed.
THEOREM ReadsAll == Spec => []EndMeansAll
<1>1. ASSUME IInv PROVE EndMeansAll
  <2>1. ASSUME NEW r \in Readers, pc[r] = "eof", closeCh[r]
        PROVE  ~open /\ Len(taken[r]) \in Extent(cut) .. Extent(written)
    <3>1. ~open /\ held[r] = <<>> /\ Len(taken[r]) >= Extent(cut)
      BY <1>1, <2>1 DEF IInv, ReaderInv, Ended
    <3>2. Len(taken[r]) + Len(held[r]) <= Extent(written)
      BY <1>1 DEF IInv, ReaderInv, Ordered, Got
    <3>3. /\ Len(taken[r]) \in Nat /\ Extent(cut) \in Nat /\ Extent(written) \in Nat
      BY <1>1, Numbers, ExtentType DEF IInv
    <3>4. Len(held[r]) = 0
      BY <3>1, EmptySeq, Zenon
    <3>5. Len(taken[r]) <= Extent(written)
      BY <3>2, <3>3, <3>4
    <3>6. Len(taken[r]) \in Extent(cut) .. Extent(written)
      BY <3>1, <3>3, <3>5
    <3>7. QED
      BY <3>1, <3>6
  <2>2. QED
    BY <2>1 DEF EndMeansAll
<1>2. QED
  BY <1>1, Inductive, PTL
===============================================================================
