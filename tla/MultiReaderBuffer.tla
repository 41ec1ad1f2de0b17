-------------------------- MODULE MultiReaderBuffer --------------------------
(***************************************************************************)
(* Request mirroring (pkg/util/proxy/mirror.go). The transport of the main *)
(* request reads the body through a teeReader, which copies every segment  *)
(* into a multiReaderBuffer; one reader per selected mirror replays them.  *)
(* Segments that all readers have passed go back to a buffer pool.         *)
(*                                                                         *)
(* A reader's Read is cut where another goroutine can step in: Loop takes  *)
(* mb.mtx for reading and loads the index, Fetch stores the segment and    *)
(* bumps the index before the lock is released, Copy delivers it, Wake     *)
(* leaves the select. finish() runs once per reader, from Read or from a   *)
(* Close in another goroutine, as three steps. Write copies a segment into *)
(* a buffer of the pool before it takes mb.mtx, so it is two steps; Close  *)
(* and reclaimBuffer hold mb.mtx and are one step each.                    *)
(*                                                                         *)
(* A segment is named by its place in the body, a large one in two parts   *)
(* that a Copy may deliver separately. A buffer is named by the first      *)
(* segment that was copied into it; which segment it holds now is in       *)
(* bytes, and a reader delivers what the buffer it has kept holds then.    *)
(***************************************************************************)
EXTENDS Integers, Sequences, FiniteSets

CONSTANTS
    Readers,     \* one per mirror target selected for the request
    Segments,    \* bound: segments in the request body
    Large,       \* the segments for which a consumer may need two reads
    EarlyReply   \* whether the backend may answer before it has read the body

ASSUME MirrorAssumption ==
    /\ IsFiniteSet(Readers)
    /\ Segments \in Nat /\ Large \subseteq 1 .. Segments
    /\ EarlyReply \in BOOLEAN

VARIABLES
    data,      \* mb.data, as buffers
    alloc,     \* mb.data # nil
    offset,    \* mb.offset
    open,      \* mb.waitCh # nil
    written,   \* segments read from the body so far
    cut,       \* history: those of them written while the buffer was open
    body,      \* "reading" until the transport is done with the body, then "ended"
    pc,        \* where each mirror's goroutine is
    i,         \* reader.i
    loaded,    \* the value of reader.i its Read has loaded
    held,      \* reader.data: the buffer, once for each part still to be delivered
    snap,      \* whether no Write has closed the waitCh that a Read waits on
    closeCh,   \* reader.closeCh # nil
    fin,       \* progress of reader.finish
    taken,     \* the bytes Read delivered: of which segment, part by part
    p2,        \* Write's buffer with the copy of the next segment, 0 outside Write
    bytes,     \* the segment each buffer holds, 0 for bytes of another body
    pooled,    \* the buffers in the pool
    lost       \* history: the segments whose buffer was recycled while a reader held them

poolVars   == <<p2, bytes, pooled, lost>>
bufferVars == <<data, alloc, offset, open, poolVars>>
bodyVars   == <<written, cut, body>>
readerVars == <<pc, i, loaded, held, snap, closeCh, fin, taken>>
vars       == <<bufferVars, bodyVars, readerVars>>

TypeOK ==
    /\ data \in Seq(1 .. Segments) /\ offset + Len(data) <= written
    /\ alloc \in BOOLEAN /\ open \in BOOLEAN
    /\ offset \in 0 .. Segments /\ written \in 0 .. Segments /\ cut \in 0 .. written
    /\ body \in {"reading", "ended"}
    /\ pc \in [Readers -> {"new", "refused", "loop", "fetch", "copy", "wait",
                           "finish", "eof"}]
    /\ i \in [Readers -> -1 .. Segments]
    /\ loaded \in [Readers -> 0 .. Segments]
    /\ held \in [Readers -> Seq(1 .. Segments)]
    /\ snap \in [Readers -> BOOLEAN]
    /\ closeCh \in [Readers -> BOOLEAN]
    /\ fin \in [Readers -> {"no", "stored", "cleared", "done"}]
    /\ taken \in [Readers -> Seq(0 .. Segments)]
    /\ p2 \in 0 .. Segments /\ (p2 # 0 => written < Segments)
    /\ bytes \in [1 .. Segments -> 0 .. Segments]
    /\ pooled \subseteq 1 .. written
    /\ lost \in [Readers -> SUBSET (1 .. Segments)]

\* newMultiReaderBuffer, called by RoundTrip.
Init ==
    /\ data = <<>> /\ alloc = FALSE /\ offset = 0 /\ open = TRUE
    /\ written = 0 /\ cut = 0 /\ body = "reading"
    /\ pc = [r \in Readers |-> "new"]
    /\ i = [r \in Readers |-> 0]
    /\ loaded = [r \in Readers |-> 0]
    /\ held = [r \in Readers |-> <<>>]
    /\ snap = [r \in Readers |-> FALSE]
    /\ closeCh = [r \in Readers |-> TRUE]
    /\ fin = [r \in Readers |-> "no"]
    /\ taken = [r \in Readers |-> <<>>]
    /\ p2 = 0
    /\ bytes = [s \in 1 .. Segments |-> 0]
    /\ pooled = {}
    /\ lost = [r \in Readers |-> {}]

\* A Read holds mb.mtx for reading from Loop to Fetch; until then no writer
\* of the buffer gets the lock.
LockFree == \A r \in Readers : pc[r] # "fetch"

\* RoundTrip has tried to start all mirrors; only then it calls next.RoundTrip.
Launched == \A r \in Readers : pc[r] # "new"

-----------------------------------------------------------------------------
(* The main request: teeReader and RoundTrip *)

\* teeReader.Read got a segment and Write copies it, into a buffer of the pool
\* or, where the pool has none that is large enough, into a new one.
CopySegment ==
    /\ Launched
    /\ body = "reading" /\ written < Segments /\ p2 = 0
    /\ \E b \in pooled \cup {written + 1} :
          /\ p2' = b
          /\ bytes' = [bytes EXCEPT ![b] = written + 1]
          /\ pooled' = pooled \ {b}
    /\ UNCHANGED <<data, alloc, offset, open, lost, bodyVars, readerVars>>

\* The pool is shared with the copies of responses and with other requests: one
\* of them takes a buffer, fills it and puts it back.
OthersUse(b) ==
    /\ b \in pooled
    /\ bytes' = [bytes EXCEPT ![b] = 0]
    /\ UNCHANGED <<data, alloc, offset, open, p2, pooled, lost, bodyVars, readerVars>>

\* The rest of Write, under mb.mtx. The segment is appended even when the buffer
\* is closed; only an open buffer notifies its readers.
Write ==
    /\ LockFree /\ p2 # 0
    /\ p2' = 0
    /\ written' = written + 1
    /\ cut' = IF open THEN cut + 1 ELSE cut
    /\ data' = Append(data, p2)
    /\ alloc' = TRUE
    /\ snap' = IF open THEN [r \in Readers |-> FALSE] ELSE snap
    /\ UNCHANGED <<offset, open, bytes, pooled, lost, body>>
    /\ UNCHANGED <<pc, i, loaded, held, closeCh, fin, taken>>

\* Mutant: io.EOF does not close the buffer.
EndOfBodyNoClose ==
    /\ LockFree /\ Launched
    /\ body = "reading" /\ written = Segments
    /\ body' = "ended"
    /\ UNCHANGED <<bufferVars, written, cut, readerVars>>

\* teeReader.Read meets io.EOF and closes the buffer.
EndOfBody ==
    /\ LockFree /\ Launched
    /\ body = "reading" /\ written = Segments
    /\ body' = "ended"
    /\ open' = FALSE
    /\ UNCHANGED <<data, alloc, offset, poolVars, written, cut, readerVars>>

\* The transport gives up on the body: teeReader.Close, perhaps while a Read
\* of it is in Write.
AbortBody ==
    /\ LockFree /\ Launched
    /\ body = "reading"
    /\ body' = "ended"
    /\ open' = FALSE
    /\ UNCHANGED <<data, alloc, offset, poolVars, written, cut, readerVars>>

\* next.RoundTrip returns and RoundTrip's deferred buf.Close runs. A backend
\* that answers early leaves the transport reading the body.
RoundTripReturns ==
    /\ LockFree /\ Launched
    /\ EarlyReply \/ body = "ended"
    /\ open' = FALSE
    /\ UNCHANGED <<data, alloc, offset, poolVars, bodyVars, readerVars>>

-----------------------------------------------------------------------------
(* The mirrors: goroutines started by TryGo, each reading through a reader *)

\* m.g.TryGo starts the mirror's goroutine.
Start(r) ==
    /\ pc[r] = "new"
    /\ pc' = [pc EXCEPT ![r] = "loop"]
    /\ UNCHANGED <<bufferVars, bodyVars, i, loaded, held, snap, closeCh, fin, taken>>

\* TryGo refuses: the limit of mirrors in flight is reached. The reader exists
\* and nobody will ever read or close it.
Refuse(r) ==
    /\ pc[r] = "new"
    /\ pc' = [pc EXCEPT ![r] = "refused"]
    /\ UNCHANGED <<bufferVars, bodyVars, i, loaded, held, snap, closeCh, fin, taken>>

\* Mutant: a closed buffer has nothing more to read.
HasSegmentWhileOpen(r) == open /\ i[r] < Len(data) + offset

\* i < len(mb.data)+mb.offset
HasSegment(r) == i[r] < Len(data) + offset

\* One round of Read's loop up to the release of mb.mtx, or up to Fetch.
Loop(r) ==
    /\ pc[r] = "loop"
    /\ \/ /\ held[r] # <<>>
          /\ pc' = [pc EXCEPT ![r] = "copy"]
          /\ UNCHANGED <<loaded, snap>>
       \/ /\ held[r] = <<>>
          /\ ~closeCh[r] \/ i[r] = -1
          /\ pc' = [pc EXCEPT ![r] = "eof"]
          /\ UNCHANGED <<loaded, snap>>
       \/ /\ held[r] = <<>>
          /\ closeCh[r] /\ i[r] # -1
          /\ HasSegment(r)
          /\ pc' = [pc EXCEPT ![r] = "fetch"]
          /\ loaded' = [loaded EXCEPT ![r] = i[r]]
          /\ UNCHANGED snap
       \/ /\ held[r] = <<>>
          /\ closeCh[r] /\ i[r] # -1
          /\ ~HasSegment(r)
          /\ \/ /\ open
                /\ pc' = [pc EXCEPT ![r] = "wait"]
                /\ snap' = [snap EXCEPT ![r] = TRUE]
             \/ /\ ~open
                /\ pc' = [pc EXCEPT ![r] = "finish"]
                /\ UNCHANGED snap
          /\ UNCHANGED loaded
    /\ UNCHANGED <<bufferVars, bodyVars, i, held, closeCh, fin, taken>>

Parts(s) == IF s \in Large THEN 2 ELSE 1

\* mb.data[i-mb.offset]
Segment(r) == data[loaded[r] - offset + 1]

\* The reader keeps the segment and its index moves on; the index may have been
\* stored as -1 by a concurrent finish since it was loaded.
Fetch(r) ==
    /\ pc[r] = "fetch"
    /\ held' = [held EXCEPT ![r] = [k \in 1 .. Parts(bytes[Segment(r)]) |-> Segment(r)]]
    /\ i' = [i EXCEPT ![r] = @ + 1]
    /\ pc' = [pc EXCEPT ![r] = "copy"]
    /\ loaded' = [loaded EXCEPT ![r] = 0]
    /\ UNCHANGED <<bufferVars, bodyVars, snap, closeCh, fin, taken>>

\* n = copy(p, mbr.data): some of what is held is delivered, as the buffer holds
\* it now, or nothing if finish has cleared it meanwhile.
Copy(r) ==
    /\ pc[r] = "copy"
    /\ \E n \in 1 .. Len(held[r]) \cup {0} :
          /\ n = 0 => held[r] = <<>>
          /\ taken' = [taken EXCEPT ![r] = @ \o [k \in 1 .. n |-> bytes[held[r][k]]]]
          /\ held' = [held EXCEPT ![r] = SubSeq(@, n + 1, Len(@))]
    /\ pc' = [pc EXCEPT ![r] = "loop"]
    /\ UNCHANGED <<bufferVars, bodyVars, i, loaded, snap, closeCh, fin>>

\* Mutant: Write does not close the channel the readers wait on.
NotifiedOnCloseOnly(r) == ~open

\* The channel r waits on was closed: by a Write since, or for good.
Notified(r) == ~snap[r] \/ ~open

\* The select of Read.
Wake(r) ==
    /\ pc[r] = "wait"
    /\ \/ Notified(r) /\ pc' = [pc EXCEPT ![r] = "loop"]
       \/ ~closeCh[r] /\ pc' = [pc EXCEPT ![r] = "finish"]
    /\ snap' = [snap EXCEPT ![r] = FALSE]
    /\ UNCHANGED <<bufferVars, bodyVars, i, loaded, held, closeCh, fin, taken>>

\* The goroutine's own call of finish is over and Read returns io.EOF.
ReturnEOF(r) ==
    /\ pc[r] = "finish" /\ fin[r] = "done"
    /\ pc' = [pc EXCEPT ![r] = "eof"]
    /\ UNCHANGED <<bufferVars, bodyVars, i, loaded, held, snap, closeCh, fin, taken>>

\* multiReader.Close up to finish: the mirror's transport is done with the
\* body, or its context was cancelled or timed out.
CloseReader(r) ==
    /\ pc[r] \notin {"new", "refused"}
    /\ closeCh[r]
    /\ closeCh' = [closeCh EXCEPT ![r] = FALSE]
    /\ UNCHANGED <<bufferVars, bodyVars, pc, i, loaded, held, snap, fin, taken>>

\* finish, entered by whoever comes first: the index is stored as -1 ...
FinishStore(r) ==
    /\ fin[r] = "no"
    /\ ~closeCh[r] \/ pc[r] = "finish"
    /\ i' = [i EXCEPT ![r] = -1]
    /\ fin' = [fin EXCEPT ![r] = "stored"]
    /\ UNCHANGED <<bufferVars, bodyVars, pc, loaded, held, snap, closeCh, taken>>

\* ... the held segment is dropped ...
FinishClear(r) ==
    /\ fin[r] = "stored"
    /\ held' = [held EXCEPT ![r] = <<>>]
    /\ fin' = [fin EXCEPT ![r] = "cleared"]
    /\ UNCHANGED <<bufferVars, bodyVars, pc, i, loaded, snap, closeCh, taken>>

Positions == {i[r] : r \in Readers} \ {-1}

\* Mutant: the segment the slowest reader is about to read counts as read.
SlowestPlusOne == 1 + CHOOSE m \in Positions : \A n \in Positions : m <= n

\* minI, the position of the slowest reader.
Slowest == CHOOSE m \in Positions : \A n \in Positions : m <= n

\* All readers are closed, or all have read the last segment of a closed buffer.
ReadersDone ==
    \/ Positions = {}
    \/ Positions # {} /\ Slowest = Len(data) + offset /\ ~open

\* The segments whose buffer is among the first n of mb.data and held by r.
HeldBelow(r, n) ==
    {bytes[data[m]] : m \in {k \in 1 .. n : \E h \in DOMAIN held[r] : held[r][h] = data[k]}}

\* Mutant: one buffer more than is taken off mb.data goes to the pool.
PutOneMore(n) ==
    /\ pooled' = pooled \cup {data[k] : k \in (1 .. n + 1) \cap DOMAIN data}
    /\ lost' = [r \in Readers |-> lost[r] \cup HeldBelow(r, n)]

\* pool.Put of the first n buffers of mb.data.
Put(n) ==
    /\ pooled' = pooled \cup {data[k] : k \in 1 .. n}
    /\ lost' = [r \in Readers |-> lost[r] \cup HeldBelow(r, n)]

\* Mutant: mb.offset is not advanced with the segments.
RecycleNoOffset ==
    /\ Put(Slowest - offset)
    /\ data' = SubSeq(data, Slowest - offset + 1, Len(data))
    /\ UNCHANGED <<offset, alloc, open, p2, bytes>>

\* Mutant: mb.data keeps the recycled segments.
RecycleNoTrim ==
    /\ Put(Slowest - offset)
    /\ offset' = Slowest
    /\ UNCHANGED <<data, alloc, open, p2, bytes>>

\* The segments below the slowest reader go to the pool. Taking more than there
\* are panics, which is no step.
Recycle ==
    /\ Slowest - offset <= Len(data)
    /\ Put(Slowest - offset)
    /\ data' = SubSeq(data, Slowest - offset + 1, Len(data))
    /\ offset' = Slowest
    /\ UNCHANGED <<alloc, open, p2, bytes>>

\* ... and reclaimBuffer runs under mb.mtx.
FinishReclaim(r) ==
    /\ fin[r] = "cleared"
    /\ LockFree
    /\ fin' = [fin EXCEPT ![r] = "done"]
    /\ \/ /\ ~alloc
          /\ UNCHANGED bufferVars
       \/ /\ alloc /\ ReadersDone
          /\ Put(Len(data))
          /\ data' = <<>> /\ alloc' = FALSE /\ offset' = 0 /\ open' = FALSE
          /\ UNCHANGED <<p2, bytes>>
       \/ alloc /\ ~ReadersDone /\ Slowest > offset /\ Recycle
       \/ /\ alloc /\ ~ReadersDone /\ Slowest <= offset
          /\ UNCHANGED bufferVars
    /\ UNCHANGED <<bodyVars, pc, i, loaded, held, snap, closeCh, taken>>

-----------------------------------------------------------------------------

Read(r) == Loop(r) \/ Fetch(r) \/ Copy(r) \/ Wake(r) \/ ReturnEOF(r)

Finish(r) == FinishStore(r) \/ FinishClear(r) \/ FinishReclaim(r)

Next ==
    \/ CopySegment \/ Write \/ EndOfBody \/ AbortBody \/ RoundTripReturns
    \/ \E b \in 1 .. Segments : OthersUse(b)
    \/ \E r \in Readers :
          Start(r) \/ Refuse(r) \/ Read(r) \/ CloseReader(r) \/ Finish(r)

\* Goroutines run. Nothing is assumed of the client that sends the body, nor
\* that a mirror ever closes its reader.
Fairness == \A r \in Readers : WF_vars(Read(r)) /\ WF_vars(Finish(r))

Spec == Init /\ [][Next]_vars /\ Fairness

-----------------------------------------------------------------------------
(* Properties *)

\* The number of parts of the first n segments, and the segment of the k-th part.
Extent(n) == n + Cardinality(Large \cap 1 .. n)

PartAt(k) == CHOOSE s \in 1 .. Segments : Extent(s - 1) < k /\ k <= Extent(s)

\* A mirror sees a prefix of the body, as far as it was written before the
\* buffer was closed: no segment is skipped, repeated, reordered or overwritten,
\* however recycling, the reuse of buffers, closing, reading and the writes after
\* an early reply interleave. The exceptions are the segments whose buffer was
\* recycled while the mirror had kept and not yet copied them; of these it may
\* see other bytes.
ReadersSeePrefix ==
    \A r \in Readers : \A k \in DOMAIN taken[r] :
        k <= Extent(cut) => taken[r][k] = PartAt(k) \/ PartAt(k) \in lost[r]

\* A mirror that was not cancelled and meets the end of its stream has read
\* everything the main request read before the buffer was closed, all of the
\* body if the backend did not answer early: a close never overtakes the last
\* segments.
EndMeansAll ==
    \A r \in Readers :
        pc[r] = "eof" /\ closeCh[r] =>
            ~open /\ Len(taken[r]) \in Extent(cut) .. Extent(written)

\* mb.data is never indexed out of range: a Read that passed its bounds check
\* finds its segment, and reclaimBuffer never recycles more than is there, as
\* long as nothing was written to the closed buffer.
SlotsInRange ==
    /\ \A r \in Readers : pc[r] = "fetch" => loaded[r] - offset + 1 \in DOMAIN data
    /\ cut = written /\ alloc /\ Positions # {} => Slowest - offset <= Len(data)

\* A segment handed to the pool is one that every reader has moved past.
RecycledUnread ==
    \A r \in Readers : \A k \in DOMAIN held[r] : held[r][k] \notin pooled

\* A reader has something to do: it is in the select although there is a segment
\* it has not seen, or the main request is done with the body and it has not met
\* the end of its stream.
Owed(r) ==
    \/ pc[r] = "wait" /\ i[r] < written
    \/ body = "ended" /\ pc[r] \notin {"new", "refused", "eof"}

\* No mirror is left waiting or spinning: what a reader is owed it gets in the
\* end, wherever it is, whoever else closes, and although the body may never end.
ReadersProceed == \A r \in Readers : []<>(~Owed(r))
===============================================================================
