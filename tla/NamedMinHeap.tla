---------------------------- MODULE NamedMinHeap ----------------------------
(***************************************************************************)
(* namedMinHeap (dnslb/least_inflight.go): a binary heap of named counters *)
(* over container/heap (external), with the position of every name.        *)
(*                                                                         *)
(* A heap is a record of q, a sequence of [name, val], and nameIndex, the  *)
(* position of a name in q or 0. Positions start at 1 here and at 0 in Go, *)
(* so that the children of i are 2i and 2i + 1. The loops of               *)
(* container/heap are as many rounds as they can take, of which those      *)
(* after the loop's end change nothing.                                    *)
(***************************************************************************)
EXTENDS Integers, Sequences, SequencesExt

Empty(names) == [q |-> <<>>, nameIndex |-> [n \in names |-> 0]]

Less(h, i, j) == h.q[i].val < h.q[j].val

\* Mutant: only one of the two positions is brought up to date.
SwapHalf(h, i, j) ==
    [q         |-> [h.q EXCEPT ![i] = h.q[j], ![j] = h.q[i]],
     nameIndex |-> [h.nameIndex EXCEPT ![h.q[j].name] = i]]

Swap(h, i, j) ==
    [q         |-> [h.q EXCEPT ![i] = h.q[j], ![j] = h.q[i]],
     nameIndex |-> [h.nameIndex EXCEPT ![h.q[j].name] = i, ![h.q[i].name] = j]]

\* A round of heap.up: the element at pos moves up while it is less than its
\* parent.
UpRound(s) ==
    LET parent == s.pos \div 2
    IN  IF s.pos > 1 /\ Less(s.heap, s.pos, parent)
        THEN [heap |-> Swap(s.heap, s.pos, parent), pos |-> parent]
        ELSE s

Up(h, i) ==
    LET rounds[k \in 0 .. i] ==
          IF k = 0 THEN [heap |-> h, pos |-> i] ELSE UpRound(rounds[k - 1])
    IN  rounds[i].heap

\* The smaller child of i among the first n, the left one when they are equal.
Child(h, i, n) == IF 2 * i < n /\ Less(h, 2 * i + 1, 2 * i) THEN 2 * i + 1 ELSE 2 * i

\* A round of heap.down: the element at pos moves down while a child among the
\* first n is less.
DownRound(s, n) ==
    LET child == Child(s.heap, s.pos, n)
    IN  IF 2 * s.pos <= n /\ Less(s.heap, child, s.pos)
        THEN [heap |-> Swap(s.heap, s.pos, child), pos |-> child]
        ELSE s

Down(h, i, n) ==
    LET rounds[k \in 0 .. n] ==
          IF k = 0 THEN [heap |-> h, pos |-> i] ELSE DownRound(rounds[k - 1], n)
    IN  rounds[n]

\* heap.Fix, and the restoring part of heap.Remove: down, or else up.
Sift(h, i, n) ==
    LET down == Down(h, i, n)
    IN  IF down.pos > i THEN down.heap ELSE Up(h, i)

Fix(h, i) == Sift(h, i, Len(h.q))

\* Mutant: the heap is not restored after a counter has changed.
ChangeBare(h, name, d) == [h EXCEPT !.q[h.nameIndex[name]].val = @ + d]

\* Inc and Dec of a name that is present.
Change(h, name, d) ==
    Fix([h EXCEPT !.q[h.nameIndex[name]].val = @ + d], h.nameIndex[name])

Inc(h, name) == Change(h, name, 1)

Dec(h, name) == IF h.nameIndex[name] = 0 THEN h ELSE Change(h, name, -1)

MinName(h) == h.q[1].name

\* Add: heap.Push of a counter at zero, by Push and up.
Add(h, name) ==
    IF h.nameIndex[name] # 0
    THEN h
    ELSE LET g == [q         |-> Append(h.q, [name |-> name, val |-> 0]),
                   nameIndex |-> [h.nameIndex EXCEPT ![name] = Len(h.q) + 1]]
         IN  Up(g, Len(g.q))

Pop(h) == [q |-> Front(h.q), nameIndex |-> [h.nameIndex EXCEPT ![Last(h.q).name] = 0]]

\* Remove: heap.Remove swaps the counter with the last one, restores the heap
\* without the last, and pops it.
RemoveName(h, name) ==
    LET i == h.nameIndex[name]
        n == Len(h.q)
    IN  IF i = 0
        THEN h
        ELSE Pop(IF i = n THEN h ELSE Sift(Swap(h, i, n), i, n - 1))

Names(h) == {h.q[i].name : i \in DOMAIN h.q}

\* The names and their counters, which is what the heap stands for.
Counters(h) == [n \in Names(h) |-> h.q[h.nameIndex[n]].val]
=============================================================================
