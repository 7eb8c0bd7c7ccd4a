------------------------------ MODULE PickTop -------------------------------
(***************************************************************************)
(* internal/search/centroid.go: the two selections of nearest clusters.    *)
(* PickTopNCentroids inserts into a sorted list (or, for one, takes the    *)
(* minimum); PickNextNUnscanned keeps a max-heap of the clusters not yet   *)
(* scanned and empties it from the back.  A step is one turn of a loop.    *)
(* heapDist[i] is the distance of heapIdx[i]; both are swapped together.   *)
(***************************************************************************)
EXTENDS Integers, Sequences, FiniteSets

CONSTANTS
  K,          \* clusters
  MaxDist,    \* distances lie in 0 .. MaxDist
  Sizes,      \* values of n
  MaxMarked   \* bound on the clusters already scanned

ASSUME PickTopAssumption ==
  K \in Nat \ {0} /\ MaxDist \in Nat /\ MaxMarked \in Nat /\ Sizes \subseteq 1 .. K

None == 0   \* ^uint16(0), no cluster
Clusters == 1 .. K

VARIABLES
  alg,       \* "list" | "heap"
  n, dists,
  scanned,   \* the bitmap, {} for the list
  c,         \* the loop variable
  picked,    \* the result
  worst,     \* None: nothing is too far yet
  heap,      \* heapIdx[0 .. heapSize-1], with positions from 1
  i,         \* position being sifted
  pc

vars == <<alg, n, dists, scanned, c, picked, worst, heap, i, pc>>
input == <<alg, n, dists, scanned>>

TooFar(d) == worst # None /\ d >= dists[worst]
-----------------------------------------------------------------------------
(* PickTopNCentroids                                                       *)

\* pickArgminFast, as pickArgminScalar defines it.
Argmin ==
  /\ pc = "walk" /\ alg = "list" /\ n = 1 /\ c = 1
  /\ picked' = <<CHOOSE m \in Clusters :
                   \A e \in Clusters : dists[m] < dists[e] \/ (dists[m] = dists[e] /\ m <= e)>>
  /\ pc' = "done"
  /\ UNCHANGED <<input, c, worst, heap, i>>

\* Mutant: an equal distance goes in front.
SlotFrontOfEquals ==
  {p \in 1 .. n : picked[p] = None \/ dists[picked[p]] >= dists[c]}

\* The positions where the search for a place may stop; it stops at the first.
SlotFor == {p \in 1 .. n : picked[p] = None \/ dists[picked[p]] > dists[c]}

ListSkip ==
  /\ pc = "walk" /\ alg = "list" /\ n > 1 /\ c <= K
  /\ TooFar(dists[c]) \/ SlotFor = {}
  /\ c' = c + 1
  /\ UNCHANGED <<input, picked, worst, heap, i, pc>>

ListInsert ==
  /\ pc = "walk" /\ alg = "list" /\ n > 1 /\ c <= K
  /\ ~TooFar(dists[c])
  /\ \E p \in SlotFor :
       /\ \A q \in SlotFor : p <= q
       /\ picked' = [s \in 1 .. n |-> IF s < p THEN picked[s] ELSE IF s = p THEN c ELSE picked[s - 1]]
  /\ worst' = picked'[n]
  /\ c' = c + 1
  /\ UNCHANGED <<input, heap, i, pc>>

ListDone ==
  /\ pc = "walk" /\ alg = "list" /\ c > K
  /\ pc' = "done"
  /\ UNCHANGED <<input, c, picked, worst, heap, i>>
-----------------------------------------------------------------------------
(* PickNextNUnscanned                                                      *)

Parent(j) == j \div 2
At(h, j) == dists[h[j]]
Swapped(h, j, k) == [h EXCEPT ![j] = h[k], ![k] = h[j]]

HeapSkip ==
  /\ pc = "walk" /\ alg = "heap" /\ c <= K
  /\ c \in scanned \/ (Len(heap) = n /\ TooFar(dists[c]))
  /\ c' = c + 1
  /\ UNCHANGED <<input, picked, worst, heap, i, pc>>

\* Mutant: the heap is full one element late.
HeapPushOneMore ==
  /\ pc = "walk" /\ alg = "heap" /\ c <= K /\ c \notin scanned /\ Len(heap) <= n
  /\ heap' = Append(heap, c)
  /\ i' = Len(heap) + 1
  /\ pc' = "up"
  /\ UNCHANGED <<input, c, picked, worst>>

HeapPush ==
  /\ pc = "walk" /\ alg = "heap" /\ c <= K /\ c \notin scanned /\ Len(heap) < n
  /\ heap' = Append(heap, c)
  /\ i' = Len(heap) + 1
  /\ pc' = "up"
  /\ UNCHANGED <<input, c, picked, worst>>

HeapReplace ==
  /\ pc = "walk" /\ alg = "heap" /\ c <= K /\ c \notin scanned
  /\ Len(heap) = n /\ ~TooFar(dists[c])
  /\ heap' = [heap EXCEPT ![1] = c]
  /\ i' = 1
  /\ pc' = "down"
  /\ UNCHANGED <<input, c, picked, worst>>

SiftUp ==
  /\ pc = "up"
  /\ IF i > 1 /\ At(heap, Parent(i)) < At(heap, i)
     THEN /\ heap' = Swapped(heap, Parent(i), i)
          /\ i' = Parent(i)
          /\ UNCHANGED <<c, worst, pc>>
     ELSE /\ worst' = IF Len(heap) = n THEN heap[1] ELSE worst
          /\ c' = c + 1 /\ pc' = "walk"
          /\ UNCHANGED <<heap, i>>
  /\ UNCHANGED <<input, picked>>

\* Mutant: the right child is not compared.
LargestLeftOnly(h, j) ==
  IF 2 * j <= Len(h) /\ At(h, 2 * j) > At(h, j) THEN 2 * j ELSE j

\* largest: position j or the child of it that is farther.
Largest(h, j) ==
  LET l == IF 2 * j <= Len(h) /\ At(h, 2 * j) > At(h, j) THEN 2 * j ELSE j
  IN  IF 2 * j + 1 <= Len(h) /\ At(h, 2 * j + 1) > At(h, l) THEN 2 * j + 1 ELSE l

SiftDown ==
  /\ pc = "down"
  /\ IF Largest(heap, i) # i
     THEN /\ heap' = Swapped(heap, i, Largest(heap, i))
          /\ i' = Largest(heap, i)
          /\ UNCHANGED <<c, worst, pc>>
     ELSE /\ worst' = heap[1]
          /\ c' = c + 1 /\ pc' = "walk"
          /\ UNCHANGED <<heap, i>>
  /\ UNCHANGED <<input, picked>>

HeapWalked ==
  /\ pc = "walk" /\ alg = "heap" /\ c > K
  /\ picked' = [s \in 1 .. n |-> None]
  /\ pc' = "extract"
  /\ UNCHANGED <<input, c, worst, heap, i>>

\* The root, the farthest left, goes to the last free place of the result.
Extract ==
  /\ pc = "extract" /\ heap # <<>>
  /\ LET size == Len(heap) IN
       /\ picked' = [picked EXCEPT ![size] = heap[1]]
       /\ heap' = SubSeq([heap EXCEPT ![1] = heap[size]], 1, size - 1)
  /\ i' = 1 /\ pc' = "settle"
  /\ UNCHANGED <<input, c, worst>>

SiftRest ==
  /\ pc = "settle"
  /\ IF heap # <<>> /\ Largest(heap, i) # i
     THEN /\ heap' = Swapped(heap, i, Largest(heap, i))
          /\ i' = Largest(heap, i)
          /\ UNCHANGED pc
     ELSE pc' = "extract" /\ UNCHANGED <<heap, i>>
  /\ UNCHANGED <<input, c, picked, worst>>

HeapDone ==
  /\ pc = "extract" /\ heap = <<>>
  /\ pc' = "done"
  /\ UNCHANGED <<input, c, picked, worst, heap, i>>
-----------------------------------------------------------------------------
Init ==
  /\ n \in Sizes /\ dists \in [Clusters -> 0 .. MaxDist]
  /\ \/ alg = "list" /\ scanned = {}
     \/ alg = "heap" /\ scanned \in {S \in SUBSET Clusters : Cardinality(S) <= MaxMarked}
  /\ c = 1 /\ picked = [s \in 1 .. n |-> None]
  /\ worst = None /\ heap = <<>> /\ i = 1 /\ pc = "walk"

Next ==
  \/ Argmin \/ ListSkip \/ ListInsert \/ ListDone
  \/ HeapSkip \/ HeapPush \/ HeapReplace \/ SiftUp \/ SiftDown
  \/ HeapWalked \/ Extract \/ SiftRest \/ HeapDone

Spec == Init /\ [][Next]_vars
-----------------------------------------------------------------------------
TypeOK ==
  /\ alg \in {"list", "heap"} /\ n \in Sizes /\ dists \in [Clusters -> 0 .. MaxDist]
  /\ scanned \subseteq Clusters /\ c \in 1 .. K + 1
  /\ picked \in [1 .. n -> Clusters \cup {None}] /\ worst \in Clusters \cup {None}
  /\ Len(heap) <= n /\ \A j \in 1 .. Len(heap) : heap[j] \in Clusters
  /\ i \in 1 .. n
  /\ pc \in {"walk", "up", "down", "extract", "settle", "done"}

Candidates == Clusters \ scanned

\* The picks are right: as many as there are candidates for, all different,
\* in ascending order, none farther than a candidate left out; the list also
\* breaks ties by the cluster's number.
PicksNearest ==
  pc = "done" =>
    LET m == IF n < Cardinality(Candidates) THEN n ELSE Cardinality(Candidates)
        in == {picked[s] : s \in 1 .. m}
    IN  /\ in \subseteq Candidates /\ Cardinality(in) = m
        /\ \A s \in m + 1 .. n : picked[s] = None
        /\ \A s \in 1 .. m - 1 : dists[picked[s]] <= dists[picked[s + 1]]
        /\ \A e \in Candidates \ in, s \in 1 .. m : dists[picked[s]] <= dists[e]
        /\ alg = "list" =>
             /\ \A s \in 1 .. m - 1 :
                  dists[picked[s]] = dists[picked[s + 1]] => picked[s] < picked[s + 1]
             /\ \A e \in Candidates \ in, s \in 1 .. m :
                  dists[picked[s]] = dists[e] => picked[s] < e

=============================================================================
