-------------------------------- MODULE Top5 --------------------------------
(***************************************************************************)
(* internal/search/top5.go: the five nearest candidates so far, by         *)
(* ascending distance, and the insertion of internal/search/bruteforce.go, *)
(* which the search is compared with.  A slot also says which reference    *)
(* vector it came from, 0 for none; the code keeps the label only.         *)
(***************************************************************************)
EXTENDS Integers, Sequences, SequencesExt

CONSTANT Infinity   \* 1 << 62, above every distance

Slots == 1 .. 5

Slot(d, l, i) == [d |-> d, label |-> l, id |-> i]

ResetTop == [s \in Slots |-> Slot(Infinity, 0, 0)]
\* A scratch fresh from new(IVFScratch).
ZeroTop == [s \in Slots |-> Slot(0, 0, 0)]

Worst(top) == top[5].d

\* The slot where the shifting loop stops: behind the last one not above d.
Place(top, d) ==
  CHOOSE p \in Slots : /\ \A s \in p .. 5 : top[s].d > d
                       /\ p > 1 => top[p - 1].d <= d

PutAt(top, p, new) ==
  [s \in Slots |-> IF s < p THEN top[s] ELSE IF s = p THEN new ELSE top[s - 1]]

\* Mutants: the shift overwrites what it should move; the guard is missing, so
\* that a candidate too far away lands in the last slot.
InsertOverwrites(top, d, l, i) ==
  IF d >= Worst(top) THEN top
  ELSE [top EXCEPT ![Place(top, d)] = Slot(d, l, i)]

InsertUnguarded(top, d, l, i) ==
  IF d >= Worst(top) THEN PutAt(top, 5, Slot(d, l, i))
  ELSE PutAt(top, Place(top, d), Slot(d, l, i))

\* InsertI64
Insert(top, d, l, i) ==
  IF d >= Worst(top) THEN top ELSE PutAt(top, Place(top, d), Slot(d, l, i))

FraudCount(top) ==
  top[1].label + top[2].label + top[3].label + top[4].label + top[5].label

\* bruteInsert
BruteInsert(top, d, l, i) ==
  CASE d >= top[5].d -> top
    [] d < top[5].d /\ d < top[1].d -> PutAt(top, 1, Slot(d, l, i))
    [] d < top[5].d /\ d >= top[1].d /\ d < top[2].d -> PutAt(top, 2, Slot(d, l, i))
    [] d < top[5].d /\ d >= top[2].d /\ d < top[3].d -> PutAt(top, 3, Slot(d, l, i))
    [] d < top[5].d /\ d >= top[3].d /\ d < top[4].d -> PutAt(top, 4, Slot(d, l, i))
    [] d < top[5].d /\ d >= top[4].d -> PutAt(top, 5, Slot(d, l, i))

\* FraudCountBrute: vector i is at distance D[i] and has the label L[i].
BruteFive(D, L) ==
  FoldLeft(LAMBDA t, i : BruteInsert(t, D[i], L[i], i), ResetTop, [i \in DOMAIN D |-> i])

Ascending(top) == \A s \in 1 .. 4 : top[s].d <= top[s + 1].d

=============================================================================
