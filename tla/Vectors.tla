------------------------------ MODULE Vectors -------------------------------
(***************************************************************************)
(* Reference vectors as both indexes hold them: in blocks of lanes, the    *)
(* unused lanes of the last block padded, under bounding boxes.  A lane    *)
(* holds the id of a vector, 0 for a phantom lane; distances are exact     *)
(* integers.                                                               *)
(***************************************************************************)
EXTENDS Integers, Sequences, SequencesExt, FiniteSets, FiniteSetsExt

CONSTANTS
  Dims,    \* dataset.Dims
  Lanes,   \* blockLanes, LANES
  Pad      \* INT16_MAX

Axes == 1 .. Dims
Points == [Axes -> Int]

\* Mutant: unused lanes stay as make() left them.
PadZero == [a \in Axes |-> 0]

PadPoint == [a \in Axes |-> Pad]

Sq(n) == n * n
Dist(p, q) == MapThenSumSet(LAMBDA a : Sq(p[a] - q[a]), Axes)

\* The elements of S in a strict total order.
InOrder(S, Before(_, _)) ==
  [p \in 1 .. Cardinality(S) |-> CHOOSE x \in S : Cardinality({y \in S : Before(y, x)}) = p - 1]

\* A dataset has vectors and their labels.
Count(ds) == Len(ds.vec)
At(ds, i) == IF i = 0 THEN PadPoint ELSE ds.vec[i]
Label(ds, i) == IF i = 0 THEN 0 ELSE ds.label[i]

\* Mutant: the partial block at the end is left out.
BlocksForFull(n) == n \div Lanes

BlocksFor(n) == (n + Lanes - 1) \div Lanes

\* Block blk of the vectors ids.
Block(ids, blk) ==
  [lane \in 1 .. Lanes |-> LET i == blk * Lanes + lane IN IF i <= Len(ids) THEN ids[i] ELSE 0]

\* The blocks of an index, counted from 0.
LanesOf(index, b) == index.data[b + 1]

\* The box around a non-empty set of vectors.
BoxOf(ds, ids) ==
  [lo |-> [a \in Axes |-> Min({ds.vec[i][a] : i \in ids})],
   hi |-> [a \in Axes |-> Max({ds.vec[i][a] : i \in ids})]]

\* AABBLowerBoundF32, before rounding.
BoxBound(q, box) ==
  MapThenSumSet(LAMBDA a : IF q[a] > box.hi[a] THEN Sq(q[a] - box.hi[a])
                           ELSE IF q[a] < box.lo[a] THEN Sq(box.lo[a] - q[a]) ELSE 0, Axes)

=============================================================================
