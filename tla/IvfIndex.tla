------------------------------ MODULE IvfIndex ------------------------------
(***************************************************************************)
(* internal/ivf: the index Build makes of the reference vectors and their  *)
(* clusters: blocks, cluster offsets in blocks, bounding boxes and         *)
(* (ComputeRadii) radii, which stay squared.                               *)
(***************************************************************************)
EXTENDS Vectors

CONSTANT K   \* clusters

Clusters == 1 .. K

\* AssignAll: the nearest centroid, the first of several.
Assign(ds, i) ==
  CHOOSE c \in Clusters :
    \A e \in Clusters :
      LET dc == Dist(ds.vec[i], ds.cent[c]) de == Dist(ds.vec[i], ds.cent[e])
      IN  dc < de \/ (dc = de /\ c <= e)

\* The ids of a cluster, nearest to its centroid first, stably.
Bucket(ds, c) ==
  LET d(i) == Dist(ds.vec[i], ds.cent[c])
  IN  InOrder({i \in 1 .. Count(ds) : Assign(ds, i) = c},
              LAMBDA i, j : d(i) < d(j) \/ (d(i) = d(j) /\ i < j))

\* An empty cluster gets a box at the padding point, out of every query's reach.
Box(ds, ids) ==
  IF ids = <<>> THEN [lo |-> PadPoint, hi |-> PadPoint] ELSE BoxOf(ds, ToSet(ids))

\* ComputeRadii: over all lanes, the phantom ones included.
RadiusSq(ds, c, blocks) ==
  Max({0} \cup {Dist(At(ds, b[lane]), ds.cent[c]) : b \in ToSet(blocks), lane \in 1 .. Lanes})

Build(ds) ==
  LET bucket == [c \in Clusters |-> Bucket(ds, c)]
      blocks == [c \in Clusters |->
                   [b \in 1 .. BlocksFor(Len(bucket[c])) |-> Block(bucket[c], b - 1)]]
      data == FoldLeft(\o, <<>>, [c \in Clusters |-> blocks[c]])
      start == [c \in 1 .. K + 1 |-> MapThenSumSet(LAMBDA e : Len(blocks[e]), 1 .. c - 1)]
  IN  [offsets |-> start,
       data    |-> data,
       box     |-> [c \in Clusters |-> Box(ds, bucket[c])],
       radius  |-> [c \in Clusters |-> RadiusSq(ds, c, blocks[c])]]

\* The blocks of cluster c, counted from 0 as Offsets does.
First(index, c) == index.offsets[c]
End(index, c) == index.offsets[c + 1]

=============================================================================
