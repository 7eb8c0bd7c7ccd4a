----------------------------- MODULE IvfSearch ------------------------------
(***************************************************************************)
(* internal/search: FraudCountIVF over an index, cluster by cluster and    *)
(* block by block, and FraudCountFull, the oracle of cmd/calibrate.  The   *)
(* scratch goes from query to query with what the last one left in it.     *)
(* Sums in float32 differ from the exact ones by at most FloatError, in    *)
(* whichever direction: a bound or a lane near the threshold may fall on   *)
(* either side of it.                                                      *)
(***************************************************************************)
EXTENDS IvfIndex, Top5

CONSTANTS
  Datasets, Queries,
  FastNProbe,
  EscalateN,      \* EscalateNByClass, for the counts 0 to 5
  Threshold,      \* ExtremeWorstThreshold, likewise
  KernelSafety,   \* kernelSafety
  FloatError,     \* what the comment on kernelSafety bounds
  MaxRuns         \* bound on the queries of one behaviour

ASSUME IvfSearchAssumption ==
  /\ \A n \in {K, Lanes, FastNProbe, MaxRuns} : n \in Nat \ {0}
  /\ Dims \in Nat /\ Pad \in Int
  /\ Infinity \in Nat
  /\ FloatError \in Nat /\ KernelSafety \in Nat /\ FloatError <= KernelSafety
  /\ EscalateN \in [0 .. 5 -> Nat] /\ Threshold \in [0 .. 5 -> Nat]
  /\ \A d \in Datasets : /\ d.vec \in Seq(Points) /\ d.label \in [1 .. Count(d) -> {0, 1}]
                         /\ d.cent \in [Clusters -> Points]
  /\ Queries \subseteq Points

VARIABLES
  ds, index,   \* the reference data and the index built of it
  query,
  mode,        \* "ivf" | "full" | "fast": which function was called
  top,         \* scratch.Top
  scanned,     \* scratch.Scanned
  todo,        \* clusters of this tier still to be scanned, in order
  blk, lane,   \* block and lane of the cluster being scanned
  thr,         \* worstF32, read once for the block
  tier,        \* "fast" | "escalated" | "sweep"
  pc, runs

vars == <<ds, index, query, mode, top, scanned, todo, blk, lane, thr, tier, pc, runs>>
call == <<ds, index, query, mode, runs>>
scan == <<blk, lane, thr>>

Modes == {"ivf", "full", "fast"}

CentroidDist(c) == Dist(query, ds.cent[c])
-----------------------------------------------------------------------------
(* Bounds, for query q against cluster c of the index ix of dataset d.     *)

\* Mutant: the squares of the roots are subtracted, not the roots.
GapOfSquares(cd, r2, w) == cd > r2 /\ cd - r2 >= w

\* sqrt(cd) - sqrt(r2) > 0 and its square is at least w, without roots.
GapReaches(cd, r2, w) ==
  LET s == cd - r2 - w IN cd > r2 /\ s >= 0 /\ (w > 0 => s * s >= 4 * r2 * w)

Reaches(d, ix, q, c, w) ==
  GapReaches(Dist(q, d.cent[c]), ix.radius[c], w) \/ BoxBound(q, ix.box[c]) >= w

\* Mutant: no margin for the rounding.
WorstExact == Worst(top)

\* WorstF32
WorstF32 == Worst(top) + KernelSafety

MustPrune(c) == Reaches(ds, index, query, c, WorstF32 + FloatError)
MayPrune(c) == Reaches(ds, index, query, c, WorstF32 - FloatError)
-----------------------------------------------------------------------------
(* Picking clusters.                                                       *)

Nearer(c, e) == CentroidDist(c) < CentroidDist(e)

\* The sequences of the n nearest of S, or of all of S, by ascending distance.
Nearest(n, S) ==
  LET m == IF n < Cardinality(S) THEN n ELSE Cardinality(S)
  IN  {p \in [1 .. m -> S] :
         /\ IsInjective(p)
         /\ \A i, j \in 1 .. m : i < j => ~Nearer(p[j], p[i])
         /\ \A c \in S \ ToSet(p), e \in ToSet(p) : ~Nearer(c, e)}

\* PickTopNCentroids: of equals, the first by number.
FirstPicks(n) ==
  {p \in Nearest(n, Clusters) :
     \A i \in DOMAIN p : \A c \in Clusters \ {p[j] : j \in 1 .. i} : Nearer(p[i], c) \/ p[i] < c}

\* PickNextNUnscanned: of equals, any, in any order.
NextPicks(n, S) == Nearest(n, S)
-----------------------------------------------------------------------------
\* Mutant: the scratch keeps the last query's marks.
PickKeepsScanned ==
  /\ pc = "pick"
  /\ todo' \in FirstPicks(FastNProbe)
  /\ top' = ResetTop /\ scanned' = scanned
  /\ tier' = "fast" /\ pc' = "cluster"
  /\ UNCHANGED <<call, scan>>

\* Steps 1 to 3: score, pick, reset.
Pick ==
  /\ pc = "pick"
  /\ todo' \in FirstPicks(FastNProbe)
  /\ top' = ResetTop /\ scanned' = {}
  /\ tier' = "fast" /\ pc' = "cluster"
  /\ UNCHANGED <<call, scan>>

\* The full sweep goes through all clusters and passes over the scanned ones.
Skipped(c) == tier = "sweep" /\ c \in scanned

\* scanCluster returned: mark the cluster (the sweep of FraudCountFull does not).
Advance ==
  /\ todo' = Tail(todo)
  /\ scanned' = IF tier = "sweep" THEN scanned ELSE scanned \cup {Head(todo)}
  /\ pc' = "cluster"

Skip ==
  /\ pc = "cluster" /\ todo # <<>> /\ Skipped(Head(todo))
  /\ Advance
  /\ UNCHANGED <<call, top, scan, tier>>

Prune ==
  /\ pc = "cluster" /\ todo # <<>> /\ ~Skipped(Head(todo)) /\ MayPrune(Head(todo))
  /\ Advance
  /\ UNCHANGED <<call, top, scan, tier>>

Enter ==
  /\ pc = "cluster" /\ todo # <<>> /\ ~Skipped(Head(todo)) /\ ~MustPrune(Head(todo))
  /\ blk' = First(index, Head(todo))
  /\ pc' = "block"
  /\ UNCHANGED <<call, top, scanned, todo, lane, thr, tier>>

Leave ==
  /\ pc = "block" /\ blk = End(index, Head(todo))
  /\ Advance
  /\ UNCHANGED <<call, top, scan, tier>>

\* The threshold of a block is read before the kernel runs over its lanes.
StartBlock ==
  /\ pc = "block" /\ blk # End(index, Head(todo))
  /\ thr' = WorstF32 /\ lane' = 1
  /\ pc' = "lane"
  /\ UNCHANGED <<call, top, scanned, todo, blk, tier>>

LaneId == LanesOf(index, blk)[lane]
LaneDist == Dist(query, At(ds, LaneId))

\* Mutant: one lane too many.
NextLaneOneMore ==
  IF lane <= Lanes THEN lane' = lane + 1 /\ UNCHANGED <<blk, pc>>
  ELSE lane' = 0 /\ blk' = blk + 1 /\ pc' = "block"

NextLane ==
  IF lane < Lanes THEN lane' = lane + 1 /\ UNCHANGED <<blk, pc>>
  ELSE lane' = 0 /\ blk' = blk + 1 /\ pc' = "block"

\* The kernel's sum for the lane reaches the threshold ...
DropLane ==
  /\ pc = "lane" /\ LaneDist >= thr - FloatError
  /\ NextLane
  /\ UNCHANGED <<call, top, scanned, todo, thr, tier>>

\* ... or does not, and the exact distance goes to the top five.
TakeLane ==
  /\ pc = "lane" /\ LaneDist < thr + FloatError
  /\ top' = Insert(top, LaneDist, Label(ds, LaneId), LaneId)
  /\ NextLane
  /\ UNCHANGED <<call, scanned, todo, thr, tier>>

\* The gate: an ambiguous count, or a fifth distance above the class threshold.
NeedSweep ==
  LET n == FraudCount(top)
  IN  n \in {2, 3, 4} \/ (Threshold[n] > 0 /\ Worst(top) > Threshold[n])

\* Step 5: the fast tier is done and its count looks safe, ...
Settle ==
  /\ pc = "cluster" /\ todo = <<>> /\ tier = "fast"
  /\ mode = "fast" \/ (mode = "ivf" /\ ~NeedSweep)
  /\ pc' = "done"
  /\ UNCHANGED <<call, top, scanned, todo, scan, tier>>

\* ... or does not, and more clusters are scanned.
Escalate ==
  /\ pc = "cluster" /\ todo = <<>> /\ mode = "ivf" /\ tier = "fast" /\ NeedSweep
  /\ todo' \in NextPicks(EscalateN[FraudCount(top)], Clusters \ scanned)
  /\ tier' = "escalated"
  /\ UNCHANGED <<call, top, scanned, scan, pc>>

\* FraudCountFull goes on with every cluster, in order.
Sweep ==
  /\ pc = "cluster" /\ todo = <<>> /\ mode = "full" /\ tier = "fast"
  /\ todo' = [c \in Clusters |-> c]
  /\ tier' = "sweep"
  /\ UNCHANGED <<call, top, scanned, scan, pc>>

Finish ==
  /\ pc = "cluster" /\ todo = <<>> /\ tier # "fast"
  /\ pc' = "done"
  /\ UNCHANGED <<call, top, scanned, todo, scan, tier>>

\* The scratch comes back from the pool for another query.
NextQuery ==
  /\ pc = "done" /\ runs < MaxRuns
  /\ query' \in Queries /\ mode' \in Modes
  /\ runs' = runs + 1
  /\ pc' = "pick"
  /\ UNCHANGED <<ds, index, top, scanned, todo, scan, tier>>

Init ==
  /\ ds \in Datasets /\ index = Build(ds)
  /\ query \in Queries /\ mode \in Modes
  /\ top = ZeroTop /\ scanned = {} /\ todo = <<>>
  /\ blk = 0 /\ lane = 0 /\ thr = 0
  /\ tier = "fast" /\ pc = "pick" /\ runs = 1

Next ==
  \/ Pick \/ Skip \/ Prune \/ Enter \/ Leave \/ StartBlock \/ DropLane \/ TakeLane
  \/ Settle \/ Escalate \/ Sweep \/ Finish \/ NextQuery

Spec == Init /\ [][Next]_vars
-----------------------------------------------------------------------------
Ids == 1 .. Count(ds)

TypeOK ==
  /\ query \in Queries /\ mode \in Modes
  /\ \A s \in Slots : /\ top[s].d \in 0 .. Infinity /\ top[s].label \in {0, 1}
                      /\ top[s].id \in 0 .. Count(ds)
  /\ scanned \subseteq Clusters
  /\ todo \in Seq(Clusters) /\ IsInjective(todo)
  /\ blk \in 0 .. Len(index.data) /\ lane \in 0 .. Lanes /\ thr \in 0 .. Infinity + KernelSafety
  /\ pc = "block" => blk \in First(index, Head(todo)) .. End(index, Head(todo))
  /\ pc = "lane" => blk \in First(index, Head(todo)) .. End(index, Head(todo)) - 1
  /\ tier \in {"fast", "escalated", "sweep"}
  /\ pc \in {"pick", "cluster", "block", "lane", "done"}
  /\ runs \in 1 .. MaxRuns

\* Vector i has its lane in a block of its cluster, ...
Located(d, ix, i) ==
  \E b \in First(ix, Assign(d, i)) .. End(ix, Assign(d, i)) - 1, l \in 1 .. Lanes : LanesOf(ix, b)[l] = i

\* ... in one only, and lies within the box and the radius of the cluster.
Bounded(d, ix, i) ==
  LET c == Assign(d, i) IN
    /\ Cardinality({bl \in (DOMAIN ix.data) \X (1 .. Lanes) : ix.data[bl[1]][bl[2]] = i}) = 1
    /\ \A a \in Axes : ix.box[c].lo[a] <= d.vec[i][a] /\ d.vec[i][a] <= ix.box[c].hi[a]
    /\ Dist(d.vec[i], d.cent[c]) <= ix.radius[c]

\* The index ix of d gives every cluster its run of blocks, with no vector of
\* another cluster, and every vector a lane there.
LayoutOf(d, ix) ==
  /\ Len(ix.data) \in Nat
  /\ \A c \in Clusters :
       /\ First(ix, c) \in Nat /\ End(ix, c) \in First(ix, c) .. Len(ix.data)
       /\ \A b \in First(ix, c) .. End(ix, c) - 1, l \in 1 .. Lanes :
            \A i \in {LanesOf(ix, b)[l]} \ {0} : i \in 1 .. Count(d) /\ Assign(d, i) = c
  /\ \A i \in 1 .. Count(d) : Assign(d, i) \in Clusters /\ Located(d, ix, i)

\* Every threshold a bound is compared with.
Thresholds == 0 .. Infinity + KernelSafety + FloatError

\* A bound that reaches w is right: no vector of the cluster is nearer to q.
BoundsOf(d, ix, q) ==
  \A i \in 1 .. Count(d) :
    \A c \in {Assign(d, i)}, w \in Thresholds :
      Reaches(d, ix, q, c, w) => w <= Dist(q, d.vec[i])

\* Build leaves no vector out and bounds every cluster.
IndexSound == LayoutOf(ds, index) /\ \A i \in Ids : Bounded(ds, index, i)

\* Neither the radius nor the box of a cluster promises a distance to the query
\* that one of its vectors undercuts (every query is the first of a behaviour).
BoundsHold == pc = "pick" /\ runs = 1 => BoundsOf(ds, index, query)

InTop == {top[s].id : s \in Slots} \ {0}
Visited == IF tier = "sweep" THEN scanned \cup (Clusters \ ToSet(todo)) ELSE scanned

\* Pruning loses nothing: of the clusters visited, scanned or pruned, every
\* vector that is not in the top five is at least as far as the fifth.
TopIsBest ==
  pc \in {"cluster", "done"} =>
    /\ Ascending(top)
    /\ \A s \in Slots : top[s].id # 0 => top[s].d = Dist(query, ds.vec[top[s].id])
    /\ \A c \in Visited, i \in Ids :
         Assign(ds, i) = c => i \in InTop \/ Dist(query, ds.vec[i]) >= Worst(top)

\* The padding of partial blocks never takes a vector's place: a phantom is
\* among the five only when the clusters visited hold fewer than five vectors.
PhantomsYield ==
  pc = "done" /\ (\E s \in Slots : top[s].id = 0 /\ top[s].d < Infinity)
    => \A i \in Ids : Assign(ds, i) \in Visited => i \in InTop

Distance == [i \in Ids |-> Dist(query, ds.vec[i])]
BruteTop == BruteFive(Distance, ds.label)

\* No vector outside the five nearest is as near as the fifth.
NoTie == Cardinality({i \in Ids : Distance[i] <= Worst(BruteTop)}) = 5

\* The oracle of the calibration is exact: its five distances are those of
\* brute force, and its count too unless vectors tie for the fifth place.
FullIsExact ==
  pc = "done" /\ mode = "full" =>
    /\ \A s \in Slots : BruteTop[s].id # 0 => top[s].d = BruteTop[s].d
    /\ NoTie => FraudCount(top) = FraudCount(BruteTop)

\* Both tiers together scan the clusters nearest to the query, none twice.
NearestScanned ==
  mode # "full" /\ pc # "pick" =>
    /\ ToSet(todo) \cap scanned = {}
    /\ pc = "done" => \A c \in scanned, e \in Clusters \ scanned : ~Nearer(e, c)

\* Within a query the fifth distance only shrinks, whatever is scanned.
WorstShrinks == [][(pc # "pick") => Worst(top)' <= Worst(top)]_vars

\* The comment on FraudCountIVF (ivf.go:95-98): exact by construction.
IvfIsExact ==
  pc = "done" /\ mode = "ivf" /\ NoTie => FraudCount(top) = FraudCount(BruteTop)
-----------------------------------------------------------------------------
\* What the theorems suppose of the numbers: distances, those of phantom lanes
\* included, are below 1 << 62.
DistancesFit ==
  \A d \in Datasets, q \in Queries : \A i \in 0 .. Count(d) : Dist(q, At(d, i)) \in 0 .. Infinity - 1

\* The padding, at 32767 on every axis, is farther from every query than any
\* vector: the coordinates of both are at most QuantScale = 10000 either way.
PaddingFar ==
  \A d \in Datasets, q \in Queries : \A i \in 1 .. Count(d) :
    Dist(q, d.vec[i]) < Dist(q, [a \in Axes |-> Pad])

=============================================================================
