------------------------------ MODULE KdSearch ------------------------------
(***************************************************************************)
(* internal/specialist/search.go: FraudCount walks the tree of the query's *)
(* own partition, then the trees of the others by ascending bound, with a  *)
(* stack of the far children put off.  Bounds and lane sums are float32:   *)
(* each is off the exact value by at most FloatError, in whichever         *)
(* direction, and a bound keeps its error while it waits on the stack.     *)
(***************************************************************************)
EXTENDS KdIndex, Top5

CONSTANTS
  Datasets, Queries,
  StackCap,       \* TreeStackCap
  KernelSafety,   \* kernelSafety
  FloatError      \* what the comment on kernelSafety bounds

ASSUME KdSearchAssumption ==
  /\ Dims \in Nat \ {0} /\ Lanes \in Nat \ {0} /\ LeafSize \in Nat \ {0} /\ Pad \in Int
  /\ StackCap \in Nat /\ Infinity \in Nat
  /\ KernelSafety \in Nat /\ FloatError \in Nat /\ FloatError <= KernelSafety
  /\ IsFiniteSet(KeyTests)
  /\ \A t \in KeyTests : t.axis \in Axes /\ t.above \in Int /\ t.weight \in Nat
  /\ \A d \in Datasets : d.vec \in Seq(Points) /\ d.label \in [1 .. Count(d) -> {0, 1}]
  /\ Queries \subseteq Points

VARIABLES
  ds, index,   \* the reference data and the index built of it
  query,
  top,         \* SearchScratch.Top
  todo,        \* PartBounds: the other partitions, as visits to their roots
  caller,      \* where searchKDTree returns to: "collect" or "next"
  cur,         \* current and currentBound
  stack,       \* StackNodes and StackBounds
  blk, lane,   \* block and lane of the leaf being scanned
  thr,         \* worstF32 of scanLeaf
  pc

vars == <<ds, index, query, top, todo, caller, cur, stack, blk, lane, thr, pc>>
call == <<ds, index, query>>
scan == <<blk, lane, thr>>

\* A node to look at, and the bound computed for it.
Visit(n, b) == [node |-> n, bound |-> b]
Nowhere == Visit(0, 0)

\* aabbLowerBoundF32 of a box in any of its roundings; a sum of nothing is exact.
LowerBounds(box) ==
  LET b == BoxBound(query, box)
  IN  IF b = 0 THEN {0} ELSE {n \in b - FloatError .. b + FloatError : n >= 0}

\* WorstF32
WorstF32 == Worst(top) + KernelSafety

Parts == index.parts
SameKey == ByKey(index, PartitionKey(query))
\* Mutant: the query's own partition is walked with the others again.
OthersAndSame == DOMAIN Parts
Others == DOMAIN Parts \ SameKey
CurNode == NodeAt(index, cur.node)
-----------------------------------------------------------------------------
(* FraudCount.                                                             *)

\* Reset, with whatever the last query left in the scratch.
Start ==
  /\ pc = "start"
  /\ top' = ResetTop
  /\ todo' = <<>> /\ caller' = "collect"
  /\ cur' = Nowhere /\ stack' = <<>> /\ blk' = 0 /\ lane' = 0 /\ thr' = 0
  /\ pc' = "same"
  /\ UNCHANGED call

\* Step 1: the partition of the query's own key, ...
SearchSame ==
  /\ pc = "same"
  /\ \E k \in SameKey : \E b \in LowerBounds(Parts[k].box) :
       b < WorstF32 /\ cur' = Visit(Parts[k].root, b)
  /\ stack' = <<>>
  /\ pc' = "node"
  /\ UNCHANGED <<call, top, todo, caller, scan>>

\* ... if there is one and it is near enough.
PassSame ==
  /\ pc = "same"
  /\ \A k \in SameKey : \E b \in LowerBounds(Parts[k].box) : b >= WorstF32
  /\ pc' = "collect"
  /\ UNCHANGED <<call, top, todo, caller, cur, stack, scan>>

\* A bound for each of the partitions S.
BoundsOf(S) ==
  {b \in [S -> UNION {LowerBounds(Parts[k].box) : k \in S}] :
     \A k \in S : b[k] \in LowerBounds(Parts[k].box)}

\* S by ascending bound, of equals the first in the directory.
Orders(S, b) ==
  {p \in [1 .. Cardinality(S) -> S] :
     /\ ToSet(p) = S
     /\ \A i, j \in DOMAIN p : i < j => b[p[i]] < b[p[j]] \/ (b[p[i]] = b[p[j]] /\ p[i] < p[j])}

\* Steps 2 and 3: the others, sorted.
Collect ==
  /\ pc = "collect"
  /\ \E b \in BoundsOf(Others) : \E p \in Orders(Others, b) :
       todo' = [j \in DOMAIN p |-> Visit(Parts[p[j]].root, b[p[j]])]
  /\ caller' = "next"
  /\ pc' = "next"
  /\ UNCHANGED <<call, top, cur, stack, scan>>

\* Step 4: walk the next one ...
SearchNext ==
  /\ pc = "next" /\ todo # <<>> /\ Head(todo).bound < WorstF32
  /\ cur' = Head(todo) /\ todo' = Tail(todo)
  /\ stack' = <<>>
  /\ pc' = "node"
  /\ UNCHANGED <<call, top, caller, scan>>

\* ... until one is too far away, and with it all that follow.
Stop ==
  /\ pc = "next"
  /\ todo # <<>> => Head(todo).bound >= WorstF32
  /\ todo' = <<>>
  /\ pc' = "done"
  /\ UNCHANGED <<call, top, caller, cur, stack, scan>>
-----------------------------------------------------------------------------
(* searchKDTree.                                                           *)

\* The fifth distance has shrunk since the visit was put off.
TooFar ==
  /\ pc = "node" /\ cur.bound >= WorstF32
  /\ pc' = "pop"
  /\ UNCHANGED <<call, top, todo, caller, cur, stack, scan>>

EnterLeaf ==
  /\ pc = "node" /\ cur.bound < WorstF32 /\ IsLeaf(CurNode)
  /\ blk' = CurNode.start
  /\ pc' = "block"
  /\ UNCHANGED <<call, top, todo, caller, cur, stack, lane, thr>>

\* The far child is put off if it may matter and the stack has room.
PutOff(near, far) ==
  IF far.bound < WorstF32 /\ Len(stack) < StackCap THEN Append(stack, far) ELSE stack

\* The nearer child first, the left one of equals.
Descend ==
  /\ pc = "node" /\ cur.bound < WorstF32 /\ ~IsLeaf(CurNode)
  /\ \E lb \in LowerBounds(NodeAt(index, CurNode.left).box),
        rb \in LowerBounds(NodeAt(index, CurNode.right).box) :
       LET l == Visit(CurNode.left, lb)
           r == Visit(CurNode.right, rb)
           near == IF lb <= rb THEN l ELSE r
           far == IF lb <= rb THEN r ELSE l
       IN  /\ stack' = PutOff(near, far)
           /\ \/ near.bound < WorstF32 /\ cur' = near /\ pc' = "node"
              \/ near.bound >= WorstF32 /\ cur' = cur /\ pc' = "pop"
  /\ UNCHANGED <<call, top, todo, caller, scan>>

\* Mutant: the visit taken stays on the stack.
PopKeeps ==
  /\ pc = "pop" /\ stack # <<>>
  /\ cur' = stack[Len(stack)] /\ stack' = stack
  /\ pc' = "node"
  /\ UNCHANGED <<call, top, todo, caller, scan>>

Pop ==
  /\ pc = "pop" /\ stack # <<>>
  /\ cur' = stack[Len(stack)] /\ stack' = SubSeq(stack, 1, Len(stack) - 1)
  /\ pc' = "node"
  /\ UNCHANGED <<call, top, todo, caller, scan>>

TreeDone ==
  /\ pc = "pop" /\ stack = <<>>
  /\ pc' = caller
  /\ UNCHANGED <<call, top, todo, caller, cur, stack, scan>>
-----------------------------------------------------------------------------
(* scanLeaf.                                                               *)

LeafEnd == CurNode.start + BlocksFor(CurNode.len)

StartBlock ==
  /\ pc = "block" /\ blk # LeafEnd
  /\ thr' = WorstF32 /\ lane' = 1
  /\ pc' = "lane"
  /\ UNCHANGED <<call, top, todo, caller, cur, stack, blk>>

LaneId == LanesOf(index, blk)[lane]
LaneDist == Dist(query, At(ds, LaneId))

\* Mutant: the loop goes on to a lane the block does not have.
NextLaneOneMore ==
  IF lane <= Lanes THEN lane' = lane + 1 /\ UNCHANGED <<blk, pc>>
  ELSE lane' = 0 /\ blk' = blk + 1 /\ pc' = "block"

NextLane ==
  IF lane < Lanes THEN lane' = lane + 1 /\ UNCHANGED <<blk, pc>>
  ELSE lane' = 0 /\ blk' = blk + 1 /\ pc' = "block"

\* The kernel's sum reaches the threshold of the block (for every lane of it
\* when the kernel says that none is alive) ...
DropLane ==
  /\ pc = "lane" /\ LaneDist >= thr - FloatError
  /\ NextLane
  /\ UNCHANGED <<call, top, todo, caller, cur, stack, thr>>

\* ... or does not, and the exact distance goes to the top five.
TakeLane ==
  /\ pc = "lane" /\ LaneDist < thr + FloatError
  /\ top' = Insert(top, LaneDist, Label(ds, LaneId), LaneId)
  /\ NextLane
  /\ UNCHANGED <<call, todo, caller, cur, stack, thr>>

LeafDone ==
  /\ pc = "block" /\ blk = LeafEnd
  /\ pc' = "pop"
  /\ UNCHANGED <<call, top, todo, caller, cur, stack, scan>>

\* Another query on the same scratch.
NextQuery ==
  /\ pc = "done"
  /\ query' \in Queries
  /\ pc' = "start"
  /\ UNCHANGED <<ds, index, top, todo, caller, cur, stack, scan>>

Init ==
  /\ ds \in Datasets /\ index = Build(ds) /\ query \in Queries
  /\ top = ZeroTop /\ todo = <<>> /\ caller = "collect" /\ cur = Nowhere /\ stack = <<>>
  /\ blk = 0 /\ lane = 0 /\ thr = 0
  /\ pc = "start"

Search ==
  \/ Start \/ SearchSame \/ PassSame \/ Collect \/ SearchNext \/ Stop
  \/ TooFar \/ EnterLeaf \/ Descend \/ Pop \/ TreeDone
  \/ StartBlock \/ DropLane \/ TakeLane \/ LeafDone

Next == Search \/ NextQuery

\* The goroutine of a query runs to its end; nobody has to send another.
Spec == Init /\ [][Next]_vars /\ WF_vars(Search)
-----------------------------------------------------------------------------
Ids == 1 .. Count(ds)
NodeIds(ix) == 0 .. Len(ix.nodes) - 1
MaxWorst == Infinity + KernelSafety

\* Every node, block and lane the search touches exists.
TypeOK ==
  /\ query \in Queries
  /\ \A s \in Slots : /\ top[s].d \in 0 .. Infinity /\ top[s].label \in {0, 1}
                      /\ top[s].id \in 0 .. Count(ds)
  /\ caller \in {"collect", "next"}
  /\ pc \in {"node", "block", "lane"} => cur.node \in NodeIds(index)
  /\ pc = "block" => blk \in CurNode.start .. LeafEnd
  /\ pc = "lane" => blk \in CurNode.start .. LeafEnd - 1 /\ blk < Len(index.data) /\ lane \in 1 .. Lanes
  /\ thr \in 0 .. MaxWorst
  /\ Len(stack) <= StackCap /\ \A j \in DOMAIN stack : stack[j].node \in NodeIds(index)
  /\ \A j \in DOMAIN todo : todo[j].node \in NodeIds(index)
  /\ pc \in {"start", "same", "collect", "next", "node", "pop", "block", "lane", "done"}

\* No vector has two lanes in the blocks bs of ix.
OneLaneEach(ix, bs) ==
  \A b, c \in bs, k, l \in 1 .. Lanes :
    LanesOf(ix, b)[k] = LanesOf(ix, c)[l] /\ LanesOf(ix, b)[k] # 0 => b = c /\ k = l

\* Leaf n of the index ix gives each of its vectors one lane of a block it has,
\* and no lane to another vector.
LeafOf(ix, n) ==
  LET node == NodeAt(ix, n)
      end == node.start + BlocksFor(node.len)
  IN  /\ node.start \in Nat /\ end \in node.start .. Len(ix.data)
      /\ \A b \in node.start .. end - 1, l \in 1 .. Lanes : LanesOf(ix, b)[l] \in {0} \cup node.members
      /\ \A i \in node.members :
           \E b \in node.start .. end - 1, l \in 1 .. Lanes : LanesOf(ix, b)[l] = i
      /\ OneLaneEach(ix, node.start .. end - 1)

\* The children of an inner node divide its vectors between them and lie one
\* level deeper, no deeper than the stack has room for.
InnerOf(ix, n) ==
  LET node == NodeAt(ix, n)
  IN  /\ node.left \in NodeIds(ix) /\ node.right \in NodeIds(ix)
      /\ node.members = NodeAt(ix, node.left).members \cup NodeAt(ix, node.right).members
      /\ NodeAt(ix, node.left).members \cap NodeAt(ix, node.right).members = {}
      /\ NodeAt(ix, node.left).depth = node.depth + 1
      /\ NodeAt(ix, node.right).depth = node.depth + 1
      /\ node.depth + 1 <= StackCap

\* The trees of ix: one for every key, its root at depth 0, and every vector of d
\* in exactly one of them.
TreesOf(d, ix) ==
  /\ Len(ix.nodes) \in Nat /\ Len(ix.data) \in Nat /\ Len(ix.parts) \in Nat
  /\ DOMAIN ix.parts = 1 .. Len(ix.parts)
  /\ \A k \in DOMAIN ix.parts :
       /\ ix.parts[k].root \in NodeIds(ix) /\ NodeAt(ix, ix.parts[k].root).depth = 0
       /\ ix.parts[k].box = NodeAt(ix, ix.parts[k].root).box
       /\ \A m \in DOMAIN ix.parts \ {k} :
            /\ ix.parts[k].key # ix.parts[m].key
            /\ NodeAt(ix, ix.parts[k].root).members \cap NodeAt(ix, ix.parts[m].root).members = {}
  /\ \A n \in NodeIds(ix) :
       /\ NodeAt(ix, n).depth \in Nat /\ NodeAt(ix, n).members \subseteq 1 .. Count(d)
       /\ IF IsLeaf(NodeAt(ix, n)) THEN LeafOf(ix, n) ELSE InnerOf(ix, n)
  /\ \A i \in 1 .. Count(d) : \E k \in DOMAIN ix.parts : i \in NodeAt(ix, ix.parts[k].root).members

\* No box promises a distance to q that one of its vectors undercuts.
BoxesOf(d, ix, q) ==
  \A n \in NodeIds(ix) :
    /\ BoxBound(q, NodeAt(ix, n).box) \in 0 .. Infinity - FloatError
    /\ \A i \in NodeAt(ix, n).members : BoxBound(q, NodeAt(ix, n).box) <= Dist(q, d.vec[i])

\* Build puts every vector into one lane of one tree, and its boxes bound every
\* query.
TreesSound == pc = "start" => TreesOf(ds, index) /\ BoxesOf(ds, index, query)

Distance == [i \in Ids |-> Dist(query, ds.vec[i])]
BruteTop == BruteFive(Distance, ds.label)

\* No vector outside the five nearest is as near as the fifth.
NoTie == Cardinality({i \in Ids : Distance[i] <= Worst(BruteTop)}) = 5

\* The search is exact, whatever order the trees were walked in: no vector is
\* among the five twice, their distances are those of brute force, and so is
\* the count unless vectors tie for the fifth place.
NearestFive ==
  pc = "done" =>
    /\ \A r, s \in Slots : top[r].id = top[s].id /\ top[r].id # 0 => r = s
    /\ \A s \in Slots : BruteTop[s].id # 0 => top[s].d = BruteTop[s].d
    /\ NoTie => FraudCount(top) = FraudCount(BruteTop)

\* The loop over the stack ends, and with it every query.
Ends == pc = "start" ~> pc = "done"
-----------------------------------------------------------------------------
(* The sizes the code relies on, for every dataset and query: the          *)
(* hypotheses of the theorems.                                             *)

\* int16 coordinates in 14 dimensions stay far below the distance 1 << 62 an
\* empty slot has.
DistancesFit ==
  \A d \in Datasets, q \in Queries : \A i \in 0 .. Count(d) : Dist(q, At(d, i)) + FloatError < Infinity

\* The members a tree of h levels below its root has room for.
Holds[h \in Nat] == IF h = 0 THEN LeafSize ELSE 2 * Holds[h - 1]

\* What the comment on TreeStackCap says of its depth.
TreesFit == \A d \in Datasets : Count(d) <= Holds[StackCap]

\* The padding, at 32767 on every axis, is farther from every query than any
\* vector: the coordinates of both are at most QuantScale = 10000 either way.
PaddingFar ==
  \A d \in Datasets, q \in Queries : \A i \in 1 .. Count(d) :
    Dist(q, d.vec[i]) < Dist(q, [a \in Axes |-> Pad])

=============================================================================
