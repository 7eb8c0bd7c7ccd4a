------------------------------ MODULE KdIndex ------------------------------
(***************************************************************************)
(* internal/specialist: the index Build makes of the reference vectors: a  *)
(* partition for every categorical key, and in each a KD-tree whose leaves *)
(* hold blocks of lanes.  Nodes and blocks are counted from 0.  A node     *)
(* also says which vectors it was built for and how deep it lies, for the  *)
(* properties only.                                                        *)
(***************************************************************************)
EXTENDS Vectors

CONSTANTS
  KeyTests,   \* records [axis, above, weight]: what PartitionKey compares
  LeafSize

\* The mcc bucket is three tests of one weight, every other bit one test.
PartitionKey(v) ==
  MapThenSumSet(LAMBDA t : IF v[t.axis] > t.above THEN t.weight ELSE 0, KeyTests)

Width(box, a) == box.hi[a] - box.lo[a]

\* widestDim: the lowest of the widest axes.
WidestDim(box) ==
  CHOOSE a \in Axes :
    \A b \in Axes : Width(box, a) > Width(box, b) \/ (Width(box, a) = Width(box, b) /\ a <= b)

\* The members in the order of their values on axis a, stably.
SortedOn(ds, members, a) ==
  LET v(j) == ds.vec[members[j]][a]
      order == InOrder(DOMAIN members, LAMBDA j, k : v(j) < v(k) \/ (v(j) = v(k) /\ j < k))
  IN  [j \in DOMAIN members |-> members[order[j]]]

\* Mutant: the median goes to neither half.
HalvesDropMedian(s) ==
  LET mid == Len(s) \div 2 IN <<SubSeq(s, 1, mid), SubSeq(s, mid + 2, Len(s))>>

Halves(s) ==
  LET mid == Len(s) \div 2 IN <<SubSeq(s, 1, mid), SubSeq(s, mid + 1, Len(s))>>

\* What buildKDTree is called with: the members, the nodes and blocks there are
\* already, and how deep it is.
Call(members, nodes, blocks, depth) ==
  [members |-> members, nodes |-> nodes, blocks |-> blocks, depth |-> depth]
Calls(ds) == [members : Seq(1 .. Count(ds)), nodes : Nat, blocks : Nat, depth : Nat]

\* The node appended for the call c.
Node(ds, c, l, r, start) ==
  [left |-> l, right |-> r, start |-> start, len |-> IF l < 0 THEN Len(c.members) ELSE 0,
   box |-> BoxOf(ds, ToSet(c.members)), members |-> ToSet(c.members), depth |-> c.depth]

LeafBlocks(members) == [k \in 1 .. BlocksFor(Len(members)) |-> Block(members, k - 1)]

\* The two halves of the members on the widest axis of their box.
Split(ds, members) == Halves(SortedOn(ds, members, WidestDim(BoxOf(ds, ToSet(members)))))

\* buildKDTree: the nodes and blocks it appends, a node before its left half
\* and that before its right one.
Tree(ds) ==
  LET build[c \in Calls(ds)] ==
        IF Len(c.members) <= LeafSize
        THEN [nodes |-> <<Node(ds, c, -1, -1, c.blocks)>>, data |-> LeafBlocks(c.members)]
        ELSE LET half == Split(ds, c.members)
                 l == build[Call(half[1], c.nodes + 1, c.blocks, c.depth + 1)]
                 right == c.nodes + 1 + Len(l.nodes)
                 r == build[Call(half[2], right, c.blocks + Len(l.data), c.depth + 1)]
             IN  [nodes |-> <<Node(ds, c, c.nodes + 1, right, 0)>> \o l.nodes \o r.nodes,
                  data  |-> l.data \o r.data]
  IN  build

\* The vectors of a key, in the order of their numbers.
KeyMembers(ds, k) == InOrder({i \in 1 .. Count(ds) : PartitionKey(ds.vec[i]) = k}, <)

\* One more partition: its tree goes behind those that are there.
AddPartition(ds, ix, k) ==
  LET root == Len(ix.nodes)
      tree == Tree(ds)[Call(KeyMembers(ds, k), root, Len(ix.data), 0)]
  IN  [parts |-> Append(ix.parts, [key |-> k, root |-> root, box |-> tree.nodes[1].box]),
       nodes |-> ix.nodes \o tree.nodes,
       data  |-> ix.data \o tree.data]

\* The keys in use, ascending.
Keys(ds) == InOrder({PartitionKey(ds.vec[i]) : i \in 1 .. Count(ds)}, <)

\* A tree for every key in use.
Build(ds) ==
  FoldLeft(LAMBDA ix, k : AddPartition(ds, ix, k), [parts |-> <<>>, nodes |-> <<>>, data |-> <<>>],
           Keys(ds))

NodeAt(index, n) == index.nodes[n + 1]
IsLeaf(node) == node.left < 0 \/ node.right < 0

\* The partition PartitionByKey finds: the first with the key, if any.
ByKey(index, key) ==
  {k \in DOMAIN index.parts :
     index.parts[k].key = key /\ \A m \in 1 .. k - 1 : index.parts[m].key # key}

=============================================================================
