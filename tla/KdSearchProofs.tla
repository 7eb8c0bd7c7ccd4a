--------------------------- MODULE KdSearchProofs ---------------------------
(***************************************************************************)
(* The trees Build makes, and what the walk over them keeps, for every     *)
(* number of lanes and axes, every size of a leaf, every key, every depth  *)
(* of the stack and every rounding: proved from the sizes the code relies  *)
(* on.                                                                     *)
(***************************************************************************)
EXTENDS KdSearch, SearchLemmas

-----------------------------------------------------------------------------
(* Splitting the members of a node.                                        *)

\* The axis widestDim returns is one.
LEMMA WidestIs ==
  ASSUME NEW box, \A a \in Axes : box.lo[a] \in Int /\ box.hi[a] \in Int
  PROVE  WidestDim(box) \in Axes
<1> DEFINE D == [a \in Axes |-> 0 - Width(box, a)]
           b == [x \in Axes |-> {y \in Axes : D[y] < D[x] \/ (D[y] = D[x] /\ y < x)}]
<1>1. Axes \in SUBSET Int /\ IsFiniteSet(Axes) /\ Axes # {}
  BY KdSearchAssumption, AxesFinite DEF Axes
<1>2. D \in [Axes -> Int] /\ \A a \in Axes : Width(box, a) \in Int /\ D[a] = 0 - Width(box, a)
  BY DEF Width
<1>3. \A x, y \in Axes : y \in b[x] <=> D[y] < D[x] \/ (D[y] = D[x] /\ y < x)
  OBVIOUS
<1>4. TotalOrder(b, Axes)
  <2> DEFINE g == b
  <2> HIDE DEF g, D
  <2>1. g = [x \in Axes |-> {y \in Axes : D[y] < D[x] \/ (D[y] = D[x] /\ y < x)}]
    BY DEF g
  <2>2. TotalOrder(g, Axes)
    BY <1>1, <1>2, <2>1, ByValue
  <2> QED BY <2>2 DEF g
<1> HIDE DEF b
<1>5. PICK a \in Axes : \A x \in Axes : x = a \/ a \in b[x]
  BY <1>1, <1>4, FirstOf
<1> HIDE DEF D
<1>6. ASSUME NEW x \in Axes
      PROVE  Width(box, a) > Width(box, x) \/ (Width(box, a) = Width(box, x) /\ a <= x)
  <2>1. x = a \/ D[a] < D[x] \/ (D[a] = D[x] /\ a < x)
    BY <1>3, <1>5
  <2>2. /\ Width(box, a) \in Int /\ Width(box, x) \in Int /\ a \in Int /\ x \in Int
        /\ D[a] = 0 - Width(box, a) /\ D[x] = 0 - Width(box, x)
    BY <1>1, <1>2
  <2> QED BY <2>1, <2>2
<1> QED BY <1>6 DEF WidestDim

\* A sequence without repetitions, and what cutting it in two makes of it.
Once(s) == \A p, r \in 1 .. Len(s) : s[p] = s[r] => p = r
Parted(s, l, r) == Once(s) => Once(l) /\ Once(r) /\ ToSet(l) \cap ToSet(r) = {}

\* Sorting moves the members, and no more.
LEMMA SortedIs ==
  ASSUME NEW d, Ascribed(d), NEW ids \in Seq(1 .. Count(d)), NEW a \in Axes,
         NEW s, s = SortedOn(d, ids, a)
  PROVE  /\ s \in Seq(1 .. Count(d)) /\ Len(s) = Len(ids) /\ ToSet(s) = ToSet(ids)
         /\ Once(ids) => Once(s)
<1>0. PICK n : n = Len(ids)
  OBVIOUS
<1> DEFINE S == DOMAIN ids
           D == [j \in S |-> d.vec[ids[j]][a]]
           b == [x \in S |-> {y \in S : D[y] < D[x] \/ (D[y] = D[x] /\ y < x)}]
           Earlier(x) == {y \in S : \/ d.vec[ids[y]][a] < d.vec[ids[x]][a]
                                    \/ d.vec[ids[y]][a] = d.vec[ids[x]][a] /\ y < x}
<1>1. n \in Nat /\ S = 1 .. n /\ ids \in [S -> 1 .. Count(d)]
  BY <1>0, SeqFacts
<1>2. IsFiniteSet(S) /\ Cardinality(S) = n /\ S \in SUBSET Int
  BY <1>1, FS_Interval
<1>3. D \in [S -> Int]
  <2> SUFFICES ASSUME NEW j \in S PROVE d.vec[ids[j]][a] \in Int
    OBVIOUS
  <2> HIDE DEF S
  <2>1. d.vec[ids[j]] \in [Axes -> Int]
    BY <1>1 DEF Ascribed
  <2> QED BY <2>1
<1>4. TotalOrder(b, S)
  <2> DEFINE g == b
  <2> HIDE DEF g, D, S
  <2>1. g = [x \in S |-> {y \in S : D[y] < D[x] \/ (D[y] = D[x] /\ y < x)}]
    BY DEF g
  <2>2. TotalOrder(g, S)
    BY <1>2, <1>3, <2>1, ByValue
  <2> QED BY <2>2 DEF g
<1> DEFINE order == [p \in 1 .. Cardinality(S) |-> CHOOSE x \in S : Cardinality(Earlier(x)) = p - 1]
<1>5. s = [j \in S |-> ids[order[j]]]
  BY DEF SortedOn, InOrder
<1>12. PICK o : o = order
  OBVIOUS
<1>13. s = [j \in S |-> ids[o[j]]]
  BY <1>5, <1>12
<1>6. \A x \in S : Earlier(x) = b[x]
  OBVIOUS
<1>7. o = [p \in 1 .. Cardinality(S) |-> CHOOSE x \in S : Cardinality(b[x]) = p - 1]
  <2> DEFINE A(p) == CHOOSE x \in S : Cardinality(Earlier(x)) = p - 1
             B(p) == CHOOSE x \in S : Cardinality(b[x]) = p - 1
  <2>1. o = [p \in 1 .. Cardinality(S) |-> A(p)]
    BY <1>12
  <2>2. ASSUME NEW p \in 1 .. Cardinality(S) PROVE A(p) = B(p)
    <3> HIDE DEF S, b, Earlier
    <3>1. \A x : (x \in S /\ Cardinality(Earlier(x)) = p - 1) <=> (x \in S /\ Cardinality(b[x]) = p - 1)
      BY <1>6
    <3> QED BY <3>1, Zenon
  <2> HIDE DEF A, B
  <2>3. o = [p \in 1 .. Cardinality(S) |-> B(p)]
    BY <2>1, <2>2
  <2> QED BY <2>3 DEF B
<1> HIDE DEF b, S, order
<1>8. /\ o \in [S -> S] /\ \A x \in S : \E p \in S : o[p] = x
      /\ \A p, r \in S : o[p] = o[r] => p = r
  <2>1. IsOrdered(o, b, S)
    BY <1>7 DEF IsOrdered
  <2>2. /\ o \in [1 .. Cardinality(S) -> S]
        /\ \A x \in S : \E p \in 1 .. Cardinality(S) : o[p] = x
        /\ \A p, r \in 1 .. Cardinality(S) : o[p] = o[r] => p = r
    BY <1>2, <1>4, <2>1, Ordered
  <2>3. 1 .. Cardinality(S) = S
    BY <1>1, <1>2
  <2> QED BY <2>2, <2>3
<1>9. s \in [S -> 1 .. Count(d)] /\ \A j \in S : s[j] = ids[o[j]]
  BY <1>1, <1>8, <1>13
<1>10. s \in Seq(1 .. Count(d)) /\ Len(s) = n /\ DOMAIN s = S
  <2>1. s \in [1 .. n -> 1 .. Count(d)]
    BY <1>1, <1>9
  <2>2. s \in Seq(1 .. Count(d)) /\ Len(s) = n
    BY <1>1, <2>1, FunSeq
  <2> QED BY <1>1, <2>1, <2>2
<1>11. ToSet(s) = ToSet(ids)
  <2>1. \A j \in S : \E k \in S : s[j] = ids[k]
    BY <1>8, <1>9
  <2>2. ASSUME NEW k \in S PROVE \E j \in S : s[j] = ids[k]
    <3>1. PICK j \in S : o[j] = k
      BY <1>8
    <3> QED BY <1>9, <3>1
  <2>3. ToSet(s) = {s[j] : j \in S} /\ ToSet(ids) = {ids[j] : j \in S}
    BY <1>10 DEF ToSet, S
  <2> QED BY <2>1, <2>2, <2>3
<1>14. ASSUME Once(ids) PROVE Once(s)
  <2>1. \A p, r \in S : ids[p] = ids[r] => p = r
    BY <1>0, <1>1, <1>14 DEF Once
  <2>2. ASSUME NEW p \in S, NEW r \in S, s[p] = s[r] PROVE p = r
    <3>1. s[p] = ids[o[p]] /\ s[r] = ids[o[r]]
      BY <1>9
    <3>2. o[p] \in S /\ o[r] \in S
      BY <1>8
    <3>3. o[p] = o[r]
      BY <2>1, <2>2, <3>1, <3>2
    <3> QED BY <1>8, <3>3
  <2> QED BY <1>1, <1>10, <2>2 DEF Once
<1> QED BY <1>0, <1>10, <1>11, <1>14

\* Both halves of two members or more have some, and fewer than the whole.
LEMMA HalvesAre ==
  ASSUME NEW X, NEW s \in Seq(X), Len(s) >= 2, NEW h, h = Halves(s)
  PROVE  /\ h[1] \in Seq(X) /\ h[2] \in Seq(X)
         /\ Len(h[1]) \in 1 .. Len(s) - 1 /\ Len(h[2]) \in 1 .. Len(s) - 1
         /\ ToSet(s) = ToSet(h[1]) \cup ToSet(h[2]) /\ Parted(s, h[1], h[2])
         /\ \A b \in Int : Len(s) <= 2 * b => Len(h[1]) <= b /\ Len(h[2]) <= b
<1> DEFINE mid == Len(s) \div 2
           n == Len(s)
           l == SubSeq(s, 1, mid)
           r == SubSeq(s, mid + 1, n)
<1>1. n \in Nat /\ mid \in Int /\ 2 * mid <= n /\ n <= 2 * mid + 1 /\ DOMAIN s = 1 .. n
  OBVIOUS
<1>2. h[1] = l /\ h[2] = r
  BY DEF Halves
<1> HIDE DEF mid, n
<1>3. mid >= 1 /\ mid <= n - 1
  BY <1>1 DEF n
<1>4. \A j \in 1 .. n : s[j] \in X
  BY <1>1
<1>5. /\ l \in Seq(X) /\ Len(l) = mid /\ DOMAIN l = 1 .. mid
      /\ \A j \in 1 .. mid : l[j] = s[j]
  <2>1. \A j \in 1 .. mid : s[j] \in X
    BY <1>1, <1>3, <1>4
  <2>2. /\ l \in Seq(X) /\ Len(l) = (IF 1 <= mid THEN mid - 1 + 1 ELSE 0)
        /\ \A j \in 1 .. mid - 1 + 1 : l[j] = s[1 + j - 1]
    BY <1>1, <2>1, SubSeqProperties
  <2> HIDE DEF l
  <2>3. Len(l) = mid /\ \A j \in 1 .. mid : l[j] = s[j]
    BY <1>1, <1>3, <2>2
  <2> QED BY <2>2, <2>3
<1>6. /\ r \in Seq(X) /\ Len(r) = n - mid /\ DOMAIN r = 1 .. n - mid
      /\ \A j \in 1 .. n - mid : r[j] = s[mid + j]
  <2> DEFINE k == mid + 1
  <2>0. k \in Int /\ r = SubSeq(s, k, n) /\ k <= n
    BY <1>1, <1>3
  <2>1. \A j \in k .. n : s[j] \in X
    BY <1>1, <1>3, <1>4
  <2> HIDE DEF r, k
  <2>2. /\ r \in Seq(X) /\ Len(r) = (IF k <= n THEN n - k + 1 ELSE 0)
        /\ \A j \in 1 .. n - k + 1 : r[j] = s[k + j - 1]
    BY <1>1, <2>0, <2>1, SubSeqProperties
  <2>3. Len(r) = n - mid /\ n - k + 1 = n - mid /\ \A j \in 1 .. n - mid : k + j - 1 = mid + j
    BY <1>1, <1>3, <2>0, <2>2 DEF k
  <2> QED BY <2>2, <2>3
<1> HIDE DEF l, r
<1>7. ToSet(s) = ToSet(l) \cup ToSet(r)
  <2>1. \A j \in 1 .. n : j \in 1 .. mid \/ (j - mid \in 1 .. n - mid /\ mid + (j - mid) = j)
    BY <1>1
  <2>2. \A j \in 1 .. mid : j \in 1 .. n
    BY <1>1, <1>3
  <2>3. \A j \in 1 .. n - mid : mid + j \in 1 .. n
    BY <1>1, <1>3
  <2>4. ToSet(s) = {s[j] : j \in 1 .. n} /\ ToSet(l) = {l[j] : j \in 1 .. mid}
        /\ ToSet(r) = {r[j] : j \in 1 .. n - mid}
    BY <1>1, <1>5, <1>6 DEF ToSet
  <2>5. ToSet(s) \subseteq ToSet(l) \cup ToSet(r)
    BY <1>5, <1>6, <2>1, <2>4
  <2>6. ToSet(l) \subseteq ToSet(s) /\ ToSet(r) \subseteq ToSet(s)
    BY <1>5, <1>6, <2>2, <2>3, <2>4
  <2> QED BY <2>5, <2>6
<1>8. \A b \in Int : n <= 2 * b => mid <= b /\ n - mid <= b
  BY <1>1
<1>9. Parted(s, l, r)
  <2> SUFFICES ASSUME Once(s) PROVE Once(l) /\ Once(r) /\ ToSet(l) \cap ToSet(r) = {}
    BY DEF Parted
  <2>1. \A p, q \in 1 .. n : s[p] = s[q] => p = q
    BY DEF Once, n
  <2>2. Once(l)
    <3>1. \A p \in 1 .. mid : p \in 1 .. n
      BY <1>1, <1>3
    <3> QED BY <1>5, <2>1, <3>1 DEF Once
  <2>3. Once(r)
    <3>1. \A p, q \in 1 .. n - mid : mid + p \in 1 .. n /\ (mid + p = mid + q => p = q)
      BY <1>1, <1>3
    <3> QED BY <1>6, <2>1, <3>1 DEF Once
  <2>4. \A p \in 1 .. mid, q \in 1 .. n - mid : l[p] # r[q]
    <3>1. \A p \in 1 .. mid, q \in 1 .. n - mid : p \in 1 .. n /\ mid + q \in 1 .. n /\ p # mid + q
      BY <1>1, <1>3
    <3> QED BY <1>5, <1>6, <2>1, <3>1
  <2>5. ToSet(l) = {l[p] : p \in 1 .. mid} /\ ToSet(r) = {r[q] : q \in 1 .. n - mid}
    BY <1>5, <1>6 DEF ToSet
  <2> QED BY <2>2, <2>3, <2>4, <2>5
<1> QED BY <1>1, <1>2, <1>3, <1>5, <1>6, <1>7, <1>8, <1>9 DEF n

\* What a node's members are split into.
LEMMA SplitIs ==
  ASSUME NEW d, Ascribed(d), NEW ids \in Seq(1 .. Count(d)), Len(ids) > LeafSize,
         NEW h, h = Split(d, ids)
  PROVE  /\ h[1] \in Seq(1 .. Count(d)) /\ h[2] \in Seq(1 .. Count(d))
         /\ Len(h[1]) \in 1 .. Len(ids) - 1 /\ Len(h[2]) \in 1 .. Len(ids) - 1
         /\ ToSet(ids) = ToSet(h[1]) \cup ToSet(h[2]) /\ Parted(ids, h[1], h[2])
         /\ \A b \in Int : Len(ids) <= 2 * b => Len(h[1]) <= b /\ Len(h[2]) <= b
<1>1. Len(ids) \in Nat /\ Len(ids) >= 2 /\ ids[1] \in ToSet(ids) /\ ToSet(ids) \in SUBSET (1 .. Count(d))
  <2>1. Len(ids) \in Nat /\ ToSet(ids) = {ids[j] : j \in 1 .. Len(ids)} /\ ToSet(ids) \in SUBSET (1 .. Count(d))
    BY SeqFacts
  <2>2. Len(ids) >= 2
    BY <2>1, KdSearchAssumption
  <2>3. 1 \in 1 .. Len(ids)
    BY <2>1, <2>2
  <2> QED BY <2>1, <2>2, <2>3
<1>2. PICK box : box = BoxOf(d, ToSet(ids))
  OBVIOUS
<1>3. \A a \in Axes : box.lo[a] \in Int /\ box.hi[a] \in Int
  BY <1>1, <1>2, BoxAround
<1>4. PICK a \in Axes : a = WidestDim(box)
  BY <1>3, WidestIs
<1>5. PICK s : s = SortedOn(d, ids, a)
  OBVIOUS
<1>6. /\ s \in Seq(1 .. Count(d)) /\ Len(s) = Len(ids) /\ ToSet(s) = ToSet(ids)
      /\ Once(ids) => Once(s)
  BY <1>5, SortedIs
<1>7. h = Halves(s)
  BY <1>2, <1>4, <1>5 DEF Split
<1>8. PICK X : X = 1 .. Count(d)
  OBVIOUS
<1>9. /\ h[1] \in Seq(X) /\ h[2] \in Seq(X)
      /\ Len(h[1]) \in 1 .. Len(s) - 1 /\ Len(h[2]) \in 1 .. Len(s) - 1
      /\ ToSet(s) = ToSet(h[1]) \cup ToSet(h[2]) /\ Parted(s, h[1], h[2])
      /\ \A b \in Int : Len(s) <= 2 * b => Len(h[1]) <= b /\ Len(h[2]) <= b
  <2>1. s \in Seq(X) /\ Len(s) >= 2
    BY <1>1, <1>6, <1>8
  <2> QED BY <1>7, <2>1, HalvesAre
<1>10. Parted(ids, h[1], h[2])
  BY <1>6, <1>9 DEF Parted
<1> QED BY <1>6, <1>8, <1>9, <1>10

-----------------------------------------------------------------------------
(* buildKDTree makes a tree of every list of members.                      *)

NodesOf(d) ==
  [left : Int, right : Int, start : Nat, len : Nat, box : {BoxOf(d, S) : S \in SUBSET (1 .. Count(d))},
   members : SUBSET (1 .. Count(d)), depth : Nat]
LanesIn(d) == [1 .. Lanes -> 1 .. Count(d) \cup {0}]
Trees(d) == [nodes : Seq(NodesOf(d)), data : Seq(LanesIn(d))]

LeafTree(d, c) == [nodes |-> <<Node(d, c, -1, -1, c.blocks)>>, data |-> LeafBlocks(c.members)]
LeftCall(d, c) == Call(Split(d, c.members)[1], c.nodes + 1, c.blocks, c.depth + 1)
RightCall(d, c, l) ==
  Call(Split(d, c.members)[2], c.nodes + 1 + Len(l.nodes), c.blocks + Len(l.data), c.depth + 1)
InnerTree(d, c, l, r) ==
  [nodes |-> <<Node(d, c, c.nodes + 1, c.nodes + 1 + Len(l.nodes), 0)>> \o l.nodes \o r.nodes,
   data  |-> l.data \o r.data]

\* What buildKDTree returns for the call c, with g for the calls it makes.
Planted(g, d, c) ==
  IF Len(c.members) <= LeafSize THEN LeafTree(d, c)
  ELSE InnerTree(d, c, g[LeftCall(d, c)], g[RightCall(d, c, g[LeftCall(d, c)])])

Planting(g, d) == g = [c \in Calls(d) |-> Planted(g, d, c)]

LEMMA TreeIs ==
  ASSUME NEW d
  PROVE  Tree(d) = CHOOSE g : Planting(g, d)
BY DEF Tree, Planting, Planted, LeafTree, LeftCall, RightCall, InnerTree

LEMMA CallFacts ==
  ASSUME NEW d, NEW c \in Calls(d)
  PROVE  /\ c.members \in Seq(1 .. Count(d)) /\ c.nodes \in Nat /\ c.blocks \in Nat /\ c.depth \in Nat
         /\ Len(c.members) \in Nat
BY DEF Calls

LEMMA CallIs ==
  ASSUME NEW d, NEW m \in Seq(1 .. Count(d)), NEW n \in Nat, NEW b \in Nat, NEW h \in Nat,
         NEW c, c = Call(m, n, b, h)
  PROVE  c \in Calls(d) /\ c.members = m /\ c.nodes = n /\ c.blocks = b /\ c.depth = h
BY DEF Call, Calls

LEMMA NodeTyped ==
  ASSUME NEW d, NEW c \in Calls(d), NEW l \in Int, NEW r \in Int, NEW b \in Nat,
         NEW n, n = Node(d, c, l, r, b)
  PROVE  /\ n \in NodesOf(d)
         /\ n.left = l /\ n.right = r /\ n.start = b /\ (l < 0 => n.len = Len(c.members))
         /\ n.members = ToSet(c.members) /\ n.depth = c.depth /\ n.box = BoxOf(d, n.members)
<1>1. /\ c.members \in Seq(1 .. Count(d)) /\ c.depth \in Nat /\ Len(c.members) \in Nat
  BY CallFacts
<1>2. ToSet(c.members) \in SUBSET (1 .. Count(d))
  BY <1>1, SeqFacts
<1>3. BoxOf(d, ToSet(c.members)) \in {BoxOf(d, S) : S \in SUBSET (1 .. Count(d))}
  BY <1>2
<1>4. (IF l < 0 THEN Len(c.members) ELSE 0) \in Nat
  BY <1>1
<1>5. n = [left |-> l, right |-> r, start |-> b, len |-> IF l < 0 THEN Len(c.members) ELSE 0,
           box |-> BoxOf(d, ToSet(c.members)), members |-> ToSet(c.members), depth |-> c.depth]
  BY DEF Node
<1> QED BY <1>1, <1>2, <1>3, <1>4, <1>5 DEF NodesOf

\* No vector has two lanes in the blocks bs.
LanesApart(bs) ==
  \A b, c \in 1 .. Len(bs), k, l \in 1 .. Lanes :
    bs[b][k] = bs[c][l] /\ bs[b][k] # 0 => b = c /\ k = l

\* The blocks of a leaf hold its members, each one once, and the padding.
LEMMA LeafBlocksAre ==
  ASSUME NEW d, Ascribed(d), NEW m \in Seq(1 .. Count(d)), NEW bs, bs = LeafBlocks(m)
  PROVE  /\ bs \in Seq(LanesIn(d)) /\ Len(bs) = BlocksFor(Len(m)) /\ Len(bs) \in Nat
         /\ \A b \in 1 .. Len(bs), l \in 1 .. Lanes : bs[b][l] \in {0} \cup ToSet(m)
         /\ \A i \in ToSet(m) : \E b \in 1 .. Len(bs), l \in 1 .. Lanes : bs[b][l] = i
         /\ Once(m) => LanesApart(bs)
<1>1. PICK n : n = Len(m)
  OBVIOUS
<1>2. n \in Nat /\ m \in [1 .. n -> 1 .. Count(d)] /\ ToSet(m) = {m[j] : j \in 1 .. n}
  BY <1>1, SeqFacts
<1>3. PICK k : k = BlocksFor(n)
  OBVIOUS
<1>4. AreBlocks(bs, m, k)
  BY <1>1, <1>3 DEF LeafBlocks, AreBlocks
<1>5. Lanes \in Nat \ {0}
  BY KdSearchAssumption
<1>9. PICK S : S = ToSet(m) /\ S \in SUBSET (1 .. Count(d)) /\ m \in [1 .. n -> S]
  <2>1. ToSet(m) \in SUBSET (1 .. Count(d)) /\ \A j \in 1 .. n : m[j] \in ToSet(m)
    BY <1>2
  <2> QED BY <1>2, <2>1
<1>6. /\ k \in Nat /\ bs \in [1 .. k -> [1 .. Lanes -> 1 .. Count(d) \cup {0}]]
      /\ bs \in [1 .. k -> [1 .. Lanes -> S \cup {0}]]
      /\ \A p \in 1 .. n : \E b \in 1 .. k, l \in 1 .. Lanes : bs[b][l] = m[p]
  <2>3. /\ k \in Nat /\ bs \in [1 .. k -> [1 .. Lanes -> S \cup {0}]]
        /\ \A p \in 1 .. n : \E b \in 1 .. k, l \in 1 .. Lanes : bs[b][l] = m[p]
    <3>1. Listed(m, n, S)
      BY <1>2, <1>9 DEF Listed
    <3> QED BY <3>1, <1>3, <1>4, <1>5, BlocksFilled
  <2>4. [1 .. Lanes -> S \cup {0}] \subseteq [1 .. Lanes -> 1 .. Count(d) \cup {0}]
    BY <1>9
  <2> QED BY <2>3, <2>4
<1>7. bs \in Seq(LanesIn(d)) /\ Len(bs) = k
  BY <1>6, FunSeq DEF LanesIn
<1>8. \A i \in ToSet(m) : \E b \in 1 .. k, l \in 1 .. Lanes : bs[b][l] = i
  BY <1>2, <1>6
<1>10. ASSUME NEW b \in 1 .. k, NEW l \in 1 .. Lanes PROVE bs[b][l] \in {0} \cup ToSet(m)
  <2>1. bs[b] \in [1 .. Lanes -> S \cup {0}]
    BY <1>6
  <2> QED BY <1>9, <2>1
<1>11. ASSUME Once(m) PROVE LanesApart(bs)
  <2>1. Numbered(m, n, S)
    BY <1>1, <1>2, <1>9, <1>11 DEF Numbered, Once
  <2>2. 0 \notin S
    BY <1>9 DEF Ascribed
  <2>3. \A b, c \in 1 .. k : \A e, l \in 1 .. Lanes :
          bs[b][e] = bs[c][l] /\ bs[b][e] # 0 => b = c /\ e = l
    BY <1>3, <1>4, <1>5, <2>1, <2>2, BlockFacts
  <2> QED BY <1>7, <2>3 DEF LanesApart
<1> QED BY <1>1, <1>3, <1>6, <1>7, <1>8, <1>10, <1>11

LEMMA LeafTyped ==
  ASSUME NEW d, Ascribed(d), NEW c \in Calls(d)
  PROVE  LeafTree(d, c) \in Trees(d)
<1>1. c.members \in Seq(1 .. Count(d)) /\ c.blocks \in Nat
  BY CallFacts
<1>2. PICK n : n = Node(d, c, -1, -1, c.blocks)
  OBVIOUS
<1>3. n \in NodesOf(d)
  BY <1>1, <1>2, NodeTyped
<1>4. PICK bs : bs = LeafBlocks(c.members)
  OBVIOUS
<1>5. bs \in Seq(LanesIn(d))
  BY <1>1, <1>4, LeafBlocksAre
<1>6. <<n>> \in Seq(NodesOf(d))
  BY <1>3
<1>7. LeafTree(d, c) = [nodes |-> <<n>>, data |-> bs]
  BY <1>2, <1>4 DEF LeafTree
<1> QED BY <1>5, <1>6, <1>7 DEF Trees

LEMMA TreeFacts ==
  ASSUME NEW d, NEW t \in Trees(d)
  PROVE  t.nodes \in Seq(NodesOf(d)) /\ t.data \in Seq(LanesIn(d)) /\ Len(t.nodes) \in Nat /\ Len(t.data) \in Nat
BY DEF Trees

\* The calls for the halves are calls for fewer members.
LEMMA CallsLeft ==
  ASSUME NEW d, Ascribed(d), NEW c \in Calls(d), Len(c.members) > LeafSize, NEW k, k = LeftCall(d, c)
  PROVE  /\ k \in Calls(d) /\ k.members = Split(d, c.members)[1]
         /\ k.nodes = c.nodes + 1 /\ k.blocks = c.blocks /\ k.depth = c.depth + 1
         /\ Len(k.members) \in 1 .. Len(c.members) - 1
<1>1. c.members \in Seq(1 .. Count(d)) /\ c.nodes \in Nat /\ c.blocks \in Nat /\ c.depth \in Nat
  BY CallFacts
<1>2. PICK h : h = Split(d, c.members)
  OBVIOUS
<1>3. h[1] \in Seq(1 .. Count(d)) /\ Len(h[1]) \in 1 .. Len(c.members) - 1
  BY <1>1, <1>2, SplitIs
<1>4. c.nodes + 1 \in Nat /\ c.depth + 1 \in Nat
  BY <1>1
<1>5. PICK m, n, b, e : m = h[1] /\ n = c.nodes + 1 /\ b = c.blocks /\ e = c.depth + 1
  OBVIOUS
<1>6. k = Call(m, n, b, e)
  BY <1>2, <1>5 DEF LeftCall
<1>7. m \in Seq(1 .. Count(d)) /\ n \in Nat /\ b \in Nat /\ e \in Nat
  BY <1>1, <1>3, <1>4, <1>5
<1>8. k \in Calls(d) /\ k.members = m /\ k.nodes = n /\ k.blocks = b /\ k.depth = e
  BY <1>6, <1>7, CallIs
<1> QED BY <1>2, <1>3, <1>5, <1>8

LEMMA CallsRight ==
  ASSUME NEW d, Ascribed(d), NEW c \in Calls(d), Len(c.members) > LeafSize, NEW l \in Trees(d),
         NEW k, k = RightCall(d, c, l)
  PROVE  /\ k \in Calls(d) /\ k.members = Split(d, c.members)[2]
         /\ k.nodes = c.nodes + 1 + Len(l.nodes) /\ k.blocks = c.blocks + Len(l.data)
         /\ k.depth = c.depth + 1
         /\ Len(k.members) \in 1 .. Len(c.members) - 1
<1>1. c.members \in Seq(1 .. Count(d)) /\ c.nodes \in Nat /\ c.blocks \in Nat /\ c.depth \in Nat
  BY CallFacts
<1>2. PICK h : h = Split(d, c.members)
  OBVIOUS
<1>3. h[2] \in Seq(1 .. Count(d)) /\ Len(h[2]) \in 1 .. Len(c.members) - 1
  BY <1>1, <1>2, SplitIs
<1>4. c.nodes + 1 + Len(l.nodes) \in Nat /\ c.blocks + Len(l.data) \in Nat /\ c.depth + 1 \in Nat
  <2>1. Len(l.nodes) \in Nat /\ Len(l.data) \in Nat
    BY TreeFacts
  <2>2. \A x, y, z, u, v \in Nat : x + 1 + u \in Nat /\ y + v \in Nat /\ z + 1 \in Nat
    OBVIOUS
  <2> QED BY <1>1, <2>1, <2>2
<1>5. PICK m, n, b, e : /\ m = h[2] /\ n = c.nodes + 1 + Len(l.nodes) /\ b = c.blocks + Len(l.data)
                        /\ e = c.depth + 1
  OBVIOUS
<1>6. k = Call(m, n, b, e)
  BY <1>2, <1>5 DEF RightCall
<1>7. m \in Seq(1 .. Count(d)) /\ n \in Nat /\ b \in Nat /\ e \in Nat
  BY <1>1, <1>3, <1>4, <1>5
<1>8. k \in Calls(d) /\ k.members = m /\ k.nodes = n /\ k.blocks = b /\ k.depth = e
  BY <1>6, <1>7, CallIs
<1> QED BY <1>2, <1>3, <1>5, <1>8

\* The tree of an inner node: the node, the left tree and the right one.
IsInner(t, d, c, l, r) ==
  /\ Len(t.nodes) = 1 + Len(l.nodes) + Len(r.nodes) /\ Len(t.data) = Len(l.data) + Len(r.data)
  /\ t.nodes[1] = Node(d, c, c.nodes + 1, c.nodes + 1 + Len(l.nodes), 0)
  /\ \A j \in 1 .. Len(l.nodes) : t.nodes[1 + j] = l.nodes[j]
  /\ \A j \in 1 .. Len(r.nodes) : t.nodes[1 + Len(l.nodes) + j] = r.nodes[j]
  /\ \A j \in 1 .. Len(l.data) : t.data[j] = l.data[j]
  /\ \A j \in 1 .. Len(r.data) : t.data[Len(l.data) + j] = r.data[j]

LEMMA InnerTreeIs ==
  ASSUME NEW d, Ascribed(d), NEW c \in Calls(d), NEW l \in Trees(d), NEW r \in Trees(d),
         NEW t, t = InnerTree(d, c, l, r)
  PROVE  t \in Trees(d) /\ IsInner(t, d, c, l, r)
<1>0. PICK X, Y, ln, rn, ld, rd :
        X = NodesOf(d) /\ Y = LanesIn(d) /\ ln = l.nodes /\ rn = r.nodes /\ ld = l.data /\ rd = r.data
  OBVIOUS
<1>1. /\ ln \in Seq(X) /\ rn \in Seq(X) /\ ld \in Seq(Y) /\ rd \in Seq(Y)
      /\ Len(ln) \in Nat /\ Len(rn) \in Nat
  BY <1>0, TreeFacts
<1>2. PICK n : n = Node(d, c, c.nodes + 1, c.nodes + 1 + Len(ln), 0)
  OBVIOUS
<1>3. n \in X
  <2>1. c.nodes \in Nat
    BY CallFacts
  <2>2. c.nodes + 1 \in Int /\ c.nodes + 1 + Len(ln) \in Int /\ 0 \in Nat
    BY <1>1, <2>1
  <2> QED BY <1>0, <1>2, <2>2, NodeTyped
<1>4. PICK s, u, v, w : s = <<n>> /\ u = s \o ln /\ v = u \o rn /\ w = ld \o rd
  OBVIOUS
<1>7. s \in Seq(X) /\ Len(s) = 1 /\ s[1] = n
  BY <1>3, <1>4
<1>8. /\ u \in Seq(X) /\ Len(u) = Len(s) + Len(ln)
      /\ \A x \in 1 .. Len(s) : u[x] = s[x]
      /\ \A b \in 1 .. Len(ln) : u[Len(s) + b] = ln[b]
  BY <1>1, <1>4, <1>7, ConcatFacts
<1>9. Len(u) = 1 + Len(ln) /\ u[1] = n /\ \A b \in 1 .. Len(ln) : u[1 + b] = ln[b]
  BY <1>7, <1>8
<1>10. /\ v \in Seq(X) /\ Len(v) = Len(u) + Len(rn)
       /\ \A x \in 1 .. Len(u) : v[x] = u[x]
       /\ \A b \in 1 .. Len(rn) : v[Len(u) + b] = rn[b]
  BY <1>1, <1>4, <1>8, ConcatFacts
<1>11. /\ Len(v) = 1 + Len(ln) + Len(rn) /\ v[1] = n
       /\ \A j \in 1 .. Len(ln) : v[1 + j] = ln[j]
       /\ \A j \in 1 .. Len(rn) : v[1 + Len(ln) + j] = rn[j]
  <2>1. 1 \in 1 .. Len(u) /\ \A j \in 1 .. Len(ln) : 1 + j \in 1 .. Len(u)
    BY <1>1, <1>9
  <2> QED BY <1>9, <1>10, <2>1
<1>12. /\ w \in Seq(Y) /\ Len(w) = Len(ld) + Len(rd)
       /\ \A j \in 1 .. Len(ld) : w[j] = ld[j]
       /\ \A j \in 1 .. Len(rd) : w[Len(ld) + j] = rd[j]
  BY <1>1, <1>4, ConcatFacts
<1>13. t = [nodes |-> v, data |-> w]
  BY <1>0, <1>2, <1>4 DEF InnerTree
<1> QED BY <1>0, <1>2, <1>10, <1>11, <1>12, <1>13 DEF Trees, IsInner

Fewer(k, c) == Len(k.members) < Len(c.members)

\* A call makes only calls for fewer members ...
LEMMA PlantedTyped ==
  ASSUME NEW d, Ascribed(d), NEW g, NEW c \in Calls(d),
         \A k \in Calls(d) : Fewer(k, c) => g[k] \in Trees(d)
  PROVE  Planted(g, d, c) \in Trees(d)
<1>1. CASE Len(c.members) <= LeafSize
  BY <1>1, LeafTyped DEF Planted
<1>2. CASE ~(Len(c.members) <= LeafSize)
  <2>1. Len(c.members) > LeafSize /\ Len(c.members) \in Nat
    BY <1>2, CallFacts, KdSearchAssumption
  <2>2. PICK k, l : k = LeftCall(d, c) /\ l = g[k]
    OBVIOUS
  <2>3. k \in Calls(d) /\ Len(k.members) \in 1 .. Len(c.members) - 1
    BY <2>1, <2>2, CallsLeft
  <2>4. l \in Trees(d)
    BY <2>1, <2>2, <2>3 DEF Fewer
  <2>5. PICK j, r : j = RightCall(d, c, l) /\ r = g[j]
    OBVIOUS
  <2>6. j \in Calls(d) /\ Len(j.members) \in 1 .. Len(c.members) - 1
    BY <2>1, <2>4, <2>5, CallsRight
  <2>7. r \in Trees(d)
    BY <2>1, <2>5, <2>6 DEF Fewer
  <2>8. Planted(g, d, c) = InnerTree(d, c, l, r)
    BY <1>2, <2>2, <2>5 DEF Planted
  <2> QED BY <2>4, <2>7, <2>8, InnerTreeIs
<1> QED BY <1>1, <1>2

\* ... and depends on nothing else.
LEMMA PlantedSame ==
  ASSUME NEW d, Ascribed(d), NEW g, NEW h, NEW c \in Calls(d),
         \A k \in Calls(d) : Fewer(k, c) => g[k] \in Trees(d) /\ g[k] = h[k]
  PROVE  Planted(g, d, c) = Planted(h, d, c)
<1>1. CASE Len(c.members) <= LeafSize
  BY <1>1 DEF Planted
<1>2. CASE ~(Len(c.members) <= LeafSize)
  <2>1. Len(c.members) > LeafSize /\ Len(c.members) \in Nat
    BY <1>2, CallFacts, KdSearchAssumption
  <2>2. PICK k, l : k = LeftCall(d, c) /\ l = g[k]
    OBVIOUS
  <2>3. k \in Calls(d) /\ Len(k.members) \in 1 .. Len(c.members) - 1
    BY <2>1, <2>2, CallsLeft
  <2>4. l \in Trees(d) /\ l = h[k]
    BY <2>1, <2>2, <2>3 DEF Fewer
  <2>5. PICK j : j = RightCall(d, c, l)
    OBVIOUS
  <2>6. j \in Calls(d) /\ Len(j.members) \in 1 .. Len(c.members) - 1
    BY <2>1, <2>4, <2>5, CallsRight
  <2>7. g[j] = h[j]
    BY <2>1, <2>6 DEF Fewer
  <2>8. Planted(g, d, c) = InnerTree(d, c, g[k], g[RightCall(d, c, g[k])])
    BY <1>2, <2>2 DEF Planted
  <2>9. Planted(h, d, c) = InnerTree(d, c, h[k], h[RightCall(d, c, h[k])])
    BY <1>2, <2>2 DEF Planted
  <2>10. g[k] = l /\ h[k] = l
    BY <2>2, <2>4
  <2> QED BY <2>5, <2>7, <2>8, <2>9, <2>10
<1> QED BY <1>1, <1>2

\* g is what buildKDTree returns, for up to n members.
Upto(g, d, n) == \A c \in Calls(d) : Len(c.members) <= n => g[c] = Planted(g, d, c)

LEMMA OneMore ==
  ASSUME NEW d, Ascribed(d), NEW n \in Nat, NEW g \in [Calls(d) -> Trees(d)],
         n = 0 \/ Upto(g, d, n - 1), NEW h, h = [c \in Calls(d) |-> Planted(g, d, c)]
  PROVE  h \in [Calls(d) -> Trees(d)] /\ Upto(h, d, n)
<1>1. h \in [Calls(d) -> Trees(d)]
  <2>1. \A c \in Calls(d) : Planted(g, d, c) \in Trees(d)
    BY PlantedTyped
  <2> QED BY <2>1
<1>2. ASSUME NEW c \in Calls(d), Len(c.members) <= n PROVE h[c] = Planted(h, d, c)
  <2>1. ASSUME NEW k \in Calls(d), Fewer(k, c) PROVE g[k] \in Trees(d) /\ g[k] = h[k]
    <3>1. Len(k.members) \in Nat /\ Len(c.members) \in Nat /\ Len(k.members) < Len(c.members)
      BY <2>1, CallFacts DEF Fewer
    <3>2. n # 0 /\ Len(k.members) <= n - 1
      BY <1>2, <3>1
    <3>3. g[k] = Planted(g, d, k)
      BY <3>2 DEF Upto
    <3> QED BY <3>3
  <2>2. Planted(g, d, c) = Planted(h, d, c)
    BY <2>1, PlantedSame
  <2> QED BY <2>2
<1> QED BY <1>1, <1>2 DEF Upto

LEMMA UptoAgree ==
  ASSUME NEW d, Ascribed(d), NEW n \in Nat, NEW g \in [Calls(d) -> Trees(d)], NEW h \in [Calls(d) -> Trees(d)],
         Upto(g, d, n), Upto(h, d, n)
  PROVE  \A c \in Calls(d) : Len(c.members) <= n => g[c] = h[c]
<1> DEFINE T == {j \in Nat : \A c \in Calls(d) : Len(c.members) < j /\ j <= n + 1 => g[c] = h[c]}
<1>0. \A c \in Calls(d) : Len(c.members) \in Nat
  BY CallFacts
<1>1. 0 \in T
  BY <1>0
<1>2. ASSUME NEW j \in Nat, j \in T PROVE j + 1 \in T
  <2> SUFFICES ASSUME NEW c \in Calls(d), Len(c.members) < j + 1, j + 1 <= n + 1 PROVE g[c] = h[c]
    OBVIOUS
  <2>1. Len(c.members) <= n /\ Len(c.members) <= j /\ j <= n + 1
    BY <1>0
  <2>2. \A k \in Calls(d) : Fewer(k, c) => g[k] \in Trees(d) /\ g[k] = h[k]
    <3> SUFFICES ASSUME NEW k \in Calls(d), Fewer(k, c) PROVE g[k] = h[k]
      OBVIOUS
    <3>1. Len(k.members) < j
      BY <1>0, <2>1 DEF Fewer
    <3> QED BY <1>2, <2>1, <3>1
  <2>3. Planted(g, d, c) = Planted(h, d, c)
    BY <2>2, PlantedSame
  <2> QED BY <2>1, <2>3 DEF Upto
<1> HIDE DEF T
<1>3. n + 1 \in T
  BY <1>1, <1>2, Induction
<1> QED BY <1>0, <1>3 DEF T

\* So there is such a function of all the calls.
LEMMA TreesExist ==
  ASSUME NEW d, Ascribed(d)
  PROVE  \E g \in [Calls(d) -> Trees(d)] : Planting(g, d)
<1> DEFINE Fs == [Calls(d) -> Trees(d)]
           T == {n \in Nat : \E g \in Fs : Upto(g, d, n)}
<1>0. \A c \in Calls(d) : Len(c.members) \in Nat
  BY CallFacts
<1>1. 0 \in T
  <2>1. PICK z : z = [c \in Calls(d) |-> LeafTree(d, c)]
    OBVIOUS
  <2>2. z \in Fs
    BY <2>1, LeafTyped
  <2>3. PICK h : h = [c \in Calls(d) |-> Planted(z, d, c)]
    OBVIOUS
  <2>4. h \in Fs /\ Upto(h, d, 0)
    BY <2>2, <2>3, OneMore
  <2> QED BY <2>4
<1>2. ASSUME NEW n \in Nat, n \in T PROVE n + 1 \in T
  <2>1. PICK g \in Fs : Upto(g, d, n)
    BY <1>2
  <2>2. PICK h, m : h = [c \in Calls(d) |-> Planted(g, d, c)] /\ m = n + 1
    OBVIOUS
  <2>3. m \in Nat /\ m - 1 = n
    BY <2>2
  <2>4. h \in Fs /\ Upto(h, d, m)
    BY <2>1, <2>2, <2>3, OneMore
  <2> QED BY <2>2, <2>4
<1> HIDE DEF Fs, T
<1>3. \A n \in Nat : n \in T
  BY <1>1, <1>2, Induction
<1> DEFINE G == [n \in Nat |-> CHOOSE g \in Fs : Upto(g, d, n)]
<1>4. \A n \in Nat : G[n] \in Fs /\ Upto(G[n], d, n)
  <2> TAKE n \in Nat
  <2>1. \E g \in Fs : Upto(g, d, n)
    BY <1>3 DEF T
  <2>2. G[n] = CHOOSE g \in Fs : Upto(g, d, n)
    OBVIOUS
  <2> HIDE DEF G
  <2> QED BY <2>1, <2>2
<1> HIDE DEF G
<1>5. PICK f : f = [c \in Calls(d) |-> G[Len(c.members)][c]]
  OBVIOUS
<1>6. f \in Fs
  <2>1. \A c \in Calls(d) : G[Len(c.members)][c] \in Trees(d)
    BY <1>0, <1>4 DEF Fs
  <2> QED BY <1>5, <2>1 DEF Fs
<1>7. ASSUME NEW c \in Calls(d) PROVE f[c] = Planted(f, d, c)
  <2>1. PICK s, g : s = Len(c.members) /\ g = G[s]
    OBVIOUS
  <2>2. s \in Nat /\ g \in [Calls(d) -> Trees(d)] /\ Upto(g, d, s)
    BY <1>0, <1>4, <2>1 DEF Fs
  <2>3. f[c] = Planted(g, d, c)
    BY <1>5, <2>1, <2>2 DEF Upto
  <2>4. ASSUME NEW k \in Calls(d), Fewer(k, c) PROVE g[k] \in Trees(d) /\ g[k] = f[k]
    <3>1. PICK t, h : t = Len(k.members) /\ h = G[t]
      OBVIOUS
    <3>2. t \in Nat /\ t < s /\ h \in [Calls(d) -> Trees(d)] /\ Upto(h, d, t)
      BY <1>0, <1>4, <2>1, <2>4, <3>1 DEF Fs, Fewer
    <3>3. Upto(g, d, t)
      BY <1>0, <2>2, <3>2 DEF Upto
    <3>4. g[k] = h[k]
      BY <2>2, <3>1, <3>2, <3>3, UptoAgree
    <3> QED BY <1>5, <2>2, <3>1, <3>4
  <2>5. Planted(g, d, c) = Planted(f, d, c)
    BY <2>4, PlantedSame
  <2> QED BY <2>3, <2>5
<1>8. Planting(f, d)
  <2>1. f = [c \in Calls(d) |-> f[c]]
    BY <1>5
  <2> QED BY <1>7, <2>1 DEF Planting
<1> QED BY <1>6, <1>8 DEF Fs

\* What buildKDTree returns is a tree, made of those of its own calls.
LEMMA TreeGrown ==
  ASSUME NEW d, Ascribed(d), NEW g, g = Tree(d)
  PROVE  g \in [Calls(d) -> Trees(d)] /\ \A c \in Calls(d) : g[c] = Planted(g, d, c)
<1>1. Planting(g, d)
  <2>1. \E h : Planting(h, d)
    BY TreesExist
  <2>2. g = CHOOSE h : Planting(h, d)
    BY TreeIs
  <2> QED BY <2>1, <2>2
<1>2. \A c \in Calls(d) : g[c] = Planted(g, d, c)
  BY <1>1 DEF Planting
<1> DEFINE T == {j \in Nat : \A c \in Calls(d) : Len(c.members) < j => g[c] \in Trees(d)}
<1>0. \A c \in Calls(d) : Len(c.members) \in Nat
  BY CallFacts
<1>3. 0 \in T
  BY <1>0
<1>4. ASSUME NEW j \in Nat, j \in T PROVE j + 1 \in T
  <2> SUFFICES ASSUME NEW c \in Calls(d), Len(c.members) < j + 1 PROVE g[c] \in Trees(d)
    OBVIOUS
  <2>1. \A k \in Calls(d) : Fewer(k, c) => g[k] \in Trees(d)
    <3> SUFFICES ASSUME NEW k \in Calls(d), Fewer(k, c) PROVE g[k] \in Trees(d)
      OBVIOUS
    <3>1. Len(k.members) < j
      BY <1>0 DEF Fewer
    <3> QED BY <1>4, <3>1
  <2> QED BY <1>2, <2>1, PlantedTyped
<1> HIDE DEF T
<1>5. \A j \in Nat : j \in T
  BY <1>3, <1>4, Induction
<1>6. \A c \in Calls(d) : g[c] \in Trees(d)
  <2> TAKE c \in Calls(d)
  <2>1. Len(c.members) + 1 \in T /\ Len(c.members) < Len(c.members) + 1
    BY <1>0, <1>5
  <2> QED BY <2>1 DEF T
<1> QED BY <1>1, <1>2, <1>6 DEF Planting

\* A level more has room for twice the members.
HoldsLike(f) == f = [h \in Nat |-> IF h = 0 THEN LeafSize ELSE 2 * f[h - 1]]

LEMMA HoldsIs ==
  /\ Holds[0] = LeafSize
  /\ \A h \in Nat : Holds[h] \in Nat /\ Holds[h + 1] = 2 * Holds[h]
<1>1. Holds = CHOOSE f : HoldsLike(f)
  BY DEF Holds, HoldsLike
<1>2. \E f : HoldsLike(f)
  <2>1. PICK step : step = [n \in Nat |-> 2 * n]
    OBVIOUS
  <2>2. Stepping(Nat, LeafSize, step)
    <3>1. step \in [Nat -> Nat] /\ LeafSize \in Nat
      BY <2>1, KdSearchAssumption
    <3> QED BY <3>1 DEF Stepping
  <2>3. PICK f \in [Nat -> Nat] : f[0] = LeafSize /\ \A n \in Nat : f[n + 1] = step[f[n]]
    BY <2>2, Recursion
  <2>4. ASSUME NEW h \in Nat PROVE f[h] = IF h = 0 THEN LeafSize ELSE 2 * f[h - 1]
    <3>1. CASE h # 0
      <4>1. h - 1 \in Nat /\ (h - 1) + 1 = h
        BY <3>1
      <4> QED BY <2>1, <2>3, <3>1, <4>1
    <3> QED BY <2>3, <3>1
  <2>5. f = [h \in Nat |-> IF h = 0 THEN LeafSize ELSE 2 * f[h - 1]]
    BY <2>4
  <2> QED BY <2>5 DEF HoldsLike
<1>3. HoldsLike(Holds)
  BY <1>1, <1>2
<1>4. \A h \in Nat : Holds[h] = IF h = 0 THEN LeafSize ELSE 2 * Holds[h - 1]
  BY <1>3 DEF HoldsLike
<1> DEFINE T == {h \in Nat : Holds[h] \in Nat}
<1>5. \A h \in Nat : Holds[h + 1] = 2 * Holds[h]
  <2> TAKE h \in Nat
  <2>1. h + 1 \in Nat /\ h + 1 # 0 /\ (h + 1) - 1 = h
    OBVIOUS
  <2> QED BY <1>4, <2>1
<1>6. Holds[0] = LeafSize /\ LeafSize \in Nat
  BY <1>4, KdSearchAssumption
<1>7. 0 \in T
  BY <1>6
<1>8. ASSUME NEW h \in Nat, h \in T PROVE h + 1 \in T
  BY <1>5, <1>8
<1> HIDE DEF T
<1>9. \A h \in Nat : h \in T
  BY <1>7, <1>8, Induction
<1> QED BY <1>5, <1>6, <1>9 DEF T

-----------------------------------------------------------------------------
(* The nodes and blocks of a tree, where they lie in an index.             *)

LiesAt(ix, t, n, b) ==
  /\ n + Len(t.nodes) <= Len(ix.nodes) /\ \A j \in 1 .. Len(t.nodes) : ix.nodes[n + j] = t.nodes[j]
  /\ b + Len(t.data) <= Len(ix.data) /\ \A j \in 1 .. Len(t.data) : ix.data[b + j] = t.data[j]

\* Node n of ix is what the search takes it for.
NodeSound(d, ix, n) ==
  /\ NodeAt(ix, n).depth \in Nat
  /\ NodeAt(ix, n).members \subseteq 1 .. Count(d) /\ NodeAt(ix, n).members # {}
  /\ NodeAt(ix, n).box = BoxOf(d, NodeAt(ix, n).members)
  /\ IF IsLeaf(NodeAt(ix, n)) THEN LeafOf(ix, n) ELSE InnerOf(ix, n)

\* A call for members that fit on the levels there are, each of them once.
Roomy(c) ==
  /\ Len(c.members) >= 1 /\ c.depth <= StackCap /\ Len(c.members) <= Holds[StackCap - c.depth]
  /\ Once(c.members)

CallSound(g, d, ix, c) ==
  Roomy(c) /\ LiesAt(ix, g[c], c.nodes, c.blocks) =>
    \A n \in c.nodes .. c.nodes + Len(g[c].nodes) - 1 : NodeSound(d, ix, n)

Sized(ix) == Len(ix.nodes) \in Nat /\ Len(ix.data) \in Nat

\* The calls k and j that buildKDTree makes for the halves of c's members.
Halved(g, d, c, k, j) ==
  /\ IsInner(g[c], d, c, g[k], g[j])
  /\ k.nodes = c.nodes + 1 /\ k.blocks = c.blocks /\ k.depth = c.depth + 1
  /\ j.nodes = c.nodes + 1 + Len(g[k].nodes) /\ j.blocks = c.blocks + Len(g[k].data)
  /\ j.depth = c.depth + 1
  /\ Len(k.members) \in 1 .. Len(c.members) - 1 /\ Len(j.members) \in 1 .. Len(c.members) - 1
  /\ ToSet(c.members) = ToSet(k.members) \cup ToSet(j.members)
  /\ Parted(c.members, k.members, j.members)
  /\ \A b \in Int : Len(c.members) <= 2 * b => Len(k.members) <= b /\ Len(j.members) <= b

LEMMA InnerGrown ==
  ASSUME NEW d, Ascribed(d), NEW g, g = Tree(d), NEW c \in Calls(d), Len(c.members) > LeafSize
  PROVE  \E k, j \in Calls(d) : Halved(g, d, c, k, j)
<1>1. g \in [Calls(d) -> Trees(d)] /\ g[c] = Planted(g, d, c)
  BY TreeGrown
<1>2. PICK k, l : k = LeftCall(d, c) /\ l = g[k]
  OBVIOUS
<1>3. /\ k \in Calls(d) /\ k.members = Split(d, c.members)[1]
      /\ k.nodes = c.nodes + 1 /\ k.blocks = c.blocks /\ k.depth = c.depth + 1
      /\ Len(k.members) \in 1 .. Len(c.members) - 1
  BY <1>2, CallsLeft
<1>4. l \in Trees(d)
  BY <1>1, <1>2, <1>3
<1>5. PICK j, r : j = RightCall(d, c, l) /\ r = g[j]
  OBVIOUS
<1>6. /\ j \in Calls(d) /\ j.members = Split(d, c.members)[2]
      /\ j.nodes = c.nodes + 1 + Len(l.nodes) /\ j.blocks = c.blocks + Len(l.data)
      /\ j.depth = c.depth + 1
      /\ Len(j.members) \in 1 .. Len(c.members) - 1
  BY <1>4, <1>5, CallsRight
<1>7. r \in Trees(d)
  BY <1>1, <1>5, <1>6
<1>8. PICK t : t = g[c]
  OBVIOUS
<1>9. t = InnerTree(d, c, l, r)
  <2>1. ~(Len(c.members) <= LeafSize)
    BY CallFacts, KdSearchAssumption
  <2> QED BY <1>1, <1>2, <1>5, <1>8, <2>1 DEF Planted
<1>10. IsInner(t, d, c, l, r)
  BY <1>4, <1>7, <1>9, InnerTreeIs
<1>11. PICK h : h = Split(d, c.members)
  OBVIOUS
<1>12. /\ ToSet(c.members) = ToSet(h[1]) \cup ToSet(h[2]) /\ Parted(c.members, h[1], h[2])
       /\ \A b \in Int : Len(c.members) <= 2 * b => Len(h[1]) <= b /\ Len(h[2]) <= b
  <2>1. c.members \in Seq(1 .. Count(d))
    BY CallFacts
  <2> QED BY <1>11, <2>1, SplitIs
<1>13. h[1] = k.members /\ h[2] = j.members
  BY <1>3, <1>6, <1>11
<1>14. /\ ToSet(c.members) = ToSet(k.members) \cup ToSet(j.members)
       /\ Parted(c.members, k.members, j.members)
       /\ \A b \in Int : Len(c.members) <= 2 * b => Len(k.members) <= b /\ Len(j.members) <= b
  BY <1>12, <1>13
<1>15. IsInner(g[c], d, c, g[k], g[j]) /\ l = g[k]
  BY <1>2, <1>5, <1>8, <1>10
<1>16. Halved(g, d, c, k, j)
  BY <1>3, <1>6, <1>14, <1>15 DEF Halved
<1> QED BY <1>3, <1>6, <1>16

LEMMA LeafGrown ==
  ASSUME NEW d, Ascribed(d), NEW g, g = Tree(d), NEW c \in Calls(d), Len(c.members) <= LeafSize
  PROVE  /\ g[c].nodes = <<Node(d, c, -1, -1, c.blocks)>> /\ g[c].data = LeafBlocks(c.members)
<1>1. g[c] = Planted(g, d, c)
  BY TreeGrown
<1>2. Planted(g, d, c) = LeafTree(d, c)
  BY DEF Planted
<1>3. PICK t : t = LeafTree(d, c)
  OBVIOUS
<1>4. t.nodes = <<Node(d, c, -1, -1, c.blocks)>> /\ t.data = LeafBlocks(c.members)
  BY <1>3 DEF LeafTree
<1> QED BY <1>1, <1>2, <1>3, <1>4

\* The root of a tree of an inner node, in terms of its calls.
InnerRoot(n, d, c, k, j) ==
  /\ n.left = k.nodes /\ n.right = j.nodes
  /\ n.members = ToSet(c.members) /\ n.depth = c.depth /\ n.box = BoxOf(d, n.members)

LEMMA RootOfInner ==
  ASSUME NEW d, Ascribed(d), NEW g, g = Tree(d), NEW c \in Calls(d), NEW k \in Calls(d), NEW j \in Calls(d),
         Halved(g, d, c, k, j), NEW n, n = g[c].nodes[1]
  PROVE  InnerRoot(n, d, c, k, j)
<1>1. PICK t, l, r : t = g[c] /\ l = g[k] /\ r = g[j]
  OBVIOUS
<1>2. PICK x, y, z : x = k.nodes /\ y = j.nodes /\ z = 0
  OBVIOUS
<1>3. x \in Nat /\ y \in Nat /\ z \in Nat
  BY <1>2, CallFacts
<1>4. IsInner(t, d, c, l, r) /\ x = c.nodes + 1 /\ y = c.nodes + 1 + Len(l.nodes)
  BY <1>1, <1>2 DEF Halved
<1>5. t.nodes[1] = Node(d, c, c.nodes + 1, c.nodes + 1 + Len(l.nodes), 0)
  BY <1>4 DEF IsInner
<1>6. n = Node(d, c, x, y, z)
  BY <1>1, <1>2, <1>4, <1>5
<1>7. x \in Int /\ y \in Int
  BY <1>3
<1>8. /\ n.left = x /\ n.right = y /\ n.members = ToSet(c.members) /\ n.depth = c.depth
      /\ n.box = BoxOf(d, n.members)
  BY <1>3, <1>6, <1>7, NodeTyped
<1> QED BY <1>2, <1>8 DEF InnerRoot

\* The first node of a tree stands for all the members.
LEMMA RootIs ==
  ASSUME NEW d, Ascribed(d), NEW g, g = Tree(d), NEW c \in Calls(d), NEW t, t = g[c]
  PROVE  /\ t \in Trees(d) /\ Len(t.nodes) \in Nat \ {0} /\ Len(t.data) \in Nat
         /\ t.nodes[1].members = ToSet(c.members) /\ t.nodes[1].depth = c.depth
         /\ t.nodes[1].box = BoxOf(d, ToSet(c.members))
<1>1. g \in [Calls(d) -> Trees(d)]
  BY TreeGrown
<1>0. t \in Trees(d)
  BY <1>1
<1>6. Len(t.nodes) \in Nat /\ Len(t.data) \in Nat
  BY <1>0, TreeFacts
<1>2. c.nodes \in Nat /\ c.blocks \in Nat /\ Len(c.members) \in Nat
  BY CallFacts
<1>3. CASE Len(c.members) <= LeafSize
  <2>1. PICK n, x : x = -1 /\ n = Node(d, c, x, x, c.blocks)
    OBVIOUS
  <2>4. x \in Int
    BY <2>1
  <2>2. n.members = ToSet(c.members) /\ n.depth = c.depth /\ n.box = BoxOf(d, n.members)
    BY <1>2, <2>1, <2>4, NodeTyped
  <2>3. t.nodes = <<n>>
    BY <1>3, <2>1, LeafGrown
  <2>5. Len(t.nodes) = 1 /\ t.nodes[1] = n
    BY <2>3
  <2> QED BY <1>0, <1>6, <2>2, <2>5
<1>4. CASE ~(Len(c.members) <= LeafSize)
  <2>1. Len(c.members) > LeafSize
    BY <1>2, <1>4, KdSearchAssumption
  <2>2. PICK k, j \in Calls(d) : Halved(g, d, c, k, j)
    BY <2>1, InnerGrown
  <2>3. PICK n : n = g[c].nodes[1]
    OBVIOUS
  <2>4. InnerRoot(n, d, c, k, j)
    BY <2>2, <2>3, RootOfInner
  <2>5. Len(t.nodes) # 0
    <3>1. g[k] \in Trees(d) /\ g[j] \in Trees(d)
      BY <1>1
    <3>2. Len(g[k].nodes) \in Nat /\ Len(g[j].nodes) \in Nat
      BY <3>1, TreeFacts
    <3>3. Len(t.nodes) = 1 + Len(g[k].nodes) + Len(g[j].nodes)
      BY <2>2 DEF Halved, IsInner
    <3>4. \A x, y \in Nat : 1 + x + y # 0
      OBVIOUS
    <3> QED BY <3>2, <3>3, <3>4
  <2>6. n = t.nodes[1]
    BY <2>3
  <2> QED BY <1>0, <1>6, <2>4, <2>5, <2>6 DEF InnerRoot
<1> QED BY <1>3, <1>4

\* Where a tree lies, its halves do.
LEMMA HalvesLie ==
  ASSUME NEW d, NEW ix, NEW t, NEW c, NEW l, NEW r, IsInner(t, d, c, l, r), NEW n \in Nat, NEW b \in Nat,
         LiesAt(ix, t, n, b), Sized(ix), Len(l.nodes) \in Nat, Len(l.data) \in Nat, Len(r.nodes) \in Nat,
         Len(r.data) \in Nat
  PROVE  LiesAt(ix, l, n + 1, b) /\ LiesAt(ix, r, n + 1 + Len(l.nodes), b + Len(l.data))
<1>0. PICK ln, rn, ld, rd, tn, td : /\ ln = Len(l.nodes) /\ rn = Len(r.nodes) /\ ld = Len(l.data) /\ rd = Len(r.data)
                                    /\ tn = Len(t.nodes) /\ td = Len(t.data)
  OBVIOUS
<1>1. ln \in Nat /\ rn \in Nat /\ ld \in Nat /\ rd \in Nat
  BY <1>0
<1>2. PICK N, D : N = Len(ix.nodes) /\ D = Len(ix.data) /\ N \in Nat /\ D \in Nat
  BY DEF Sized
<1>3. /\ tn = 1 + ln + rn /\ td = ld + rd
      /\ \A j \in 1 .. ln : t.nodes[1 + j] = l.nodes[j]
      /\ \A j \in 1 .. rn : t.nodes[1 + ln + j] = r.nodes[j]
      /\ \A j \in 1 .. ld : t.data[j] = l.data[j]
      /\ \A j \in 1 .. rd : t.data[ld + j] = r.data[j]
  BY <1>0 DEF IsInner
<1>4. /\ n + tn <= N /\ \A j \in 1 .. tn : ix.nodes[n + j] = t.nodes[j]
      /\ b + td <= D /\ \A j \in 1 .. td : ix.data[b + j] = t.data[j]
  BY <1>0, <1>2 DEF LiesAt
<1>5. /\ n + 1 + ln <= N /\ n + 1 + ln + rn <= N /\ b + ld <= D /\ b + ld + rd <= D
  BY <1>1, <1>2, <1>3, <1>4
<1>6. \A j \in 1 .. ln : ix.nodes[n + 1 + j] = l.nodes[j]
  <2> TAKE j \in 1 .. ln
  <2>1. 1 + j \in 1 .. tn /\ n + 1 + j = n + (1 + j)
    BY <1>1, <1>3
  <2> QED BY <1>3, <1>4, <2>1
<1>7. \A j \in 1 .. rn : ix.nodes[n + 1 + ln + j] = r.nodes[j]
  <2> TAKE j \in 1 .. rn
  <2>0. \A x, y, z \in Nat : \A i \in 1 .. z : 1 + y + i \in 1 .. 1 + y + z /\ x + 1 + y + i = x + (1 + y + i)
    OBVIOUS
  <2>1. 1 + ln + j \in 1 .. 1 + ln + rn /\ n + 1 + ln + j = n + (1 + ln + j)
    BY <1>1, <2>0
  <2> QED BY <1>3, <1>4, <2>1
<1>8. \A j \in 1 .. ld : ix.data[b + j] = l.data[j]
  <2> TAKE j \in 1 .. ld
  <2>1. j \in 1 .. td
    BY <1>1, <1>3
  <2> QED BY <1>3, <1>4, <2>1
<1>9. \A j \in 1 .. rd : ix.data[b + ld + j] = r.data[j]
  <2> TAKE j \in 1 .. rd
  <2>1. ld + j \in 1 .. td /\ b + ld + j = b + (ld + j)
    BY <1>1, <1>3
  <2> QED BY <1>3, <1>4, <2>1
<1>10. LiesAt(ix, l, n + 1, b)
  BY <1>0, <1>2, <1>5, <1>6, <1>8 DEF LiesAt
<1>11. LiesAt(ix, r, n + 1 + ln, b + ld)
  BY <1>0, <1>2, <1>5, <1>7, <1>9 DEF LiesAt
<1> QED BY <1>0, <1>10, <1>11

\* The root of a tree that lies in ix.
LEMMA RootLies ==
  ASSUME NEW ix, Sized(ix), NEW t, NEW n \in Nat, NEW b \in Nat, LiesAt(ix, t, n, b), Len(t.nodes) \in Nat \ {0}
  PROVE  n \in NodeIds(ix) /\ NodeAt(ix, n) = t.nodes[1]
<1>0. PICK N, k : N = Len(ix.nodes) /\ N \in Nat /\ k = Len(t.nodes) /\ k \in Nat \ {0}
  BY DEF Sized
<1>1. n + k <= N /\ \A j \in 1 .. k : ix.nodes[n + j] = t.nodes[j]
  BY <1>0 DEF LiesAt
<1>2. n \in 0 .. N - 1 /\ 1 \in 1 .. k
  BY <1>0, <1>1
<1> QED BY <1>0, <1>1, <1>2 DEF NodeIds, NodeAt

\* A leaf's tree is sound ...
LEMMA LeafSound ==
  ASSUME NEW d, Ascribed(d), NEW g, g = Tree(d), NEW ix, Sized(ix), NEW c \in Calls(d),
         Len(c.members) <= LeafSize, Roomy(c), LiesAt(ix, g[c], c.nodes, c.blocks)
  PROVE  Len(g[c].nodes) = 1 /\ NodeSound(d, ix, c.nodes)
<1>0. /\ c.members \in Seq(1 .. Count(d)) /\ c.nodes \in Nat /\ c.blocks \in Nat /\ c.depth \in Nat
      /\ Len(c.members) \in Nat
  BY CallFacts
<1>1. PICK t, m, n, b : t = g[c] /\ m = c.members /\ n = c.nodes /\ b = c.blocks
  OBVIOUS
<1>2. PICK x, v : x = -1 /\ v = Node(d, c, x, x, b)
  OBVIOUS
<1>3. t.nodes = <<v>> /\ t.data = LeafBlocks(m)
  BY <1>1, <1>2, LeafGrown
<1>4. Len(t.nodes) = 1 /\ t.nodes[1] = v
  BY <1>3
<1>5. /\ v.left = x /\ v.start = b /\ v.len = Len(m)
      /\ v.members = ToSet(m) /\ v.depth = c.depth /\ v.box = BoxOf(d, v.members)
  <2>1. x \in Int /\ x < 0
    BY <1>2
  <2> QED BY <1>0, <1>1, <1>2, <2>1, NodeTyped
<1>6. PICK bs : bs = t.data
  OBVIOUS
<1>7. /\ bs \in Seq(LanesIn(d)) /\ Len(bs) = BlocksFor(Len(m)) /\ Len(bs) \in Nat
      /\ \A e \in 1 .. Len(bs), l \in 1 .. Lanes : bs[e][l] \in {0} \cup ToSet(m)
      /\ \A i \in ToSet(m) : \E e \in 1 .. Len(bs), l \in 1 .. Lanes : bs[e][l] = i
      /\ LanesApart(bs)
  BY <1>0, <1>1, <1>3, <1>6, LeafBlocksAre DEF Roomy
<1>8. PICK k : k = Len(bs) /\ k \in Nat
  BY <1>7
<1>9. /\ b + k <= Len(ix.data) /\ \A j \in 1 .. k : ix.data[b + j] = bs[j]
      /\ LiesAt(ix, t, n, b)
  BY <1>1, <1>6, <1>8 DEF LiesAt
<1>10. NodeAt(ix, n) = v
  <2>1. n \in Nat /\ b \in Nat /\ Len(t.nodes) \in Nat \ {0} /\ LiesAt(ix, t, n, b)
    BY <1>0, <1>1, <1>4, <1>9
  <2> QED BY <1>4, <2>1, RootLies
<1>11. PICK D : D = Len(ix.data) /\ D \in Nat
  BY DEF Sized
<1>12. b + k \in b .. D /\ b \in Nat
  BY <1>0, <1>1, <1>8, <1>9, <1>11
<1>13. \A e \in b .. b + k - 1 : e + 1 = b + (e - b + 1) /\ e - b + 1 \in 1 .. k
  BY <1>8, <1>12
<1>14. ASSUME NEW e \in b .. b + k - 1
       PROVE  e - b + 1 \in 1 .. k /\ LanesOf(ix, e) = bs[e - b + 1]
  BY <1>9, <1>13 DEF LanesOf
<1>15. ASSUME NEW i \in ToSet(m)
       PROVE  \E e \in b .. b + k - 1, l \in 1 .. Lanes : LanesOf(ix, e)[l] = i
  <2>1. PICK f \in 1 .. k, l \in 1 .. Lanes : bs[f][l] = i
    BY <1>7, <1>8
  <2>2. PICK e : e = b + f - 1
    OBVIOUS
  <2>3. e \in b .. b + k - 1 /\ e + 1 = b + f
    BY <1>8, <1>12, <2>2
  <2>4. LanesOf(ix, e) = bs[f]
    BY <1>9, <2>3 DEF LanesOf
  <2> QED BY <2>1, <2>3, <2>4
<1>19. \A e \in b .. b + k - 1, l \in 1 .. Lanes : LanesOf(ix, e)[l] \in {0} \cup ToSet(m)
  BY <1>7, <1>8, <1>14
<1>20. OneLaneEach(ix, b .. b + k - 1)
  <2> SUFFICES ASSUME NEW e \in b .. b + k - 1, NEW h \in b .. b + k - 1, NEW p \in 1 .. Lanes,
                      NEW l \in 1 .. Lanes, LanesOf(ix, e)[p] = LanesOf(ix, h)[l], LanesOf(ix, e)[p] # 0
               PROVE  e = h /\ p = l
    BY DEF OneLaneEach
  <2>1. PICK r, s : /\ r = e - b + 1 /\ s = h - b + 1 /\ r \in 1 .. k /\ s \in 1 .. k
                    /\ LanesOf(ix, e) = bs[r] /\ LanesOf(ix, h) = bs[s]
    BY <1>14
  <2>2. r = s /\ p = l
    BY <1>7, <1>8, <2>1 DEF LanesApart
  <2>3. e = h
    BY <1>8, <1>12, <2>1, <2>2
  <2> QED BY <2>2, <2>3
<1>16. LeafOf(ix, n)
  <2>1. PICK w, u, y : w = NodeAt(ix, n) /\ u = w.start + BlocksFor(w.len) /\ y = 1 .. Lanes
    OBVIOUS
  <2>2. w.start = b /\ u = b + k /\ w.members = ToSet(m)
    BY <1>5, <1>7, <1>8, <1>10, <2>1
  <2>3. /\ \A e \in b .. b + k - 1, l \in y : LanesOf(ix, e)[l] \in {0} \cup ToSet(m)
        /\ \A i \in ToSet(m) : \E e \in b .. b + k - 1, l \in y : LanesOf(ix, e)[l] = i
        /\ OneLaneEach(ix, b .. b + k - 1)
    BY <1>15, <1>19, <1>20, <2>1
  <2>4. w.start \in Nat /\ u \in w.start .. Len(ix.data)
    BY <1>11, <1>12, <2>2
  <2>5. /\ \A e \in w.start .. u - 1, l \in 1 .. Lanes : LanesOf(ix, e)[l] \in {0} \cup w.members
        /\ \A i \in w.members : \E e \in w.start .. u - 1, l \in 1 .. Lanes : LanesOf(ix, e)[l] = i
        /\ OneLaneEach(ix, w.start .. u - 1)
    <3>1. PICK R, Q : R = b .. b + k - 1 /\ Q = ToSet(m)
      OBVIOUS
    <3>2. /\ \A e \in R, l \in y : LanesOf(ix, e)[l] \in {0} \cup Q
          /\ \A i \in Q : \E e \in R, l \in y : LanesOf(ix, e)[l] = i
          /\ OneLaneEach(ix, R)
      BY <2>3, <3>1
    <3>3. w.start .. u - 1 = R
      BY <1>8, <1>12, <2>2, <3>1
    <3>4. w.members = Q
      BY <2>2, <3>1
    <3>5. 1 .. Lanes = y
      BY <2>1
    <3> QED BY <3>2, <3>3, <3>4, <3>5, Zenon
  <2> QED BY <2>1, <2>4, <2>5, Zenon DEF LeafOf
<1>17. IsLeaf(v)
  BY <1>2, <1>5 DEF IsLeaf
<1>18. ToSet(m) \subseteq 1 .. Count(d) /\ ToSet(m) # {}
  <2>1. ToSet(m) = {m[j] : j \in 1 .. Len(m)} /\ ToSet(m) \in SUBSET (1 .. Count(d))
    <3>1. m \in Seq(1 .. Count(d))
      BY <1>0, <1>1
    <3>2. PICK X : X = 1 .. Count(d)
      OBVIOUS
    <3> QED BY <3>1, <3>2, SeqFacts
  <2>2. 1 \in 1 .. Len(m)
    BY <1>0, <1>1 DEF Roomy
  <2> QED BY <2>1, <2>2
<1> QED BY <1>0, <1>1, <1>4, <1>5, <1>10, <1>16, <1>17, <1>18 DEF NodeSound

\* Half of the members fit on a level less.
LEMMA HalfFits ==
  ASSUME NEW n \in Nat, n > LeafSize, NEW h \in Nat, h <= StackCap, n <= Holds[StackCap - h]
  PROVE  /\ h + 1 \in Nat /\ h + 1 <= StackCap /\ Holds[StackCap - (h + 1)] \in Int
         /\ n <= 2 * Holds[StackCap - (h + 1)]
<1>0. PICK s : s = StackCap /\ s \in Nat /\ LeafSize \in Nat
  BY KdSearchAssumption
<1>1. s - h # 0
  BY <1>0, HoldsIs
<1>2. h + 1 \in Nat /\ h + 1 <= s /\ s - (h + 1) \in Nat /\ s - (h + 1) + 1 = s - h
  BY <1>0, <1>1
<1>3. PICK e : e = s - (h + 1)
  OBVIOUS
<1>4. Holds[e] \in Nat /\ Holds[e + 1] = 2 * Holds[e] /\ e + 1 = s - h
  BY <1>2, <1>3, HoldsIs
<1> QED BY <1>0, <1>2, <1>3, <1>4

LEMMA HalvesRoomy ==
  ASSUME NEW d, NEW g, NEW c \in Calls(d), NEW k \in Calls(d), NEW j \in Calls(d), Halved(g, d, c, k, j),
         Len(c.members) > LeafSize, Roomy(c)
  PROVE  Roomy(k) /\ Roomy(j) /\ c.depth + 1 <= StackCap
<1>1. /\ Len(c.members) \in Nat /\ c.depth \in Nat /\ Len(k.members) \in Nat /\ Len(j.members) \in Nat
  BY CallFacts
<1>2. PICK n, h : n = Len(c.members) /\ h = c.depth /\ n \in Nat /\ h \in Nat
  BY <1>1
<1>3. h <= StackCap /\ n <= Holds[StackCap - h] /\ n > LeafSize
  BY <1>2 DEF Roomy
<1>4. PICK b, e : e = h + 1 /\ b = Holds[StackCap - e]
  OBVIOUS
<1>5. e \in Nat /\ e <= StackCap /\ b \in Int /\ n <= 2 * b
  BY <1>2, <1>3, <1>4, HalfFits
<1>6. /\ k.depth = e /\ j.depth = e /\ Len(k.members) >= 1 /\ Len(j.members) >= 1
      /\ Len(k.members) <= b /\ Len(j.members) <= b
  BY <1>1, <1>2, <1>4, <1>5 DEF Halved
<1>7. Once(k.members) /\ Once(j.members)
  BY DEF Halved, Parted, Roomy
<1> QED BY <1>2, <1>4, <1>5, <1>6, <1>7 DEF Roomy

\* ... and so is one of an inner node, if its halves are.
LEMMA HalvesThere ==
  ASSUME NEW d, Ascribed(d), NEW g, g = Tree(d), NEW ix, Sized(ix), NEW c \in Calls(d), NEW k \in Calls(d),
         NEW j \in Calls(d), Halved(g, d, c, k, j), LiesAt(ix, g[c], c.nodes, c.blocks)
  PROVE  LiesAt(ix, g[k], k.nodes, k.blocks) /\ LiesAt(ix, g[j], j.nodes, j.blocks)
<1>1. PICK t, l, r, n, b : t = g[c] /\ l = g[k] /\ r = g[j] /\ n = c.nodes /\ b = c.blocks
  OBVIOUS
<1>2. n \in Nat /\ b \in Nat
  BY <1>1, CallFacts
<1>3. Len(l.nodes) \in Nat /\ Len(l.data) \in Nat /\ Len(r.nodes) \in Nat /\ Len(r.data) \in Nat
  BY <1>1, RootIs
<1>4. IsInner(t, d, c, l, r) /\ LiesAt(ix, t, n, b)
  BY <1>1 DEF Halved
<1>5. LiesAt(ix, l, n + 1, b) /\ LiesAt(ix, r, n + 1 + Len(l.nodes), b + Len(l.data))
  BY <1>2, <1>3, <1>4, HalvesLie
<1> QED BY <1>1, <1>5 DEF Halved

LEMMA InnerSound ==
  ASSUME NEW d, Ascribed(d), NEW g, g = Tree(d), NEW ix, Sized(ix), NEW c \in Calls(d), NEW k \in Calls(d),
         NEW j \in Calls(d), Halved(g, d, c, k, j), Len(c.members) > LeafSize, Roomy(c),
         LiesAt(ix, g[c], c.nodes, c.blocks)
  PROVE  NodeSound(d, ix, c.nodes)
<1>1. PICK n, b, v : n = c.nodes /\ b = c.blocks /\ v = g[c].nodes[1]
  OBVIOUS
<1>2. /\ c.members \in Seq(1 .. Count(d)) /\ n \in Nat /\ b \in Nat /\ c.depth \in Nat
      /\ Len(c.members) \in Nat /\ k.nodes \in Nat /\ k.blocks \in Nat /\ j.nodes \in Nat /\ j.blocks \in Nat
  BY <1>1, CallFacts
<1>3. InnerRoot(v, d, c, k, j)
  BY <1>1, RootOfInner
<1>4. NodeAt(ix, n) = v
  <2>1. PICK t : t = g[c]
    OBVIOUS
  <2>2. Len(t.nodes) \in Nat \ {0} /\ LiesAt(ix, t, n, b) /\ v = t.nodes[1]
    BY <1>1, <2>1, RootIs
  <2> QED BY <1>2, <2>2, RootLies
<1>5. LiesAt(ix, g[k], k.nodes, k.blocks) /\ LiesAt(ix, g[j], j.nodes, j.blocks)
  BY HalvesThere
<1>6. PICK l, r, nl, nr, bl, br : /\ l = g[k] /\ r = g[j] /\ nl = k.nodes /\ nr = j.nodes
                                  /\ bl = k.blocks /\ br = j.blocks
  OBVIOUS
<1>7. /\ nl \in NodeIds(ix) /\ NodeAt(ix, nl) = l.nodes[1]
      /\ nr \in NodeIds(ix) /\ NodeAt(ix, nr) = r.nodes[1]
      /\ l.nodes[1].members = ToSet(k.members) /\ l.nodes[1].depth = k.depth
      /\ r.nodes[1].members = ToSet(j.members) /\ r.nodes[1].depth = j.depth
  <2>1. /\ Len(l.nodes) \in Nat \ {0} /\ l.nodes[1].members = ToSet(k.members) /\ l.nodes[1].depth = k.depth
        /\ Len(r.nodes) \in Nat \ {0} /\ r.nodes[1].members = ToSet(j.members) /\ r.nodes[1].depth = j.depth
    BY <1>6, RootIs
  <2>2. nl \in Nat /\ nr \in Nat /\ bl \in Nat /\ br \in Nat /\ LiesAt(ix, l, nl, bl) /\ LiesAt(ix, r, nr, br)
    BY <1>2, <1>5, <1>6
  <2> QED BY <2>1, <2>2, RootLies
<1>8. c.depth + 1 <= StackCap
  BY HalvesRoomy
<1>9. /\ v.left = nl /\ v.right = nr /\ v.members = ToSet(c.members) /\ v.depth = c.depth
      /\ v.box = BoxOf(d, v.members)
  BY <1>3, <1>6 DEF InnerRoot
<1>10. /\ k.depth = c.depth + 1 /\ j.depth = c.depth + 1
       /\ ToSet(c.members) = ToSet(k.members) \cup ToSet(j.members)
       /\ ToSet(k.members) \cap ToSet(j.members) = {}
  BY DEF Halved, Parted, Roomy
<1>11. InnerOf(ix, n)
  BY <1>4, <1>7, <1>8, <1>9, <1>10 DEF InnerOf
<1>12. ~IsLeaf(v)
  BY <1>2, <1>6, <1>9 DEF IsLeaf
<1>13. ToSet(c.members) \subseteq 1 .. Count(d) /\ ToSet(c.members) # {}
  <2>0. PICK m, X : m = c.members /\ X = 1 .. Count(d)
    OBVIOUS
  <2>1. ToSet(m) = {m[i] : i \in 1 .. Len(m)} /\ ToSet(m) \in SUBSET X
    <3>1. m \in Seq(X)
      BY <1>2, <2>0
    <3> QED BY <3>1, SeqFacts
  <2>2. 1 \in 1 .. Len(m)
    BY <1>2, <2>0 DEF Roomy
  <2> QED BY <2>0, <2>1, <2>2
<1> QED BY <1>1, <1>2, <1>4, <1>9, <1>11, <1>12, <1>13 DEF NodeSound

\* Every tree of a roomy call is sound.
LEMMA CallsSound ==
  ASSUME NEW d, Ascribed(d), NEW g, g = Tree(d), NEW ix, Sized(ix)
  PROVE  \A c \in Calls(d) : CallSound(g, d, ix, c)
<1> DEFINE T == {n \in Nat : \A c \in Calls(d) : Len(c.members) < n => CallSound(g, d, ix, c)}
<1>0. \A c \in Calls(d) : Len(c.members) \in Nat
  BY CallFacts
<1>1. 0 \in T
  BY <1>0
<1>2. ASSUME NEW i \in Nat, i \in T PROVE i + 1 \in T
  <2> SUFFICES ASSUME NEW c \in Calls(d), Len(c.members) < i + 1 PROVE CallSound(g, d, ix, c)
    OBVIOUS
  <2>0. \A e \in Calls(d) : Len(e.members) < i => CallSound(g, d, ix, e)
    BY <1>2
  <2> HIDE DEF T
  <2> SUFFICES ASSUME Roomy(c), LiesAt(ix, g[c], c.nodes, c.blocks),
                      NEW n \in c.nodes .. c.nodes + Len(g[c].nodes) - 1
               PROVE  NodeSound(d, ix, n)
    BY DEF CallSound
  <2>1. c.nodes \in Nat /\ Len(c.members) \in Nat
    BY CallFacts
  <2>2. CASE Len(c.members) <= LeafSize
    <3>1. Len(g[c].nodes) = 1 /\ NodeSound(d, ix, c.nodes)
      BY <2>2, LeafSound
    <3>2. n = c.nodes
      BY <2>1, <3>1
    <3> QED BY <3>1, <3>2
  <2>3. CASE ~(Len(c.members) <= LeafSize)
    <3>1. Len(c.members) > LeafSize
      BY <2>1, <2>3, KdSearchAssumption
    <3>2. PICK k, j \in Calls(d) : Halved(g, d, c, k, j)
      BY <3>1, InnerGrown
    <3>3. NodeSound(d, ix, c.nodes)
      BY <3>1, <3>2, InnerSound
    <3>4. LiesAt(ix, g[k], k.nodes, k.blocks) /\ LiesAt(ix, g[j], j.nodes, j.blocks)
      BY <3>2, HalvesThere
    <3>5. Roomy(k) /\ Roomy(j)
      BY <3>1, <3>2, HalvesRoomy
    <3>6. Len(k.members) < i /\ Len(j.members) < i
      BY <1>0, <2>1, <3>2 DEF Halved
    <3>7. /\ \A m \in k.nodes .. k.nodes + Len(g[k].nodes) - 1 : NodeSound(d, ix, m)
          /\ \A m \in j.nodes .. j.nodes + Len(g[j].nodes) - 1 : NodeSound(d, ix, m)
      BY <2>0, <3>4, <3>5, <3>6 DEF CallSound
    <3>8. \/ n = c.nodes
          \/ n \in k.nodes .. k.nodes + Len(g[k].nodes) - 1
          \/ n \in j.nodes .. j.nodes + Len(g[j].nodes) - 1
      <4>1. PICK x, y, z : x = c.nodes /\ y = Len(g[k].nodes) /\ z = Len(g[j].nodes)
        OBVIOUS
      <4>2. x \in Nat /\ y \in Nat /\ z \in Nat
        BY <2>1, <4>1, RootIs
      <4>3. Len(g[c].nodes) = 1 + y + z /\ k.nodes = x + 1 /\ j.nodes = x + 1 + y
        BY <3>2, <4>1 DEF Halved, IsInner
      <4>4. n \in x .. x + (1 + y + z) - 1
        BY <4>1, <4>3
      <4>5. n = x \/ n \in x + 1 .. x + 1 + y - 1 \/ n \in x + 1 + y .. x + 1 + y + z - 1
        BY <4>2, <4>4
      <4> QED BY <4>1, <4>3, <4>5
    <3> QED BY <3>3, <3>7, <3>8
  <2> QED BY <2>2, <2>3
<1> HIDE DEF T
<1>3. \A i \in Nat : i \in T
  BY <1>1, <1>2, Induction
<1> QED
  <2> TAKE c \in Calls(d)
  <2>1. Len(c.members) + 1 \in T /\ Len(c.members) < Len(c.members) + 1
    BY <1>0, <1>3
  <2> QED BY <2>1 DEF T

-----------------------------------------------------------------------------
(* The keys of the partitions.                                             *)

Weights(v) == [t \in KeyTests |-> IF v[t.axis] > t.above THEN t.weight ELSE 0]

\* The recursive function of PartitionKey.
KeySums(g, v) ==
  g = [s \in SUBSET KeyTests |->
         IF s = {} THEN 0
         ELSE (IF v[Some(s).axis] > Some(s).above THEN Some(s).weight ELSE 0) + g[s \ {Some(s)}]]

LEMMA KeyIs ==
  ASSUME NEW v
  PROVE  PartitionKey(v) = Sum(Weights(v), KeyTests)
<1>1. PartitionKey(v) = (CHOOSE g : KeySums(g, v))[KeyTests]
  BY DEF PartitionKey, MapThenSumSet, MapThenFoldSet, KeySums, Some
<1>2. Sum(Weights(v), KeyTests) = (CHOOSE g : Sums(g, Weights(v), KeyTests))[KeyTests]
  BY SumIs
<1>3. ASSUME NEW g PROVE KeySums(g, v) <=> Sums(g, Weights(v), KeyTests)
  <2> DEFINE A(s) == IF s = {} THEN 0
                     ELSE (IF v[Some(s).axis] > Some(s).above THEN Some(s).weight ELSE 0) + g[s \ {Some(s)}]
             B(s) == IF s = {} THEN 0 ELSE Weights(v)[Some(s)] + g[s \ {Some(s)}]
  <2>1. \A s \in SUBSET KeyTests : A(s) = B(s)
    <3> TAKE s \in SUBSET KeyTests
    <3>1. s # {} => Some(s) \in KeyTests
      BY DEF Some
    <3> QED BY <3>1 DEF Weights
  <2>2. KeySums(g, v) <=> g = [s \in SUBSET KeyTests |-> A(s)]
    BY DEF KeySums
  <2>3. Sums(g, Weights(v), KeyTests) <=> g = [s \in SUBSET KeyTests |-> B(s)]
    BY DEF Sums
  <2> HIDE DEF A, B
  <2>4. [s \in SUBSET KeyTests |-> A(s)] = [s \in SUBSET KeyTests |-> B(s)]
    BY <2>1
  <2> QED BY <2>2, <2>3, <2>4
<1>4. (CHOOSE g : KeySums(g, v)) = (CHOOSE g : Sums(g, Weights(v), KeyTests))
  BY <1>3, Zenon
<1> QED BY <1>1, <1>2, <1>4

LEMMA KeyNat ==
  ASSUME NEW v \in [Axes -> Int]
  PROVE  PartitionKey(v) \in Nat
<1>1. IsFiniteSet(KeyTests)
  BY KdSearchAssumption
<1>2. \A t \in KeyTests : Weights(v)[t] \in Int /\ Weights(v)[t] >= 0
  BY KdSearchAssumption DEF Weights
<1> QED BY <1>1, <1>2, KeyIs, SumNat

InUse(d) == {PartitionKey(d.vec[i]) : i \in 1 .. Count(d)}
OfKey(d, k) == {i \in 1 .. Count(d) : PartitionKey(d.vec[i]) = k}

LEMMA KeysAre ==
  ASSUME NEW d, Ascribed(d), NEW ks, ks = Keys(d)
  PROVE  /\ ks \in Seq(InUse(d)) /\ Len(ks) \in Nat /\ InUse(d) \in SUBSET Nat
         /\ \A k \in InUse(d) : \E p \in 1 .. Len(ks) : ks[p] = k
         /\ \A p, r \in 1 .. Len(ks) : ks[p] = ks[r] => p = r
<1>1. PICK n, K : n = Count(d) /\ K = InUse(d) /\ n \in Nat
  BY DEF Ascribed
<1>2. K \in SUBSET Nat /\ K \in SUBSET Int
  <2>1. \A i \in 1 .. n : PartitionKey(d.vec[i]) \in Nat
    BY <1>1, KeyNat DEF Ascribed
  <2> QED BY <1>1, <2>1 DEF InUse
<1>3. IsFiniteSet(K)
  <2>1. IsFiniteSet(1 .. n)
    BY <1>1, FS_Interval
  <2>2. PICK f : f = [i \in 1 .. n |-> PartitionKey(d.vec[i])]
    OBVIOUS
  <2>3. f \in [1 .. n -> K] /\ \A k \in K : \E i \in 1 .. n : f[i] = k
    BY <1>1, <2>2 DEF InUse
  <2>4. PICK S : S = 1 .. n
    OBVIOUS
  <2> QED BY <2>1, <2>3, <2>4, Image
<1>4. ks = Rising(K)
  BY <1>1 DEF Keys, InUse, Rising
<1>5. /\ ks \in Seq(K) /\ Len(ks) \in Nat /\ ToSet(ks) = K
      /\ \A p, r \in 1 .. Len(ks) : ks[p] = ks[r] => p = r
  BY <1>2, <1>3, <1>4, RisingIs
<1>6. ToSet(ks) = {ks[p] : p \in 1 .. Len(ks)}
  BY <1>5, SeqFacts
<1> QED BY <1>1, <1>2, <1>5, <1>6

LEMMA KeyMembersAre ==
  ASSUME NEW d, Ascribed(d), NEW k \in InUse(d), NEW m, m = KeyMembers(d, k)
  PROVE  /\ m \in Seq(1 .. Count(d)) /\ Len(m) \in Nat /\ ToSet(m) = OfKey(d, k)
         /\ Len(m) >= 1 /\ Len(m) <= Count(d) /\ Once(m)
<1>1. PICK n, S : n = Count(d) /\ S = OfKey(d, k) /\ n \in Nat
  BY DEF Ascribed
<1>2. S \in SUBSET (1 .. n) /\ S \in SUBSET Int /\ S # {}
  BY <1>1 DEF OfKey, InUse
<1>3. IsFiniteSet(1 .. n) /\ Cardinality(1 .. n) = n
  BY <1>1, FS_Interval
<1>4. IsFiniteSet(S) /\ Cardinality(S) <= n
  BY <1>2, <1>3, FS_Subset
<1>5. m = Rising(S)
  BY <1>1 DEF KeyMembers, OfKey, Rising
<1>6. m \in Seq(S) /\ Len(m) = Cardinality(S) /\ Len(m) \in Nat /\ ToSet(m) = S /\ Once(m)
  BY <1>2, <1>4, <1>5, RisingIs DEF Once
<1>7. m \in Seq(1 .. n)
  <2>1. m \in [1 .. Len(m) -> S]
    BY <1>6, SeqFacts
  <2>2. m \in [1 .. Len(m) -> 1 .. n]
    BY <1>2, <2>1
  <2> QED BY <1>6, <2>2, FunSeq
<1>8. Len(m) # 0
  BY <1>2, <1>4, <1>6, FS_EmptySet
<1> QED BY <1>1, <1>4, <1>6, <1>7, <1>8

-----------------------------------------------------------------------------
(* Build, one partition after the other.                                   *)

EmptyIndex == [parts |-> <<>>, nodes |-> <<>>, data |-> <<>>]
Directory(d) == [key : Nat, root : Nat, box : {BoxOf(d, S) : S \in SUBSET (1 .. Count(d))}]
Indexes(d) == [parts : Seq(Directory(d)), nodes : Seq(NodesOf(d)), data : Seq(LanesIn(d))]

LEMMA IndexFacts ==
  ASSUME NEW d, NEW ix \in Indexes(d)
  PROVE  /\ ix.parts \in Seq(Directory(d)) /\ ix.nodes \in Seq(NodesOf(d)) /\ ix.data \in Seq(LanesIn(d))
         /\ Len(ix.parts) \in Nat /\ Len(ix.nodes) \in Nat /\ Len(ix.data) \in Nat /\ Sized(ix)
BY DEF Indexes, Sized

\* All of ix is in new, where it was.
Extends(new, ix) ==
  /\ Len(ix.nodes) <= Len(new.nodes) /\ \A j \in 1 .. Len(ix.nodes) : new.nodes[j] = ix.nodes[j]
  /\ Len(ix.data) <= Len(new.data) /\ \A j \in 1 .. Len(ix.data) : new.data[j] = ix.data[j]

\* The partition p of new, with the tree t behind ix.
Grew(new, ix, p, t) ==
  /\ Len(new.parts) = Len(ix.parts) + 1 /\ new.parts[Len(ix.parts) + 1] = p
  /\ \A j \in 1 .. Len(ix.parts) : new.parts[j] = ix.parts[j]
  /\ Len(new.nodes) = Len(ix.nodes) + Len(t.nodes)
  /\ Extends(new, ix) /\ LiesAt(new, t, Len(ix.nodes), Len(ix.data))

KeyCall(d, ix, k) == Call(KeyMembers(d, k), Len(ix.nodes), Len(ix.data), 0)
Partition(ix, k, t) == [key |-> k, root |-> Len(ix.nodes), box |-> t.nodes[1].box]

LEMMA KeyCalled ==
  ASSUME NEW d, Ascribed(d), NEW k \in InUse(d), NEW ix \in Indexes(d), NEW c, c = KeyCall(d, ix, k)
  PROVE  /\ c \in Calls(d) /\ c.nodes = Len(ix.nodes) /\ c.blocks = Len(ix.data) /\ c.depth = 0
         /\ ToSet(c.members) = OfKey(d, k) /\ Len(c.members) >= 1 /\ Len(c.members) <= Count(d)
         /\ Once(c.members)
<1>1. PICK m, n, b, z : m = KeyMembers(d, k) /\ n = Len(ix.nodes) /\ b = Len(ix.data) /\ z = 0
  OBVIOUS
<1>2. /\ m \in Seq(1 .. Count(d)) /\ ToSet(m) = OfKey(d, k) /\ Len(m) >= 1 /\ Len(m) <= Count(d)
      /\ Once(m)
  BY <1>1, KeyMembersAre
<1>3. n \in Nat /\ b \in Nat /\ z \in Nat
  BY <1>1, IndexFacts
<1>4. c = Call(m, n, b, z)
  BY <1>1 DEF KeyCall
<1>5. c \in Calls(d) /\ c.members = m /\ c.nodes = n /\ c.blocks = b /\ c.depth = z
  BY <1>2, <1>3, <1>4, CallIs
<1> QED BY <1>1, <1>2, <1>5

LEMMA Added ==
  ASSUME NEW d, Ascribed(d), NEW k \in InUse(d), NEW ix \in Indexes(d), NEW new, new = AddPartition(d, ix, k),
         NEW c, c = KeyCall(d, ix, k), NEW t, t = Tree(d)[c]
  PROVE  new \in Indexes(d) /\ Grew(new, ix, Partition(ix, k, t), t)
<1>1. c \in Calls(d)
  BY KeyCalled
<1>2. t \in Trees(d) /\ Len(t.nodes) \in Nat \ {0} /\ Len(t.data) \in Nat
  <2>1. PICK g : g = Tree(d) /\ t = g[c]
    OBVIOUS
  <2> QED BY <1>1, <2>1, RootIs
<1>3. PICK X, Y, Z : X = NodesOf(d) /\ Y = LanesIn(d) /\ Z = Directory(d)
  OBVIOUS
<1>4. PICK xn, xd, xp, tn, td : xn = ix.nodes /\ xd = ix.data /\ xp = ix.parts /\ tn = t.nodes /\ td = t.data
  OBVIOUS
<1>5. /\ xn \in Seq(X) /\ xd \in Seq(Y) /\ xp \in Seq(Z) /\ tn \in Seq(X) /\ td \in Seq(Y)
      /\ Len(xn) \in Nat /\ Len(xd) \in Nat /\ Len(xp) \in Nat /\ Len(tn) \in Nat \ {0} /\ Len(td) \in Nat
  BY <1>2, <1>3, <1>4, IndexFacts, TreeFacts
<1>6. PICK p : p = Partition(ix, k, t)
  OBVIOUS
<1>7. p \in Z
  <2>1. k \in Nat
    BY KeysAre
  <2>2. tn[1] \in X
    BY <1>5
  <2>3. tn[1].box \in {BoxOf(d, S) : S \in SUBSET (1 .. Count(d))}
    BY <1>3, <2>2 DEF NodesOf
  <2>4. p = [key |-> k, root |-> Len(xn), box |-> tn[1].box]
    BY <1>4, <1>6 DEF Partition
  <2> QED BY <1>3, <1>5, <2>1, <2>3, <2>4 DEF Directory
<1>8. PICK u, v, w : u = xn \o tn /\ v = xd \o td /\ w = Append(xp, p)
  OBVIOUS
<1>9. new = [parts |-> w, nodes |-> u, data |-> v]
  BY <1>4, <1>6, <1>8 DEF AddPartition, KeyCall, Partition
<1>10. /\ u \in Seq(X) /\ Len(u) = Len(xn) + Len(tn)
       /\ \A j \in 1 .. Len(xn) : u[j] = xn[j]
       /\ \A j \in 1 .. Len(tn) : u[Len(xn) + j] = tn[j]
  BY <1>5, <1>8, ConcatFacts
<1>11. /\ v \in Seq(Y) /\ Len(v) = Len(xd) + Len(td)
       /\ \A j \in 1 .. Len(xd) : v[j] = xd[j]
       /\ \A j \in 1 .. Len(td) : v[Len(xd) + j] = td[j]
  BY <1>5, <1>8, ConcatFacts
<1>12. /\ w \in Seq(Z) /\ Len(w) = Len(xp) + 1 /\ w[Len(xp) + 1] = p
       /\ \A j \in 1 .. Len(xp) : w[j] = xp[j]
  BY <1>5, <1>7, <1>8
<1>13. new \in Indexes(d)
  BY <1>3, <1>9, <1>10, <1>11, <1>12 DEF Indexes
<1>14. new.parts = w /\ new.nodes = u /\ new.data = v
  BY <1>9
<1>15. Extends(new, ix)
  <2>1. Len(xn) <= Len(u) /\ Len(xd) <= Len(v)
    BY <1>5, <1>10, <1>11
  <2> QED BY <1>4, <1>10, <1>11, <1>14, <2>1 DEF Extends
<1>16. LiesAt(new, t, Len(xn), Len(xd))
  <2>1. Len(xn) + Len(tn) <= Len(u) /\ Len(xd) + Len(td) <= Len(v)
    BY <1>5, <1>10, <1>11
  <2> QED BY <1>4, <1>10, <1>11, <1>14, <2>1 DEF LiesAt
<1>17. Grew(new, ix, p, t)
  BY <1>4, <1>10, <1>12, <1>14, <1>15, <1>16 DEF Grew
<1> QED BY <1>6, <1>13, <1>17

\* What was sound in ix is sound in what extends it.
LEMMA StillSound ==
  ASSUME NEW d, NEW ix, Sized(ix), NEW new, Sized(new), Extends(new, ix), NEW n \in NodeIds(ix),
         NodeSound(d, ix, n)
  PROVE  NodeAt(new, n) = NodeAt(ix, n) /\ n \in NodeIds(new) /\ NodeSound(d, new, n)
<1>1. PICK N, D, M, E : /\ N = Len(ix.nodes) /\ D = Len(ix.data) /\ M = Len(new.nodes) /\ E = Len(new.data)
                        /\ N \in Nat /\ D \in Nat /\ M \in Nat /\ E \in Nat
  BY DEF Sized
<1>2. /\ N <= M /\ \A j \in 1 .. N : new.nodes[j] = ix.nodes[j]
      /\ D <= E /\ \A j \in 1 .. D : new.data[j] = ix.data[j]
  BY <1>1 DEF Extends
<1>3. \A i \in NodeIds(ix) : NodeAt(new, i) = NodeAt(ix, i) /\ i \in NodeIds(new)
  <2> TAKE i \in NodeIds(ix)
  <2>1. i \in 0 .. N - 1
    BY <1>1 DEF NodeIds
  <2>2. i + 1 \in 1 .. N /\ i \in 0 .. M - 1
    BY <1>1, <1>2, <2>1
  <2> QED BY <1>1, <1>2, <2>2 DEF NodeAt, NodeIds
<1>4. PICK v : v = NodeAt(ix, n) /\ v = NodeAt(new, n)
  BY <1>3
<1>5. /\ v.depth \in Nat /\ v.members \subseteq 1 .. Count(d) /\ v.members # {} /\ v.box = BoxOf(d, v.members)
      /\ IF IsLeaf(v) THEN LeafOf(ix, n) ELSE InnerOf(ix, n)
  BY <1>4 DEF NodeSound
<1>6. ASSUME InnerOf(ix, n) PROVE InnerOf(new, n)
  <2>1. /\ v.left \in NodeIds(ix) /\ v.right \in NodeIds(ix)
        /\ v.members = NodeAt(ix, v.left).members \cup NodeAt(ix, v.right).members
        /\ NodeAt(ix, v.left).members \cap NodeAt(ix, v.right).members = {}
        /\ NodeAt(ix, v.left).depth = v.depth + 1 /\ NodeAt(ix, v.right).depth = v.depth + 1
        /\ v.depth + 1 <= StackCap
    BY <1>4, <1>6 DEF InnerOf
  <2>2. /\ NodeAt(new, v.left) = NodeAt(ix, v.left) /\ NodeAt(new, v.right) = NodeAt(ix, v.right)
        /\ v.left \in NodeIds(new) /\ v.right \in NodeIds(new)
    BY <1>3, <2>1
  <2> QED BY <1>4, <2>1, <2>2 DEF InnerOf
<1>7. ASSUME LeafOf(ix, n) PROVE LeafOf(new, n)
  <2>1. PICK s, e, R : s = v.start /\ e = v.start + BlocksFor(v.len) /\ R = s .. e - 1
    OBVIOUS
  <2>2. /\ s \in Nat /\ e \in s .. D
        /\ \A b \in R, l \in 1 .. Lanes : LanesOf(ix, b)[l] \in {0} \cup v.members
        /\ \A i \in v.members : \E b \in R, l \in 1 .. Lanes : LanesOf(ix, b)[l] = i
        /\ OneLaneEach(ix, R)
    BY <1>1, <1>4, <1>7, <2>1 DEF LeafOf
  <2>3. \A b \in R : LanesOf(new, b) = LanesOf(ix, b)
    <3> TAKE b \in R
    <3>1. b + 1 \in 1 .. D
      BY <1>1, <2>1, <2>2
    <3> QED BY <1>2, <3>1 DEF LanesOf
  <2>4. e \in s .. E
    BY <1>1, <1>2, <2>2
  <2>5. /\ \A b \in R, l \in 1 .. Lanes : LanesOf(new, b)[l] \in {0} \cup v.members
        /\ \A i \in v.members : \E b \in R, l \in 1 .. Lanes : LanesOf(new, b)[l] = i
    BY <2>2, <2>3
  <2>6. OneLaneEach(new, R)
    BY <2>2, <2>3 DEF OneLaneEach
  <2> QED BY <1>1, <1>4, <2>1, <2>2, <2>4, <2>5, <2>6 DEF LeafOf
<1> QED BY <1>3, <1>4, <1>5, <1>6, <1>7 DEF NodeSound

\* A partition for each of the first j keys, and the trees they need.
PartOf(d, ix, p, k) ==
  /\ p.key = k /\ p.root \in NodeIds(ix) /\ NodeAt(ix, p.root).depth = 0
  /\ p.box = NodeAt(ix, p.root).box /\ NodeAt(ix, p.root).members = OfKey(d, k)

SoundFor(d, ix, ks, j) ==
  /\ ix \in Indexes(d) /\ Len(ix.parts) = j
  /\ \A p \in 1 .. j : PartOf(d, ix, ix.parts[p], ks[p])
  /\ \A n \in NodeIds(ix) : NodeSound(d, ix, n)

\* The vectors fit into trees as deep as the stack.
Fits(d) == Count(d) <= Holds[StackCap]

LEMMA PartAdded ==
  ASSUME NEW d, Ascribed(d), Fits(d), NEW ks, NEW j \in Nat, NEW k \in InUse(d), k = ks[j + 1],
         NEW ix, SoundFor(d, ix, ks, j), NEW new, new = AddPartition(d, ix, k)
  PROVE  SoundFor(d, new, ks, j + 1)
<1>1. ix \in Indexes(d) /\ Len(ix.parts) = j
  BY DEF SoundFor
<1>2. PICK g, c, t, n, b, q : /\ g = Tree(d) /\ c = KeyCall(d, ix, k) /\ t = g[c] /\ q = Partition(ix, k, t)
                              /\ n = Len(ix.nodes) /\ b = Len(ix.data)
  OBVIOUS
<1>3. /\ c \in Calls(d) /\ c.nodes = n /\ c.blocks = b /\ c.depth = 0
      /\ ToSet(c.members) = OfKey(d, k) /\ Len(c.members) >= 1 /\ Len(c.members) <= Count(d)
      /\ Once(c.members)
  BY <1>1, <1>2, KeyCalled
<1>4. new \in Indexes(d) /\ Grew(new, ix, q, t)
  BY <1>1, <1>2, Added
<1>5. Sized(ix) /\ Sized(new) /\ n \in Nat /\ b \in Nat
  BY <1>1, <1>2, <1>4, IndexFacts
<1>6. Roomy(c)
  <2>1. StackCap \in Nat /\ StackCap - 0 = StackCap /\ Holds[StackCap] \in Nat
    BY HoldsIs, KdSearchAssumption
  <2>2. Len(c.members) \in Nat /\ Count(d) \in Nat
    BY <1>3, CallFacts DEF Ascribed
  <2> QED BY <1>3, <2>1, <2>2 DEF Roomy, Fits
<1>7. Extends(new, ix) /\ LiesAt(new, t, n, b) /\ Len(new.nodes) = n + Len(t.nodes)
  BY <1>2, <1>4 DEF Grew
<1>8. \A i \in n .. n + Len(t.nodes) - 1 : NodeSound(d, new, i)
  <2>1. CallSound(g, d, new, c)
    BY <1>2, <1>3, <1>5, CallsSound
  <2> QED BY <1>2, <1>3, <1>6, <1>7, <2>1 DEF CallSound
<1>9. /\ Len(t.nodes) \in Nat \ {0} /\ t.nodes[1].members = OfKey(d, k) /\ t.nodes[1].depth = 0
  BY <1>2, <1>3, RootIs
<1>10. n \in NodeIds(new) /\ NodeAt(new, n) = t.nodes[1]
  BY <1>5, <1>7, <1>9, RootLies
<1>11. \A i \in NodeIds(ix) : NodeAt(new, i) = NodeAt(ix, i) /\ i \in NodeIds(new) /\ NodeSound(d, new, i)
  <2>1. \A i \in NodeIds(ix) : NodeSound(d, ix, i)
    BY DEF SoundFor
  <2> QED BY <1>5, <1>7, <2>1, StillSound
<1>12. \A i \in NodeIds(new) : NodeSound(d, new, i)
  <2> TAKE i \in NodeIds(new)
  <2>1. i \in NodeIds(ix) \/ i \in n .. n + Len(t.nodes) - 1
    <3>1. PICK m : m = Len(t.nodes) /\ m \in Nat
      BY <1>9
    <3>2. i \in 0 .. n + m - 1
      <4>1. i \in 0 .. Len(new.nodes) - 1
        BY DEF NodeIds
      <4>2. Len(new.nodes) = n + m
        BY <1>7, <3>1
      <4> QED BY <1>5, <3>1, <4>1, <4>2
    <3>3. i \in 0 .. n - 1 \/ i \in n .. n + m - 1
      BY <1>5, <3>1, <3>2
    <3> QED BY <1>2, <3>1, <3>3 DEF NodeIds
  <2> QED BY <1>8, <1>11, <2>1
<1>13. q.key = k /\ q.root = n /\ q.box = t.nodes[1].box
  BY <1>2 DEF Partition
<1>14. PartOf(d, new, q, k)
  BY <1>9, <1>10, <1>13 DEF PartOf
<1>15. \A p \in 1 .. j + 1 : PartOf(d, new, new.parts[p], ks[p])
  <2> TAKE p \in 1 .. j + 1
  <2>1. CASE p = j + 1
    BY <1>1, <1>4, <1>14, <2>1 DEF Grew
  <2>2. CASE p \in 1 .. j
    <3>1. PartOf(d, ix, ix.parts[p], ks[p])
      BY <2>2 DEF SoundFor
    <3>2. new.parts[p] = ix.parts[p]
      BY <1>1, <1>4, <2>2 DEF Grew
    <3> QED BY <1>11, <3>1, <3>2 DEF PartOf
  <2> QED BY <2>1, <2>2
<1>16. Len(new.parts) = j + 1
  BY <1>1, <1>4 DEF Grew
<1> QED BY <1>4, <1>12, <1>15, <1>16 DEF SoundFor

\* Build is AddPartition once for every key.
Builds(acc, d, ks, n) ==
  /\ acc[0] = EmptyIndex
  /\ \A j \in 1 .. n : acc[j] = AddPartition(d, acc[j - 1], ks[j])
  /\ Build(d) = acc[n]

LEMMA Built ==
  ASSUME NEW d, Ascribed(d), NEW ks, ks = Keys(d), NEW n, n = Len(ks)
  PROVE  \E acc : Builds(acc, d, ks, n)
<1>0. /\ n \in Nat /\ ks \in [1 .. n -> InUse(d)] /\ DOMAIN ks = 1 .. n
  <2>1. ks \in Seq(InUse(d)) /\ n \in Nat
    BY KeysAre
  <2> QED BY <2>1, SeqFacts
<1> DEFINE S == 1 .. n
           V == Indexes(d)
           Folded(g) == g = [s \in SUBSET S |->
                               IF s = {} THEN EmptyIndex ELSE AddPartition(d, g[s \ {Max(s)}], ks[Max(s)])]
           F == [k \in S |-> [v \in V |-> AddPartition(d, v, ks[k])]]
           pick == [s \in SUBSET S |-> Max(s)]
<1>1. Build(d) = (CHOOSE g : Folded(g))[S]
  BY <1>0 DEF Build, FoldLeft, MapThenFoldSet, EmptyIndex
<1>2. \E g : Folded(g)
  <2>1. IsFiniteSet(S) /\ \A s \in SUBSET S : s # {} => pick[s] \in s
    BY <1>0, LastOf
  <2>2. EmptyIndex \in V
    BY DEF EmptyIndex, Indexes
  <2>3. F \in [S -> [V -> V]]
    <3> SUFFICES ASSUME NEW v \in V, NEW k \in S PROVE AddPartition(d, v, ks[k]) \in V
      OBVIOUS
    <3>1. PICK e : e = ks[k] /\ e \in InUse(d)
      BY <1>0
    <3> QED BY <3>1, Added
  <2>4. PICK g \in [SUBSET S -> V] : FoldOf(g, F, EmptyIndex, pick, S)
    <3>1. FoldStep(F, EmptyIndex, pick, S, V)
      BY <2>1, <2>2, <2>3 DEF FoldStep
    <3> HIDE DEF F, pick, V, S
    <3> QED BY <3>1, FoldsExist
  <2>5. \A s \in SUBSET S :
          g[s] = IF s = {} THEN EmptyIndex ELSE AddPartition(d, g[s \ {Max(s)}], ks[Max(s)])
    <3> TAKE s \in SUBSET S
    <3>1. CASE s # {}
      <4>1. pick[s] = Max(s) /\ Max(s) \in s
        BY <2>1, <3>1
      <4>2. Max(s) \in S /\ g[s \ {Max(s)}] \in V
        BY <4>1
      <4>3. F[Max(s)][g[s \ {Max(s)}]] = AddPartition(d, g[s \ {Max(s)}], ks[Max(s)])
        BY <4>2
      <4> HIDE DEF F, pick, V
      <4> QED BY <2>4, <3>1, <4>1, <4>3 DEF FoldOf
    <3>2. CASE s = {}
      BY <2>4, <3>2 DEF FoldOf
    <3> QED BY <3>1, <3>2
  <2> HIDE DEF V
  <2>6. Folded(g)
    BY <2>5
  <2> QED BY <2>6
<1> DEFINE g == CHOOSE g : Folded(g)
<1>3. Folded(g)
  <2> HIDE DEF Folded
  <2> QED BY <1>2
<1> HIDE DEF g
<1>4. \A s \in SUBSET S :
        g[s] = IF s = {} THEN EmptyIndex ELSE AddPartition(d, g[s \ {Max(s)}], ks[Max(s)])
  BY <1>3
<1> DEFINE acc == [k \in 0 .. n |-> g[1 .. k]]
<1>5. acc[0] = EmptyIndex /\ acc[n] = g[S]
  <2>1. 1 .. 0 = {} /\ {} \in SUBSET S /\ 0 \in 0 .. n /\ n \in 0 .. n
    BY <1>0
  <2>2. g[{}] = EmptyIndex
    BY <1>4, <2>1
  <2> QED BY <2>1, <2>2
<1>6. \A k \in 1 .. n : acc[k] = AddPartition(d, acc[k - 1], ks[k])
  <2> TAKE k \in 1 .. n
  <2>1. Max(1 .. k) = k /\ (1 .. k) \ {k} = 1 .. k - 1 /\ 1 .. k \in SUBSET S
    BY <1>0, LastOf
  <2>2. k \in 1 .. k /\ k \in 0 .. n /\ k - 1 \in 0 .. n
    BY <1>0
  <2>3. g[1 .. k] = AddPartition(d, g[1 .. k - 1], ks[k])
    BY <1>4, <2>1, <2>2
  <2> QED BY <2>2, <2>3
<1>7. Build(d) = acc[n]
  BY <1>1, <1>5 DEF g
<1> HIDE DEF acc
<1>8. Builds(acc, d, ks, n)
  BY <1>5, <1>6, <1>7 DEF Builds
<1> QED BY <1>8

\* What Build returns.
LEMMA BuiltSound ==
  ASSUME NEW d, Ascribed(d), Fits(d), NEW ks, ks = Keys(d), NEW n, n = Len(ks)
  PROVE  SoundFor(d, Build(d), ks, n)
<1>0. /\ n \in Nat /\ ks \in [1 .. n -> InUse(d)]
  <2>1. ks \in Seq(InUse(d)) /\ n \in Nat
    BY KeysAre
  <2> QED BY <2>1, SeqFacts
<1>1. PICK acc : Builds(acc, d, ks, n)
  BY Built
<1>2. /\ acc[0] = EmptyIndex
      /\ \A j \in 1 .. n : acc[j] = AddPartition(d, acc[j - 1], ks[j])
      /\ Build(d) = acc[n]
  BY <1>1 DEF Builds
<1> DEFINE T == {j \in Nat : j <= n => SoundFor(d, acc[j], ks, j)}
<1>3. 0 \in T
  <2>1. EmptyIndex \in Indexes(d) /\ Len(EmptyIndex.parts) = 0 /\ NodeIds(EmptyIndex) = {}
    BY DEF EmptyIndex, Indexes, NodeIds
  <2>2. SoundFor(d, EmptyIndex, ks, 0)
    BY <2>1 DEF SoundFor
  <2> QED BY <1>2, <2>2
<1>4. ASSUME NEW j \in Nat, j \in T PROVE j + 1 \in T
  <2> SUFFICES ASSUME j + 1 <= n PROVE SoundFor(d, acc[j + 1], ks, j + 1)
    OBVIOUS
  <2>1. j <= n /\ j + 1 \in 1 .. n /\ (j + 1) - 1 = j
    BY <1>0
  <2>2. PICK k, ix, new : k = ks[j + 1] /\ ix = acc[j] /\ new = acc[j + 1]
    OBVIOUS
  <2>3. k \in InUse(d) /\ SoundFor(d, ix, ks, j) /\ new = AddPartition(d, ix, k)
    BY <1>0, <1>2, <1>4, <2>1, <2>2
  <2>4. SoundFor(d, new, ks, j + 1)
    BY <2>2, <2>3, PartAdded
  <2> QED BY <2>2, <2>4
<1> HIDE DEF T
<1>5. n \in T
  BY <1>0, <1>3, <1>4, Induction
<1> QED BY <1>0, <1>2, <1>5 DEF T

\* Build makes a tree for every key, whose leaves have room for all vectors.
LEMMA TreesBuilt ==
  ASSUME NEW d, Ascribed(d), Fits(d), NEW ix, ix = Build(d)
  PROVE  /\ TreesOf(d, ix)
         /\ \A n \in NodeIds(ix) : NodeSound(d, ix, n)
<1>1. PICK ks, n : ks = Keys(d) /\ n = Len(ks)
  OBVIOUS
<1>2. SoundFor(d, ix, ks, n)
  BY <1>1, BuiltSound
<1>3. /\ n \in Nat /\ \A k \in InUse(d) : \E p \in 1 .. n : ks[p] = k
      /\ \A p, r \in 1 .. n : ks[p] = ks[r] => p = r
  BY <1>1, KeysAre
<1>4. /\ Len(ix.nodes) \in Nat /\ Len(ix.data) \in Nat /\ Len(ix.parts) = n /\ DOMAIN ix.parts = 1 .. n
  <2>1. ix \in Indexes(d) /\ Len(ix.parts) = n
    BY <1>2 DEF SoundFor
  <2>2. ix.parts \in Seq(Directory(d)) /\ Len(ix.nodes) \in Nat /\ Len(ix.data) \in Nat
    BY <2>1, IndexFacts
  <2>3. DOMAIN ix.parts = 1 .. Len(ix.parts)
    BY <2>2, SeqFacts
  <2> QED BY <2>1, <2>2, <2>3
<1>5. \A p \in 1 .. n : PartOf(d, ix, ix.parts[p], ks[p])
  BY <1>2 DEF SoundFor
<1>6. \A p \in 1 .. n :
        /\ ix.parts[p].root \in NodeIds(ix) /\ NodeAt(ix, ix.parts[p].root).depth = 0
        /\ ix.parts[p].box = NodeAt(ix, ix.parts[p].root).box
        /\ \A m \in (1 .. n) \ {p} :
             /\ ix.parts[p].key # ix.parts[m].key
             /\ NodeAt(ix, ix.parts[p].root).members \cap NodeAt(ix, ix.parts[m].root).members = {}
  <2> TAKE p \in 1 .. n
  <2>1. \A m \in 1 .. n : ix.parts[m].key = ks[m]
    BY <1>5 DEF PartOf
  <2>2. \A m \in (1 .. n) \ {p} : ix.parts[p].key # ix.parts[m].key
    BY <1>3, <2>1
  <2>3. \A m \in (1 .. n) \ {p} :
          NodeAt(ix, ix.parts[p].root).members \cap NodeAt(ix, ix.parts[m].root).members = {}
    <3> TAKE m \in (1 .. n) \ {p}
    <3>1. ks[p] # ks[m]
      BY <1>3
    <3>2. OfKey(d, ks[p]) \cap OfKey(d, ks[m]) = {}
      BY <3>1 DEF OfKey
    <3>3. /\ NodeAt(ix, ix.parts[p].root).members = OfKey(d, ks[p])
          /\ NodeAt(ix, ix.parts[m].root).members = OfKey(d, ks[m])
      BY <1>5 DEF PartOf
    <3> QED BY <3>2, <3>3
  <2> QED BY <1>5, <2>2, <2>3 DEF PartOf
<1>7. \A i \in 1 .. Count(d) : \E p \in 1 .. n : i \in NodeAt(ix, ix.parts[p].root).members
  <2> TAKE i \in 1 .. Count(d)
  <2>1. PICK k : k = PartitionKey(d.vec[i])
    OBVIOUS
  <2>2. k \in InUse(d) /\ i \in OfKey(d, k)
    BY <2>1 DEF InUse, OfKey
  <2>3. PICK p \in 1 .. n : ks[p] = k
    BY <1>3, <2>2
  <2>4. NodeAt(ix, ix.parts[p].root).members = OfKey(d, k)
    BY <1>5, <2>3 DEF PartOf
  <2> QED BY <2>2, <2>4
<1>8. \A i \in NodeIds(ix) : NodeSound(d, ix, i)
  BY <1>2 DEF SoundFor
<1>9. \A i \in NodeIds(ix) :
        /\ NodeAt(ix, i).depth \in Nat /\ NodeAt(ix, i).members \subseteq 1 .. Count(d)
        /\ IF IsLeaf(NodeAt(ix, i)) THEN LeafOf(ix, i) ELSE InnerOf(ix, i)
  BY <1>8 DEF NodeSound
<1>10. TreesOf(d, ix)
  <2>1. PICK D : D = 1 .. n
    OBVIOUS
  <2>2. DOMAIN ix.parts = D /\ D = 1 .. Len(ix.parts)
    BY <1>4, <2>1
  <2>3. \A p \in D :
          /\ ix.parts[p].root \in NodeIds(ix) /\ NodeAt(ix, ix.parts[p].root).depth = 0
          /\ ix.parts[p].box = NodeAt(ix, ix.parts[p].root).box
          /\ \A m \in D \ {p} :
               /\ ix.parts[p].key # ix.parts[m].key
               /\ NodeAt(ix, ix.parts[p].root).members \cap NodeAt(ix, ix.parts[m].root).members = {}
    BY <1>6, <2>1
  <2>4. \A i \in 1 .. Count(d) : \E p \in D : i \in NodeAt(ix, ix.parts[p].root).members
    BY <1>7, <2>1
  <2>5. \A p \in DOMAIN ix.parts :
          /\ ix.parts[p].root \in NodeIds(ix) /\ NodeAt(ix, ix.parts[p].root).depth = 0
          /\ ix.parts[p].box = NodeAt(ix, ix.parts[p].root).box
          /\ \A m \in DOMAIN ix.parts \ {p} :
               /\ ix.parts[p].key # ix.parts[m].key
               /\ NodeAt(ix, ix.parts[p].root).members \cap NodeAt(ix, ix.parts[m].root).members = {}
    BY <2>2, <2>3
  <2>6. \A i \in 1 .. Count(d) : \E p \in DOMAIN ix.parts : i \in NodeAt(ix, ix.parts[p].root).members
    BY <2>2, <2>4
  <2> QED BY <1>3, <1>4, <1>9, <2>2, <2>5, <2>6 DEF TreesOf
<1> QED BY <1>8, <1>10

\* No box of an index promises a distance that one of its vectors undercuts.
LEMMA BoxesBuilt ==
  ASSUME NEW d, Ascribed(d), Fits(d), NEW ix, ix = Build(d), NEW q \in [Axes -> Int],
         \A i \in 0 .. Count(d) : Dist(q, At(d, i)) + FloatError < Infinity
  PROVE  BoxesOf(d, ix, q)
<1> SUFFICES ASSUME NEW n \in NodeIds(ix), NEW v, v = NodeAt(ix, n)
             PROVE  /\ BoxBound(q, v.box) \in 0 .. Infinity - FloatError
                    /\ \A i \in v.members : BoxBound(q, v.box) <= Dist(q, d.vec[i])
  BY DEF BoxesOf
<1>1. /\ v.members \in SUBSET (1 .. Count(d)) /\ v.members # {} /\ v.box = BoxOf(d, v.members)
  BY TreesBuilt DEF NodeSound
<1>2. PICK S, box : S = v.members /\ box = v.box /\ S \in SUBSET (1 .. Count(d)) /\ box = BoxOf(d, S)
  BY <1>1
<1>3. ASSUME NEW i \in S
      PROVE  /\ BoxBound(q, box) \in Nat /\ BoxBound(q, box) <= Dist(q, d.vec[i])
             /\ Dist(q, d.vec[i]) + FloatError < Infinity /\ Dist(q, d.vec[i]) \in Nat
  <2>1. \A a \in Axes : /\ box.lo[a] \in Int /\ box.hi[a] \in Int
                        /\ box.lo[a] <= d.vec[i][a] /\ d.vec[i][a] <= box.hi[a]
    BY <1>2, BoxAround
  <2>2. d.vec[i] \in [Axes -> Int] /\ i \in 1 .. Count(d) /\ Dims \in Nat
    BY <1>2, KdSearchAssumption DEF Ascribed
  <2>3. PICK w : w = d.vec[i] /\ w \in [Axes -> Int]
    BY <2>2
  <2>4. BoxBound(q, box) \in Nat
    BY <2>1, <2>2, BoundNat
  <2>5. BoxBound(q, box) <= Dist(q, w) /\ Dist(q, w) \in Nat
    BY <2>1, <2>2, <2>3, BoxSound, DistNat
  <2>6. i \in 0 .. Count(d) /\ At(d, i) = w
    BY <2>2, <2>3 DEF At, Ascribed
  <2> QED BY <2>3, <2>4, <2>5, <2>6
<1>4. PICK i \in S : TRUE
  BY <1>1, <1>2
<1>5. BoxBound(q, box) \in 0 .. Infinity - FloatError
  BY <1>3, <1>4, KdSearchAssumption
<1> QED BY <1>2, <1>3, <1>5

-----------------------------------------------------------------------------
(* Types and shape.                                                        *)

Hypotheses == DistancesFit /\ TreesFit

Visits == [node : Nat, bound : Nat]
Members(n) == NodeAt(index, n).members
Depth(n) == NodeAt(index, n).depth

TopTyped == \A s \in Slots : /\ top[s].d \in 0 .. Infinity /\ top[s].label \in {0, 1}
                             /\ top[s].id \in 0 .. Count(ds)

\* What is left to visit belongs to the index.
Visitable ==
  /\ todo \in Seq(Visits) /\ stack \in Seq(Visits) /\ cur \in Visits
  /\ \A j \in DOMAIN todo : todo[j].node \in NodeIds(index)
  /\ \A j \in DOMAIN stack : stack[j].node \in NodeIds(index)
  /\ pc \in {"node", "block", "lane"} => cur.node \in NodeIds(index)

\* What is on the stack at each place of FraudCount, and in the queue.
Phases ==
  /\ pc \in {"same", "collect", "next", "done"} => stack = <<>>
  /\ pc \in {"same", "collect"} => caller = "collect"
  /\ pc \in {"next", "done"} => caller = "next"
  /\ pc = "done" \/ caller = "collect" => todo = <<>>

\* Where the scan of a leaf is.
Scanning ==
  /\ pc \in {"block", "lane"} => IsLeaf(CurNode)
  /\ pc = "block" => blk \in CurNode.start .. LeafEnd
  /\ pc = "lane" => /\ blk \in CurNode.start .. LeafEnd - 1 /\ lane \in 1 .. Lanes
                    /\ WorstF32 <= thr

\* A visit put off lies deeper than all those below it on the stack.
Deep ==
  /\ \A j \in DOMAIN stack : Depth(stack[j].node) >= j
  /\ pc = "node" => Depth(cur.node) >= Len(stack)

Shape ==
  /\ ds \in Datasets /\ index = Build(ds) /\ query \in Queries
  /\ TopTyped /\ Ascending(top)
  /\ caller \in {"collect", "next"} /\ thr \in 0 .. MaxWorst
  /\ pc \in {"start", "same", "collect", "next", "node", "pop", "block", "lane", "done"}
  /\ Len(stack) <= StackCap
  /\ Visitable /\ Phases /\ Scanning /\ Deep

\* The assumptions, of one dataset.
LEMMA Given ==
  ASSUME NEW d \in Datasets
  PROVE  Ascribed(d) /\ Count(d) \in Nat /\ d.label \in [1 .. Count(d) -> {0, 1}]
<1>1. d.vec \in Seq(Points) /\ d.label \in [1 .. Count(d) -> {0, 1}]
  BY KdSearchAssumption
<1>2. Count(d) \in Nat /\ d.vec \in [1 .. Count(d) -> Points]
  BY <1>1, SeqFacts DEF Count
<1> QED BY <1>1, <1>2 DEF Ascribed, Points

\* The index in use is one Build made.
LEMMA IndexHere ==
  ASSUME Hypotheses, ds \in Datasets, query \in Queries, index = Build(ds)
  PROVE  TreesOf(ds, index) /\ BoxesOf(ds, index, query)
<1>1. Ascribed(ds) /\ Fits(ds)
  BY Given DEF Hypotheses, TreesFit, Fits
<1>2. query \in [Axes -> Int]
  BY KdSearchAssumption DEF Points
<1>3. \A i \in 0 .. Count(ds) : Dist(query, At(ds, i)) + FloatError < Infinity
  BY DEF Hypotheses, DistancesFit
<1> QED BY <1>1, <1>2, <1>3, TreesBuilt, BoxesBuilt

\* The distance of a lane fits.
LEMMA DistHere ==
  ASSUME Hypotheses, ds \in Datasets, query \in Queries, NEW i \in 0 .. Count(ds)
  PROVE  Dist(query, At(ds, i)) \in 0 .. Infinity - 1
<1>1. PICK v : v = At(ds, i)
  OBVIOUS
<1>2. v \in [Axes -> Int] /\ query \in [Axes -> Int]
  <2>1. i # 0 => i \in 1 .. Count(ds)
    BY Given
  <2>2. PadPoint \in [Axes -> Int]
    BY KdSearchAssumption DEF PadPoint
  <2>3. \A j \in 1 .. Count(ds) : ds.vec[j] \in [Axes -> Int]
    BY Given DEF Ascribed
  <2> QED BY <1>1, <2>1, <2>2, <2>3, KdSearchAssumption DEF At, Points
<1>3. Dist(query, v) \in Nat
  BY <1>2, DistNat, KdSearchAssumption
<1>4. Dist(query, v) + FloatError < Infinity
  BY <1>1 DEF Hypotheses, DistancesFit
<1> QED BY <1>1, <1>3, <1>4, KdSearchAssumption

\* The constants and the top five have the ranges the code gives them.
LEMMA Ranges ==
  ASSUME Shape
  PROVE  /\ Good(top) /\ Ascending(top) /\ Worst(top) \in 0 .. Infinity
         /\ KernelSafety \in Nat /\ FloatError \in Nat /\ FloatError <= KernelSafety
         /\ Infinity \in Nat /\ Count(ds) \in Nat /\ Lanes \in Nat \ {0} /\ StackCap \in Nat
         /\ WorstF32 \in 0 .. MaxWorst
<1>1. Good(top) BY DEF Shape, TopTyped, Good
<1>2. Worst(top) \in 0 .. Infinity BY <1>1 DEF Good, Worst, Slots
<1>3. Count(ds) \in Nat BY Given DEF Shape
<1>4. WorstF32 \in 0 .. MaxWorst BY <1>2, KdSearchAssumption DEF WorstF32, MaxWorst
<1>5. QED BY <1>1, <1>2, <1>3, <1>4, KdSearchAssumption DEF Shape

\* The trees of the index in use.
LEMMA TreesHere ==
  ASSUME Hypotheses, Shape
  PROVE  /\ Len(index.nodes) \in Nat /\ Len(index.data) \in Nat /\ Len(Parts) \in Nat
         /\ DOMAIN Parts = 1 .. Len(Parts)
         /\ \A k \in DOMAIN Parts :
              /\ Parts[k].root \in NodeIds(index) /\ Depth(Parts[k].root) = 0
              /\ Parts[k].box = NodeAt(index, Parts[k].root).box
              /\ \A m \in DOMAIN Parts \ {k} : /\ Parts[k].key # Parts[m].key
                                               /\ Members(Parts[k].root) \cap Members(Parts[m].root) = {}
         /\ \A n \in NodeIds(index) : /\ n \in Nat /\ Depth(n) \in Nat /\ Members(n) \subseteq Ids
                                      /\ IF IsLeaf(NodeAt(index, n)) THEN LeafOf(index, n)
                                         ELSE InnerOf(index, n)
         /\ \A i \in Ids : \E k \in DOMAIN Parts : i \in Members(Parts[k].root)
<1>1. TreesOf(ds, index) BY IndexHere DEF Shape
<1>2. \A n \in NodeIds(index) : n \in Nat BY DEF NodeIds
<1>3. QED BY <1>1, <1>2 DEF TreesOf, Parts, Members, Depth, Ids

\* The bounds of the query in use.
LEMMA BoundsHere ==
  ASSUME Hypotheses, Shape, NEW n \in NodeIds(index), NEW b \in LowerBounds(NodeAt(index, n).box)
  PROVE  /\ b \in Nat /\ b < Infinity + 1
         /\ \A i \in Members(n) : b <= Dist(query, ds.vec[i]) + FloatError
<1> DEFINE e == BoxBound(query, NodeAt(index, n).box)
<1>1. /\ e \in 0 .. Infinity - FloatError
      /\ \A i \in Members(n) : e <= Dist(query, ds.vec[i])
  BY IndexHere DEF BoxesOf, Shape, Members
<1>2. b \in IF e = 0 THEN {0} ELSE {m \in e - FloatError .. e + FloatError : m >= 0}
  BY DEF LowerBounds
<1> HIDE DEF e
<1>3. b \in Nat /\ b <= e + FloatError BY <1>1, <1>2, Ranges
<1>4. ASSUME NEW i \in Members(n) PROVE Dist(query, ds.vec[i]) \in Int
  <2>1. i \in 1 .. Count(ds) BY TreesHere DEF Ids
  <2>2. At(ds, i) = ds.vec[i] /\ i \in 0 .. Count(ds) BY <2>1, Ranges DEF At
  <2>3. QED BY <2>2, DistHere DEF Shape
<1>5. QED BY <1>1, <1>3, <1>4, Ranges

\* A lane in hand holds a vector or the padding.
LEMMA LaneFacts ==
  ASSUME Hypotheses, Shape, pc = "lane"
  PROVE  /\ blk \in Nat /\ CurNode.start \in Nat /\ LeafEnd \in Nat /\ LeafEnd <= Len(index.data)
         /\ blk \in CurNode.start .. LeafEnd - 1 /\ lane \in 1 .. Lanes
         /\ LaneId \in {0} \cup Members(cur.node) /\ LaneId \in 0 .. Count(ds)
         /\ LaneDist \in 0 .. Infinity - 1 /\ Label(ds, LaneId) \in {0, 1}
<1>1. /\ blk \in CurNode.start .. LeafEnd - 1 /\ lane \in 1 .. Lanes /\ IsLeaf(CurNode)
      /\ cur.node \in NodeIds(index)
  BY DEF Shape, Scanning, Visitable
<1>2. LeafOf(index, cur.node) BY <1>1, TreesHere DEF CurNode
<1>3. CurNode.start \in Nat /\ LeafEnd \in CurNode.start .. Len(index.data)
  BY <1>2 DEF LeafOf, CurNode, LeafEnd
<1>4. LaneId \in {0} \cup Members(cur.node) /\ LaneId \in 0 .. Count(ds)
  <2>1. \A b \in CurNode.start .. LeafEnd - 1, l \in 1 .. Lanes :
          LanesOf(index, b)[l] \in {0} \cup Members(cur.node)
    BY <1>2 DEF LeafOf, CurNode, LeafEnd, Members
  <2>2. LaneId \in {0} \cup Members(cur.node) BY <1>1, <2>1 DEF LaneId
  <2>3. Members(cur.node) \subseteq Ids BY <1>1, TreesHere
  <2>4. 0 \in 0 .. Count(ds) /\ Ids \subseteq 0 .. Count(ds) BY Ranges DEF Ids
  <2>5. QED BY <2>2, <2>3, <2>4
<1>5. LaneDist \in 0 .. Infinity - 1
  BY <1>4, DistHere DEF LaneDist, Shape
<1>6. Label(ds, LaneId) \in {0, 1}
  <2>1. ds.label \in [1 .. Count(ds) -> {0, 1}] BY Given DEF Shape
  <2>2. LaneId # 0 => LaneId \in 1 .. Count(ds) BY <1>4, Ranges
  <2>3. QED BY <2>1, <2>2 DEF Label
<1>7. Len(index.data) \in Nat BY TreesHere
<1>8. QED BY <1>1, <1>3, <1>4, <1>5, <1>6, <1>7

\* A leaf has a block range of its own, with one lane for each of its vectors.
LEMMA LeafFacts ==
  ASSUME Hypotheses, Shape, pc \in {"node", "block", "lane"}, IsLeaf(CurNode)
  PROVE  /\ CurNode.start \in Nat /\ LeafEnd \in CurNode.start .. Len(index.data)
         /\ \A i \in Members(cur.node) :
              \E b \in CurNode.start .. LeafEnd - 1, l \in 1 .. Lanes : LanesOf(index, b)[l] = i
         /\ \A b \in CurNode.start .. LeafEnd - 1, l \in 1 .. Lanes :
              LanesOf(index, b)[l] \in {0} \cup Members(cur.node)
         /\ OneLaneEach(index, CurNode.start .. LeafEnd - 1)
<1>1. LeafOf(index, cur.node) BY TreesHere DEF CurNode, Shape, Visitable
<1>2. CurNode.start \in Nat /\ LeafEnd \in CurNode.start .. Len(index.data)
  BY <1>1 DEF LeafOf, CurNode, LeafEnd
<1>3. \A i \in Members(cur.node) :
        \E b \in CurNode.start .. LeafEnd - 1, l \in 1 .. Lanes : LanesOf(index, b)[l] = i
  BY <1>1 DEF LeafOf, CurNode, LeafEnd, Members
<1>4. /\ \A b \in CurNode.start .. LeafEnd - 1, l \in 1 .. Lanes :
           LanesOf(index, b)[l] \in {0} \cup Members(cur.node)
      /\ OneLaneEach(index, CurNode.start .. LeafEnd - 1)
  BY <1>1 DEF LeafOf, CurNode, LeafEnd, Members
<1>5. QED BY <1>2, <1>3, <1>4

\* An inner node's children lie in the index, one level deeper, and divide
\* its vectors between them.
LEMMA InnerFacts ==
  ASSUME Hypotheses, Shape, pc = "node", ~IsLeaf(CurNode)
  PROVE  /\ CurNode.left \in NodeIds(index) /\ CurNode.right \in NodeIds(index)
         /\ Depth(CurNode.left) = Depth(cur.node) + 1 /\ Depth(CurNode.right) = Depth(cur.node) + 1
         /\ Depth(cur.node) \in Nat /\ Depth(cur.node) + 1 <= StackCap
         /\ Members(cur.node) = Members(CurNode.left) \cup Members(CurNode.right)
         /\ Members(CurNode.left) \cap Members(CurNode.right) = {}
<1>1. InnerOf(index, cur.node) /\ Depth(cur.node) \in Nat
  BY TreesHere DEF CurNode, Shape, Visitable
<1>2. QED BY <1>1 DEF InnerOf, CurNode, Members, Depth

\* The tree walk has room for every visit it puts off.
LEMMA RoomOnStack ==
  ASSUME Hypotheses, Shape, pc = "node", ~IsLeaf(CurNode)
  PROVE  Len(stack) \in Nat /\ Len(stack) < StackCap
<1>1. stack \in Seq(Visits) /\ Depth(cur.node) >= Len(stack) BY DEF Shape, Visitable, Deep
<1>2. QED BY <1>1, InnerFacts, Ranges

\* What Append and cutting the last element off do to a sequence.
LEMMA PushFacts ==
  ASSUME NEW S, NEW s \in Seq(S), NEW v \in S
  PROVE  /\ Append(s, v) \in Seq(S) /\ Len(s) \in Nat /\ Len(Append(s, v)) = Len(s) + 1
         /\ DOMAIN s = 1 .. Len(s) /\ DOMAIN Append(s, v) = 1 .. Len(s) + 1
         /\ \A j \in 1 .. Len(s) : Append(s, v)[j] = s[j]
         /\ Append(s, v)[Len(s) + 1] = v
OBVIOUS

LEMMA PopFacts ==
  ASSUME NEW S, NEW s \in Seq(S), s # <<>>
  PROVE  LET q == SubSeq(s, 1, Len(s) - 1)
         IN  /\ q \in Seq(S) /\ Len(s) \in Nat \ {0} /\ Len(q) = Len(s) - 1
             /\ DOMAIN s = 1 .. Len(s) /\ DOMAIN q = 1 .. Len(s) - 1
             /\ \A j \in 1 .. Len(s) - 1 : q[j] = s[j]
             /\ Len(s) \in DOMAIN s /\ s[Len(s)] \in S
<1> DEFINE n == Len(s) - 1
<1> DEFINE q == SubSeq(s, 1, n)
<1>1. Len(s) \in Nat \ {0} /\ DOMAIN s = 1 .. Len(s) /\ s[Len(s)] \in S OBVIOUS
<1>2. n \in Int /\ n >= 0 BY <1>1
<1>3. \A j \in 1 .. n : s[j] \in S BY <1>1
<1>4. /\ q \in Seq(S) /\ Len(q) = (IF 1 <= n THEN n - 1 + 1 ELSE 0)
      /\ \A j \in 1 .. n - 1 + 1 : q[j] = s[1 + j - 1]
  <2> HIDE DEF n
  <2>1. QED BY <1>2, <1>3, SubSeqProperties
<1> HIDE DEF q
<1>5. Len(q) = n /\ (\A j \in 1 .. n : q[j] = s[j]) /\ DOMAIN q = 1 .. n
  <2> HIDE DEF n
  <2>1. Len(q) = n BY <1>2, <1>4
  <2>2. \A j \in 1 .. n : q[j] = s[j] BY <1>2, <1>4
  <2>3. QED BY <1>4, <2>1, <2>2
<1>6. QED BY <1>1, <1>4, <1>5 DEF q

\* What Head and Tail give.
LEMMA TailFacts ==
  ASSUME NEW S, NEW s \in Seq(S), s # <<>>
  PROVE  /\ Head(s) \in S /\ Tail(s) \in Seq(S) /\ Head(s) = s[1] /\ Len(s) \in Nat \ {0}
         /\ DOMAIN s = 1 .. Len(s) /\ DOMAIN Tail(s) = 1 .. Len(s) - 1
         /\ \A j \in 1 .. Len(s) - 1 : Tail(s)[j] = s[j + 1]
BY HeadTailProperties

\* The queue Collect makes: the other trees, each once, by their bounds.
QueueFor(p, b) == [j \in DOMAIN p |-> Visit(Parts[p[j]].root, b[p[j]])]

QueueOf(q) ==
  /\ q \in Seq(Visits)
  /\ \A j \in DOMAIN q : \E k \in Others : /\ q[j].node = Parts[k].root
                                           /\ q[j].bound \in LowerBounds(Parts[k].box)
  /\ \A i, j \in DOMAIN q : i < j => q[i].bound <= q[j].bound
  /\ \A k \in Others : \E j \in DOMAIN q : q[j].node = Parts[k].root
  /\ \A i, j \in DOMAIN q : i # j => Members(q[i].node) \cap Members(q[j].node) = {}

LEMMA QueueFacts ==
  ASSUME Hypotheses, Shape, NEW b \in BoundsOf(Others), NEW p \in Orders(Others, b),
         NEW q, q = QueueFor(p, b)
  PROVE  QueueOf(q)
<1> USE DEF QueueFor
<1>1. Others \subseteq 1 .. Len(Parts) /\ Len(Parts) \in Nat BY TreesHere DEF Others
<1>2. Cardinality(Others) \in Nat
  <2>1. IsFiniteSet(1 .. Len(Parts)) BY <1>1, FS_Interval
  <2>2. QED BY <1>1, <2>1, FS_Subset, FS_CardinalityType
<1>3. /\ p \in [1 .. Cardinality(Others) -> Others] /\ ToSet(p) = Others
      /\ \A i, j \in DOMAIN p : i < j => b[p[i]] < b[p[j]] \/ (b[p[i]] = b[p[j]] /\ p[i] < p[j])
  BY DEF Orders
<1>4. \A k \in Others : b[k] \in LowerBounds(Parts[k].box) BY DEF BoundsOf
<1>5. ASSUME NEW k \in Others PROVE Parts[k].root \in Nat /\ b[k] \in Nat
  <2>1. Parts[k].root \in NodeIds(index) /\ Parts[k].root \in Nat
        /\ Parts[k].box = NodeAt(index, Parts[k].root).box
    BY <1>1, TreesHere
  <2>2. QED BY <1>4, <2>1, BoundsHere
<1>6. \A j \in DOMAIN p : /\ p[j] \in Others /\ q[j] = Visit(Parts[p[j]].root, b[p[j]])
                          /\ q[j].node = Parts[p[j]].root /\ q[j].bound = b[p[j]]
  BY <1>3 DEF Visit
<1>7. q \in Seq(Visits)
  <2>1. \A j \in 1 .. Cardinality(Others) : q[j] \in Visits BY <1>3, <1>5, <1>6 DEF Visit, Visits
  <2>2. q \in [1 .. Cardinality(Others) -> Visits] BY <1>3, <2>1
  <2>3. QED BY <1>2, <2>2
<1>8. \A i, j \in DOMAIN q : i < j => q[i].bound <= q[j].bound
  <2>1. DOMAIN q = DOMAIN p OBVIOUS
  <2>2. \A j \in DOMAIN q : b[p[j]] \in Nat BY <1>5, <1>6, <2>1
  <2>3. QED BY <1>3, <1>6, <2>1, <2>2
<1>9. \A k \in Others : \E j \in DOMAIN p : p[j] = k BY <1>3 DEF ToSet
<1>10. ASSUME NEW i \in DOMAIN q, NEW j \in DOMAIN q, i # j
       PROVE  Members(q[i].node) \cap Members(q[j].node) = {}
  <2>1. /\ i \in DOMAIN p /\ j \in DOMAIN p /\ i \in Int /\ j \in Int
        /\ b[p[i]] \in Nat /\ b[p[j]] \in Nat /\ p[i] \in Int /\ p[j] \in Int
    BY <1>1, <1>2, <1>3, <1>5, <1>6
  <2>2. i < j \/ j < i BY <1>10, <2>1
  <2>3. p[i] # p[j] BY <1>3, <2>1, <2>2
  <2>4. /\ p[i] \in DOMAIN Parts /\ p[j] \in DOMAIN Parts \ {p[i]}
        /\ q[i].node = Parts[p[i]].root /\ q[j].node = Parts[p[j]].root
    BY <1>6, <2>1, <2>3 DEF Others
  <2>5. Members(Parts[p[i]].root) \cap Members(Parts[p[j]].root) = {} BY <2>4, TreesHere
  <2>6. QED BY <2>4, <2>5
<1>11. ASSUME NEW j \in DOMAIN q
       PROVE  \E k \in Others : q[j].node = Parts[k].root /\ q[j].bound \in LowerBounds(Parts[k].box)
  <2>1. j \in DOMAIN p OBVIOUS
  <2>2. PICK k : k = p[j] OBVIOUS
  <2>3. k \in Others /\ q[j].node = Parts[k].root /\ q[j].bound = b[k] BY <1>6, <2>1, <2>2
  <2>4. b[k] \in LowerBounds(Parts[k].box) BY <1>4, <2>3
  <2>5. QED BY <2>3, <2>4
<1>12. ASSUME NEW k \in Others PROVE \E j \in DOMAIN q : q[j].node = Parts[k].root
  BY <1>6, <1>9
<1>13. QED BY <1>7, <1>8, <1>10, <1>11, <1>12 DEF QueueOf

\* A query starts with everything in range.
LEMMA InitShape == ASSUME Hypotheses, Init PROVE Shape
<1>1. \A s \in Slots : top[s].d = 0 /\ top[s].label = 0 /\ top[s].id = 0
  BY DEF Init, ZeroTop, Slot
<1>2. Infinity \in Nat /\ KernelSafety \in Nat /\ StackCap \in Nat /\ Count(ds) \in Nat
  BY KdSearchAssumption, Given DEF Init
<1>3. TopTyped /\ Ascending(top) BY <1>1, <1>2 DEF TopTyped, Ascending, Slots
<1>4. Visitable /\ Phases /\ Scanning /\ Deep
  BY DEF Init, Visitable, Phases, Scanning, Deep, Nowhere, Visit, Visits
<1>5. QED BY <1>2, <1>3, <1>4 DEF Init, Shape, MaxWorst

\* Every step keeps everything in range.
LEMMA NextShape == ASSUME Hypotheses, Shape, [Next]_vars PROVE Shape'
<1> USE DEF call, scan
<1>0. /\ ds \in Datasets /\ index = Build(ds) /\ query \in Queries
      /\ TopTyped /\ Ascending(top) /\ caller \in {"collect", "next"} /\ thr \in 0 .. MaxWorst
      /\ todo \in Seq(Visits) /\ stack \in Seq(Visits) /\ cur \in Visits
      /\ Len(stack) <= StackCap /\ Len(stack) \in Nat
  BY DEF Shape, Visitable
<1>1. CASE Start
  <2>1. \A s \in Slots : top'[s].d = Infinity /\ top'[s].label = 0 /\ top'[s].id = 0
    BY <1>1 DEF Start, ResetTop, Slot
  <2>2. TopTyped' /\ Ascending(top)'
    <3>1. Infinity \in Nat /\ Count(ds) \in Nat /\ Count(ds)' = Count(ds)
      BY <1>1, Ranges DEF Start
    <3>2. TopTyped' BY <2>1, <3>1 DEF TopTyped
    <3>3. Ascending(top)' BY <2>1, <3>1 DEF Ascending, Slots
    <3>4. QED BY <3>2, <3>3
  <2>3. (Visitable /\ Phases /\ Scanning /\ Deep)'
    <3>1. /\ todo' = <<>> /\ stack' = <<>> /\ cur' = Visit(0, 0) /\ caller' = "collect" /\ pc' = "same"
          /\ UNCHANGED <<ds, index, query>>
      BY <1>1 DEF Start, Nowhere
    <3>2. Visit(0, 0) \in Visits /\ <<>> \in Seq(Visits) /\ DOMAIN <<>> = {} BY DEF Visit, Visits
    <3>3. Visitable' BY <3>1, <3>2 DEF Visitable
    <3>4. (Phases /\ Scanning /\ Deep)' BY <3>1, <3>2 DEF Phases, Scanning, Deep
    <3>5. QED BY <3>3, <3>4
  <2>4. QED BY <1>0, <1>1, <2>2, <2>3, Ranges DEF Start, Shape, MaxWorst
<1>2. CASE SearchSame
  <2>1. PICK k \in SameKey : \E b \in LowerBounds(Parts[k].box) : cur' = Visit(Parts[k].root, b)
    BY <1>2 DEF SearchSame
  <2>2. k \in DOMAIN Parts BY <2>1 DEF SameKey, ByKey, Parts
  <2>3. /\ cur' \in Visits /\ cur'.node = Parts[k].root /\ cur'.node \in NodeIds(index)
        /\ Depth(cur'.node) = 0
    BY <2>1, <2>2, TreesHere, BoundsHere DEF Visit, Visits
  <2>4. QED BY <1>0, <1>2, <2>3 DEF SearchSame, Shape, TopTyped, Visitable, Phases, Scanning, Deep,
      Depth
<1>3. CASE PassSame
  BY <1>0, <1>3 DEF PassSame, Shape, TopTyped, Visitable, Phases, Scanning, Deep, Depth
<1>4. CASE Collect
  <2>1. PICK b \in BoundsOf(Others) : \E p \in Orders(Others, b) : todo' = QueueFor(p, b)
    BY <1>4 DEF Collect, QueueFor
  <2>2. QueueOf(todo') BY <2>1, QueueFacts
  <2>3. /\ todo' \in Seq(Visits)
        /\ \A j \in DOMAIN todo' : \E k \in Others : todo'[j].node = Parts[k].root
    BY <2>2 DEF QueueOf
  <2>4. \A j \in DOMAIN todo' : todo'[j].node \in NodeIds(index) BY <2>3, TreesHere DEF Others
  <2>5. QED BY <1>0, <1>4, <2>3, <2>4
    DEF Collect, Shape, TopTyped, Visitable, Phases, Scanning, Deep, Depth
<1>5. CASE SearchNext
  <2>1. /\ todo' = Tail(todo) /\ cur' = Head(todo) /\ todo # <<>> /\ stack' = <<>> /\ pc = "next"
        /\ pc' = "node" /\ UNCHANGED <<ds, index, query, top, caller, blk, lane, thr>>
    BY <1>5 DEF SearchNext
  <2>2. /\ cur' \in Visits /\ todo' \in Seq(Visits) /\ cur'.node \in NodeIds(index)
        /\ \A j \in DOMAIN todo' : todo'[j].node \in NodeIds(index)
    <3>1. \A j \in DOMAIN todo : todo[j].node \in NodeIds(index) BY DEF Shape, Visitable
    <3>2. QED BY <1>0, <2>1, <3>1, TailFacts
  <2>3. Depth(cur'.node) \in Nat BY <2>2, TreesHere
  <2>4. caller = "next" BY <2>1 DEF Shape, Phases
  <2>5. QED BY <1>0, <2>1, <2>2, <2>3, <2>4, Ranges
    DEF Shape, TopTyped, Visitable, Phases, Scanning, Deep, Depth
<1>6. CASE Stop
  BY <1>0, <1>6 DEF Stop, Shape, TopTyped, Visitable, Phases, Scanning, Deep, Depth
<1>7. CASE TooFar
  BY <1>0, <1>7 DEF TooFar, Shape, TopTyped, Visitable, Phases, Scanning, Deep, Depth
<1>8. CASE EnterLeaf
  <2>1. CurNode.start \in Nat /\ LeafEnd \in CurNode.start .. Len(index.data) /\ Len(index.data) \in Nat
    BY <1>8, LeafFacts, TreesHere DEF EnterLeaf
  <2>2. /\ pc = "node" /\ IsLeaf(CurNode) /\ blk' = CurNode.start /\ pc' = "block"
        /\ UNCHANGED <<ds, index, query, top, todo, caller, cur, stack, lane, thr>>
    BY <1>8 DEF EnterLeaf
  <2>3. CurNode' = CurNode /\ LeafEnd' = LeafEnd BY <2>2 DEF CurNode, LeafEnd
  <2>4. Scanning' BY <2>1, <2>2, <2>3 DEF Scanning
  <2>5. QED BY <1>0, <2>2, <2>4 DEF Shape, TopTyped, Visitable, Phases, Deep, Depth
<1>9. CASE Descend
  <2>1. /\ pc = "node" /\ ~IsLeaf(CurNode) /\ UNCHANGED <<ds, index, query, top, todo, caller, blk, lane, thr>>
    BY <1>9 DEF Descend
  <2>2. PICK n, f \in Visits :
          /\ n.node \in {CurNode.left, CurNode.right} /\ f.node \in {CurNode.left, CurNode.right}
          /\ stack' = PutOff(n, f)
          /\ \/ cur' = n /\ pc' = "node"
             \/ cur' = cur /\ pc' = "pop"
    <3>1. PICK lb \in LowerBounds(NodeAt(index, CurNode.left).box),
               rb \in LowerBounds(NodeAt(index, CurNode.right).box) :
            LET l == Visit(CurNode.left, lb)
                r == Visit(CurNode.right, rb)
                near == IF lb <= rb THEN l ELSE r
                far == IF lb <= rb THEN r ELSE l
            IN  /\ stack' = PutOff(near, far)
                /\ \/ near.bound < WorstF32 /\ cur' = near /\ pc' = "node"
                   \/ near.bound >= WorstF32 /\ cur' = cur /\ pc' = "pop"
      BY <1>9 DEF Descend
    <3>2. CurNode.left \in NodeIds(index) /\ CurNode.right \in NodeIds(index)
      BY <2>1, InnerFacts
    <3>3. lb \in Nat /\ rb \in Nat /\ CurNode.left \in Nat /\ CurNode.right \in Nat
      BY <3>2, BoundsHere, TreesHere
    <3>4. Visit(CurNode.left, lb) \in Visits /\ Visit(CurNode.right, rb) \in Visits
          /\ Visit(CurNode.left, lb).node = CurNode.left /\ Visit(CurNode.right, rb).node = CurNode.right
      BY <3>3 DEF Visit, Visits
    <3>5. QED BY <3>1, <3>4
  <2>3. /\ n.node \in NodeIds(index) /\ f.node \in NodeIds(index)
        /\ Depth(n.node) = Depth(cur.node) + 1 /\ Depth(f.node) = Depth(cur.node) + 1
        /\ Depth(cur.node) \in Nat
    BY <2>1, <2>2, InnerFacts
  <2>4. Depth(cur.node) >= Len(stack) BY <2>1 DEF Shape, Deep
  <2>5. /\ stack' \in Seq(Visits) /\ Len(stack') <= StackCap /\ Len(stack') <= Len(stack) + 1
        /\ Len(stack') \in Nat
        /\ \A j \in DOMAIN stack' : stack'[j].node \in NodeIds(index) /\ Depth(stack'[j].node) >= j
    <3>1. \A j \in DOMAIN stack : stack[j].node \in NodeIds(index) /\ Depth(stack[j].node) >= j
      BY DEF Shape, Visitable, Deep
    <3>2. CASE stack' = stack BY <1>0, <3>1, <3>2
    <3>3. CASE stack' = Append(stack, f) /\ Len(stack) < StackCap
      <4>1. stack \in Seq(Visits) /\ f \in Visits /\ Len(stack) \in Nat /\ StackCap \in Nat
        BY <1>0, <2>2, Ranges DEF Shape
      <4>2. /\ stack' \in Seq(Visits) /\ Len(stack') = Len(stack) + 1
            /\ DOMAIN stack = 1 .. Len(stack) /\ DOMAIN stack' = 1 .. Len(stack) + 1
            /\ stack'[Len(stack) + 1] = f
            /\ \A j \in 1 .. Len(stack) : stack'[j] = stack[j]
        BY <3>3, <4>1, PushFacts
      <4>3. Depth(f.node) >= Len(stack) + 1 BY <2>3, <2>4, <4>1
      <4>4. ASSUME NEW j \in DOMAIN stack'
            PROVE  stack'[j].node \in NodeIds(index) /\ Depth(stack'[j].node) >= j
        BY <2>3, <3>1, <4>1, <4>2, <4>3, <4>4
      <4>5. QED BY <3>3, <4>1, <4>2, <4>4
    <3>4. QED BY <2>2, <3>2, <3>3 DEF PutOff
  <2>6. cur' \in Visits /\ (pc' = "node" => cur'.node \in NodeIds(index) /\ Depth(cur'.node) >= Len(stack'))
    BY <1>0, <2>2, <2>3, <2>4, <2>5
  <2>7. caller' = caller /\ pc' \in {"node", "pop"} BY <2>1, <2>2
  <2>8. (Visitable /\ Phases /\ Scanning /\ Deep)'
    BY <2>1, <2>5, <2>6, <2>7 DEF Shape, Visitable, Phases, Scanning, Deep, Depth
  <2>9. QED BY <1>0, <2>1, <2>5, <2>7, <2>8 DEF Shape, TopTyped
<1>10. CASE Pop
  <2>1. /\ pc = "pop" /\ stack # <<>> /\ cur' = stack[Len(stack)]
        /\ stack' = SubSeq(stack, 1, Len(stack) - 1) /\ pc' = "node"
        /\ UNCHANGED <<ds, index, query, top, todo, caller, blk, lane, thr>>
    BY <1>10 DEF Pop
  <2>2. \A j \in DOMAIN stack : stack[j].node \in NodeIds(index) /\ Depth(stack[j].node) >= j
    BY DEF Shape, Visitable, Deep
  <2>3. /\ stack' \in Seq(Visits) /\ Len(stack') = Len(stack) - 1 /\ Len(stack) \in DOMAIN stack
        /\ cur' \in Visits
        /\ \A j \in DOMAIN stack' : stack'[j].node \in NodeIds(index) /\ Depth(stack'[j].node) >= j
    <3>1. /\ stack' \in Seq(Visits) /\ Len(stack') = Len(stack) - 1 /\ Len(stack) \in DOMAIN stack
          /\ DOMAIN stack = 1 .. Len(stack) /\ DOMAIN stack' = 1 .. Len(stack) - 1
          /\ \A j \in 1 .. Len(stack) - 1 : stack'[j] = stack[j]
          /\ stack[Len(stack)] \in Visits
      <4> DEFINE q == SubSeq(stack, 1, Len(stack) - 1)
      <4>1. /\ q \in Seq(Visits) /\ Len(stack) \in Nat \ {0} /\ Len(q) = Len(stack) - 1
            /\ DOMAIN stack = 1 .. Len(stack) /\ DOMAIN q = 1 .. Len(stack) - 1
            /\ \A j \in 1 .. Len(stack) - 1 : q[j] = stack[j]
            /\ Len(stack) \in DOMAIN stack /\ stack[Len(stack)] \in Visits
        BY <1>0, <2>1, PopFacts
      <4>2. stack' = q BY <2>1
      <4> HIDE DEF q
      <4>3. QED BY <4>1, <4>2
    <3>2. QED BY <1>0, <2>1, <2>2, <3>1
  <2>4. Depth(cur'.node) \in Nat BY <2>1, <2>2, <2>3, TreesHere
  <2>5. cur'.node \in NodeIds(index) /\ Depth(cur'.node) >= Len(stack')
    BY <1>0, <2>1, <2>2, <2>3, <2>4
  <2>6. (Visitable /\ Phases /\ Scanning /\ Deep)'
    BY <2>1, <2>3, <2>5 DEF Shape, Visitable, Phases, Scanning, Deep, Depth
  <2>7. Len(stack') <= StackCap BY <1>0, <2>3, Ranges
  <2>8. QED BY <1>0, <2>1, <2>6, <2>7 DEF Shape, TopTyped
<1>11. CASE TreeDone
  BY <1>0, <1>11 DEF TreeDone, Shape, TopTyped, Visitable, Phases, Scanning, Deep, Depth
<1>12. CASE StartBlock
  <2>1. /\ pc = "block" /\ blk # LeafEnd /\ thr' = WorstF32 /\ lane' = 1 /\ pc' = "lane"
        /\ UNCHANGED <<ds, index, query, top, todo, caller, cur, stack, blk>>
    BY <1>12 DEF StartBlock
  <2>2. IsLeaf(CurNode) /\ blk \in CurNode.start .. LeafEnd BY <2>1 DEF Shape, Scanning
  <2>3. CurNode.start \in Nat /\ LeafEnd \in CurNode.start .. Len(index.data) /\ Len(index.data) \in Nat
    BY <2>1, <2>2, LeafFacts, TreesHere
  <2>4. blk \in CurNode.start .. LeafEnd - 1 BY <2>1, <2>2, <2>3
  <2>5. CurNode' = CurNode /\ LeafEnd' = LeafEnd /\ WorstF32' = WorstF32
    BY <2>1 DEF CurNode, LeafEnd, WorstF32, Worst
  <2>6. thr' \in 0 .. MaxWorst /\ WorstF32' <= thr' /\ lane' \in 1 .. Lanes BY <2>1, <2>5, Ranges
  <2>7. Scanning' BY <2>1, <2>2, <2>4, <2>5, <2>6 DEF Scanning
  <2>8. QED BY <1>0, <2>1, <2>6, <2>7 DEF Shape, TopTyped, Visitable, Phases, Deep, Depth
<1>13. ASSUME pc = "lane", NextLane, UNCHANGED <<ds, index, query, todo, caller, cur, stack, thr>>,
              TopTyped', Ascending(top)', Worst(top') <= Worst(top)
       PROVE  Shape'
  <2>1. /\ blk \in Nat /\ CurNode.start \in Nat /\ LeafEnd \in Nat
        /\ blk \in CurNode.start .. LeafEnd - 1 /\ lane \in 1 .. Lanes
    BY <1>13, LaneFacts
  <2>2. IsLeaf(CurNode) /\ WorstF32 <= thr BY <1>13 DEF Shape, Scanning
  <2>3. CurNode' = CurNode /\ LeafEnd' = LeafEnd BY <1>13 DEF CurNode, LeafEnd
  <2>4. WorstF32' <= thr'
    <3> DEFINE v == Worst(top)
               w == Worst(top')
    <3>1. v \in Int BY <1>0, Ranges
    <3>2. w \in Int
      <4>1. 5 \in Slots BY DEF Slots
      <4>2. top'[5].d \in 0 .. Infinity' BY <1>13, <4>1 DEF TopTyped
      <4>3. Infinity' \in Nat BY <1>0, Ranges
      <4>4. QED BY <4>2, <4>3 DEF Worst
    <3>3. w <= v BY <1>13
    <3>4. v + KernelSafety <= thr BY <2>2 DEF WorstF32
    <3>5. thr \in Int /\ KernelSafety \in Int
      <4>1. thr \in 0 .. MaxWorst BY <1>0 DEF Shape
      <4>2. MaxWorst \in Int BY <1>0, Ranges DEF MaxWorst
      <4>3. QED BY <1>0, <4>1, <4>2, Ranges
    <3>6. thr' = thr BY <1>13
    <3>7. WorstF32' = w + KernelSafety BY DEF WorstF32, Worst
    <3> HIDE DEF v, w
    <3>8. QED BY <3>1, <3>2, <3>3, <3>4, <3>5, <3>6, <3>7
  <2>5. Scanning' /\ pc' \in {"lane", "block"}
    BY <1>13, <2>1, <2>2, <2>3, <2>4, Ranges DEF NextLane, Scanning
  <2>6. (Visitable /\ Phases /\ Deep)' BY <1>13, <2>5 DEF Shape, Visitable, Phases, Deep, Depth
  <2>7. QED BY <1>0, <1>13, <2>5, <2>6 DEF Shape
<1>14. CASE DropLane
  <2>1. Worst(top) \in 0 .. Infinity /\ Infinity \in Nat BY Ranges
  <2>2. pc = "lane" /\ NextLane /\ UNCHANGED <<ds, index, query, top, todo, caller, cur, stack, thr>>
    BY <1>14 DEF DropLane
  <2>3. TopTyped' /\ Ascending(top)' /\ Worst(top') <= Worst(top)
    BY <1>0, <2>1, <2>2 DEF TopTyped
  <2>4. QED BY <1>13, <2>2, <2>3
<1>15. CASE TakeLane
  <2>1. /\ pc = "lane" /\ NextLane /\ UNCHANGED <<ds, index, query, todo, caller, cur, stack, thr>>
        /\ top' = Insert(top, LaneDist, Label(ds, LaneId), LaneId)
    BY <1>15 DEF TakeLane
  <2>2. LaneDist \in 0 .. Infinity /\ Label(ds, LaneId) \in {0, 1} /\ LaneId \in 0 .. Count(ds)
        /\ Infinity \in Nat
    BY <2>1, LaneFacts, Ranges
  <2>3. /\ Ascending(top') /\ Worst(top') <= Worst(top)
        /\ \A s \in Slots : top'[s] = Slot(LaneDist, Label(ds, LaneId), LaneId)
                            \/ \E r \in Slots : top'[s] = top[r]
    BY <2>1, <2>2, Ranges, InsertKeeps
  <2>4. TopTyped' BY <1>0, <2>1, <2>2, <2>3 DEF TopTyped, Slot
  <2>5. QED BY <1>13, <2>1, <2>3, <2>4
<1>16. CASE LeafDone
  BY <1>0, <1>16 DEF LeafDone, Shape, TopTyped, Visitable, Phases, Scanning, Deep, Depth
<1>17. CASE NextQuery
  BY <1>0, <1>17 DEF NextQuery, Shape, TopTyped, Visitable, Phases, Scanning, Deep, Depth
<1>18. CASE UNCHANGED vars
  BY <1>18 DEF vars, Shape, TopTyped, Visitable, Phases, Scanning, Deep, Depth, CurNode, LeafEnd,
    WorstF32, Worst
<1>19. QED BY <1>1, <1>2, <1>3, <1>4, <1>5, <1>6, <1>7, <1>8, <1>9, <1>10, <1>11, <1>12, <1>14,
    <1>15, <1>16, <1>17, <1>18 DEF Next, Search

-----------------------------------------------------------------------------
(* What is left to visit, and what is far enough to be left out.           *)

\* The bound of a visit to be made is below the distances it stands for, up to
\* its error.
True(v) == \A i \in Members(v.node) : v.bound <= Dist(query, ds.vec[i]) + FloatError

Honest ==
  /\ \A j \in DOMAIN todo : True(todo[j])
  /\ \A j \in DOMAIN stack : True(stack[j])
  /\ pc = "node" => True(cur)

\* The queue is in the order of its bounds.
Sorted == \A j, k \in DOMAIN todo : j < k => todo[j].bound <= todo[k].bound

\* A vector no nearer than the fifth.
Far(i) == Dist(query, ds.vec[i]) >= Worst(top)

\* A vector of a tree that FraudCount has not begun, ...
Elsewhere(i) ==
  \/ caller = "collect" /\ \E k \in Others : i \in Members(Parts[k].root)
  \/ \E j \in DOMAIN todo : i \in Members(todo[j].node)

\* ... of a part of the tree in hand that was put off, ...
OnStack(i) == \E j \in DOMAIN stack : i \in Members(stack[j].node)

\* ... of the leaf in hand, with its lane still to come.
Ahead(i) ==
  \E b \in blk .. LeafEnd - 1, l \in 1 .. Lanes :
    LanesOf(index, b)[l] = i /\ (b = blk /\ pc = "lane" => l >= lane)

\* A vector that the search will still come to, unless it proves to be far.
Pending(i) ==
  \/ pc = "same"
  \/ Elsewhere(i)
  \/ OnStack(i)
  \/ pc = "node" /\ i \in Members(cur.node)
  \/ pc \in {"block", "lane"} /\ Ahead(i)

\* No two of the places where a vector may be pending hold the same one: none
\* comes twice.
Apart ==
  /\ \A j, k \in DOMAIN todo : j # k => Members(todo[j].node) \cap Members(todo[k].node) = {}
  /\ \A j, k \in DOMAIN stack : j # k => Members(stack[j].node) \cap Members(stack[k].node) = {}
  /\ \A i : OnStack(i) => ~Elsewhere(i)
  /\ pc \in {"node", "block", "lane"} => \A i \in Members(cur.node) : ~Elsewhere(i) /\ ~OnStack(i)

\* The five hold the nearest of the vectors that are no longer pending, none
\* twice, and the padding among them lies behind all vectors.
Done == {i \in Ids : ~Pending(i)}
FivesInv == pc # "start" => Fives(top, Distance, ds.label, Done)

IInv == Shape /\ Honest /\ Sorted /\ Apart /\ FivesInv

\* A step by which nothing becomes pending, and only the far cease to be.
Narrows(i) ==
  /\ Pending(i)' => Pending(i)
  /\ Pending(i) => Pending(i)' \/ Far(i)

\* Distances are numbers.
LEMMA VecDist ==
  ASSUME Hypotheses, Shape, NEW i \in Ids
  PROVE  /\ i # 0 /\ At(ds, i) = ds.vec[i] /\ Dist(query, ds.vec[i]) \in 0 .. Infinity - 1
         /\ Dist(query, ds.vec[i]) \in Int
<1>1. i \in 1 .. Count(ds) /\ Count(ds) \in Nat BY Ranges DEF Ids
<1>2. i # 0 /\ At(ds, i) = ds.vec[i] /\ i \in 0 .. Count(ds) BY <1>1 DEF At
<1>3. QED BY <1>2, DistHere DEF Shape

LEMMA DistancesHere ==
  ASSUME Hypotheses, Shape
  PROVE  /\ Distances(Distance, Count(ds)) /\ Ids = 1 .. Count(ds) /\ Count(ds) \in Nat
         /\ ds.label \in [Ids -> {0, 1}]
<1>1. Infinity \in Nat /\ Count(ds) \in Nat /\ Ids = 1 .. Count(ds) BY Ranges DEF Ids
<1>2. Distance \in [Ids -> 0 .. Infinity - 1] BY VecDist DEF Distance
<1>3. ds.label \in [1 .. Count(ds) -> {0, 1}] BY Given DEF Shape
<1>4. QED BY <1>1, <1>2, <1>3 DEF Distances

\* What lies behind a bound out of reach is far.
LEMMA OutOfReach ==
  ASSUME Hypotheses, Shape, NEW v \in Visits, v.node \in NodeIds(index), True(v),
         v.bound >= WorstF32, NEW i \in Members(v.node)
  PROVE  Far(i)
<1>1. i \in Ids BY TreesHere
<1>2. v.bound \in Nat BY DEF Visits
<1>3. Dist(query, ds.vec[i]) \in Int BY <1>1, VecDist
<1>4. QED BY <1>2, <1>3, Ranges DEF True, Far, WorstF32

\* A visit made for a node with one of its bounds is true.
LEMMA FreshVisit ==
  ASSUME Hypotheses, Shape, NEW n \in NodeIds(index), NEW b \in LowerBounds(NodeAt(index, n).box)
  PROVE  Visit(n, b) \in Visits /\ Visit(n, b).node = n /\ Visit(n, b).bound = b /\ True(Visit(n, b))
BY BoundsHere, TreesHere DEF Visit, Visits, True

\* The only partition with the query's key is SameKey's.
LEMMA OneSameKey ==
  ASSUME Hypotheses, Shape, NEW k \in SameKey, NEW m \in SameKey
  PROVE  k = m
<1>1. /\ k \in DOMAIN Parts /\ m \in DOMAIN Parts /\ Parts[k].key = Parts[m].key
  BY DEF SameKey, ByKey, Parts
<1>2. QED BY <1>1, TreesHere

\* Every vector is of a partition with the query's key or of another, ...
LEMMA Somewhere ==
  ASSUME Hypotheses, Shape, NEW i \in Ids
  PROVE  \/ \E k \in SameKey : i \in Members(Parts[k].root)
         \/ \E k \in Others : i \in Members(Parts[k].root)
BY TreesHere DEF Others, SameKey

\* ... and of one only.
LEMMA NotBoth ==
  ASSUME Hypotheses, Shape, NEW k \in SameKey, NEW m \in Others, NEW i \in Members(Parts[k].root)
  PROVE  i \notin Members(Parts[m].root)
<1>1. k \in DOMAIN Parts /\ m \in DOMAIN Parts \ {k} BY DEF Others, SameKey, ByKey, Parts
<1>2. QED BY <1>1, TreesHere

\* A step that leaves the five and the query alone keeps what is true.
LEMMA TrueKept ==
  ASSUME UNCHANGED <<ds, index, query, top>>
  PROVE  /\ Ids' = Ids /\ Distance' = Distance
         /\ \A v : True(v)' <=> True(v)
         /\ \A n : Members(n)' = Members(n)
BY DEF Ids, True, Members, Distance

\* So does a step that leaves nothing behind that is not far.
LEMMA FivesKept ==
  ASSUME FivesInv, pc # "start", UNCHANGED <<ds, index, query, top>>, \A i \in Ids : Narrows(i)
  PROVE  FivesInv'
<1>1. PICK D, I, J : D = Distance /\ I = Done /\ J = Done'
  OBVIOUS
<1>2. Ids' = Ids /\ Distance' = D BY <1>1, TrueKept
<1>3. J = {i \in Ids : ~Pending(i)'} BY <1>1, <1>2 DEF Done
<1>4. I \subseteq J BY <1>1, <1>3 DEF Done, Narrows
<1>5. \A i \in J \ I : D[i] >= Worst(top)
  BY <1>1, <1>3 DEF Done, Narrows, Far, Distance
<1>6. Fives(top, D, ds.label, J) BY <1>1, <1>4, <1>5, FarFives DEF FivesInv
<1>7. QED BY <1>1, <1>2, <1>6 DEF FivesInv

\* Inside a tree walk the other trees stay where they are, ...
LEMMA ElsewhereKept ==
  ASSUME UNCHANGED <<ds, index, query, todo, caller>>, NEW i
  PROVE  Elsewhere(i)' <=> Elsewhere(i)
BY DEF Elsewhere, Others, SameKey, Parts, Members

\* ... and the stack, but for what is pushed or popped.
LEMMA OnStackKept ==
  ASSUME UNCHANGED <<index, stack>>, NEW i
  PROVE  OnStack(i)' <=> OnStack(i)
BY DEF OnStack, Members

\* FraudCount goes from tree to tree without losing a vector, and comes to none
\* twice.
LEMMA CallsKeep ==
  ASSUME Hypotheses, IInv, SearchSame \/ PassSame \/ Collect \/ SearchNext \/ Stop
  PROVE  Honest' /\ Sorted' /\ Apart' /\ FivesInv'
<1> USE DEF call, scan, IInv
<1>0. /\ todo \in Seq(Visits) /\ stack \in Seq(Visits)
      /\ \A j \in DOMAIN todo : todo[j].node \in NodeIds(index) /\ True(todo[j])
  BY DEF Shape, Visitable, Honest
<1>1. CASE SearchSame
  <2>1. /\ pc = "same" /\ stack' = <<>> /\ pc' = "node"
        /\ UNCHANGED <<ds, index, query, top, todo, caller>>
    BY <1>1 DEF SearchSame
  <2>2. PICK k \in SameKey : \E b \in LowerBounds(Parts[k].box) : cur' = Visit(Parts[k].root, b)
    BY <1>1 DEF SearchSame
  <2>3. /\ k \in DOMAIN Parts /\ Parts[k].root \in NodeIds(index)
        /\ Parts[k].box = NodeAt(index, Parts[k].root).box
    BY <2>2, TreesHere DEF SameKey, ByKey, Parts
  <2>4. True(cur') /\ cur'.node = Parts[k].root BY <2>2, <2>3, FreshVisit
  <2>5. caller = "collect" /\ todo = <<>> BY <2>1 DEF Shape, Phases
  <2>6. Honest' /\ Sorted' BY <2>1, <2>4, <2>5, TrueKept DEF Honest, Sorted
  <2>7. ASSUME NEW i \in Ids PROVE Pending(i)'
    <3>1. CASE \E m \in SameKey : i \in Members(Parts[m].root)
      <4>1. i \in Members(Parts[k].root) BY <2>2, <3>1, OneSameKey
      <4>2. QED BY <2>1, <2>4, <4>1 DEF Pending, Members
    <3>2. CASE \E m \in Others : i \in Members(Parts[m].root)
      <4>1. Elsewhere(i) BY <2>5, <3>2 DEF Elsewhere
      <4>2. QED BY <2>1, <4>1, ElsewhereKept DEF Pending
    <3>3. QED BY <3>1, <3>2, Somewhere
  <2>8. \A i \in Ids : Narrows(i) BY <2>1, <2>7 DEF Narrows, Pending
  <2>9. ASSUME NEW i \in Members(cur'.node) PROVE ~Elsewhere(i)' /\ ~OnStack(i)'
    <3>1. ~Elsewhere(i) BY <2>2, <2>4, <2>5, NotBoth DEF Elsewhere
    <3>2. QED BY <2>1, <3>1, ElsewhereKept DEF OnStack
  <2>10. Apart' BY <2>1, <2>5, <2>9, TrueKept DEF Apart, OnStack
  <2>11. QED BY <2>1, <2>6, <2>8, <2>10, FivesKept
<1>2. CASE PassSame
  <2>1. pc = "same" /\ pc' = "collect" /\ UNCHANGED <<ds, index, query, top, todo, caller, stack>>
    BY <1>2 DEF PassSame
  <2>2. caller = "collect" /\ todo = <<>> /\ stack = <<>> BY <2>1 DEF Shape, Phases
  <2>3. Honest' /\ Sorted' /\ Apart' BY <2>1, <2>2 DEF Honest, Sorted, Apart, OnStack
  <2>4. ASSUME NEW i \in Ids PROVE Pending(i)' \/ Far(i)
    <3>1. CASE \E m \in SameKey : i \in Members(Parts[m].root)
      <4>1. PICK m \in SameKey : i \in Members(Parts[m].root) BY <3>1
      <4>2. /\ Parts[m].root \in NodeIds(index) /\ Parts[m].box = NodeAt(index, Parts[m].root).box
        BY TreesHere DEF SameKey, ByKey, Parts
      <4>3. PICK b \in LowerBounds(Parts[m].box) : b >= WorstF32 BY <1>2 DEF PassSame
      <4>4. QED BY <4>1, <4>2, <4>3, FreshVisit, OutOfReach
    <3>2. CASE \E m \in Others : i \in Members(Parts[m].root)
      <4>1. Elsewhere(i) BY <2>2, <3>2 DEF Elsewhere
      <4>2. QED BY <2>1, <4>1, ElsewhereKept DEF Pending
    <3>3. QED BY <3>1, <3>2, Somewhere
  <2>5. \A i \in Ids : Narrows(i) BY <2>1, <2>4 DEF Narrows, Pending
  <2>6. QED BY <2>1, <2>3, <2>5, FivesKept
<1>3. CASE Collect
  <2>1. /\ pc = "collect" /\ pc' = "next" /\ caller' = "next" /\ UNCHANGED <<ds, index, query, top, stack>>
    BY <1>3 DEF Collect
  <2>2. caller = "collect" /\ todo = <<>> /\ stack = <<>> BY <2>1 DEF Shape, Phases
  <2>3. PICK b \in BoundsOf(Others) : \E p \in Orders(Others, b) : todo' = QueueFor(p, b)
    BY <1>3 DEF Collect, QueueFor
  <2>4. QueueOf(todo') BY <2>3, QueueFacts
  <2>5. /\ \A j \in DOMAIN todo' : \E k \in Others : /\ todo'[j].node = Parts[k].root
                                                     /\ todo'[j].bound \in LowerBounds(Parts[k].box)
        /\ \A i, j \in DOMAIN todo' : i < j => todo'[i].bound <= todo'[j].bound
        /\ \A k \in Others : \E j \in DOMAIN todo' : todo'[j].node = Parts[k].root
        /\ \A i, j \in DOMAIN todo' : i # j => Members(todo'[i].node) \cap Members(todo'[j].node) = {}
    BY <2>4 DEF QueueOf
  <2>6. ASSUME NEW j \in DOMAIN todo' PROVE True(todo'[j])
    <3>1. PICK k \in Others : /\ todo'[j].node = Parts[k].root
                               /\ todo'[j].bound \in LowerBounds(Parts[k].box)
      BY <2>5
    <3>2. k \in DOMAIN Parts BY DEF Others
    <3>3. Parts[k].root \in NodeIds(index) /\ Parts[k].box = NodeAt(index, Parts[k].root).box
      BY <3>2, TreesHere
    <3>4. QED BY <3>1, <3>3, BoundsHere DEF True
  <2>7. Honest' /\ Sorted' BY <2>1, <2>2, <2>5, <2>6, TrueKept DEF Honest, Sorted
  <2>8. ASSUME NEW i PROVE (\E k \in Others : i \in Members(Parts[k].root)) <=> Elsewhere(i)'
    BY <2>1, <2>5 DEF Elsewhere, Members
  <2>9. ASSUME NEW i \in Ids PROVE Pending(i)' <=> Pending(i)
    <3>1. Pending(i) <=> \E k \in Others : i \in Members(Parts[k].root)
      BY <2>1, <2>2 DEF Pending, Elsewhere, OnStack
    <3>2. Pending(i)' <=> Elsewhere(i)' BY <2>1, <2>2 DEF Pending, OnStack
    <3>3. QED BY <2>8, <3>1, <3>2
  <2>10. Apart'
    <3>1. \A i : ~OnStack(i)' BY <2>1, <2>2 DEF OnStack
    <3>2. DOMAIN stack' = {} /\ pc' = "next" BY <2>1, <2>2
    <3>3. \A n : Members(n)' = Members(n) BY <2>1, TrueKept
    <3>4. QED BY <2>5, <3>1, <3>2, <3>3 DEF Apart
  <2>11. QED BY <2>1, <2>7, <2>9, <2>10, FivesKept DEF Narrows
<1>4. CASE SearchNext
  <2>1. /\ todo' = Tail(todo) /\ cur' = Head(todo) /\ todo # <<>> /\ stack' = <<>> /\ pc = "next"
        /\ pc' = "node" /\ UNCHANGED <<ds, index, query, top, caller>>
    BY <1>4 DEF SearchNext
  <2>2. caller = "next" /\ stack = <<>> BY <2>1 DEF Shape, Phases
  <2>3. /\ cur' = todo[1] /\ Len(todo) \in Nat \ {0} /\ DOMAIN todo = 1 .. Len(todo)
        /\ DOMAIN todo' = 1 .. Len(todo) - 1
        /\ \A j \in 1 .. Len(todo) - 1 : todo'[j] = todo[j + 1]
    BY <1>0, <2>1, TailFacts
  <2>4. Honest' BY <1>0, <2>1, <2>3, TrueKept DEF Honest
  <2>5. Sorted'
    <3>1. ASSUME NEW j \in 1 .. Len(todo) - 1, NEW k \in 1 .. Len(todo) - 1, j < k
          PROVE  todo[j + 1].bound <= todo[k + 1].bound
      BY <2>3, <3>1 DEF Sorted
    <3>2. QED BY <2>3, <3>1 DEF Sorted
  <2>6. ASSUME NEW i
        PROVE  Elsewhere(i) <=> Elsewhere(i)' \/ i \in Members(cur'.node)
    <3>1. Elsewhere(i) <=> \E j \in DOMAIN todo : i \in Members(todo[j].node) BY <2>2 DEF Elsewhere
    <3>2. Elsewhere(i)' <=> \E j \in DOMAIN todo' : i \in Members(todo'[j].node)
      BY <2>1, <2>2 DEF Elsewhere, Members
    <3>3. ASSUME NEW j \in DOMAIN todo, j # 1 PROVE j - 1 \in DOMAIN todo' /\ todo'[j - 1] = todo[j]
      BY <2>3, <3>3
    <3>4. ASSUME NEW j \in DOMAIN todo' PROVE j + 1 \in DOMAIN todo /\ todo'[j] = todo[j + 1]
      BY <2>3, <3>4
    <3>5. 1 \in DOMAIN todo BY <2>3
    <3>6. QED BY <2>3, <3>1, <3>2, <3>3, <3>4, <3>5
  <2>7. ASSUME NEW i \in Ids PROVE Pending(i)' <=> Pending(i)
    <3>1. Pending(i) <=> Elsewhere(i) BY <2>1, <2>2 DEF Pending, OnStack
    <3>2. Pending(i)' <=> Elsewhere(i)' \/ i \in Members(cur'.node)
      BY <2>1, TrueKept DEF Pending, OnStack
    <3>3. QED BY <2>6, <3>1, <3>2
  <2>8. ASSUME NEW j \in DOMAIN todo', NEW k \in DOMAIN todo', j # k
        PROVE  Members(todo'[j].node) \cap Members(todo'[k].node) = {}
    <3>1. /\ j + 1 \in DOMAIN todo /\ k + 1 \in DOMAIN todo /\ j + 1 # k + 1
          /\ todo'[j] = todo[j + 1] /\ todo'[k] = todo[k + 1]
      BY <2>3, <2>8
    <3>2. QED BY <3>1 DEF Apart
  <2>9. ASSUME NEW i \in Members(cur'.node) PROVE ~Elsewhere(i)' /\ ~OnStack(i)'
    <3>1. ASSUME NEW j \in DOMAIN todo' PROVE i \notin Members(todo'[j].node)
      <4>1. 1 \in DOMAIN todo /\ j + 1 \in DOMAIN todo /\ j + 1 # 1 /\ todo'[j] = todo[j + 1]
        BY <2>3
      <4>2. Members(todo[1].node) \cap Members(todo[j + 1].node) = {} BY <4>1 DEF Apart
      <4>3. QED BY <2>3, <4>1, <4>2
    <3>2. QED BY <2>1, <2>2, <3>1 DEF Elsewhere, OnStack, Members
  <2>10. Apart'
    <3>1. \A i : ~OnStack(i)' BY <2>1 DEF OnStack
    <3>2. DOMAIN stack' = {} BY <2>1
    <3>3. \A n : Members(n)' = Members(n) BY <2>1, TrueKept
    <3>4. QED BY <2>8, <2>9, <3>1, <3>2, <3>3 DEF Apart
  <2>11. QED BY <2>1, <2>4, <2>5, <2>7, <2>10, FivesKept DEF Narrows
<1>5. CASE Stop
  <2>1. /\ pc = "next" /\ pc' = "done" /\ todo' = <<>>
        /\ UNCHANGED <<ds, index, query, top, caller, stack>>
        /\ todo # <<>> => Head(todo).bound >= WorstF32
    BY <1>5 DEF Stop
  <2>2. caller = "next" /\ stack = <<>> BY <2>1 DEF Shape, Phases
  <2>3. Honest' /\ Sorted' /\ Apart' BY <2>1, <2>2 DEF Honest, Sorted, Apart, OnStack
  <2>4. ASSUME NEW i \in Ids, Pending(i) PROVE Far(i)
    <3>1. PICK j \in DOMAIN todo : i \in Members(todo[j].node)
      BY <2>1, <2>2, <2>4 DEF Pending, Elsewhere, OnStack
    <3>2. todo # <<>> /\ 1 \in DOMAIN todo /\ j \in Nat /\ j >= 1 /\ Head(todo) = todo[1] BY <1>0, <3>1
    <3>3. todo[1] \in Visits /\ todo[j] \in Visits BY <1>0, <3>2
    <3>4. todo[1].bound <= todo[j].bound BY <3>2, <3>3 DEF Sorted, Visits
    <3>5. todo[j].bound >= WorstF32
      <4>1. todo[1].bound \in Nat /\ todo[j].bound \in Nat BY <3>3 DEF Visits
      <4>2. WorstF32 \in Int BY Ranges DEF MaxWorst
      <4>3. QED BY <2>1, <3>2, <3>4, <4>1, <4>2
    <3>6. QED BY <1>0, <3>1, <3>3, <3>5, OutOfReach
  <2>5. \A i \in Ids : ~Pending(i)' BY <2>1, <2>2 DEF Pending, Elsewhere, OnStack
  <2>6. QED BY <2>1, <2>3, <2>4, <2>5, FivesKept DEF Narrows
<1>6. QED BY <1>1, <1>2, <1>3, <1>4, <1>5

\* The walk over one tree loses no vector and comes to none twice: what is not
\* visited is put off, and the stack has room for it, or is far.
LEMMA WalkKeeps ==
  ASSUME Hypotheses, IInv, TooFar \/ EnterLeaf \/ Descend \/ Pop \/ TreeDone
  PROVE  Honest' /\ Sorted' /\ Apart' /\ FivesInv'
<1> USE DEF call, scan, IInv
<1>0. /\ stack \in Seq(Visits) /\ cur \in Visits
      /\ \A j \in DOMAIN stack : True(stack[j])
      /\ pc = "node" => cur.node \in NodeIds(index) /\ True(cur)
  BY DEF Shape, Visitable, Honest
<1>a. UNCHANGED <<ds, index, query, top, todo, caller>> /\ pc \in {"node", "pop"}
  BY DEF TooFar, EnterLeaf, Descend, Pop, TreeDone
<1>b. \A i : Elsewhere(i)' <=> Elsewhere(i)
  BY <1>a, ElsewhereKept
<1>c. Sorted' /\ \A j, k \in DOMAIN todo' : j # k => Members(todo'[j].node) \cap Members(todo'[k].node) = {}
  BY <1>a, TrueKept DEF Sorted, Apart
<1>1. CASE TooFar
  <2>1. pc = "node" /\ pc' = "pop" /\ cur.bound >= WorstF32 /\ UNCHANGED <<cur, stack>>
    BY <1>1 DEF TooFar
  <2>2. Honest' BY <1>a, <2>1, TrueKept DEF Honest
  <2>3. \A i : OnStack(i)' <=> OnStack(i) BY <1>a, <2>1, OnStackKept
  <2>4. ASSUME NEW i \in Ids PROVE Narrows(i)
    <3>1. Pending(i)' <=> Elsewhere(i) \/ OnStack(i) BY <1>b, <2>1, <2>3 DEF Pending
    <3>2. Pending(i) <=> Elsewhere(i) \/ OnStack(i) \/ i \in Members(cur.node) BY <2>1 DEF Pending
    <3>3. i \in Members(cur.node) => Far(i) BY <1>0, <2>1, OutOfReach
    <3>4. QED BY <3>1, <3>2, <3>3 DEF Narrows
  <2>5. Apart' BY <1>a, <1>b, <1>c, <2>1, <2>3, TrueKept DEF Apart
  <2>6. QED BY <1>a, <1>c, <2>1, <2>2, <2>4, <2>5, FivesKept
<1>2. CASE EnterLeaf
  <2>1. pc = "node" /\ pc' = "block" /\ IsLeaf(CurNode) /\ blk' = CurNode.start /\ UNCHANGED <<cur, stack>>
    BY <1>2 DEF EnterLeaf
  <2>2. Honest' BY <1>a, <2>1, TrueKept DEF Honest
  <2>3. LeafEnd' = LeafEnd BY <1>a, <2>1 DEF CurNode, LeafEnd
  <2>4. \A i : OnStack(i)' <=> OnStack(i) BY <1>a, <2>1, OnStackKept
  <2>5. ASSUME NEW i \in Ids PROVE Ahead(i)' <=> i \in Members(cur.node)
    <3>1. Ahead(i)' <=> \E b \in CurNode.start .. LeafEnd - 1, l \in 1 .. Lanes : LanesOf(index, b)[l] = i
      BY <1>a, <2>1, <2>3 DEF Ahead
    <3>2. i # 0 BY VecDist
    <3>3. QED BY <2>1, <3>1, <3>2, LeafFacts
  <2>6. ASSUME NEW i \in Ids PROVE Narrows(i)
    <3>1. Pending(i)' <=> Elsewhere(i) \/ OnStack(i) \/ i \in Members(cur.node)
      BY <1>b, <2>1, <2>4, <2>5 DEF Pending
    <3>2. Pending(i) <=> Elsewhere(i) \/ OnStack(i) \/ i \in Members(cur.node) BY <2>1 DEF Pending
    <3>3. QED BY <3>1, <3>2 DEF Narrows
  <2>7. Apart' BY <1>a, <1>b, <1>c, <2>1, <2>4, TrueKept DEF Apart
  <2>8. QED BY <1>a, <1>c, <2>1, <2>2, <2>6, <2>7, FivesKept
<1>3. CASE Descend
  <2>1. pc = "node" /\ ~IsLeaf(CurNode) BY <1>3 DEF Descend
  <2>2. PICK lb \in LowerBounds(NodeAt(index, CurNode.left).box),
             rb \in LowerBounds(NodeAt(index, CurNode.right).box) :
          LET l == Visit(CurNode.left, lb)
              r == Visit(CurNode.right, rb)
              near == IF lb <= rb THEN l ELSE r
              far == IF lb <= rb THEN r ELSE l
          IN  /\ stack' = PutOff(near, far)
              /\ \/ near.bound < WorstF32 /\ cur' = near /\ pc' = "node"
                 \/ near.bound >= WorstF32 /\ cur' = cur /\ pc' = "pop"
    BY <1>3 DEF Descend
  <2> DEFINE near == IF lb <= rb THEN Visit(CurNode.left, lb) ELSE Visit(CurNode.right, rb)
  <2> DEFINE far == IF lb <= rb THEN Visit(CurNode.right, rb) ELSE Visit(CurNode.left, lb)
  <2>3. /\ CurNode.left \in NodeIds(index) /\ CurNode.right \in NodeIds(index)
        /\ Members(cur.node) = Members(CurNode.left) \cup Members(CurNode.right)
        /\ Members(CurNode.left) \cap Members(CurNode.right) = {}
    BY <2>1, InnerFacts
  <2>4. /\ near \in Visits /\ far \in Visits /\ True(near) /\ True(far)
        /\ near.node \in NodeIds(index) /\ far.node \in NodeIds(index)
        /\ Members(cur.node) = Members(near.node) \cup Members(far.node)
        /\ Members(near.node) \cap Members(far.node) = {}
    <3>1. /\ Visit(CurNode.left, lb) \in Visits /\ Visit(CurNode.left, lb).node = CurNode.left
          /\ True(Visit(CurNode.left, lb))
      BY <2>3, FreshVisit
    <3>2. /\ Visit(CurNode.right, rb) \in Visits /\ Visit(CurNode.right, rb).node = CurNode.right
          /\ True(Visit(CurNode.right, rb))
      BY <2>3, FreshVisit
    <3>3. QED BY <2>3, <3>1, <3>2
  <2>5. /\ stack' = PutOff(near, far)
        /\ \/ near.bound < WorstF32 /\ cur' = near /\ pc' = "node"
           \/ near.bound >= WorstF32 /\ pc' = "pop"
    BY <2>2
  <2> HIDE DEF near, far
  <2>6. /\ far.bound < WorstF32 => stack' = Append(stack, far)
        /\ ~(far.bound < WorstF32) => stack' = stack
    BY <2>1, <2>5, RoomOnStack DEF PutOff
  <2>7. /\ \A j \in DOMAIN stack' :
             \/ j \in DOMAIN stack /\ stack'[j] = stack[j]
             \/ j \notin DOMAIN stack /\ stack'[j] = far /\ far.bound < WorstF32
        /\ \A j, k \in DOMAIN stack' : j \notin DOMAIN stack /\ k \notin DOMAIN stack => j = k
        /\ \A j \in DOMAIN stack : j \in DOMAIN stack' /\ stack'[j] = stack[j]
        /\ far.bound < WorstF32 => \E j \in DOMAIN stack' : stack'[j] = far
    <3>1. CASE far.bound < WorstF32 BY <1>0, <2>4, <2>6, <3>1, PushFacts
    <3>2. CASE ~(far.bound < WorstF32) BY <1>0, <2>6, <3>2
    <3>3. QED BY <3>1, <3>2
  <2>8. Honest' BY <1>0, <1>a, <2>4, <2>5, <2>7, TrueKept DEF Honest
  <2>9. ASSUME NEW i
        PROVE  OnStack(i)' <=> OnStack(i) \/ (far.bound < WorstF32 /\ i \in Members(far.node))
    BY <1>a, <2>7, TrueKept DEF OnStack
  <2>10. ASSUME NEW i \in Ids PROVE Narrows(i)
    <3>1. Pending(i) <=> Elsewhere(i) \/ OnStack(i) \/ i \in Members(near.node) \/ i \in Members(far.node)
      BY <2>1, <2>4 DEF Pending
    <3>2. Pending(i)' <=> \/ Elsewhere(i) \/ OnStack(i)'
                          \/ pc' = "node" /\ i \in Members(near.node)
      BY <1>a, <1>b, <2>5, TrueKept DEF Pending
    <3>3. i \in Members(near.node) => Far(i) \/ pc' = "node" BY <2>4, <2>5, OutOfReach
    <3>4. ASSUME i \in Members(far.node) PROVE Far(i) \/ far.bound < WorstF32
      <4>1. far.bound \in Nat /\ WorstF32 \in Int BY <2>4, Ranges DEF Visits, MaxWorst
      <4>2. far.bound >= WorstF32 \/ far.bound < WorstF32 BY <4>1
      <4>3. QED BY <2>4, <3>4, <4>2, OutOfReach
    <3>5. QED BY <2>9, <3>1, <3>2, <3>3, <3>4 DEF Narrows
  <2>11. \A i \in Members(cur.node) : ~Elsewhere(i) /\ ~OnStack(i) BY <2>1 DEF Apart
  <2>12. ASSUME NEW j \in DOMAIN stack', NEW k \in DOMAIN stack', j # k
         PROVE  Members(stack'[j].node) \cap Members(stack'[k].node) = {}
    <3>1. \A m \in DOMAIN stack : Members(stack[m].node) \cap Members(far.node) = {}
      BY <2>4, <2>11 DEF OnStack
    <3>2. CASE j \in DOMAIN stack /\ k \in DOMAIN stack BY <2>7, <2>12, <3>2 DEF Apart
    <3>3. CASE j \in DOMAIN stack /\ k \notin DOMAIN stack BY <2>7, <3>1, <3>3
    <3>4. CASE j \notin DOMAIN stack /\ k \in DOMAIN stack BY <2>7, <3>1, <3>4
    <3>5. QED BY <2>7, <2>12, <3>2, <3>3, <3>4
  <2>13. \A i : OnStack(i)' => ~Elsewhere(i)' BY <1>b, <2>4, <2>9, <2>11 DEF Apart
  <2>14. pc' \in {"node", "block", "lane"} =>
           \A i \in Members(cur'.node) : ~Elsewhere(i)' /\ ~OnStack(i)'
    BY <1>b, <2>4, <2>5, <2>9, <2>11
  <2>15. Apart' BY <1>a, <1>c, <2>12, <2>13, <2>14, TrueKept DEF Apart
  <2>16. QED BY <1>a, <1>c, <2>1, <2>8, <2>10, <2>15, FivesKept
<1>4. CASE Pop
  <2>1. /\ pc = "pop" /\ stack # <<>> /\ cur' = stack[Len(stack)]
        /\ stack' = SubSeq(stack, 1, Len(stack) - 1) /\ pc' = "node"
    BY <1>4 DEF Pop
  <2>2. /\ DOMAIN stack = 1 .. Len(stack) /\ DOMAIN stack' = 1 .. Len(stack) - 1
        /\ Len(stack) \in Nat \ {0} /\ \A j \in 1 .. Len(stack) - 1 : stack'[j] = stack[j]
    <3> DEFINE q == SubSeq(stack, 1, Len(stack) - 1)
    <3>1. /\ DOMAIN stack = 1 .. Len(stack) /\ DOMAIN q = 1 .. Len(stack) - 1
          /\ Len(stack) \in Nat \ {0} /\ \A j \in 1 .. Len(stack) - 1 : q[j] = stack[j]
      BY <1>0, <2>1, PopFacts
    <3>2. stack' = q BY <2>1
    <3> HIDE DEF q
    <3>3. QED BY <3>1, <3>2
  <2>3. PICK last : last = Len(stack)
    OBVIOUS
  <2>4. /\ last \in DOMAIN stack /\ cur' = stack[last] /\ last \notin DOMAIN stack'
        /\ \A j \in DOMAIN stack' : j \in DOMAIN stack /\ stack'[j] = stack[j]
        /\ \A j \in DOMAIN stack : j # last => j \in DOMAIN stack'
    BY <2>1, <2>2, <2>3
  <2>5. Honest' BY <1>0, <1>a, <2>1, <2>4, TrueKept DEF Honest
  <2>6. ASSUME NEW i PROVE OnStack(i) <=> OnStack(i)' \/ i \in Members(cur'.node)
    BY <1>a, <2>4, TrueKept DEF OnStack
  <2>7. ASSUME NEW i \in Ids PROVE Narrows(i)
    <3>1. Pending(i) <=> Elsewhere(i) \/ OnStack(i) BY <2>1 DEF Pending
    <3>2. Pending(i)' <=> Elsewhere(i) \/ OnStack(i)' \/ i \in Members(cur'.node)
      BY <1>a, <1>b, <2>1, TrueKept DEF Pending
    <3>3. QED BY <2>6, <3>1, <3>2 DEF Narrows
  <2>8. \A j, k \in DOMAIN stack' : j # k => Members(stack'[j].node) \cap Members(stack'[k].node) = {}
    BY <2>4 DEF Apart
  <2>9. ASSUME NEW i \in Members(cur'.node) PROVE ~Elsewhere(i)' /\ ~OnStack(i)'
    <3>1. ~Elsewhere(i)' BY <1>b, <2>6 DEF Apart
    <3>2. ASSUME NEW j \in DOMAIN stack' PROVE i \notin Members(stack'[j].node)
      <4>1. Members(stack[j].node) \cap Members(stack[last].node) = {} BY <2>4 DEF Apart
      <4>2. QED BY <2>4, <4>1
    <3>3. QED BY <1>a, <3>1, <3>2, TrueKept DEF OnStack
  <2>10. \A i : OnStack(i)' => ~Elsewhere(i)' BY <1>b, <2>6 DEF Apart
  <2>11. Apart' BY <1>a, <1>c, <2>8, <2>9, <2>10, TrueKept DEF Apart
  <2>12. QED BY <1>a, <1>c, <2>1, <2>5, <2>7, <2>11, FivesKept
<1>5. CASE TreeDone
  <2>1. pc = "pop" /\ pc' = caller /\ UNCHANGED <<cur, stack>> BY <1>5 DEF TreeDone
  <2>2. caller \in {"collect", "next"} BY DEF Shape
  <2>3. Honest' BY <1>a, <2>1, <2>2, TrueKept DEF Honest
  <2>4. \A i : OnStack(i)' <=> OnStack(i) BY <1>a, <2>1, OnStackKept
  <2>5. \A i \in Ids : Narrows(i) BY <1>b, <2>1, <2>2, <2>4 DEF Narrows, Pending
  <2>6. Apart' BY <1>a, <1>b, <1>c, <2>1, <2>2, <2>4, TrueKept DEF Apart
  <2>7. QED BY <1>a, <1>c, <2>1, <2>3, <2>5, <2>6, FivesKept
<1>6. QED BY <1>1, <1>2, <1>3, <1>4, <1>5

\* A lane step takes the lane in hand from those ahead, ...
LEMMA LaneAhead ==
  ASSUME Hypotheses, Shape, pc = "lane", NextLane, UNCHANGED <<ds, index, query, todo, caller, cur, stack>>,
         NEW i \in Ids, Pending(i)
  PROVE  Pending(i)' \/ i = LaneId
<1>1. CASE Ahead(i)
  <2>1. PICK b \in blk .. LeafEnd - 1, l \in 1 .. Lanes : LanesOf(index, b)[l] = i /\ (b = blk => l >= lane)
    BY <1>1 DEF Ahead
  <2>2. /\ blk \in Nat /\ LeafEnd \in Nat /\ lane \in 1 .. Lanes /\ Lanes \in Nat
    BY LaneFacts, Ranges
  <2>3. LeafEnd' = LeafEnd BY DEF LeafEnd, CurNode
  <2>4. CASE b = blk /\ l = lane BY <2>1, <2>4 DEF LaneId
  <2>5. CASE ~(b = blk /\ l = lane)
    <3>1. CASE lane < Lanes
      <4>1. lane' = lane + 1 /\ blk' = blk /\ pc' = "lane" BY <3>1 DEF NextLane
      <4>2. b = blk => l >= lane + 1 BY <2>1, <2>2, <2>5
      <4>3. (Ahead(i))' BY <2>1, <2>3, <4>1, <4>2 DEF Ahead
      <4>4. QED BY <4>1, <4>3 DEF Pending
    <3>2. CASE ~(lane < Lanes)
      <4>1. blk' = blk + 1 /\ pc' = "block" /\ lane = Lanes BY <2>2, <3>2 DEF NextLane
      <4>2. b \in blk + 1 .. LeafEnd - 1 BY <2>1, <2>2, <2>5, <4>1
      <4>3. (Ahead(i))' BY <2>1, <2>3, <4>1, <4>2 DEF Ahead
      <4>4. QED BY <4>1, <4>3 DEF Pending
    <3>3. QED BY <3>1, <3>2
  <2>6. QED BY <2>4, <2>5
<1>2. CASE ~Ahead(i)
  <2>1. Elsewhere(i) \/ OnStack(i) BY <1>2 DEF Pending
  <2>2. QED BY <2>1, ElsewhereKept, OnStackKept DEF Pending
<1>3. QED BY <1>1, <1>2

\* ... and its vector, which has no other lane, is not ahead any more.
LEMMA LaneBehind ==
  ASSUME Hypotheses, Shape, pc = "lane", NextLane, UNCHANGED <<ds, index, query, todo, caller, cur, stack>>,
         NEW i \in Ids, Ahead(i)'
  PROVE  Ahead(i) /\ i # LaneId
<1>1. /\ blk \in CurNode.start .. LeafEnd - 1 /\ lane \in 1 .. Lanes /\ CurNode.start \in Nat
      /\ LeafEnd \in Nat /\ Lanes \in Nat /\ blk \in Nat
  BY LaneFacts, Ranges
<1>2. LeafEnd' = LeafEnd BY DEF LeafEnd, CurNode
<1>3. PICK b \in blk' .. LeafEnd - 1, l \in 1 .. Lanes :
        LanesOf(index, b)[l] = i /\ (b = blk' /\ pc' = "lane" => l >= lane')
  BY <1>2 DEF Ahead
<1>4. b \in blk .. LeafEnd - 1 /\ (b = blk => l > lane)
  <2>1. CASE lane < Lanes
    <3>1. lane' = lane + 1 /\ blk' = blk /\ pc' = "lane" BY <2>1 DEF NextLane
    <3>2. QED BY <1>1, <1>3, <3>1
  <2>2. CASE ~(lane < Lanes)
    <3>1. blk' = blk + 1 BY <2>2 DEF NextLane
    <3>2. QED BY <1>1, <1>3, <3>1
  <2>3. QED BY <2>1, <2>2
<1>5. Ahead(i)
  <2>1. b = blk => l >= lane BY <1>1, <1>3, <1>4
  <2>2. QED BY <1>3, <1>4, <2>1 DEF Ahead
<1>6. ASSUME LanesOf(index, blk)[lane] = i PROVE FALSE
  <2>1. IsLeaf(CurNode) BY DEF Shape, Scanning
  <2>2. OneLaneEach(index, CurNode.start .. LeafEnd - 1) BY <2>1, LeafFacts
  <2>3. b \in CurNode.start .. LeafEnd - 1 BY <1>1, <1>4
  <2>4. i # 0 BY VecDist
  <2>5. b = blk /\ l = lane BY <1>1, <1>3, <1>6, <2>2, <2>3, <2>4 DEF OneLaneEach
  <2>6. QED BY <1>1, <1>4, <2>5
<1>7. QED BY <1>5, <1>6 DEF LaneId

\* A lane step settles its own vector and makes none pending.
LEMMA LaneStep ==
  ASSUME Hypotheses, Shape, Apart, pc = "lane", NextLane,
         UNCHANGED <<ds, index, query, todo, caller, cur, stack>>, NEW i \in Ids
  PROVE  Pending(i)' <=> Pending(i) /\ i # LaneId
<1>1. Elsewhere(i)' <=> Elsewhere(i) BY ElsewhereKept
<1>2. OnStack(i)' <=> OnStack(i) BY OnStackKept
<1>3. pc' \in {"block", "lane"} BY DEF NextLane
<1>4. Pending(i)' <=> Elsewhere(i) \/ OnStack(i) \/ Ahead(i)' BY <1>1, <1>2, <1>3 DEF Pending
<1>5. Pending(i) <=> Elsewhere(i) \/ OnStack(i) \/ Ahead(i) BY DEF Pending
<1>6. i = LaneId => ~Elsewhere(i) /\ ~OnStack(i)
  <2>1. LaneId = 0 \/ LaneId \in Members(cur.node) BY LaneFacts
  <2>2. i # 0 BY VecDist
  <2>3. QED BY <2>1, <2>2 DEF Apart
<1>7. Ahead(i)' => Ahead(i) /\ i # LaneId BY LaneBehind
<1>8. Pending(i) => Pending(i)' \/ i = LaneId BY LaneAhead
<1>9. QED BY <1>4, <1>5, <1>6, <1>7, <1>8

\* Offering the lane in hand to the five: its vector is new to them, or it is
\* padding and lies behind all vectors.
LEMMA TakeKeeps ==
  ASSUME Hypotheses, PaddingFar, IInv, TakeLane
  PROVE  FivesInv'
<1> USE DEF IInv, call
<1>1. /\ pc = "lane" /\ NextLane /\ UNCHANGED <<ds, index, query, todo, caller, cur, stack, thr>>
      /\ top' = Insert(top, LaneDist, Label(ds, LaneId), LaneId)
  BY DEF TakeLane
<1>2. PICK D, L, n, I, J : D = Distance /\ L = ds.label /\ n = Count(ds) /\ I = Done /\ J = Done'
  OBVIOUS
<1>3. Distances(D, n) /\ Ids = 1 .. n /\ n \in Nat /\ L \in [1 .. n -> {0, 1}]
  BY <1>2, DistancesHere
<1>4. Ids' = Ids /\ Distance' = D BY <1>1, <1>2 DEF Ids, Distance
<1>5. \A j \in Ids : Pending(j)' <=> Pending(j) /\ j # LaneId BY <1>1, LaneStep
<1>6. /\ I = {j \in Ids : ~Pending(j)}
      /\ J = {j \in Ids : ~Pending(j) \/ j = LaneId}
  BY <1>2, <1>4, <1>5 DEF Done
<1>7. PICK i, t, new : i = LaneId /\ t = top /\ new = top'
  OBVIOUS
<1>8. Fives(t, D, L, I) BY <1>1, <1>2, <1>7 DEF FivesInv
<1>9. i \in 0 .. n BY <1>1, <1>2, <1>7, LaneFacts
<1>10. I \in SUBSET (1 .. n) BY <1>3, <1>6
<1>11. Fives(new, D, L, J) => FivesInv'
  BY <1>1, <1>2, <1>4, <1>7 DEF FivesInv
<1>12. CASE i # 0
  <2>1. i \in 1 .. n BY <1>3, <1>9, <1>12
  <2>2. Pending(i)
    <3>1. /\ blk \in Nat /\ LeafEnd \in Nat /\ blk \in CurNode.start .. LeafEnd - 1
          /\ CurNode.start \in Nat /\ lane \in 1 .. Lanes /\ Lanes \in Nat
      BY <1>1, LaneFacts, Ranges
    <3>2. blk \in blk .. LeafEnd - 1 /\ lane >= lane BY <3>1
    <3>3. Ahead(i) BY <1>7, <3>1, <3>2 DEF Ahead, LaneId
    <3>4. QED BY <1>1, <3>3 DEF Pending
  <2>3. i \notin I /\ J = I \cup {i} BY <1>3, <1>6, <1>7, <2>1, <2>2
  <2>4. LaneDist = D[i] /\ Label(ds, LaneId) = L[i]
    BY <1>2, <1>3, <1>7, <1>12, <2>1 DEF LaneDist, At, Label, Distance
  <2>5. new = Insert(t, D[i], L[i], i) BY <1>1, <1>7, <2>4
  <2>6. Fives(new, D, L, I \cup {i})
    BY <1>3, <1>8, <1>10, <2>1, <2>3, <2>5, TakeFives
  <2>7. QED BY <1>11, <2>3, <2>6
<1>13. CASE i = 0
  <2>1. PICK d, l : d = LaneDist /\ l = Label(ds, LaneId)
    OBVIOUS
  <2>2. d = Dist(query, [a \in Axes |-> Pad])
    BY <1>7, <1>13, <2>1 DEF LaneDist, At, PadPoint
  <2>3. d \in 0 .. Infinity
    <3>1. d \in 0 .. Infinity - 1 /\ Infinity \in Nat BY <1>1, <2>1, LaneFacts, Ranges
    <3>2. QED BY <3>1
  <2>4. \A j \in 1 .. n : D[j] < d
    <3>1. ds \in Datasets /\ query \in Queries BY DEF Shape
    <3>2. \A j \in 1 .. n : D[j] = Dist(query, ds.vec[j]) BY <1>2, <1>3 DEF Distance
    <3>3. QED BY <1>2, <2>2, <3>1, <3>2 DEF PaddingFar
  <2>5. new = Insert(t, d, l, 0) BY <1>1, <1>7, <1>13, <2>1
  <2>6. J = I
    <3>1. 0 \notin Ids BY <1>3
    <3>2. QED BY <1>6, <1>7, <1>13, <3>1
  <2>7. Fives(new, D, L, I) BY <1>3, <1>8, <1>10, <2>3, <2>4, <2>5, PhantomFives
  <2>8. QED BY <1>11, <2>6, <2>7
<1>14. QED BY <1>12, <1>13

\* The scan of a leaf offers every vector of it to the five, or drops it as far.
LEMMA ScanKeeps ==
  ASSUME Hypotheses, PaddingFar, IInv, StartBlock \/ DropLane \/ TakeLane \/ LeafDone
  PROVE  Honest' /\ Sorted' /\ Apart' /\ FivesInv'
<1> USE DEF call, scan, IInv
<1>0. /\ UNCHANGED <<ds, index, query, todo, caller, cur, stack>>
      /\ pc \in {"block", "lane"} /\ pc' \in {"block", "lane", "pop"}
  BY DEF StartBlock, DropLane, TakeLane, LeafDone, NextLane
<1>1. /\ \A v : True(v)' <=> True(v)
      /\ \A n : Members(n)' = Members(n)
      /\ \A i : (Elsewhere(i)' <=> Elsewhere(i)) /\ (OnStack(i)' <=> OnStack(i))
  BY <1>0, ElsewhereKept, OnStackKept DEF True, Members
<1>2. Honest' /\ Sorted' BY <1>0, <1>1 DEF Honest, Sorted
<1>3. Apart' BY <1>0, <1>1 DEF Apart
<1>4. CASE StartBlock
  <2>1. pc = "block" /\ pc' = "lane" /\ lane' = 1 /\ UNCHANGED <<top, blk>> BY <1>4 DEF StartBlock
  <2>2. LeafEnd' = LeafEnd BY <1>0 DEF LeafEnd, CurNode
  <2>3. \A i : Ahead(i)' <=> Ahead(i) BY <1>0, <2>1, <2>2 DEF Ahead
  <2>4. \A i \in Ids : Narrows(i) BY <1>1, <2>1, <2>3 DEF Narrows, Pending
  <2>5. QED BY <1>0, <1>2, <1>3, <2>1, <2>4, FivesKept
<1>5. CASE DropLane
  <2>1. pc = "lane" /\ NextLane /\ LaneDist >= thr - FloatError /\ top' = top BY <1>5 DEF DropLane
  <2>2. ASSUME NEW i \in Ids, i = LaneId PROVE Far(i)
    <3>1. LaneDist = Dist(query, ds.vec[i]) /\ LaneDist \in Int BY <2>2, VecDist DEF LaneDist
    <3>2. WorstF32 <= thr /\ thr \in 0 .. MaxWorst BY <2>1 DEF Shape, Scanning
    <3>3. LaneDist >= Worst(top) BY <2>1, <3>1, <3>2, Ranges DEF WorstF32, MaxWorst
    <3>4. QED BY <3>1, <3>3 DEF Far
  <2>3. \A i \in Ids : Pending(i)' <=> Pending(i) /\ i # LaneId BY <1>0, <2>1, LaneStep
  <2>4. \A i \in Ids : Narrows(i) BY <2>2, <2>3 DEF Narrows
  <2>5. QED BY <1>0, <1>2, <1>3, <2>1, <2>4, FivesKept
<1>6. CASE TakeLane BY <1>2, <1>3, <1>6, TakeKeeps
<1>7. CASE LeafDone
  <2>1. pc = "block" /\ blk = LeafEnd /\ pc' = "pop" /\ top' = top BY <1>7 DEF LeafDone
  <2>2. IsLeaf(CurNode) BY <2>1 DEF Shape, Scanning
  <2>3. LeafEnd \in Nat BY <2>1, <2>2, LeafFacts, TreesHere
  <2>4. \A i : ~Ahead(i) BY <2>1, <2>3 DEF Ahead
  <2>5. \A i \in Ids : Narrows(i) BY <1>1, <2>1, <2>4 DEF Narrows, Pending
  <2>6. QED BY <1>0, <1>2, <1>3, <2>1, <2>5, FivesKept
<1>8. QED BY <1>4, <1>5, <1>6, <1>7

\* A query starts with every vector before it.
LEMMA InitIInv == ASSUME Hypotheses, Init PROVE IInv
<1>1. Shape BY InitShape
<1>2. Honest /\ Sorted /\ Apart /\ FivesInv BY DEF Init, Honest, Sorted, Apart, OnStack, FivesInv
<1>3. QED BY <1>1, <1>2 DEF IInv

\* Every step keeps the invariant.
LEMMA NextIInv == ASSUME Hypotheses, PaddingFar, IInv, [Next]_vars PROVE IInv'
<1>0. Shape' BY NextShape DEF IInv
<1>1. CASE Start
  <2>1. /\ todo' = <<>> /\ stack' = <<>> /\ pc' = "same" /\ top' = ResetTop
        /\ UNCHANGED <<ds, index, query>>
    BY <1>1 DEF Start, call
  <2>2. PICK D : D = Distance
    OBVIOUS
  <2>3. Distance' = D /\ Done' = {} BY <2>1, <2>2 DEF Distance, Ids, Done, Pending
  <2>4. Fives(ResetTop, D, ds.label, {}) BY <2>2, DistancesHere, ResetFives DEF IInv
  <2>5. FivesInv' BY <2>1, <2>3, <2>4 DEF FivesInv
  <2>6. QED BY <1>0, <2>1, <2>5 DEF IInv, Honest, Sorted, Apart, OnStack
<1>2. CASE NextQuery
  <2>1. pc = "done" /\ pc' = "start" /\ UNCHANGED <<todo, stack>> BY <1>2 DEF NextQuery
  <2>2. todo = <<>> /\ stack = <<>> BY <2>1 DEF IInv, Shape, Phases
  <2>3. QED BY <1>0, <2>1, <2>2 DEF IInv, Honest, Sorted, Apart, OnStack, FivesInv
<1>3. CASE UNCHANGED vars
  <2>1. UNCHANGED <<ds, index, query, top, todo, caller, cur, stack, blk, lane, pc>> BY <1>3 DEF vars
  <2>2. /\ \A v : True(v)' <=> True(v)
        /\ \A n : Members(n)' = Members(n)
        /\ \A i : (Elsewhere(i)' <=> Elsewhere(i)) /\ (OnStack(i)' <=> OnStack(i))
    BY <2>1, ElsewhereKept, OnStackKept DEF True, Members
  <2>3. \A i : Ahead(i)' <=> Ahead(i) BY <2>1 DEF Ahead, LeafEnd, CurNode
  <2>4. Done' = Done BY <2>1, <2>2, <2>3 DEF Done, Pending, Ids
  <2>5. FivesInv' BY <2>1, <2>4 DEF IInv, FivesInv, Distance, Ids
  <2>6. (Honest /\ Sorted)' BY <2>1, <2>2 DEF IInv, Honest, Sorted
  <2>7. Apart' BY <2>1, <2>2 DEF IInv, Apart
  <2>8. QED BY <1>0, <2>5, <2>6, <2>7 DEF IInv
<1>4. CASE SearchSame \/ PassSame \/ Collect \/ SearchNext \/ Stop
  BY <1>0, <1>4, CallsKeep DEF IInv
<1>5. CASE TooFar \/ EnterLeaf \/ Descend \/ Pop \/ TreeDone
  BY <1>0, <1>5, WalkKeeps DEF IInv
<1>6. CASE StartBlock \/ DropLane \/ TakeLane \/ LeafDone
  BY <1>0, <1>6, ScanKeeps DEF IInv
<1>7. QED BY <1>1, <1>2, <1>3, <1>4, <1>5, <1>6 DEF Next, Search

-----------------------------------------------------------------------------
(* What every query keeps.                                                 *)

\* Everything stays in range, wherever the padding lies.
LEMMA ShapeAlways == ASSUME Hypotheses PROVE Spec => []Shape
<1>1. Init => Shape BY InitShape
<1>2. Shape /\ [Next]_vars => Shape' BY NextShape
<1>3. QED BY <1>1, <1>2, PTL DEF Spec

\* Every node, block and lane that searchKDTree and scanLeaf touch exists, and
\* the stack never holds more than TreeStackCap visits.
THEOREM KdTypeCorrect ==
  ASSUME DistancesFit, TreesFit PROVE Spec => []TypeOK
<1>1. Hypotheses BY DEF Hypotheses
<1>2. Shape => TypeOK
  <2> SUFFICES ASSUME Shape PROVE TypeOK OBVIOUS
  <2>1. pc = "lane" => blk < Len(index.data) /\ blk \in CurNode.start .. LeafEnd - 1 /\ lane \in 1 .. Lanes
    <3> SUFFICES ASSUME pc = "lane" PROVE blk < Len(index.data) /\ blk \in CurNode.start .. LeafEnd - 1
                                          /\ lane \in 1 .. Lanes
      OBVIOUS
    <3>1. QED BY <1>1, LaneFacts, TreesHere
  <2>2. QED BY <2>1 DEF TypeOK, Shape, TopTyped, Visitable, Scanning
<1>3. QED BY <1>1, <1>2, ShapeAlways, PTL

\* buildKDTree puts every vector into one lane of one leaf, and the vectors of a
\* key into one tree, no deeper than the stack has room for; boundingBox takes
\* none of them for farther away than it is.
THEOREM KdTreesSound ==
  ASSUME DistancesFit, TreesFit PROVE Spec => []TreesSound
<1>1. Hypotheses BY DEF Hypotheses
<1>2. Shape => TreesSound
  BY <1>1, IndexHere DEF Shape, TreesSound
<1>3. QED BY <1>1, <1>2, ShapeAlways, PTL

\* The search is exact: neither the bounds, nor the order of the trees, nor the
\* stack, nor the threshold gone stale within a block costs it a near vector or
\* lets one in twice, so its distances are those of brute force, and so is its
\* count unless vectors tie for the fifth place.
THEOREM KdExact ==
  ASSUME DistancesFit, TreesFit, PaddingFar PROVE Spec => []NearestFive
<1>1. Hypotheses BY DEF Hypotheses
<1>2. IInv => NearestFive
  <2> SUFFICES ASSUME IInv, pc = "done"
               PROVE  /\ \A r, s \in Slots : top[r].id = top[s].id /\ top[r].id # 0 => r = s
                      /\ \A s \in Slots : BruteTop[s].id # 0 => top[s].d = BruteTop[s].d
                      /\ NoTie => FraudCount(top) = FraudCount(BruteTop)
    BY DEF NearestFive
  <2>1. PICK D, L, n, a, b : /\ D = Distance /\ L = ds.label /\ n = Count(ds)
                             /\ a = top /\ b = BruteTop
    OBVIOUS
  <2>2. Distances(D, n) /\ Ids = 1 .. n /\ L \in [1 .. n -> {0, 1}]
    BY <1>1, <2>1, DistancesHere DEF IInv
  <2>3. todo = <<>> /\ stack = <<>> /\ caller = "next" BY DEF IInv, Shape, Phases
  <2>4. Done = Ids BY <2>3 DEF Done, Pending, Elsewhere, OnStack
  <2>5. Fives(a, D, L, 1 .. n) BY <2>1, <2>2, <2>4 DEF IInv, FivesInv
  <2>6. Fives(b, D, L, 1 .. n) BY <2>1, <2>2, BruteFives DEF BruteTop
  <2>7. \A r, s \in Slots : a[r].id = a[s].id /\ a[r].id # 0 => r = s
    BY <2>5 DEF Fives
  <2>8. \A s \in Slots : b[s].id # 0 => a[s].d = b[s].d
    BY <2>2, <2>5, <2>6, FivesAgree
  <2>9. ASSUME NoTie PROVE FraudCount(a) = FraudCount(b)
    <3>1. PICK N : N = {i \in 1 .. n : D[i] <= Worst(b)}
      OBVIOUS
    <3>2. Cardinality(N) = 5
      BY <2>1, <2>2, <2>9, <3>1 DEF NoTie
    <3>3. L \in [1 .. n -> Int]
      BY <2>2
    <3>4. QED BY <2>2, <2>5, <2>6, <3>1, <3>2, <3>3, FivesCount
  <2>10. QED BY <2>1, <2>7, <2>8, <2>9
<1>3. Init => IInv BY <1>1, InitIInv
<1>4. IInv /\ [Next]_vars => IInv' BY <1>1, NextIInv
<1>5. QED BY <1>2, <1>3, <1>4, PTL DEF Spec

=============================================================================
