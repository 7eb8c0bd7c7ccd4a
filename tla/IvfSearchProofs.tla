-------------------------- MODULE IvfSearchProofs ---------------------------
(***************************************************************************)
(* What the search keeps, for every number of clusters, lanes and axes,    *)
(* every threshold and every rounding: what Build makes of the data, that  *)
(* nothing nearer is lost on the way, and that the full search agrees with *)
(* brute force.                                                            *)
(***************************************************************************)
EXTENDS IvfSearch, SearchLemmas

-----------------------------------------------------------------------------
(* What Build makes of a dataset.                                          *)

WellFormed(d) ==
  /\ Dims \in Nat /\ Lanes \in Nat \ {0} /\ Pad \in Int /\ K \in Nat \ {0}
  /\ d.vec \in Seq(Points) /\ d.cent \in [Clusters -> Points]

LEMMA Measured ==
  ASSUME NEW d, WellFormed(d)
  PROVE  /\ Count(d) \in Nat
         /\ \A i \in 1 .. Count(d) : d.vec[i] \in Points
         /\ PadPoint \in Points
         /\ \A i \in 0 .. Count(d) : At(d, i) \in Points
         /\ \A i \in 0 .. Count(d), c \in Clusters : Dist(At(d, i), d.cent[c]) \in Nat
         /\ \A i \in 1 .. Count(d), c \in Clusters : Dist(d.vec[i], d.cent[c]) \in Nat
<1>1. Count(d) \in Nat /\ \A i \in 1 .. Count(d) : d.vec[i] \in Points
  BY DEF WellFormed, Count
<1>2. PadPoint \in Points
  BY DEF WellFormed, PadPoint, Points
<1>3. \A i \in 0 .. Count(d) : At(d, i) \in Points
  <2> TAKE i \in 0 .. Count(d)
  <2>1. i # 0 => i \in 1 .. Count(d)
    BY <1>1
  <2> QED BY <1>1, <1>2, <2>1 DEF At
<1>4. \A c \in Clusters : d.cent[c] \in Points
  BY DEF WellFormed
<1>5. \A p, q \in Points : Dist(p, q) \in Nat
  BY DistNat DEF WellFormed, Points
<1> QED BY <1>1, <1>2, <1>3, <1>4, <1>5

LEMMA AssignIs ==
  ASSUME NEW d, WellFormed(d), NEW i \in 1 .. Count(d)
  PROVE  Assign(d, i) \in Clusters
<1> DEFINE D == [c \in Clusters |-> Dist(d.vec[i], d.cent[c])]
           b == [x \in Clusters |-> {y \in Clusters : D[y] < D[x] \/ (D[y] = D[x] /\ y < x)}]
<1>1. D \in [Clusters -> Int] /\ \A c \in Clusters : D[c] = Dist(d.vec[i], d.cent[c])
  BY Measured
<1>2. \A x, y \in Clusters : y \in b[x] <=> D[y] < D[x] \/ (D[y] = D[x] /\ y < x)
  OBVIOUS
<1>3. IsFiniteSet(Clusters) /\ Clusters # {} /\ Clusters \in SUBSET Int
  <2>1. IsFiniteSet(Clusters)
    BY FS_Interval DEF Clusters, WellFormed
  <2>2. 1 \in Clusters /\ Clusters \in SUBSET Int
    BY DEF Clusters, WellFormed
  <2> QED BY <2>1, <2>2
<1> HIDE DEF D
<1>4. TotalOrder(b, Clusters)
  <2> DEFINE g == b
  <2> HIDE DEF g
  <2>1. g = [x \in Clusters |-> {y \in Clusters : D[y] < D[x] \/ (D[y] = D[x] /\ y < x)}]
    BY DEF g
  <2>2. TotalOrder(g, Clusters)
    BY <1>1, <1>3, <2>1, ByValue
  <2> QED BY <2>2 DEF g
<1> HIDE DEF b
<1>5. PICK m \in Clusters : \A x \in Clusters : x = m \/ m \in b[x]
  BY <1>3, <1>4, FirstOf
<1>6. \A e \in Clusters : D[m] < D[e] \/ (D[m] = D[e] /\ m <= e)
  <2> TAKE e \in Clusters
  <2>1. m \in Int /\ e \in Int /\ D[m] \in Int
    BY <1>1, <1>3
  <2>2. e = m \/ D[m] < D[e] \/ (D[m] = D[e] /\ m < e)
    BY <1>2, <1>5
  <2> QED BY <2>1, <2>2
<1>7. \E c \in Clusters : \A e \in Clusters :
        \/ Dist(d.vec[i], d.cent[c]) < Dist(d.vec[i], d.cent[e])
        \/ Dist(d.vec[i], d.cent[c]) = Dist(d.vec[i], d.cent[e]) /\ c <= e
  BY <1>1, <1>6
<1> QED BY <1>7 DEF Assign

Members(d, c) == {i \in 1 .. Count(d) : Assign(d, i) = c}

LEMMA BucketIs ==
  ASSUME NEW d, WellFormed(d), NEW c \in Clusters,
         NEW n, n = Cardinality(Members(d, c)), NEW ids, ids = Bucket(d, c)
  PROVE  /\ n \in Nat
         /\ ids \in [1 .. n -> Members(d, c)]
         /\ \A x \in Members(d, c) : \E p \in 1 .. n : ids[p] = x
         /\ \A p, r \in 1 .. n : ids[p] = ids[r] => p = r
<1> DEFINE S == Members(d, c)
           D == [i \in S |-> Dist(d.vec[i], d.cent[c])]
           b == [x \in S |-> {y \in S : D[y] < D[x] \/ (D[y] = D[x] /\ y < x)}]
<1>1. S \in SUBSET (1 .. Count(d)) /\ S \in SUBSET Int /\ Count(d) \in Nat
  BY Measured DEF Members
<1>2. IsFiniteSet(S)
  <2>1. IsFiniteSet(1 .. Count(d))
    BY <1>1, FS_Interval
  <2> QED BY <1>1, <2>1, FS_Subset
<1>3. D \in [S -> Int]
  BY <1>1, Measured
<1>4. TotalOrder(b, S)
  <2> DEFINE g == b
  <2> HIDE DEF g, D, S
  <2>1. g = [x \in S |-> {y \in S : D[y] < D[x] \/ (D[y] = D[x] /\ y < x)}]
    BY DEF g
  <2>2. TotalOrder(g, S)
    BY <1>1, <1>3, <2>1, ByValue
  <2> QED BY <2>2 DEF g
<1> DEFINE Ahead(x) == {y \in S : \/ Dist(d.vec[y], d.cent[c]) < Dist(d.vec[x], d.cent[c])
                                  \/ Dist(d.vec[y], d.cent[c]) = Dist(d.vec[x], d.cent[c]) /\ y < x}
<1>5. ids = [p \in 1 .. Cardinality(S) |-> CHOOSE x \in S : Cardinality(Ahead(x)) = p - 1]
  BY DEF Bucket, InOrder, Members
<1>6. \A x \in S : Ahead(x) = b[x]
  OBVIOUS
<1>7. ids = [p \in 1 .. Cardinality(S) |-> CHOOSE x \in S : Cardinality(b[x]) = p - 1]
  <2> HIDE DEF S, b, Ahead
  <2>1. ASSUME NEW p \in 1 .. Cardinality(S)
        PROVE  (CHOOSE x \in S : Cardinality(Ahead(x)) = p - 1) = (CHOOSE x \in S : Cardinality(b[x]) = p - 1)
    <3>1. \A x : (x \in S /\ Cardinality(Ahead(x)) = p - 1) <=> (x \in S /\ Cardinality(b[x]) = p - 1)
      BY <1>6
    <3> QED BY <3>1, Zenon
  <2> QED BY <1>5, <2>1, Zenon
<1> HIDE DEF S, b
<1>8. /\ Cardinality(S) \in Nat
      /\ ids \in [1 .. Cardinality(S) -> S]
      /\ \A x \in S : \E p \in 1 .. Cardinality(S) : ids[p] = x
      /\ \A p, r \in 1 .. Cardinality(S) : ids[p] = ids[r] => p = r
  <2>1. IsOrdered(ids, b, S)
    BY <1>7 DEF IsOrdered
  <2> QED BY <1>2, <1>4, <2>1, Ordered
<1> QED BY <1>8 DEF S

\* The blocks of a cluster.
BlocksOf(d, c) == [b \in 1 .. BlocksFor(Len(Bucket(d, c))) |-> Block(Bucket(d, c), b - 1)]

Lane == [1 .. Lanes -> Nat]

LEMMA ClusterBlocks ==
  ASSUME NEW d, WellFormed(d), NEW c \in Clusters, NEW blocks, blocks = BlocksOf(d, c)
  PROVE  /\ blocks \in Seq(Lane)
         /\ \A b \in 1 .. Len(blocks), l \in 1 .. Lanes : blocks[b][l] \in Members(d, c) \cup {0}
         /\ \A i \in Members(d, c) : \E b \in 1 .. Len(blocks), l \in 1 .. Lanes : blocks[b][l] = i
         /\ \A a, b \in 1 .. Len(blocks) : \A k, l \in 1 .. Lanes :
              blocks[a][k] = blocks[b][l] /\ blocks[a][k] # 0 => a = b /\ k = l
<1> DEFINE S == Members(d, c)
           n == Cardinality(S)
           ids == Bucket(d, c)
           m == BlocksFor(n)
<1>1. /\ n \in Nat /\ ids \in [1 .. n -> S]
      /\ \A x \in S : \E p \in 1 .. n : ids[p] = x
      /\ \A p, r \in 1 .. n : ids[p] = ids[r] => p = r
  BY BucketIs
<1>2. 0 \notin S /\ S \subseteq Nat
  BY Measured DEF Members
<1>3. Lanes \in Nat \ {0}
  BY DEF WellFormed
<1> HIDE DEF S, n, ids
<1>4. Len(ids) = n
  BY <1>1
<1>5. blocks = [b \in 1 .. m |-> Block(ids, b - 1)]
  BY <1>4 DEF BlocksOf, ids
<1> HIDE DEF m
<1>6. /\ m \in Nat
      /\ blocks \in [1 .. m -> [1 .. Lanes -> S \cup {0}]]
      /\ \A p \in 1 .. n : \E b \in 1 .. m, l \in 1 .. Lanes : blocks[b][l] = ids[p]
      /\ \A a, b \in 1 .. m : \A k, l \in 1 .. Lanes :
           blocks[a][k] = blocks[b][l] /\ blocks[a][k] # 0 => a = b /\ k = l
  <2>1. m = BlocksFor(n)
    BY DEF m
  <2>2. AreBlocks(blocks, ids, m)
    BY <1>5 DEF AreBlocks
  <2>3. Numbered(ids, n, S)
    BY <1>1 DEF Numbered
  <2> QED BY <1>2, <1>3, <2>1, <2>2, <2>3, BlockFacts
<1>7. Len(blocks) = m /\ blocks \in Seq([1 .. Lanes -> S \cup {0}])
  BY <1>6
<1>8. blocks \in Seq(Lane)
  <2>1. ASSUME NEW b \in 1 .. m PROVE blocks[b] \in Lane
    <3>1. blocks[b] \in [1 .. Lanes -> S \cup {0}]
      BY <1>6
    <3>2. S \cup {0} \subseteq Nat
      BY <1>2
    <3> QED BY <3>1, <3>2 DEF Lane
  <2>2. blocks \in [1 .. m -> Lane]
    BY <1>6, <2>1
  <2> QED BY <1>6, <2>2
<1>9. \A i \in S : \E b \in 1 .. m, l \in 1 .. Lanes : blocks[b][l] = i
  BY <1>1, <1>6
<1>10. \A b \in 1 .. m, l \in 1 .. Lanes : blocks[b][l] \in S \cup {0}
  BY <1>6
<1> QED BY <1>6, <1>7, <1>8, <1>9, <1>10 DEF S

\* The recursive function of an offset.
LenSums(g, blocks, S) ==
  g = [s \in SUBSET S |-> IF s = {} THEN 0 ELSE Len(blocks[Some(s)]) + g[s \ {Some(s)}]]

Lens(blocks) == [c \in Clusters |-> Len(blocks[c])]

LEMMA OffsetIs ==
  ASSUME NEW blocks, NEW S \in SUBSET Clusters
  PROVE  (CHOOSE g : LenSums(g, blocks, S))[S] = Sum(Lens(blocks), S)
<1> DEFINE lens == Lens(blocks)
<1>1. Sum(lens, S) = (CHOOSE g : Sums(g, lens, S))[S]
  BY SumIs
<1>2. ASSUME NEW g PROVE LenSums(g, blocks, S) <=> Sums(g, lens, S)
  <2> DEFINE A(s) == IF s = {} THEN 0 ELSE Len(blocks[Some(s)]) + g[s \ {Some(s)}]
             B(s) == IF s = {} THEN 0 ELSE lens[Some(s)] + g[s \ {Some(s)}]
  <2>1. \A s \in SUBSET S : A(s) = B(s)
    <3> TAKE s \in SUBSET S
    <3>1. s # {} => Some(s) \in Clusters
      BY DEF Some
    <3> QED BY <3>1 DEF Lens
  <2>2. LenSums(g, blocks, S) <=> g = [s \in SUBSET S |-> A(s)]
    BY DEF LenSums
  <2>3. Sums(g, lens, S) <=> g = [s \in SUBSET S |-> B(s)]
    BY DEF Sums
  <2> HIDE DEF A, B
  <2>4. [s \in SUBSET S |-> A(s)] = [s \in SUBSET S |-> B(s)]
    BY <2>1
  <2> QED BY <2>2, <2>3, <2>4
<1>3. (CHOOSE g : LenSums(g, blocks, S)) = (CHOOSE g : Sums(g, lens, S))
  BY <1>2, Zenon
<1> QED BY <1>1, <1>3

Blocks(d) == [c \in Clusters |-> BlocksOf(d, c)]

LEMMA BuildIs ==
  ASSUME NEW d, WellFormed(d), NEW ix, ix = Build(d)
  PROVE  /\ \A c \in 1 .. K + 1 : ix.offsets[c] = Sum(Lens(Blocks(d)), 1 .. c - 1)
         /\ ix.data = Joined(Blocks(d))
         /\ \A c \in Clusters : /\ ix.box[c] = Box(d, Bucket(d, c))
                                /\ ix.radius[c] = RadiusSq(d, c, BlocksOf(d, c))
<1> DEFINE bucket == [c \in Clusters |-> Bucket(d, c)]
           blocks == [c \in Clusters |->
                        [b \in 1 .. BlocksFor(Len(bucket[c])) |-> Block(bucket[c], b - 1)]]
           start == [c \in 1 .. K + 1 |-> (CHOOSE g : LenSums(g, blocks, 1 .. c - 1))[1 .. c - 1]]
           data == Joined([c \in Clusters |-> blocks[c]])
<1>1. ix = [offsets |-> start,
               data    |-> data,
               box     |-> [c \in Clusters |-> Box(d, bucket[c])],
               radius  |-> [c \in Clusters |-> RadiusSq(d, c, blocks[c])]]
  BY DEF Build, Joined, MapThenSumSet, MapThenFoldSet, LenSums, Some
<1>2. \A c \in Clusters : bucket[c] = Bucket(d, c) /\ blocks[c] = BlocksOf(d, c)
  BY DEF BlocksOf
<1>3. [c \in Clusters |-> blocks[c]] = Blocks(d) /\ blocks = Blocks(d)
  BY DEF Blocks, BlocksOf
<1>4. data = Joined(Blocks(d))
  BY <1>3
<1>5. \A c \in 1 .. K + 1 : start[c] = Sum(Lens(Blocks(d)), 1 .. c - 1)
  <2> TAKE c \in 1 .. K + 1
  <2>1. 1 .. c - 1 \in SUBSET Clusters
    BY DEF Clusters, WellFormed
  <2>2. start[c] = (CHOOSE g : LenSums(g, blocks, 1 .. c - 1))[1 .. c - 1]
    OBVIOUS
  <2> HIDE DEF blocks, start
  <2> QED BY <1>3, <2>1, <2>2, OffsetIs
<1> HIDE DEF start, data, bucket, blocks
<1>6. /\ ix.offsets = start /\ ix.data = data
      /\ \A c \in Clusters : /\ ix.box[c] = Box(d, bucket[c])
                             /\ ix.radius[c] = RadiusSq(d, c, blocks[c])
  BY <1>1
<1> QED BY <1>2, <1>4, <1>5, <1>6

\* The data of the ix: the blocks of each cluster follow those before it.
LEMMA DataIs ==
  ASSUME NEW d, WellFormed(d), NEW ix, ix = Build(d)
  PROVE  /\ ix.data \in Seq(Lane)
         /\ \A c \in Clusters : /\ First(ix, c) \in Nat
                                /\ End(ix, c) = First(ix, c) + Len(BlocksOf(d, c))
                                /\ End(ix, c) <= Len(ix.data)
         /\ \A c \in Clusters : \A b \in 1 .. Len(BlocksOf(d, c)) :
              ix.data[First(ix, c) + b] = BlocksOf(d, c)[b]
         /\ \A x \in 1 .. Len(ix.data) : \E c \in Clusters : \E b \in 1 .. Len(BlocksOf(d, c)) :
              x = First(ix, c) + b
<1> DEFINE blocks == Blocks(d)
           lens == Lens(blocks)
           start == [c \in 1 .. K + 1 |-> Sum(lens, 1 .. c - 1)]
<1>1. /\ K \in Nat \ {0} /\ Clusters = 1 .. K
      /\ blocks \in [1 .. K -> Seq(Lane)] /\ \A c \in 1 .. K : blocks[c] = BlocksOf(d, c)
  <2>1. \A c \in Clusters : BlocksOf(d, c) \in Seq(Lane)
    BY ClusterBlocks
  <2> QED BY <2>1 DEF Blocks, Clusters, WellFormed
<1>2. \A c \in 1 .. K : lens[c] \in Nat /\ lens[c] = Len(blocks[c])
  BY <1>1 DEF Lens
<1>3. \A c \in 1 .. K + 1 : ix.offsets[c] = start[c]
  BY BuildIs
<1>4. ix.data = Joined(blocks)
  BY BuildIs
<1> HIDE DEF blocks, lens
<1>5. Starts(start, blocks, K, Lane)
  <2>1. ASSUME NEW c \in 0 .. K
        PROVE  /\ IsFiniteSet(1 .. c) /\ \A e \in 1 .. c : lens[e] \in Int
               /\ Sum(lens, 1 .. c) \in Int
    <3>1. IsFiniteSet(1 .. c)
      BY FS_Interval
    <3>2. \A e \in 1 .. c : lens[e] \in Int
      BY <1>1, <1>2
    <3> QED BY <3>1, <3>2, SumStep
  <2>2. start[1] = 0
    <3>1. 1 .. 0 = {} /\ 1 \in 1 .. K + 1 /\ 1 - 1 = 0 /\ 0 \in 0 .. K
      BY <1>1
    <3>2. Sum(lens, 1 .. 0) = 0
      BY <2>1, <3>1, SumStep
    <3> QED BY <3>1, <3>2
  <2>3. ASSUME NEW c \in 1 .. K + 1 PROVE start[c] \in Int
    <3>1. c - 1 \in 0 .. K
      BY <1>1
    <3> QED BY <2>1, <3>1
  <2>4. ASSUME NEW c \in 1 .. K PROVE start[c + 1] = start[c] + Len(blocks[c])
    <3>1. /\ c \in 1 .. c /\ c \in 0 .. K /\ c - 1 \in 0 .. K /\ (1 .. c) \ {c} = 1 .. c - 1
          /\ c + 1 \in 1 .. K + 1 /\ c \in 1 .. K + 1 /\ (c + 1) - 1 = c
      BY <1>1
    <3>2. Sum(lens, 1 .. c) = lens[c] + Sum(lens, (1 .. c) \ {c})
      BY <2>1, <3>1, SumRemove
    <3>3. Sum(lens, 1 .. c - 1) \in Int /\ lens[c] \in Int /\ lens[c] = Len(blocks[c])
      BY <1>2, <2>1, <3>1
    <3>4. start[c + 1] = Sum(lens, 1 .. c) /\ start[c] = Sum(lens, 1 .. c - 1)
      BY <3>1
    <3>5. Sum(lens, 1 .. c) = lens[c] + Sum(lens, 1 .. c - 1)
      BY <3>1, <3>2
    <3> HIDE DEF start
    <3> QED BY <3>3, <3>4, <3>5
  <2>5. \A c \in 1 .. K : blocks[c] \in Seq(Lane)
    BY <1>1
  <2> HIDE DEF start
  <2> QED BY <2>2, <2>3, <2>4, <2>5 DEF Starts
<1> HIDE DEF start
<1>6. ix.data \in Seq(Lane) /\ Placed(ix.data, start, blocks, K)
  BY <1>1, <1>4, <1>5, Concatenation
<1>7. /\ Len(ix.data) = start[K + 1]
      /\ \A c \in 1 .. K : start[c] \in Nat /\ start[c + 1] <= start[K + 1]
      /\ \A c \in 1 .. K : \A b \in 1 .. Len(blocks[c]) : ix.data[start[c] + b] = blocks[c][b]
      /\ \A x \in 1 .. Len(ix.data) : \E c \in 1 .. K : \E b \in 1 .. Len(blocks[c]) : x = start[c] + b
  BY <1>6 DEF Placed
<1>8. ASSUME NEW c \in 1 .. K
      PROVE  First(ix, c) = start[c] /\ End(ix, c) = start[c + 1] /\ start[c + 1] = start[c] + Len(blocks[c])
  <2>1. c \in 1 .. K + 1 /\ c + 1 \in 1 .. K + 1
    BY <1>1
  <2> QED BY <1>3, <1>5, <2>1 DEF First, End, Starts
<1>9. \A c \in Clusters : /\ First(ix, c) \in Nat
                          /\ End(ix, c) = First(ix, c) + Len(BlocksOf(d, c))
                          /\ End(ix, c) <= Len(ix.data)
  BY <1>1, <1>7, <1>8
<1>10. ASSUME NEW c \in Clusters, NEW b \in 1 .. Len(BlocksOf(d, c))
       PROVE  ix.data[First(ix, c) + b] = BlocksOf(d, c)[b]
  <2>1. c \in 1 .. K /\ blocks[c] = BlocksOf(d, c) /\ First(ix, c) = start[c]
    BY <1>1, <1>8
  <2> QED BY <1>7, <2>1
<1>11. ASSUME NEW x \in 1 .. Len(ix.data)
       PROVE  \E c \in Clusters : \E b \in 1 .. Len(BlocksOf(d, c)) : x = First(ix, c) + b
  <2>1. PICK c \in 1 .. K : \E b \in 1 .. Len(blocks[c]) : x = start[c] + b
    BY <1>7
  <2>2. c \in Clusters /\ blocks[c] = BlocksOf(d, c) /\ First(ix, c) = start[c]
    BY <1>1, <1>8
  <2> QED BY <2>1, <2>2
<1> QED BY <1>6, <1>9, <1>10, <1>11

\* Build gives every cluster its run of blocks and every vector one lane, in a
\* block of its cluster.
LEMMA BuildLayout ==
  ASSUME NEW d, WellFormed(d), NEW ix, ix = Build(d)
  PROVE  /\ LayoutOf(d, ix)
         /\ \A i \in 1 .. Count(d) :
              Cardinality({bl \in (DOMAIN ix.data) \X (1 .. Lanes) : ix.data[bl[1]][bl[2]] = i}) = 1
<1> DEFINE Bl(c) == BlocksOf(d, c)
<1>1. /\ ix.data \in Seq(Lane) /\ Len(ix.data) \in Nat /\ DOMAIN ix.data = 1 .. Len(ix.data)
      /\ \A c \in Clusters : /\ First(ix, c) \in Nat
                             /\ End(ix, c) = First(ix, c) + Len(Bl(c))
                             /\ End(ix, c) <= Len(ix.data)
      /\ \A c \in Clusters : \A b \in 1 .. Len(Bl(c)) : ix.data[First(ix, c) + b] = Bl(c)[b]
      /\ \A x \in 1 .. Len(ix.data) : \E c \in Clusters : \E b \in 1 .. Len(Bl(c)) : x = First(ix, c) + b
  BY DataIs
<1>2. ASSUME NEW c \in Clusters
      PROVE  /\ Bl(c) \in Seq(Lane) /\ Len(Bl(c)) \in Nat
             /\ \A b \in 1 .. Len(Bl(c)), l \in 1 .. Lanes : Bl(c)[b][l] \in Members(d, c) \cup {0}
             /\ \A i \in Members(d, c) : \E b \in 1 .. Len(Bl(c)), l \in 1 .. Lanes : Bl(c)[b][l] = i
             /\ \A a, b \in 1 .. Len(Bl(c)) : \A k, l \in 1 .. Lanes :
                  Bl(c)[a][k] = Bl(c)[b][l] /\ Bl(c)[a][k] # 0 => a = b /\ k = l
  <2>1. PICK blocks : blocks = Bl(c)
    OBVIOUS
  <2>2. /\ blocks \in Seq(Lane)
        /\ \A b \in 1 .. Len(blocks), l \in 1 .. Lanes : blocks[b][l] \in Members(d, c) \cup {0}
        /\ \A i \in Members(d, c) : \E b \in 1 .. Len(blocks), l \in 1 .. Lanes : blocks[b][l] = i
        /\ \A a, b \in 1 .. Len(blocks) : \A k, l \in 1 .. Lanes :
             blocks[a][k] = blocks[b][l] /\ blocks[a][k] # 0 => a = b /\ k = l
    BY <2>1, ClusterBlocks
  <2>3. Len(blocks) \in Nat
    BY <2>2
  <2> HIDE DEF Bl
  <2> QED BY <2>1, <2>2, <2>3
<1> HIDE DEF Bl
<1>3. \A i \in 1 .. Count(d) : Assign(d, i) \in Clusters
  BY AssignIs
<1>4. Count(d) \in Nat /\ \A c \in Clusters : Members(d, c) \subseteq 1 .. Count(d)
  BY Measured DEF Members
<1>5. ASSUME NEW c \in Clusters
      PROVE  /\ First(ix, c) \in Nat /\ End(ix, c) \in First(ix, c) .. Len(ix.data)
             /\ \A b \in First(ix, c) .. End(ix, c) - 1, l \in 1 .. Lanes :
                  \A i \in {LanesOf(ix, b)[l]} \ {0} : i \in 1 .. Count(d) /\ Assign(d, i) = c
  <2>1. /\ First(ix, c) \in Nat /\ End(ix, c) = First(ix, c) + Len(Bl(c)) /\ End(ix, c) <= Len(ix.data)
        /\ Len(Bl(c)) \in Nat
    BY <1>1, <1>2
  <2>2. ASSUME NEW b \in First(ix, c) .. End(ix, c) - 1, NEW l \in 1 .. Lanes
        PROVE  \A i \in {LanesOf(ix, b)[l]} \ {0} : i \in 1 .. Count(d) /\ Assign(d, i) = c
    <3> DEFINE a == b + 1 - First(ix, c)
    <3>1. a \in 1 .. Len(Bl(c)) /\ First(ix, c) + a = b + 1
      BY <2>1
    <3> HIDE DEF a
    <3>2. ix.data[b + 1] = Bl(c)[a]
      BY <1>1, <3>1
    <3>3. Bl(c)[a][l] \in Members(d, c) \cup {0}
      BY <1>2, <3>1
    <3>4. LanesOf(ix, b)[l] \in Members(d, c) \cup {0}
      BY <3>2, <3>3 DEF LanesOf
    <3> QED BY <3>4 DEF Members
  <2> QED BY <1>1, <2>1, <2>2
<1>6. ASSUME NEW i \in 1 .. Count(d)
      PROVE  /\ Located(d, ix, i)
             /\ Cardinality({bl \in (DOMAIN ix.data) \X (1 .. Lanes) : ix.data[bl[1]][bl[2]] = i}) = 1
  <2> DEFINE c == Assign(d, i)
  <2>1. c \in Clusters /\ i \in Members(d, c) /\ i # 0
    BY <1>3, <1>4 DEF Members
  <2>2. PICK b \in 1 .. Len(Bl(c)), l \in 1 .. Lanes : Bl(c)[b][l] = i
    BY <1>2, <2>1
  <2> DEFINE x == First(ix, c) + b
  <2>3. /\ First(ix, c) \in Nat /\ End(ix, c) = First(ix, c) + Len(Bl(c)) /\ End(ix, c) <= Len(ix.data)
        /\ Len(Bl(c)) \in Nat
    BY <1>1, <1>2, <2>1
  <2>4. x \in 1 .. Len(ix.data) /\ x - 1 \in First(ix, c) .. End(ix, c) - 1 /\ (x - 1) + 1 = x
    BY <1>1, <2>3
  <2>5. ix.data[x] = Bl(c)[b] /\ ix.data[x][l] = i
    BY <1>1, <2>1, <2>2
  <2>6. Located(d, ix, i)
    <3>1. LanesOf(ix, x - 1)[l] = i
      BY <2>4, <2>5 DEF LanesOf
    <3> HIDE DEF x
    <3> QED BY <2>4, <3>1 DEF Located
  <2>7. ASSUME NEW y \in 1 .. Len(ix.data), NEW k \in 1 .. Lanes, ix.data[y][k] = i
        PROVE  y = x /\ k = l
    <3>0. PICK e \in Clusters : \E a \in 1 .. Len(Bl(e)) : y = First(ix, e) + a
      BY <1>1
    <3>1. PICK a \in 1 .. Len(Bl(e)) : y = First(ix, e) + a
      BY <3>0
    <3>2. ix.data[y] = Bl(e)[a] /\ Bl(e)[a][k] = i
      BY <1>1, <2>7, <3>1
    <3>3. i \in Members(d, e)
      BY <1>2, <2>1, <3>2
    <3>4. e = c
      BY <3>3 DEF Members
    <3>5. a = b /\ k = l
      BY <1>2, <2>1, <2>2, <3>2, <3>4
    <3> QED BY <3>1, <3>4, <3>5
  <2> DEFINE lanes == {bl \in (DOMAIN ix.data) \X (1 .. Lanes) : ix.data[bl[1]][bl[2]] = i}
  <2> HIDE DEF x, c
  <2>8. lanes = {<<x, l>>}
    <3>1. <<x, l>> \in lanes
      BY <1>1, <2>4, <2>5
    <3>2. ASSUME NEW bl \in lanes PROVE bl = <<x, l>>
      <4>1. bl \in (1 .. Len(ix.data)) \X (1 .. Lanes) /\ ix.data[bl[1]][bl[2]] = i
        BY <1>1
      <4>2. bl[1] \in 1 .. Len(ix.data) /\ bl[2] \in 1 .. Lanes /\ bl = <<bl[1], bl[2]>>
        BY <4>1
      <4>3. bl[1] = x /\ bl[2] = l
        BY <2>7, <4>1, <4>2
      <4> QED BY <4>2, <4>3
    <3> HIDE DEF lanes
    <3> QED BY <3>1, <3>2
  <2>9. Cardinality(lanes) = 1
    BY <2>8, FS_Singleton
  <2> QED BY <2>6, <2>9
<1>7. LayoutOf(d, ix)
  BY <1>1, <1>3, <1>5, <1>6 DEF LayoutOf
<1> QED BY <1>6, <1>7

\* Every vector lies in the box and within the radius of its cluster.
LEMMA BuildBounds ==
  ASSUME NEW d, WellFormed(d), NEW ix, ix = Build(d), NEW i \in 1 .. Count(d), NEW c, c = Assign(d, i)
  PROVE  /\ \A a \in Axes : /\ ix.box[c].lo[a] \in Int /\ ix.box[c].hi[a] \in Int
                            /\ ix.box[c].lo[a] <= d.vec[i][a] /\ d.vec[i][a] <= ix.box[c].hi[a]
         /\ ix.radius[c] \in Int /\ Dist(d.vec[i], d.cent[c]) <= ix.radius[c]
<1>1. /\ c \in Clusters /\ i \in Members(d, c) /\ i # 0 /\ Count(d) \in Nat
      /\ Lanes \in Nat \ {0} /\ Dims \in Nat
  BY AssignIs, Measured DEF Members, WellFormed
<1>2. /\ ix.box[c] = Box(d, Bucket(d, c)) /\ ix.radius[c] = RadiusSq(d, c, BlocksOf(d, c))
  BY <1>1, BuildIs
<1> DEFINE ids == Bucket(d, c)
           n == Cardinality(Members(d, c))
<1>3. /\ n \in Nat /\ ids \in [1 .. n -> Members(d, c)]
      /\ \A x \in Members(d, c) : \E p \in 1 .. n : ids[p] = x
  BY <1>1, BucketIs
<1>4. ids # <<>> /\ i \in ToSet(ids) /\ ToSet(ids) \in SUBSET (1 .. Count(d)) /\ IsFiniteSet(ToSet(ids))
  <2> HIDE DEF ids, n
  <2>1. PICK p \in 1 .. n : ids[p] = i
    BY <1>1, <1>3
  <2>2. DOMAIN ids = 1 .. n /\ ids # <<>>
    BY <1>3, <2>1
  <2>3. i \in ToSet(ids)
    BY <2>1, <2>2 DEF ToSet
  <2>4. ToSet(ids) \in SUBSET (1 .. Count(d))
    BY <1>3, <2>2 DEF ToSet, Members
  <2>5. IsFiniteSet(1 .. Count(d))
    BY <1>1, FS_Interval
  <2> QED BY <2>2, <2>3, <2>4, <2>5, FS_Subset
<1> HIDE DEF ids, n
<1>5. \A a \in Axes : /\ ix.box[c].lo[a] \in Int /\ ix.box[c].hi[a] \in Int
                       /\ ix.box[c].lo[a] <= d.vec[i][a] /\ d.vec[i][a] <= ix.box[c].hi[a]
  <2>1. PICK S, box : S = ToSet(ids) /\ box = ix.box[c]
    OBVIOUS
  <2>2. box = BoxOf(d, S) /\ S \in SUBSET (1 .. Count(d)) /\ i \in S
    BY <1>2, <1>4, <2>1 DEF Box, ids
  <2>3. Ascribed(d)
    <3>1. \A j \in 1 .. Count(d) : d.vec[j] \in Points
      BY Measured
    <3> QED BY <1>1, <3>1 DEF Ascribed, Points
  <2> QED BY <2>1, <2>2, <2>3, BoxAround
<1> DEFINE blocks == BlocksOf(d, c)
           R == {Dist(At(d, b[l]), d.cent[c]) : b \in ToSet(blocks), l \in 1 .. Lanes}
<1>6. /\ blocks \in Seq(Lane)
      /\ \A b \in 1 .. Len(blocks), l \in 1 .. Lanes : blocks[b][l] \in Members(d, c) \cup {0}
      /\ \E b \in 1 .. Len(blocks), l \in 1 .. Lanes : blocks[b][l] = i
  <2> DEFINE bl == blocks
  <2> HIDE DEF bl
  <2>1. bl = BlocksOf(d, c)
    BY DEF bl
  <2>2. /\ bl \in Seq(Lane)
        /\ \A b \in 1 .. Len(bl), l \in 1 .. Lanes : bl[b][l] \in Members(d, c) \cup {0}
        /\ \A j \in Members(d, c) : \E b \in 1 .. Len(bl), l \in 1 .. Lanes : bl[b][l] = j
    BY <1>1, <2>1, ClusterBlocks
  <2> HIDE DEF blocks
  <2>3. \E b \in 1 .. Len(bl), l \in 1 .. Lanes : bl[b][l] = i
    BY <1>1, <2>2
  <2> QED BY <2>2, <2>3 DEF bl
<1>7. ix.radius[c] = Max({0} \cup R)
  BY <1>2 DEF RadiusSq
<1> HIDE DEF blocks
<1>8. Len(blocks) \in Nat /\ DOMAIN blocks = 1 .. Len(blocks)
  BY <1>6
<1>9. Members(d, c) \subseteq 1 .. Count(d)
  BY DEF Members
<1>10. ASSUME NEW b \in ToSet(blocks), NEW l \in 1 .. Lanes
       PROVE  Dist(At(d, b[l]), d.cent[c]) \in Nat
  <2>1. PICK x \in 1 .. Len(blocks) : b = blocks[x]
    BY <1>8 DEF ToSet
  <2>2. b[l] \in 0 .. Count(d)
    BY <1>1, <1>6, <1>9, <2>1
  <2> QED BY <1>1, <2>2, Measured
<1>11. R \in SUBSET Int
  BY <1>10
<1>12. IsFiniteSet(R)
  <2> DEFINE B == (1 .. Len(blocks)) \X (1 .. Lanes)
             f == [p \in B |-> Dist(At(d, blocks[p[1]][p[2]]), d.cent[c])]
  <2>1. IsFiniteSet(1 .. Len(blocks)) /\ IsFiniteSet(1 .. Lanes)
    BY <1>1, <1>8, FS_Interval
  <2>2. IsFiniteSet(B)
    BY <2>1, FS_Product
  <2>3. f \in [B -> R]
    <3> SUFFICES ASSUME NEW x \in 1 .. Len(blocks), NEW l \in 1 .. Lanes
                 PROVE  Dist(At(d, blocks[x][l]), d.cent[c]) \in R
      OBVIOUS
    <3>1. blocks[x] \in ToSet(blocks)
      BY <1>8 DEF ToSet
    <3> QED BY <3>1
  <2>4. ASSUME NEW r \in R PROVE \E p \in B : f[p] = r
    <3>1. PICK b \in ToSet(blocks), l \in 1 .. Lanes : r = Dist(At(d, b[l]), d.cent[c])
      OBVIOUS
    <3>2. PICK x \in 1 .. Len(blocks) : b = blocks[x]
      BY <1>8 DEF ToSet
    <3>3. <<x, l>> \in B /\ f[<<x, l>>] = r
      BY <3>1, <3>2
    <3> QED BY <3>3
  <2> HIDE DEF B, R, f
  <2> QED BY <2>2, <2>3, <2>4, Image
<1>13. Dist(d.vec[i], d.cent[c]) \in R
  <2>1. PICK b \in 1 .. Len(blocks), l \in 1 .. Lanes : blocks[b][l] = i
    BY <1>6
  <2>2. blocks[b] \in ToSet(blocks)
    BY <1>8 DEF ToSet
  <2>3. At(d, i) = d.vec[i]
    BY <1>1 DEF At
  <2> QED BY <2>1, <2>2, <2>3
<1> HIDE DEF R
<1>14. {0} \cup R \in SUBSET Int /\ IsFiniteSet({0} \cup R) /\ {0} \cup R # {}
  <2>1. IsFiniteSet(R \cup {0}) /\ {0} \cup R = R \cup {0}
    BY <1>12, FS_AddElement
  <2> QED BY <1>11, <2>1
<1>15. ix.radius[c] \in Int /\ Dist(d.vec[i], d.cent[c]) <= ix.radius[c]
  <2> DEFINE U == {0} \cup R
  <2>1. Dist(d.vec[i], d.cent[c]) \in U
    BY <1>13
  <2> HIDE DEF U
  <2>2. U \in SUBSET Int /\ IsFiniteSet(U) /\ U # {} /\ ix.radius[c] = Max(U)
    BY <1>7, <1>14 DEF U
  <2>3. Max(U) \in U /\ \A y \in U : y <= Max(U)
    BY <2>2, MaxIs
  <2> QED BY <2>1, <2>2, <2>3
<1> QED BY <1>5, <1>15

\* A bound of a cluster never promises more than the distance of its vectors.
LEMMA BuildSound ==
  ASSUME NEW d, WellFormed(d), NEW q \in Points, Infinity \in Nat, KernelSafety \in Nat, FloatError \in Nat,
         NEW ix, ix = Build(d)
  PROVE  BoundsOf(d, ix, q)
<1> SUFFICES ASSUME NEW i \in 1 .. Count(d), NEW c, c = Assign(d, i), NEW w \in Nat, Reaches(d, ix, q, c, w)
             PROVE  w <= Dist(q, d.vec[i])
  BY DEF BoundsOf, Thresholds
<1>1. /\ c \in Clusters /\ d.vec[i] \in [Axes -> Int] /\ d.cent[c] \in [Axes -> Int] /\ q \in [Axes -> Int]
      /\ Dims \in Nat
  BY AssignIs, Measured DEF Points, WellFormed
<1>2. PICK box, r : box = ix.box[c] /\ r = ix.radius[c]
  OBVIOUS
<1>3. /\ \A a \in Axes : /\ box.lo[a] \in Int /\ box.hi[a] \in Int
                         /\ box.lo[a] <= d.vec[i][a] /\ d.vec[i][a] <= box.hi[a]
      /\ r \in Int /\ Dist(d.vec[i], d.cent[c]) <= r
  BY <1>2, BuildBounds
<1>4. CASE BoxBound(q, box) >= w
  <2>1. BoxBound(q, box) \in Int /\ BoxBound(q, box) <= Dist(q, d.vec[i])
    BY <1>1, <1>3, BoxSound
  <2>2. Dist(q, d.vec[i]) \in Nat
    BY <1>1, DistNat
  <2> QED BY <1>4, <2>1, <2>2
<1>5. CASE GapReaches(Dist(q, d.cent[c]), r, w)
  <2>1. PICK cd : cd = Dist(q, d.cent[c])
    OBVIOUS
  <2>2. cd > r /\ cd - r - w >= 0 /\ (w > 0 => (cd - r - w) * (cd - r - w) >= 4 * r * w)
    BY <1>5, <2>1 DEF GapReaches
  <2>3. cd \in Nat
    BY <1>1, <2>1, DistNat
  <2>4. r < cd
    BY <1>3, <2>2, <2>3
  <2> QED BY <1>1, <1>3, <2>1, <2>2, <2>4, BallSound
<1> QED BY <1>2, <1>4, <1>5 DEF Reaches

\* The assumptions of IvfSearch, of one dataset.
LEMMA Given ==
  ASSUME NEW d \in Datasets
  PROVE  WellFormed(d) /\ Count(d) \in Nat /\ d.label \in [1 .. Count(d) -> {0, 1}]
<1>1. /\ d.vec \in Seq(Points) /\ d.label \in [1 .. Count(d) -> {0, 1}]
      /\ d.cent \in [Clusters -> Points]
  BY IvfSearchAssumption
<1>2. K \in Nat \ {0} /\ Lanes \in Nat \ {0} /\ Dims \in Nat /\ Pad \in Int
  BY IvfSearchAssumption
<1>3. Count(d) \in Nat
  BY <1>1 DEF Count
<1> QED BY <1>1, <1>2, <1>3 DEF WellFormed

LEMMA LayoutSound == ASSUME NEW d \in Datasets PROVE LayoutOf(d, Build(d))
BY Given, BuildLayout

LEMMA BoundsSound ==
  ASSUME NEW d \in Datasets, NEW q \in Queries PROVE BoundsOf(d, Build(d), q)
BY Given, BuildSound, IvfSearchAssumption
-----------------------------------------------------------------------------
(* The clusters still to be scanned.                                       *)

\* A selection is a sequence of distinct clusters with no nearer one left out.
LEMMA NearestFacts ==
  ASSUME NEW n \in Nat, NEW S \in SUBSET Clusters, NEW p \in Nearest(n, S)
  PROVE  /\ p \in Seq(Clusters) /\ IsInjective(p) /\ ToSet(p) \subseteq S
         /\ \A c \in S \ ToSet(p), e \in ToSet(p) : ~Nearer(c, e)
<1>1. Cardinality(S) \in Nat
  <2>1. IsFiniteSet(Clusters)
    BY IvfSearchAssumption, FS_Interval DEF Clusters
  <2> QED BY <2>1, FS_Subset, FS_CardinalityType
<1> DEFINE m == IF n < Cardinality(S) THEN n ELSE Cardinality(S)
<1>2. m \in Nat
  BY <1>1
<1>3. /\ p \in [1 .. m -> S] /\ IsInjective(p)
      /\ \A c \in S \ ToSet(p), e \in ToSet(p) : ~Nearer(c, e)
  BY DEF Nearest
<1> HIDE DEF m
<1>4. p \in Seq(Clusters)
  BY <1>2, <1>3
<1>5. ToSet(p) \subseteq S
  BY <1>3 DEF ToSet
<1> QED BY <1>3, <1>4, <1>5

\* Head and Tail of a sequence without repetitions.
LEMMA TailFacts ==
  ASSUME NEW S, NEW s \in Seq(S), s # <<>>, IsInjective(s)
  PROVE  /\ Head(s) \in S /\ Tail(s) \in Seq(S) /\ IsInjective(Tail(s))
         /\ ToSet(s) = {Head(s)} \cup ToSet(Tail(s)) /\ Head(s) \notin ToSet(Tail(s))
<1>1. /\ Head(s) \in S /\ Tail(s) \in Seq(S) /\ Len(Tail(s)) = Len(s) - 1
      /\ \A i \in 1 .. Len(Tail(s)) : Tail(s)[i] = s[i + 1]
  BY HeadTailProperties
<1>2. /\ Len(s) \in Nat /\ Len(s) > 0 /\ DOMAIN s = 1 .. Len(s)
      /\ DOMAIN Tail(s) = 1 .. Len(s) - 1 /\ Head(s) = s[1]
  BY <1>1
<1>3. IsInjective(Tail(s))
  <2> SUFFICES ASSUME NEW a \in DOMAIN Tail(s), NEW b \in DOMAIN Tail(s), Tail(s)[a] = Tail(s)[b]
               PROVE  a = b
    BY DEF IsInjective
  <2>1. a + 1 \in DOMAIN s /\ b + 1 \in DOMAIN s /\ s[a + 1] = s[b + 1]
    BY <1>1, <1>2
  <2>2. a + 1 = b + 1
    BY <2>1 DEF IsInjective
  <2> QED BY <1>2, <2>2
<1>4. \A x : x \in ToSet(s) <=> x = Head(s) \/ x \in ToSet(Tail(s))
  <2>1. ASSUME NEW a \in DOMAIN s PROVE s[a] = Head(s) \/ s[a] \in ToSet(Tail(s))
    <3>1. CASE a = 1
      BY <1>2, <3>1
    <3>2. CASE a # 1
      <4>1. a - 1 \in DOMAIN Tail(s) /\ Tail(s)[a - 1] = s[a]
        BY <1>1, <1>2, <2>1, <3>2
      <4> QED BY <4>1 DEF ToSet
    <3> QED BY <3>1, <3>2
  <2>2. ASSUME NEW a \in DOMAIN Tail(s) PROVE Tail(s)[a] \in ToSet(s)
    <3>1. a + 1 \in DOMAIN s /\ Tail(s)[a] = s[a + 1]
      BY <1>1, <1>2, <2>2
    <3> QED BY <3>1 DEF ToSet
  <2>3. Head(s) \in ToSet(s)
    BY <1>2 DEF ToSet
  <2> QED BY <2>1, <2>2, <2>3 DEF ToSet
<1>5. Head(s) \notin ToSet(Tail(s))
  <2> SUFFICES ASSUME NEW a \in DOMAIN Tail(s), Tail(s)[a] = Head(s) PROVE FALSE
    BY DEF ToSet
  <2>1. a + 1 \in DOMAIN s /\ 1 \in DOMAIN s /\ s[a + 1] = s[1] /\ a + 1 # 1
    BY <1>1, <1>2
  <2> QED BY <2>1 DEF IsInjective
<1> QED BY <1>1, <1>3, <1>4, <1>5

\* What marking a cluster and going on to the next one leaves.
LEMMA AdvanceFacts ==
  ASSUME TypeOK, todo # <<>>, Advance
  PROVE  /\ todo' \in Seq(Clusters) /\ IsInjective(todo') /\ scanned' \subseteq Clusters
         /\ Head(todo) \in Clusters /\ Head(todo) \notin ToSet(todo')
         /\ ToSet(todo) = {Head(todo)} \cup ToSet(todo')
<1>1. todo \in Seq(Clusters) /\ IsInjective(todo) /\ scanned \subseteq Clusters
  BY DEF TypeOK
<1>2. todo' = Tail(todo)
  BY DEF Advance
<1>3. /\ Head(todo) \in Clusters /\ Tail(todo) \in Seq(Clusters) /\ IsInjective(Tail(todo))
      /\ ToSet(todo) = {Head(todo)} \cup ToSet(Tail(todo)) /\ Head(todo) \notin ToSet(Tail(todo))
  BY <1>1, TailFacts
<1>4. scanned' \subseteq Clusters
  BY <1>1, <1>3 DEF Advance
<1> QED BY <1>2, <1>3, <1>4
-----------------------------------------------------------------------------
(* Types and ranges.                                                       *)

Shape ==
  /\ ds \in Datasets /\ index = Build(ds)
  /\ pc \in {"block", "lane"} => todo # <<>>
  /\ pc = "lane" => lane \in 1 .. Lanes /\ Worst(top) + KernelSafety <= thr
  /\ Ascending(top)

TypeInv == TypeOK /\ Shape

\* The layout of the index in use.
LEMMA LayoutHere ==
  ASSUME Shape
  PROVE  /\ Len(index.data) \in Nat
         /\ \A c \in Clusters :
              /\ First(index, c) \in Nat /\ End(index, c) \in First(index, c) .. Len(index.data)
              /\ \A b \in First(index, c) .. End(index, c) - 1, l \in 1 .. Lanes :
                   \A i \in {LanesOf(index, b)[l]} \ {0} : i \in Ids /\ Assign(ds, i) = c
         /\ \A i \in Ids : Assign(ds, i) \in Clusters /\ Located(ds, index, i)
BY LayoutSound DEF LayoutOf, Shape, Ids

\* The five, the constants and the block in hand have the ranges the code
\* gives them.
LEMMA Ranges ==
  ASSUME TypeInv
  PROVE  /\ Good(top) /\ Ascending(top) /\ Worst(top) \in 0 .. Infinity
         /\ KernelSafety \in Nat /\ FloatError \in Nat /\ FloatError <= KernelSafety
         /\ Infinity \in Nat /\ Count(ds) \in Nat
         /\ Lanes \in Nat \ {0} /\ K \in Nat \ {0}
<1>1. Good(top) /\ Ascending(top)
  BY DEF TypeInv, TypeOK, Shape, Good
<1>2. Worst(top) \in 0 .. Infinity
  BY <1>1 DEF Good, Worst, Slots
<1>3. Count(ds) \in Nat
  BY Given DEF TypeInv, Shape
<1> QED BY <1>1, <1>2, <1>3, IvfSearchAssumption

\* A lane in hand holds a vector or the padding.
LEMMA LaneFacts ==
  ASSUME DistancesFit, TypeInv, pc = "lane"
  PROVE  /\ blk \in Nat /\ blk \in First(index, Head(todo)) .. End(index, Head(todo)) - 1
         /\ Head(todo) \in Clusters /\ lane \in 1 .. Lanes
         /\ LaneId \in 0 .. Count(ds) /\ LaneDist \in 0 .. Infinity - 1
         /\ LaneId # 0 => LaneId \in Ids /\ Assign(ds, LaneId) = Head(todo)
         /\ Label(ds, LaneId) \in {0, 1}
<1>1. todo \in Seq(Clusters) /\ todo # <<>> /\ lane \in 1 .. Lanes /\ query \in Queries /\ ds \in Datasets
  BY DEF TypeInv, TypeOK, Shape
<1>2. Head(todo) \in Clusters
  BY <1>1
<1>4. blk \in First(index, Head(todo)) .. End(index, Head(todo)) - 1
  BY DEF TypeInv, TypeOK
<1>3. First(index, Head(todo)) \in Nat /\ (LaneId # 0 => LaneId \in Ids /\ Assign(ds, LaneId) = Head(todo))
  BY <1>1, <1>2, <1>4, LayoutHere DEF TypeInv, LaneId
<1>5. First(index, Head(todo)) \in Nat /\ LaneId \in 0 .. Count(ds)
  <2>1. Count(ds) \in Nat
    BY <1>1, Given
  <2> QED BY <1>3, <2>1 DEF Ids
<1>6. LaneDist \in 0 .. Infinity - 1
  BY <1>1, <1>5 DEF DistancesFit, LaneDist
<1>7. Label(ds, LaneId) \in {0, 1}
  <2>1. Count(ds) \in Nat /\ ds.label \in [1 .. Count(ds) -> {0, 1}]
    BY <1>1, Given
  <2>2. LaneId # 0 => LaneId \in 1 .. Count(ds)
    BY <1>5, <2>1
  <2> QED BY <2>1, <2>2 DEF Label
<1>8. blk \in Nat
  BY <1>4, <1>5
<1> QED BY <1>1, <1>2, <1>3, <1>4, <1>5, <1>6, <1>7, <1>8

\* A search starts with everything in range.
LEMMA InitTypeInv == ASSUME Init PROVE TypeInv
<1>1. Infinity \in Nat /\ KernelSafety \in Nat /\ MaxRuns \in Nat \ {0} /\ Lanes \in Nat
      /\ Count(ds) \in Nat /\ Len(index.data) \in Nat
  BY IvfSearchAssumption, Given, LayoutSound DEF Init, LayoutOf
<1>2. \A s \in Slots : top[s] = Slot(0, 0, 0)
  BY DEF Init, ZeroTop
<1>3. Slot(0, 0, 0).d = 0 /\ Slot(0, 0, 0).label = 0 /\ Slot(0, 0, 0).id = 0
  BY DEF Slot
<1>4. Ascending(top)
  BY <1>2, <1>3 DEF Ascending, Slots
<1> QED BY <1>1, <1>2, <1>3, <1>4 DEF Init, TypeInv, TypeOK, Shape, Modes, IsInjective

\* Every step keeps everything in range.
LEMMA NextTypeInv ==
  ASSUME DistancesFit, TypeInv, [Next]_vars
  PROVE  TypeInv'
<1> USE Ranges
<1>1. /\ query \in Queries /\ mode \in Modes /\ scanned \subseteq Clusters
      /\ todo \in Seq(Clusters) /\ IsInjective(todo)
      /\ blk \in 0 .. Len(index.data) /\ lane \in 0 .. Lanes /\ thr \in 0 .. Infinity + KernelSafety
      /\ tier \in {"fast", "escalated", "sweep"} /\ runs \in 1 .. MaxRuns
      /\ ds \in Datasets /\ index = Build(ds)
      /\ \A s \in Slots : /\ top[s].d \in 0 .. Infinity /\ top[s].label \in {0, 1}
                          /\ top[s].id \in 0 .. Count(ds)
  BY DEF TypeInv, TypeOK, Shape
<1>2. CASE Pick
  <2>1. todo' \in Seq(Clusters) /\ IsInjective(todo')
    BY <1>2, NearestFacts, IvfSearchAssumption DEF Pick, FirstPicks
  <2>2. Slot(Infinity, 0, 0).d = Infinity /\ Slot(Infinity, 0, 0).label = 0 /\ Slot(Infinity, 0, 0).id = 0
    BY DEF Slot
  <2>3. \A s \in Slots : top'[s] = Slot(Infinity, 0, 0)
    BY <1>2 DEF Pick, ResetTop
  <2>4. Ascending(top')
    BY <2>2, <2>3 DEF Ascending, Slots
  <2>5. pc' = "cluster" /\ UNCHANGED <<ds, index, query, mode, runs, blk, lane, thr>> /\ scanned' = {} /\ tier' = "fast"
    BY <1>2 DEF Pick, call, scan
  <2>6. \A s \in Slots : /\ top'[s].d \in 0 .. Infinity /\ top'[s].label \in {0, 1}
                         /\ top'[s].id \in 0 .. Count(ds)
    BY <2>2, <2>3
  <2>7. TypeOK'
    BY <1>1, <2>1, <2>5, <2>6 DEF TypeOK
  <2>8. Shape'
    BY <1>1, <2>4, <2>5 DEF Shape
  <2> QED BY <2>7, <2>8 DEF TypeInv
<1>3. ASSUME todo # <<>>, Advance, UNCHANGED <<call, top, scan, tier>> PROVE TypeInv'
  <2>1. todo' \in Seq(Clusters) /\ IsInjective(todo') /\ scanned' \subseteq Clusters
    BY <1>3, AdvanceFacts DEF TypeInv
  <2>2. pc' = "cluster" /\ UNCHANGED <<ds, index, query, mode, runs, top, blk, lane, thr, tier>>
    BY <1>3 DEF Advance, call, scan
  <2> QED BY <1>1, <2>1, <2>2 DEF TypeInv, TypeOK, Shape
<1>4. CASE Skip
  BY <1>3, <1>4 DEF Skip
<1>5. CASE Prune
  BY <1>3, <1>5 DEF Prune
<1>6. CASE Enter
  <2>1. Head(todo) \in Clusters
    BY <1>1, <1>6 DEF Enter
  <2>2. First(index, Head(todo)) \in Nat /\ End(index, Head(todo)) \in First(index, Head(todo)) .. Len(index.data)
        /\ Len(index.data) \in Nat
    BY <2>1, LayoutHere DEF TypeInv
  <2>3. /\ blk' = First(index, Head(todo)) /\ pc' = "block" /\ todo # <<>>
        /\ UNCHANGED <<ds, index, query, mode, runs, top, scanned, todo, lane, thr, tier>>
    BY <1>6 DEF Enter, call
  <2>4. blk' \in 0 .. Len(index.data) /\ blk' \in First(index, Head(todo)) .. End(index, Head(todo))
    BY <2>2, <2>3
  <2>5. Head(todo)' = Head(todo) /\ First(index, Head(todo))' = First(index, Head(todo))
        /\ End(index, Head(todo))' = End(index, Head(todo))
    BY <2>3
  <2> QED BY <1>1, <2>3, <2>4, <2>5 DEF TypeInv, TypeOK, Shape
<1>7. CASE Leave
  BY <1>3, <1>7 DEF Leave, TypeInv, Shape
<1>8. CASE StartBlock
  <2>1. /\ thr' = Worst(top) + KernelSafety /\ lane' = 1 /\ pc' = "lane" /\ pc = "block"
        /\ blk # End(index, Head(todo))
        /\ UNCHANGED <<ds, index, query, mode, runs, top, scanned, todo, blk, tier>>
    BY <1>8 DEF StartBlock, call, WorstF32
  <2>2. todo # <<>> /\ Head(todo) \in Clusters
    BY <1>1, <2>1 DEF TypeInv, Shape
  <2>3. First(index, Head(todo)) \in Nat /\ End(index, Head(todo)) \in Nat
    BY <2>2, LayoutHere DEF TypeInv
  <2>4. blk \in First(index, Head(todo)) .. End(index, Head(todo))
    BY <2>1 DEF TypeInv, TypeOK
  <2>5. blk \in First(index, Head(todo)) .. End(index, Head(todo)) - 1
    BY <2>1, <2>3, <2>4
  <2>6. (blk \in First(index, Head(todo)) .. End(index, Head(todo)) - 1)'
    BY <2>1, <2>5
  <2>7. thr' \in 0 .. Infinity + KernelSafety /\ lane' \in 1 .. Lanes
    BY <2>1
  <2>8. Worst(top)' + KernelSafety <= thr'
    BY <2>1 DEF Worst
  <2> QED BY <1>1, <2>1, <2>2, <2>6, <2>7, <2>8 DEF TypeInv, TypeOK, Shape
<1>9. ASSUME pc = "lane", NextLane, UNCHANGED <<call, scanned, todo, thr, tier>>,
             Ascending(top)', Worst(top') <= Worst(top),
             \A s \in Slots : /\ top'[s].d \in 0 .. Infinity /\ top'[s].label \in {0, 1}
                             /\ top'[s].id \in 0 .. Count(ds)
      PROVE TypeInv'
  <2>1. todo # <<>> /\ lane \in 1 .. Lanes /\ Worst(top) + KernelSafety <= thr
    BY <1>9 DEF TypeInv, Shape
  <2>2. UNCHANGED <<ds, index, query, mode, runs, scanned, todo, thr, tier>>
    BY <1>9 DEF call
  <2>3. /\ blk \in First(index, Head(todo)) .. End(index, Head(todo)) - 1
        /\ blk \in Nat /\ Head(todo) \in Clusters
    BY <1>9, LaneFacts
  <2>4. Len(index.data) \in Nat /\ First(index, Head(todo)) \in Nat
        /\ End(index, Head(todo)) \in First(index, Head(todo)) .. Len(index.data)
    BY <2>3, LayoutHere DEF TypeInv
  <2>5. Worst(top') \in Int /\ Worst(top') + KernelSafety <= thr'
    <3>1. Worst(top') \in 0 .. Infinity
      BY <1>9 DEF Worst, Slots
    <3>2. thr' = thr /\ thr \in Int
      BY <1>1, <2>2
    <3> DEFINE w == Worst(top')
    <3> HIDE DEF w
    <3>3. w \in 0 .. Infinity /\ w <= Worst(top)
      BY <1>9, <3>1 DEF w
    <3>4. w \in Int /\ w + KernelSafety <= thr
      BY <2>1, <3>2, <3>3
    <3> QED BY <3>2, <3>4 DEF w
  <2>6. CASE lane < Lanes
    <3>1. lane' = lane + 1 /\ blk' = blk /\ pc' = "lane"
      BY <1>9, <2>6 DEF NextLane
    <3>2. lane' \in 1 .. Lanes
      BY <2>1, <2>6, <3>1
    <3>3. (blk \in First(index, Head(todo)) .. End(index, Head(todo)) - 1)'
      BY <2>2, <2>3, <3>1
    <3> QED BY <1>1, <1>9, <2>1, <2>2, <2>5, <3>1, <3>2, <3>3 DEF TypeInv, TypeOK, Shape, Worst
  <2>7. CASE ~(lane < Lanes)
    <3>1. lane' = 0 /\ blk' = blk + 1 /\ pc' = "block"
      BY <1>9, <2>7 DEF NextLane
    <3>2. blk' \in 0 .. Len(index.data) /\ blk' \in First(index, Head(todo)) .. End(index, Head(todo))
      BY <2>3, <2>4, <3>1
    <3>3. (blk \in First(index, Head(todo)) .. End(index, Head(todo)))'
      BY <2>2, <3>2
    <3> QED BY <1>1, <1>9, <2>1, <2>2, <3>1, <3>2, <3>3 DEF TypeInv, TypeOK, Shape
  <2> QED BY <2>6, <2>7
<1>10. CASE DropLane
  <2>1. pc = "lane" /\ NextLane /\ UNCHANGED <<call, top, scanned, todo, thr, tier>>
    BY <1>10 DEF DropLane
  <2>2. Ascending(top)' /\ Worst(top') <= Worst(top)
    BY <2>1
  <2> QED BY <1>1, <1>9, <2>1, <2>2
<1>11. CASE TakeLane
  <2> DEFINE new == Slot(LaneDist, Label(ds, LaneId), LaneId)
  <2>1. /\ pc = "lane" /\ NextLane /\ UNCHANGED <<call, scanned, todo, thr, tier>>
        /\ top' = Insert(top, LaneDist, Label(ds, LaneId), LaneId)
    BY <1>11 DEF TakeLane
  <2>2. /\ LaneDist \in 0 .. Infinity - 1 /\ Label(ds, LaneId) \in {0, 1} /\ LaneId \in 0 .. Count(ds)
    BY <2>1, LaneFacts
  <2>3. LaneDist \in 0 .. Infinity
    BY <2>2
  <2>4. /\ Good(top') /\ Ascending(top') /\ Worst(top') <= Worst(top)
        /\ \A s \in Slots : top'[s] = new \/ \E r \in Slots : top'[s] = top[r]
    BY <2>1, <2>3, InsertKeeps
  <2>5. new.d = LaneDist /\ new.label = Label(ds, LaneId) /\ new.id = LaneId
    BY DEF Slot
  <2> HIDE DEF new
  <2>6. \A s \in Slots : /\ top'[s].d \in 0 .. Infinity /\ top'[s].label \in {0, 1}
                         /\ top'[s].id \in 0 .. Count(ds)
    BY <1>1, <2>2, <2>3, <2>4, <2>5
  <2> QED BY <1>9, <2>1, <2>4, <2>6 DEF Ascending
<1>12. ASSUME pc' \in {"cluster", "done"}, todo' \in Seq(Clusters), IsInjective(todo'),
              tier' \in {"fast", "escalated", "sweep"}, UNCHANGED <<call, top, scanned, scan>>
       PROVE  TypeInv'
  <2>1. UNCHANGED <<ds, index, query, mode, runs, top, scanned, blk, lane, thr>>
    BY <1>12 DEF call, scan
  <2> QED BY <1>1, <1>12, <2>1 DEF TypeInv, TypeOK, Shape
<1>13. CASE Settle
  BY <1>1, <1>12, <1>13 DEF Settle
<1>14. CASE Escalate
  <2>1. FraudCount(top) \in 0 .. 5
    <3>1. \A s \in Slots : top[s].label \in 0 .. 1
      BY <1>1
    <3> QED BY <3>1 DEF FraudCount, Slots
  <2>2. EscalateN[FraudCount(top)] \in Nat
    BY <2>1, IvfSearchAssumption
  <2>3. todo' \in Nearest(EscalateN[FraudCount(top)], Clusters \ scanned)
    BY <1>14 DEF Escalate, NextPicks
  <2>4. todo' \in Seq(Clusters) /\ IsInjective(todo')
    BY <2>2, <2>3, NearestFacts
  <2> QED BY <1>1, <1>12, <1>14, <2>4 DEF Escalate
<1>15. CASE Sweep
  <2>1. todo' = [c \in 1 .. K |-> c]
    BY <1>15 DEF Sweep, Clusters
  <2>2. todo' \in Seq(Clusters)
    BY <2>1 DEF Clusters
  <2>3. IsInjective(todo')
    BY <2>1 DEF IsInjective
  <2> QED BY <1>1, <1>12, <1>15, <2>2, <2>3 DEF Sweep
<1>16. CASE Finish
  BY <1>1, <1>12, <1>16 DEF Finish
<1>17. CASE NextQuery
  <2>1. /\ query' \in Queries /\ mode' \in Modes /\ runs' = runs + 1 /\ runs < MaxRuns /\ pc' = "pick"
        /\ UNCHANGED <<ds, index, top, scanned, todo, blk, lane, thr, tier>>
    BY <1>17 DEF NextQuery, scan
  <2>2. runs' \in 1 .. MaxRuns
    <3>1. MaxRuns \in Nat
      BY IvfSearchAssumption
    <3>2. runs + 1 \in 1 .. MaxRuns
      BY <1>1, <2>1, <3>1
    <3> QED BY <2>1, <3>2
  <2> QED BY <1>1, <2>1, <2>2 DEF TypeInv, TypeOK, Shape
<1>18. CASE UNCHANGED vars
  <2>1. UNCHANGED <<ds, index, query, mode, top, scanned, todo, blk, lane, thr, tier, pc, runs>>
    BY <1>18 DEF vars
  <2> QED BY <1>1, <2>1 DEF TypeInv, TypeOK, Shape, Worst
<1> QED BY <1>2, <1>4, <1>5, <1>6, <1>7, <1>8, <1>10, <1>11, <1>13, <1>14, <1>15, <1>16, <1>17, <1>18
        DEF Next

\* Everything stays in range for every behaviour: every slot, block and lane
\* the search touches exists.
THEOREM SearchTypeCorrect ==
  ASSUME DistancesFit PROVE Spec => []TypeOK
<1>1. Init => TypeInv
  BY InitTypeInv
<1>2. TypeInv /\ [Next]_vars => TypeInv'
  BY NextTypeInv
<1>3. TypeInv => TypeOK
  BY DEF TypeInv
<1> QED BY <1>1, <1>2, <1>3, PTL DEF Spec
-----------------------------------------------------------------------------
(* The index and its bounds.                                               *)

\* The index is the one Build made of the data; every query is a point.
Built == ds \in Datasets /\ index = Build(ds) /\ query \in Queries

LEMMA AlwaysBuilt == Spec => []Built
<1>1. Init => Built
  BY DEF Init, Built
<1>2. Built /\ [Next]_vars => Built'
  <2> SUFFICES ASSUME Built, [Next]_vars PROVE Built'
    OBVIOUS
  <2>1. UNCHANGED <<ds, index>> /\ (query' = query \/ query' \in Queries)
    BY DEF Next, vars, call, Pick, Skip, Prune, Enter, Leave, StartBlock, DropLane, TakeLane,
           Settle, Escalate, Sweep, Finish, NextQuery
  <2> QED BY <2>1 DEF Built
<1> QED BY <1>1, <1>2, PTL DEF Spec

\* Build gives every vector one lane, in a block of its cluster, and the cluster
\* a box and a radius the vector lies within, whatever the data: no cluster
\* size, nor a partial or an empty run of blocks, shifts a lane elsewhere.
THEOREM IndexIsSound == Spec => []IndexSound
<1>1. Built => IndexSound
  <2> SUFFICES ASSUME Built PROVE IndexSound
    OBVIOUS
  <2>1. WellFormed(ds) /\ index = Build(ds)
    BY Given DEF Built
  <2>2. /\ LayoutOf(ds, index)
        /\ \A i \in 1 .. Count(ds) :
             Cardinality({bl \in (DOMAIN index.data) \X (1 .. Lanes) : index.data[bl[1]][bl[2]] = i}) = 1
    BY <2>1, BuildLayout
  <2>3. ASSUME NEW i \in Ids PROVE Bounded(ds, index, i)
    <3>1. i \in 1 .. Count(ds)
      BY DEF Ids
    <3>2. PICK c : c = Assign(ds, i)
      OBVIOUS
    <3>3. /\ \A a \in Axes : /\ index.box[c].lo[a] <= ds.vec[i][a]
                             /\ ds.vec[i][a] <= index.box[c].hi[a]
          /\ Dist(ds.vec[i], ds.cent[c]) <= index.radius[c]
      BY <2>1, <3>1, <3>2, BuildBounds
    <3>4. Cardinality({bl \in (DOMAIN index.data) \X (1 .. Lanes) : index.data[bl[1]][bl[2]] = i}) = 1
      BY <2>2, <3>1
    <3> QED BY <3>2, <3>3, <3>4 DEF Bounded
  <2> QED BY <2>2, <2>3 DEF IndexSound
<1> QED BY <1>1, AlwaysBuilt, PTL

\* No threshold is reached by the radius gap or the box of a cluster that one of
\* its vectors undercuts: the triangle inequality on roots, though the code and
\* the model have the squares only.
THEOREM BoundsAreSound == Spec => []BoundsHold
<1>1. Built => BoundsHold
  BY BoundsSound DEF Built, BoundsHold
<1> QED BY <1>1, AlwaysBuilt, PTL
-----------------------------------------------------------------------------
(* Nothing nearer than the fifth is lost.                                  *)

\* The lane of vector i in the cluster being scanned is behind the search.
Passed(i) ==
  \E b \in First(index, Head(todo)) .. blk, l \in 1 .. Lanes :
    LanesOf(index, b)[l] = i /\ (b < blk \/ (b = blk /\ pc = "lane" /\ l < lane))

\* Vector i is settled: its cluster is visited or its lane is passed.
Considered(i) ==
  \/ Assign(ds, i) \in Visited
  \/ pc \in {"block", "lane"} /\ Assign(ds, i) = Head(todo) /\ Passed(i)

Far(i) == i \in InTop \/ Dist(query, ds.vec[i]) >= Worst(top)

True(s) == top[s].id # 0 => top[s].d = Dist(query, ds.vec[top[s].id])

BestInv ==
  pc # "pick" => /\ \A s \in Slots : True(s)
                 /\ \A i \in Ids : Considered(i) => Far(i)

\* The distance of a vector is a number below Infinity.
LEMMA VecDist ==
  ASSUME DistancesFit, TypeInv, NEW i \in Ids
  PROVE  i # 0 /\ At(ds, i) = ds.vec[i] /\ Dist(query, ds.vec[i]) \in 0 .. Infinity - 1
<1>1. Count(ds) \in Nat /\ ds \in Datasets /\ query \in Queries
  BY Ranges DEF TypeInv, TypeOK, Shape
<1>2. i # 0 /\ i \in 0 .. Count(ds)
  BY <1>1 DEF Ids
<1>3. At(ds, i) = ds.vec[i]
  BY <1>2 DEF At
<1> QED BY <1>1, <1>2, <1>3 DEF DistancesFit

\* A step that leaves the top five as they are keeps BestInv when whatever it
\* settles is far.
LEMMA BestUnchanged ==
  ASSUME BestInv, pc # "pick", UNCHANGED <<ds, index, query, top>>,
         \A i \in Ids : Considered(i)' => Considered(i) \/ Far(i)
  PROVE  BestInv'
<1>1. \A i \in Ids : Far(i) => Far(i)'
  BY DEF Far, InTop, Worst
<1>2. \A s \in Slots : True(s)'
  BY DEF BestInv, True
<1>3. Ids' = Ids
  BY DEF Ids
<1> QED BY <1>1, <1>2, <1>3 DEF BestInv

\* Marking a cluster settles its vectors and no others.
LEMMA AdvanceSettles ==
  ASSUME TypeInv, todo # <<>>, Advance, UNCHANGED <<ds, index, query, tier>>,
         NEW i \in Ids, Considered(i)'
  PROVE  Assign(ds, i) \in Visited \/ Assign(ds, i) = Head(todo)
<1>1. ToSet(todo) = {Head(todo)} \cup ToSet(todo') /\ Head(todo) \notin ToSet(todo')
  BY AdvanceFacts DEF TypeInv
<1>2. pc' = "cluster" /\ scanned' = IF tier = "sweep" THEN scanned ELSE scanned \cup {Head(todo)}
  BY DEF Advance
<1>3. Assign(ds, i) \in Visited'
  BY <1>2 DEF Considered
<1>4. CASE tier = "sweep"
  <2>1. Visited' = scanned \cup (Clusters \ ToSet(todo'))
    BY <1>2, <1>4 DEF Visited
  <2>2. Visited = scanned \cup (Clusters \ ToSet(todo))
    BY <1>4 DEF Visited
  <2> QED BY <1>1, <1>3, <2>1, <2>2
<1>5. CASE tier # "sweep"
  BY <1>2, <1>3, <1>5 DEF Visited
<1> QED BY <1>4, <1>5

\* The lane in hand is the only one a lane step settles.
LEMMA LaneSettles ==
  ASSUME TypeInv, pc = "lane", DistancesFit, NextLane,
         UNCHANGED <<ds, index, query, scanned, todo, tier>>,
         NEW i \in Ids, Considered(i)'
  PROVE  Considered(i) \/ i = LaneId
<1>1. Visited' = Visited
  BY DEF Visited
<1>2. CASE Assign(ds, i) \in Visited'
  BY <1>1, <1>2 DEF Considered
<1>3. CASE Assign(ds, i) = Head(todo) /\ Passed(i)'
  <2>1. PICK b \in First(index, Head(todo)) .. blk', l \in 1 .. Lanes :
          LanesOf(index, b)[l] = i /\ (b < blk' \/ (b = blk' /\ pc' = "lane" /\ l < lane'))
    BY <1>3 DEF Passed
  <2>2. blk \in Nat /\ First(index, Head(todo)) \in Nat /\ Head(todo) \in Clusters /\ lane \in 1 .. Lanes
        /\ Lanes \in Nat
    BY LaneFacts, LayoutHere, Ranges DEF TypeInv
  <2>3. \/ b < blk /\ b \in First(index, Head(todo)) .. blk
        \/ b = blk /\ b \in First(index, Head(todo)) .. blk /\ l < lane
        \/ b = blk /\ l = lane
    <3>1. CASE lane < Lanes
      <4>1. blk' = blk /\ lane' = lane + 1
        BY <3>1 DEF NextLane
      <4> QED BY <2>1, <2>2, <4>1
    <3>2. CASE ~(lane < Lanes)
      <4>1. blk' = blk + 1 /\ pc' = "block" /\ lane = Lanes
        BY <2>2, <3>2 DEF NextLane
      <4> QED BY <2>1, <2>2, <4>1
    <3> QED BY <3>1, <3>2
  <2>4. CASE b = blk /\ l = lane
    BY <2>1, <2>4 DEF LaneId
  <2>5. CASE b \in First(index, Head(todo)) .. blk /\ (b < blk \/ (b = blk /\ l < lane))
    <3>1. Passed(i)
      BY <2>1, <2>5 DEF Passed
    <3> QED BY <1>3, <3>1 DEF Considered
  <2> QED BY <2>3, <2>4, <2>5
<1> QED BY <1>2, <1>3 DEF Considered

\* Offering the lane in hand to the top five keeps BestInv: whatever the
\* insertion leaves out, the candidate or the old fifth, is far afterwards.
LEMMA TakeBest ==
  ASSUME DistancesFit, TypeInv, BestInv, TakeLane
  PROVE  BestInv'
<1> DEFINE new == Slot(LaneDist, Label(ds, LaneId), LaneId)
<1>1. /\ pc = "lane" /\ NextLane /\ UNCHANGED <<ds, index, query, mode, scanned, todo, thr, tier>>
      /\ top' = Insert(top, LaneDist, Label(ds, LaneId), LaneId)
  BY DEF TakeLane, call
<1>2. LaneDist \in 0 .. Infinity - 1 /\ LaneId \in 0 .. Count(ds) /\ Infinity \in Nat /\ Count(ds) \in Nat
  BY <1>1, LaneFacts, Ranges
<1>3. LaneDist \in 0 .. Infinity
  BY <1>2
<1>4. Good(top) /\ Ascending(top) /\ Worst(top) \in 0 .. Infinity
  BY Ranges
<1>5. /\ Good(top') /\ Worst(top') <= Worst(top)
      /\ \A s \in Slots : top'[s] = new \/ \E r \in Slots : top'[s] = top[r]
      /\ \A r \in Slots : (\E s \in Slots : top'[s] = top[r]) \/ top[r].d >= Worst(top')
      /\ (\E s \in Slots : top'[s] = new) \/ LaneDist >= Worst(top')
  BY <1>1, <1>2, <1>3, <1>4, InsertKeeps
<1>6. new.d = LaneDist /\ new.id = LaneId
  BY DEF Slot
<1>7. LaneId # 0 => LaneId \in Ids /\ LaneDist = Dist(query, ds.vec[LaneId])
  BY <1>2 DEF Ids, LaneDist, At
<1> HIDE DEF new
<1>8. Worst(top') \in 0 .. Infinity
  BY <1>5 DEF Good, Worst, Slots
<1>9. \A s \in Slots : True(s)'
  <2> TAKE s \in Slots
  <2>1. \A r \in Slots : True(r)
    BY <1>1 DEF BestInv
  <2>2. CASE top'[s] = new
    BY <1>1, <1>6, <1>7, <2>2 DEF True
  <2>3. CASE \E r \in Slots : top'[s] = top[r]
    BY <1>1, <2>1, <2>3 DEF True
  <2> QED BY <1>5, <2>2, <2>3
<1>10. ASSUME NEW i \in Ids, Far(i) PROVE Far(i)'
  <2> DEFINE d == Dist(query, ds.vec[i])
             w == Worst(top')
             v == Worst(top)
  <2>1. d \in Int /\ i # 0 /\ w \in Int /\ v \in Int /\ w <= v
    BY <1>4, <1>5, <1>8, VecDist
  <2> HIDE DEF d, w, v
  <2>2. CASE i \in InTop
    <3>1. PICK r \in Slots : top[r].id = i
      BY <2>2 DEF InTop
    <3>2. top[r].d = d
      BY <1>1, <2>1, <3>1 DEF BestInv, True, d
    <3>3. CASE \E s \in Slots : top'[s] = top[r]
      BY <2>1, <3>1, <3>3 DEF Far, InTop
    <3>4. CASE top[r].d >= w
      BY <1>1, <3>2, <3>4 DEF Far, d, w, Worst
    <3> QED BY <1>5, <3>3, <3>4 DEF w
  <2>3. CASE d >= v
    <3>1. d >= w
      BY <2>1, <2>3
    <3> QED BY <1>1, <3>1 DEF Far, d, w, Worst
  <2> QED BY <1>10, <2>2, <2>3 DEF Far, d, v
<1>11. ASSUME NEW i \in Ids, i = LaneId PROVE Far(i)'
  <2>1. i # 0 /\ LaneDist = Dist(query, ds.vec[i])
    BY <1>7, <1>11, VecDist
  <2>2. CASE \E s \in Slots : top'[s] = new
    BY <1>6, <1>11, <2>1, <2>2 DEF Far, InTop
  <2>3. CASE LaneDist >= Worst(top')
    BY <1>1, <2>1, <2>3 DEF Far, Worst
  <2> QED BY <1>5, <2>2, <2>3
<1>12. \A i \in Ids : Considered(i)' => Far(i)'
  <2> TAKE i \in Ids
  <2>1. Considered(i)' => Considered(i) \/ i = LaneId
    BY <1>1, LaneSettles
  <2>2. Considered(i) => Far(i)
    BY <1>1 DEF BestInv
  <2> QED BY <1>10, <1>11, <2>1, <2>2
<1>13. Ids' = Ids
  BY <1>1 DEF Ids
<1> QED BY <1>9, <1>12, <1>13 DEF BestInv

\* A cluster is pruned only when all its vectors are far.
LEMMA PruneFar ==
  ASSUME DistancesFit, TypeInv, NEW i \in Ids, MayPrune(Assign(ds, i))
  PROVE  Far(i)
<1> DEFINE w == WorstF32 - FloatError
<1>1. Worst(top) \in 0 .. Infinity /\ KernelSafety \in Nat /\ FloatError \in Nat
      /\ FloatError <= KernelSafety /\ Infinity \in Nat
  BY Ranges
<1>2. w \in Thresholds /\ w >= Worst(top)
  BY <1>1 DEF Thresholds, WorstF32
<1>3. Reaches(ds, index, query, Assign(ds, i), w)
  BY DEF MayPrune
<1>4. ds \in Datasets /\ index = Build(ds) /\ query \in Queries /\ i \in 1 .. Count(ds)
  BY DEF TypeInv, TypeOK, Shape, Ids
<1> HIDE DEF w
<1>5. w <= Dist(query, ds.vec[i])
  BY <1>2, <1>3, <1>4, BoundsSound DEF BoundsOf
<1>6. Dist(query, ds.vec[i]) \in Int /\ w \in Int /\ Worst(top) \in Int
  BY <1>1, <1>2, VecDist DEF Thresholds
<1>7. Dist(query, ds.vec[i]) >= Worst(top)
  BY <1>2, <1>5, <1>6
<1> QED BY <1>7 DEF Far

\* A lane is dropped only when its vector is far.
LEMMA DropFar ==
  ASSUME DistancesFit, TypeInv, DropLane, NEW i \in Ids, i = LaneId
  PROVE  Far(i)
<1>1. pc = "lane" /\ LaneDist >= thr - FloatError
  BY DEF DropLane
<1>2. Worst(top) + KernelSafety <= thr /\ thr \in Int
  BY <1>1, Ranges DEF TypeInv, TypeOK, Shape
<1>3. Worst(top) \in Int /\ KernelSafety \in Int /\ FloatError \in Int /\ FloatError <= KernelSafety
  BY Ranges
<1>4. LaneDist \in Int
  BY <1>1, LaneFacts
<1>5. LaneDist >= Worst(top)
  BY <1>1, <1>2, <1>3, <1>4
<1>6. LaneDist = Dist(query, ds.vec[i])
  BY VecDist DEF LaneDist
<1> QED BY <1>5, <1>6 DEF Far

\* When the last block is behind the search, so is every vector of the cluster.
LEMMA LeavePassed ==
  ASSUME TypeInv, pc = "block", blk = End(index, Head(todo)),
         NEW i \in Ids, Assign(ds, i) = Head(todo)
  PROVE  Considered(i)
<1>1. Located(ds, index, i)
  BY LayoutHere DEF TypeInv
<1>2. PICK b \in First(index, Head(todo)) .. End(index, Head(todo)) - 1, l \in 1 .. Lanes :
        LanesOf(index, b)[l] = i
  BY <1>1 DEF Located
<1>3. First(index, Head(todo)) \in Nat /\ End(index, Head(todo)) \in Nat
  BY LayoutHere DEF TypeInv
<1>4. b < blk /\ b \in First(index, Head(todo)) .. blk
  BY <1>2, <1>3
<1>5. Passed(i)
  BY <1>2, <1>4 DEF Passed
<1> QED BY <1>5 DEF Considered

\* A step within a query that inserts nothing settles no vector that is not far.
LEMMA StepSettles ==
  ASSUME DistancesFit, TypeInv, [Next]_vars, pc # "pick", pc' # "pick", ~TakeLane
  PROVE  /\ UNCHANGED <<ds, index, query, top>>
         /\ \A i \in Ids : Considered(i)' => Considered(i) \/ Far(i)
<1> DEFINE Settles == /\ UNCHANGED <<ds, index, query, top>>
                      /\ \A i \in Ids : Considered(i)' => Considered(i) \/ Far(i)
<1> SUFFICES Settles
  OBVIOUS
<1>2. ASSUME todo # <<>>, Advance, UNCHANGED <<call, top, scan, tier>>,
             \A i \in Ids : Assign(ds, i) = Head(todo) => Considered(i) \/ Far(i)
      PROVE  Settles
  <2>1. UNCHANGED <<ds, index, query, top, tier>>
    BY <1>2 DEF call
  <2>2. ASSUME NEW i \in Ids, Considered(i)' PROVE Considered(i) \/ Far(i)
    <3>1. Assign(ds, i) \in Visited \/ Assign(ds, i) = Head(todo)
      BY <1>2, <2>1, <2>2, AdvanceSettles
    <3> QED BY <1>2, <3>1 DEF Considered
  <2> QED BY <2>1, <2>2
<1>3. CASE Skip
  <2>1. todo # <<>> /\ Advance /\ UNCHANGED <<call, top, scan, tier>> /\ pc = "cluster"
        /\ tier = "sweep" /\ Head(todo) \in scanned
    BY <1>3 DEF Skip, Skipped
  <2>2. \A i \in Ids : Assign(ds, i) = Head(todo) => Considered(i)
    BY <2>1 DEF Considered, Visited
  <2> QED BY <1>2, <2>1, <2>2
<1>4. CASE Prune
  <2>1. todo # <<>> /\ Advance /\ UNCHANGED <<call, top, scan, tier>> /\ pc = "cluster"
        /\ MayPrune(Head(todo))
    BY <1>4 DEF Prune
  <2>2. \A i \in Ids : Assign(ds, i) = Head(todo) => Far(i)
    BY <2>1, PruneFar
  <2> QED BY <1>2, <2>1, <2>2
<1>5. CASE Leave
  <2>1. Advance /\ UNCHANGED <<call, top, scan, tier>> /\ pc = "block" /\ blk = End(index, Head(todo))
    BY <1>5 DEF Leave
  <2>2. todo # <<>>
    BY <2>1 DEF TypeInv, Shape
  <2>3. \A i \in Ids : Assign(ds, i) = Head(todo) => Considered(i)
    BY <2>1, LeavePassed
  <2> QED BY <1>2, <2>1, <2>2, <2>3
<1>6. CASE Enter
  <2>1. /\ pc = "cluster" /\ pc' = "block" /\ blk' = First(index, Head(todo)) /\ todo # <<>>
        /\ UNCHANGED <<ds, index, query, top, scanned, todo, tier>>
    BY <1>6 DEF Enter, call
  <2>2. First(index, Head(todo)) \in Nat
    <3>1. Head(todo) \in Clusters
      BY <2>1 DEF TypeInv, TypeOK
    <3> QED BY <3>1, LayoutHere DEF TypeInv
  <2>3. ASSUME NEW i \in Ids PROVE ~Passed(i)'
    BY <2>1, <2>2 DEF Passed
  <2>4. Visited' = Visited
    BY <2>1 DEF Visited
  <2> QED BY <2>1, <2>3, <2>4 DEF Considered
<1>7. CASE StartBlock
  <2>1. /\ pc = "block" /\ pc' = "lane" /\ lane' = 1 /\ blk' = blk
        /\ UNCHANGED <<ds, index, query, top, scanned, todo, tier>>
    BY <1>7 DEF StartBlock, call
  <2>2. Lanes \in Nat
    BY Ranges
  <2>3. ASSUME NEW i \in Ids, Passed(i)' PROVE Passed(i)
    BY <2>1, <2>2, <2>3 DEF Passed
  <2>4. Visited' = Visited
    BY <2>1 DEF Visited
  <2> QED BY <2>1, <2>3, <2>4 DEF Considered
<1>8. CASE DropLane
  <2>1. /\ pc = "lane" /\ NextLane /\ UNCHANGED <<ds, index, query, top, scanned, todo, tier>>
    BY <1>8 DEF DropLane, call
  <2>2. \A i \in Ids : Considered(i)' => Considered(i) \/ i = LaneId
    BY <2>1, LaneSettles
  <2>3. \A i \in Ids : i = LaneId => Far(i)
    BY <1>8, DropFar
  <2> QED BY <2>1, <2>2, <2>3
<1>9. ASSUME pc = "cluster", pc' \in {"cluster", "done"}, UNCHANGED <<call, top, scanned>>, Visited' = Visited
      PROVE  Settles
  BY <1>9 DEF Considered, call
<1>10. CASE Settle
  BY <1>9, <1>10 DEF Settle, Visited
<1>11. CASE Escalate
  BY <1>9, <1>11 DEF Escalate, Visited
<1>12. CASE Sweep
  <2>1. ToSet(todo') = Clusters
    BY <1>12 DEF Sweep, ToSet
  <2>2. Visited' = Visited
    BY <1>12, <2>1 DEF Sweep, Visited
  <2> QED BY <1>9, <1>12, <2>2 DEF Sweep
<1>13. CASE Finish
  BY <1>9, <1>13 DEF Finish, Visited
<1>14. CASE UNCHANGED vars
  <2>1. UNCHANGED <<ds, index, query, top, scanned, todo, blk, lane, tier, pc>>
    BY <1>14 DEF vars
  <2> QED BY <2>1 DEF Considered, Visited, Passed
<1>15. ~Pick /\ ~NextQuery
  BY DEF Pick, NextQuery
<1> QED BY <1>3, <1>4, <1>5, <1>6, <1>7, <1>8, <1>10, <1>11, <1>12, <1>13, <1>14, <1>15 DEF Next

\* A query starts with nothing settled.
LEMMA PickSettles ==
  ASSUME Pick
  PROVE  top' = ResetTop /\ UNCHANGED <<ds, query>> /\ pc' # "pick" /\ \A i \in Ids : ~Considered(i)'
<1>1. /\ pc' = "cluster" /\ scanned' = {} /\ tier' = "fast" /\ top' = ResetTop
      /\ UNCHANGED <<ds, query>>
  BY DEF Pick, call
<1> QED BY <1>1 DEF Considered, Visited

\* The data never change, and a query begins with Pick.
LEMMA SameData ==
  ASSUME [Next]_vars
  PROVE  Ids' = Ids /\ ds' = ds /\ (pc = "pick" => Pick \/ pc' = "pick")
<1>1. ds' = ds
  BY DEF Next, vars, call, Pick, Skip, Prune, Enter, Leave, StartBlock, DropLane, TakeLane,
         Settle, Escalate, Sweep, Finish, NextQuery
<1>2. pc = "pick" => Pick \/ pc' = "pick"
  BY DEF Next, vars, Skip, Prune, Enter, Leave, StartBlock, DropLane, TakeLane,
         Settle, Escalate, Sweep, Finish, NextQuery
<1> QED BY <1>1, <1>2 DEF Ids

\* Every step keeps BestInv.
LEMMA NextBest ==
  ASSUME DistancesFit, TypeInv, BestInv, [Next]_vars
  PROVE  BestInv'
<1>1. CASE Pick
  <2>1. top' = ResetTop /\ \A i \in Ids : ~Considered(i)'
    BY <1>1, PickSettles
  <2>2. \A s \in Slots : top'[s].id = 0
    BY <2>1 DEF ResetTop, Slot
  <2> QED BY <2>1, <2>2, SameData DEF BestInv, True
<1>2. CASE TakeLane
  BY <1>2, TakeBest
<1>3. CASE pc # "pick" /\ pc' # "pick" /\ ~TakeLane
  BY <1>3, StepSettles, BestUnchanged
<1>4. CASE pc' = "pick"
  BY <1>4 DEF BestInv
<1> QED BY <1>1, <1>2, <1>3, <1>4, SameData

\* Pruning by radius and by box, dropping lanes against a threshold read once
\* for the block and rounding all of it in float32 lose nothing: whatever the
\* search has visited and does not hold is as far as its fifth.
THEOREM SearchIsBest ==
  ASSUME DistancesFit PROVE Spec => []TopIsBest
<1>1. Init => TypeInv /\ BestInv
  BY InitTypeInv DEF Init, BestInv
<1>2. TypeInv /\ BestInv /\ [Next]_vars => (TypeInv /\ BestInv)'
  BY NextTypeInv, NextBest
<1>3. TypeInv /\ BestInv => TopIsBest
  <2> SUFFICES ASSUME TypeInv, BestInv, pc \in {"cluster", "done"} PROVE TopIsBest
    BY DEF TopIsBest
  <2>1. \A i \in Ids : Assign(ds, i) \in Visited => Far(i)
    BY DEF BestInv, Considered
  <2>2. \A s \in Slots : True(s)
    BY DEF BestInv
  <2> QED BY <2>1, <2>2 DEF TopIsBest, TypeInv, Shape, Far, True
<1> QED BY <1>1, <1>2, <1>3, PTL DEF Spec

\* Within a query the fifth distance, the threshold of all the pruning, never
\* grows: a cluster or a lane once left out need not be looked at again.
THEOREM SearchWorstShrinks ==
  ASSUME DistancesFit PROVE Spec => WorstShrinks
<1>1. Init => TypeInv
  BY InitTypeInv
<1>2. TypeInv /\ [Next]_vars => TypeInv'
  BY NextTypeInv
<1>3. ASSUME TypeInv, [Next]_vars PROVE [(pc # "pick") => Worst(top)' <= Worst(top)]_vars
  <2>1. Worst(top) \in 0 .. Infinity /\ Infinity \in Nat /\ Good(top) /\ Ascending(top)
    BY <1>3, Ranges
  <2>2. CASE TakeLane
    <3>1. LaneDist \in 0 .. Infinity - 1 /\ top' = Insert(top, LaneDist, Label(ds, LaneId), LaneId)
      BY <1>3, <2>2, LaneFacts DEF TakeLane
    <3>2. LaneDist \in 0 .. Infinity
      BY <2>1, <3>1
    <3>3. Worst(top') <= Worst(top)
      BY <2>1, <3>1, <3>2, InsertKeeps
    <3> QED BY <3>3 DEF Worst
  <2>3. CASE ~TakeLane
    <3>1. pc # "pick" => top' = top
      BY <1>3, <2>3 DEF Next, vars, call, Pick, Skip, Prune, Enter, Leave, StartBlock, DropLane,
                        Settle, Escalate, Sweep, Finish, NextQuery
    <3>2. pc # "pick" => Worst(top)' = Worst(top)
      BY <3>1 DEF Worst
    <3> QED BY <2>1, <3>2
  <2> QED BY <2>2, <2>3
<1> QED BY <1>1, <1>2, <1>3, PTL DEF Spec, WorstShrinks
-----------------------------------------------------------------------------
(* Which clusters are visited.                                             *)

Chosen == scanned \cup ToSet(todo)

\* Those chosen so far are the nearest; and what a finished search has chosen.
NearInv ==
  /\ mode # "full" /\ pc # "pick" =>
       /\ tier # "sweep"
       /\ ToSet(todo) \cap scanned = {}
       /\ \A c \in Chosen, e \in Clusters \ Chosen : ~Nearer(e, c)
  /\ pc = "done" => todo = <<>> /\ (mode = "full" => tier = "sweep")
  /\ pc # "pick" /\ mode = "full" => tier \in {"fast", "sweep"}

\* Every step keeps NearInv.
LEMMA NextNear ==
  ASSUME TypeInv, NearInv, [Next]_vars
  PROVE  NearInv'
<1>0. scanned \subseteq Clusters
  BY DEF TypeInv, TypeOK
<1>1. CASE Pick
  <2>1. /\ todo' \in Nearest(FastNProbe, Clusters) /\ scanned' = {} /\ tier' = "fast" /\ pc' = "cluster"
        /\ UNCHANGED <<ds, query, mode>>
    BY <1>1 DEF Pick, call, FirstPicks
  <2>2. FastNProbe \in Nat
    BY IvfSearchAssumption
  <2>3. ToSet(todo') \subseteq Clusters /\ \A c \in Clusters \ ToSet(todo'), e \in ToSet(todo') : ~Nearer(c, e)
    BY <2>1, <2>2, NearestFacts
  <2> QED BY <2>1, <2>3 DEF NearInv, Chosen, Nearer, CentroidDist
<1>2. ASSUME todo # <<>>, Advance, UNCHANGED <<call, top, scan, tier>>, pc # "pick"
      PROVE  NearInv'
  <2>1. UNCHANGED <<ds, query, mode, tier>> /\ pc' = "cluster"
    BY <1>2 DEF call, Advance
  <2>2. ToSet(todo) = {Head(todo)} \cup ToSet(todo') /\ Head(todo) \notin ToSet(todo')
    BY <1>2, AdvanceFacts DEF TypeInv
  <2>3. tier # "sweep" => scanned' = scanned \cup {Head(todo)}
    BY <1>2 DEF Advance
  <2>4. CASE mode # "full"
    <3>1. /\ tier # "sweep" /\ ToSet(todo) \cap scanned = {}
          /\ \A c \in Chosen, e \in Clusters \ Chosen : ~Nearer(e, c)
      BY <1>2, <2>4 DEF NearInv
    <3>2. Chosen' = Chosen /\ ToSet(todo') \cap scanned' = {}
      BY <2>2, <2>3, <3>1 DEF Chosen
    <3> QED BY <2>1, <2>4, <3>1, <3>2 DEF NearInv, Nearer, CentroidDist
  <2>5. CASE mode = "full"
    BY <1>2, <2>1, <2>5 DEF NearInv
  <2> QED BY <2>4, <2>5
<1>3. CASE Skip
  BY <1>2, <1>3 DEF Skip
<1>4. CASE Prune
  BY <1>2, <1>4 DEF Prune
<1>5. CASE Leave
  BY <1>2, <1>5 DEF Leave, TypeInv, Shape
<1>6. ASSUME pc # "pick", pc' # "pick", UNCHANGED <<ds, query, mode, scanned, todo, tier>>,
             pc' = "done" => todo = <<>> /\ (mode = "full" => tier = "sweep")
      PROVE  NearInv'
  BY <1>6 DEF NearInv, Chosen, Nearer, CentroidDist
<1>7. CASE Enter
  BY <1>6, <1>7 DEF Enter, call
<1>8. CASE StartBlock
  BY <1>6, <1>8 DEF StartBlock, call
<1>9. CASE DropLane
  BY <1>6, <1>9 DEF DropLane, NextLane, call
<1>10. CASE TakeLane
  BY <1>6, <1>10 DEF TakeLane, NextLane, call
<1>11. CASE Settle
  BY <1>6, <1>11 DEF Settle, call
<1>12. CASE Finish
  <2>1. mode = "full" => tier = "sweep"
    BY <1>12 DEF Finish, NearInv
  <2> QED BY <1>6, <1>12, <2>1 DEF Finish, call
<1>13. CASE Escalate
  <2>1. /\ pc = "cluster" /\ pc' = "cluster" /\ todo = <<>> /\ mode = "ivf" /\ tier' = "escalated"
        /\ UNCHANGED <<ds, query, mode, scanned>>
        /\ todo' \in Nearest(EscalateN[FraudCount(top)], Clusters \ scanned)
    BY <1>13 DEF Escalate, call, NextPicks
  <2>2. EscalateN[FraudCount(top)] \in Nat
    <3>1. \A s \in Slots : top[s].label \in 0 .. 1
      BY DEF TypeInv, TypeOK
    <3>2. FraudCount(top) \in 0 .. 5
      BY <3>1 DEF FraudCount, Slots
    <3> QED BY <3>2, IvfSearchAssumption
  <2>3. /\ ToSet(todo') \subseteq Clusters \ scanned
        /\ \A c \in (Clusters \ scanned) \ ToSet(todo'), e \in ToSet(todo') : ~Nearer(c, e)
    BY <2>1, <2>2, NearestFacts
  <2>4. Chosen = scanned
    BY <2>1 DEF Chosen, ToSet
  <2>5. \A c \in scanned, e \in Clusters \ scanned : ~Nearer(e, c)
    BY <2>1, <2>4 DEF NearInv
  <2>6. Chosen' = scanned \cup ToSet(todo')
    BY <2>1 DEF Chosen
  <2>7. \A c \in Chosen', e \in Clusters \ Chosen' : ~Nearer(e, c)
    BY <2>3, <2>5, <2>6
  <2> QED BY <2>1, <2>3, <2>7 DEF NearInv, Nearer, CentroidDist
<1>14. CASE Sweep
  BY <1>14 DEF Sweep, call, NearInv
<1>15. CASE NextQuery
  BY <1>15 DEF NextQuery, NearInv
<1>16. CASE UNCHANGED vars
  <2>1. UNCHANGED <<ds, query, mode, scanned, todo, tier, pc>>
    BY <1>16 DEF vars
  <2> QED BY <2>1 DEF NearInv, Chosen, Nearer, CentroidDist
<1> QED BY <1>1, <1>3, <1>4, <1>5, <1>7, <1>8, <1>9, <1>10, <1>11, <1>12, <1>13, <1>14, <1>15, <1>16
        DEF Next

\* NearInv holds of every behaviour, with the types.
LEMMA NearAlways ==
  ASSUME DistancesFit PROVE Spec => [](TypeInv /\ NearInv)
<1>1. Init => TypeInv /\ NearInv
  BY InitTypeInv DEF Init, NearInv
<1>2. TypeInv /\ NearInv /\ [Next]_vars => (TypeInv /\ NearInv)'
  BY NextTypeInv, NextNear
<1> QED BY <1>1, <1>2, PTL DEF Spec

\* The fast tier and the escalation, picked by two functions against two bitmaps,
\* amount to one pick of the nearest clusters, none of them scanned twice.
THEOREM SearchNearestScanned ==
  ASSUME DistancesFit PROVE Spec => []NearestScanned
<1>1. TypeInv /\ NearInv => NearestScanned
  <2> SUFFICES ASSUME TypeInv, NearInv, mode # "full", pc # "pick" PROVE NearestScanned
    BY DEF NearestScanned
  <2>1. ToSet(todo) \cap scanned = {} /\ \A c \in Chosen, e \in Clusters \ Chosen : ~Nearer(e, c)
    BY DEF NearInv
  <2>2. pc = "done" => Chosen = scanned
    BY DEF NearInv, Chosen, ToSet
  <2> QED BY <2>1, <2>2 DEF NearestScanned
<1> QED BY <1>1, NearAlways, PTL

\* FraudCountFull, against which the production search is calibrated, leaves no
\* vector nearer than its fifth out, pruned clusters included.
THEOREM FullLeavesNoneOut ==
  ASSUME DistancesFit
  PROVE  Spec => [](pc = "done" /\ mode = "full" => \A i \in Ids : Far(i))
<1>1. TypeInv /\ NearInv /\ TopIsBest => (pc = "done" /\ mode = "full" => \A i \in Ids : Far(i))
  <2> SUFFICES ASSUME TypeInv, NearInv, TopIsBest, pc = "done", mode = "full", NEW i \in Ids
               PROVE  Far(i)
    OBVIOUS
  <2>1. Visited = scanned \cup Clusters
    BY DEF NearInv, Visited, ToSet
  <2>2. Assign(ds, i) \in Clusters
    BY LayoutHere DEF TypeInv
  <2> QED BY <2>1, <2>2 DEF TopIsBest, Far
<1> QED BY <1>1, NearAlways, SearchIsBest, PTL
-----------------------------------------------------------------------------
(* The five nearest exactly: padding and repeated lanes.                   *)

\* No cluster is scanned a second time within a query.
FreshInv ==
  /\ pc # "pick" /\ tier # "sweep" => ToSet(todo) \cap scanned = {}
  /\ pc \in {"block", "lane"} /\ tier = "sweep" => Head(todo) \notin scanned

LEMMA NextFresh ==
  ASSUME TypeInv, FreshInv, [Next]_vars
  PROVE  FreshInv'
<1>1. CASE Pick
  BY <1>1 DEF Pick, FreshInv
<1>2. ASSUME todo # <<>>, Advance, UNCHANGED tier, pc # "pick"
      PROVE  FreshInv'
  <2>1. ToSet(todo) = {Head(todo)} \cup ToSet(todo') /\ Head(todo) \notin ToSet(todo')
    BY <1>2, AdvanceFacts DEF TypeInv
  <2>2. pc' = "cluster" /\ (tier # "sweep" => scanned' = scanned \cup {Head(todo)})
    BY <1>2 DEF Advance
  <2> QED BY <1>2, <2>1, <2>2 DEF FreshInv
<1>3. CASE Skip
  BY <1>2, <1>3 DEF Skip
<1>4. CASE Prune
  BY <1>2, <1>4 DEF Prune
<1>5. CASE Leave
  BY <1>2, <1>5 DEF Leave, TypeInv, Shape
<1>6. CASE Enter
  <2>1. /\ pc = "cluster" /\ pc' = "block" /\ UNCHANGED <<scanned, todo, tier>>
        /\ ~(tier = "sweep" /\ Head(todo) \in scanned)
    BY <1>6 DEF Enter, Skipped
  <2>2. Head(todo)' = Head(todo) /\ ToSet(todo)' = ToSet(todo)
    BY <2>1
  <2> QED BY <2>1, <2>2 DEF FreshInv
<1>7. ASSUME pc \in {"block", "lane"}, UNCHANGED <<scanned, todo, tier>> PROVE FreshInv'
  <2>1. Head(todo)' = Head(todo) /\ ToSet(todo)' = ToSet(todo)
    BY <1>7
  <2> QED BY <1>7, <2>1 DEF FreshInv
<1>8. CASE StartBlock
  BY <1>7, <1>8 DEF StartBlock
<1>9. CASE DropLane
  BY <1>7, <1>9 DEF DropLane
<1>10. CASE TakeLane
  BY <1>7, <1>10 DEF TakeLane
<1>11. ASSUME pc = "cluster", pc' = "done", UNCHANGED <<scanned, todo, tier>> PROVE FreshInv'
  <2>1. ToSet(todo)' = ToSet(todo)
    BY <1>11
  <2> QED BY <1>11, <2>1 DEF FreshInv
<1>12. CASE Settle
  BY <1>11, <1>12 DEF Settle
<1>13. CASE Finish
  BY <1>11, <1>13 DEF Finish
<1>14. CASE Escalate
  <2>1. EscalateN[FraudCount(top)] \in Nat
    <3>1. \A s \in Slots : top[s].label \in 0 .. 1
      BY DEF TypeInv, TypeOK
    <3>2. FraudCount(top) \in 0 .. 5
      BY <3>1 DEF FraudCount, Slots
    <3> QED BY <3>2, IvfSearchAssumption
  <2>2. todo' \in Nearest(EscalateN[FraudCount(top)], Clusters \ scanned) /\ scanned' = scanned
        /\ pc' = "cluster"
    BY <1>14 DEF Escalate, NextPicks
  <2>3. ToSet(todo') \subseteq Clusters \ scanned
    BY <2>1, <2>2, NearestFacts
  <2> QED BY <2>2, <2>3 DEF FreshInv
<1>15. CASE Sweep
  BY <1>15 DEF Sweep, FreshInv
<1>16. CASE NextQuery
  BY <1>16 DEF NextQuery, FreshInv
<1>17. CASE UNCHANGED vars
  <2>1. UNCHANGED <<scanned, todo, tier, pc>>
    BY <1>17 DEF vars
  <2>2. Head(todo)' = Head(todo) /\ ToSet(todo)' = ToSet(todo)
    BY <2>1
  <2> QED BY <2>1, <2>2 DEF FreshInv
<1> QED BY <1>1, <1>3, <1>4, <1>5, <1>6, <1>8, <1>9, <1>10, <1>12, <1>13, <1>14, <1>15, <1>16, <1>17
        DEF Next

\* A vector has one lane.
LEMMA OneLane ==
  ASSUME Shape, NEW i \in Ids,
         NEW y \in 1 .. Len(index.data), NEW k \in 1 .. Lanes, index.data[y][k] = i,
         NEW z \in 1 .. Len(index.data), NEW l \in 1 .. Lanes, index.data[z][l] = i
  PROVE  y = z /\ k = l
<1> DEFINE S == {bl \in (DOMAIN index.data) \X (1 .. Lanes) : index.data[bl[1]][bl[2]] = i}
<1>1. WellFormed(ds) /\ index = Build(ds) /\ i \in 1 .. Count(ds)
  BY Given DEF Shape, Ids
<1>2. Cardinality(S) = 1
  BY <1>1, BuildLayout
<1>3. index.data \in Seq(Lane)
  BY <1>1, DataIs
<1>4. Len(index.data) \in Nat /\ DOMAIN index.data = 1 .. Len(index.data) /\ Lanes \in Nat
  BY <1>3, <1>1 DEF WellFormed
<1>5. <<y, k>> \in S /\ <<z, l>> \in S
  BY <1>4
<1>6. IsFiniteSet(S)
  <2>0. 1 \in Int /\ Len(index.data) \in Int /\ Lanes \in Int
    BY <1>4
  <2>1. IsFiniteSet(1 .. Len(index.data)) /\ IsFiniteSet(1 .. Lanes)
    BY <2>0, FS_Interval
  <2>2. IsFiniteSet((1 .. Len(index.data)) \X (1 .. Lanes))
    BY <2>1, FS_Product
  <2>3. S \subseteq (1 .. Len(index.data)) \X (1 .. Lanes)
    BY <1>4
  <2> QED BY <2>2, <2>3, FS_Subset
<1> HIDE DEF S
<1>7. PICK x : S = {x}
  BY <1>2, <1>6, FS_Singleton
<1>8. <<y, k>> = <<z, l>>
  BY <1>5, <1>7
<1> QED BY <1>8

\* The vector of the lane in hand has not been settled before.
LEMMA Unseen ==
  ASSUME DistancesFit, TypeInv, FreshInv, pc = "lane", LaneId # 0
  PROVE  ~Considered(LaneId)
<1>1. LaneId \in Ids /\ Assign(ds, LaneId) = Head(todo) /\ lane \in 1 .. Lanes
      /\ Head(todo) \in Clusters /\ blk \in First(index, Head(todo)) .. End(index, Head(todo)) - 1
  BY LaneFacts
<1>2. /\ Len(index.data) \in Nat /\ First(index, Head(todo)) \in Nat
      /\ End(index, Head(todo)) \in First(index, Head(todo)) .. Len(index.data)
  BY <1>1, LayoutHere DEF TypeInv
<1>3. Head(todo) \in ToSet(todo)
  <2>1. todo # <<>> /\ todo \in Seq(Clusters)
    BY DEF TypeInv, TypeOK, Shape
  <2>2. 1 \in DOMAIN todo /\ Head(todo) = todo[1]
    BY <2>1
  <2> QED BY <2>2 DEF ToSet
<1>4. Head(todo) \notin Visited
  BY <1>3 DEF FreshInv, Visited
<1>5. ~Passed(LaneId)
  <2> SUFFICES ASSUME NEW b \in First(index, Head(todo)) .. blk, NEW l \in 1 .. Lanes,
                      LanesOf(index, b)[l] = LaneId, b < blk \/ (b = blk /\ l < lane)
               PROVE  FALSE
    BY DEF Passed
  <2>1. b + 1 \in 1 .. Len(index.data) /\ blk + 1 \in 1 .. Len(index.data)
    BY <1>1, <1>2
  <2>2. index.data[b + 1][l] = LaneId /\ index.data[blk + 1][lane] = LaneId
    BY DEF LanesOf, LaneId
  <2>3. b + 1 = blk + 1 /\ l = lane
    BY <1>1, <2>1, <2>2, OneLane DEF TypeInv
  <2>4. b = blk
    BY <1>1, <1>2, <2>3
  <2> QED BY <1>1, <1>2, <2>3, <2>4
<1> QED BY <1>1, <1>4, <1>5 DEF Considered

\* Within a query what is settled stays so.
LEMMA StaysSettled ==
  ASSUME DistancesFit, TypeInv, [Next]_vars, pc # "pick", pc' # "pick",
         NEW i \in Ids, Considered(i)
  PROVE  Considered(i)'
<1>0. ds' = ds /\ index' = index
  BY DEF Next, vars, call, Pick, Skip, Prune, Enter, Leave, StartBlock, DropLane, TakeLane,
         Settle, Escalate, Sweep, Finish, NextQuery
<1>1. CASE todo # <<>> /\ Advance /\ UNCHANGED tier
  <2>1. ToSet(todo) = {Head(todo)} \cup ToSet(todo') /\ Head(todo) \notin ToSet(todo')
        /\ Head(todo) \in Clusters
    BY <1>1, AdvanceFacts DEF TypeInv
  <2>2. scanned' = IF tier = "sweep" THEN scanned ELSE scanned \cup {Head(todo)}
    BY <1>1 DEF Advance
  <2>3. Visited \cup {Head(todo)} \subseteq Visited'
    BY <1>1, <2>1, <2>2 DEF Visited
  <2> QED BY <1>0, <2>3 DEF Considered
<1>2. CASE Visited' = Visited /\ pc = "cluster"
  BY <1>0, <1>2 DEF Considered
<1>3. CASE StartBlock
  <2>1. /\ pc = "block" /\ pc' = "lane" /\ lane' = 1 /\ blk' = blk
        /\ UNCHANGED <<ds, index, query, top, scanned, todo, tier>>
    BY <1>3 DEF StartBlock, call
  <2>2. Head(todo)' = Head(todo) /\ Visited' = Visited
    BY <2>1 DEF Visited
  <2>3. Passed(i) => Passed(i)'
    BY <2>1 DEF Passed
  <2> QED BY <2>1, <2>2, <2>3 DEF Considered
<1>4. CASE pc = "lane" /\ NextLane /\ UNCHANGED <<scanned, todo, tier>>
  <2>1. Head(todo)' = Head(todo) /\ Visited' = Visited
    BY <1>4 DEF Visited
  <2>2. /\ blk \in Nat /\ First(index, Head(todo)) \in Nat /\ lane \in 1 .. Lanes /\ Lanes \in Nat
    BY <1>4, LaneFacts, LayoutHere, Ranges DEF TypeInv
  <2>3. ASSUME Passed(i) PROVE Passed(i)'
    <3>1. PICK b \in First(index, Head(todo)) .. blk, l \in 1 .. Lanes :
            LanesOf(index, b)[l] = i /\ (b < blk \/ (b = blk /\ l < lane))
      BY <2>3 DEF Passed
    <3>2. CASE lane < Lanes
      <4>1. blk' = blk /\ lane' = lane + 1 /\ pc' = "lane"
        BY <1>4, <3>2 DEF NextLane
      <4>2. b \in First(index, Head(todo)) .. blk' /\ (b < blk' \/ (b = blk' /\ pc' = "lane" /\ l < lane'))
        BY <2>2, <3>1, <4>1
      <4> QED BY <1>0, <1>4, <2>1, <3>1, <4>2 DEF Passed
    <3>3. CASE ~(lane < Lanes)
      <4>1. blk' = blk + 1
        BY <1>4, <3>3 DEF NextLane
      <4>2. b \in First(index, Head(todo)) .. blk' /\ b < blk'
        BY <2>2, <3>1, <4>1
      <4> QED BY <1>0, <1>4, <2>1, <3>1, <4>2 DEF Passed
    <3> QED BY <3>2, <3>3
  <2>4. pc' \in {"block", "lane"}
    BY <1>4 DEF NextLane
  <2> QED BY <1>0, <1>4, <2>1, <2>3, <2>4 DEF Considered
<1>5. CASE Skip \/ Prune \/ Leave
  BY <1>1, <1>5 DEF Skip, Prune, Leave, TypeInv, Shape
<1>6. CASE DropLane \/ TakeLane
  BY <1>4, <1>6 DEF DropLane, TakeLane
<1>7. CASE Enter
  BY <1>2, <1>7 DEF Enter, Visited
<1>8. CASE Settle \/ Finish \/ Escalate
  BY <1>2, <1>8 DEF Settle, Finish, Escalate, Visited
<1>9. CASE Sweep
  <2>1. ToSet(todo') = Clusters
    BY <1>9 DEF Sweep, ToSet
  <2>2. Visited' = Visited
    BY <1>9, <2>1 DEF Sweep, Visited
  <2> QED BY <1>2, <1>9, <2>2 DEF Sweep
<1>10. CASE UNCHANGED vars
  <2>1. UNCHANGED <<ds, index, query, top, scanned, todo, blk, lane, tier, pc>>
    BY <1>10 DEF vars
  <2> QED BY <2>1 DEF Considered, Visited, Passed
<1>11. ~Pick /\ ~NextQuery
  BY DEF Pick, NextQuery
<1> QED BY <1>3, <1>5, <1>6, <1>7, <1>8, <1>9, <1>10, <1>11 DEF Next

\* The step that takes a lane settles its vector.
LEMMA LaneTaken ==
  ASSUME DistancesFit, TypeInv, TakeLane, LaneId # 0, NEW i, i = LaneId
  PROVE  Considered(i)'
<1>1. /\ LaneId \in Ids /\ Assign(ds, LaneId) = Head(todo) /\ lane \in 1 .. Lanes /\ blk \in Nat
      /\ Head(todo) \in Clusters /\ blk \in First(index, Head(todo)) .. End(index, Head(todo)) - 1
  BY LaneFacts DEF TakeLane
<1>2. pc = "lane" /\ NextLane /\ UNCHANGED <<ds, index, scanned, todo, tier>>
  BY DEF TakeLane, call
<1>3. First(index, Head(todo)) \in Nat /\ Lanes \in Nat
  BY <1>1, LayoutHere, Ranges DEF TypeInv
<1>4. PICK b, l : b = blk /\ l = lane
  OBVIOUS
<1>5. LanesOf(index, b)[l] = i /\ l \in 1 .. Lanes
  BY <1>1, <1>4 DEF LaneId
<1>6. /\ pc' \in {"block", "lane"} /\ b \in First(index, Head(todo)) .. blk'
      /\ b < blk' \/ (b = blk' /\ pc' = "lane" /\ l < lane')
  <2>1. CASE lane < Lanes
    <3>1. blk' = blk /\ lane' = lane + 1 /\ pc' = "lane"
      BY <1>2, <2>1 DEF NextLane
    <3> QED BY <1>1, <1>3, <1>4, <3>1
  <2>2. CASE ~(lane < Lanes)
    <3>1. blk' = blk + 1 /\ pc' = "block"
      BY <1>2, <2>2 DEF NextLane
    <3> QED BY <1>1, <1>3, <1>4, <3>1
  <2> QED BY <2>1, <2>2
<1>7. Head(todo)' = Head(todo) /\ First(index, Head(todo))' = First(index, Head(todo))
  BY <1>2
<1>8. Passed(i)'
  BY <1>2, <1>5, <1>6, <1>7 DEF Passed
<1> QED BY <1>1, <1>2, <1>6, <1>7, <1>8 DEF Considered

Settled == {i \in Ids : Considered(i)}


\* The five hold the nearest of the settled vectors, none twice, and every
\* phantom among them lies behind all vectors.
FivesInv == pc # "pick" => Fives(top, Distance, ds.label, Settled)

LEMMA DistancesHere ==
  ASSUME DistancesFit, TypeInv
  PROVE  /\ Distances(Distance, Count(ds)) /\ Ids = 1 .. Count(ds) /\ Count(ds) \in Nat
         /\ ds.label \in [Ids -> {0, 1}]
<1>1. Infinity \in Nat /\ Count(ds) \in Nat /\ Ids = 1 .. Count(ds)
  BY Ranges DEF Ids
<1>2. Distance \in [Ids -> 0 .. Infinity - 1]
  BY VecDist DEF Distance
<1>3. ds.label \in [1 .. Count(ds) -> {0, 1}]
  BY Given DEF TypeInv, Shape
<1> QED BY <1>1, <1>2, <1>3 DEF Distances

\* Every step keeps FivesInv.
LEMMA NextFives ==
  ASSUME DistancesFit, PaddingFar, TypeInv, FreshInv, FivesInv, [Next]_vars
  PROVE  FivesInv'
<1> SUFFICES ASSUME pc' # "pick" PROVE Fives(top', Distance', ds'.label, Settled')
  BY DEF FivesInv
<1>1. PICK D, L, n, I, J : D = Distance /\ L = ds.label /\ n = Count(ds) /\ I = Settled /\ J = Settled'
  OBVIOUS
<1>2. Distances(D, n) /\ Ids = 1 .. n /\ n \in Nat /\ L \in [1 .. n -> {0, 1}]
  BY <1>1, DistancesHere
<1>3. /\ Ids' = Ids /\ ds' = ds /\ ds'.label = L
      /\ J = {i \in Ids : Considered(i)'}
  BY <1>1, SameData DEF Settled
<1>4. \A i \in Ids : D[i] = Dist(query, ds.vec[i])
  BY <1>1 DEF Distance
<1>5. CASE Pick
  <2>1. top' = ResetTop /\ query' = query /\ \A i \in Ids : ~Considered(i)'
    BY <1>5, PickSettles
  <2>2. J = {}
    BY <1>3, <2>1
  <2>3. Distance' = D
    BY <1>1, <1>3, <2>1 DEF Distance
  <2>4. Fives(ResetTop, D, L, {})
    BY <1>2, ResetFives
  <2> QED BY <1>1, <1>3, <2>1, <2>2, <2>3, <2>4
<1>6. CASE ~Pick /\ ~TakeLane
  <2>1. pc # "pick" /\ Fives(top, D, L, I)
    BY <1>1, <1>6, SameData DEF FivesInv
  <2>2. /\ query' = query /\ top' = top
        /\ \A i \in Ids : Considered(i)' => Considered(i) \/ Far(i)
    BY <1>6, <2>1, StepSettles
  <2>3. \A i \in Ids : Considered(i) => Considered(i)'
    BY <2>1, StaysSettled
  <2>4. I \subseteq J
    BY <1>1, <1>3, <2>3 DEF Settled
  <2>5. \A i \in J \ I : D[i] >= Worst(top)
    <3> TAKE i \in J \ I
    <3>1. i \in Ids /\ ~Considered(i) /\ Far(i)
      BY <1>1, <1>3, <2>2 DEF Settled
    <3>2. i \notin InTop
      BY <1>1, <2>1, <3>1 DEF Fives, InTop
    <3> QED BY <1>4, <3>1, <3>2 DEF Far
  <2>6. Distance' = D
    BY <1>1, <1>3, <2>2 DEF Distance
  <2>7. Fives(top, D, L, J)
    BY <2>1, <2>4, <2>5, FarFives
  <2> QED BY <1>1, <1>3, <2>2, <2>6, <2>7
<1>7. CASE TakeLane
  <2>1. /\ pc = "lane" /\ NextLane /\ UNCHANGED <<ds, index, query, scanned, todo, tier>>
        /\ top' = Insert(top, LaneDist, Label(ds, LaneId), LaneId)
    BY <1>7 DEF TakeLane, call
  <2>2. Fives(top, D, L, I)
    BY <1>1, <2>1 DEF FivesInv
  <2>3. Distance' = D
    BY <1>1, <1>3, <2>1 DEF Distance
  <2>4. \A i \in Ids : Considered(i) => Considered(i)'
    BY <2>1, StaysSettled
  <2>5. \A i \in Ids : Considered(i)' => Considered(i) \/ i = LaneId
    BY <2>1, LaneSettles
  <2>6. PICK i, t, new : i = LaneId /\ t = top /\ new = top'
    OBVIOUS
  <2>7. I \in SUBSET (1 .. n)
    BY <1>1, <1>2 DEF Settled
  <2>8. CASE i # 0
    <3>1. i \in Ids /\ i \notin I
      BY <1>1, <2>1, <2>6, <2>8, LaneFacts, Unseen DEF Settled
    <3>2. Considered(i)'
      BY <1>7, <2>6, <2>8, LaneTaken
    <3>3. J = I \cup {i}
      BY <1>1, <1>3, <2>4, <2>5, <2>6, <3>1, <3>2 DEF Settled
    <3>4. LaneDist = D[i] /\ Label(ds, LaneId) = L[i]
      BY <1>1, <1>4, <2>6, <2>8, <3>1 DEF LaneDist, At, Label
    <3>5. new = Insert(t, D[i], L[i], i)
      BY <2>1, <2>6, <3>4
    <3>6. Fives(new, D, L, I \cup {i})
      <4>1. Fives(t, D, L, I) /\ i \in 1 .. n
        BY <1>2, <2>2, <2>6, <3>1
      <4> QED BY <1>2, <2>7, <3>1, <3>5, <4>1, TakeFives
    <3> QED BY <1>1, <1>3, <2>3, <2>6, <3>3, <3>6
  <2>9. CASE i = 0
    <3>1. PICK d, l : d = LaneDist /\ l = Label(ds, LaneId)
      OBVIOUS
    <3>2. d = Dist(query, PadPoint)
      BY <2>6, <2>9, <3>1 DEF LaneDist, At
    <3>3. d \in 0 .. Infinity
      <4>1. d \in 0 .. Infinity - 1 /\ Infinity \in Nat
        BY <2>1, <3>1, LaneFacts, Ranges
      <4> QED BY <4>1
    <3>4. \A j \in 1 .. n : D[j] < d
      <4>1. ds \in Datasets /\ query \in Queries
        BY DEF TypeInv, TypeOK, Shape
      <4> QED BY <1>1, <1>2, <1>4, <3>2, <4>1 DEF PaddingFar, PadPoint
    <3>5. new = Insert(t, d, l, 0)
      BY <2>1, <2>6, <2>9, <3>1
    <3>6. J = I
      <4>1. 0 \notin Ids
        BY <1>2
      <4> QED BY <1>1, <1>3, <2>4, <2>5, <2>6, <2>9, <4>1 DEF Settled
    <3>7. Fives(new, D, L, I)
      <4>1. Fives(t, D, L, I)
        BY <2>2, <2>6
      <4> QED BY <1>2, <2>7, <3>3, <3>4, <3>5, <4>1, PhantomFives
    <3> QED BY <1>1, <1>3, <2>3, <2>6, <3>6, <3>7
  <2> QED BY <2>8, <2>9
<1> QED BY <1>5, <1>6, <1>7

LEMMA FivesAlways ==
  ASSUME DistancesFit, PaddingFar PROVE Spec => [](TypeInv /\ NearInv /\ FivesInv)
<1>1. Init => TypeInv /\ FreshInv /\ FivesInv
  BY InitTypeInv DEF Init, FreshInv, FivesInv
<1>2. TypeInv /\ FreshInv /\ FivesInv /\ [Next]_vars => (TypeInv /\ FreshInv /\ FivesInv)'
  BY NextTypeInv, NextFresh, NextFives
<1> QED BY <1>1, <1>2, NearAlways, PTL DEF Spec

\* The phantom lanes that fill up the blocks of the clusters are answers like
\* any other to the kernel, and reach the five when there is room: but as soon as
\* five vectors have been seen, none is left, and before that no vector seen is.
THEOREM SearchPhantomsYield ==
  ASSUME DistancesFit, PaddingFar PROVE Spec => []PhantomsYield
<1>1. TypeInv /\ FivesInv => PhantomsYield
  <2> SUFFICES ASSUME TypeInv, FivesInv, pc = "done", NEW s \in Slots, top[s].id = 0,
                      NEW i \in Ids, Assign(ds, i) \in Visited
               PROVE  i \in InTop
    BY DEF PhantomsYield
  <2>1. Fives(top, Distance, ds.label, Settled)
    BY DEF FivesInv
  <2>2. i \in Settled /\ i # 0 /\ i \in DOMAIN Distance /\ Distance[i] \in Int
    <3>1. i \in Settled /\ i \in DOMAIN Distance
      BY DEF Settled, Considered, Distance
    <3> QED BY <3>1, VecDist DEF Distance
  <2>3. Distance[i] < top[s].d
    BY <2>1, <2>2 DEF Fives
  <2>4. top[s].d \in Int /\ Worst(top) \in Int /\ top[s].d <= Worst(top)
    <3>1. Good(top) /\ Ascending(top)
      BY <2>1 DEF Fives
    <3>2. \A r \in Slots : top[r].d \in Int
      BY <3>1 DEF Good
    <3>3. \A r, q \in Slots : r <= q => top[r].d <= top[q].d
      BY <3>1, <3>2, Climbs
    <3>4. 5 \in Slots /\ s <= 5
      BY DEF Slots
    <3> QED BY <3>2, <3>3, <3>4 DEF Worst
  <2>5. ~(Distance[i] >= Worst(top))
    BY <2>2, <2>3, <2>4
  <2>6. \E r \in Slots : top[r].id = i
    BY <2>1, <2>2, <2>5 DEF Fives
  <2> QED BY <2>2, <2>6 DEF InTop
<1> QED BY <1>1, FivesAlways, PTL
-----------------------------------------------------------------------------
(* The full sweep is brute force.                                          *)

\* FraudCountFull, the oracle of the calibration, is exact in spite of pruning,
\* of blocks and lanes, of padding and of rounding: its distances are those of
\* brute force, and so is its count unless vectors tie for the fifth place.
THEOREM SearchFullIsExact ==
  ASSUME DistancesFit, PaddingFar PROVE Spec => []FullIsExact
<1>1. TypeInv /\ NearInv /\ FivesInv => FullIsExact
  <2> SUFFICES ASSUME TypeInv, NearInv, FivesInv, pc = "done", mode = "full"
               PROVE  /\ \A s \in Slots : BruteTop[s].id # 0 => top[s].d = BruteTop[s].d
                      /\ NoTie => FraudCount(top) = FraudCount(BruteTop)
    BY DEF FullIsExact
  <2>1. PICK D, L, n, a, b : /\ D = Distance /\ L = ds.label /\ n = Count(ds)
                             /\ a = top /\ b = BruteTop
    OBVIOUS
  <2>2. Distances(D, n) /\ Ids = 1 .. n /\ L \in [1 .. n -> {0, 1}]
    BY <2>1, DistancesHere
  <2>3. Settled = Ids
    <3>1. Visited = scanned \cup Clusters
      BY DEF NearInv, Visited, ToSet
    <3>2. \A i \in Ids : Assign(ds, i) \in Clusters
      BY LayoutHere DEF TypeInv
    <3> QED BY <3>1, <3>2 DEF Settled, Considered
  <2>4. Fives(a, D, L, 1 .. n)
    BY <2>1, <2>2, <2>3 DEF FivesInv
  <2>5. Fives(b, D, L, 1 .. n)
    BY <2>1, <2>2, BruteFives DEF BruteTop
  <2>6. \A s \in Slots : b[s].id # 0 => a[s].d = b[s].d
    BY <2>2, <2>4, <2>5, FivesAgree
  <2>7. ASSUME NoTie PROVE FraudCount(a) = FraudCount(b)
    <3>1. PICK N : N = {i \in 1 .. n : D[i] <= Worst(b)}
      OBVIOUS
    <3>3. Cardinality(N) = 5
      BY <2>1, <2>2, <2>7, <3>1 DEF NoTie
    <3>4. L \in [1 .. n -> Int]
      BY <2>2
    <3> QED BY <2>2, <2>4, <2>5, <3>1, <3>3, <3>4, FivesCount
  <2> QED BY <2>1, <2>6, <2>7
<1> QED BY <1>1, FivesAlways, PTL

=============================================================================
