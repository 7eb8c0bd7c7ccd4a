--------------------------- MODULE PickTopProofs ----------------------------
(***************************************************************************)
(* Both selections return the nearest clusters, in ascending order, for    *)
(* any number of clusters and any distances.  The list stays sorted and    *)
(* keeps everything nearer than its last entry; the heap keeps the nearest *)
(* so far with the farthest of them at the root, and its root always goes  *)
(* to the last free place of the result.                                   *)
(***************************************************************************)
EXTENDS PickTop, FiniteSetTheorems, WellFoundedInduction, TLAPS

Members(h) == {h[j] : j \in 1 .. Len(h)}
Distinct(h) == \A j, k \in 1 .. Len(h) : h[j] = h[k] => j = k

\* A parent is at least as far as each of its children, but for the edge above
\* position at (Up), or for the edges below it (Down); around that position the
\* order then holds between its children and its parent.
Ordered(h, d) == \A j \in 2 .. Len(h) : d[h[j]] <= d[h[Parent(j)]]
Up(h, d, at) ==
  \A j \in 2 .. Len(h) :
    /\ j # at => d[h[j]] <= d[h[Parent(j)]]
    /\ Parent(j) = at /\ at > 1 => d[h[j]] <= d[h[Parent(at)]]
Down(h, d, at) ==
  \A j \in 2 .. Len(h) :
    /\ Parent(j) # at => d[h[j]] <= d[h[Parent(j)]]
    /\ Parent(j) = at /\ at > 1 => d[h[j]] <= d[h[Parent(at)]]

\* The list: nearer first, the lower number first of equals.
Before(d, a, b) == d[a] < d[b] \/ (d[a] = d[b] /\ a < b)

Passed == IF pc = "done" THEN Clusters ELSE {e \in Clusters : e < c}

ListInv ==
  /\ pc \in {"walk", "done"} /\ scanned = {} /\ heap = <<>>
  /\ n = 1 => c = 1
  /\ pc = "walk" => worst = picked[n]
  /\ \A s \in 1 .. n : picked[s] # None => picked[s] \in Passed
  /\ \A s, t \in 1 .. n :
       s < t /\ picked[t] # None => picked[s] # None /\ Before(dists, picked[s], picked[t])
  /\ \A e \in Passed :
       (\E s \in 1 .. n : picked[s] = e) \/ (picked[n] # None /\ Before(dists, picked[n], e))

\* The candidates the heap has seen.
Seen == {e \in Candidates : e < c \/ (e = c /\ pc \in {"up", "down"})}

WalkInv ==
  /\ Members(heap) \subseteq Seen
  /\ \A e \in Seen \ Members(heap) :
       Len(heap) = n /\ \A a \in Members(heap) : dists[a] <= dists[e]
  /\ pc \in {"up", "down"} => c <= K
  /\ pc = "walk" =>
       Ordered(heap, dists) /\ worst = IF Len(heap) = n THEN heap[1] ELSE None
  /\ pc = "up" => i \in 1 .. Len(heap) /\ Up(heap, dists, i) /\ (Len(heap) < n => worst = None)
  /\ pc = "down" => i \in 1 .. Len(heap) /\ Down(heap, dists, i) /\ Len(heap) = n

\* How many clusters are picked.
Wanted == IF n < Cardinality(Candidates) THEN n ELSE Cardinality(Candidates)
\* The places of the result filled from the back.
Filled == Len(heap) + 1 .. Wanted
Taken == {picked[s] : s \in Filled}

EmptyInv ==
  /\ Len(heap) <= Wanted
  /\ \A s \in 1 .. n : picked[s] # None <=> s \in Filled
  /\ Members(heap) \subseteq Candidates /\ Taken \subseteq Candidates
  /\ Members(heap) \cap Taken = {}
  /\ \A s, t \in Filled : s < t => picked[s] # picked[t] /\ dists[picked[s]] <= dists[picked[t]]
  /\ \A a \in Members(heap), b \in Taken : dists[a] <= dists[b]
  /\ \A a \in Members(heap) \cup Taken, e \in Candidates \ (Members(heap) \cup Taken) :
       dists[a] <= dists[e]
  /\ pc = "extract" => Ordered(heap, dists)
  /\ pc = "settle" => Down(heap, dists, i) /\ (heap # <<>> => i \in 1 .. Len(heap))
  /\ pc = "done" => heap = <<>>

HeapInv ==
  /\ Distinct(heap)
  /\ pc \in {"walk", "up", "down"} => WalkInv
  /\ pc \in {"extract", "settle", "done"} => EmptyInv

\* The inductive invariant of both selections.
IInv ==
  /\ TypeOK /\ heap \in Seq(Clusters)
  /\ alg = "list" => ListInv
  /\ alg = "heap" => HeapInv
-----------------------------------------------------------------------------
(* Heaps                                                                   *)

\* A set of numbers with an element has a smallest one.
LEMMA Smallest ==
  ASSUME NEW T, T \subseteq Nat, T # {}
  PROVE  \E m \in T : \A k \in T : m <= k
<1> DEFINE R == OpToRel(<, Nat)
<1>1. \A k, m \in Nat : k < m => <<k, m>> \in R
  BY DEF OpToRel
<1>2. IsWellFoundedOn(R, Nat)
  BY NatLessThanWellFounded
<1> HIDE DEF R
<1>3. PICK m \in T : \A k \in T : ~(<<k, m>> \in R)
  BY <1>2, WFMin
<1>4. ASSUME NEW k \in T PROVE m <= k
  <2>1. k \in Nat /\ m \in Nat
    OBVIOUS
  <2>2. ~(k < m)
    BY <1>1, <1>3, <2>1
  <2> QED BY <2>1, <2>2
<1> QED BY <1>4

\* Position 1 has no parent; every other one is a child of its parent.
LEMMA ParentIs ==
  ASSUME NEW j \in Nat, j >= 2
  PROVE  /\ Parent(j) \in Nat /\ Parent(j) >= 1 /\ Parent(j) < j
         /\ j = 2 * Parent(j) \/ j = 2 * Parent(j) + 1
BY DEF Parent

\* In order, no entry is farther than the root.
LEMMA RootFarthest ==
  ASSUME NEW h \in Seq(Clusters), NEW d \in [Clusters -> Nat], Ordered(h, d)
  PROVE  \A a \in Members(h) : d[a] <= d[h[1]]
<1> DEFINE T == {j \in 1 .. Len(h) : ~(d[h[j]] <= d[h[1]])}
<1>1. T = {}
  <2> SUFFICES ASSUME T # {} PROVE FALSE
    OBVIOUS
  <2>0. T \subseteq Nat
    OBVIOUS
  <2> HIDE DEF T
  <2>1. PICK m \in T : \A k \in T : m <= k
    BY <2>0, Smallest
  <2> USE DEF T
  <2>2. m \in 1 .. Len(h) /\ ~(d[h[m]] <= d[h[1]])
    OBVIOUS
  <2>3. h[1] \in Clusters /\ d[h[1]] \in Nat
    BY <2>2
  <2>4. m >= 2
    BY <2>2, <2>3
  <2>5. Parent(m) \in 1 .. Len(h) /\ Parent(m) < m
    BY <2>2, <2>4, ParentIs
  <2>6. d[h[Parent(m)]] <= d[h[1]]
    BY <2>1, <2>5
  <2>7. d[h[m]] <= d[h[Parent(m)]]
    BY <2>2, <2>4 DEF Ordered
  <2>8. h[m] \in Clusters /\ h[Parent(m)] \in Clusters
    BY <2>2, <2>5
  <2> QED BY <2>2, <2>3, <2>6, <2>7, <2>8
<1> QED BY <1>1 DEF Members

\* A swap moves two entries and loses none.
LEMMA SwapKeeps ==
  ASSUME NEW h \in Seq(Clusters), NEW a \in 1 .. Len(h), NEW b \in 1 .. Len(h), a # b,
         NEW g, g = Swapped(h, a, b)
  PROVE  /\ g \in Seq(Clusters) /\ Len(g) = Len(h)
         /\ g[a] = h[b] /\ g[b] = h[a]
         /\ \A j \in 1 .. Len(h) : j # a /\ j # b => g[j] = h[j]
         /\ Members(g) = Members(h)
         /\ Distinct(h) => Distinct(g)
<1>1. g \in Seq(Clusters) /\ Len(g) = Len(h)
  BY DEF Swapped
<1>2. /\ g[a] = h[b] /\ g[b] = h[a]
      /\ \A j \in 1 .. Len(h) : j # a /\ j # b => g[j] = h[j]
  BY DEF Swapped
<1>3. Members(g) = Members(h)
  <2>1. \A j \in 1 .. Len(h) : g[j] \in Members(h)
    BY <1>2 DEF Members
  <2>2. \A j \in 1 .. Len(h) : h[j] \in Members(g)
    <3> TAKE j \in 1 .. Len(h)
    <3>1. \E k \in 1 .. Len(h) : g[k] = h[j]
      BY <1>2
    <3> QED BY <1>1, <3>1 DEF Members
  <2> QED BY <1>1, <2>1, <2>2 DEF Members
<1>4. Distinct(h) => Distinct(g)
  BY <1>1, <1>2 DEF Distinct
<1> QED BY <1>1, <1>2, <1>3, <1>4

\* A child nearer to the root than its parent is allowed to be goes up ...
LEMMA UpStep ==
  ASSUME NEW h \in Seq(Clusters), NEW d \in [Clusters -> Nat], NEW at \in 2 .. Len(h),
         Up(h, d, at), d[h[Parent(at)]] < d[h[at]]
  PROVE  Up(Swapped(h, Parent(at), at), d, Parent(at))
<1> DEFINE p == Parent(at)  g == Swapped(h, p, at)
<1>1. p \in 1 .. Len(h) /\ p < at /\ at \in 1 .. Len(h)
  BY ParentIs
<1>2. /\ Len(g) = Len(h) /\ g[p] = h[at] /\ g[at] = h[p]
      /\ \A j \in 1 .. Len(h) : j # p /\ j # at => g[j] = h[j]
  <2>1. g = Swapped(h, p, at) /\ p # at
    BY <1>1
  <2> HIDE DEF p, g
  <2> QED BY <1>1, <2>1 DEF Swapped
<1>3. \A j \in 1 .. Len(h) : d[h[j]] \in Nat
  OBVIOUS
<1>4. \A j \in 2 .. Len(h) : Parent(j) \in 1 .. Len(h) /\ Parent(j) < j
  BY ParentIs
<1>5. d[h[p]] < d[h[at]]
  OBVIOUS
<1>6. \A j \in 2 .. Len(h) : j # at => d[h[j]] <= d[h[Parent(j)]]
  BY DEF Up
<1>7. \A j \in 2 .. Len(h) : Parent(j) = at => d[h[j]] <= d[h[p]]
  BY DEF Up
<1> HIDE DEF g
<1> SUFFICES ASSUME NEW j \in 2 .. Len(h)
             PROVE  /\ j # p => d[g[j]] <= d[g[Parent(j)]]
                    /\ Parent(j) = p /\ p > 1 => d[g[j]] <= d[g[Parent(p)]]
  BY <1>2 DEF Up, g
<1>8. ASSUME j # p PROVE d[g[j]] <= d[g[Parent(j)]]
  <2>1. CASE j = at
    BY <1>1, <1>2, <1>3, <1>5, <2>1
  <2>2. CASE j # at /\ Parent(j) = at
    BY <1>2, <1>7, <1>8, <2>2
  <2>3. CASE j # at /\ Parent(j) = p
    <3>1. d[h[j]] <= d[h[p]]
      BY <1>6, <2>3
    <3> QED BY <1>1, <1>2, <1>3, <1>5, <1>8, <2>3, <3>1
  <2>4. CASE j # at /\ Parent(j) # at /\ Parent(j) # p
    <3>1. d[h[j]] <= d[h[Parent(j)]] /\ j \in 1 .. Len(h) /\ Parent(j) \in 1 .. Len(h)
      BY <1>4, <1>6, <2>4
    <3>2. g[j] = h[j] /\ g[Parent(j)] = h[Parent(j)]
      BY <1>2, <1>8, <2>4, <3>1
    <3> QED BY <3>1, <3>2
  <2> QED BY <2>1, <2>2, <2>3, <2>4
<1>9. ASSUME Parent(j) = p, p > 1 PROVE d[g[j]] <= d[g[Parent(p)]]
  <2> DEFINE q == Parent(p)
  <2>1. p \in 2 .. Len(h) /\ q \in 1 .. Len(h) /\ q < p
    BY <1>1, <1>4, <1>9
  <2>2. d[h[p]] <= d[h[q]]
    BY <1>1, <1>6, <2>1
  <2>5. g[q] = h[q]
    <3>1. q # p /\ q # at
      BY <1>1, <2>1
    <3> QED BY <1>2, <2>1, <3>1
  <2>3. CASE j = at
    BY <1>2, <2>2, <2>3, <2>5
  <2>4. CASE j # at
    <3>1. d[h[j]] <= d[h[p]] /\ j # p
      BY <1>4, <1>6, <1>9, <2>4
    <3>2. g[j] = h[j]
      BY <1>2, <2>4, <3>1
    <3>3. d[h[j]] \in Nat /\ d[h[p]] \in Nat /\ d[h[q]] \in Nat
      BY <1>1, <1>3, <2>1
    <3> QED BY <2>2, <2>5, <3>1, <3>2, <3>3
  <2> QED BY <2>3, <2>4
<1> QED BY <1>8, <1>9

\* ... until it is no nearer to the query than the parent.
LEMMA UpStop ==
  ASSUME NEW h \in Seq(Clusters), NEW d \in [Clusters -> Nat], NEW at \in 1 .. Len(h),
         Up(h, d, at), at > 1 => ~(d[h[Parent(at)]] < d[h[at]])
  PROVE  Ordered(h, d)
<1>1. \A j \in 2 .. Len(h) : Parent(j) \in 1 .. Len(h)
  BY ParentIs
<1>2. \A j \in 1 .. Len(h) : d[h[j]] \in Nat
  OBVIOUS
<1> QED BY <1>1, <1>2 DEF Up, Ordered

\* The farther child takes the place of its parent ...
LEMMA DownStep ==
  ASSUME NEW h \in Seq(Clusters), NEW d \in [Clusters -> Nat], NEW l \in 2 .. Len(h),
         Down(h, d, Parent(l)), d[h[l]] > d[h[Parent(l)]],
         \A j \in 2 .. Len(h) : Parent(j) = Parent(l) => d[h[j]] <= d[h[l]]
  PROVE  Down(Swapped(h, Parent(l), l), d, l)
<1> DEFINE p == Parent(l)  g == Swapped(h, p, l)
<1>1. p \in 1 .. Len(h) /\ p < l /\ l \in 1 .. Len(h)
  BY ParentIs
<1>2. /\ Len(g) = Len(h) /\ g[p] = h[l] /\ g[l] = h[p]
      /\ \A j \in 1 .. Len(h) : j # p /\ j # l => g[j] = h[j]
  <2>1. g = Swapped(h, p, l) /\ p # l
    BY <1>1
  <2> HIDE DEF p, g
  <2> QED BY <1>1, <2>1 DEF Swapped
<1>3. \A j \in 1 .. Len(h) : d[h[j]] \in Nat
  OBVIOUS
<1>4. \A j \in 2 .. Len(h) : Parent(j) \in 1 .. Len(h) /\ Parent(j) < j
  BY ParentIs
<1>5. d[h[p]] < d[h[l]] /\ \A j \in 2 .. Len(h) : Parent(j) = p => d[h[j]] <= d[h[l]]
  OBVIOUS
<1>6. \A j \in 2 .. Len(h) : Parent(j) # p => d[h[j]] <= d[h[Parent(j)]]
  BY DEF Down
<1>7. p > 1 => d[h[l]] <= d[h[Parent(p)]]
  BY DEF Down
<1> HIDE DEF g
<1> SUFFICES ASSUME NEW j \in 2 .. Len(h)
             PROVE  /\ Parent(j) # l => d[g[j]] <= d[g[Parent(j)]]
                    /\ Parent(j) = l => d[g[j]] <= d[g[p]]
  BY <1>2 DEF Down, g
<1>8. ASSUME Parent(j) # l PROVE d[g[j]] <= d[g[Parent(j)]]
  <2>1. CASE j = l
    BY <1>1, <1>2, <1>3, <1>5, <2>1
  <2>2. CASE j # l /\ Parent(j) = p
    <3>1. j # p /\ j \in 1 .. Len(h)
      BY <1>4, <2>2
    <3> QED BY <1>2, <1>5, <2>2, <3>1
  <2>3. CASE j = p
    <3>1. p > 1 /\ Parent(p) \in 1 .. Len(h) /\ Parent(p) < p
      BY <1>4, <2>3
    <3>2. g[Parent(p)] = h[Parent(p)]
      <4>1. Parent(p) # p /\ Parent(p) # l
        BY <1>1, <3>1
      <4> QED BY <1>2, <3>1, <4>1
    <3> QED BY <1>2, <1>7, <2>3, <3>1, <3>2
  <2>4. CASE j # l /\ j # p /\ Parent(j) # p
    BY <1>2, <1>4, <1>6, <1>8, <2>4
  <2> QED BY <2>1, <2>2, <2>3, <2>4
<1>9. ASSUME Parent(j) = l PROVE d[g[j]] <= d[g[p]]
  <2>1. j # l /\ j # p /\ d[h[j]] <= d[h[l]]
    BY <1>1, <1>4, <1>6, <1>9
  <2> QED BY <1>2, <2>1
<1> QED BY <1>8, <1>9

\* ... until no child is farther.
LEMMA DownStop ==
  ASSUME NEW h \in Seq(Clusters), NEW d \in [Clusters -> Nat], NEW at,
         Down(h, d, at), \A j \in 2 .. Len(h) : Parent(j) = at => d[h[j]] <= d[h[at]]
  PROVE  Ordered(h, d)
BY DEF Down, Ordered

\* largest is the farther child when one is farther than position j.
LEMMA LargestIs ==
  ASSUME NEW h \in Seq(Clusters), dists \in [Clusters -> Nat], NEW j \in 1 .. Len(h)
  PROVE  /\ Largest(h, j) # j =>
              /\ Largest(h, j) \in 2 .. Len(h) /\ Parent(Largest(h, j)) = j
              /\ dists[h[Largest(h, j)]] > dists[h[j]]
         /\ \A k \in 2 .. Len(h) :
              Parent(k) = j => dists[h[k]] <= dists[h[Largest(h, j)]]
<1> DEFINE l == IF 2 * j <= Len(h) /\ At(h, 2 * j) > At(h, j) THEN 2 * j ELSE j
<1>1. \A k \in 1 .. Len(h) : At(h, k) = dists[h[k]] /\ At(h, k) \in Nat
  BY DEF At
<1>2. \A k \in 2 .. Len(h) : Parent(k) = j => k = 2 * j \/ k = 2 * j + 1
  <2>1. \A k \in 2 .. Len(h) : k \in Nat /\ k >= 2
    OBVIOUS
  <2> QED BY <2>1, ParentIs
<1>3. Parent(2 * j) = j /\ Parent(2 * j + 1) = j
  BY DEF Parent
<1>4. Largest(h, j) = IF 2 * j + 1 <= Len(h) /\ At(h, 2 * j + 1) > At(h, l) THEN 2 * j + 1 ELSE l
  BY DEF Largest
<1>5. /\ l \in 1 .. Len(h) /\ At(h, l) >= At(h, j) /\ (2 * j <= Len(h) => At(h, l) >= At(h, 2 * j))
      /\ l = j \/ (l = 2 * j /\ At(h, l) > At(h, j))
  BY <1>1
<1> HIDE DEF l
<1> DEFINE L == Largest(h, j)
<1>6. /\ L \in 1 .. Len(h) /\ At(h, L) >= At(h, l)
      /\ 2 * j + 1 <= Len(h) => At(h, L) >= At(h, 2 * j + 1)
      /\ L = l \/ (L = 2 * j + 1 /\ At(h, L) > At(h, l))
  BY <1>1, <1>4, <1>5
<1> HIDE DEF L
<1>7. At(h, l) \in Nat /\ At(h, L) \in Nat /\ At(h, j) \in Nat
  BY <1>1, <1>5, <1>6
<1>8. ASSUME L # j PROVE L \in 2 .. Len(h) /\ Parent(L) = j /\ At(h, L) > At(h, j)
  <2>1. L = 2 * j \/ L = 2 * j + 1
    BY <1>5, <1>6, <1>8
  <2>2. At(h, L) > At(h, j)
    BY <1>5, <1>6, <1>7, <1>8
  <2>3. Parent(L) = j
    BY <1>3, <2>1
  <2>4. L \in 2 .. Len(h)
    <3>1. L \in 1 .. Len(h) /\ j >= 1 /\ j \in Nat
      BY <1>6
    <3> QED BY <2>1, <3>1
  <2> QED BY <2>2, <2>3, <2>4
<1>9. ASSUME NEW k \in 2 .. Len(h), Parent(k) = j PROVE At(h, k) <= At(h, L)
  <2>1. At(h, k) \in Nat /\ (k = 2 * j \/ k = 2 * j + 1)
    BY <1>1, <1>2, <1>9
  <2>2. CASE k = 2 * j + 1
    BY <1>6, <1>7, <2>1, <2>2
  <2>3. CASE k = 2 * j
    <3>1. At(h, l) >= At(h, k)
      BY <1>5, <2>3
    <3> QED BY <1>6, <1>7, <2>1, <3>1
  <2> QED BY <2>1, <2>2, <2>3
<1> QED BY <1>1, <1>6, <1>8, <1>9 DEF L
-----------------------------------------------------------------------------
(* The list                                                                *)

\* What the types say in numbers.
LEMMA Here ==
  ASSUME TypeOK
  PROVE  /\ K \in Nat /\ n \in Nat /\ n >= 1 /\ n <= K /\ c \in Nat /\ c >= 1 /\ c <= K + 1
         /\ dists \in [Clusters -> Nat] /\ picked \in [1 .. n -> Clusters \cup {None}]
         /\ \A e \in Clusters : e \in Nat /\ e >= 1 /\ e # None
BY PickTopAssumption DEF TypeOK, Clusters, None

\* The selections start with nothing seen and nothing picked.
LEMMA InitIInv == Init => IInv
<1> SUFFICES ASSUME Init PROVE IInv
  OBVIOUS
<1>1. TypeOK /\ heap \in Seq(Clusters) /\ heap = <<>> /\ c = 1 /\ pc = "walk" /\ worst = None
  BY PickTopAssumption DEF Init, TypeOK, None
<1>2. n >= 1 /\ n \in Nat /\ \A s \in 1 .. n : picked[s] = None
  BY <1>1, Here DEF Init
<1>3. \A e \in Clusters : ~(e < 1)
  BY <1>1, Here
<1>4. ASSUME alg = "list" PROVE ListInv
  <2>1. Passed = {}
    BY <1>1, <1>3 DEF Passed
  <2> QED BY <1>1, <1>2, <1>4, <2>1 DEF Init, ListInv
<1>5. ASSUME alg = "heap" PROVE HeapInv
  <2>1. Seen = {} /\ Members(heap) = {} /\ Len(heap) = 0
    BY <1>1, <1>3 DEF Seen, Members, Candidates
  <2> QED BY <1>1, <1>2, <2>1 DEF HeapInv, WalkInv, Distinct, Ordered
<1> QED BY <1>1, <1>4, <1>5 DEF IInv

\* There is a nearest cluster, and a first one of the nearest.
LEMMA FirstNearest ==
  ASSUME NEW d \in [Clusters -> Nat]
  PROVE  \E m \in Clusters : \A e \in Clusters : d[m] < d[e] \/ (d[m] = d[e] /\ m <= e)
<1> DEFINE Far == {d[m] : m \in Clusters}
<1>1. Far \subseteq Nat /\ Far # {}
  <2>1. 1 \in Clusters
    BY PickTopAssumption DEF Clusters
  <2> QED BY <2>1
<1>2. PICK low \in Far : \A k \in Far : low <= k
  <2> HIDE DEF Far
  <2> QED BY <1>1, Smallest
<1> DEFINE Near == {m \in Clusters : d[m] = low}
<1>3. Near \subseteq Nat /\ Near # {}
  BY DEF Clusters
<1>4. PICK m \in Near : \A k \in Near : m <= k
  <2> HIDE DEF Near
  <2> QED BY <1>3, Smallest
<1>5. ASSUME NEW e \in Clusters PROVE d[m] < d[e] \/ (d[m] = d[e] /\ m <= e)
  <2>1. d[m] = low /\ low <= d[e] /\ low \in Nat /\ d[e] \in Nat
    BY <1>1, <1>2
  <2>2. d[e] = low => m <= e
    BY <1>4
  <2> QED BY <2>1, <2>2
<1> QED BY <1>5

\* pickArgminFast leaves the one pick of a list of one.
LEMMA ArgminKeeps ==
  ASSUME IInv, Argmin
  PROVE  IInv'
<1>1. /\ pc = "walk" /\ alg = "list" /\ n = 1 /\ c = 1 /\ pc' = "done"
      /\ UNCHANGED <<alg, n, dists, scanned, c, worst, heap, i>>
  BY DEF Argmin, input
<1>2. TypeOK /\ ListInv /\ dists \in [Clusters -> Nat]
  BY <1>1, Here DEF IInv
<1>3. PICK m \in Clusters :
        /\ picked' = <<m>>
        /\ \A e \in Clusters : dists[m] < dists[e] \/ (dists[m] = dists[e] /\ m <= e)
  BY <1>2, FirstNearest DEF Argmin
<1>4. m \in Nat /\ m # None /\ picked' \in [1 .. 1 -> Clusters \cup {None}] /\ picked'[1] = m
  BY <1>2, <1>3, Here
<1>5. TypeOK'
  BY <1>1, <1>2, <1>4 DEF TypeOK
<1>6. \A e \in Clusters : e = m \/ Before(dists, m, e)
  BY <1>2, <1>3, <1>4, Here DEF Before
<1>7. ListInv'
  <2>1. Passed' = Clusters /\ 1 .. n' = {1}
    BY <1>1 DEF Passed
  <2> QED BY <1>1, <1>2, <1>4, <1>6, <2>1 DEF ListInv
<1> QED BY <1>1, <1>5, <1>7 DEF IInv

\* What the loop over the clusters knows of the next one.
LEMMA NextPassed ==
  ASSUME TypeOK, ListInv, c <= K
  PROVE  /\ c \in Clusters /\ c # None
         /\ {e \in Clusters : e < c + 1} = {e \in Clusters : e < c} \cup {c}
         /\ \A s \in 1 .. n : picked[s] # None => picked[s] \in Clusters /\ picked[s] \in Nat
<1>1. c \in Clusters
  BY Here DEF Clusters
<1> QED BY <1>1, Here

\* A cluster too far for the list leaves it as it is.
LEMMA ListSkipKeeps ==
  ASSUME IInv, ListSkip
  PROVE  IInv'
<1>1. /\ pc = "walk" /\ alg = "list" /\ n > 1 /\ c <= K /\ c' = c + 1
      /\ UNCHANGED <<alg, n, dists, scanned, picked, worst, heap, i, pc>>
      /\ TooFar(dists[c]) \/ SlotFor = {}
  BY DEF ListSkip, input
<1>2. TypeOK /\ ListInv
  BY <1>1 DEF IInv
<1>3. TypeOK'
  BY <1>1, <1>2, Here DEF TypeOK
<1>4. Passed = {e \in Clusters : e < c} /\ Passed' = Passed \cup {c}
  BY <1>1, <1>2, NextPassed DEF Passed
<1>5. n \in 1 .. n /\ worst = picked[n]
  BY <1>1, <1>2, Here DEF ListInv
<1>6. picked[n] # None /\ dists[c] >= dists[picked[n]]
  <2>1. CASE TooFar(dists[c])
    BY <1>5, <2>1 DEF TooFar
  <2>2. CASE SlotFor = {}
    <3>1. ~(picked[n] = None \/ dists[picked[n]] > dists[c])
      BY <1>5, <2>2 DEF SlotFor
    <3>2. picked[n] \in Clusters /\ c \in Clusters /\ dists \in [Clusters -> Nat]
      BY <1>1, <1>2, <1>5, <3>1, NextPassed, Here
    <3> QED BY <3>1, <3>2
  <2> QED BY <1>1, <2>1, <2>2
<1>7. Before(dists, picked[n], c)
  <2>1. picked[n] \in Clusters /\ picked[n] < c
    BY <1>2, <1>4, <1>5, <1>6 DEF ListInv
  <2>2. dists[picked[n]] \in Nat /\ dists[c] \in Nat
    BY <1>1, <1>2, <2>1, NextPassed, Here
  <2> QED BY <1>6, <2>1, <2>2 DEF Before
<1>8. ListInv'
  BY <1>1, <1>2, <1>4, <1>6, <1>7 DEF ListInv
<1> QED BY <1>1, <1>3, <1>8 DEF IInv

\* Before is transitive.
LEMMA BeforeTransitive ==
  ASSUME NEW d \in [Clusters -> Nat], NEW x \in Clusters, NEW y \in Clusters, NEW z \in Clusters,
         Before(d, x, y), Before(d, y, z)
  PROVE  Before(d, x, z)
BY DEF Before, Clusters

\* An insertion keeps the list sorted; what falls out is behind the last entry.
LEMMA ListInsertKeeps ==
  ASSUME IInv, ListInsert
  PROVE  IInv'
<1>1. /\ pc = "walk" /\ alg = "list" /\ n > 1 /\ c <= K /\ c' = c + 1 /\ worst' = picked'[n]
      /\ UNCHANGED <<alg, n, dists, scanned, heap, i, pc>>
  BY DEF ListInsert, input
<1>2. PICK p \in SlotFor :
        /\ \A q \in SlotFor : p <= q
        /\ picked' = [s \in 1 .. n |-> IF s < p THEN picked[s] ELSE IF s = p THEN c ELSE picked[s - 1]]
  BY DEF ListInsert
<1>3. TypeOK /\ ListInv
  BY <1>1 DEF IInv
<1>4. /\ Passed = {e \in Clusters : e < c} /\ Passed' = Passed \cup {c}
      /\ c \in Clusters /\ c # None
  BY <1>1, <1>3, NextPassed DEF Passed
<1>5. n \in Nat /\ p \in 1 .. n /\ dists \in [Clusters -> Nat] /\ dists[c] \in Nat
  BY <1>3, <1>4, Here DEF SlotFor
<1> DEFINE d == dists  new == picked'
<1>6. /\ \A s \in 1 .. n : s < p => new[s] = picked[s]
      /\ new[p] = c
      /\ \A s \in 1 .. n : s > p => new[s] = picked[s - 1] /\ s - 1 \in 1 .. n
  BY <1>2, <1>5
<1>7. new \in [1 .. n -> Clusters \cup {None}]
  <2>1. \A s \in 1 .. n : picked[s] \in Clusters \cup {None}
    BY <1>3 DEF TypeOK
  <2> QED BY <1>2, <1>4, <1>5, <1>6, <2>1
<1>8. TypeOK'
  BY <1>1, <1>3, <1>5, <1>7, Here DEF TypeOK
<1>9. \A s \in 1 .. n : picked[s] # None =>
        picked[s] \in Clusters /\ picked[s] \in Nat /\ picked[s] < c /\ d[picked[s]] \in Nat
  BY <1>1, <1>3, <1>4, <1>5, NextPassed DEF ListInv
<1>10. \A s \in 1 .. n : s < p => picked[s] # None /\ Before(d, picked[s], c)
  <2> SUFFICES ASSUME NEW s \in 1 .. n, s < p PROVE picked[s] # None /\ Before(d, picked[s], c)
    OBVIOUS
  <2>1. ~(picked[s] = None \/ d[picked[s]] > d[c])
    BY <1>2, <1>5 DEF SlotFor
  <2> QED BY <1>5, <1>9, <2>1 DEF Before
<1>11. \A s, t \in 1 .. n : s < t /\ picked[t] # None => picked[s] # None /\ Before(d, picked[s], picked[t])
  BY <1>3 DEF ListInv
<1>12. \A s \in 1 .. n : s >= p /\ picked[s] # None => Before(d, c, picked[s])
  <2> SUFFICES ASSUME NEW s \in 1 .. n, s >= p, picked[s] # None PROVE Before(d, c, picked[s])
    OBVIOUS
  <2>1. picked[p] = None \/ d[picked[p]] > d[c]
    BY <1>2 DEF SlotFor
  <2>2. picked[p] # None /\ d[picked[p]] <= d[picked[s]]
    <3>1. CASE s = p
      BY <1>9, <3>1
    <3>2. CASE s > p
      BY <1>5, <1>9, <1>11, <3>2 DEF Before
    <3> QED BY <1>5, <3>1, <3>2
  <2>3. d[picked[p]] > d[c] /\ d[picked[p]] \in Nat /\ d[picked[s]] \in Nat
    BY <1>5, <1>9, <2>1, <2>2
  <2> QED BY <1>5, <2>2, <2>3 DEF Before
<1> HIDE DEF d, new
<1>13. ASSUME NEW s \in 1 .. n, NEW t \in 1 .. n, s < t, new[t] # None
       PROVE  new[s] # None /\ Before(d, new[s], new[t])
  <2>1. CASE t < p
    BY <1>5, <1>6, <1>11, <1>13, <2>1
  <2>2. CASE t = p
    BY <1>5, <1>6, <1>10, <1>13, <2>2
  <2>3. CASE t > p /\ s < p
    BY <1>5, <1>6, <1>11, <1>13, <2>3
  <2>4. CASE t > p /\ s = p
    BY <1>4, <1>5, <1>6, <1>12, <1>13, <2>4
  <2>5. CASE t > p /\ s > p
    BY <1>5, <1>6, <1>11, <1>13, <2>5
  <2> QED BY <1>5, <2>1, <2>2, <2>3, <2>4, <2>5
<1>14. ASSUME picked[n] # None PROVE new[n] # None /\ Before(d, new[n], picked[n])
  <2>1. n \in 1 .. n
    BY <1>1, <1>5
  <2>2. CASE p = n
    BY <1>4, <1>5, <1>6, <1>12, <1>14, <2>1, <2>2
  <2>3. CASE p < n
    BY <1>5, <1>6, <1>11, <1>14, <2>1, <2>3
  <2> QED BY <1>5, <2>2, <2>3
<1>15. ASSUME NEW e \in Passed'
       PROVE  (\E s \in 1 .. n : new[s] = e) \/ (new[n] # None /\ Before(d, new[n], e))
  <2>1. CASE e = c
    BY <1>5, <1>6, <2>1
  <2>2. CASE e \in Passed
    <3>0. n \in 1 .. n /\ e \in Clusters /\ e # None
      BY <1>1, <1>3, <1>4, <1>5, <2>2, Here
    <3>1. ASSUME NEW s \in 1 .. n, picked[s] = e, s < n
          PROVE  \E r \in 1 .. n : new[r] = e
      <4>1. CASE s < p
        BY <1>6, <3>1, <4>1
      <4>2. CASE s >= p
        <5>1. s + 1 \in 1 .. n /\ s + 1 > p /\ (s + 1) - 1 = s
          BY <1>5, <3>1, <4>2
        <5> QED BY <1>6, <3>1, <5>1
      <4> QED BY <1>5, <4>1, <4>2
    <3>2. CASE picked[n] = e
      BY <1>14, <3>0, <3>2
    <3>3. CASE picked[n] # None /\ Before(d, picked[n], e)
      <4>1. new[n] # None /\ Before(d, new[n], picked[n])
        BY <1>14, <3>3
      <4>2. new[n] \in Clusters /\ picked[n] \in Clusters /\ d \in [Clusters -> Nat]
        BY <1>5, <1>7, <1>9, <3>0, <3>3, <4>1 DEF d
      <4> QED BY <3>0, <3>3, <4>1, <4>2, BeforeTransitive
    <3>4. (\E s \in 1 .. n : picked[s] = e) \/ (picked[n] # None /\ Before(d, picked[n], e))
      BY <1>3, <2>2 DEF ListInv, d
    <3> QED BY <1>5, <3>1, <3>2, <3>3, <3>4
  <2> QED BY <1>4, <1>15, <2>1, <2>2
<1>16. \A s \in 1 .. n : new[s] # None => new[s] \in Passed'
  <2> SUFFICES ASSUME NEW s \in 1 .. n, new[s] # None PROVE new[s] \in Passed'
    OBVIOUS
  <2>1. s < p \/ s = p \/ s > p
    BY <1>5
  <2>2. \A r \in 1 .. n : picked[r] # None => picked[r] \in Passed
    BY <1>4, <1>9
  <2> QED BY <1>4, <1>6, <2>1, <2>2
<1>17. ListInv'
  BY <1>1, <1>3, <1>13, <1>15, <1>16 DEF ListInv, new, d
<1> QED BY <1>1, <1>8, <1>17 DEF IInv

\* The list is done when every cluster has passed.
LEMMA ListDoneKeeps ==
  ASSUME IInv, ListDone
  PROVE  IInv'
<1>1. /\ pc = "walk" /\ alg = "list" /\ c > K /\ pc' = "done"
      /\ UNCHANGED <<alg, n, dists, scanned, c, picked, worst, heap, i>>
  BY DEF ListDone, input
<1>2. TypeOK /\ ListInv
  BY <1>1 DEF IInv
<1>3. TypeOK'
  BY <1>1, <1>2 DEF TypeOK
<1>4. Passed = Clusters /\ Passed' = Clusters
  BY <1>1, <1>2, Here DEF Passed, Clusters
<1>5. ListInv'
  BY <1>1, <1>2, <1>4 DEF ListInv
<1> QED BY <1>1, <1>3, <1>5 DEF IInv
-----------------------------------------------------------------------------
(* The heap of the nearest so far                                          *)

\* A cluster skipped is scanned already, or no nearer than a full heap.
LEMMA HeapSkipKeeps ==
  ASSUME IInv, HeapSkip
  PROVE  IInv'
<1>1. /\ pc = "walk" /\ alg = "heap" /\ c <= K /\ c' = c + 1
      /\ UNCHANGED <<alg, n, dists, scanned, picked, worst, heap, i, pc>>
      /\ c \in scanned \/ (Len(heap) = n /\ TooFar(dists[c]))
  BY DEF HeapSkip, input
<1>2. TypeOK /\ HeapInv /\ WalkInv /\ heap \in Seq(Clusters) /\ dists \in [Clusters -> Nat]
  BY <1>1, Here DEF IInv, HeapInv
<1>3. TypeOK'
  BY <1>1, <1>2, Here DEF TypeOK
<1>4. Seen = {e \in Candidates : e < c} /\ Seen' = Seen \cup ({c} \cap Candidates)
  BY <1>1, <1>2, Here DEF Seen, Candidates, Clusters
<1>5. ASSUME c \in Candidates
      PROVE  Len(heap) = n /\ \A a \in Members(heap) : dists[a] <= dists[c]
  <2>1. Len(heap) = n /\ worst # None /\ dists[c] >= dists[worst]
    BY <1>1, <1>5 DEF Candidates, TooFar
  <2>2. worst = heap[1] /\ Ordered(heap, dists)
    BY <1>1, <1>2, <2>1 DEF WalkInv
  <2>3. \A a \in Members(heap) : dists[a] <= dists[heap[1]] /\ dists[a] \in Nat
    <3>1. \A a \in Members(heap) : a \in Clusters
      BY <1>2 DEF Members
    <3> QED BY <1>2, <2>2, <3>1, RootFarthest
  <2>4. dists[heap[1]] \in Nat /\ dists[c] \in Nat
    <3>1. 1 \in 1 .. Len(heap) /\ c \in Clusters
      BY <1>2, <1>5, <2>1, Here DEF Candidates
    <3> QED BY <1>2, <3>1
  <2> QED BY <2>1, <2>2, <2>3, <2>4
<1>6. WalkInv'
  BY <1>1, <1>2, <1>4, <1>5 DEF WalkInv
<1> QED BY <1>1, <1>2, <1>3, <1>6 DEF IInv, HeapInv

\* A push puts the new cluster in the last place, below a heap in order.
LEMMA HeapPushKeeps ==
  ASSUME IInv, HeapPush
  PROVE  IInv'
<1>1. /\ pc = "walk" /\ alg = "heap" /\ c <= K /\ c \notin scanned /\ Len(heap) < n
      /\ heap' = Append(heap, c) /\ i' = Len(heap) + 1 /\ pc' = "up"
      /\ UNCHANGED <<alg, n, dists, scanned, c, picked, worst>>
  BY DEF HeapPush, input
<1>2. TypeOK /\ HeapInv /\ WalkInv /\ heap \in Seq(Clusters) /\ dists \in [Clusters -> Nat]
  BY <1>1, Here DEF IInv, HeapInv
<1>3. c \in Clusters /\ c \in Candidates
  BY <1>1, <1>2, Here DEF Candidates, Clusters
<1> DEFINE new == heap'  size == Len(heap)
<1>4. /\ new \in Seq(Clusters) /\ size \in Nat /\ Len(new) = size + 1
      /\ \A j \in 1 .. size : new[j] = heap[j]
      /\ new[size + 1] = c
  BY <1>1, <1>2, <1>3
<1>5. TypeOK'
  <2> HIDE DEF new
  <2>1. \A j \in 1 .. Len(new) : new[j] \in Clusters
    BY <1>4
  <2>2. n \in Nat /\ Len(new) <= n /\ size + 1 \in 1 .. n
    BY <1>1, <1>2, <1>4, Here
  <2> QED BY <1>1, <1>2, <1>4, <2>1, <2>2 DEF TypeOK, new
<1>6. Members(new) = Members(heap) \cup {c}
  <2> HIDE DEF new
  <2>1. 1 .. Len(new) = (1 .. size) \cup {size + 1}
    BY <1>4
  <2> QED BY <1>4, <2>1 DEF Members
<1>7. Seen = {e \in Candidates : e < c} /\ Seen' = Seen \cup {c}
  BY <1>1, <1>2, <1>3, Here DEF Seen, Candidates, Clusters
<1>8. c \notin Members(heap)
  BY <1>2, <1>3, <1>7, Here DEF WalkInv
<1>9. Distinct(new)
  <2>1. \A j \in 1 .. size : heap[j] # c
    BY <1>8 DEF Members
  <2>2. \A j, k \in 1 .. size : heap[j] = heap[k] => j = k
    BY <1>2 DEF HeapInv, Distinct
  <2> HIDE DEF new
  <2>3. \A j \in 1 .. Len(new) : j \in 1 .. size \/ j = size + 1
    BY <1>4
  <2> QED BY <1>4, <2>1, <2>2, <2>3 DEF Distinct
<1>10. Seen \ Members(heap) = {}
  BY <1>1, <1>2 DEF WalkInv
<1>11. Up(new, dists, size + 1)
  <2> HIDE DEF new
  <2> SUFFICES ASSUME NEW j \in 2 .. size + 1
               PROVE  /\ j # size + 1 => dists[new[j]] <= dists[new[Parent(j)]]
                      /\ Parent(j) # size + 1
    BY <1>4 DEF Up
  <2>1. Parent(j) \in 1 .. size /\ Parent(j) < j
    BY <1>4, ParentIs
  <2>2. ASSUME j # size + 1 PROVE dists[new[j]] <= dists[new[Parent(j)]]
    <3>1. j \in 2 .. size
      BY <1>4, <2>2
    <3>2. dists[heap[j]] <= dists[heap[Parent(j)]]
      BY <1>1, <1>2, <3>1 DEF WalkInv, Ordered
    <3> QED BY <1>4, <2>1, <3>1, <3>2
  <2> QED BY <1>4, <2>1, <2>2
<1>12. WalkInv'
  <2>1. size + 1 \in 1 .. Len(new) /\ (Len(new) < n => worst = None)
    BY <1>1, <1>2, <1>4, Here DEF WalkInv
  <2>2. Members(new) \subseteq Seen' /\ Seen' \ Members(new) = {}
    BY <1>2, <1>6, <1>7, <1>10 DEF WalkInv
  <2> QED BY <1>1, <1>11, <2>1, <2>2 DEF WalkInv
<1>13. HeapInv'
  BY <1>1, <1>9, <1>12 DEF HeapInv
<1> QED BY <1>1, <1>4, <1>5, <1>13 DEF IInv

\* In a full heap the new cluster replaces the farthest.
LEMMA HeapReplaceKeeps ==
  ASSUME IInv, HeapReplace
  PROVE  IInv'
<1>1. /\ pc = "walk" /\ alg = "heap" /\ c <= K /\ c \notin scanned
      /\ Len(heap) = n /\ ~TooFar(dists[c])
      /\ heap' = [heap EXCEPT ![1] = c] /\ i' = 1 /\ pc' = "down"
      /\ UNCHANGED <<alg, n, dists, scanned, c, picked, worst>>
  BY DEF HeapReplace, input
<1>2. TypeOK /\ HeapInv /\ WalkInv /\ heap \in Seq(Clusters) /\ dists \in [Clusters -> Nat]
  BY <1>1, Here DEF IInv, HeapInv
<1>3. c \in Clusters /\ c \in Candidates /\ dists[c] \in Nat
  BY <1>1, <1>2, Here DEF Candidates, Clusters
<1> DEFINE new == heap'  root == heap[1]
<1>4. 1 \in 1 .. Len(heap) /\ n \in Nat /\ n >= 1
  BY <1>1, <1>2, Here
<1>5. /\ new \in Seq(Clusters) /\ Len(new) = Len(heap) /\ new[1] = c
      /\ \A j \in 1 .. Len(heap) : j # 1 => new[j] = heap[j]
      /\ root \in Clusters /\ root # None /\ dists[root] \in Nat
  BY <1>1, <1>2, <1>3, <1>4, Here
<1>6. TypeOK'
  <2> HIDE DEF new
  <2>1. \A j \in 1 .. Len(new) : new[j] \in Clusters
    BY <1>5
  <2> QED BY <1>1, <1>2, <1>4, <1>5, <2>1 DEF TypeOK, new
<1>7. Seen = {e \in Candidates : e < c} /\ Seen' = Seen \cup {c}
  BY <1>1, <1>2, <1>3, Here DEF Seen, Candidates, Clusters
<1>8. c \notin Members(heap)
  BY <1>2, <1>3, <1>7, Here DEF WalkInv
<1>9. \A j \in 1 .. Len(heap) : heap[j] # c
  BY <1>8 DEF Members
<1>10. \A j, k \in 1 .. Len(heap) : heap[j] = heap[k] => j = k
  BY <1>2 DEF HeapInv, Distinct
<1> HIDE DEF new
<1>11. Distinct(new)
  BY <1>5, <1>9, <1>10 DEF Distinct
<1>12. Members(new) = (Members(heap) \ {root}) \cup {c}
  <2>1. \A j \in 1 .. Len(heap) : j # 1 => heap[j] # root
    BY <1>4, <1>10
  <2> QED BY <1>4, <1>5, <2>1 DEF Members
<1>13. worst = root /\ dists[c] < dists[root]
  <2>1. worst = root
    BY <1>1, <1>2 DEF WalkInv
  <2> QED BY <1>1, <1>3, <1>5, <2>1 DEF TooFar
<1>14. \A a \in Members(heap) : dists[a] <= dists[root] /\ dists[a] \in Nat
  <2>1. Ordered(heap, dists)
    BY <1>1, <1>2 DEF WalkInv
  <2>2. \A a \in Members(heap) : a \in Clusters
    BY <1>2 DEF Members
  <2> QED BY <1>2, <2>1, <2>2, RootFarthest
<1>15. \A a \in Members(new) : dists[a] <= dists[root] /\ dists[a] \in Nat
  BY <1>3, <1>5, <1>12, <1>13, <1>14
<1>16. ASSUME NEW e \in Seen' \ Members(new), NEW a \in Members(new)
       PROVE  dists[a] <= dists[e]
  <2>1. e # c /\ e \in Seen /\ e \in Clusters /\ dists[e] \in Nat
    BY <1>2, <1>7, <1>12, <1>16 DEF Seen, Candidates
  <2>2. CASE e = root
    BY <1>15, <1>16, <2>2
  <2>3. CASE e # root
    <3>1. e \in Seen \ Members(heap) /\ root \in Members(heap)
      BY <1>4, <1>12, <1>16, <2>1, <2>3 DEF Members
    <3>2. dists[root] <= dists[e]
      BY <1>2, <3>1 DEF WalkInv
    <3> QED BY <1>5, <1>15, <2>1, <3>2
  <2> QED BY <2>2, <2>3
<1>17. Down(new, dists, 1)
  <2> SUFFICES ASSUME NEW j \in 2 .. Len(heap), Parent(j) # 1
               PROVE  dists[new[j]] <= dists[new[Parent(j)]]
    BY <1>5 DEF Down
  <2>1. Parent(j) \in 1 .. Len(heap) /\ j \in 1 .. Len(heap) /\ j # 1
    BY ParentIs
  <2>2. dists[heap[j]] <= dists[heap[Parent(j)]]
    BY <1>1, <1>2 DEF WalkInv, Ordered
  <2> QED BY <1>5, <2>1, <2>2
<1>18. Members(new) \subseteq Seen'
  BY <1>2, <1>7, <1>12 DEF WalkInv
<1>19. WalkInv'
  BY <1>1, <1>4, <1>5, <1>16, <1>17, <1>18 DEF WalkInv, new
<1>20. HeapInv'
  BY <1>1, <1>11, <1>19 DEF HeapInv, new
<1> QED BY <1>1, <1>5, <1>6, <1>20 DEF IInv, new

\* The heap is in order again: on to the next cluster.
LEMMA WalkOn ==
  ASSUME IInv, pc \in {"up", "down"}, alg = "heap", Ordered(heap, dists),
         worst' = IF Len(heap) = n THEN heap[1] ELSE None, c' = c + 1, pc' = "walk",
         UNCHANGED <<alg, n, dists, scanned, picked, heap, i>>
  PROVE  IInv'
<1>1. TypeOK /\ HeapInv /\ WalkInv /\ heap \in Seq(Clusters) /\ c <= K
  BY DEF IInv, HeapInv, WalkInv
<1>2. Seen' = Seen
  BY <1>1, Here DEF Seen, Candidates, Clusters
<1>3. worst' \in Clusters \cup {None}
  <2>1. Len(heap) = n => 1 \in 1 .. Len(heap)
    BY <1>1, Here
  <2> QED BY <1>1, <2>1
<1>4. TypeOK'
  BY <1>1, <1>3, Here DEF TypeOK
<1>5. WalkInv'
  BY <1>1, <1>2 DEF WalkInv
<1> QED BY <1>1, <1>4, <1>5 DEF IInv, HeapInv

\* Two entries of the heap changed places.
LEMMA SwapOn ==
  ASSUME IInv, alg = "heap", NEW a \in 1 .. Len(heap), NEW b \in 1 .. Len(heap), a # b,
         heap' = Swapped(heap, a, b), i' \in 1 .. Len(heap),
         UNCHANGED <<alg, n, dists, scanned, c, picked, worst, pc>>
  PROVE  /\ TypeOK' /\ heap' \in Seq(Clusters) /\ Distinct(heap') /\ Len(heap') = Len(heap)
         /\ Members(heap') = Members(heap) /\ Seen' = Seen /\ HeapInv
<1>1. TypeOK /\ HeapInv /\ Distinct(heap) /\ heap \in Seq(Clusters)
  BY DEF IInv, HeapInv
<1>2. /\ heap' \in Seq(Clusters) /\ Len(heap') = Len(heap)
      /\ Members(heap') = Members(heap) /\ Distinct(heap')
  <2>1. Distinct(heap) => Distinct(heap')
    BY <1>1, SwapKeeps
  <2> QED BY <1>1, <2>1, SwapKeeps
<1>3. TypeOK'
  <2>1. \A j \in 1 .. Len(heap') : heap'[j] \in Clusters
    BY <1>2
  <2>2. i' \in 1 .. n
    <3>1. Len(heap) <= n /\ n \in Nat /\ Len(heap) \in Nat
      BY <1>1, Here DEF TypeOK
    <3> QED BY <3>1
  <2>3. Len(heap') <= n
    BY <1>1, <1>2 DEF TypeOK
  <2> QED BY <1>1, <2>1, <2>2, <2>3 DEF TypeOK
<1> QED BY <1>1, <1>2, <1>3 DEF Seen, Candidates

\* One turn of the loop of a push.
LEMMA SiftUpKeeps ==
  ASSUME IInv, SiftUp
  PROVE  IInv'
<1>1. pc = "up" /\ UNCHANGED <<alg, n, dists, scanned, picked>>
  BY DEF SiftUp, input
<1>2. TypeOK /\ alg = "heap"
  BY <1>1 DEF IInv, ListInv, TypeOK
<1>3. /\ WalkInv /\ heap \in Seq(Clusters) /\ dists \in [Clusters -> Nat]
      /\ i \in 1 .. Len(heap) /\ Up(heap, dists, i) /\ (Len(heap) < n => worst = None)
  BY <1>1, <1>2, Here DEF IInv, HeapInv, WalkInv
<1>4. CASE i > 1 /\ At(heap, Parent(i)) < At(heap, i)
  <2>1. /\ heap' = Swapped(heap, Parent(i), i) /\ i' = Parent(i)
        /\ UNCHANGED <<c, worst, pc>>
    BY <1>4 DEF SiftUp
  <2>2. i \in 2 .. Len(heap) /\ Parent(i) \in 1 .. Len(heap) /\ Parent(i) # i
    BY <1>3, <1>4, ParentIs
  <2>3. /\ TypeOK' /\ heap' \in Seq(Clusters) /\ Distinct(heap') /\ Len(heap') = Len(heap)
        /\ Members(heap') = Members(heap) /\ Seen' = Seen
    BY <1>1, <1>2, <1>3, <2>1, <2>2, SwapOn
  <2>4. Up(heap', dists, i')
    BY <1>3, <1>4, <2>1, <2>2, UpStep DEF At
  <2>5. WalkInv'
    BY <1>1, <1>3, <2>1, <2>2, <2>3, <2>4 DEF WalkInv
  <2> QED BY <1>1, <1>2, <2>1, <2>3, <2>5 DEF IInv, HeapInv
<1>5. CASE ~(i > 1 /\ At(heap, Parent(i)) < At(heap, i))
  <2>1. /\ worst' = IF Len(heap) = n THEN heap[1] ELSE worst
        /\ c' = c + 1 /\ pc' = "walk" /\ UNCHANGED <<heap, i>>
    BY <1>5 DEF SiftUp
  <2>2. Ordered(heap, dists)
    BY <1>3, <1>5, UpStop DEF At
  <2>3. Len(heap) = n \/ worst = None
    BY <1>2, <1>3, Here DEF TypeOK
  <2> QED BY <1>1, <1>2, <2>1, <2>2, <2>3, WalkOn
<1> QED BY <1>4, <1>5

\* One turn of the loop of a replacement.
LEMMA SiftDownKeeps ==
  ASSUME IInv, SiftDown
  PROVE  IInv'
<1>1. pc = "down" /\ UNCHANGED <<alg, n, dists, scanned, picked>>
  BY DEF SiftDown, input
<1>2. TypeOK /\ alg = "heap"
  BY <1>1 DEF IInv, ListInv, TypeOK
<1>3. /\ WalkInv /\ heap \in Seq(Clusters) /\ dists \in [Clusters -> Nat]
      /\ i \in 1 .. Len(heap) /\ Down(heap, dists, i) /\ Len(heap) = n
  BY <1>1, <1>2, Here DEF IInv, HeapInv, WalkInv
<1> DEFINE l == Largest(heap, i)
<1>4. /\ l # i => l \in 2 .. Len(heap) /\ Parent(l) = i /\ dists[heap[l]] > dists[heap[i]]
      /\ \A k \in 2 .. Len(heap) : Parent(k) = i => dists[heap[k]] <= dists[heap[l]]
  BY <1>3, LargestIs
<1>5. CASE l # i
  <2>1. heap' = Swapped(heap, i, l) /\ i' = l /\ UNCHANGED <<c, worst, pc>>
    BY <1>5 DEF SiftDown
  <2> HIDE DEF l
  <2>2. l \in 1 .. Len(heap)
    BY <1>4, <1>5
  <2>3. /\ TypeOK' /\ heap' \in Seq(Clusters) /\ Distinct(heap') /\ Len(heap') = Len(heap)
        /\ Members(heap') = Members(heap) /\ Seen' = Seen
    BY <1>1, <1>2, <1>3, <1>5, <2>1, <2>2, SwapOn
  <2>4. Down(heap', dists, i')
    BY <1>3, <1>4, <1>5, <2>1, DownStep
  <2>5. WalkInv'
    BY <1>1, <1>3, <2>1, <2>2, <2>3, <2>4 DEF WalkInv
  <2> QED BY <1>1, <1>2, <2>1, <2>3, <2>5 DEF IInv, HeapInv
<1>6. CASE l = i
  <2>1. worst' = heap[1] /\ c' = c + 1 /\ pc' = "walk" /\ UNCHANGED <<heap, i>>
    BY <1>6 DEF SiftDown
  <2>2. Ordered(heap, dists)
    BY <1>3, <1>4, <1>6, DownStop
  <2> QED BY <1>1, <1>2, <1>3, <2>1, <2>2, WalkOn
<1> QED BY <1>5, <1>6
-----------------------------------------------------------------------------
(* The heap emptied from the back                                          *)

\* Entries all different are as many as their places.
LEMMA DistinctCount ==
  ASSUME NEW m \in Nat, NEW f, NEW R, \A s, t \in 1 .. m : f[s] = f[t] => s = t,
         \A s \in 1 .. m : f[s] \in R, \A a \in R : \E s \in 1 .. m : f[s] = a
  PROVE  IsFiniteSet(R) /\ Cardinality(R) = m
<1> DEFINE g == [s \in 1 .. m |-> f[s]]
<1>1. g \in Bijection(1 .. m, R)
  BY DEF Bijection, Injection, Surjection, IsInjective
<1>2. ExistsBijection(1 .. m, R)
  BY <1>1 DEF ExistsBijection
<1>3. IsFiniteSet(1 .. m) /\ Cardinality(1 .. m) = m
  BY FS_Interval
<1> QED BY <1>2, <1>3, FS_Bijection

\* A heap has as many clusters as entries.
LEMMA MembersCount ==
  ASSUME NEW h \in Seq(Clusters), Distinct(h)
  PROVE  IsFiniteSet(Members(h)) /\ Cardinality(Members(h)) = Len(h)
<1>1. Len(h) \in Nat
  OBVIOUS
<1>2. /\ \A s \in 1 .. Len(h) : h[s] \in Members(h)
      /\ \A a \in Members(h) : \E s \in 1 .. Len(h) : h[s] = a
  BY DEF Members
<1>3. \A s, t \in 1 .. Len(h) : h[s] = h[t] => s = t
  BY DEF Distinct
<1> QED BY <1>1, <1>2, <1>3, DistinctCount

\* There are K clusters, and finitely many candidates.
LEMMA CandidatesFinite ==
  /\ IsFiniteSet(Clusters) /\ Cardinality(Clusters) = K
  /\ IsFiniteSet(Candidates) /\ Cardinality(Candidates) \in Nat
<1>1. K \in Nat /\ K >= 1
  BY PickTopAssumption
<1>2. IsFiniteSet(Clusters) /\ Cardinality(Clusters) = K
  BY <1>1, FS_Interval DEF Clusters
<1>3. IsFiniteSet(Candidates)
  BY <1>2, FS_Subset DEF Candidates
<1> QED BY <1>2, <1>3, FS_CardinalityType

\* With every cluster seen, the heap has as many as will be picked.
LEMMA HeapWalkedKeeps ==
  ASSUME IInv, HeapWalked
  PROVE  IInv'
<1>1. /\ pc = "walk" /\ alg = "heap" /\ c > K /\ pc' = "extract"
      /\ picked' = [s \in 1 .. n |-> None]
      /\ UNCHANGED <<alg, n, dists, scanned, c, worst, heap, i>>
  BY DEF HeapWalked, input
<1>2. TypeOK /\ WalkInv /\ Distinct(heap) /\ heap \in Seq(Clusters) /\ n \in Nat
  BY <1>1, Here DEF IInv, HeapInv
<1>3. TypeOK'
  BY <1>1, <1>2 DEF TypeOK
<1>4. Seen = Candidates
  BY <1>1, <1>2, Here DEF Seen, Candidates, Clusters
<1>5. Members(heap) \subseteq Candidates /\ IsFiniteSet(Candidates)
  BY <1>2, <1>4, CandidatesFinite DEF WalkInv
<1>6. /\ Cardinality(Members(heap)) = Len(heap) /\ Len(heap) \in Nat /\ Len(heap) <= n
      /\ Cardinality(Members(heap)) <= Cardinality(Candidates) /\ Cardinality(Candidates) \in Nat
  <2>1. Cardinality(Members(heap)) <= Cardinality(Candidates)
    BY <1>5, FS_Subset
  <2> QED BY <1>2, <2>1, MembersCount, CandidatesFinite DEF TypeOK
<1>7. Len(heap) = Wanted
  <2>1. CASE Members(heap) = Candidates
    BY <1>2, <1>6, <2>1 DEF Wanted
  <2>2. CASE Members(heap) # Candidates
    <3>1. Len(heap) = n
      BY <1>2, <1>4, <1>5, <2>2 DEF WalkInv
    <3> QED BY <1>2, <1>6, <3>1 DEF Wanted
  <2> QED BY <2>1, <2>2
<1>8. Wanted' = Wanted /\ Candidates' = Candidates
  BY <1>1 DEF Wanted, Candidates
<1>9. Filled' = {} /\ Taken' = {}
  BY <1>1, <1>6, <1>7, <1>8 DEF Filled, Taken
<1>10. \A s \in 1 .. n : picked'[s] = None
  BY <1>1
<1>11. \A a \in Members(heap), e \in Candidates \ Members(heap) : dists[a] <= dists[e]
  BY <1>2, <1>4 DEF WalkInv
<1>12. EmptyInv'
  <2>1. Ordered(heap, dists)
    BY <1>1, <1>2 DEF WalkInv
  <2> QED BY <1>1, <1>5, <1>6, <1>7, <1>8, <1>9, <1>10, <1>11, <2>1 DEF EmptyInv
<1> QED BY <1>1, <1>2, <1>3, <1>12 DEF IInv, HeapInv

\* The root leaves for the last free place.
LEMMA ExtractKeeps ==
  ASSUME IInv, Extract
  PROVE  IInv'
<1> DEFINE size == Len(heap)  root == heap[1]
<1>1. /\ pc = "extract" /\ heap # <<>> /\ i' = 1 /\ pc' = "settle"
      /\ picked' = [picked EXCEPT ![size] = root]
      /\ heap' = SubSeq([heap EXCEPT ![1] = heap[size]], 1, size - 1)
      /\ UNCHANGED <<alg, n, dists, scanned, c, worst>>
  BY DEF Extract, input
<1>2. TypeOK /\ alg = "heap"
  BY <1>1 DEF IInv, ListInv, TypeOK
<1>3. EmptyInv /\ Distinct(heap) /\ heap \in Seq(Clusters) /\ dists \in [Clusters -> Nat] /\ n \in Nat
  BY <1>1, <1>2, Here DEF IInv, HeapInv
<1>4. size \in Nat /\ size >= 1 /\ 1 \in 1 .. size /\ size \in 1 .. size
  BY <1>1, <1>3
<1> DEFINE new == heap'
<1>5. /\ new \in Seq(Clusters) /\ Len(new) = size - 1
      /\ \A j \in 1 .. size - 1 : new[j] = IF j = 1 THEN heap[size] ELSE heap[j]
  <2> DEFINE g == [heap EXCEPT ![1] = heap[size]]
  <2>1. /\ g \in Seq(Clusters) /\ Len(g) = size /\ g[1] = heap[size]
        /\ \A j \in 1 .. size : j # 1 => g[j] = heap[j]
    BY <1>3, <1>4
  <2>2. new = SubSeq(g, 1, size - 1)
    BY <1>1
  <2> HIDE DEF g, new
  <2>3. new \in Seq(Clusters) /\ Len(new) = size - 1
    BY <1>4, <2>1, <2>2
  <2>4. \A j \in 1 .. size - 1 : new[j] = g[j] /\ j \in 1 .. size
    BY <1>4, <2>1, <2>2
  <2> QED BY <1>4, <2>1, <2>3, <2>4
<1> HIDE DEF new
<1>6. \A j, k \in 1 .. size : heap[j] = heap[k] => j = k
  BY <1>3 DEF Distinct
<1>7. Distinct(new)
  BY <1>4, <1>5, <1>6 DEF Distinct
<1>8. Members(new) = Members(heap) \ {root}
  <2>1. \A j \in 1 .. size - 1 : new[j] \in Members(heap) /\ new[j] # root
    BY <1>4, <1>5, <1>6 DEF Members
  <2>2. ASSUME NEW j \in 1 .. size, heap[j] # root
        PROVE  \E k \in 1 .. size - 1 : new[k] = heap[j]
    <3>1. j # 1
      BY <2>2
    <3>2. CASE j = size
      <4>1. 1 \in 1 .. size - 1
        BY <1>4, <3>1, <3>2
      <4> QED BY <1>5, <3>2, <4>1
    <3>3. CASE j # size
      <4>1. j \in 1 .. size - 1
        BY <1>4, <3>3
      <4> QED BY <1>5, <3>1, <4>1
    <3> QED BY <3>2, <3>3
  <2>3. Members(new) = {new[j] : j \in 1 .. size - 1}
    BY <1>5 DEF Members
  <2>4. Members(heap) = {heap[j] : j \in 1 .. size}
    BY DEF Members
  <2> QED BY <2>1, <2>2, <2>3, <2>4
<1>9. root \in Members(heap) /\ root \in Clusters /\ root # None
  BY <1>2, <1>3, <1>4, Here DEF Members
<1>10. \A a \in Members(heap) : dists[a] <= dists[root]
  BY <1>1, <1>3, RootFarthest DEF EmptyInv
<1>11. size <= Wanted /\ Wanted \in Nat /\ Wanted <= n /\ size \in 1 .. n
  <2>1. Wanted \in Nat /\ Wanted <= n
    BY <1>3, CandidatesFinite DEF Wanted
  <2> QED BY <1>3, <1>4, <2>1 DEF EmptyInv
<1>12. Wanted' = Wanted /\ Candidates' = Candidates
  BY <1>1 DEF Wanted, Candidates
<1>13. Filled' = Filled \cup {size} /\ size \notin Filled /\ Filled \subseteq 1 .. n
  <2>1. Filled = size + 1 .. Wanted
    BY DEF Filled
  <2>2. Filled' = (size - 1) + 1 .. Wanted
    BY <1>5, <1>12 DEF Filled, new
  <2> HIDE DEF size
  <2> QED BY <1>3, <1>4, <1>11, <2>1, <2>2
<1>14. /\ picked' \in [1 .. n -> Clusters \cup {None}] /\ picked'[size] = root
       /\ \A s \in 1 .. n : s # size => picked'[s] = picked[s]
  BY <1>1, <1>2, <1>9, <1>11, Here
<1>15. Taken' = Taken \cup {root}
  BY <1>11, <1>13, <1>14 DEF Taken
<1>16. TypeOK'
  <2>1. \A j \in 1 .. Len(new) : new[j] \in Clusters
    BY <1>5
  <2>2. Len(new) <= n /\ 1 \in 1 .. n
    BY <1>3, <1>4, <1>5, <1>11
  <2> QED BY <1>1, <1>2, <1>14, <2>1, <2>2 DEF TypeOK, new
<1>17. Down(new, dists, 1)
  <2> SUFFICES ASSUME NEW j \in 2 .. size - 1, Parent(j) # 1
               PROVE  dists[new[j]] <= dists[new[Parent(j)]]
    BY <1>5 DEF Down
  <2>1. Parent(j) \in 1 .. size - 1 /\ j \in 1 .. size - 1 /\ j # 1 /\ j \in 2 .. size
    BY <1>4, ParentIs
  <2>2. dists[heap[j]] <= dists[heap[Parent(j)]]
    BY <1>1, <1>3, <2>1 DEF EmptyInv, Ordered
  <2> QED BY <1>5, <2>1, <2>2
<1>18. Members(new) \cup Taken' = Members(heap) \cup Taken
  BY <1>8, <1>9, <1>15
<1>19. \A s \in 1 .. n : picked'[s] # None <=> s \in Filled'
  BY <1>3, <1>9, <1>13, <1>14 DEF EmptyInv
<1>20. Members(new) \subseteq Candidates /\ Taken' \subseteq Candidates /\ Members(new) \cap Taken' = {}
  BY <1>3, <1>8, <1>9, <1>15 DEF EmptyInv
<1>21. ASSUME NEW s \in Filled', NEW t \in Filled', s < t
       PROVE  picked'[s] # picked'[t] /\ dists[picked'[s]] <= dists[picked'[t]]
  <2>1. t \in Filled /\ picked'[t] = picked[t] /\ picked[t] \in Taken
    BY <1>4, <1>11, <1>13, <1>14, <1>21 DEF Filled, Taken
  <2>2. CASE s = size
    BY <1>3, <1>9, <1>14, <2>1, <2>2 DEF EmptyInv
  <2>3. CASE s # size
    BY <1>3, <1>13, <1>14, <1>21, <2>1, <2>3 DEF EmptyInv
  <2> QED BY <2>2, <2>3
<1>22. \A a \in Members(new), b \in Taken' : dists[a] <= dists[b]
  BY <1>3, <1>8, <1>10, <1>15 DEF EmptyInv
<1>23. \A a \in Members(heap) \cup Taken, e \in Candidates \ (Members(heap) \cup Taken) :
         dists[a] <= dists[e]
  BY <1>3 DEF EmptyInv
<1>24. size - 1 <= Wanted
  BY <1>4, <1>11
<1>25. size - 1 >= 1 => 1 \in 1 .. size - 1
  BY <1>4
<1>26. new # <<>> => 1 \in 1 .. Len(new)
  BY <1>5
<1>27. EmptyInv'
  BY <1>1, <1>5, <1>12, <1>17, <1>18, <1>19, <1>20, <1>21, <1>22, <1>23, <1>24, <1>26 DEF EmptyInv, new
<1> QED BY <1>1, <1>2, <1>5, <1>7, <1>16, <1>27 DEF IInv, HeapInv, new

\* One turn of the loop that puts the rest in order.
LEMMA SiftRestKeeps ==
  ASSUME IInv, SiftRest
  PROVE  IInv'
<1>1. pc = "settle" /\ UNCHANGED <<alg, n, dists, scanned, c, picked, worst>>
  BY DEF SiftRest, input
<1>2. TypeOK /\ alg = "heap"
  BY <1>1 DEF IInv, ListInv, TypeOK
<1>3. /\ EmptyInv /\ Distinct(heap) /\ heap \in Seq(Clusters) /\ dists \in [Clusters -> Nat]
      /\ Down(heap, dists, i) /\ (heap # <<>> => i \in 1 .. Len(heap))
  BY <1>1, <1>2, Here DEF IInv, HeapInv, EmptyInv
<1>4. Wanted' = Wanted /\ Candidates' = Candidates
  BY <1>1 DEF Wanted, Candidates
<1> DEFINE l == Largest(heap, i)
<1>5. CASE heap # <<>> /\ l # i
  <2>1. heap' = Swapped(heap, i, l) /\ i' = l /\ pc' = "settle"
    BY <1>1, <1>5 DEF SiftRest
  <2>2. /\ l \in 2 .. Len(heap) /\ Parent(l) = i /\ dists[heap[l]] > dists[heap[i]]
        /\ \A k \in 2 .. Len(heap) : Parent(k) = i => dists[heap[k]] <= dists[heap[l]]
    BY <1>3, <1>5, LargestIs
  <2> HIDE DEF l
  <2>3. l \in 1 .. Len(heap) /\ i \in 1 .. Len(heap)
    BY <1>3, <1>5, <2>2
  <2>4. /\ TypeOK' /\ heap' \in Seq(Clusters) /\ Distinct(heap') /\ Len(heap') = Len(heap)
        /\ Members(heap') = Members(heap)
    BY <1>1, <1>2, <1>3, <1>5, <2>1, <2>3, SwapOn
  <2>5. Down(heap', dists, i')
    BY <1>3, <2>1, <2>2, DownStep
  <2>6. Filled' = Filled
    BY <1>4, <2>4 DEF Filled
  <2>7. Taken' = Taken
    BY <1>1, <2>6 DEF Taken
  <2>8. EmptyInv'
    BY <1>1, <1>3, <1>4, <2>1, <2>3, <2>4, <2>5, <2>6, <2>7 DEF EmptyInv
  <2> QED BY <1>1, <1>2, <2>1, <2>4, <2>8 DEF IInv, HeapInv
<1>6. CASE ~(heap # <<>> /\ l # i)
  <2>1. pc' = "extract" /\ UNCHANGED <<heap, i>>
    BY <1>6 DEF SiftRest
  <2>2. Ordered(heap, dists)
    <3>1. CASE heap = <<>>
      BY <3>1 DEF Ordered
    <3>2. CASE heap # <<>>
      <4>1. \A k \in 2 .. Len(heap) : Parent(k) = i => dists[heap[k]] <= dists[heap[i]]
        BY <1>3, <1>6, <3>2, LargestIs
      <4> QED BY <1>3, <4>1, DownStop
    <3> QED BY <3>1, <3>2
  <2>3. TypeOK'
    BY <1>1, <1>2, <2>1 DEF TypeOK
  <2>4. Filled' = Filled
    BY <1>4, <2>1 DEF Filled
  <2>5. Taken' = Taken
    BY <1>1, <2>4 DEF Taken
  <2>6. EmptyInv'
    BY <1>1, <1>3, <1>4, <2>1, <2>2, <2>4, <2>5 DEF EmptyInv
  <2> QED BY <1>1, <1>2, <1>3, <2>1, <2>3, <2>6 DEF IInv, HeapInv
<1> QED BY <1>5, <1>6

\* The heap is empty: every place wanted is filled.
LEMMA HeapDoneKeeps ==
  ASSUME IInv, HeapDone
  PROVE  IInv'
<1>1. /\ pc = "extract" /\ heap = <<>> /\ pc' = "done"
      /\ UNCHANGED <<alg, n, dists, scanned, c, picked, worst, heap, i>>
  BY DEF HeapDone, input
<1>2. TypeOK /\ alg = "heap"
  BY <1>1 DEF IInv, ListInv, TypeOK
<1>3. EmptyInv /\ HeapInv /\ heap \in Seq(Clusters)
  BY <1>1, <1>2 DEF IInv, HeapInv
<1>4. TypeOK'
  BY <1>1, <1>2 DEF TypeOK
<1>5. Wanted' = Wanted /\ Candidates' = Candidates
  BY <1>1 DEF Wanted, Candidates
<1>6. Filled' = Filled
  BY <1>1, <1>5 DEF Filled
<1>7. Taken' = Taken
  BY <1>1, <1>6 DEF Taken
<1>8. EmptyInv'
  BY <1>1, <1>3, <1>5, <1>6, <1>7 DEF EmptyInv
<1> QED BY <1>1, <1>2, <1>3, <1>4, <1>8 DEF IInv, HeapInv
-----------------------------------------------------------------------------
(* The picks                                                               *)

\* With no more places than clusters, the list has no free place at the end.
LEMMA ListFull ==
  ASSUME IInv, alg = "list", pc = "done"
  PROVE  picked[n] # None
<1>1. TypeOK /\ ListInv /\ Passed = Clusters /\ n \in Nat /\ n >= 1 /\ n <= K /\ K \in Nat
  BY Here DEF IInv, Passed
<1> SUFFICES ASSUME picked[n] = None PROVE FALSE
  OBVIOUS
<1>2. \A e \in Clusters : \E s \in 1 .. n - 1 : picked[s] = e
  <2> TAKE e \in Clusters
  <2>1. PICK s \in 1 .. n : picked[s] = e
    BY <1>1 DEF ListInv
  <2>2. s # n
    BY <1>1, <2>1, Here
  <2> QED BY <1>1, <2>1, <2>2
<1> DEFINE f == [e \in Clusters |-> CHOOSE s \in 1 .. n - 1 : picked[s] = e]
<1>3. f \in [Clusters -> 1 .. n - 1] /\ \A e \in Clusters : picked[f[e]] = e
  BY <1>2
<1> DEFINE places == 1 .. n - 1
<1>4. IsFiniteSet(places) /\ Cardinality(places) = n - 1
  <2>1. n - 1 \in Int /\ n - 1 >= 0
    BY <1>1
  <2> QED BY <2>1, FS_Interval
<1>5. Cardinality(places) < Cardinality(Clusters) /\ IsFiniteSet(Clusters) /\ f \in [Clusters -> places]
  BY <1>1, <1>3, <1>4, CandidatesFinite
<1> HIDE DEF f, places
<1>6. PICK x \in Clusters, y \in Clusters : x # y /\ f[x] = f[y]
  BY <1>4, <1>5, FS_PigeonHole
<1> QED BY <1>3, <1>6

\* The invariant at the end says the list has the nearest clusters ...
LEMMA ListNearest ==
  ASSUME IInv, alg = "list"
  PROVE  PicksNearest
<1> SUFFICES ASSUME pc = "done" PROVE PicksNearest
  BY DEF PicksNearest
<1>1. TypeOK /\ ListInv /\ Passed = Clusters /\ n \in Nat /\ n >= 1 /\ n <= K /\ n \in 1 .. n
      /\ dists \in [Clusters -> Nat]
  BY Here DEF IInv, Passed
<1>2. Candidates = Clusters /\ Wanted = n
  <2>1. Candidates = Clusters
    BY <1>1 DEF Candidates, ListInv
  <2> QED BY <1>1, <2>1, CandidatesFinite, Here DEF Wanted
<1>3. picked[n] # None
  BY ListFull
<1>4. \A s \in 1 .. n : picked[s] # None /\ picked[s] \in Clusters
  <2> TAKE s \in 1 .. n
  <2>1. picked[s] # None
    BY <1>1, <1>3 DEF ListInv
  <2> QED BY <1>1, <2>1 DEF ListInv
<1>5. \A s, t \in 1 .. n : s < t => Before(dists, picked[s], picked[t])
  BY <1>1, <1>4 DEF ListInv
<1>6. \A s, t \in 1 .. n : picked[s] = picked[t] => s = t
  <2> SUFFICES ASSUME NEW s \in 1 .. n, NEW t \in 1 .. n, s < t PROVE picked[s] # picked[t]
    BY <1>1
  <2> QED BY <1>1, <1>4, <1>5, Here DEF Before
<1> DEFINE in == {picked[s] : s \in 1 .. n}
<1>7. in \subseteq Candidates /\ Cardinality(in) = n
  <2>1. in \subseteq Candidates
    BY <1>2, <1>4
  <2>2. (\A s \in 1 .. n : picked[s] \in in) /\ \A a \in in : \E s \in 1 .. n : picked[s] = a
    OBVIOUS
  <2> HIDE DEF in
  <2> QED BY <1>1, <1>6, <2>1, <2>2, DistinctCount
<1>8. \A s \in 1 .. n - 1 :
        Before(dists, picked[s], picked[s + 1]) /\ picked[s] \in Clusters /\ picked[s + 1] \in Clusters
  <2> TAKE s \in 1 .. n - 1
  <2>1. s \in 1 .. n /\ s + 1 \in 1 .. n /\ s < s + 1
    BY <1>1
  <2> QED BY <1>4, <1>5, <2>1
<1>9. \A e \in Candidates \ in, s \in 1 .. n : Before(dists, picked[s], e) /\ e \in Clusters
  <2> TAKE e \in Candidates \ in, s \in 1 .. n
  <2>1. Before(dists, picked[n], e) /\ e \in Clusters
    BY <1>1, <1>2 DEF ListInv
  <2>2. CASE s = n
    BY <2>1, <2>2
  <2>3. CASE s < n
    <3>1. Before(dists, picked[s], picked[n])
      BY <1>1, <1>5, <2>3
    <3> QED BY <1>1, <1>4, <2>1, <3>1, BeforeTransitive
  <2> QED BY <1>1, <2>2, <2>3
<1>10. \A x, y \in Clusters : Before(dists, x, y) => dists[x] <= dists[y] /\ (dists[x] = dists[y] => x < y)
  BY <1>1 DEF Before
<1>11. \A s \in 1 .. n - 1 :
         /\ dists[picked[s]] <= dists[picked[s + 1]]
         /\ dists[picked[s]] = dists[picked[s + 1]] => picked[s] < picked[s + 1]
  BY <1>8, <1>10
<1>12. \A e \in Candidates \ in, s \in 1 .. n :
         dists[picked[s]] <= dists[e] /\ (dists[picked[s]] = dists[e] => picked[s] < e)
  <2> HIDE DEF in
  <2> QED BY <1>4, <1>9, <1>10
<1>13. n + 1 .. n = {}
  BY <1>1
<1> HIDE DEF in
<1>14. Wanted = IF n < Cardinality(Candidates) THEN n ELSE Cardinality(Candidates)
  BY DEF Wanted
<1> QED BY <1>2, <1>7, <1>11, <1>12, <1>13, <1>14 DEF PicksNearest, in

\* ... and so has the heap once it is empty.
LEMMA HeapNearest ==
  ASSUME IInv, alg = "heap"
  PROVE  PicksNearest
<1> SUFFICES ASSUME pc = "done" PROVE PicksNearest
  BY DEF PicksNearest
<1>1. EmptyInv /\ heap = <<>> /\ n \in Nat /\ TypeOK
  BY Here DEF IInv, HeapInv, EmptyInv
<1>2. Wanted \in Nat /\ Wanted <= n
  BY <1>1, CandidatesFinite DEF Wanted
<1>3. Filled = 1 .. Wanted /\ Members(heap) = {}
  BY <1>1 DEF Filled, Members
<1>4. \A s, t \in 1 .. Wanted : s < t => picked[s] # picked[t] /\ dists[picked[s]] <= dists[picked[t]]
  BY <1>1, <1>3 DEF EmptyInv
<1>5. \A s, t \in 1 .. Wanted : picked[s] = picked[t] => s = t
  <2> SUFFICES ASSUME NEW s \in 1 .. Wanted, NEW t \in 1 .. Wanted, s < t PROVE picked[s] # picked[t]
    BY <1>2
  <2> QED BY <1>4
<1> DEFINE in == {picked[s] : s \in 1 .. Wanted}
<1>6. in \subseteq Candidates /\ Cardinality(in) = Wanted
  <2>1. in \subseteq Candidates
    BY <1>1, <1>3 DEF EmptyInv, Taken
  <2>2. (\A s \in 1 .. Wanted : picked[s] \in in) /\ \A a \in in : \E s \in 1 .. Wanted : picked[s] = a
    OBVIOUS
  <2> HIDE DEF in
  <2> QED BY <1>2, <1>5, <2>1, <2>2, DistinctCount
<1>7. \A s \in Wanted + 1 .. n : picked[s] = None
  <2> TAKE s \in Wanted + 1 .. n
  <2>1. s \in 1 .. n /\ s \notin 1 .. Wanted
    BY <1>1, <1>2
  <2> QED BY <1>1, <1>3, <2>1 DEF EmptyInv
<1>8. \A s \in 1 .. Wanted - 1 : dists[picked[s]] <= dists[picked[s + 1]]
  <2> TAKE s \in 1 .. Wanted - 1
  <2>1. s \in 1 .. Wanted /\ s + 1 \in 1 .. Wanted /\ s < s + 1
    BY <1>2
  <2> QED BY <1>4, <2>1
<1>9. \A e \in Candidates \ in, s \in 1 .. Wanted : dists[picked[s]] <= dists[e]
  BY <1>1, <1>3 DEF EmptyInv, Taken
<1> QED BY <1>6, <1>7, <1>8, <1>9 DEF PicksNearest, Wanted

\* Every step keeps the invariant.
LEMMA NextIInv == IInv /\ [Next]_vars => IInv'
<1> SUFFICES ASSUME IInv, [Next]_vars PROVE IInv'
  OBVIOUS
<1>1. CASE UNCHANGED vars
  <2>1. UNCHANGED <<alg, n, dists, scanned, c, picked, worst, heap, i, pc>>
    BY <1>1 DEF vars
  <2>2. Passed' = Passed /\ Seen' = Seen /\ Candidates' = Candidates /\ Wanted' = Wanted
    BY <2>1 DEF Passed, Seen, Candidates, Wanted
  <2>3. Filled' = Filled
    BY <2>1, <2>2 DEF Filled
  <2>4. Taken' = Taken
    BY <2>1, <2>3 DEF Taken
  <2>5. TypeOK'
    BY <2>1 DEF IInv, TypeOK
  <2>6. ListInv => ListInv'
    BY <2>1, <2>2 DEF ListInv
  <2>7. WalkInv => WalkInv'
    BY <2>1, <2>2 DEF WalkInv
  <2>8. EmptyInv => EmptyInv'
    BY <2>1, <2>2, <2>3, <2>4 DEF EmptyInv
  <2> QED BY <2>1, <2>5, <2>6, <2>7, <2>8 DEF IInv, HeapInv
<1>2. CASE Next
  BY <1>2, ArgminKeeps, ListSkipKeeps, ListInsertKeeps, ListDoneKeeps, HeapSkipKeeps,
     HeapPushKeeps, HeapReplaceKeeps, SiftUpKeeps, SiftDownKeeps, HeapWalkedKeeps, ExtractKeeps,
     SiftRestKeeps, HeapDoneKeeps DEF Next
<1> QED BY <1>1, <1>2

\* The invariant holds in every state of both selections.
THEOREM Invariant == Spec => []IInv
BY InitIInv, NextIInv, PTL DEF Spec

\* The selections' variables keep their types: the heap is never longer than
\* the number asked for, nor a sift's position outside of it.
THEOREM TypeCorrect == Spec => []TypeOK
<1>1. IInv => TypeOK
  BY DEF IInv
<1> QED BY <1>1, Invariant, PTL

\* PickTopNCentroids and PickNextNUnscanned return the nearest clusters not yet
\* scanned, in ascending order and as many as there are or were asked for.
THEOREM PicksTheNearest == Spec => []PicksNearest
<1>1. IInv => PicksNearest
  BY ListNearest, HeapNearest DEF IInv, TypeOK
<1> QED BY <1>1, Invariant, PTL

=============================================================================
