---------------------------- MODULE SearchLemmas ----------------------------
(***************************************************************************)
(* What the proofs about both searches share: what inserting a candidate   *)
(* into the top five keeps and leaves out, and facts about the operators   *)
(* the indexes are built with: sums, distances and their bounds, orders,   *)
(* concatenations and blocks of lanes.  Induction is over sets, and a      *)
(* recursive definition is known by the equation its function satisfies.   *)
(***************************************************************************)
EXTENDS Top5, Vectors, FiniteSetTheorems, SequenceTheorems, WellFoundedInduction, TLAPS

-----------------------------------------------------------------------------
(* The top five.                                                           *)

Good(t) == \A s \in Slots : t[s].d \in 0 .. Infinity

\* The shifting loop of InsertI64 stops: there is a slot for every candidate
\* nearer than the fifth.
LEMMA PlaceFits ==
  ASSUME NEW t, NEW d \in Int, \A s \in Slots : t[s].d \in Int, Ascending(t), d < Worst(t)
  PROVE  /\ Place(t, d) \in Slots
         /\ \A s \in Place(t, d) .. 5 : t[s].d > d
         /\ Place(t, d) > 1 => t[Place(t, d) - 1].d <= d
<1> DEFINE P(p) == (\A s \in p .. 5 : t[s].d > d) /\ (p > 1 => t[p - 1].d <= d)
<1>1. /\ t[1].d \in Int /\ t[2].d \in Int /\ t[3].d \in Int /\ t[4].d \in Int /\ t[5].d \in Int
      /\ t[1].d <= t[2].d /\ t[2].d <= t[3].d /\ t[3].d <= t[4].d /\ t[4].d <= t[5].d
      /\ d < t[5].d
  BY DEF Slots, Ascending, Worst
<1>2. \E p \in Slots : P(p)
  <2>1. t[4].d <= d => P(5)
    BY <1>1
  <2>2. t[4].d > d /\ t[3].d <= d => P(4)
    BY <1>1
  <2>3. t[3].d > d /\ t[2].d <= d => P(3)
    BY <1>1
  <2>4. t[2].d > d /\ t[1].d <= d => P(2)
    BY <1>1
  <2>5. t[1].d > d => P(1)
    BY <1>1
  <2> HIDE DEF P
  <2> QED BY <1>1, <2>1, <2>2, <2>3, <2>4, <2>5 DEF Slots
<1>3. Place(t, d) = CHOOSE p \in Slots : P(p)
  BY DEF Place
<1> HIDE DEF P
<1>4. Place(t, d) \in Slots /\ P(Place(t, d))
  BY <1>2, <1>3
<1> QED BY <1>4 DEF P

\* new is t with the candidate c in its place or left out.
Inserted(new, t, c) ==
  /\ Good(new) /\ Ascending(new) /\ Worst(new) <= Worst(t)
  /\ \A s \in Slots : new[s] = c \/ \E r \in Slots : new[s] = t[r]
  /\ \A r \in Slots : (\E s \in Slots : new[s] = t[r]) \/ t[r].d >= Worst(new)
  /\ (\E s \in Slots : new[s] = c) \/ c.d >= Worst(new)
  /\ \/ new = t
     \/ \E p \in Slots : /\ \A s \in Slots : s < p => new[s] = t[s]
                         /\ new[p] = c
                         /\ \A s \in Slots : s > p => new[s] = t[s - 1]

\* InsertI64 keeps the five in order and never lets the fifth distance grow;
\* what it leaves out, the candidate or the old fifth, is as far as the fifth.
LEMMA InsertIs ==
  ASSUME NEW t, NEW d \in 0 .. Infinity, NEW l, NEW i, Infinity \in Nat, Good(t), Ascending(t),
         NEW new, new = Slot(d, l, i), NEW n, n = Insert(t, d, l, i)
  PROVE  Inserted(n, t, new)
<1> DEFINE p == Place(t, d)
<1>0. d \in Int /\ d >= 0 /\ d <= Infinity /\ \A s \in Slots : t[s].d \in Int /\ t[s].d >= 0 /\ t[s].d <= Infinity
  BY DEF Good
<1>1. CASE d >= Worst(t)
  <2>1. n = t
    BY <1>1 DEF Insert
  <2>2. Worst(t) \in Int
    BY <1>0 DEF Worst, Slots
  <2>3. new.d = d
    BY DEF Slot
  <2> QED BY <1>0, <1>1, <2>1, <2>2, <2>3 DEF Inserted
<1>2. CASE ~(d >= Worst(t))
  <2>1. Worst(t) \in Int /\ d < Worst(t)
    BY <1>0, <1>2 DEF Worst, Slots
  <2>2. /\ p \in Slots
        /\ \A s \in p .. 5 : t[s].d > d
        /\ p > 1 => t[p - 1].d <= d
    BY <1>0, <2>1, PlaceFits
  <2>3. n = [s \in Slots |-> IF s < p THEN t[s] ELSE IF s = p THEN new ELSE t[s - 1]]
    BY <1>2 DEF Insert, PutAt
  <2>4. new.d = d
    BY DEF Slot
  <2> HIDE DEF p
  <2>5. /\ \A s \in Slots : s < p => n[s] = t[s]
        /\ n[p] = new
        /\ \A s \in Slots : s > p => n[s] = t[s - 1]
    BY <2>2, <2>3 DEF Slots
  <2>6. \A s \in Slots : s > p => s - 1 \in Slots
    BY <2>2 DEF Slots
  <2>7. \A s \in Slots : n[s] = new \/ \E r \in Slots : n[s] = t[r]
    <3> TAKE s \in Slots
    <3>1. s < p \/ s = p \/ s > p
      BY <2>2 DEF Slots
    <3> QED BY <2>5, <2>6, <3>1
  <2>8. Good(n)
    BY <1>0, <2>4, <2>7 DEF Good
  <2>9. Ascending(n)
    <3> SUFFICES ASSUME NEW s \in 1 .. 4 PROVE n[s].d <= n[s + 1].d
      BY DEF Ascending
    <3>0. s \in Slots /\ s + 1 \in Slots /\ p \in 1 .. 5
      BY <2>2 DEF Slots
    <3>1. CASE s + 1 < p
      BY <2>5, <3>0, <3>1 DEF Ascending
    <3>2. CASE s + 1 = p
      <4>1. n[s] = t[p - 1] /\ n[s + 1] = new /\ p > 1
        BY <2>5, <3>0, <3>2
      <4> QED BY <2>2, <2>4, <4>1
    <3>3. CASE s = p
      <4>1. n[s] = new /\ n[s + 1] = t[p]
        BY <2>5, <3>0, <3>3
      <4>2. t[p].d > d
        BY <2>2, <3>0
      <4>3. t[p].d \in Int
        BY <1>0, <2>2
      <4> QED BY <1>0, <2>4, <4>1, <4>2, <4>3
    <3>4. CASE s > p
      <4>1. n[s] = t[s - 1] /\ n[s + 1] = t[s]
        BY <2>5, <3>0, <3>4
      <4>2. s - 1 \in 1 .. 4 /\ (s - 1) + 1 = s
        BY <3>0, <3>4
      <4> QED BY <4>1, <4>2 DEF Ascending
    <3> QED BY <3>0, <3>1, <3>2, <3>3, <3>4
  <2>10. Worst(n) <= Worst(t) /\ (p < 5 => n[5] = t[4]) /\ (p = 5 => n[5] = new)
    <3>1. CASE p = 5
      BY <2>1, <2>4, <2>5, <3>1 DEF Worst
    <3>2. CASE p < 5
      <4>1. n[5] = t[4]
        BY <2>2, <2>5, <3>2 DEF Slots
      <4> QED BY <4>1, <3>2 DEF Worst, Ascending
    <3> QED BY <2>2, <3>1, <3>2 DEF Slots
  <2>11. \A r \in Slots : (\E s \in Slots : n[s] = t[r]) \/ t[r].d >= Worst(n)
    <3> TAKE r \in Slots
    <3>1. CASE r < p
      BY <2>5, <3>1
    <3>2. CASE r >= p /\ r < 5
      <4>1. r + 1 \in Slots /\ r + 1 > p /\ (r + 1) - 1 = r
        BY <2>2, <3>2 DEF Slots
      <4> QED BY <2>5, <4>1
    <3>3. CASE r = 5
      <4>1. t[r].d = Worst(t) /\ Worst(n) \in Int
        BY <2>8, <3>3 DEF Worst, Good, Slots
      <4> QED BY <2>1, <2>10, <4>1
    <3> QED BY <2>2, <3>1, <3>2, <3>3 DEF Slots
  <2>12. \E s \in Slots : n[s] = new
    BY <2>2, <2>5
  <2> QED BY <2>2, <2>4, <2>5, <2>7, <2>8, <2>9, <2>10, <2>11, <2>12 DEF Inserted
<1> QED BY <1>1, <1>2

LEMMA InsertKeeps ==
  ASSUME NEW t, NEW d \in 0 .. Infinity, NEW l, NEW i, Infinity \in Nat, Good(t), Ascending(t),
         NEW n, n = Insert(t, d, l, i)
  PROVE  /\ Good(n) /\ Ascending(n) /\ Worst(n) <= Worst(t)
         /\ \A s \in Slots : n[s] = Slot(d, l, i) \/ \E r \in Slots : n[s] = t[r]
         /\ \A r \in Slots : (\E s \in Slots : n[s] = t[r]) \/ t[r].d >= Worst(n)
         /\ (\E s \in Slots : n[s] = Slot(d, l, i)) \/ d >= Worst(n)
<1>1. PICK c : c = Slot(d, l, i)
  OBVIOUS
<1>2. c.d = d
  BY <1>1 DEF Slot
<1>3. Inserted(n, t, c)
  BY <1>1, InsertIs
<1> QED BY <1>1, <1>2, <1>3 DEF Inserted

-----------------------------------------------------------------------------
(* Induction.  The library's induction theorems take an operator; these    *)
(* take the set of what is to be shown.                                    *)

\* A set of numbers with an element has a smallest one.
LEMMA Smallest ==
  ASSUME NEW T, T \subseteq Nat, T # {}
  PROVE  \E m \in T : \A k \in T : m <= k
<1> DEFINE R == OpToRel(<, Nat)
<1>1. \A k, m \in Nat : k < m => <<k, m>> \in R
  BY DEF OpToRel
<1>2. IsWellFoundedOn(R, Nat)
  BY NatLessThanWellFounded
<1> HIDE DEF R
<1>3. PICK m \in T : \A k \in T : ~(<<k, m>> \in R)
  BY <1>2, WFMin
<1>4. ASSUME NEW k \in T PROVE m <= k
  <2>1. k \in Nat /\ m \in Nat
    OBVIOUS
  <2>2. ~(k < m)
    BY <1>1, <1>3, <2>1
  <2> QED BY <2>1, <2>2
<1> QED BY <1>4

\* A set with 0 and the successors of its numbers has all numbers.
LEMMA Induction ==
  ASSUME NEW T, 0 \in T, \A j \in Nat : j \in T => j + 1 \in T
  PROVE  \A j \in Nat : j \in T
<1> DEFINE U == Nat \ T
<1>1. U = {}
  <2> SUFFICES ASSUME U # {} PROVE FALSE
    OBVIOUS
  <2>0. U \subseteq Nat
    OBVIOUS
  <2> HIDE DEF U
  <2>1. PICK m \in U : \A k \in U : m <= k
    BY <2>0, Smallest
  <2> USE DEF U
  <2>2. m \in Nat /\ m # 0 /\ m - 1 \in Nat /\ (m - 1) + 1 = m
    OBVIOUS
  <2>3. m - 1 \in T
    BY <2>1, <2>2
  <2> QED BY <2>2, <2>3
<1> QED BY <1>1

\* A function of the naturals by a first value and a step.
Climb(f, base, step, n) == f[0] = base /\ \A k \in Nat : k < n => f[k + 1] = step[f[k]]

LEMMA ClimbsAgree ==
  ASSUME NEW base, NEW step, NEW n \in Nat, NEW f, NEW g, Climb(f, base, step, n), Climb(g, base, step, n)
  PROVE  \A k \in Nat : k <= n => f[k] = g[k]
<1> DEFINE T == {k \in Nat : k <= n => f[k] = g[k]}
<1>1. 0 \in T
  BY DEF Climb
<1>2. ASSUME NEW k \in Nat, k \in T PROVE k + 1 \in T
  BY <1>2 DEF Climb
<1> HIDE DEF T
<1>3. \A k \in Nat : k \in T
  BY <1>1, <1>2, Induction
<1> QED BY <1>3 DEF T

Stepping(V, base, step) == base \in V /\ step \in [V -> V]

LEMMA Recursion ==
  ASSUME NEW V, NEW base, NEW step, Stepping(V, base, step)
  PROVE  \E f \in [Nat -> V] : f[0] = base /\ \A n \in Nat : f[n + 1] = step[f[n]]
<1>0. base \in V /\ step \in [V -> V]
  BY DEF Stepping
<1> DEFINE T == {n \in Nat : \E f \in [Nat -> V] : Climb(f, base, step, n)}
<1>1. 0 \in T
  <2>1. PICK f : f = [k \in Nat |-> base]
    OBVIOUS
  <2>2. f \in [Nat -> V] /\ Climb(f, base, step, 0)
    BY <1>0, <2>1 DEF Climb
  <2> QED BY <2>2
<1>2. ASSUME NEW n \in Nat, n \in T PROVE n + 1 \in T
  <2>1. PICK f \in [Nat -> V] : Climb(f, base, step, n)
    BY <1>2
  <2>2. PICK g : g = [k \in Nat |-> IF k = n + 1 THEN step[f[n]] ELSE f[k]]
    OBVIOUS
  <2>3. g \in [Nat -> V]
    BY <1>0, <2>2
  <2>4. g[0] = base /\ \A k \in Nat : k < n + 1 => g[k + 1] = step[g[k]]
    BY <2>1, <2>2 DEF Climb
  <2>5. Climb(g, base, step, n + 1)
    BY <2>4 DEF Climb
  <2> QED BY <2>3, <2>5
<1> HIDE DEF T
<1>3. \A n \in Nat : n \in T
  BY <1>1, <1>2, Induction
<1> DEFINE G == [n \in Nat |-> CHOOSE f \in [Nat -> V] : Climb(f, base, step, n)]
<1>4. \A n \in Nat : G[n] \in [Nat -> V] /\ Climb(G[n], base, step, n)
  <2> TAKE n \in Nat
  <2>1. \E f \in [Nat -> V] : Climb(f, base, step, n)
    BY <1>3 DEF T
  <2>2. G[n] = CHOOSE f \in [Nat -> V] : Climb(f, base, step, n)
    OBVIOUS
  <2> HIDE DEF G
  <2> QED BY <2>1, <2>2
<1> HIDE DEF G
<1>5. PICK f : f = [n \in Nat |-> G[n][n]]
  OBVIOUS
<1>6. f \in [Nat -> V]
  BY <1>4, <1>5
<1>7. f[0] = base
  BY <1>4, <1>5 DEF Climb
<1>8. ASSUME NEW n \in Nat PROVE f[n + 1] = step[f[n]]
  <2>1. PICK g, h : g = G[n + 1] /\ h = G[n]
    OBVIOUS
  <2>2. Climb(g, base, step, n + 1) /\ Climb(h, base, step, n) /\ n + 1 \in Nat
    BY <1>4, <2>1
  <2>3. g[n + 1] = step[g[n]] /\ Climb(g, base, step, n)
    BY <2>2 DEF Climb
  <2>4. g[n] = h[n]
    BY <2>2, <2>3, ClimbsAgree
  <2> QED BY <1>5, <2>1, <2>2, <2>3, <2>4
<1> QED BY <1>6, <1>7, <1>8

Some(s) == CHOOSE x \in s : TRUE

\* A set of subsets of a finite set S, with the empty one and every one that
\* has itself less its first element, has S.
LEMMA SetInduction ==
  ASSUME NEW S, IsFiniteSet(S), NEW P, {} \in P,
         \A s \in SUBSET S : s # {} /\ s \ {Some(s)} \in P => s \in P
  PROVE  \A s \in SUBSET S : s \in P
<1> DEFINE T == {n \in Nat : \A s \in SUBSET S : Cardinality(s) = n => s \in P}
<1>1. \A s \in SUBSET S : IsFiniteSet(s) /\ Cardinality(s) \in Nat
  BY FS_Subset, FS_CardinalityType
<1>2. 0 \in T
  BY <1>1, FS_EmptySet
<1>3. ASSUME NEW n \in Nat, n \in T PROVE n + 1 \in T
  <2> SUFFICES ASSUME NEW s \in SUBSET S, Cardinality(s) = n + 1 PROVE s \in P
    OBVIOUS
  <2>1. s # {}
    BY <1>1, FS_EmptySet
  <2>2. Some(s) \in s
    BY <2>1 DEF Some
  <2>3. Cardinality(s \ {Some(s)}) = n
    BY <1>1, <2>2, FS_RemoveElement
  <2>4. s \ {Some(s)} \in P
    BY <1>3, <2>3
  <2> QED BY <2>1, <2>4
<1> HIDE DEF T
<1>4. \A n \in Nat : n \in T
  BY <1>2, <1>3, Induction
<1> QED BY <1>1, <1>4 DEF T

-----------------------------------------------------------------------------
(* Folds over a finite set: step F, with the elements taken by pick.       *)

FoldOf(g, F, base, pick, S) ==
  \A s \in SUBSET S : g[s] = IF s = {} THEN base ELSE F[pick[s]][g[s \ {pick[s]}]]

FoldStep(F, base, pick, S, V) ==
  /\ IsFiniteSet(S) /\ \A s \in SUBSET S : s # {} => pick[s] \in s
  /\ base \in V /\ F \in [S -> [V -> V]]

LEMMA FoldsExist ==
  ASSUME NEW S, NEW V, NEW F, NEW base, NEW pick, FoldStep(F, base, pick, S, V)
  PROVE  \E g \in [SUBSET S -> V] : FoldOf(g, F, base, pick, S)
<1> DEFINE rest(g, s) == IF s = {} THEN base ELSE F[pick[s]][g[s \ {pick[s]}]]
           T == {n \in Nat : \E g \in [SUBSET S -> V] :
                   \A s \in SUBSET S : Cardinality(s) <= n => g[s] = rest(g, s)}
<1>0. /\ IsFiniteSet(S) /\ \A s \in SUBSET S : s # {} => pick[s] \in s
      /\ base \in V /\ F \in [S -> [V -> V]]
  BY DEF FoldStep
<1>1. \A s \in SUBSET S : IsFiniteSet(s) /\ Cardinality(s) \in Nat /\ Cardinality(s) <= Cardinality(S)
  BY <1>0, FS_Subset, FS_CardinalityType
<1>2. ASSUME NEW s \in SUBSET S, s # {}
      PROVE  /\ pick[s] \in s /\ pick[s] \in S /\ s \ {pick[s]} \in SUBSET S
             /\ Cardinality(s \ {pick[s]}) = Cardinality(s) - 1
  BY <1>0, <1>1, <1>2, FS_RemoveElement
<1>3. 0 \in T
  <2> DEFINE z == [s \in SUBSET S |-> base]
  <2>1. \A s \in SUBSET S : Cardinality(s) <= 0 => s = {}
    BY <1>1, FS_EmptySet
  <2>2. \A s \in SUBSET S : Cardinality(s) <= 0 => z[s] = rest(z, s)
    BY <2>1
  <2>3. z \in [SUBSET S -> V]
    BY <1>0
  <2> HIDE DEF z, rest
  <2> QED BY <2>2, <2>3
<1>4. ASSUME NEW n \in Nat, n \in T PROVE n + 1 \in T
  <2>1. PICK g \in [SUBSET S -> V] : \A s \in SUBSET S : Cardinality(s) <= n => g[s] = rest(g, s)
    BY <1>4
  <2> DEFINE h == [s \in SUBSET S |-> rest(g, s)]
  <2>2. h \in [SUBSET S -> V]
    <3> SUFFICES ASSUME NEW s \in SUBSET S PROVE rest(g, s) \in V
      OBVIOUS
    <3>1. CASE s = {}
      BY <1>0, <3>1
    <3>2. CASE s # {}
      <4>1. pick[s] \in S /\ g[s \ {pick[s]}] \in V
        BY <1>2, <3>2
      <4>2. F[pick[s]][g[s \ {pick[s]}]] \in V
        BY <1>0, <4>1
      <4> QED BY <3>2, <4>2
    <3> QED BY <3>1, <3>2
  <2>3. ASSUME NEW s \in SUBSET S, Cardinality(s) <= n + 1 PROVE h[s] = rest(h, s)
    <3>1. CASE s = {}
      BY <3>1
    <3>2. CASE s # {}
      <4> DEFINE t == s \ {pick[s]}
      <4>1. t \in SUBSET S /\ Cardinality(t) <= n
        BY <1>1, <1>2, <2>3, <3>2
      <4>2. g[t] = h[t]
        BY <2>1, <4>1
      <4>3. h[s] = F[pick[s]][g[t]]
        BY <3>2
      <4> QED BY <3>2, <4>2, <4>3
    <3> QED BY <3>1, <3>2
  <2> HIDE DEF h, rest
  <2> QED BY <2>2, <2>3
<1>5. \A n \in Nat : n \in T
  <2> HIDE DEF T
  <2> QED BY <1>3, <1>4, Induction
<1>6. Cardinality(S) \in T /\ Cardinality(S) \in Nat
  BY <1>1, <1>5
<1>7. PICK g \in [SUBSET S -> V] : \A s \in SUBSET S : Cardinality(s) <= Cardinality(S) => g[s] = rest(g, s)
  BY <1>6
<1> QED BY <1>1, <1>7 DEF FoldOf
-----------------------------------------------------------------------------
(* Sums over a finite set.                                                 *)

Sum(f, S) == MapThenSumSet(LAMBDA x : f[x], S)

\* The recursive function MapThenSumSet is made of.
Sums(g, f, S) ==
  g = [s \in SUBSET S |-> IF s = {} THEN 0 ELSE f[Some(s)] + g[s \ {Some(s)}]]

LEMMA SumIs ==
  ASSUME NEW f, NEW S
  PROVE Sum(f, S) = (CHOOSE g : Sums(g, f, S))[S]
BY DEF Sum, MapThenSumSet, MapThenFoldSet, Sums, Some

\* It exists ...
LEMMA SumsExist ==
  ASSUME NEW S, IsFiniteSet(S), NEW f, \A x \in S : f[x] \in Int
  PROVE  \E g \in [SUBSET S -> Int] : Sums(g, f, S)
<1> DEFINE F == [x \in S |-> [v \in Int |-> f[x] + v]]
           pick == [s \in SUBSET S |-> Some(s)]
<1>1. \A s \in SUBSET S : s # {} => pick[s] \in s
  BY DEF Some
<1>2. F \in [S -> [Int -> Int]]
  OBVIOUS
<1>3. \A x \in S, v \in Int : F[x][v] = f[x] + v
  OBVIOUS
<1>4. \A s \in SUBSET S : pick[s] = Some(s)
  OBVIOUS
<1> HIDE DEF F, pick
<1>5. FoldStep(F, 0, pick, S, Int)
  BY <1>1, <1>2 DEF FoldStep
<1>6. PICK g \in [SUBSET S -> Int] : FoldOf(g, F, 0, pick, S)
  BY <1>5, FoldsExist
<1>7. \A s \in SUBSET S : g[s] = IF s = {} THEN 0 ELSE f[Some(s)] + g[s \ {Some(s)}]
  <2> TAKE s \in SUBSET S
  <2>1. g[s] = IF s = {} THEN 0 ELSE F[pick[s]][g[s \ {pick[s]}]]
    BY <1>6 DEF FoldOf
  <2>2. s # {} => Some(s) \in S /\ g[s \ {Some(s)}] \in Int
    BY <1>1, <1>4
  <2>3. s # {} => F[Some(s)][g[s \ {Some(s)}]] = f[Some(s)] + g[s \ {Some(s)}]
    BY <1>3, <2>2
  <2> QED BY <1>4, <2>1, <2>3
<1> QED BY <1>7 DEF Sums

\* ... and there is one only, on every part of S.
LEMMA SumsAgree ==
  ASSUME NEW S, IsFiniteSet(S), NEW T \in SUBSET S, NEW f, NEW g, NEW h,
         Sums(g, f, S), Sums(h, f, T)
  PROVE  \A s \in SUBSET T : g[s] = h[s]
<1> DEFINE P == {s \in SUBSET T : g[s] = h[s]}
<1>1. /\ \A s \in SUBSET S : g[s] = IF s = {} THEN 0 ELSE f[Some(s)] + g[s \ {Some(s)}]
      /\ \A s \in SUBSET T : h[s] = IF s = {} THEN 0 ELSE f[Some(s)] + h[s \ {Some(s)}]
  BY DEF Sums
<1>2. {} \in P
  BY <1>1
<1>3. ASSUME NEW s \in SUBSET T, s # {}, s \ {Some(s)} \in P PROVE s \in P
  BY <1>1, <1>3
<1>4. IsFiniteSet(T)
  BY FS_Subset
<1> HIDE DEF P
<1>5. \A s \in SUBSET T : s \in P
  BY <1>2, <1>3, <1>4, SetInduction
<1> QED BY <1>5 DEF P

\* A sum is its first term and the sum of the others.
LEMMA SumStep ==
  ASSUME NEW S, IsFiniteSet(S), NEW f, \A x \in S : f[x] \in Int
  PROVE  /\ Sum(f, S) \in Int
         /\ S = {} => Sum(f, S) = 0
         /\ S # {} => Some(S) \in S /\ Sum(f, S) = f[Some(S)] + Sum(f, S \ {Some(S)})
<1> DEFINE G(s) == CHOOSE g : Sums(g, f, s)
<1>1. ASSUME NEW s \in SUBSET S PROVE Sums(G(s), f, s) /\ Sum(f, s) = G(s)[s] /\ G(s)[s] = G(S)[s]
  <2>1. \A t \in SUBSET S : Sums(G(t), f, t)
    <3> TAKE t \in SUBSET S
    <3>1. IsFiniteSet(t) /\ \A x \in t : f[x] \in Int
      BY FS_Subset
    <3>2. \E g : Sums(g, f, t)
      BY <3>1, SumsExist
    <3> QED BY <3>2
  <2>2. Sum(f, s) = G(s)[s]
    BY SumIs
  <2> HIDE DEF G
  <2>3. G(S)[s] = G(s)[s]
    BY <2>1, SumsAgree
  <2> QED BY <2>1, <2>2, <2>3
<1> HIDE DEF G
<1>2. \A s \in SUBSET S : G(S)[s] = IF s = {} THEN 0 ELSE f[Some(s)] + G(S)[s \ {Some(s)}]
  <2>1. Sums(G(S), f, S)
    BY <1>1
  <2>2. ASSUME NEW g, Sums(g, f, S)
        PROVE  \A s \in SUBSET S : g[s] = IF s = {} THEN 0 ELSE f[Some(s)] + g[s \ {Some(s)}]
    BY <2>2 DEF Sums
  <2> QED BY <2>1, <2>2
<1>3. Sum(f, S) \in Int
  <2>1. PICK g \in [SUBSET S -> Int] : Sums(g, f, S)
    BY SumsExist
  <2>2. G(S)[S] = g[S]
    BY <1>1, <2>1, SumsAgree
  <2> QED BY <1>1, <2>1, <2>2
<1>4. ASSUME S # {} PROVE Some(S) \in S /\ Sum(f, S) = f[Some(S)] + Sum(f, S \ {Some(S)})
  <2>1. Some(S) \in S
    BY <1>4 DEF Some
  <2>2. Sum(f, S \ {Some(S)}) = G(S)[S \ {Some(S)}]
    BY <1>1
  <2> QED BY <1>1, <1>2, <1>4, <2>1, <2>2
<1> QED BY <1>1, <1>2, <1>3, <1>4

\* Sums that agree term by term are equal.
LEMMA SumSame ==
  ASSUME NEW S, IsFiniteSet(S), NEW f, NEW g, \A x \in S : f[x] \in Int /\ g[x] = f[x]
  PROVE  Sum(g, S) = Sum(f, S)
<1> DEFINE P == {s \in SUBSET S : Sum(g, s) = Sum(f, s)}
<1>1. ASSUME NEW s \in SUBSET S
      PROVE  /\ s = {} => Sum(f, s) = 0 /\ Sum(g, s) = 0
             /\ s # {} => /\ Sum(f, s) = f[Some(s)] + Sum(f, s \ {Some(s)})
                         /\ Sum(g, s) = f[Some(s)] + Sum(g, s \ {Some(s)})
  <2>1. IsFiniteSet(s) /\ \A x \in s : f[x] \in Int /\ g[x] \in Int /\ g[x] = f[x]
    BY FS_Subset
  <2> QED BY <2>1, SumStep
<1>2. {} \in P
  BY <1>1
<1>3. ASSUME NEW s \in SUBSET S, s # {}, s \ {Some(s)} \in P PROVE s \in P
  BY <1>1, <1>3
<1> HIDE DEF P
<1>4. \A s \in SUBSET S : s \in P
  BY <1>2, <1>3, SetInduction
<1> QED BY <1>4 DEF P

\* Sums are linear ...
LEMMA SumLinear ==
  ASSUME NEW S, IsFiniteSet(S), NEW f, NEW g, NEW h, NEW e,
         NEW x \in Int, NEW y \in Int, NEW z \in Int,
         \A a \in S : /\ f[a] \in Int /\ g[a] \in Int /\ h[a] \in Int
                     /\ e[a] = x * f[a] + y * g[a] + z * h[a]
  PROVE  Sum(e, S) = x * Sum(f, S) + y * Sum(g, S) + z * Sum(h, S)
<1> DEFINE P == {s \in SUBSET S : Sum(e, s) = x * Sum(f, s) + y * Sum(g, s) + z * Sum(h, s)}
<1>0. \A a \in S : e[a] \in Int
  OBVIOUS
<1>1. ASSUME NEW s \in SUBSET S
      PROVE  /\ Sum(e, s) \in Int /\ Sum(f, s) \in Int /\ Sum(g, s) \in Int /\ Sum(h, s) \in Int
             /\ s = {} => Sum(e, s) = 0 /\ Sum(f, s) = 0 /\ Sum(g, s) = 0 /\ Sum(h, s) = 0
             /\ s # {} => /\ Some(s) \in S
                         /\ Sum(e, s) = e[Some(s)] + Sum(e, s \ {Some(s)})
                         /\ Sum(f, s) = f[Some(s)] + Sum(f, s \ {Some(s)})
                         /\ Sum(g, s) = g[Some(s)] + Sum(g, s \ {Some(s)})
                         /\ Sum(h, s) = h[Some(s)] + Sum(h, s \ {Some(s)})
  <2>1. IsFiniteSet(s) /\ \A a \in s : e[a] \in Int /\ f[a] \in Int /\ g[a] \in Int /\ h[a] \in Int
    BY <1>0, FS_Subset
  <2> QED BY <2>1, SumStep
<1>2. {} \in P
  <2>1. {} \in SUBSET S
    OBVIOUS
  <2>2. Sum(e, {}) = 0 /\ Sum(f, {}) = 0 /\ Sum(g, {}) = 0 /\ Sum(h, {}) = 0
    BY <1>1, <2>1
  <2>3. x * 0 = 0 /\ y * 0 = 0 /\ z * 0 = 0
    OBVIOUS
  <2>4. Sum(e, {}) = x * Sum(f, {}) + y * Sum(g, {}) + z * Sum(h, {})
    BY <2>2, <2>3
  <2> QED BY <2>1, <2>4
<1>3. ASSUME NEW s \in SUBSET S, s # {}, s \ {Some(s)} \in P PROVE s \in P
  <2> DEFINE t == s \ {Some(s)}  p == Some(s)
  <2>1. t \in SUBSET S /\ p \in S
    BY <1>1, <1>3
  <2>2. Sum(e, t) = x * Sum(f, t) + y * Sum(g, t) + z * Sum(h, t)
    BY <1>3
  <2>3. e[p] = x * f[p] + y * g[p] + z * h[p] /\ f[p] \in Int /\ g[p] \in Int /\ h[p] \in Int
    BY <2>1
  <2>4. /\ Sum(e, s) = e[p] + Sum(e, t) /\ Sum(f, s) = f[p] + Sum(f, t)
        /\ Sum(g, s) = g[p] + Sum(g, t) /\ Sum(h, s) = h[p] + Sum(h, t)
    BY <1>1, <1>3
  <2>5. Sum(e, t) \in Int /\ Sum(f, t) \in Int /\ Sum(g, t) \in Int /\ Sum(h, t) \in Int
    BY <1>1, <2>1
  <2>6. /\ x * (f[p] + Sum(f, t)) = x * f[p] + x * Sum(f, t)
        /\ y * (g[p] + Sum(g, t)) = y * g[p] + y * Sum(g, t)
        /\ z * (h[p] + Sum(h, t)) = z * h[p] + z * Sum(h, t)
    BY <2>3, <2>5
  <2>7. x * Sum(f, s) = x * f[p] + x * Sum(f, t) /\ y * Sum(g, s) = y * g[p] + y * Sum(g, t)
        /\ z * Sum(h, s) = z * h[p] + z * Sum(h, t)
    BY <2>4, <2>6
  <2>8. x * f[p] \in Int /\ y * g[p] \in Int /\ z * h[p] \in Int
        /\ x * Sum(f, t) \in Int /\ y * Sum(g, t) \in Int /\ z * Sum(h, t) \in Int
    BY <2>3, <2>5
  <2>9. Sum(e, s) = x * Sum(f, s) + y * Sum(g, s) + z * Sum(h, s)
    BY <2>2, <2>3, <2>4, <2>7, <2>8
  <2> QED BY <1>3, <2>9
<1> HIDE DEF P
<1>4. \A s \in SUBSET S : s \in P
  BY <1>2, <1>3, SetInduction
<1> QED BY <1>4 DEF P

\* ... and grow with their terms.
LEMMA SumMono ==
  ASSUME NEW S, IsFiniteSet(S), NEW f, NEW g,
         \A a \in S : f[a] \in Int /\ g[a] \in Int /\ f[a] <= g[a]
  PROVE  Sum(f, S) <= Sum(g, S)
<1> DEFINE P == {s \in SUBSET S : Sum(f, s) <= Sum(g, s)}
<1>1. ASSUME NEW s \in SUBSET S
      PROVE  /\ Sum(f, s) \in Int /\ Sum(g, s) \in Int
             /\ s = {} => Sum(f, s) = 0 /\ Sum(g, s) = 0
             /\ s # {} => /\ Some(s) \in S
                         /\ Sum(f, s) = f[Some(s)] + Sum(f, s \ {Some(s)})
                         /\ Sum(g, s) = g[Some(s)] + Sum(g, s \ {Some(s)})
  <2>1. IsFiniteSet(s) /\ \A a \in s : f[a] \in Int /\ g[a] \in Int
    BY FS_Subset
  <2> QED BY <2>1, SumStep
<1>2. {} \in P
  <2>1. {} \in SUBSET S
    OBVIOUS
  <2>2. Sum(f, {}) = 0 /\ Sum(g, {}) = 0
    BY <1>1, <2>1
  <2> QED BY <2>1, <2>2
<1>3. ASSUME NEW s \in SUBSET S, s # {}, s \ {Some(s)} \in P PROVE s \in P
  <2>1. /\ Sum(f, s \ {Some(s)}) \in Int /\ Sum(g, s \ {Some(s)}) \in Int
        /\ Sum(f, s \ {Some(s)}) <= Sum(g, s \ {Some(s)})
    BY <1>1, <1>3
  <2>2. f[Some(s)] \in Int /\ g[Some(s)] \in Int /\ f[Some(s)] <= g[Some(s)]
    BY <1>1, <1>3
  <2> QED BY <1>1, <1>3, <2>1, <2>2
<1> HIDE DEF P
<1>4. \A s \in SUBSET S : s \in P
  BY <1>2, <1>3, SetInduction
<1> QED BY <1>4 DEF P

\* Any term may be taken first.
LEMMA SumRemove ==
  ASSUME NEW S, IsFiniteSet(S), NEW f, \A a \in S : f[a] \in Int
  PROVE  \A x \in S : Sum(f, S) = f[x] + Sum(f, S \ {x})
<1> DEFINE P == {s \in SUBSET S : \A x \in s : Sum(f, s) = f[x] + Sum(f, s \ {x})}
           N == {n \in Nat : \A s \in SUBSET S : Cardinality(s) = n => s \in P}
<1>1. ASSUME NEW s \in SUBSET S
      PROVE  /\ Sum(f, s) \in Int
             /\ s # {} => Some(s) \in s /\ Sum(f, s) = f[Some(s)] + Sum(f, s \ {Some(s)})
  <2>1. IsFiniteSet(s) /\ \A a \in s : f[a] \in Int
    BY FS_Subset
  <2> QED BY <2>1, SumStep
<1>2. \A s \in SUBSET S : IsFiniteSet(s) /\ Cardinality(s) \in Nat
  BY FS_Subset, FS_CardinalityType
<1>3. 0 \in N
  BY <1>2, FS_EmptySet
<1>4. ASSUME NEW n \in Nat, n \in N PROVE n + 1 \in N
  <2> SUFFICES ASSUME NEW s \in SUBSET S, Cardinality(s) = n + 1, NEW x \in s
               PROVE  Sum(f, s) = f[x] + Sum(f, s \ {x})
    OBVIOUS
  <2> DEFINE p == Some(s)
  <2>1. p \in s /\ Sum(f, s) = f[p] + Sum(f, s \ {p}) /\ f[p] \in Int /\ f[x] \in Int
    BY <1>1
  <2>2. \A y \in s : Cardinality(s \ {y}) = n /\ s \ {y} \in SUBSET S
    <3> TAKE y \in s
    <3>1. IsFiniteSet(s)
      BY <1>2
    <3>2. Cardinality(s \ {y}) = Cardinality(s) - 1
      BY <3>1, FS_RemoveElement
    <3> QED BY <3>2
  <2>3. \A y \in s : s \ {y} \in P
    BY <1>4, <2>2
  <2>4. CASE x = p
    BY <2>1, <2>4
  <2>5. CASE x # p
    <3> HIDE DEF p
    <3>1. Sum(f, s \ {p}) = f[x] + Sum(f, (s \ {p}) \ {x})
      BY <2>1, <2>3, <2>5
    <3>2. Sum(f, s \ {x}) = f[p] + Sum(f, (s \ {x}) \ {p})
      BY <2>1, <2>3, <2>5
    <3>3. (s \ {p}) \ {x} = (s \ {x}) \ {p} /\ (s \ {p}) \ {x} \in SUBSET S
      OBVIOUS
    <3>4. Sum(f, (s \ {p}) \ {x}) \in Int
      BY <1>1, <3>3
    <3>5. Sum(f, s) = f[p] + (f[x] + Sum(f, (s \ {p}) \ {x}))
      BY <2>1, <3>1
    <3>6. Sum(f, s \ {x}) = f[p] + Sum(f, (s \ {p}) \ {x})
      BY <3>2, <3>3
    <3>7. \A u, v, w \in Int : u + (v + w) = v + (u + w)
      OBVIOUS
    <3> QED BY <2>1, <3>4, <3>5, <3>6, <3>7
  <2> QED BY <2>4, <2>5
<1> HIDE DEF N
<1>5. \A n \in Nat : n \in N
  BY <1>3, <1>4, Induction
<1>6. S \in P
  BY <1>2, <1>5 DEF N
<1> QED BY <1>6
-----------------------------------------------------------------------------
(* Distances.                                                              *)

Squares(p, q) == [a \in Axes |-> Sq(p[a] - q[a])]

\* The recursive function of Dist.
DistSums(g, p, q) ==
  g = [s \in SUBSET Axes |-> IF s = {} THEN 0 ELSE Sq(p[Some(s)] - q[Some(s)]) + g[s \ {Some(s)}]]

LEMMA DistIs ==
  ASSUME NEW p, NEW q
  PROVE Dist(p, q) = Sum(Squares(p, q), Axes)
<1>1. Dist(p, q) = (CHOOSE g : DistSums(g, p, q))[Axes]
  BY DEF Dist, MapThenSumSet, MapThenFoldSet, DistSums, Some
<1>2. Sum(Squares(p, q), Axes) = (CHOOSE g : Sums(g, Squares(p, q), Axes))[Axes]
  BY SumIs
<1>3. ASSUME NEW g PROVE DistSums(g, p, q) <=> Sums(g, Squares(p, q), Axes)
  <2> DEFINE A(s) == IF s = {} THEN 0 ELSE Sq(p[Some(s)] - q[Some(s)]) + g[s \ {Some(s)}]
             B(s) == IF s = {} THEN 0 ELSE Squares(p, q)[Some(s)] + g[s \ {Some(s)}]
  <2>1. \A s \in SUBSET Axes : A(s) = B(s)
    <3> TAKE s \in SUBSET Axes
    <3>1. s # {} => Some(s) \in Axes
      BY DEF Some
    <3> QED BY <3>1 DEF Squares
  <2>2. DistSums(g, p, q) <=> g = [s \in SUBSET Axes |-> A(s)]
    BY DEF DistSums
  <2>3. Sums(g, Squares(p, q), Axes) <=> g = [s \in SUBSET Axes |-> B(s)]
    BY DEF Sums
  <2> HIDE DEF A, B
  <2>4. [s \in SUBSET Axes |-> A(s)] = [s \in SUBSET Axes |-> B(s)]
    BY <2>1
  <2> QED BY <2>2, <2>3, <2>4
<1>4. (CHOOSE g : DistSums(g, p, q)) = (CHOOSE g : Sums(g, Squares(p, q), Axes))
  BY <1>3, Zenon
<1> QED BY <1>1, <1>2, <1>4

\* The terms of BoxBound and its recursive function.
Past(q, box) ==
  [a \in Axes |-> IF q[a] > box.hi[a] THEN Sq(q[a] - box.hi[a])
                  ELSE IF q[a] < box.lo[a] THEN Sq(box.lo[a] - q[a]) ELSE 0]

PastSums(g, q, box) ==
  g = [s \in SUBSET Axes |->
         IF s = {} THEN 0
         ELSE (IF q[Some(s)] > box.hi[Some(s)] THEN Sq(q[Some(s)] - box.hi[Some(s)])
               ELSE IF q[Some(s)] < box.lo[Some(s)] THEN Sq(box.lo[Some(s)] - q[Some(s)]) ELSE 0)
              + g[s \ {Some(s)}]]

LEMMA BoxBoundIs ==
  ASSUME NEW q, NEW box
  PROVE BoxBound(q, box) = Sum(Past(q, box), Axes)
<1>1. BoxBound(q, box) = (CHOOSE g : PastSums(g, q, box))[Axes]
  BY DEF BoxBound, MapThenSumSet, MapThenFoldSet, PastSums, Some
<1>2. Sum(Past(q, box), Axes) = (CHOOSE g : Sums(g, Past(q, box), Axes))[Axes]
  BY SumIs
<1>3. ASSUME NEW g PROVE PastSums(g, q, box) <=> Sums(g, Past(q, box), Axes)
  <2> DEFINE A(s) == IF s = {} THEN 0
                     ELSE (IF q[Some(s)] > box.hi[Some(s)] THEN Sq(q[Some(s)] - box.hi[Some(s)])
                           ELSE IF q[Some(s)] < box.lo[Some(s)] THEN Sq(box.lo[Some(s)] - q[Some(s)]) ELSE 0)
                          + g[s \ {Some(s)}]
             B(s) == IF s = {} THEN 0 ELSE Past(q, box)[Some(s)] + g[s \ {Some(s)}]
  <2>1. \A s \in SUBSET Axes : A(s) = B(s)
    <3> TAKE s \in SUBSET Axes
    <3>1. s # {} => Some(s) \in Axes
      BY DEF Some
    <3> QED BY <3>1 DEF Past
  <2>2. PastSums(g, q, box) <=> g = [s \in SUBSET Axes |-> A(s)]
    BY DEF PastSums
  <2>3. Sums(g, Past(q, box), Axes) <=> g = [s \in SUBSET Axes |-> B(s)]
    BY DEF Sums
  <2> HIDE DEF A, B
  <2>4. [s \in SUBSET Axes |-> A(s)] = [s \in SUBSET Axes |-> B(s)]
    BY <2>1
  <2> QED BY <2>2, <2>3, <2>4
<1>4. (CHOOSE g : PastSums(g, q, box)) = (CHOOSE g : Sums(g, Past(q, box), Axes))
  BY <1>3, Zenon
<1> QED BY <1>1, <1>2, <1>4

LEMMA AxesFinite ==
  ASSUME Dims \in Nat
  PROVE  IsFiniteSet(Axes)
BY FS_Interval DEF Axes

\* A sum of squares is not negative.
LEMMA SumNat ==
  ASSUME NEW S, IsFiniteSet(S), NEW f, \A a \in S : f[a] \in Int /\ f[a] >= 0
  PROVE  Sum(f, S) \in Nat
<1> DEFINE z == [a \in S |-> 0]
<1>1. \A a \in S : z[a] = 0 /\ z[a] \in Int /\ z[a] = 0 * z[a] + 0 * z[a] + 0 * z[a]
  OBVIOUS
<1>2. \A a \in S : z[a] \in Int /\ f[a] \in Int /\ z[a] <= f[a]
  BY <1>1
<1> HIDE DEF z
<1>3. Sum(z, S) \in Int /\ Sum(f, S) \in Int
  BY <1>2, SumStep
<1>4. Sum(z, S) = 0 * Sum(z, S) + 0 * Sum(z, S) + 0 * Sum(z, S)
  BY <1>1, SumLinear
<1>5. Sum(z, S) <= Sum(f, S)
  BY <1>2, SumMono
<1> QED BY <1>3, <1>4, <1>5

LEMMA SquareFacts ==
  /\ \A n \in Int : Sq(n) \in Int /\ Sq(n) >= 0
  /\ \A m, n \in Int : 0 <= m /\ m <= n => Sq(m) <= Sq(n)
<1>1. \A n \in Int : n * n \in Int /\ n * n >= 0
  OBVIOUS
<1>2. \A m, n \in Int : 0 <= m /\ m <= n => m * m <= n * n
  <2> TAKE m \in Int, n \in Int
  <2> HAVE 0 <= m /\ m <= n
  <2>1. m * m <= m * n
    OBVIOUS
  <2>2. m * n <= n * n
    OBVIOUS
  <2> QED BY <2>1, <2>2
<1> QED BY <1>1, <1>2 DEF Sq

\* A distance is a natural number.
LEMMA DistNat ==
  ASSUME Dims \in Nat, NEW p \in [Axes -> Int], NEW q \in [Axes -> Int]
  PROVE  Dist(p, q) \in Nat
<1>1. \A a \in Axes : Squares(p, q)[a] \in Int /\ Squares(p, q)[a] >= 0
  BY SquareFacts DEF Squares
<1> QED BY <1>1, AxesFinite, SumNat, DistIs

\* The box around a vector is no farther from a point than the vector.
LEMMA BoxSound ==
  ASSUME Dims \in Nat, NEW q \in [Axes -> Int], NEW v \in [Axes -> Int], NEW box,
         \A a \in Axes : box.lo[a] \in Int /\ box.hi[a] \in Int /\ box.lo[a] <= v[a] /\ v[a] <= box.hi[a]
  PROVE  BoxBound(q, box) \in Int /\ BoxBound(q, box) <= Dist(q, v)
<1>1. ASSUME NEW a \in Axes
      PROVE  /\ Past(q, box)[a] \in Int /\ Squares(q, v)[a] \in Int
             /\ Past(q, box)[a] <= Squares(q, v)[a]
  <2>1. q[a] \in Int /\ v[a] \in Int /\ box.lo[a] \in Int /\ box.hi[a] \in Int
        /\ box.lo[a] <= v[a] /\ v[a] <= box.hi[a]
    OBVIOUS
  <2>2. Squares(q, v)[a] = Sq(q[a] - v[a]) /\ Sq(q[a] - v[a]) = Sq(v[a] - q[a]) /\ Sq(q[a] - v[a]) >= 0
        /\ Sq(q[a] - v[a]) \in Int
    BY <2>1 DEF Squares, Sq
  <2>3. CASE q[a] > box.hi[a]
    <3>1. 0 <= q[a] - box.hi[a] /\ q[a] - box.hi[a] <= q[a] - v[a]
      BY <2>1, <2>3
    <3>2. Sq(q[a] - box.hi[a]) \in Int /\ Sq(q[a] - box.hi[a]) <= Sq(q[a] - v[a])
      BY <2>1, <3>1, SquareFacts
    <3>3. Past(q, box)[a] = Sq(q[a] - box.hi[a])
      BY <2>3 DEF Past
    <3> QED BY <2>2, <3>2, <3>3
  <2>4. CASE ~(q[a] > box.hi[a]) /\ q[a] < box.lo[a]
    <3>1. 0 <= box.lo[a] - q[a] /\ box.lo[a] - q[a] <= v[a] - q[a]
      BY <2>1, <2>4
    <3>2. Sq(box.lo[a] - q[a]) \in Int /\ Sq(box.lo[a] - q[a]) <= Sq(v[a] - q[a])
      BY <2>1, <3>1, SquareFacts
    <3>3. Past(q, box)[a] = Sq(box.lo[a] - q[a])
      BY <2>4 DEF Past
    <3> QED BY <2>2, <3>2, <3>3
  <2>5. CASE ~(q[a] > box.hi[a]) /\ ~(q[a] < box.lo[a])
    <3>1. Past(q, box)[a] = 0
      BY <2>5 DEF Past
    <3> QED BY <2>2, <3>1
  <2> QED BY <2>3, <2>4, <2>5
<1>2. Sum(Past(q, box), Axes) <= Sum(Squares(q, v), Axes) /\ Sum(Past(q, box), Axes) \in Int
  BY <1>1, AxesFinite, SumMono, SumStep
<1> QED BY <1>2, BoxBoundIs, DistIs

\* A bound is a sum of squares.
LEMMA BoundNat ==
  ASSUME Dims \in Nat, NEW q \in [Axes -> Int], NEW box, \A a \in Axes : box.lo[a] \in Int /\ box.hi[a] \in Int
  PROVE  BoxBound(q, box) \in Nat
<1>1. \A a \in Axes : Past(q, box)[a] \in Int /\ Past(q, box)[a] >= 0
  <2> TAKE a \in Axes
  <2>1. q[a] - box.hi[a] \in Int /\ box.lo[a] - q[a] \in Int
    OBVIOUS
  <2> QED BY <2>1, SquareFacts DEF Past
<1> QED BY <1>1, AxesFinite, SumNat, BoxBoundIs

\* The square of the scalar product is at most the product of the squares.
LEMMA Cauchy ==
  ASSUME NEW S, IsFiniteSet(S), NEW f, NEW g, NEW h,
         NEW u \in [S -> Int], NEW z \in [S -> Int],
         \A a \in S : f[a] = u[a] * u[a] /\ g[a] = u[a] * z[a] /\ h[a] = z[a] * z[a],
         Sum(f, S) > 0
  PROVE  Sum(g, S) * Sum(g, S) <= Sum(f, S) * Sum(h, S)
<1> DEFINE A == Sum(f, S)  C == Sum(g, S)  B == Sum(h, S)
<1>1. \A a \in S : f[a] \in Int /\ g[a] \in Int /\ h[a] \in Int
  OBVIOUS
<1>2. A \in Int /\ B \in Int /\ C \in Int
  BY <1>1, SumStep
<1> DEFINE x == C * C  y == -(2 * (C * A))  w == A * A
           e == [a \in S |-> x * f[a] + y * g[a] + w * h[a]]
<1>3. x \in Int /\ y \in Int /\ w \in Int
  BY <1>2
<1> HIDE DEF A, B, C
<1>4. ASSUME NEW a \in S PROVE e[a] \in Int /\ e[a] >= 0
  <2>1. u[a] \in Int /\ z[a] \in Int
    OBVIOUS
  <2>2. \A m, n, c, d \in Int : (c * c) * (m * m) + (-(2 * (c * d))) * (m * n) + (d * d) * (n * n)
                                = (c * m - d * n) * (c * m - d * n)
    OBVIOUS
  <2>3. e[a] = (C * u[a] - A * z[a]) * (C * u[a] - A * z[a])
    BY <1>2, <2>1, <2>2
  <2>4. C * u[a] - A * z[a] \in Int
    BY <1>2, <2>1
  <2>5. \A n \in Int : n * n \in Int /\ n * n >= 0
    OBVIOUS
  <2> QED BY <2>3, <2>4, <2>5
<1>5. \A a \in S : e[a] = x * f[a] + y * g[a] + w * h[a]
  OBVIOUS
<1>6. Sum(e, S) = x * A + y * C + w * B /\ Sum(e, S) \in Nat
  <2> HIDE DEF e, x, y, w
  <2>1. Sum(e, S) \in Nat
    BY <1>4, SumNat
  <2>2. Sum(e, S) = x * Sum(f, S) + y * Sum(g, S) + w * Sum(h, S)
    BY <1>1, <1>3, <1>5, SumLinear
  <2> QED BY <2>1, <2>2 DEF A, B, C
<1>7. x * A + y * C + w * B = A * (A * B - C * C)
  BY <1>2
<1>8. A * (A * B - C * C) >= 0 /\ A > 0
  BY <1>6, <1>7 DEF A
<1>9. \A m, n \in Int : m > 0 /\ m * n >= 0 => n >= 0
  OBVIOUS
<1>10. A * B - C * C >= 0
  BY <1>2, <1>8, <1>9
<1>11. A * B \in Int /\ C * C \in Int
  BY <1>2
<1>12. C * C <= A * B
  BY <1>10, <1>11
<1> QED BY <1>12 DEF A, B, C

\* The squared distances A of a query and B of a vector from a centroid, and
\* the scalar product C of the two differences, against a radius r and a
\* threshold w.
LEMMA GapNumbers ==
  ASSUME NEW A \in Int, NEW B \in Int, NEW C \in Int, NEW r \in Int, NEW w \in Int,
         0 <= B, B <= r, r < A, C * C <= A * B, 0 < w,
         A - r - w >= 0, (A - r - w) * (A - r - w) >= 4 * r * w,
         0 <= A - 2 * C + B
  PROVE  w <= A - 2 * C + B
<1> SUFFICES ASSUME A - 2 * C + B < w PROVE FALSE
  OBVIOUS
<1> DEFINE s == A - r - w  t == A - B - w
<1>1. s \in Int /\ t \in Int /\ 0 <= s /\ s <= t /\ A = t + B + w
  OBVIOUS
<1>2. t * t >= s * s
  <2> HIDE DEF s, t
  <2>1. s * s <= s * t
    BY <1>1
  <2>2. s * t <= t * t
    BY <1>1
  <2>3. s * s \in Int /\ s * t \in Int /\ t * t \in Int
    BY <1>1
  <2> QED BY <2>1, <2>2, <2>3
<1>3. 4 * r * w >= 4 * (B * w)
  <2>1. B * w <= r * w
    OBVIOUS
  <2>2. B * w \in Int /\ r * w \in Int /\ 4 * r * w = 4 * (r * w)
    OBVIOUS
  <2> QED BY <2>1, <2>2
<1>4. t * t >= 4 * (B * w)
  <2>1. s * s >= 4 * r * w
    OBVIOUS
  <2>2. s * s \in Int /\ t * t \in Int /\ 4 * r * w \in Int /\ B * w \in Int
    BY <1>1
  <2> HIDE DEF s, t
  <2> QED BY <1>2, <1>3, <2>1, <2>2
<1>5. 0 <= t + 2 * B /\ t + 2 * B < 2 * C
  BY <1>1
<1>6. (t + 2 * B) * (t + 2 * B) < (2 * C) * (2 * C)
  <2> HIDE DEF t
  <2>1. \A m, n \in Int : 0 <= m /\ m < n => m * m < n * n
    <3> TAKE m \in Int, n \in Int
    <3> HAVE 0 <= m /\ m < n
    <3>1. m * m <= m * n
      OBVIOUS
    <3>2. m * n < n * n
      OBVIOUS
    <3> QED BY <3>1, <3>2
  <2> QED BY <1>1, <1>5, <2>1
<1>7. /\ (t + 2 * B) * (t + 2 * B) = t * t + 4 * (B * t) + 4 * (B * B)
      /\ (2 * C) * (2 * C) = 4 * (C * C)
      /\ A * B = B * t + B * B + B * w
  <2> HIDE DEF t
  <2>1. (t + 2 * B) * (t + 2 * B) = t * t + 4 * (B * t) + 4 * (B * B)
    BY <1>1
  <2>2. (2 * C) * (2 * C) = 4 * (C * C)
    OBVIOUS
  <2>3. A * B = B * t + B * B + B * w
    BY <1>1
  <2> QED BY <2>1, <2>2, <2>3
<1>8. t * t \in Int /\ B * t \in Int /\ B * B \in Int /\ B * w \in Int /\ C * C \in Int /\ A * B \in Int
  BY <1>1
<1> HIDE DEF t, s
<1>9. t * t + 4 * (B * t) + 4 * (B * B) < 4 * (C * C)
  BY <1>6, <1>7
<1>10. 4 * (C * C) <= 4 * (B * t) + 4 * (B * B) + 4 * (B * w)
  <2>1. C * C <= B * t + B * B + B * w
    BY <1>7
  <2> QED BY <1>8, <2>1
<1> QED BY <1>4, <1>8, <1>9, <1>10

\* The law of cosines, seen from m.
Cosine(p, q, m) ==
  \E C \in Int : /\ Dist(p, q) = Dist(p, m) - 2 * C + Dist(q, m)
                 /\ Dist(p, m) > 0 => C * C <= Dist(p, m) * Dist(q, m)

LEMMA DistBy ==
  ASSUME Dims \in Nat, NEW p \in [Axes -> Int], NEW q \in [Axes -> Int], NEW m \in [Axes -> Int]
  PROVE  Cosine(p, q, m)
<1> DEFINE u == [a \in Axes |-> p[a] - m[a]]  z == [a \in Axes |-> q[a] - m[a]]
           g == [a \in Axes |-> u[a] * z[a]]
           f == Squares(p, m)  h == Squares(q, m)  e == Squares(p, q)
<1>1. ASSUME NEW a \in Axes
      PROVE  /\ f[a] = u[a] * u[a] /\ g[a] = u[a] * z[a] /\ h[a] = z[a] * z[a]
             /\ f[a] \in Int /\ g[a] \in Int /\ h[a] \in Int
             /\ e[a] = 1 * f[a] + (-2) * g[a] + 1 * h[a]
  <2>1. p[a] \in Int /\ q[a] \in Int /\ m[a] \in Int /\ u[a] = p[a] - m[a] /\ z[a] = q[a] - m[a]
    OBVIOUS
  <2>2. f[a] = u[a] * u[a] /\ h[a] = z[a] * z[a] /\ e[a] = (u[a] - z[a]) * (u[a] - z[a])
    BY <2>1 DEF Squares, Sq
  <2>3. g[a] = u[a] * z[a]
    OBVIOUS
  <2>4. u[a] \in Int /\ z[a] \in Int
    BY <2>1
  <2>5. \A c, d \in Int : /\ (c - d) * (c - d) = 1 * (c * c) + (-2) * (c * d) + 1 * (d * d)
                          /\ c * c \in Int /\ c * d \in Int /\ d * d \in Int
    OBVIOUS
  <2> QED BY <2>2, <2>3, <2>4, <2>5
<1>2. Dist(p, m) = Sum(f, Axes) /\ Dist(q, m) = Sum(h, Axes) /\ Dist(p, q) = Sum(e, Axes)
  BY DistIs
<1>3. u \in [Axes -> Int] /\ z \in [Axes -> Int]
  OBVIOUS
<1>4. IsFiniteSet(Axes)
  BY AxesFinite
<1> HIDE DEF f, g, h, e, u, z
<1>5. Sum(f, Axes) \in Int /\ Sum(g, Axes) \in Int /\ Sum(h, Axes) \in Int
  BY <1>1, <1>4, SumStep
<1>6. Sum(e, Axes) = 1 * Sum(f, Axes) + (-2) * Sum(g, Axes) + 1 * Sum(h, Axes)
  BY <1>1, <1>4, SumLinear
<1>7. Sum(f, Axes) > 0 => Sum(g, Axes) * Sum(g, Axes) <= Sum(f, Axes) * Sum(h, Axes)
  BY <1>1, <1>3, <1>4, Cauchy
<1>8. Sum(e, Axes) = Sum(f, Axes) - 2 * Sum(g, Axes) + Sum(h, Axes)
  BY <1>5, <1>6
<1> QED BY <1>2, <1>5, <1>7, <1>8 DEF Cosine

\* The distance beyond the radius of a ball: with a vector in the ball round m
\* and p outside, what GapReaches says of w is at most the vector's distance.
LEMMA BallSound ==
  ASSUME Dims \in Nat, NEW p \in [Axes -> Int], NEW v \in [Axes -> Int], NEW m \in [Axes -> Int]
  PROVE  \A r \in Int, w \in Nat :
           /\ Dist(v, m) <= r /\ r < Dist(p, m) /\ Dist(p, m) - r - w >= 0
           /\ w > 0 => (Dist(p, m) - r - w) * (Dist(p, m) - r - w) >= 4 * r * w
           => w <= Dist(p, v)
<1>1. Dist(p, m) \in Nat /\ Dist(v, m) \in Nat /\ Dist(p, v) \in Nat
  BY DistNat
<1>2. PICK C \in Int : /\ Dist(p, v) = Dist(p, m) - 2 * C + Dist(v, m)
                       /\ Dist(p, m) > 0 => C * C <= Dist(p, m) * Dist(v, m)
  <2>1. Cosine(p, v, m)
    BY DistBy
  <2> QED BY <2>1 DEF Cosine
<1> SUFFICES ASSUME NEW r \in Int, NEW w \in Nat,
                    Dist(v, m) <= r, r < Dist(p, m), Dist(p, m) - r - w >= 0,
                    w > 0 => (Dist(p, m) - r - w) * (Dist(p, m) - r - w) >= 4 * r * w
             PROVE  w <= Dist(p, v)
  OBVIOUS
<1>3. CASE w = 0
  BY <1>1, <1>3
<1>4. CASE w > 0
  <2>1. Dist(p, m) > 0 /\ 0 <= Dist(v, m) /\ 0 <= Dist(p, m) - 2 * C + Dist(v, m)
    BY <1>1, <1>2
  <2>2. (Dist(p, m) - r - w) * (Dist(p, m) - r - w) >= 4 * r * w
    BY <1>4
  <2>3. w \in Int /\ 0 < w /\ Dist(p, m) \in Int /\ Dist(v, m) \in Int
    BY <1>1, <1>4
  <2>4. C * C <= Dist(p, m) * Dist(v, m) /\ C \in Int
    BY <1>2, <2>1
  <2>5. w <= Dist(p, m) - 2 * C + Dist(v, m)
    BY <2>1, <2>2, <2>3, <2>4, GapNumbers
  <2> QED BY <1>2, <2>5
<1> QED BY <1>3, <1>4
-----------------------------------------------------------------------------
(* Orders on a finite set.                                                 *)

\* A strict total order on S: before[x] are the elements before x.
TotalOrder(before, S) ==
  /\ before \in [S -> SUBSET S]
  /\ \A x \in S : x \notin before[x]
  /\ \A x \in S : \A y \in before[x] : before[y] \subseteq before[x]
  /\ \A x, y \in S : x = y \/ x \in before[y] \/ y \in before[x]

\* Counting the elements before each numbers a finite set from 1.
LEMMA Ranks ==
  ASSUME NEW S, IsFiniteSet(S), NEW before, TotalOrder(before, S),
         NEW f, f = [x \in S |-> Cardinality(before[x]) + 1]
  PROVE  /\ Cardinality(S) \in Nat
         /\ f \in [S -> 1 .. Cardinality(S)]
         /\ \A x, y \in S : f[x] = f[y] => x = y
         /\ \A x, y \in S : x \in before[y] => f[x] < f[y]
         /\ \A p \in 1 .. Cardinality(S) : \E x \in S : f[x] = p
<1>1. /\ before \in [S -> SUBSET S]
      /\ \A x \in S : x \notin before[x]
      /\ \A x \in S : \A y \in before[x] : before[y] \subseteq before[x]
      /\ \A x, y \in S : x = y \/ x \in before[y] \/ y \in before[x]
  BY DEF TotalOrder
<1> DEFINE n == Cardinality(S)
<1>2. n \in Nat
  BY FS_CardinalityType
<1>3. ASSUME NEW x \in S
      PROVE  IsFiniteSet(before[x]) /\ Cardinality(before[x]) \in 0 .. n - 1 /\ f[x] = Cardinality(before[x]) + 1
  <2>1. before[x] \in SUBSET S /\ before[x] # S
    BY <1>1
  <2>2. IsFiniteSet(before[x]) /\ Cardinality(before[x]) <= n /\ Cardinality(before[x]) # n
    BY <2>1, FS_Subset
  <2>3. Cardinality(before[x]) \in Nat
    BY <2>2, FS_CardinalityType
  <2> QED BY <1>2, <2>2, <2>3
<1>4. ASSUME NEW x \in S, NEW y \in S, x \in before[y] PROVE f[x] < f[y]
  <2>1. before[x] \in SUBSET before[y] /\ before[x] # before[y]
    BY <1>1, <1>4
  <2>2. IsFiniteSet(before[y])
    BY <1>3
  <2>3. Cardinality(before[x]) <= Cardinality(before[y]) /\ Cardinality(before[x]) # Cardinality(before[y])
    BY <2>1, <2>2, FS_Subset
  <2> QED BY <1>2, <1>3, <2>3
<1>5. \A x, y \in S : f[x] = f[y] => x = y
  <2> SUFFICES ASSUME NEW x \in S, NEW y \in S, x # y PROVE f[x] # f[y]
    OBVIOUS
  <2>1. f[x] < f[y] \/ f[y] < f[x]
    BY <1>1, <1>4
  <2>2. f[x] \in Int /\ f[y] \in Int
    BY <1>2, <1>3
  <2> QED BY <2>1, <2>2
<1>6. f \in [S -> 1 .. n]
  <2>1. \A x \in S : f[x] \in 1 .. n
    BY <1>2, <1>3
  <2> QED BY <2>1
<1>7. f \in Injection(S, 1 .. n)
  BY <1>5, <1>6 DEF Injection, IsInjective
<1>8. IsFiniteSet(1 .. n) /\ Cardinality(1 .. n) = n
  BY <1>2, FS_Interval
<1>9. f \in Surjection(S, 1 .. n)
  BY <1>7, <1>8, FS_Injection
<1>10. \A p \in 1 .. n : \E x \in S : f[x] = p
  BY <1>9 DEF Surjection
<1> QED BY <1>2, <1>4, <1>5, <1>6, <1>10

\* The sequence InOrder makes of a set has each of its elements once.
IsOrdered(s, before, S) ==
  s = [p \in 1 .. Cardinality(S) |-> CHOOSE x \in S : Cardinality(before[x]) = p - 1]

LEMMA Ordered ==
  ASSUME NEW S, IsFiniteSet(S), NEW before, TotalOrder(before, S), NEW s, IsOrdered(s, before, S)
  PROVE  /\ Cardinality(S) \in Nat
         /\ s \in [1 .. Cardinality(S) -> S]
         /\ \A x \in S : \E p \in 1 .. Cardinality(S) : s[p] = x
         /\ \A p, r \in 1 .. Cardinality(S) : s[p] = s[r] => p = r
         /\ \A p, r \in 1 .. Cardinality(S) : p < r => s[p] \in before[s[r]]
<1> DEFINE n == Cardinality(S)
           f == [x \in S |-> Cardinality(before[x]) + 1]
<1>1. /\ n \in Nat
      /\ f \in [S -> 1 .. n]
      /\ \A x, y \in S : f[x] = f[y] => x = y
      /\ \A x, y \in S : x \in before[y] => f[x] < f[y]
      /\ \A p \in 1 .. n : \E x \in S : f[x] = p
  <2> DEFINE g == f
  <2> HIDE DEF g
  <2>1. g = [x \in S |-> Cardinality(before[x]) + 1]
    BY DEF g
  <2>2. /\ n \in Nat
        /\ g \in [S -> 1 .. n]
        /\ \A x, y \in S : g[x] = g[y] => x = y
        /\ \A x, y \in S : x \in before[y] => g[x] < g[y]
        /\ \A p \in 1 .. n : \E x \in S : g[x] = p
    BY <2>1, Ranks
  <2> HIDE DEF f
  <2> QED BY <2>2 DEF g
<1>2. \A x \in S : Cardinality(before[x]) \in Nat
  <2> TAKE x \in S
  <2>1. before[x] \in SUBSET S
    BY DEF TotalOrder
  <2> QED BY <2>1, FS_Subset, FS_CardinalityType
<1>3. ASSUME NEW p \in 1 .. n PROVE s[p] \in S /\ f[s[p]] = p
  <2>1. PICK x \in S : f[x] = p
    BY <1>1
  <2>2. Cardinality(before[x]) = p - 1
    BY <1>2, <2>1
  <2>3. s[p] \in S /\ Cardinality(before[s[p]]) = p - 1
    BY <2>2 DEF IsOrdered
  <2> QED BY <2>3
<1> HIDE DEF f
<1>4. s \in [1 .. n -> S]
  BY <1>3 DEF IsOrdered
<1>5. \A x \in S : \E p \in 1 .. n : s[p] = x
  <2> TAKE x \in S
  <2>1. f[x] \in 1 .. n
    BY <1>1
  <2>2. s[f[x]] = x
    BY <1>1, <1>3, <2>1
  <2> QED BY <2>1, <2>2
<1>6. \A p, r \in 1 .. n : p < r => s[p] \in before[s[r]]
  <2> SUFFICES ASSUME NEW p \in 1 .. n, NEW r \in 1 .. n, p < r, s[p] \notin before[s[r]] PROVE FALSE
    OBVIOUS
  <2>1. s[p] \in S /\ s[r] \in S /\ f[s[p]] = p /\ f[s[r]] = r
    BY <1>3
  <2>2. s[p] = s[r] \/ s[r] \in before[s[p]]
    BY <2>1 DEF TotalOrder
  <2>3. p # r /\ ~(r < p)
    BY <1>1
  <2>4. CASE s[p] = s[r]
    <3>1. p = r
      BY <2>1, <2>4
    <3> QED BY <2>3, <3>1
  <2>5. CASE s[r] \in before[s[p]]
    <3>1. f[s[r]] < f[s[p]]
      BY <1>1, <2>1, <2>5
    <3>2. r < p
      BY <2>1, <3>1
    <3> QED BY <2>3, <3>2
  <2> QED BY <2>2, <2>4, <2>5
<1> QED BY <1>1, <1>3, <1>4, <1>5, <1>6

\* The first element.
LEMMA FirstOf ==
  ASSUME NEW S, IsFiniteSet(S), S # {}, NEW before, TotalOrder(before, S)
  PROVE  \E m \in S : \A x \in S : x = m \/ m \in before[x]
<1> DEFINE f == [x \in S |-> Cardinality(before[x]) + 1]
<1>1. /\ Cardinality(S) \in Nat
      /\ f \in [S -> 1 .. Cardinality(S)]
      /\ \A x, y \in S : x \in before[y] => f[x] < f[y]
      /\ \A p \in 1 .. Cardinality(S) : \E x \in S : f[x] = p
  <2> DEFINE g == f
  <2> HIDE DEF g
  <2>1. g = [x \in S |-> Cardinality(before[x]) + 1]
    BY DEF g
  <2>2. /\ Cardinality(S) \in Nat
        /\ g \in [S -> 1 .. Cardinality(S)]
        /\ \A x, y \in S : x \in before[y] => g[x] < g[y]
        /\ \A p \in 1 .. Cardinality(S) : \E x \in S : g[x] = p
    BY <2>1, Ranks
  <2> HIDE DEF f
  <2> QED BY <2>2 DEF g
<1>2. Cardinality(S) # 0
  BY FS_EmptySet
<1>3. PICK m \in S : f[m] = 1
  BY <1>1, <1>2
<1> HIDE DEF f
<1>4. ASSUME NEW x \in S, x # m, m \notin before[x] PROVE FALSE
  <2>1. x \in before[m]
    BY <1>4 DEF TotalOrder
  <2>2. f[x] < 1 /\ f[x] \in 1 .. Cardinality(S)
    BY <1>1, <1>3, <2>1
  <2> QED BY <1>1, <2>2
<1> QED BY <1>4

\* What a finite set is mapped onto is finite.
LEMMA Image ==
  ASSUME NEW S, IsFiniteSet(S), NEW T, NEW f \in [S -> T], \A t \in T : \E s \in S : f[s] = t
  PROVE  IsFiniteSet(T)
<1>1. f \in Surjection(S, T)
  BY DEF Surjection
<1> QED BY <1>1, FS_Surjection

LEMMA MaxIs ==
  ASSUME NEW S \in SUBSET Int, IsFiniteSet(S), S # {}
  PROVE  Max(S) \in S /\ \A y \in S : y <= Max(S)
<1> DEFINE b == [x \in S |-> {y \in S : y > x}]
<1>1. /\ b \in [S -> SUBSET S]
      /\ \A x \in S : \A y : y \in b[x] <=> y \in S /\ y > x
  OBVIOUS
<1>2. \A x, y \in S : x \in b[y] <=> x > y
  BY <1>1
<1> HIDE DEF b
<1>3. TotalOrder(b, S)
  <2>1. \A x, y, z \in S : x \in b[y] /\ z \in b[x] => z \in b[y]
    BY <1>2
  <2>0. \A x \in S : x \in Int
    OBVIOUS
  <2>2. \A x \in S : x \notin b[x]
    BY <1>2, <2>0
  <2>3. \A x, y \in S : x = y \/ x \in b[y] \/ y \in b[x]
    BY <1>2, <2>0
  <2> QED BY <1>1, <2>1, <2>2, <2>3 DEF TotalOrder
<1>4. PICK m \in S : \A x \in S : x = m \/ m \in b[x]
  BY <1>3, FirstOf
<1>5. \A x \in S : m >= x
  <2> TAKE x \in S
  <2>1. x \in Int /\ m \in Int
    OBVIOUS
  <2>2. x = m \/ m > x
    BY <1>2, <1>4
  <2> QED BY <2>1, <2>2
<1>6. Max(S) \in S /\ \A y \in S : Max(S) >= y
  BY <1>5 DEF Max
<1> QED BY <1>6

LEMMA MinIs ==
  ASSUME NEW S \in SUBSET Int, IsFiniteSet(S), S # {}
  PROVE  Min(S) \in S /\ \A y \in S : Min(S) <= y
<1> DEFINE b == [x \in S |-> {y \in S : y < x}]
<1>1. /\ b \in [S -> SUBSET S]
      /\ \A x \in S : \A y : y \in b[x] <=> y \in S /\ y < x
  OBVIOUS
<1>2. \A x, y \in S : x \in b[y] <=> x < y
  BY <1>1
<1> HIDE DEF b
<1>3. TotalOrder(b, S)
  <2>1. \A x, y, z \in S : x \in b[y] /\ z \in b[x] => z \in b[y]
    BY <1>2
  <2>0. \A x \in S : x \in Int
    OBVIOUS
  <2>2. \A x \in S : x \notin b[x]
    BY <1>2, <2>0
  <2>3. \A x, y \in S : x = y \/ x \in b[y] \/ y \in b[x]
    BY <1>2, <2>0
  <2> QED BY <1>1, <2>1, <2>2, <2>3 DEF TotalOrder
<1>4. PICK m \in S : \A x \in S : x = m \/ m \in b[x]
  BY <1>3, FirstOf
<1>5. \A x \in S : m <= x
  <2> TAKE x \in S
  <2>1. x \in Int /\ m \in Int
    OBVIOUS
  <2>2. x = m \/ m < x
    BY <1>2, <1>4
  <2> QED BY <2>1, <2>2
<1> QED BY <1>5 DEF Min

\* Points given by whole numbers.
Ascribed(d) == Count(d) \in Nat /\ \A i \in 1 .. Count(d) : d.vec[i] \in [Axes -> Int]

\* Every vector of a set lies in the box around it.
LEMMA BoxAround ==
  ASSUME NEW d, Ascribed(d), NEW S \in SUBSET (1 .. Count(d)), NEW i \in S, NEW box, box = BoxOf(d, S)
  PROVE  \A a \in Axes : /\ box.lo[a] \in Int /\ box.hi[a] \in Int
                         /\ box.lo[a] <= d.vec[i][a] /\ d.vec[i][a] <= box.hi[a]
<1> SUFFICES ASSUME NEW a \in Axes
             PROVE  /\ box.lo[a] \in Int /\ box.hi[a] \in Int
                    /\ box.lo[a] <= d.vec[i][a] /\ d.vec[i][a] <= box.hi[a]
  OBVIOUS
<1> DEFINE V == {d.vec[j][a] : j \in S}
           f == [j \in S |-> d.vec[j][a]]
<1>1. box.lo[a] = Min(V) /\ box.hi[a] = Max(V)
  BY DEF BoxOf
<1>2. V \in SUBSET Int /\ d.vec[i][a] \in V
  BY DEF Ascribed
<1>3. IsFiniteSet(V)
  <2>1. IsFiniteSet(1 .. Count(d))
    BY FS_Interval DEF Ascribed
  <2>2. IsFiniteSet(S)
    BY <2>1, FS_Subset
  <2>3. f \in [S -> V] /\ \A v \in V : \E j \in S : f[j] = v
    OBVIOUS
  <2> HIDE DEF f, V
  <2> QED BY <2>2, <2>3, Image
<1> HIDE DEF V
<1>4. /\ Min(V) \in V /\ Max(V) \in V
      /\ \A y \in V : Min(V) <= y /\ y <= Max(V)
  BY <1>2, <1>3, MinIs, MaxIs
<1> QED BY <1>1, <1>2, <1>4
-----------------------------------------------------------------------------
(* Concatenations.                                                         *)

\* A sequence is a function of its places.
LEMMA SeqFacts ==
  ASSUME NEW X, NEW s \in Seq(X)
  PROVE  /\ Len(s) \in Nat /\ DOMAIN s = 1 .. Len(s) /\ s \in [1 .. Len(s) -> X]
         /\ ToSet(s) = {s[j] : j \in 1 .. Len(s)} /\ ToSet(s) \in SUBSET X
<1>1. Len(s) \in Nat /\ DOMAIN s = 1 .. Len(s) /\ s \in [1 .. Len(s) -> X]
  OBVIOUS
<1>2. ToSet(s) = {s[j] : j \in 1 .. Len(s)}
  BY <1>1 DEF ToSet
<1> QED BY <1>1, <1>2

LEMMA FunSeq ==
  ASSUME NEW X, NEW n \in Nat, NEW s \in [1 .. n -> X]
  PROVE  s \in Seq(X) /\ Len(s) = n
OBVIOUS

\* FoldLeft takes the elements of 1 .. n from the last one down.
LEMMA LastOf ==
  ASSUME NEW n \in Nat
  PROVE  /\ IsFiniteSet(1 .. n)
         /\ \A s \in SUBSET (1 .. n) : s # {} => Max(s) \in s
         /\ \A k \in 1 .. n : Max(1 .. k) = k /\ (1 .. k) \ {k} = 1 .. k - 1 /\ 1 .. k \in SUBSET (1 .. n)
<1>1. IsFiniteSet(1 .. n)
  BY FS_Interval
<1>2. \A s \in SUBSET (1 .. n) : s # {} => Max(s) \in s
  <2> TAKE s \in SUBSET (1 .. n)
  <2>1. IsFiniteSet(s)
    BY <1>1, FS_Subset
  <2>2. s \in SUBSET Int
    OBVIOUS
  <2> QED BY <2>1, <2>2, MaxIs
<1>3. ASSUME NEW k \in 1 .. n PROVE Max(1 .. k) = k /\ (1 .. k) \ {k} = 1 .. k - 1 /\ 1 .. k \in SUBSET (1 .. n)
  <2>1. IsFiniteSet(1 .. k)
    BY FS_Interval
  <2>0. 1 .. k \in SUBSET Int /\ 1 .. k # {} /\ k \in 1 .. k
    OBVIOUS
  <2>2. Max(1 .. k) \in 1 .. k /\ k <= Max(1 .. k)
    BY <2>0, <2>1, MaxIs
  <2>3. Max(1 .. k) = k
    BY <2>2
  <2>4. (1 .. k) \ {k} = 1 .. k - 1 /\ 1 .. k \in SUBSET (1 .. n)
    OBVIOUS
  <2> QED BY <2>3, <2>4
<1> QED BY <1>1, <1>2, <1>3

\* Putting sequences one after the other.
Joined(seqs) == FoldLeft(\o, <<>>, seqs)

Joins(acc, seqs, n) ==
  /\ acc[0] = <<>>
  /\ \A k \in 1 .. n : acc[k] = acc[k - 1] \o seqs[k]
  /\ Joined(seqs) = acc[n]

LEMMA Concatenated ==
  ASSUME NEW X, NEW n \in Nat, NEW seqs \in [1 .. n -> Seq(X)]
  PROVE  \E acc \in [0 .. n -> Seq(X)] : Joins(acc, seqs, n)
<1> DEFINE S == 1 .. n
           V == Seq(X)
           Folded(g) == g = [s \in SUBSET S |-> IF s = {} THEN <<>> ELSE g[s \ {Max(s)}] \o seqs[Max(s)]]
           F == [k \in S |-> [v \in V |-> v \o seqs[k]]]
           pick == [s \in SUBSET S |-> Max(s)]
<1>1. Joined(seqs) = (CHOOSE g : Folded(g))[S]
  <2>1. DOMAIN seqs = S
    OBVIOUS
  <2> QED BY <2>1 DEF Joined, FoldLeft, MapThenFoldSet
<1>2. \E g \in [SUBSET S -> V] : Folded(g)
  <2>1. IsFiniteSet(S) /\ \A s \in SUBSET S : s # {} => pick[s] \in s
    BY LastOf
  <2>2. <<>> \in V
    OBVIOUS
  <2>3. F \in [S -> [V -> V]]
    <3> SUFFICES ASSUME NEW v \in V, NEW k \in S PROVE v \o seqs[k] \in V
      OBVIOUS
    <3>1. seqs[k] \in Seq(X)
      OBVIOUS
    <3> QED BY <3>1, ConcatProperties
  <2>4. PICK g \in [SUBSET S -> V] : FoldOf(g, F, <<>>, pick, S)
    <3>1. FoldStep(F, <<>>, pick, S, V)
      BY <2>1, <2>2, <2>3 DEF FoldStep
    <3> HIDE DEF F, pick, V, S
    <3> QED BY <3>1, FoldsExist
  <2>5. \A s \in SUBSET S : g[s] = IF s = {} THEN <<>> ELSE g[s \ {Max(s)}] \o seqs[Max(s)]
    <3> TAKE s \in SUBSET S
    <3>1. CASE s # {}
      <4>1. pick[s] = Max(s) /\ Max(s) \in s
        BY <2>1, <3>1
      <4>2. Max(s) \in S /\ g[s \ {Max(s)}] \in V
        BY <4>1
      <4>3. F[Max(s)][g[s \ {Max(s)}]] = g[s \ {Max(s)}] \o seqs[Max(s)]
        BY <4>2
      <4> HIDE DEF F, pick, V
      <4> QED BY <2>4, <3>1, <4>1, <4>3 DEF FoldOf
    <3>2. CASE s = {}
      BY <2>4, <3>2 DEF FoldOf
    <3> QED BY <3>1, <3>2
  <2> HIDE DEF V
  <2>6. Folded(g)
    BY <2>5
  <2> QED BY <2>6
<1> DEFINE g == CHOOSE g : Folded(g)
<1>3. Folded(g)
  <2> HIDE DEF Folded
  <2> QED BY <1>2
<1> HIDE DEF g
<1>4. \A s \in SUBSET S : g[s] = IF s = {} THEN <<>> ELSE g[s \ {Max(s)}] \o seqs[Max(s)]
  BY <1>3
<1> DEFINE acc == [k \in 0 .. n |-> g[1 .. k]]
<1>5. acc[0] = <<>> /\ acc[n] = g[S]
  <2>1. 1 .. 0 = {} /\ {} \in SUBSET S /\ 0 \in 0 .. n /\ n \in 0 .. n
    OBVIOUS
  <2>2. g[{}] = <<>>
    BY <1>4, <2>1
  <2> QED BY <2>1, <2>2
<1>6. \A k \in 1 .. n : acc[k] = acc[k - 1] \o seqs[k]
  <2> TAKE k \in 1 .. n
  <2>1. Max(1 .. k) = k /\ (1 .. k) \ {k} = 1 .. k - 1 /\ 1 .. k \in SUBSET S
    BY LastOf
  <2>2. k \in 1 .. k /\ k \in 0 .. n /\ k - 1 \in 0 .. n
    OBVIOUS
  <2>3. g[1 .. k] = g[1 .. k - 1] \o seqs[k]
    BY <1>4, <2>1, <2>2
  <2> QED BY <2>2, <2>3
<1>7. acc \in [0 .. n -> Seq(X)]
  <2> DEFINE T == {j \in Nat : j <= n => acc[j] \in Seq(X)}
  <2>1. 0 \in T
    BY <1>5
  <2>2. ASSUME NEW j \in Nat, j \in T PROVE j + 1 \in T
    <3> SUFFICES ASSUME j + 1 <= n PROVE acc[j + 1] \in Seq(X)
      OBVIOUS
    <3>1. acc[j + 1] = acc[j] \o seqs[j + 1]
      BY <1>6
    <3>2. acc[j] \in Seq(X) /\ seqs[j + 1] \in Seq(X)
      BY <2>2
    <3> HIDE DEF acc
    <3> QED BY <3>1, <3>2, ConcatProperties
  <2> HIDE DEF T
  <2>3. \A j \in Nat : j \in T
    BY <2>1, <2>2, Induction
  <2>4. \A j \in 0 .. n : g[1 .. j] \in Seq(X)
    <3> TAKE j \in 0 .. n
    <3>1. j \in T /\ j <= n
      BY <2>3
    <3>2. acc[j] \in Seq(X)
      <4> HIDE DEF acc
      <4> QED BY <3>1 DEF T
    <3> QED BY <3>2
  <2> QED BY <2>4
<1> HIDE DEF acc
<1> QED BY <1>1, <1>5, <1>6, <1>7 DEF g, Joins

\* Where each sequence begins when they are put one after the other.
Starts(start, seqs, n, X) ==
  /\ start[1] = 0 /\ \A c \in 1 .. n + 1 : start[c] \in Int
  /\ \A c \in 1 .. n : seqs[c] \in Seq(X) /\ start[c + 1] = start[c] + Len(seqs[c])

Placed(data, start, seqs, n) ==
  /\ Len(data) = start[n + 1]
  /\ \A c \in 1 .. n : start[c] \in Nat /\ start[c + 1] <= start[n + 1]
  /\ \A c \in 1 .. n : \A b \in 1 .. Len(seqs[c]) : data[start[c] + b] = seqs[c][b]
  /\ \A x \in 1 .. Len(data) : \E c \in 1 .. n : \E b \in 1 .. Len(seqs[c]) : x = start[c] + b

LEMMA ConcatFacts ==
  ASSUME NEW X, NEW s \in Seq(X), NEW t \in Seq(X), NEW u, u = s \o t
  PROVE  /\ u \in Seq(X) /\ Len(s) \in Nat /\ Len(t) \in Nat /\ Len(u) = Len(s) + Len(t)
         /\ \A x \in 1 .. Len(s) : u[x] = s[x]
         /\ \A b \in 1 .. Len(t) : u[Len(s) + b] = t[b]
<1>1. /\ u \in Seq(X) /\ Len(u) = Len(s) + Len(t)
      /\ \A x \in 1 .. Len(s) + Len(t) : u[x] = IF x <= Len(s) THEN s[x] ELSE t[x - Len(s)]
  BY ConcatProperties
<1>2. Len(s) \in Nat /\ Len(t) \in Nat
  OBVIOUS
<1>3. ASSUME NEW x \in 1 .. Len(s) PROVE u[x] = s[x]
  <2>1. x \in 1 .. Len(s) + Len(t) /\ x <= Len(s)
    BY <1>2
  <2> QED BY <1>1, <2>1
<1>4. ASSUME NEW b \in 1 .. Len(t) PROVE u[Len(s) + b] = t[b]
  <2>1. /\ Len(s) + b \in 1 .. Len(s) + Len(t) /\ ~(Len(s) + b <= Len(s))
        /\ (Len(s) + b) - Len(s) = b
    BY <1>2
  <2>2. u[Len(s) + b] = t[(Len(s) + b) - Len(s)]
    BY <1>1, <2>1
  <2> QED BY <2>1, <2>2
<1> QED BY <1>1, <1>2, <1>3, <1>4

\* One more sequence.
LEMMA PlacedNext ==
  ASSUME NEW X, NEW j \in Nat, NEW k, k = j + 1, NEW seqs, NEW start,
         Starts(start, seqs, k, X),
         NEW s \in Seq(X), Placed(s, start, seqs, j), start[k] \in Nat,
         NEW u, u = s \o seqs[k]
  PROVE  Placed(u, start, seqs, k) /\ u \in Seq(X) /\ start[k + 1] \in Nat
<1>1. /\ Len(s) = start[k]
      /\ \A c \in 1 .. j : start[c] \in Nat /\ start[c + 1] <= start[k]
      /\ \A c \in 1 .. j : \A b \in 1 .. Len(seqs[c]) : s[start[c] + b] = seqs[c][b]
      /\ \A x \in 1 .. Len(s) : \E c \in 1 .. j : \E b \in 1 .. Len(seqs[c]) : x = start[c] + b
  BY DEF Placed
<1>2. k \in 1 .. k /\ k \in Nat /\ \A c \in 1 .. k : c = k \/ c \in 1 .. j
  OBVIOUS
<1>10. /\ \A c \in 1 .. k + 1 : start[c] \in Int
       /\ \A c \in 1 .. k : seqs[c] \in Seq(X) /\ start[c + 1] = start[c] + Len(seqs[c])
  BY DEF Starts
<1>3. seqs[k] \in Seq(X) /\ \A c \in 1 .. k : Len(seqs[c]) \in Nat
  BY <1>2, <1>10
<1>4. /\ u \in Seq(X) /\ Len(s) \in Nat /\ Len(seqs[k]) \in Nat /\ Len(u) = Len(s) + Len(seqs[k])
      /\ \A x \in 1 .. Len(s) : u[x] = s[x]
      /\ \A b \in 1 .. Len(seqs[k]) : u[Len(s) + b] = seqs[k][b]
  BY <1>3, ConcatFacts
<1>5. start[k + 1] = start[k] + Len(seqs[k])
  BY <1>2, <1>10
<1>6. Len(u) = start[k + 1] /\ start[k + 1] \in Nat /\ start[k] <= start[k + 1]
  BY <1>1, <1>4, <1>5
<1>7. ASSUME NEW c \in 1 .. k PROVE start[c] \in Nat /\ start[c + 1] <= start[k + 1]
  <2>1. CASE c = k
    BY <1>6, <2>1
  <2>2. CASE c \in 1 .. j
    <3>1. start[c] \in Nat /\ start[c + 1] <= start[k]
      BY <1>1, <2>2
    <3>2. start[c + 1] \in Int
      BY <1>3, <1>10, <3>1
    <3> QED BY <1>6, <3>1, <3>2
  <2> QED BY <1>2, <2>1, <2>2
<1>8. ASSUME NEW c \in 1 .. k, NEW b \in 1 .. Len(seqs[c]) PROVE u[start[c] + b] = seqs[c][b]
  <2>1. CASE c = k
    BY <1>1, <1>4, <2>1
  <2>2. CASE c \in 1 .. j
    <3>1. s[start[c] + b] = seqs[c][b] /\ start[c] \in Nat /\ start[c + 1] <= start[k]
      BY <1>1, <2>2
    <3>2. start[c + 1] = start[c] + Len(seqs[c]) /\ Len(seqs[c]) \in Nat /\ start[k] = Len(s)
      BY <1>1, <1>3, <1>10
    <3>3. b \in Int /\ 1 <= b /\ b <= Len(seqs[c])
      BY <3>2
    <3>4. start[c] + b \in Int /\ 1 <= start[c] + b /\ start[c] + b <= Len(s)
      <4>1. start[c] + Len(seqs[c]) <= Len(s)
        BY <3>1, <3>2
      <4>2. start[c] \in Nat /\ Len(seqs[c]) \in Nat /\ Len(s) \in Nat
        BY <1>4, <3>1, <3>2
      <4> QED BY <3>3, <4>1, <4>2
    <3>5. start[c] + b \in 1 .. Len(s)
      BY <1>4, <3>4
    <3> QED BY <1>4, <3>1, <3>5
  <2> QED BY <1>2, <2>1, <2>2
<1>9. ASSUME NEW x \in 1 .. Len(u) PROVE \E c \in 1 .. k : \E b \in 1 .. Len(seqs[c]) : x = start[c] + b
  <2>1. CASE x <= Len(s)
    <3>1. x \in 1 .. Len(s)
      BY <1>4, <2>1
    <3>2. PICK c \in 1 .. j : \E b \in 1 .. Len(seqs[c]) : x = start[c] + b
      BY <1>1, <3>1
    <3>3. c \in 1 .. k
      OBVIOUS
    <3> QED BY <3>2, <3>3
  <2>2. CASE x > Len(s)
    <3> DEFINE b == x - Len(s)
    <3>1. b \in 1 .. Len(seqs[k])
      BY <1>4, <2>2
    <3>2. x = start[k] + b
      BY <1>1, <1>4
    <3> HIDE DEF b
    <3> QED BY <1>2, <3>1, <3>2
  <2> QED BY <1>4, <2>1, <2>2
<1> QED BY <1>4, <1>6, <1>7, <1>8, <1>9 DEF Placed

\* The sequence that puts them all one after the other.
LEMMA Concatenation ==
  ASSUME NEW X, NEW n \in Nat, NEW seqs \in [1 .. n -> Seq(X)], NEW start, Starts(start, seqs, n, X),
         NEW data, data = Joined(seqs)
  PROVE  data \in Seq(X) /\ Placed(data, start, seqs, n)
<1>0. PICK acc \in [0 .. n -> Seq(X)] : Joins(acc, seqs, n)
  BY Concatenated
<1>1. /\ acc[0] = <<>>
      /\ \A k \in 1 .. n : acc[k] = acc[k - 1] \o seqs[k]
      /\ data = acc[n]
  BY <1>0 DEF Joins
<1> DEFINE T == {k \in Nat : k <= n => Placed(acc[k], start, seqs, k) /\ start[k + 1] \in Nat}
<1>2. 0 \in T
  <2>1. Len(acc[0]) = 0 /\ start[0 + 1] = 0 /\ 1 .. 0 = {}
    BY <1>1 DEF Starts
  <2>2. Placed(acc[0], start, seqs, 0)
    BY <2>1 DEF Placed
  <2> QED BY <2>1, <2>2
<1>3. ASSUME NEW j \in Nat, j \in T PROVE j + 1 \in T
  <2> SUFFICES ASSUME j + 1 <= n
               PROVE  Placed(acc[j + 1], start, seqs, j + 1) /\ start[(j + 1) + 1] \in Nat
    OBVIOUS
  <2>1. j <= n /\ j + 1 \in 1 .. n /\ j \in 0 .. n /\ j + 1 \in 0 .. n /\ (j + 1) - 1 = j
    OBVIOUS
  <2>2. acc[j + 1] = acc[j] \o seqs[j + 1] /\ acc[j] \in Seq(X)
    BY <1>1, <2>1
  <2>3. Placed(acc[j], start, seqs, j) /\ start[j + 1] \in Nat
    BY <1>3, <2>1
  <2>4. PICK k : k = j + 1
    OBVIOUS
  <2>5. Starts(start, seqs, k, X)
    <3>1. \A c \in 1 .. k : c \in 1 .. n
      BY <2>1, <2>4
    <3>2. \A c \in 1 .. k + 1 : c \in 1 .. n + 1
      BY <2>1, <2>4
    <3> QED BY <3>1, <3>2 DEF Starts
  <2>6. acc[k] = acc[j] \o seqs[k] /\ start[k] \in Nat
    BY <2>2, <2>3, <2>4
  <2>7. Placed(acc[k], start, seqs, k) /\ start[k + 1] \in Nat
    BY <2>2, <2>3, <2>4, <2>5, <2>6, PlacedNext
  <2> QED BY <2>4, <2>7
<1> HIDE DEF T
<1>4. n \in T
  BY <1>2, <1>3, Induction
<1>5. n \in 0 .. n
  OBVIOUS
<1> QED BY <1>1, <1>4, <1>5 DEF T
-----------------------------------------------------------------------------
(* Orders on numbers, and blocks of lanes.                                 *)

\* By a value, and of equal values by number.
LEMMA ByValue ==
  ASSUME NEW S \in SUBSET Int, NEW D \in [S -> Int], NEW b,
         b = [x \in S |-> {y \in S : D[y] < D[x] \/ (D[y] = D[x] /\ y < x)}]
  PROVE  TotalOrder(b, S)
<1>1. b \in [S -> SUBSET S]
  OBVIOUS
<1>2. \A x, y \in S : y \in b[x] <=> D[y] < D[x] \/ (D[y] = D[x] /\ y < x)
  OBVIOUS
<1>3. \A x \in S : x \in Int /\ D[x] \in Int
  OBVIOUS
<1>4. \A x \in S : x \notin b[x]
  BY <1>2, <1>3
<1>5. \A x \in S : \A y \in b[x] : b[y] \subseteq b[x]
  <2> SUFFICES ASSUME NEW x \in S, NEW y \in S, y \in b[x], NEW z \in S, z \in b[y] PROVE z \in b[x]
    BY <1>1
  <2>1. D[x] \in Int /\ D[y] \in Int /\ D[z] \in Int /\ x \in Int /\ y \in Int /\ z \in Int
    BY <1>3
  <2>2. D[y] < D[x] \/ (D[y] = D[x] /\ y < x)
    BY <1>2
  <2>3. D[z] < D[y] \/ (D[z] = D[y] /\ z < y)
    BY <1>2
  <2>4. D[z] < D[x] \/ (D[z] = D[x] /\ z < x)
    BY <2>1, <2>2, <2>3
  <2> QED BY <1>2, <2>4
<1>6. \A x, y \in S : x = y \/ x \in b[y] \/ y \in b[x]
  <2> TAKE x \in S, y \in S
  <2>1. D[x] \in Int /\ D[y] \in Int /\ x \in Int /\ y \in Int
    BY <1>3
  <2>2. \/ D[x] < D[y] \/ D[y] < D[x]
        \/ D[x] = D[y] /\ (x = y \/ x < y \/ y < x)
    BY <2>1
  <2> QED BY <1>2, <2>2
<1> QED BY <1>1, <1>4, <1>5, <1>6 DEF TotalOrder

\* The numbers of a finite set, ascending.
Rising(S) == InOrder(S, <)

LEMMA RisingIs ==
  ASSUME NEW S \in SUBSET Int, IsFiniteSet(S), NEW s, s = Rising(S)
  PROVE  /\ s \in Seq(S) /\ Len(s) = Cardinality(S) /\ Len(s) \in Nat /\ ToSet(s) = S
         /\ \A p, r \in 1 .. Len(s) : s[p] = s[r] => p = r
<1> DEFINE D == [x \in S |-> 0]
           b == [x \in S |-> {y \in S : D[y] < D[x] \/ (D[y] = D[x] /\ y < x)}]
           Less(x) == {y \in S : y < x}
<1>1. D \in [S -> Int]
  OBVIOUS
<1>2. TotalOrder(b, S)
  <2> DEFINE g == b
  <2> HIDE DEF g, D
  <2>1. g = [x \in S |-> {y \in S : D[y] < D[x] \/ (D[y] = D[x] /\ y < x)}]
    BY DEF g
  <2>2. TotalOrder(g, S)
    BY <1>1, <2>1, ByValue
  <2> QED BY <2>2 DEF g
<1>3. \A x \in S : b[x] = Less(x)
  OBVIOUS
<1>4. s = [p \in 1 .. Cardinality(S) |-> CHOOSE x \in S : Cardinality(Less(x)) = p - 1]
  BY DEF Rising, InOrder
<1>5. IsOrdered(s, b, S)
  <2> DEFINE A(p) == CHOOSE x \in S : Cardinality(Less(x)) = p - 1
             B(p) == CHOOSE x \in S : Cardinality(b[x]) = p - 1
  <2>1. s = [p \in 1 .. Cardinality(S) |-> A(p)]
    BY <1>4
  <2>2. ASSUME NEW p \in 1 .. Cardinality(S) PROVE A(p) = B(p)
    <3> HIDE DEF b, Less
    <3>1. \A x : (x \in S /\ Cardinality(Less(x)) = p - 1) <=> (x \in S /\ Cardinality(b[x]) = p - 1)
      BY <1>3
    <3> QED BY <3>1, Zenon
  <2> HIDE DEF A, B
  <2>3. s = [p \in 1 .. Cardinality(S) |-> B(p)]
    BY <2>1, <2>2
  <2> QED BY <2>3 DEF B, IsOrdered
<1> HIDE DEF b
<1>6. PICK n : n = Cardinality(S)
  OBVIOUS
<1>7. /\ n \in Nat /\ s \in [1 .. n -> S]
      /\ \A x \in S : \E p \in 1 .. n : s[p] = x
      /\ \A p, r \in 1 .. n : s[p] = s[r] => p = r
  BY <1>2, <1>5, <1>6, Ordered
<1>8. s \in Seq(S) /\ Len(s) = n
  BY <1>7, FunSeq
<1>9. ToSet(s) = {s[p] : p \in 1 .. n}
  BY <1>8, SeqFacts
<1>10. ToSet(s) = S
  <2>1. PICK N : N = 1 .. n
    OBVIOUS
  <2>2. s \in [N -> S] /\ (\A x \in S : \E p \in N : s[p] = x) /\ ToSet(s) = {s[p] : p \in N}
    BY <1>7, <1>9, <2>1
  <2>3. \A p \in N : s[p] \in S
    BY <2>2
  <2> QED BY <2>2, <2>3
<1> QED BY <1>6, <1>7, <1>8, <1>10

\* Dividing by the lanes of a block.
LEMMA Division ==
  ASSUME NEW a \in Int, NEW b \in Int, b > 0
  PROVE  a \div b \in Int /\ (a \div b) * b <= a /\ a < (a \div b) * b + b
<1>1. a \div b \in Int
  OBVIOUS
<1>2. b * (a \div b) <= a
  OBVIOUS
<1>3. a < b * (a \div b) + b
  OBVIOUS
<1>4. b * (a \div b) = (a \div b) * b
  BY <1>1
<1> QED BY <1>1, <1>2, <1>3, <1>4

\* A number is in one row of b only, at one place.
LEMMA OneRow ==
  ASSUME NEW b \in Int, b > 0, NEW x \in Int, NEW y \in Int, NEW k \in 1 .. b, NEW l \in 1 .. b,
         x * b + k = y * b + l
  PROVE  x = y /\ k = l
<1>1. (x - y) * b = l - k
  OBVIOUS
<1>2. l - k < b /\ l - k > -b
  OBVIOUS
<1>3. \A d \in Int : d >= 1 => d * b >= b
  OBVIOUS
<1>4. \A d \in Int : d <= -1 => d * b <= -b
  OBVIOUS
<1>5. x - y \in Int /\ ~(x - y >= 1) /\ ~(x - y <= -1)
  BY <1>1, <1>2, <1>3, <1>4
<1>6. x = y
  BY <1>5
<1> QED BY <1>6

AreBlocks(blocks, ids, m) == blocks = [b \in 1 .. m |-> Block(ids, b - 1)]

\* The blocks of a sequence hold each of its elements and the padding ...
Listed(ids, n, S) == n \in Nat /\ ids \in [1 .. n -> S]

LEMMA BlocksFilled ==
  ASSUME Lanes \in Nat \ {0}, NEW S, NEW n, NEW ids, Listed(ids, n, S),
         NEW m, m = BlocksFor(n), NEW blocks, AreBlocks(blocks, ids, m)
  PROVE  /\ m \in Nat
         /\ blocks \in [1 .. m -> [1 .. Lanes -> S \cup {0}]]
         /\ \A p \in 1 .. n : \E b \in 1 .. m, l \in 1 .. Lanes : blocks[b][l] = ids[p]
         /\ \A b \in 1 .. m, l \in 1 .. Lanes :
              /\ (b - 1) * Lanes + l \in Nat \ {0}
              /\ (b - 1) * Lanes + l <= n => blocks[b][l] = ids[(b - 1) * Lanes + l]
              /\ (b - 1) * Lanes + l > n => blocks[b][l] = 0
<1>7. n \in Nat /\ ids \in [1 .. n -> S]
  BY DEF Listed
<1>0. Lanes \in Int /\ Lanes > 0 /\ Len(ids) = n
  BY <1>7
<1>1. m \in Nat /\ m * Lanes <= n + Lanes - 1 /\ n + Lanes - 1 < m * Lanes + Lanes
  <2>1. m = (n + Lanes - 1) \div Lanes
    BY DEF BlocksFor
  <2>2. m \in Int /\ m * Lanes <= n + Lanes - 1 /\ n + Lanes - 1 < m * Lanes + Lanes
    BY <1>7, <1>0, <2>1, Division
  <2>3. \A d \in Int : d <= -1 => d * Lanes <= -Lanes
    OBVIOUS
  <2>4. ~(m <= -1)
    BY <1>7, <1>0, <2>2, <2>3
  <2> QED BY <2>2, <2>4
<1>2. ASSUME NEW b \in 1 .. m, NEW l \in 1 .. Lanes
      PROVE  /\ (b - 1) * Lanes + l \in Nat \ {0}
             /\ (b - 1) * Lanes + l <= n => blocks[b][l] = ids[(b - 1) * Lanes + l]
             /\ (b - 1) * Lanes + l > n => blocks[b][l] = 0
  <2>1. blocks[b] = Block(ids, b - 1)
    BY DEF AreBlocks
  <2>2. \A c \in Int : c >= 0 => c * Lanes \in Int /\ c * Lanes >= 0
    OBVIOUS
  <2>3. (b - 1) * Lanes \in Int /\ (b - 1) * Lanes >= 0
    BY <1>7, <1>1, <2>2
  <2>4. (b - 1) * Lanes + l \in Nat \ {0}
    BY <1>7, <1>0, <2>3
  <2>5. Block(ids, b - 1)[l] = IF (b - 1) * Lanes + l <= Len(ids) THEN ids[(b - 1) * Lanes + l] ELSE 0
    BY DEF Block
  <2> HIDE DEF Block
  <2> QED BY <1>7, <1>0, <2>1, <2>4, <2>5
<1>3. ASSUME NEW b \in 1 .. m, NEW l \in 1 .. Lanes PROVE blocks[b][l] \in S \cup {0}
  <2> DEFINE j == (b - 1) * Lanes + l
  <2>1. /\ j \in Nat \ {0}
        /\ j <= n => blocks[b][l] = ids[j]
        /\ j > n => blocks[b][l] = 0
    BY <1>2
  <2> HIDE DEF j
  <2>2. CASE j <= n
    BY <1>7, <2>1, <2>2
  <2>3. CASE j > n
    BY <1>7, <2>1, <2>3
  <2> QED BY <1>7, <2>1, <2>2, <2>3
<1>4. blocks \in [1 .. m -> [1 .. Lanes -> S \cup {0}]]
  <2>1. ASSUME NEW b \in 1 .. m PROVE blocks[b] \in [1 .. Lanes -> S \cup {0}]
    <3>1. DOMAIN blocks[b] = 1 .. Lanes /\ blocks[b] = [l \in 1 .. Lanes |-> blocks[b][l]]
      BY <1>7 DEF Block, AreBlocks
    <3> QED BY <1>3, <3>1
  <2> QED BY <2>1 DEF AreBlocks
<1>5. ASSUME NEW p \in 1 .. n PROVE \E b \in 1 .. m, l \in 1 .. Lanes : blocks[b][l] = ids[p]
  <2> DEFINE c == (p - 1) \div Lanes
  <2>1. c \in Int /\ c * Lanes <= p - 1 /\ p - 1 < c * Lanes + Lanes
    BY <1>7, <1>0, Division
  <2> HIDE DEF c
  <2>2. c >= 0
    <3>1. \A d \in Int : d <= -1 => d * Lanes <= -Lanes
      OBVIOUS
    <3> QED BY <1>7, <1>0, <2>1, <3>1
  <2>3. c + 1 <= m
    <3>1. \A d \in Int : d <= -1 => d * Lanes <= -Lanes
      OBVIOUS
    <3>2. (m - c - 1) * Lanes = m * Lanes - c * Lanes - Lanes /\ m * Lanes \in Int /\ c * Lanes \in Int
      BY <1>7, <1>0, <1>1, <2>1
    <3>6. \A u, v, w \in Int : u <= p - 1 /\ n + w - 1 < v + w => v - u - w > -w
      BY <1>7
    <3>3. m * Lanes - c * Lanes - Lanes > -Lanes
      BY <1>7, <1>0, <1>1, <2>1, <3>2, <3>6
    <3>4. m - c - 1 \in Int /\ (m - c - 1) * Lanes > -Lanes
      BY <1>7, <1>1, <2>1, <3>2, <3>3
    <3>5. ~(m - c - 1 <= -1)
      BY <1>7, <1>0, <3>1, <3>4
    <3> QED BY <1>7, <1>1, <2>1, <3>5
  <2>4. c + 1 \in 1 .. m /\ (c + 1) - 1 = c
    BY <1>7, <1>1, <2>1, <2>2, <2>3
  <2> DEFINE l == p - c * Lanes
  <2>5. l \in 1 .. Lanes /\ c * Lanes + l = p
    BY <1>7, <1>0, <2>1
  <2> HIDE DEF l
  <2>6. blocks[c + 1][l] = ids[p]
    BY <1>2, <2>4, <2>5
  <2> QED BY <2>4, <2>5, <2>6
<1> QED BY <1>1, <1>2, <1>4, <1>5

\* ... and of a sequence without repetitions each one once.
Numbered(ids, n, S) ==
  /\ n \in Nat /\ ids \in [1 .. n -> S]
  /\ \A p, r \in 1 .. n : ids[p] = ids[r] => p = r

LEMMA BlockFacts ==
  ASSUME Lanes \in Nat \ {0}, NEW S, 0 \notin S, NEW n, NEW ids, Numbered(ids, n, S),
         NEW m, m = BlocksFor(n), NEW blocks, AreBlocks(blocks, ids, m)
  PROVE  /\ m \in Nat
         /\ blocks \in [1 .. m -> [1 .. Lanes -> S \cup {0}]]
         /\ \A p \in 1 .. n : \E b \in 1 .. m, l \in 1 .. Lanes : blocks[b][l] = ids[p]
         /\ \A b, c \in 1 .. m : \A k, l \in 1 .. Lanes :
              blocks[b][k] = blocks[c][l] /\ blocks[b][k] # 0 => b = c /\ k = l
<1>7. /\ n \in Nat /\ ids \in [1 .. n -> S]
      /\ \A p, r \in 1 .. n : ids[p] = ids[r] => p = r
  BY DEF Numbered
<1>0. Lanes \in Int /\ Lanes > 0
  OBVIOUS
<1>1. /\ m \in Nat
      /\ blocks \in [1 .. m -> [1 .. Lanes -> S \cup {0}]]
      /\ \A p \in 1 .. n : \E b \in 1 .. m, l \in 1 .. Lanes : blocks[b][l] = ids[p]
      /\ \A b \in 1 .. m, l \in 1 .. Lanes :
           /\ (b - 1) * Lanes + l \in Nat \ {0}
           /\ (b - 1) * Lanes + l <= n => blocks[b][l] = ids[(b - 1) * Lanes + l]
           /\ (b - 1) * Lanes + l > n => blocks[b][l] = 0
  <2>1. Listed(ids, n, S)
    BY <1>7 DEF Listed
  <2> QED BY <2>1, BlocksFilled
<1>6. ASSUME NEW b \in 1 .. m, NEW c \in 1 .. m, NEW k \in 1 .. Lanes, NEW l \in 1 .. Lanes,
             blocks[b][k] = blocks[c][l], blocks[b][k] # 0
      PROVE  b = c /\ k = l
  <2> DEFINE i == (b - 1) * Lanes + k  j == (c - 1) * Lanes + l
  <2>1. /\ i \in Nat \ {0} /\ (i <= n => blocks[b][k] = ids[i]) /\ (i > n => blocks[b][k] = 0)
        /\ j \in Nat \ {0} /\ (j <= n => blocks[c][l] = ids[j]) /\ (j > n => blocks[c][l] = 0)
    BY <1>1
  <2> HIDE DEF i, j
  <2>2. i \in 1 .. n /\ j \in 1 .. n
    BY <1>7, <1>6, <2>1
  <2>3. i = j
    BY <1>7, <1>6, <2>1, <2>2
  <2>4. b - 1 = c - 1 /\ k = l
    BY <1>7, <1>0, <2>3, OneRow DEF i, j
  <2> QED BY <2>4
<1> QED BY <1>1, <1>6
-----------------------------------------------------------------------------
(* The five nearest of a set of vectors.                                   *)

\* The insertion of bruteforce.go is the same.
LEMMA BruteIsInsert ==
  ASSUME NEW t, NEW d \in 0 .. Infinity, NEW l, NEW i, Infinity \in Nat, Good(t), Ascending(t)
  PROVE  BruteInsert(t, d, l, i) = Insert(t, d, l, i)
<1>1. /\ d \in Int /\ Worst(t) = t[5].d
      /\ t[1].d \in Int /\ t[2].d \in Int /\ t[3].d \in Int /\ t[4].d \in Int /\ t[5].d \in Int
      /\ t[1].d <= t[2].d /\ t[2].d <= t[3].d /\ t[3].d <= t[4].d /\ t[4].d <= t[5].d
  BY DEF Good, Worst, Slots, Ascending
<1>2. CASE d >= t[5].d
  BY <1>1, <1>2 DEF BruteInsert, Insert
<1>3. CASE d < t[5].d
  <2>1. PICK p : p = Place(t, d)
    OBVIOUS
  <2>2. /\ p \in Slots
        /\ \A s \in p .. 5 : t[s].d > d
        /\ p > 1 => t[p - 1].d <= d
    <3>1. \A s \in Slots : t[s].d \in Int
      BY DEF Good
    <3> QED BY <1>1, <1>3, <2>1, <3>1, PlaceFits
  <2>3. /\ p = 1 => d < t[1].d
        /\ p = 2 => d >= t[1].d /\ d < t[2].d
        /\ p = 3 => d >= t[2].d /\ d < t[3].d
        /\ p = 4 => d >= t[3].d /\ d < t[4].d
        /\ p = 5 => d >= t[4].d
    BY <1>1, <2>2 DEF Slots
  <2>4. Insert(t, d, l, i) = PutAt(t, p, Slot(d, l, i))
    BY <1>1, <1>3, <2>1 DEF Insert
  <2>5. BruteInsert(t, d, l, i) = PutAt(t, p, Slot(d, l, i))
    <3>1. CASE p = 1
      BY <1>1, <1>3, <2>3, <3>1 DEF BruteInsert
    <3>2. CASE p = 2
      BY <1>1, <1>3, <2>3, <3>2 DEF BruteInsert
    <3>3. CASE p = 3
      BY <1>1, <1>3, <2>3, <3>3 DEF BruteInsert
    <3>4. CASE p = 4
      BY <1>1, <1>3, <2>3, <3>4 DEF BruteInsert
    <3>5. CASE p = 5
      BY <1>1, <1>3, <2>3, <3>5 DEF BruteInsert
    <3> QED BY <2>2, <3>1, <3>2, <3>3, <3>4, <3>5 DEF Slots
  <2> QED BY <2>4, <2>5
<1> QED BY <1>1, <1>2, <1>3

LEMMA BruteTyped ==
  ASSUME NEW T, NEW t \in [Slots -> T], NEW d \in Int, NEW l, NEW i, Slot(d, l, i) \in T,
         \A s \in Slots : t[s].d \in Int
  PROVE  BruteInsert(t, d, l, i) \in [Slots -> T]
<1>1. ASSUME NEW p \in Slots PROVE PutAt(t, p, Slot(d, l, i)) \in [Slots -> T]
  <2>1. \A s \in Slots : ~(s < p) /\ s # p => s - 1 \in Slots
    BY DEF Slots
  <2> QED BY <2>1 DEF PutAt
<1>2. /\ t[1].d \in Int /\ t[2].d \in Int /\ t[3].d \in Int /\ t[4].d \in Int /\ t[5].d \in Int
      /\ 1 \in Slots /\ 2 \in Slots /\ 3 \in Slots /\ 4 \in Slots /\ 5 \in Slots
  BY DEF Slots
<1>3. \/ BruteInsert(t, d, l, i) = t
      \/ BruteInsert(t, d, l, i) = PutAt(t, 1, Slot(d, l, i))
      \/ BruteInsert(t, d, l, i) = PutAt(t, 2, Slot(d, l, i))
      \/ BruteInsert(t, d, l, i) = PutAt(t, 3, Slot(d, l, i))
      \/ BruteInsert(t, d, l, i) = PutAt(t, 4, Slot(d, l, i))
      \/ BruteInsert(t, d, l, i) = PutAt(t, 5, Slot(d, l, i))
  BY <1>2 DEF BruteInsert
<1> QED BY <1>1, <1>2, <1>3

\* A slot is no farther than those behind it.
LEMMA Climbs ==
  ASSUME NEW t, Ascending(t), \A s \in Slots : t[s].d \in Int
  PROVE  \A r, s \in Slots : r <= s => t[r].d <= t[s].d
<1>1. /\ t[1].d \in Int /\ t[2].d \in Int /\ t[3].d \in Int /\ t[4].d \in Int /\ t[5].d \in Int
      /\ t[1].d <= t[2].d /\ t[2].d <= t[3].d /\ t[3].d <= t[4].d /\ t[4].d <= t[5].d
  BY DEF Slots, Ascending
<1>2. \A s \in Slots : s = 1 \/ s = 2 \/ s = 3 \/ s = 4 \/ s = 5
  BY DEF Slots
<1> TAKE r, s \in Slots
<1>3. CASE r = 1
  BY <1>1, <1>2, <1>3
<1>4. CASE r = 2
  BY <1>1, <1>2, <1>4
<1>5. CASE r = 3
  BY <1>1, <1>2, <1>5
<1>6. CASE r = 4
  BY <1>1, <1>2, <1>6
<1>7. CASE r = 5
  BY <1>1, <1>2, <1>7
<1> QED BY <1>2, <1>3, <1>4, <1>5, <1>6, <1>7

\* The vectors 1 .. n at distances D and with labels L.
Distances(D, n) == n \in Nat /\ Infinity \in Nat /\ D \in [1 .. n -> 0 .. Infinity - 1]

\* t holds the nearest of the vectors I, none twice; the phantoms it holds lie
\* behind all vectors.
Fives(t, D, L, I) ==
  /\ Good(t) /\ Ascending(t)
  /\ \A s \in Slots : t[s].id \in {0} \cup I
  /\ \A s \in Slots : t[s].id # 0 => t[s].d = D[t[s].id] /\ t[s].label = L[t[s].id]
  /\ \A r, s \in Slots : t[r].id = t[s].id /\ t[r].id # 0 => r = s
  /\ \A i \in I : (\E s \in Slots : t[s].id = i) \/ D[i] >= Worst(t)
  /\ \A s \in Slots : t[s].id = 0 => \A i \in DOMAIN D : D[i] < t[s].d

LEMMA ResetFives ==
  ASSUME NEW D, NEW L, NEW n, Distances(D, n)
  PROVE  Fives(ResetTop, D, L, {})
<1>1. Infinity \in Nat /\ D \in [1 .. n -> 0 .. Infinity - 1]
  BY DEF Distances
<1>2. \A s \in Slots : ResetTop[s].d = Infinity /\ ResetTop[s].id = 0
  BY DEF ResetTop, Slot
<1>3. \A i \in DOMAIN D : D[i] < Infinity
  BY <1>1
<1>4. Good(ResetTop)
  BY <1>1, <1>2 DEF Good
<1>5. Ascending(ResetTop)
  BY <1>1, <1>2 DEF Ascending, Slots
<1> QED BY <1>2, <1>3, <1>4, <1>5 DEF Fives

\* A candidate not seen before, ...
LEMMA TakeFives ==
  ASSUME NEW D, NEW L, NEW n, Distances(D, n), NEW I \in SUBSET (1 .. n), NEW t, Fives(t, D, L, I),
         NEW i \in 1 .. n, i \notin I, NEW new, new = Insert(t, D[i], L[i], i)
  PROVE  Fives(new, D, L, I \cup {i})
<1>1. /\ Infinity \in Nat /\ n \in Nat /\ D \in [1 .. n -> 0 .. Infinity - 1]
      /\ D[i] \in 0 .. Infinity /\ D[i] \in Int /\ i # 0 /\ 0 \notin I
      /\ \A j \in I : D[j] \in Int
  BY DEF Distances
<1>2. /\ Good(t) /\ Ascending(t)
      /\ \A s \in Slots : t[s].id \in {0} \cup I
      /\ \A s \in Slots : t[s].id # 0 => t[s].d = D[t[s].id] /\ t[s].label = L[t[s].id]
      /\ \A r, s \in Slots : t[r].id = t[s].id /\ t[r].id # 0 => r = s
      /\ \A j \in I : (\E s \in Slots : t[s].id = j) \/ D[j] >= Worst(t)
      /\ \A s \in Slots : t[s].id = 0 => \A j \in DOMAIN D : D[j] < t[s].d
  BY DEF Fives
<1>0. PICK c : c = Slot(D[i], L[i], i)
  OBVIOUS
<1>3. c.d = D[i] /\ c.label = L[i] /\ c.id = i
  BY <1>0 DEF Slot
<1>4. Inserted(new, t, c)
  BY <1>0, <1>1, <1>2, InsertIs
<1>5. Good(new) /\ Ascending(new)
  BY <1>4 DEF Inserted
<1>6. \A s \in Slots : new[s].id \in {0} \cup (I \cup {i})
  BY <1>2, <1>3, <1>4 DEF Inserted
<1>7. \A s \in Slots : new[s].id # 0 => new[s].d = D[new[s].id] /\ new[s].label = L[new[s].id]
  BY <1>2, <1>3, <1>4 DEF Inserted
<1>8. ASSUME NEW r \in Slots, NEW s \in Slots, new[r].id = new[s].id, new[r].id # 0
      PROVE  r = s
  <2>1. CASE new = t
    BY <1>2, <1>8, <2>1
  <2>2. CASE new # t
    <3>1. PICK p \in Slots : /\ \A x \in Slots : x < p => new[x] = t[x]
                             /\ new[p] = c
                             /\ \A x \in Slots : x > p => new[x] = t[x - 1]
      BY <1>4, <2>2 DEF Inserted
    <3>2. \A x \in Slots : x \in Int /\ (x > p => x - 1 \in Slots)
      BY DEF Slots
    <3>3. \A x \in Slots : t[x].id # i
      BY <1>1, <1>2
    <3>4. \A x \in Slots : x # p => new[x].id # i
      BY <3>1, <3>2, <3>3
    <3>5. CASE r = p \/ s = p
      BY <1>3, <1>8, <3>1, <3>4, <3>5
    <3>6. CASE r < p /\ s < p
      BY <1>2, <1>8, <3>1, <3>6
    <3>7. CASE r > p /\ s > p
      <4>1. r - 1 = s - 1
        BY <1>2, <1>8, <3>1, <3>2, <3>7
      <4> QED BY <3>2, <4>1
    <3>8. CASE r < p /\ s > p
      <4>1. r = s - 1
        BY <1>2, <1>8, <3>1, <3>2, <3>8
      <4> QED BY <3>2, <3>8, <4>1
    <3>9. CASE s < p /\ r > p
      <4>1. s = r - 1
        BY <1>2, <1>8, <3>1, <3>2, <3>9
      <4> QED BY <3>2, <3>9, <4>1
    <3> QED BY <3>2, <3>5, <3>6, <3>7, <3>8, <3>9
  <2> QED BY <2>1, <2>2
<1>9. Worst(t) \in Int /\ Worst(new) \in Int /\ \A s \in Slots : t[s].d \in Int
  BY <1>2, <1>5 DEF Good, Worst, Slots
<1>10. ASSUME NEW j \in I \cup {i}
       PROVE  (\E s \in Slots : new[s].id = j) \/ D[j] >= Worst(new)
  <2>1. CASE j = i
    BY <1>3, <1>4, <2>1 DEF Inserted
  <2>2. CASE j \in I /\ \E s \in Slots : t[s].id = j
    <3>1. PICK s \in Slots : t[s].id = j
      BY <2>2
    <3>2. t[s].d = D[j]
      BY <1>1, <1>2, <2>2, <3>1
    <3> QED BY <1>4, <3>1, <3>2 DEF Inserted
  <2>3. CASE j \in I /\ D[j] >= Worst(t)
    BY <1>1, <1>4, <1>9, <2>3 DEF Inserted
  <2> QED BY <1>2, <2>1, <2>2, <2>3
<1>11. \A s \in Slots : new[s].id = 0 => \A j \in DOMAIN D : D[j] < new[s].d
  <2> SUFFICES ASSUME NEW s \in Slots, new[s].id = 0 PROVE \A j \in DOMAIN D : D[j] < new[s].d
    OBVIOUS
  <2>1. PICK r \in Slots : new[s] = t[r]
    BY <1>1, <1>3, <1>4 DEF Inserted
  <2> QED BY <1>2, <2>1
<1> QED BY <1>5, <1>6, <1>7, <1>8, <1>10, <1>11 DEF Fives

\* ... a phantom that lies behind all vectors, ...
LEMMA PhantomFives ==
  ASSUME NEW D, NEW L, NEW n, Distances(D, n), NEW I \in SUBSET (1 .. n), NEW t, Fives(t, D, L, I),
         NEW d \in 0 .. Infinity, \A i \in 1 .. n : D[i] < d, NEW l, NEW new, new = Insert(t, d, l, 0)
  PROVE  Fives(new, D, L, I)
<1>1. /\ Infinity \in Nat /\ n \in Nat /\ DOMAIN D = 1 .. n /\ 0 \notin I
      /\ \A j \in I : D[j] \in Int
  BY DEF Distances
<1>2. /\ Good(t) /\ Ascending(t)
      /\ \A s \in Slots : t[s].id \in {0} \cup I
      /\ \A s \in Slots : t[s].id # 0 => t[s].d = D[t[s].id] /\ t[s].label = L[t[s].id]
      /\ \A r, s \in Slots : t[r].id = t[s].id /\ t[r].id # 0 => r = s
      /\ \A j \in I : (\E s \in Slots : t[s].id = j) \/ D[j] >= Worst(t)
      /\ \A s \in Slots : t[s].id = 0 => \A j \in DOMAIN D : D[j] < t[s].d
  BY DEF Fives
<1>0. PICK c : c = Slot(d, l, 0)
  OBVIOUS
<1>3. c.d = d /\ c.id = 0
  BY <1>0 DEF Slot
<1>4. Inserted(new, t, c)
  BY <1>0, <1>1, <1>2, InsertIs
<1>5. Good(new) /\ Ascending(new)
  BY <1>4 DEF Inserted
<1>6. \A s \in Slots : new[s].id \in {0} \cup I
  BY <1>2, <1>3, <1>4 DEF Inserted
<1>7. \A s \in Slots : new[s].id # 0 => new[s].d = D[new[s].id] /\ new[s].label = L[new[s].id]
  BY <1>2, <1>3, <1>4 DEF Inserted
<1>8. ASSUME NEW r \in Slots, NEW s \in Slots, new[r].id = new[s].id, new[r].id # 0
      PROVE  r = s
  <2>1. CASE new = t
    BY <1>2, <1>8, <2>1
  <2>2. CASE new # t
    <3>1. PICK p \in Slots : /\ \A x \in Slots : x < p => new[x] = t[x]
                             /\ new[p] = c
                             /\ \A x \in Slots : x > p => new[x] = t[x - 1]
      BY <1>4, <2>2 DEF Inserted
    <3>2. \A x \in Slots : x \in Int /\ (x > p => x - 1 \in Slots)
      BY DEF Slots
    <3>3. r # p /\ s # p
      BY <1>3, <1>8, <3>1
    <3>4. CASE r < p /\ s < p
      BY <1>2, <1>8, <3>1, <3>4
    <3>5. CASE r > p /\ s > p
      <4>1. r - 1 = s - 1
        BY <1>2, <1>8, <3>1, <3>2, <3>5
      <4> QED BY <3>2, <4>1
    <3>6. CASE r < p /\ s > p
      <4>1. r = s - 1
        BY <1>2, <1>8, <3>1, <3>2, <3>6
      <4> QED BY <3>2, <3>6, <4>1
    <3>7. CASE s < p /\ r > p
      <4>1. s = r - 1
        BY <1>2, <1>8, <3>1, <3>2, <3>7
      <4> QED BY <3>2, <3>7, <4>1
    <3> QED BY <3>2, <3>3, <3>4, <3>5, <3>6, <3>7
  <2> QED BY <2>1, <2>2
<1>9. Worst(t) \in Int /\ Worst(new) \in Int /\ \A s \in Slots : t[s].d \in Int
  BY <1>2, <1>5 DEF Good, Worst, Slots
<1>10. ASSUME NEW j \in I
       PROVE  (\E s \in Slots : new[s].id = j) \/ D[j] >= Worst(new)
  <2>1. CASE \E s \in Slots : t[s].id = j
    <3>1. PICK s \in Slots : t[s].id = j
      BY <2>1
    <3>2. t[s].d = D[j]
      BY <1>1, <1>2, <3>1
    <3> QED BY <1>4, <3>1, <3>2 DEF Inserted
  <2>2. CASE D[j] >= Worst(t)
    BY <1>1, <1>4, <1>9, <2>2 DEF Inserted
  <2> QED BY <1>2, <2>1, <2>2
<1>11. \A s \in Slots : new[s].id = 0 => \A j \in DOMAIN D : D[j] < new[s].d
  BY <1>1, <1>2, <1>3, <1>4 DEF Inserted
<1> QED BY <1>5, <1>6, <1>7, <1>8, <1>10, <1>11 DEF Fives

\* ... and vectors as far as the fifth keep it so.
LEMMA FarFives ==
  ASSUME NEW D, NEW L, NEW I, NEW J, I \subseteq J, NEW t, Fives(t, D, L, I),
         \A i \in J \ I : D[i] >= Worst(t)
  PROVE  Fives(t, D, L, J)
BY DEF Fives

\* Of two fives of all the vectors, neither has a vector in a slot where the
\* other is farther away: the slots up to there would need as many others.
LEMMA FivesBelow ==
  ASSUME NEW D, NEW L, NEW n, Distances(D, n), NEW a, NEW b,
         Fives(a, D, L, 1 .. n), Fives(b, D, L, 1 .. n), NEW s \in Slots, b[s].id # 0
  PROVE  a[s].d <= b[s].d
<1>1. /\ DOMAIN D = 1 .. n /\ \A i \in 1 .. n : D[i] \in Int /\ i # 0
  BY DEF Distances
<1>2. /\ \A r \in Slots : a[r].d \in Int
      /\ \A r, q \in Slots : r <= q => a[r].d <= a[q].d
      /\ \A r \in Slots : a[r].id # 0 => a[r].d = D[a[r].id]
      /\ \A i \in 1 .. n : (\E r \in Slots : a[r].id = i) \/ D[i] >= Worst(a)
  <2>1. Good(a) /\ Ascending(a)
    BY DEF Fives
  <2>2. \A r \in Slots : a[r].d \in Int
    BY <2>1 DEF Good
  <2>3. \A r, q \in Slots : r <= q => a[r].d <= a[q].d
    BY <2>1, <2>2, Climbs
  <2> QED BY <2>2, <2>3 DEF Fives
<1>3. /\ \A r \in Slots : b[r].d \in Int /\ b[r].id \in {0} \cup 1 .. n
      /\ \A r, q \in Slots : r <= q => b[r].d <= b[q].d
      /\ \A r \in Slots : b[r].id # 0 => b[r].d = D[b[r].id]
      /\ \A r, q \in Slots : b[r].id = b[q].id /\ b[r].id # 0 => r = q
      /\ \A r \in Slots : b[r].id = 0 => \A i \in 1 .. n : D[i] < b[r].d
  <2>1. Good(b) /\ Ascending(b)
    BY DEF Fives
  <2>2. \A r \in Slots : b[r].d \in Int
    BY <2>1 DEF Good
  <2>3. \A r, q \in Slots : r <= q => b[r].d <= b[q].d
    BY <2>1, <2>2, Climbs
  <2> QED BY <1>1, <2>2, <2>3 DEF Fives
<1> SUFFICES ASSUME a[s].d > b[s].d PROVE FALSE
  BY <1>2, <1>3
<1>4. s \in 1 .. 5 /\ 5 \in Slots /\ Worst(a) = a[5].d /\ \A r \in 1 .. s : r \in Slots
  BY DEF Slots, Worst
<1>5. ASSUME NEW r \in 1 .. s
      PROVE  /\ b[r].id # 0
             /\ \E q \in 1 .. s - 1 : a[q].id = b[r].id
  <2>1. r \in Slots /\ b[r].d <= b[s].d /\ b[s].id \in 1 .. n /\ D[b[s].id] = b[s].d
    BY <1>3, <1>4
  <2>2. b[r].id # 0
    BY <1>1, <1>3, <2>1
  <2>3. b[r].id \in 1 .. n /\ D[b[r].id] = b[r].d
    BY <1>3, <2>1, <2>2
  <2>4. D[b[r].id] < a[s].d /\ a[s].d <= Worst(a)
    BY <1>2, <1>3, <1>4, <2>1, <2>3
  <2>5. ~(D[b[r].id] >= Worst(a))
    BY <1>1, <1>2, <1>4, <2>3, <2>4
  <2>6. PICK q \in Slots : a[q].id = b[r].id
    BY <1>2, <2>3, <2>5
  <2>7. a[q].d = D[b[r].id]
    BY <1>2, <2>2, <2>6
  <2>8. ~(s <= q)
    BY <1>1, <1>2, <2>3, <2>4, <2>7
  <2>9. q \in 1 .. s - 1
    BY <1>4, <2>8 DEF Slots
  <2> QED BY <2>2, <2>6, <2>9
<1> DEFINE f == [r \in 1 .. s |-> CHOOSE q \in 1 .. s - 1 : a[q].id = b[r].id]
<1>6. \A r \in 1 .. s : f[r] \in 1 .. s - 1 /\ a[f[r]].id = b[r].id
  BY <1>5
<1>7. f \in [1 .. s -> 1 .. s - 1]
  BY <1>6
<1> HIDE DEF f
<1>8. /\ IsFiniteSet(1 .. s) /\ Cardinality(1 .. s) = s
      /\ IsFiniteSet(1 .. s - 1) /\ Cardinality(1 .. s - 1) = s - 1
  <2>1. s \in Int /\ s - 1 \in Int /\ 1 \in Int /\ s >= 1 /\ (1 > s - 1 => s - 1 = 0)
    BY <1>4
  <2>2. /\ IsFiniteSet(1 .. s) /\ Cardinality(1 .. s) = IF 1 > s THEN 0 ELSE s - 1 + 1
        /\ IsFiniteSet(1 .. s - 1) /\ Cardinality(1 .. s - 1) = IF 1 > s - 1 THEN 0 ELSE s - 1 - 1 + 1
    BY <2>1, FS_Interval
  <2> QED BY <2>1, <2>2
<1>9. Cardinality(1 .. s - 1) < Cardinality(1 .. s)
  BY <1>4, <1>8
<1>10. \E r, q \in 1 .. s : r # q /\ f[r] = f[q]
  BY <1>7, <1>8, <1>9, FS_PigeonHole
<1>11. PICK r \in 1 .. s, q \in 1 .. s : r # q /\ f[r] = f[q]
  BY <1>10
<1>12. b[r].id = b[q].id /\ b[r].id # 0
  BY <1>5, <1>6, <1>11
<1> QED BY <1>3, <1>4, <1>11, <1>12

\* Where one of two fives of all the vectors has a vector, the other has the
\* same distance.
LEMMA FivesAgree ==
  ASSUME NEW D, NEW L, NEW n, Distances(D, n), NEW a, NEW b,
         Fives(a, D, L, 1 .. n), Fives(b, D, L, 1 .. n), NEW s \in Slots, b[s].id # 0
  PROVE  a[s].id # 0 /\ a[s].d = b[s].d
<1>1. a[s].d <= b[s].d
  BY FivesBelow
<1>2. /\ a[s].d \in Int /\ b[s].d \in Int
      /\ b[s].id \in 1 .. n /\ D[b[s].id] = b[s].d
      /\ a[s].id = 0 => D[b[s].id] < a[s].d
  <2>1. Good(a) /\ Good(b)
    BY DEF Fives
  <2>2. a[s].d \in Int /\ b[s].d \in Int
    BY <2>1 DEF Good
  <2>3. b[s].id \in 1 .. n /\ D[b[s].id] = b[s].d
    BY DEF Fives
  <2>4. a[s].id = 0 => D[b[s].id] < a[s].d
    BY <2>3 DEF Fives, Distances
  <2> QED BY <2>2, <2>3, <2>4
<1>3. a[s].id # 0
  BY <1>1, <1>2
<1>4. b[s].d <= a[s].d
  BY <1>3, FivesBelow
<1> QED BY <1>1, <1>2, <1>3, <1>4

\* The sum over five elements.
Different(v, w, x, y, z) ==
  v \notin {w, x, y, z} /\ w \notin {x, y, z} /\ x \notin {y, z} /\ y # z

LEMMA SumOfFive ==
  ASSUME NEW f, NEW S, NEW v, NEW w, NEW x, NEW y, NEW z, S = {v, w, x, y, z},
         Different(v, w, x, y, z), \A e \in S : f[e] \in Int
  PROVE  Sum(f, S) = f[v] + f[w] + f[x] + f[y] + f[z]
<1> DEFINE A == S  B == {w, x, y, z}  C == {x, y, z}
<1>1. A \ {v} = B /\ B \ {w} = C /\ C \ {x} = {y, z} /\ {y, z} \ {y} = {z} /\ {z} \ {z} = {}
  BY DEF Different
<1>2. IsFiniteSet({z}) /\ IsFiniteSet({y, z}) /\ IsFiniteSet(C) /\ IsFiniteSet(B) /\ IsFiniteSet(A)
  <2>1. IsFiniteSet({z})
    BY FS_Singleton
  <2>2. IsFiniteSet({y, z})
    <3>1. {y, z} = {z} \cup {y}
      OBVIOUS
    <3> QED BY <2>1, <3>1, FS_AddElement
  <2>3. IsFiniteSet(C)
    <3>1. C = {y, z} \cup {x}
      OBVIOUS
    <3> QED BY <2>2, <3>1, FS_AddElement
  <2>4. IsFiniteSet(B)
    <3>1. B = C \cup {w}
      OBVIOUS
    <3> QED BY <2>3, <3>1, FS_AddElement
  <2>5. IsFiniteSet(A)
    <3>1. A = B \cup {v}
      OBVIOUS
    <3> QED BY <2>4, <3>1, FS_AddElement
  <2> QED BY <2>1, <2>2, <2>3, <2>4, <2>5
<1>3. /\ \A e \in A : f[e] \in Int
      /\ \A e \in B : f[e] \in Int
      /\ \A e \in C : f[e] \in Int
      /\ \A e \in {y, z} : f[e] \in Int
      /\ \A e \in {z} : f[e] \in Int
  OBVIOUS
<1>4. v \in A /\ w \in B /\ x \in C /\ y \in {y, z} /\ z \in {z}
  OBVIOUS
<1> HIDE DEF A, B, C
<1>5. Sum(f, A) = f[v] + Sum(f, B)
  BY <1>1, <1>2, <1>3, <1>4, SumRemove
<1>6. Sum(f, B) = f[w] + Sum(f, C)
  BY <1>1, <1>2, <1>3, <1>4, SumRemove
<1>7. Sum(f, C) = f[x] + Sum(f, {y, z})
  BY <1>1, <1>2, <1>3, <1>4, SumRemove
<1>8. Sum(f, {y, z}) = f[y] + Sum(f, {z})
  BY <1>1, <1>2, <1>3, <1>4, SumRemove
<1>9. Sum(f, {z}) = f[z] + Sum(f, {})
  BY <1>1, <1>2, <1>3, <1>4, SumRemove
<1>10. Sum(f, {}) = 0
  <2>1. IsFiniteSet({}) /\ \A e \in {} : f[e] \in Int
    BY FS_EmptySet
  <2> QED BY <2>1, SumStep
<1>11. f[v] \in Int /\ f[w] \in Int /\ f[x] \in Int /\ f[y] \in Int /\ f[z] \in Int
  BY <1>3, <1>4
<1> QED BY <1>5, <1>6, <1>7, <1>8, <1>9, <1>10, <1>11 DEF A

\* Five slots with a vector each, none twice.
AllTaken(t, L, I) ==
  /\ \A s \in Slots : t[s].id \in I /\ t[s].label = L[t[s].id]
  /\ \A r, s \in Slots : t[r].id = t[s].id => r = s

LEMMA FiveSlots == IsFiniteSet(Slots) /\ Cardinality(Slots) = 5
<1>1. 1 \in Int /\ 5 \in Int
  OBVIOUS
<1>2. IsFiniteSet(1 .. 5) /\ Cardinality(1 .. 5) = IF 1 > 5 THEN 0 ELSE 5 - 1 + 1
  BY <1>1, FS_Interval
<1> QED BY <1>2 DEF Slots

LEMMA CountTaken ==
  ASSUME NEW I, IsFiniteSet(I), Cardinality(I) = 5, NEW L, \A i \in I : L[i] \in Int,
         NEW t, AllTaken(t, L, I)
  PROVE  FraudCount(t) = Sum(L, I)
<1> DEFINE h == [s \in Slots |-> t[s].id]
<1>1. IsFiniteSet(Slots) /\ Cardinality(Slots) = 5
  BY FiveSlots
<1>2. h \in Injection(Slots, I)
  BY DEF AllTaken, Injection, IsInjective
<1>3. h \in Surjection(Slots, I)
  <2> HIDE DEF h
  <2>1. Cardinality(Slots) = Cardinality(I)
    BY <1>1
  <2> QED BY <1>2, <2>1, FS_Injection
<1>4. \A i \in I : \E s \in Slots : t[s].id = i
  BY <1>3 DEF Surjection
<1>5. I = {t[1].id, t[2].id, t[3].id, t[4].id, t[5].id}
  BY <1>4 DEF AllTaken, Slots
<1>6. /\ t[1].id \notin {t[2].id, t[3].id, t[4].id, t[5].id}
      /\ t[2].id \notin {t[3].id, t[4].id, t[5].id}
      /\ t[3].id \notin {t[4].id, t[5].id} /\ t[4].id # t[5].id
  BY DEF AllTaken, Slots
<1>7. Sum(L, I) = L[t[1].id] + L[t[2].id] + L[t[3].id] + L[t[4].id] + L[t[5].id]
  <2>1. PICK v, w, x, y, z : v = t[1].id /\ w = t[2].id /\ x = t[3].id /\ y = t[4].id /\ z = t[5].id
    OBVIOUS
  <2>2. I = {v, w, x, y, z}
    BY <1>5, <2>1
  <2>3. Different(v, w, x, y, z)
    BY <1>6, <2>1 DEF Different
  <2>4. Sum(L, I) = L[v] + L[w] + L[x] + L[y] + L[z]
    BY <2>2, <2>3, SumOfFive
  <2> QED BY <2>1, <2>4
<1>8. /\ t[1].label = L[t[1].id] /\ t[2].label = L[t[2].id] /\ t[3].label = L[t[3].id]
      /\ t[4].label = L[t[4].id] /\ t[5].label = L[t[5].id]
  BY DEF AllTaken, Slots
<1> QED BY <1>7, <1>8 DEF FraudCount

\* Unless vectors tie for the fifth place, two fives of all the vectors have
\* the same labels.
LEMMA FivesCount ==
  ASSUME NEW D, NEW n, Distances(D, n), NEW L \in [1 .. n -> Int], NEW a, NEW b,
         Fives(a, D, L, 1 .. n), Fives(b, D, L, 1 .. n),
         NEW N, N = {i \in 1 .. n : D[i] <= Worst(b)}, Cardinality(N) = 5
  PROVE  FraudCount(a) = FraudCount(b)
<1>1. /\ n \in Nat /\ DOMAIN D = 1 .. n /\ \A i \in 1 .. n : D[i] \in Int /\ i # 0
  BY DEF Distances
<1>2. IsFiniteSet(N)
  <2>1. IsFiniteSet(1 .. n)
    BY <1>1, FS_Interval
  <2> QED BY <2>1, FS_Subset
<1>3. IsFiniteSet(Slots) /\ Cardinality(Slots) = 5
  BY FiveSlots
<1>4. /\ \A r \in Slots : b[r].d \in Int
      /\ \A r \in Slots : b[r].d <= Worst(b)
      /\ Worst(b) \in Int
  <2>1. Good(b) /\ Ascending(b)
    BY DEF Fives
  <2>2. \A r \in Slots : b[r].d \in Int
    BY <2>1 DEF Good
  <2>3. \A r, q \in Slots : r <= q => b[r].d <= b[q].d
    BY <2>1, <2>2, Climbs
  <2>4. 5 \in Slots /\ \A r \in Slots : r <= 5
    BY DEF Slots
  <2> QED BY <2>2, <2>3, <2>4 DEF Worst
<1>5. ASSUME NEW p \in Slots PROVE b[p].id # 0
  <2> SUFFICES ASSUME b[p].id = 0 PROVE FALSE
    OBVIOUS
  <2>1. \A i \in 1 .. n : D[i] < b[p].d
    BY <1>1 DEF Fives
  <2>2. \A i \in 1 .. n : ~(D[i] >= Worst(b))
    BY <1>1, <1>4, <2>1
  <2>3. \A i \in N : \E s \in Slots \ {p} : b[s].id = i
    <3> TAKE i \in N
    <3>1. i \in 1 .. n /\ i # 0
      BY <1>1
    <3>2. PICK s \in Slots : b[s].id = i
      BY <2>2, <3>1 DEF Fives
    <3> QED BY <3>1, <3>2
  <2> DEFINE g == [i \in N |-> CHOOSE s \in Slots \ {p} : b[s].id = i]
  <2>4. \A i \in N : g[i] \in Slots \ {p} /\ b[g[i]].id = i
    BY <2>3
  <2>5. g \in [N -> Slots \ {p}]
    BY <2>4
  <2> HIDE DEF g
  <2>6. IsFiniteSet(Slots \ {p}) /\ Cardinality(Slots \ {p}) = 4
    BY <1>3, FS_RemoveElement
  <2>7. \E i, j \in N : i # j /\ g[i] = g[j]
    <3>1. Cardinality(Slots \ {p}) < Cardinality(N)
      BY <2>6
    <3> QED BY <1>2, <2>5, <2>6, <3>1, FS_PigeonHole
  <2> QED BY <2>4, <2>7
<1>6. ASSUME NEW s \in Slots PROVE a[s].id # 0 /\ a[s].d = b[s].d
  BY <1>5, FivesAgree
<1>7. \A i \in N : L[i] \in Int
  OBVIOUS
<1>8. AllTaken(b, L, N)
  <2>1. ASSUME NEW s \in Slots PROVE b[s].id \in N /\ b[s].label = L[b[s].id]
    <3>1. b[s].id \in 1 .. n /\ b[s].d = D[b[s].id] /\ b[s].label = L[b[s].id]
      BY <1>5 DEF Fives
    <3> QED BY <1>4, <3>1
  <2>2. \A r, s \in Slots : b[r].id = b[s].id => r = s
    BY <1>5 DEF Fives
  <2> QED BY <2>1, <2>2 DEF AllTaken
<1>9. AllTaken(a, L, N)
  <2>1. ASSUME NEW s \in Slots PROVE a[s].id \in N /\ a[s].label = L[a[s].id]
    <3>1. a[s].id \in 1 .. n /\ a[s].d = D[a[s].id] /\ a[s].label = L[a[s].id]
      BY <1>6 DEF Fives
    <3> QED BY <1>4, <1>6, <3>1
  <2>2. \A r, s \in Slots : a[r].id = a[s].id => r = s
    BY <1>6 DEF Fives
  <2> QED BY <2>1, <2>2 DEF AllTaken
<1>10. FraudCount(a) = Sum(L, N) /\ FraudCount(b) = Sum(L, N)
  BY <1>2, <1>7, <1>8, <1>9, CountTaken
<1> QED BY <1>10
-----------------------------------------------------------------------------
(* Brute force.                                                            *)

\* What brute force holds after the first k vectors.
Inserts(acc, D, L, n) ==
  /\ acc[0] = ResetTop
  /\ \A k \in 1 .. n : acc[k] = BruteInsert(acc[k - 1], D[k], L[k], k)
  /\ BruteFive(D, L) = acc[n]

LEMMA BruteInserts ==
  ASSUME NEW D, NEW n, Distances(D, n), NEW L \in [1 .. n -> {0, 1}]
  PROVE  \E acc : Inserts(acc, D, L, n)
<1> DEFINE S == 1 .. n
           T == [d : 0 .. Infinity, label : {0, 1}, id : Nat]
           V == [Slots -> T]
           Put(t, i) == BruteInsert(t, D[i], L[i], i)
           id == [i \in DOMAIN D |-> i]
           Folded(g) == g = [s \in SUBSET S |-> IF s = {} THEN ResetTop
                              ELSE BruteInsert(g[s \ {Max(s)}], D[id[Max(s)]], L[id[Max(s)]], id[Max(s)])]
           F == [k \in S |-> [v \in V |-> Put(v, k)]]
           pick == [s \in SUBSET S |-> Max(s)]
<1>0. /\ Infinity \in Nat /\ n \in Nat /\ DOMAIN D = S
      /\ \A i \in S : D[i] \in 0 .. Infinity - 1 /\ L[i] \in {0, 1}
  BY DEF Distances
<1>1. BruteFive(D, L) = (CHOOSE g : Folded(g))[S]
  <2>1. DOMAIN id = S
    BY <1>0
  <2> QED BY <2>1 DEF BruteFive, FoldLeft, MapThenFoldSet
<1>2. ASSUME NEW v \in V, NEW k \in S PROVE Put(v, k) \in V
  <2>1. PICK d, l : d = D[k] /\ l = L[k]
    OBVIOUS
  <2>2. d \in 0 .. Infinity - 1 /\ l \in {0, 1} /\ k \in Nat
    BY <1>0, <2>1
  <2>3. d \in Int /\ d \in 0 .. Infinity
    BY <1>0, <2>2
  <2>4. Slot(d, l, k) \in T
    BY <2>2, <2>3 DEF Slot
  <2>5. \A s \in Slots : v[s].d \in Int
    OBVIOUS
  <2> HIDE DEF T
  <2>6. BruteInsert(v, d, l, k) \in [Slots -> T]
    BY <2>3, <2>4, <2>5, BruteTyped
  <2> QED BY <2>1, <2>6
<1>3. ResetTop \in V
  BY <1>0 DEF ResetTop, Slot
<1>4. \E g \in [SUBSET S -> V] : Folded(g)
  <2>1. IsFiniteSet(S) /\ \A s \in SUBSET S : s # {} => pick[s] \in s
    BY <1>0, LastOf
  <2>2. F \in [S -> [V -> V]]
    <3> HIDE DEF V, S, Put
    <3> QED BY <1>2
  <2>3. PICK g \in [SUBSET S -> V] : FoldOf(g, F, ResetTop, pick, S)
    <3> HIDE DEF F, pick, V, S
    <3>1. FoldStep(F, ResetTop, pick, S, V)
      BY <1>3, <2>1, <2>2 DEF FoldStep
    <3> QED BY <3>1, FoldsExist
  <2>4. \A s \in SUBSET S : g[s] = IF s = {} THEN ResetTop
                              ELSE BruteInsert(g[s \ {Max(s)}], D[id[Max(s)]], L[id[Max(s)]], id[Max(s)])
    <3> TAKE s \in SUBSET S
    <3>1. CASE s # {}
      <4>1. pick[s] = Max(s) /\ Max(s) \in s /\ id[Max(s)] = Max(s)
        BY <1>0, <2>1, <3>1
      <4>2. Max(s) \in S /\ g[s \ {Max(s)}] \in V
        BY <4>1
      <4>3. F[Max(s)][g[s \ {Max(s)}]] = Put(g[s \ {Max(s)}], Max(s))
        <5> HIDE DEF V, S, Put
        <5> QED BY <4>2
      <4>4. g[s] = F[Max(s)][g[s \ {Max(s)}]]
        <5> HIDE DEF F, pick, V, S, id
        <5> QED BY <2>3, <3>1, <4>1 DEF FoldOf
      <4> HIDE DEF F, pick, V, id
      <4> QED BY <3>1, <4>1, <4>3, <4>4
    <3>2. CASE s = {}
      BY <2>3, <3>2 DEF FoldOf
    <3> QED BY <3>1, <3>2
  <2> HIDE DEF V
  <2>5. Folded(g)
    BY <2>4
  <2> QED BY <2>5
<1> DEFINE g == CHOOSE g : Folded(g)
<1>5. Folded(g)
  <2> HIDE DEF Folded
  <2> QED BY <1>4
<1> HIDE DEF g
<1>6. ASSUME NEW s \in SUBSET S, s # {}
      PROVE  g[s] = Put(g[s \ {Max(s)}], Max(s))
  <2>1. Max(s) \in s
    BY <1>0, <1>6, LastOf
  <2>2. id[Max(s)] = Max(s)
    BY <1>0, <2>1
  <2> QED BY <1>5, <1>6, <2>2
<1>7. g[{}] = ResetTop
  BY <1>5
<1> DEFINE acc == [k \in 0 .. n |-> g[1 .. k]]
<1>8. acc[0] = ResetTop /\ acc[n] = g[S]
  <2>1. 1 .. 0 = {} /\ 0 \in 0 .. n /\ n \in 0 .. n
    BY <1>0
  <2> QED BY <1>7, <2>1
<1>9. ASSUME NEW k \in 1 .. n PROVE acc[k] = Put(acc[k - 1], k)
  <2>1. Max(1 .. k) = k /\ (1 .. k) \ {k} = 1 .. k - 1 /\ 1 .. k \in SUBSET S
    BY <1>0, LastOf
  <2>2. k \in 1 .. k /\ k \in 0 .. n /\ k - 1 \in 0 .. n
    BY <1>0
  <2>3. g[1 .. k] = Put(g[1 .. k - 1], k)
    <3>1. 1 .. k # {}
      BY <2>2
    <3> HIDE DEF Put
    <3> QED BY <1>6, <2>1, <3>1
  <2> QED BY <2>2, <2>3
<1> HIDE DEF acc, Folded, Put
<1>10. BruteFive(D, L) = acc[n]
  BY <1>1, <1>8 DEF g
<1>11. \A k \in 1 .. n : acc[k] = Put(acc[k - 1], k)
  BY <1>9
<1>12. Inserts(acc, D, L, n)
  BY <1>8, <1>10, <1>11 DEF Inserts, Put
<1> QED BY <1>12

\* Brute force holds the five nearest of all vectors.
LEMMA BruteFives ==
  ASSUME NEW D, NEW n, Distances(D, n), NEW L \in [1 .. n -> {0, 1}], NEW b, b = BruteFive(D, L)
  PROVE  Fives(b, D, L, 1 .. n)
<1>2. n \in Nat /\ \A i \in 1 .. n : D[i] \in 0 .. Infinity
  BY DEF Distances
<1>4. PICK acc : Inserts(acc, D, L, n)
  BY BruteInserts
<1>5. /\ acc[0] = ResetTop /\ b = acc[n]
      /\ \A k \in 1 .. n : acc[k] = BruteInsert(acc[k - 1], D[k], L[k], k)
  BY <1>4 DEF Inserts
<1> DEFINE T == {k \in Nat : k <= n => Fives(acc[k], D, L, 1 .. k)}
<1>6. 0 \in T
  <2>1. 1 .. 0 = {}
    OBVIOUS
  <2>2. Fives(ResetTop, D, L, {})
    BY <1>2, ResetFives
  <2> QED BY <1>5, <2>1, <2>2
<1>7. ASSUME NEW k \in Nat, k \in T PROVE k + 1 \in T
  <2> SUFFICES ASSUME k + 1 <= n PROVE Fives(acc[k + 1], D, L, 1 .. k + 1)
    OBVIOUS
  <2>1. Fives(acc[k], D, L, 1 .. k)
    BY <1>2, <1>7
  <2>2. PICK t, i : t = acc[k] /\ i = k + 1
    OBVIOUS
  <2>3. i \in 1 .. n /\ i \notin 1 .. k /\ 1 .. k \in SUBSET (1 .. n) /\ 1 .. k + 1 = (1 .. k) \cup {i} /\ i - 1 = k
    BY <1>2, <2>2
  <2>4. acc[k + 1] = BruteInsert(t, D[i], L[i], i)
    BY <1>5, <2>2, <2>3
  <2>5. BruteInsert(t, D[i], L[i], i) = Insert(t, D[i], L[i], i)
    <3>1. Good(t) /\ Ascending(t) /\ Infinity \in Nat
      BY <1>2, <2>1, <2>2 DEF Fives, Distances
    <3>2. D[i] \in 0 .. Infinity
      BY <1>2, <2>3
    <3> QED BY <3>1, <3>2, BruteIsInsert
  <2>6. Fives(acc[k + 1], D, L, (1 .. k) \cup {i})
    <3>1. Fives(t, D, L, 1 .. k)
      BY <2>1, <2>2
    <3> QED BY <1>2, <2>3, <2>4, <2>5, <3>1, TakeFives
  <2> QED BY <2>3, <2>6
<1> HIDE DEF T
<1>8. n \in T
  BY <1>2, <1>6, <1>7, Induction
<1>9. Fives(acc[n], D, L, 1 .. n)
  BY <1>2, <1>8 DEF T
<1> QED BY <1>5, <1>9

=============================================================================
