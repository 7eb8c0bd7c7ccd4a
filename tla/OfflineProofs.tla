--------------------------- MODULE OfflineProofs ----------------------------
(***************************************************************************)
(* The index files, for any builds and readers; the vectorizer, for any    *)
(* payloads; the calendar, from any year on; the calibration, for any      *)
(* records.                                                                *)
(***************************************************************************)
EXTENDS IndexFile, Vectorize, Days, Calibrate, SearchLemmas

-----------------------------------------------------------------------------
(* IndexFile.                                                              *)

LEMMA LengthsAre ==
  ASSUME NEW b \in Builds
  PROVE  /\ Lengths(b) \in Seq(Nat)
         /\ \E n \in {4, 6} : Len(Lengths(b)) = n /\ DOMAIN Lengths(b) = 1 .. n
<1>1. CASE b \in IvfBuilds
  <2> DEFINE q == <<PerCluster * b.k, b.k + 1, PerCluster * b.k, PerCluster * b.k,
                    PerBlock * b.blocks, PerBlock * b.blocks>>
  <2>1. b.k \in Nat /\ b.blocks \in Nat /\ PerCluster \in Nat /\ PerBlock \in Nat
    BY <1>1, IndexFileAssumption
  <2>2. PerCluster * b.k \in Nat /\ b.k + 1 \in Nat /\ PerBlock * b.blocks \in Nat
    BY <2>1
  <2>3. q \in Seq(Nat) /\ Len(q) = 6 /\ DOMAIN q = 1 .. 6
    BY <2>2
  <2>4. Lengths(b) = q
    BY <1>1 DEF Lengths
  <2> HIDE DEF q
  <2> QED BY <2>3, <2>4
<1>2. CASE b \notin IvfBuilds
  <2> DEFINE q == <<b.parts, b.nodes, PerBlock * b.blocks, PerBlock * b.blocks>>
  <2>1. b.parts \in Nat /\ b.nodes \in Nat /\ b.blocks \in Nat /\ PerBlock \in Nat
    BY <1>2, IndexFileAssumption DEF Builds
  <2>2. PerBlock * b.blocks \in Nat
    BY <2>1
  <2>3. q \in Seq(Nat) /\ Len(q) = 4 /\ DOMAIN q = 1 .. 4
    BY <2>1, <2>2
  <2>4. Lengths(b) = q
    BY <1>2 DEF Lengths
  <2> HIDE DEF q
  <2> QED BY <2>3, <2>4
<1> QED BY <1>1, <1>2

LEMMA OffsetIs ==
  ASSUME NEW b, NEW s
  PROVE  Offset(b, s) = 1 + Sum(Lengths(b), 1 .. s - 1)
<1> DEFINE S == 1 .. s - 1
<1>1. Offset(b, s) = 1 + (CHOOSE g : Sums(g, Lengths(b), S))[S]
  BY DEF Offset, MapThenSumSet, MapThenFoldSet, Sums, Some
<1> HIDE DEF S
<1>2. Sum(Lengths(b), S) = (CHOOSE g : Sums(g, Lengths(b), S))[S]
  BY SumIs
<1> QED BY <1>1, <1>2 DEF S

\* Serialize puts section s of build b behind its offset.
Layout(b, n, data) ==
  /\ data \in Seq([build : {b}, section : Nat, at : Nat])
  /\ data[1] = Cell(b, 0, 0) /\ Len(data) = Offset(b, n) + Lengths(b)[n]
  /\ \A s \in 1 .. n : /\ Offset(b, s) \in Nat \ {0} /\ Lengths(b)[s] \in Nat
                       /\ Offset(b, s) + Lengths(b)[s] <= Len(data)
                       /\ \A i \in 1 .. Lengths(b)[s] : data[Offset(b, s) + i] = Cell(b, s, i)

LEMMA ContentIs ==
  ASSUME NEW b \in Builds
  PROVE  \E n \in {4, 6} : /\ Len(Lengths(b)) = n /\ DOMAIN Lengths(b) = 1 .. n
                           /\ Layout(b, n, Content(b))
<1>1. Lengths(b) \in Seq(Nat)
  BY LengthsAre
<1>2. PICK n \in {4, 6} : Len(Lengths(b)) = n /\ DOMAIN Lengths(b) = 1 .. n
  BY LengthsAre
<1> DEFINE L == Lengths(b)
           X == [build : {b}, section : Nat, at : Nat]
           seqs == [s \in 1 .. n |-> Section(b, s)]
           start == [c \in 1 .. n + 1 |-> Sum(L, 1 .. c - 1)]
           sum == [m \in 0 .. n |-> Sum(L, 1 .. m)]
<1>3. n \in Nat /\ \A s \in 1 .. n : L[s] \in Nat
  BY <1>1, <1>2
<1>4. seqs \in [1 .. n -> Seq(X)] /\ \A s \in 1 .. n : Len(seqs[s]) = L[s]
  <2> SUFFICES ASSUME NEW s \in 1 .. n PROVE Section(b, s) \in Seq(X) /\ Len(Section(b, s)) = L[s]
    OBVIOUS
  <2>1. \A i \in 1 .. L[s] : Cell(b, s, i) \in X
    BY <1>3 DEF Cell
  <2> HIDE DEF X
  <2>2. PICK m \in Nat : m = L[s]
    BY <1>3
  <2>3. Section(b, s) = [i \in 1 .. m |-> Cell(b, s, i)]
    BY <2>2 DEF Section
  <2> QED BY <2>1, <2>2, <2>3
<1>5. \A m \in 0 .. n : sum[m] = Sum(L, 1 .. m) /\ sum[m] \in Int
  <2> TAKE m \in 0 .. n
  <2>1. m \in Int
    OBVIOUS
  <2>2. IsFiniteSet(1 .. m)
    BY <2>1, FS_Interval
  <2>3. \A x \in 1 .. m : L[x] \in Int
    BY <1>3
  <2> HIDE DEF L
  <2>4. Sum(L, 1 .. m) \in Int
    BY <2>2, <2>3, SumStep
  <2> QED BY <2>4
<1>6. \A m \in 1 .. n : sum[m] = sum[m - 1] + L[m]
  <2> TAKE m \in 1 .. n
  <2>1. m \in Int /\ m \in 1 .. m /\ (1 .. m) \ {m} = 1 .. m - 1 /\ m \in 0 .. n /\ m - 1 \in 0 .. n
    OBVIOUS
  <2>2. IsFiniteSet(1 .. m)
    BY <2>1, FS_Interval
  <2>3. \A x \in 1 .. m : L[x] \in Int
    BY <1>3
  <2>4. L[m] \in Int
    BY <1>3
  <2> HIDE DEF L, sum
  <2>5. Sum(L, 1 .. m) = L[m] + Sum(L, (1 .. m) \ {m})
    BY <2>1, <2>2, <2>3, SumRemove
  <2>6. sum[m] = Sum(L, 1 .. m) /\ sum[m - 1] = Sum(L, 1 .. m - 1) /\ sum[m - 1] \in Int
    BY <1>5, <2>1
  <2>7. Sum(L, 1 .. m) = L[m] + Sum(L, 1 .. m - 1)
    BY <2>1, <2>5
  <2>8. sum[m] = L[m] + sum[m - 1]
    BY <2>6, <2>7
  <2> QED BY <2>4, <2>6, <2>8
<1>7. sum[0] = 0
  <2>1. 0 \in 0 .. n /\ 1 .. 0 = {} /\ IsFiniteSet({})
    BY FS_EmptySet
  <2> HIDE DEF L, sum
  <2>2. Sum(L, {}) = 0
    BY <2>1, SumStep
  <2> QED BY <1>5, <2>1, <2>2
<1>8. \A c \in 1 .. n + 1 : c - 1 \in 0 .. n /\ start[c] = sum[c - 1]
  OBVIOUS
<1>9. \A c \in 1 .. n : start[c + 1] = start[c] + L[c]
  <2> TAKE c \in 1 .. n
  <2>1. c \in 1 .. n + 1 /\ c + 1 \in 1 .. n + 1 /\ (c + 1) - 1 = c
    OBVIOUS
  <2> HIDE DEF L, sum, start
  <2> QED BY <1>6, <1>8, <2>1
<1> HIDE DEF sum, start, X
<1>10. Starts(start, seqs, n, X)
  <2>1. 1 \in 1 .. n + 1 /\ 1 - 1 = 0
    OBVIOUS
  <2>2. start[1] = 0
    BY <1>7, <1>8, <2>1
  <2>3. \A c \in 1 .. n + 1 : start[c] \in Int
    BY <1>5, <1>8
  <2>4. \A c \in 1 .. n : seqs[c] \in Seq(X) /\ start[c + 1] = start[c] + Len(seqs[c])
    BY <1>4, <1>9
  <2> HIDE DEF seqs, L
  <2> QED BY <2>2, <2>3, <2>4 DEF Starts
<1>11. PICK data : data = Joined(seqs)
  OBVIOUS
<1>12. data \in Seq(X) /\ Placed(data, start, seqs, n)
  <2> HIDE DEF seqs
  <2> QED BY <1>3, <1>4, <1>10, <1>11, Concatenation
<1>13. PICK head : head = <<Cell(b, 0, 0)>>
  OBVIOUS
<1>14. head \in Seq(X) /\ Len(head) = 1 /\ head[1] = Cell(b, 0, 0)
  <2>1. Cell(b, 0, 0) \in X
    BY DEF X, Cell
  <2> QED BY <1>13, <2>1
<1>15. PICK all : all = Content(b)
  OBVIOUS
<1>16. all = head \o data
  <2>1. Content(b) = <<Cell(b, 0, 0)>> \o Joined(seqs)
    BY <1>2 DEF Content, Joined, FoldLeft, MapThenFoldSet
  <2> HIDE DEF seqs
  <2> QED BY <1>11, <1>13, <1>15, <2>1
<1>17. /\ all \in Seq(X) /\ Len(data) \in Nat /\ Len(all) = 1 + Len(data) /\ all[1] = Cell(b, 0, 0)
       /\ \A i \in 1 .. Len(data) : all[1 + i] = data[i]
  <2> HIDE DEF seqs
  <2>1. /\ all \in Seq(X) /\ Len(head) \in Nat /\ Len(data) \in Nat /\ Len(all) = Len(head) + Len(data)
        /\ \A x \in 1 .. Len(head) : all[x] = head[x]
        /\ \A i \in 1 .. Len(data) : all[Len(head) + i] = data[i]
    <3>1. data \in Seq(X) /\ head \in Seq(X)
      BY <1>12, <1>14
    <3> QED BY <1>16, <3>1, ConcatFacts
  <2> QED BY <1>14, <2>1
<1>18. /\ Len(data) = start[n + 1]
       /\ \A s \in 1 .. n : start[s] \in Nat /\ start[s + 1] <= start[n + 1]
       /\ \A s \in 1 .. n : \A i \in 1 .. L[s] : data[start[s] + i] = Cell(b, s, i)
  <2>1. \A s \in 1 .. n : \A i \in 1 .. L[s] : seqs[s][i] = Cell(b, s, i)
    BY DEF Section
  <2>2. \A s \in 1 .. n : Len(seqs[s]) = L[s]
    BY <1>4
  <2> HIDE DEF seqs, L
  <2>3. /\ Len(data) = start[n + 1]
        /\ \A s \in 1 .. n : start[s] \in Nat /\ start[s + 1] <= start[n + 1]
        /\ \A s \in 1 .. n : \A i \in 1 .. Len(seqs[s]) : data[start[s] + i] = seqs[s][i]
    BY <1>12 DEF Placed
  <2>4. \A s \in 1 .. n : \A i \in 1 .. L[s] : data[start[s] + i] = Cell(b, s, i)
    <3> TAKE s \in 1 .. n
    <3>1. Len(seqs[s]) = L[s]
      BY <2>2
    <3> QED BY <2>1, <2>3, <3>1
  <2> QED BY <2>3, <2>4
<1>19. \A s \in 1 .. n : Offset(b, s) = 1 + start[s]
  <2> TAKE s \in 1 .. n
  <2>1. s \in 1 .. n + 1
    OBVIOUS
  <2>2. start[s] = Sum(L, 1 .. s - 1)
    BY <2>1 DEF start
  <2> QED BY <2>2, OffsetIs
<1>20. Len(all) = Offset(b, n) + L[n]
  <2>1. n \in 1 .. n /\ L[n] \in Nat
    BY <1>3
  <2> HIDE DEF seqs, L
  <2>2. start[n + 1] = start[n] + L[n] /\ Offset(b, n) = 1 + start[n] /\ start[n] \in Nat
    BY <1>9, <1>18, <1>19, <2>1
  <2> QED BY <1>17, <1>18, <2>1, <2>2
<1>21. ASSUME NEW s \in 1 .. n
       PROVE  /\ Offset(b, s) \in Nat \ {0} /\ L[s] \in Nat /\ Offset(b, s) + L[s] <= Len(all)
              /\ \A i \in 1 .. L[s] : all[Offset(b, s) + i] = Cell(b, s, i)
  <2>1. L[s] \in Nat
    BY <1>3
  <2> HIDE DEF seqs, L
  <2>2. /\ start[s] \in Nat /\ start[s] + L[s] <= Len(data) /\ Offset(b, s) = 1 + start[s]
        /\ \A i \in 1 .. L[s] : data[start[s] + i] = Cell(b, s, i)
    BY <1>9, <1>18, <1>19
  <2>3. ASSUME NEW i \in 1 .. L[s] PROVE all[Offset(b, s) + i] = Cell(b, s, i)
    <3>1. start[s] + i \in 1 .. Len(data) /\ Offset(b, s) + i = 1 + (start[s] + i)
      <4>1. \A u, v, w, x \in Int : 0 <= u /\ 1 <= v /\ v <= w /\ u + w <= x =>
              u + v \in 1 .. x /\ (1 + u) + v = 1 + (u + v)
        OBVIOUS
      <4>2. start[s] \in Int /\ 0 <= start[s] /\ i \in Int /\ 1 <= i /\ i <= L[s] /\ L[s] \in Int
            /\ Len(data) \in Int /\ start[s] + L[s] <= Len(data)
        BY <1>17, <2>1, <2>2
      <4> QED BY <2>2, <4>1, <4>2
    <3> QED BY <1>17, <2>2, <3>1
  <2> QED BY <1>17, <2>1, <2>2, <2>3
<1> HIDE DEF seqs
<1>22. Layout(b, n, all)
  BY <1>17, <1>20, <1>21 DEF Layout, X
<1> QED BY <1>2, <1>15, <1>22

\* The file holds the first pos cells of build b.
Written(b) ==
  /\ pos \in Nat /\ pos <= Len(Content(b))
  /\ disk = [i \in 1 .. pos |-> Content(b)[i]]

FileInv ==
  /\ \/ disk = <<>> /\ building = NoBuild
     \/ \E b \in Builds : /\ Written(b)
                          /\ building = NoBuild \/ (building = b /\ pos < Len(Content(b)))
  /\ \/ loaded = NotLoaded
     \/ building = NoBuild /\ \E p \in Programs : \E o \in Parse(p) : loaded = Loaded(p, o)

LEMMA ContentFacts ==
  ASSUME NEW b \in Builds
  PROVE  /\ Len(Content(b)) \in Nat \ {0} /\ Content(b)[1] = Cell(b, 0, 0)
         /\ Content(b) = [i \in 1 .. Len(Content(b)) |-> Content(b)[i]]
         /\ b # NoBuild
<1>1. PICK n \in {4, 6} : Layout(b, n, Content(b))
  BY ContentIs
<1>2. PICK c : c = Content(b)
  OBVIOUS
<1>3. c \in Seq([build : {b}, section : Nat, at : Nat]) /\ c[1] = Cell(b, 0, 0)
  BY <1>1, <1>2 DEF Layout
<1>4. Len(c) = Offset(b, n) + Lengths(b)[n] /\ n \in 1 .. n
  BY <1>1, <1>2 DEF Layout
<1>5. Offset(b, n) \in Nat \ {0} /\ Lengths(b)[n] \in Nat
  BY <1>1, <1>4 DEF Layout
<1>6. Len(c) \in Nat \ {0}
  BY <1>4, <1>5
<1>7. c = [i \in 1 .. Len(c) |-> c[i]]
  BY <1>3
<1>8. b # NoBuild
  BY IndexFileAssumption DEF Builds, NoBuild
<1> QED BY <1>2, <1>3, <1>6, <1>7, <1>8

\* A reader takes apart what the file holds by the header of the build it is of.
LEMMA ParseIs ==
  ASSUME NEW b \in Builds, Written(b), pos # 0, NEW p \in Programs, NEW o \in Parse(p)
  PROVE  /\ disk[1].build = b /\ (disk = Content(b) <=> pos = Len(Content(b)))
         /\ o.out = "ok" <=> Whole(b, p)
         /\ o.out = "ok" => o = Parsed(b)
<1>1. PICK n \in {4, 6} : Len(Lengths(b)) = n /\ DOMAIN Lengths(b) = 1 .. n /\ Layout(b, n, Content(b))
  BY ContentIs
<1>2. Len(Content(b)) \in Nat \ {0} /\ Content(b)[1] = Cell(b, 0, 0)
      /\ Content(b) = [i \in 1 .. Len(Content(b)) |-> Content(b)[i]]
  BY ContentFacts
<1>3. pos \in Nat \ {0} /\ pos <= Len(Content(b)) /\ disk = [i \in 1 .. pos |-> Content(b)[i]]
  BY DEF Written
<1>4. Len(disk) = pos /\ DOMAIN disk = 1 .. pos
  BY <1>3
<1>5. disk # <<>>
  <2>1. 1 \in DOMAIN disk
    BY <1>3, <1>4
  <2> QED BY <2>1
<1>6. disk[1].build = b
  <2>1. disk[1] = Content(b)[1]
    BY <1>3
  <2> QED BY <1>2, <2>1 DEF Cell
<1>7. disk = Content(b) <=> pos = Len(Content(b))
  <2>1. disk = Content(b) => pos = Len(Content(b))
    BY <1>4
  <2>2. pos = Len(Content(b)) => disk = Content(b)
    BY <1>2, <1>3
  <2> QED BY <2>1, <2>2
<1> DEFINE end == Offset(b, n) + Lengths(b)[n]
           third == Offset(b, 3)
<1>8. end = Len(Content(b)) /\ third \in Nat /\ third <= end
  <2>1. end = Len(Content(b))
    BY <1>1 DEF Layout
  <2>2. 3 \in 1 .. n
    OBVIOUS
  <2>3. third \in Nat /\ Lengths(b)[3] \in Nat /\ third + Lengths(b)[3] <= Len(Content(b))
    BY <1>1, <2>2 DEF Layout
  <2> HIDE DEF third, end
  <2> QED BY <1>2, <2>1, <2>3
<1> DEFINE unfit == b.format # p.format \/ b.version # p.version
           ok == {Parsed(b)}
<1>9. o \in IF unfit THEN {Refused}
             ELSE CASE p.how = "read" -> IF Len(disk) < end THEN {Refused} ELSE ok
                    [] p.how = "mmap" -> IF Len(disk) < end THEN {Panics}
                                         ELSE IF Len(disk) > end THEN {Refused} ELSE ok
                    [] p.how = "kd" -> IF b.scale # p.scale THEN {Refused}
                                       ELSE IF Len(disk) < third THEN {Panics, Refused}
                                       ELSE IF Len(disk) < end THEN {Refused} ELSE ok
  BY <1>1, <1>5, <1>6 DEF Parse
<1>10. Refused.out = "refused" /\ Panics.out = "panic" /\ Parsed(b).out = "ok"
  BY DEF Refused, Panics, Parsed, Outcome
<1>11. p.how \in {"read", "mmap", "kd"}
  BY IndexFileAssumption
<1>12. Whole(b, p) <=> ~unfit /\ Len(disk) = end /\ (p.how = "kd" => p.scale = b.scale)
  BY <1>4, <1>7, <1>8 DEF Whole
<1>13. Len(disk) \in Nat /\ end \in Nat /\ Len(disk) <= end
  BY <1>2, <1>3, <1>4, <1>8
<1> HIDE DEF end, third, unfit
<1>14. (o.out = "ok" <=> Whole(b, p)) /\ (o.out = "ok" => o = Parsed(b))
  <2>1. CASE unfit
    BY <1>9, <1>10, <1>12, <2>1
  <2>2. CASE ~unfit /\ p.how = "read"
    BY <1>9, <1>10, <1>12, <1>13, <2>2
  <2>3. CASE ~unfit /\ p.how = "mmap"
    BY <1>9, <1>10, <1>12, <1>13, <2>3
  <2>4. CASE ~unfit /\ p.how = "kd"
    BY <1>8, <1>9, <1>10, <1>12, <1>13, <2>4
  <2> QED BY <1>11, <2>1, <2>2, <2>3, <2>4
<1> QED BY <1>6, <1>7, <1>14

\* What a whole file is taken apart into.
LEMMA SectionsAre ==
  ASSUME NEW b \in Builds, disk = Content(b)
  PROVE  Parsed(b).sections = [s \in DOMAIN Lengths(b) |-> Section(b, s)]
<1>1. PICK n \in {4, 6} : Len(Lengths(b)) = n /\ DOMAIN Lengths(b) = 1 .. n /\ Layout(b, n, disk)
  BY ContentIs
<1>2. ASSUME NEW s \in DOMAIN Lengths(b)
      PROVE  SubSeq(disk, Offset(b, s) + 1, Offset(b, s) + Lengths(b)[s]) = Section(b, s)
  <2>1. PICK off, len : off = Offset(b, s) /\ len = Lengths(b)[s]
    OBVIOUS
  <2>2. off \in Nat \ {0} /\ len \in Nat /\ \A i \in 1 .. len : disk[off + i] = Cell(b, s, i)
    BY <1>1, <2>1 DEF Layout
  <2>3. SubSeq(disk, off + 1, off + len) = [i \in 1 .. len |-> disk[off + i]]
    <3>1. PICK m, k : m = off + 1 /\ k = off + len
      OBVIOUS
    <3>2. m \in Int /\ k \in Int /\ (k - m) + 1 = len /\ (m <= k <=> len # 0)
      BY <2>2, <3>1
    <3>3. PICK S : \A i \in m .. k : disk[i] \in S
      <4>1. \A i \in m .. k : disk[i] \in {disk[j] : j \in m .. k}
        OBVIOUS
      <4> QED BY <4>1
    <3>4. PICK t : t = SubSeq(disk, m, k)
      OBVIOUS
    <3>5. /\ t \in Seq(S) /\ Len(t) = IF m <= k THEN (k - m) + 1 ELSE 0
          /\ \A i \in 1 .. (k - m) + 1 : t[i] = disk[(m + i) - 1]
      BY <3>2, <3>3, <3>4, SubSeqProperties
    <3>6. t \in Seq(S) /\ Len(t) = len /\ \A i \in 1 .. len : t[i] = disk[(m + i) - 1]
      BY <2>2, <3>2, <3>5
    <3>7. \A i \in 1 .. len : (m + i) - 1 = off + i
      BY <2>2, <3>1
    <3>8. t = [i \in 1 .. len |-> disk[off + i]]
      BY <3>6, <3>7
    <3> QED BY <3>1, <3>4, <3>8
  <2>4. [i \in 1 .. len |-> disk[off + i]] = [i \in 1 .. len |-> Cell(b, s, i)]
    BY <2>2
  <2> QED BY <2>1, <2>3, <2>4 DEF Section
<1> QED BY <1>2 DEF Parsed, Outcome

LEMMA WholeLoads == FileInv => LoadsWholeBuilds
<1> SUFFICES ASSUME FileInv, loaded.out # "none"
             PROVE  IF \E b \in Builds : Whole(b, loaded.by)
                    THEN \A b \in Builds : Whole(b, loaded.by) =>
                           loaded.out = "ok" /\ loaded.sections = [s \in DOMAIN Lengths(b) |-> Section(b, s)]
                    ELSE loaded.out # "ok"
  BY DEF LoadsWholeBuilds
<1>0. PICK p \in Programs : \E o \in Parse(p) : loaded = Loaded(p, o)
  BY DEF FileInv, NotLoaded, Loaded, Outcome
<1>1. PICK o \in Parse(p) : loaded = Loaded(p, o)
  BY <1>0
<1>2. loaded.by = p /\ loaded.out = o.out /\ loaded.sections = o.sections
  BY <1>1 DEF Loaded
<1>3. CASE disk = <<>>
  <2>1. o.out = "refused"
    BY <1>3 DEF Parse, Refused, Outcome
  <2>2. \A b \in Builds : ~Whole(b, p)
    <3> SUFFICES ASSUME NEW b \in Builds, Whole(b, p) PROVE FALSE
      OBVIOUS
    <3>1. Len(Content(b)) # 0
      BY ContentFacts
    <3>2. Len(disk) = 0
      BY <1>3
    <3> QED BY <3>1, <3>2 DEF Whole
  <2> QED BY <1>2, <2>1, <2>2
<1>4. CASE disk # <<>>
  <2>1. PICK b \in Builds : Written(b)
    BY <1>4 DEF FileInv
  <2>2. pos # 0
    BY <1>4, <2>1 DEF Written
  <2>3. /\ disk[1].build = b
        /\ o.out = "ok" <=> Whole(b, p)
        /\ o.out = "ok" => o = Parsed(b)
    BY <2>1, <2>2, ParseIs
  <2>4. ASSUME NEW c \in Builds, Whole(c, p) PROVE c = b
    <3>1. disk = Content(c)
      BY <2>4 DEF Whole
    <3>2. disk[1] = Cell(c, 0, 0)
      BY <3>1, ContentFacts
    <3>3. Cell(c, 0, 0).build = c
      BY DEF Cell
    <3> QED BY <2>3, <3>2, <3>3
  <2>5. Whole(b, p) => o.sections = [s \in DOMAIN Lengths(b) |-> Section(b, s)]
    <3> SUFFICES ASSUME Whole(b, p) PROVE o.sections = [s \in DOMAIN Lengths(b) |-> Section(b, s)]
      OBVIOUS
    <3>1. disk = Content(b)
      BY DEF Whole
    <3>2. Parsed(b).sections = [s \in DOMAIN Lengths(b) |-> Section(b, s)]
      BY <3>1, SectionsAre
    <3> QED BY <2>3, <3>2
  <2> QED BY <1>2, <2>3, <2>4, <2>5
<1> QED BY <1>3, <1>4

LEMMA FileNextInv == FileInv /\ [FileNext]_fileVars => FileInv'
<1> SUFFICES ASSUME FileInv, [FileNext]_fileVars PROVE FileInv'
  OBVIOUS
<1>1. ASSUME NEW b \in Builds, CreateFile(b) PROVE FileInv'
  <2>1. building' = b /\ pos' = 0 /\ disk' = <<>> /\ loaded' = NotLoaded
    BY <1>1 DEF CreateFile
  <2>2. Len(Content(b)) \in Nat \ {0}
    BY ContentFacts
  <2>3. <<>> = [i \in 1 .. 0 |-> Content(b)[i]]
    OBVIOUS
  <2>4. Written(b)'
    BY <2>1, <2>2, <2>3 DEF Written
  <2>5. pos' < Len(Content(b))
    BY <2>1, <2>2
  <2> QED BY <2>1, <2>4, <2>5 DEF FileInv, NotLoaded
<1>2. CASE WriteCell
  <2>1. PICK b \in Builds : Written(b) /\ building = b /\ pos < Len(Content(b))
    BY <1>2 DEF WriteCell, FileInv
  <2>2. b # NoBuild /\ Len(Content(b)) \in Nat
    BY ContentFacts
  <2>3. loaded = NotLoaded
    BY <2>1, <2>2 DEF FileInv
  <2>4. PICK c, n : c = Content(b) /\ n = pos
    OBVIOUS
  <2>5. n \in Nat /\ n < Len(c) /\ Len(c) \in Nat /\ disk = [i \in 1 .. n |-> c[i]]
    BY <2>1, <2>2, <2>4 DEF Written
  <2>6. Len(disk) = n
    BY <2>5
  <2>7. disk' = Append(disk, c[n + 1]) /\ pos' = n + 1 /\ loaded' = NotLoaded
        /\ building' = IF n + 1 = Len(c) THEN NoBuild ELSE b
    <3>1. ~(n < Len(disk))
      BY <2>5, <2>6
    <3> QED BY <1>2, <2>1, <2>3, <2>4, <3>1 DEF WriteCell
  <2>8. disk' = [i \in 1 .. n + 1 |-> c[i]]
    BY <2>5, <2>6, <2>7
  <2>9. Written(b)'
    <3>1. n + 1 \in Nat /\ n + 1 <= Len(c)
      BY <2>5
    <3> QED BY <2>4, <2>7, <2>8, <3>1 DEF Written
  <2>10. building' = NoBuild \/ (building' = b /\ pos' < Len(c))
    BY <2>5, <2>7
  <2> QED BY <2>4, <2>7, <2>9, <2>10 DEF FileInv, NotLoaded
<1>3. CASE BuildDies
  <2>1. building # NoBuild /\ building' = NoBuild /\ disk' = disk /\ pos' = pos /\ loaded' = loaded
    BY <1>3 DEF BuildDies
  <2>2. loaded = NotLoaded
    BY <2>1 DEF FileInv
  <2> QED BY <2>1, <2>2 DEF FileInv, Written, NotLoaded
<1>4. ASSUME NEW p \in Programs, LoadFile(p) PROVE FileInv'
  <2>1. PICK o \in Parse(p) : loaded' = Loaded(p, o)
    BY <1>4 DEF LoadFile
  <2>2. building = NoBuild /\ disk' = disk /\ building' = building /\ pos' = pos
    BY <1>4 DEF LoadFile
  <2>3. Parse(p)' = Parse(p)
    BY <2>2 DEF Parse, Parsed
  <2>4. \E q \in Programs : \E r \in Parse(q)' : loaded' = Loaded(q, r)
    BY <2>1, <2>3
  <2> QED BY <2>2, <2>4 DEF FileInv, Written
<1>5. CASE UNCHANGED fileVars
  <2>1. disk' = disk /\ building' = building /\ pos' = pos /\ loaded' = loaded
    BY <1>5 DEF fileVars
  <2>2. \A p : Parse(p)' = Parse(p)
    BY <2>1 DEF Parse, Parsed
  <2> QED BY <2>1, <2>2 DEF FileInv, Written
<1> QED BY <1>1, <1>2, <1>3, <1>4, <1>5 DEF FileNext

\* A reader accepts whole builds only, and hands each section out as it was
\* written.
THEOREM WholeBuildsLoad == FileSpec => []LoadsWholeBuilds
<1>1. FileInit => FileInv
  BY DEF FileInit, FileInv
<1> QED BY <1>1, FileNextInv, WholeLoads, PTL DEF FileSpec

-----------------------------------------------------------------------------
(* Vectorize.                                                              *)

\* A search that has ended did so at its key, after the one it started from.
Found(s) ==
  /\ at[s] \in DOMAIN body /\ body[at[s]].key = Keys[s]
  /\ After[s] # 0 => at[After[s]] < at[s]

VecInv ==
  /\ body \in Bodies /\ scan \in {"scan", "ok", "refused"}
  /\ at \in Seq(Int) /\ Len(at) <= Len(Keys)
  /\ \A s \in 1 .. Len(at) : Found(s)
  /\ scan = "ok" => Len(at) = Len(Keys) \/ (Len(at) = LastTx /\ body[at[LastTx]].null)
  /\ scan # "ok" => Len(at) < Len(Keys) /\ (Len(at) >= LastTx => ~body[at[LastTx]].null)

\* Each search starts from an earlier one.
LEMMA Tables ==
  /\ Len(Keys) = 16 /\ Searches = 1 .. 16
  /\ \A s \in Searches : After[s] \in 0 .. s - 1
BY DEF Keys, After, Searches

LEMMA FirstMatch ==
  ASSUME VecInv, NEW s \in Searches, s = Len(at) + 1, Matches(s) # {}
  PROVE  /\ Min(Matches(s)) \in Matches(s) /\ \A j \in Matches(s) : Min(Matches(s)) <= j
         /\ Min(Matches(s)) \in DOMAIN body /\ body[Min(Matches(s))].key = Keys[s]
         /\ After[s] # 0 => at[After[s]] < Min(Matches(s))
<1>1. body \in Seq([key : STRING, owner : STRING, null : BOOLEAN])
  BY VectorizeAssumption DEF VecInv, Payload
<1>2. Len(body) \in Nat /\ DOMAIN body = 1 .. Len(body)
  BY <1>1
<1>11. After[s] \in 0 .. s - 1
  BY Tables
<1>12. Len(at) \in Nat
  BY DEF VecInv
<1>3. After[s] \in 0 .. Len(at) /\ Len(at) \in Nat
  BY <1>11, <1>12
<1>4. After[s] # 0 => at[After[s]] \in DOMAIN body
  BY <1>3 DEF VecInv, Found
<1> DEFINE from == IF After[s] = 0 THEN 1 ELSE at[After[s]] + 1
<1>5. from \in Nat \ {0} /\ Matches(s) = {j \in from .. Len(body) : body[j].key = Keys[s]}
  BY <1>2, <1>4 DEF Matches
<1>6. IsFiniteSet(from .. Len(body))
  <2>1. from \in Int /\ Len(body) \in Int
    BY <1>2, <1>5
  <2> QED BY <2>1, FS_Interval
<1>7. IsFiniteSet(Matches(s)) /\ Matches(s) \in SUBSET Int
  BY <1>5, <1>6, FS_Subset
<1>8. Min(Matches(s)) \in Matches(s) /\ \A j \in Matches(s) : Min(Matches(s)) <= j
  BY <1>7, MinIs
<1>9. Min(Matches(s)) \in from .. Len(body) /\ body[Min(Matches(s))].key = Keys[s]
  BY <1>5, <1>8
<1>10. After[s] # 0 => from = at[After[s]] + 1 /\ at[After[s]] \in Int
  BY <1>2, <1>4
<1> HIDE DEF from
<1> QED BY <1>2, <1>5, <1>8, <1>9, <1>10

LEMMA VecInitInv == VecInit => VecInv
<1> SUFFICES ASSUME VecInit PROVE VecInv
  OBVIOUS
<1>1. Len(at) = 0 /\ at \in Seq(Int) /\ 1 .. Len(at) = {}
  BY DEF VecInit
<1> QED BY <1>1, Tables DEF VecInit, VecInv, LastTx

LEMMA VecNextInv == VecInv /\ [VecNext]_vecVars => VecInv'
<1> SUFFICES ASSUME VecInv, [VecNext]_vecVars PROVE VecInv'
  OBVIOUS
<1>1. CASE FindKey
  <2>1. PICK s : s = Len(at) + 1
    OBVIOUS
  <2>2. PICK m : m = Min(Matches(s))
    OBVIOUS
  <2>3. scan = "scan" /\ body' = body /\ at' = Append(at, m) /\ Matches(s) # {}
        /\ scan' = IF s = Len(Keys) \/ (s = LastTx /\ body[m].null) THEN "ok" ELSE "scan"
    BY <1>1, <2>1, <2>2 DEF FindKey
  <2>4. Len(at) \in Nat /\ Len(at) < 16 /\ s \in Searches /\ at \in Seq(Int)
    <3>1. at \in Seq(Int)
      BY DEF VecInv
    <3>2. Len(at) \in Nat /\ Len(at) < 16
      BY <2>3, <3>1, Tables DEF VecInv
    <3>3. Searches = 1 .. 16
      BY Tables
    <3>4. s \in 1 .. 16
      BY <2>1, <3>2
    <3> QED BY <3>1, <3>2, <3>3, <3>4
  <2>5. /\ m \in DOMAIN body /\ body[m].key = Keys[s]
        /\ After[s] # 0 => at[After[s]] < m
    BY <2>1, <2>2, <2>3, <2>4, FirstMatch
  <2>6. m \in Int
    <3>1. body \in Seq([key : STRING, owner : STRING, null : BOOLEAN])
      BY VectorizeAssumption DEF VecInv, Payload
    <3> QED BY <2>5, <3>1
  <2>7. at' \in Seq(Int) /\ Len(at') = s /\ at'[s] = m /\ \A t \in 1 .. Len(at) : at'[t] = at[t]
    BY <2>1, <2>3, <2>4, <2>6
  <2>8. ASSUME NEW t \in 1 .. Len(at') PROVE Found(t)'
    <3>1. After[t] \in 0 .. t - 1
      <4>1. t \in Searches
        <5>1. Searches = 1 .. 16
          BY Tables
        <5> QED BY <2>1, <2>4, <2>7, <5>1
      <4> QED BY <4>1, Tables
    <3>2. CASE t = s
      <4>1. After[s] # 0 => After[s] \in 1 .. Len(at)
        BY <2>1, <3>1, <3>2, <2>4
      <4> QED BY <2>3, <2>5, <2>7, <3>2, <4>1 DEF Found
    <3>3. CASE t # s
      <4>1. t \in 1 .. Len(at)
        BY <2>1, <2>4, <2>7, <3>3
      <4>2. After[t] # 0 => After[t] \in 1 .. Len(at)
        BY <2>4, <3>1, <4>1
      <4>3. Found(t)
        BY <4>1 DEF VecInv
      <4> QED BY <2>3, <2>7, <4>1, <4>2, <4>3 DEF Found
    <3> QED BY <3>2, <3>3
  <2>9. Len(at') >= LastTx => at'[LastTx] = IF s = LastTx THEN m ELSE at[LastTx]
    BY <2>1, <2>4, <2>7 DEF LastTx
  <2>10. scan' = "ok" => Len(at') = Len(Keys) \/ (Len(at') = LastTx /\ body'[at'[LastTx]].null)
    BY <2>3, <2>7, <2>9 DEF LastTx
  <2>11. scan' # "ok" => Len(at') < Len(Keys) /\ (Len(at') >= LastTx => ~body'[at'[LastTx]].null)
    <3>1. Len(at) >= LastTx => ~body[at[LastTx]].null
      BY <2>3 DEF VecInv
    <3>2. Len(Keys) = 16 /\ LastTx = 14
      BY Tables DEF LastTx
    <3>3. scan' # "ok" => s # 16 /\ (s = 14 => ~body[m].null)
      BY <2>3, <3>2
    <3> HIDE DEF LastTx
    <3>4. s \in 1 .. 16
      BY <2>4, Tables
    <3> QED BY <2>1, <2>3, <2>4, <2>7, <2>9, <3>1, <3>2, <3>3, <3>4
  <2>12. Len(at') <= Len(Keys)
    BY <2>1, <2>4, <2>7, Tables
  <2>13. body' \in Bodies /\ scan' \in {"scan", "ok", "refused"}
    BY <2>3 DEF VecInv
  <2> QED BY <2>7, <2>8, <2>10, <2>11, <2>12, <2>13 DEF VecInv
<1>2. CASE KeyMissing
  BY <1>2 DEF KeyMissing, VecInv, Found
<1>3. CASE UNCHANGED vecVars
  BY <1>3 DEF vecVars, VecInv, Found
<1> QED BY <1>1, <1>2, <1>3 DEF VecNext

LEMMA VecAlways == VecSpec => []VecInv
BY VecInitInv, VecNextInv, PTL DEF VecSpec

\* What the key of a documented member tells of its owner.
LEMMA OwnerIs ==
  ASSUME VecInv, NEW j \in DOMAIN body
  PROVE  /\ \A s \in Searches \ {4, 7, 9} : body[j].key = Keys[s] => body[j].owner = Owners[s]
         /\ body[j].key = "avg_amount" => body[j].owner \in {"customer", "merchant"}
         /\ body[j].key = "id" => body[j].owner \in {"", "merchant"}
<1>1. <<body[j].key, body[j].owner>> \in Documented
  BY VectorizeAssumption DEF VecInv, Payload
<1>2. \/ \E s \in 1 .. 16 : body[j].key = Keys[s] /\ body[j].owner = Owners[s]
      \/ body[j].key \in {"id", "transaction", "customer", "terminal"} /\ body[j].owner = ""
  BY <1>1, Tables DEF Documented
<1> PICK k : k = body[j].key
  OBVIOUS
<1> PICK o : o = body[j].owner
  OBVIOUS
<1>3. /\ \A s \in Searches \ {4, 7, 9} : k = Keys[s] => o = Owners[s]
      /\ k = "avg_amount" => o \in {"customer", "merchant"}
      /\ k = "id" => o \in {"", "merchant"}
  <2>1. Searches = 1 .. 16
    BY Tables
  <2>2. CASE \E s \in 1 .. 16 : k = Keys[s] /\ o = Owners[s]
    <3>1. PICK s \in 1 .. 16 : k = Keys[s] /\ o = Owners[s]
      BY <2>2
    <3>2. \A t \in 1 .. 16 : t \notin {4, 7, 9} /\ Keys[t] = Keys[s] => t = s
      BY DEF Keys
    <3>3. \A t \in 1 .. 16 : t \notin {4, 7, 9} /\ k = Keys[t] => o = Owners[t]
      BY <3>1, <3>2
    <3>4. Keys[s] = "avg_amount" => s \in {4, 9}
      BY DEF Keys
    <3>5. Keys[s] = "id" => s = 7
      BY DEF Keys
    <3>6. Owners[4] = "customer" /\ Owners[9] = "merchant" /\ Owners[7] = "merchant"
      BY DEF Owners
    <3> QED BY <2>1, <3>1, <3>3, <3>4, <3>5, <3>6
  <2>3. CASE k \in {"id", "transaction", "customer", "terminal"} /\ o = ""
    <3>1. \A t \in 1 .. 16 : t \notin {4, 7, 9} /\ Keys[t] = k => Keys[t] \notin {"id", "transaction", "customer", "terminal"}
      BY DEF Keys
    <3> QED BY <2>1, <2>3, <3>1
  <2> QED BY <1>2, <2>2, <2>3
<1> QED BY <1>3

LEMMA PayloadFacts ==
  ASSUME VecInv
  PROVE  /\ DOMAIN body \in SUBSET Int
         /\ \A i, j \in DOMAIN body : body[i].key = body[j].key /\ body[i].owner = body[j].owner => i = j
         /\ \A i, j \in DOMAIN body : body[i].owner = "" /\ body[j].owner = body[i].key =>
              i < j /\ \A k \in i + 1 .. j : body[k].owner = body[i].key
<1>1. Payload(body)
  BY VectorizeAssumption DEF VecInv
<1>2. body \in Seq([key : STRING, owner : STRING, null : BOOLEAN])
  BY <1>1 DEF Payload
<1>3. DOMAIN body \in SUBSET Int
  BY <1>2
<1> QED BY <1>1, <1>3 DEF Payload

\* Each of these keys and owners is there once, and an object's members follow
\* its key.
LEMMA Once ==
  ASSUME VecInv, NEW i \in DOMAIN body, NEW j \in DOMAIN body,
         body[i].key = body[j].key, body[i].owner = body[j].owner
  PROVE  i = j
BY PayloadFacts

LEMMA Inside ==
  ASSUME VecInv, NEW i \in DOMAIN body, NEW j \in DOMAIN body,
         body[i].owner = "", body[j].owner = body[i].key
  PROVE  i < j /\ \A k \in i + 1 .. j : body[k].owner = body[i].key
BY PayloadFacts

LEMMA Between ==
  ASSUME NEW a \in Int, NEW b \in Int, NEW m \in Int, NEW d \in Int, NEW c \in Int, NEW e \in Int,
         a < b, b < m, m < d, d < c, c < e
  PROVE  ~(m < a) /\ e # a /\ d \in m + 1 .. c
OBVIOUS

\* Searches that found a customer's average a, transactions b, the merchant's key
\* m, an id d, a code c and an average e, in this order.
MerchantRead(a, b, m, d, c, e) ==
  /\ {a, b, m, d, c, e} \subseteq DOMAIN body
  /\ a < b /\ b < m /\ m < d /\ d < c /\ c < e
  /\ body[a].key = "avg_amount" /\ body[e].key = "avg_amount" /\ body[d].key = "id"
  /\ body[m].key = "merchant" /\ body[m].owner = "" /\ body[c].owner = "merchant"

LEMMA Unmistaken ==
  ASSUME VecInv, NEW a, NEW b, NEW m, NEW d, NEW c, NEW e, MerchantRead(a, b, m, d, c, e)
  PROVE  body[a].owner = "customer" /\ body[d].owner = "merchant" /\ body[e].owner = "merchant"
<1>0. /\ a \in DOMAIN body /\ m \in DOMAIN body /\ d \in DOMAIN body /\ c \in DOMAIN body /\ e \in DOMAIN body
      /\ body[a].key = "avg_amount" /\ body[e].key = "avg_amount" /\ body[d].key = "id"
      /\ body[m].key = "merchant" /\ body[m].owner = "" /\ body[c].owner = "merchant"
  BY DEF MerchantRead
<1>1. ~(m < a) /\ e # a /\ d \in m + 1 .. c
  <2>1. {a, b, m, d, c, e} \subseteq Int /\ a < b /\ b < m /\ m < d /\ d < c /\ c < e
    BY PayloadFacts DEF MerchantRead
  <2> QED BY <2>1, Between
\* The merchant's average would have the merchant's key before it, and that is
\* looked for behind.
<1>2. body[a].owner = "customer"
  <2>1. body[a].owner = "merchant" => m < a
    BY <1>0, Inside
  <2>2. body[a].owner \in {"customer", "merchant"}
    BY <1>0, OwnerIs
  <2> QED BY <1>1, <2>1, <2>2
\* The payload's own id is not among the merchant's members.
<1>3. body[d].owner = "merchant"
  <2>1. \A k \in m + 1 .. c : body[k].owner = "merchant"
    BY <1>0, Inside
  <2> QED BY <1>1, <2>1
\* The customer's average was met before.
<1>4. body[e].owner = "merchant"
  <2>1. body[e].owner = "customer" => e = a
    BY <1>0, <1>2, Once
  <2>2. body[e].owner \in {"customer", "merchant"}
    BY <1>0, OwnerIs
  <2> QED BY <1>1, <2>1, <2>2
<1> QED BY <1>2, <1>3, <1>4

LEMMA FieldsAreRight == VecInv => FieldsRight
<1> SUFFICES ASSUME VecInv, scan = "ok" PROVE Complete /\ \A s \in 1 .. Len(at) : IsMember(at[s], s)
  BY DEF FieldsRight
<1>1. Searches = 1 .. 16 /\ LastTx = 14 /\ Len(Keys) = 16
  BY Tables DEF LastTx
<1>2. Len(at) = 16 \/ (Len(at) = 14 /\ body[at[14]].null)
  BY <1>1 DEF VecInv
<1>3. 1 .. Len(at) \subseteq 1 .. 16 /\ 1 .. 14 \subseteq 1 .. Len(at)
  <2>1. Len(at) = 14 \/ Len(at) = 16
    BY <1>2
  <2>2. 1 .. 14 \subseteq 1 .. 16
    OBVIOUS
  <2> QED BY <2>1, <2>2
<1>4. \A s \in 1 .. Len(at) : s \in Searches /\ at[s] \in DOMAIN body /\ body[at[s]].key = Keys[s]
  BY <1>1, <1>3 DEF VecInv, Found
<1>5. \A s \in 1 .. Len(at) : s \notin {4, 7, 9} => body[at[s]].owner = Owners[s]
  BY <1>4, OwnerIs
<1>6. 4 \in 1 .. Len(at) /\ 5 \in 1 .. Len(at) /\ 6 \in 1 .. Len(at) /\ 7 \in 1 .. Len(at)
      /\ 8 \in 1 .. Len(at) /\ 9 \in 1 .. Len(at)
  <2>1. 4 \in 1 .. 14 /\ 5 \in 1 .. 14 /\ 6 \in 1 .. 14 /\ 7 \in 1 .. 14 /\ 8 \in 1 .. 14 /\ 9 \in 1 .. 14
    OBVIOUS
  <2> QED BY <1>3, <2>1
<1>7. at[4] < at[5] /\ at[5] < at[6] /\ at[6] < at[7] /\ at[7] < at[8] /\ at[8] < at[9]
  <2>1. Found(5) /\ Found(6) /\ Found(7) /\ Found(8) /\ Found(9)
    BY <1>6 DEF VecInv
  <2> QED BY <2>1 DEF Found, After
<1>8. PICK a, b, m, d, c, e : /\ a = at[4] /\ b = at[5] /\ m = at[6]
                             /\ d = at[7] /\ c = at[8] /\ e = at[9]
  OBVIOUS
<1>9. {a, b, m, d, c, e} \subseteq DOMAIN body
  BY <1>4, <1>6, <1>8
<1>10. /\ body[a].key = "avg_amount" /\ body[e].key = "avg_amount" /\ body[d].key = "id"
       /\ body[m].key = "merchant" /\ body[m].owner = "" /\ body[c].owner = "merchant"
  <2>1. /\ Keys[4] = "avg_amount" /\ Keys[9] = "avg_amount" /\ Keys[7] = "id" /\ Keys[6] = "merchant"
        /\ Owners[6] = "" /\ Owners[8] = "merchant"
    BY DEF Keys, Owners
  <2>2. 6 \notin {4, 7, 9} /\ 8 \notin {4, 7, 9}
    OBVIOUS
  <2>3. body[at[6]].owner = Owners[6] /\ body[at[8]].owner = Owners[8]
    BY <1>5, <1>6, <2>2
  <2> QED BY <1>4, <1>6, <1>8, <2>1, <2>3
<1>11. a < b /\ b < m /\ m < d /\ d < c /\ c < e
  BY <1>7, <1>8
<1>12. body[a].owner = "customer" /\ body[d].owner = "merchant" /\ body[e].owner = "merchant"
  <2>1. MerchantRead(a, b, m, d, c, e)
    BY <1>9, <1>10, <1>11 DEF MerchantRead
  <2> QED BY <2>1, Unmistaken
<1>13. \A s \in 1 .. Len(at) : body[at[s]].owner = Owners[s]
  <2>1. Owners[4] = "customer" /\ Owners[7] = "merchant" /\ Owners[9] = "merchant"
    BY DEF Owners
  <2>2. body[at[4]].owner = "customer" /\ body[at[7]].owner = "merchant" /\ body[at[9]].owner = "merchant"
    BY <1>8, <1>12
  <2> QED BY <1>5, <2>1, <2>2
<1>14. \A s \in 1 .. Len(at) : IsMember(at[s], s)
  BY <1>4, <1>13 DEF IsMember
<1>15. Complete
  <2> SUFFICES ASSUME NEW s \in Searches
               PROVE  \/ \E j \in DOMAIN body : IsMember(j, s)
                      \/ s > LastTx /\ \E j \in DOMAIN body : body[j].key = Keys[LastTx] /\ body[j].null
    BY DEF Complete
  <2>1. CASE s \in 1 .. Len(at)
    BY <1>4, <1>14, <2>1
  <2>2. CASE s \notin 1 .. Len(at)
    <3>1. s \in 1 .. 16 /\ Len(at) = 14 /\ body[at[14]].null
      BY <1>1, <1>2, <2>2
    <3>2. s > 14
      BY <2>2, <3>1
    <3>3. 14 \in 1 .. Len(at)
      BY <3>1
    <3>4. at[14] \in DOMAIN body /\ body[at[14]].key = Keys[14]
      BY <1>4, <3>3
    <3> QED BY <1>1, <3>1, <3>2, <3>4
  <2> QED BY <2>1, <2>2
<1> QED BY <1>14, <1>15

\* In a complete payload in the documented order no search has gone past the
\* member it is for.
OrderInv ==
  Complete /\ InDocOrder =>
    /\ scan # "refused"
    /\ \A s \in 1 .. Len(at) : \E j \in DOMAIN body : IsMember(j, s) /\ at[s] <= j

LEMMA OrderTable ==
  \A s \in Searches : After[s] # 0 =>
    \E p, q \in Searches : p < q /\ DocOrder[p] = After[s] /\ DocOrder[q] = s
<1>1. \A s \in 1 .. 16 : After[s] # 0 =>
        \E p, q \in 1 .. 16 : p < q /\ DocOrder[p] = After[s] /\ DocOrder[q] = s
  <2> DEFINE place == <<1, 2, 3, 4, 5, 7, 8, 9, 10, 6, 11, 12, 13, 14, 15, 16>>
  <2>1. \A s \in 1 .. 16 : place[s] \in 1 .. 16 /\ DocOrder[place[s]] = s
    BY DEF DocOrder
  <2>2. \A s \in 1 .. 16 : After[s] # 0 => After[s] \in 1 .. 16 /\ place[After[s]] < place[s]
    BY DEF After
  <2> HIDE DEF place
  <2> QED BY <2>1, <2>2
<1> QED BY <1>1, Tables

LEMMA NextMember ==
  ASSUME VecInv, OrderInv, Complete, InDocOrder, scan = "scan", NEW s \in Searches, s = Len(at) + 1
  PROVE  \E j \in Matches(s) : j \in DOMAIN body /\ IsMember(j, s)
<1>1. Searches = 1 .. 16 /\ LastTx = 14 /\ Len(Keys) = 16
  BY Tables DEF LastTx
<1>2. Len(at) \in Nat
  BY DEF VecInv
<1>3. PICK j \in DOMAIN body : IsMember(j, s)
  <2> SUFFICES ASSUME s > LastTx, NEW j \in DOMAIN body, body[j].key = Keys[LastTx], body[j].null
               PROVE  FALSE
    BY DEF Complete
  <2>1. LastTx \in 1 .. Len(at) /\ Len(at) >= LastTx
    BY <1>1, <1>2
  <2>2. at[LastTx] \in DOMAIN body /\ body[at[LastTx]].key = Keys[LastTx] /\ ~body[at[LastTx]].null
    BY <2>1 DEF VecInv, Found
  <2>3. body[at[LastTx]].owner = Owners[LastTx] /\ body[j].owner = Owners[LastTx]
    <3>1. LastTx \in Searches \ {4, 7, 9}
      BY <1>1
    <3> QED BY <2>2, <3>1, OwnerIs
  <2>4. at[LastTx] = j
    BY <2>2, <2>3, PayloadFacts
  <2> QED BY <2>2, <2>4
<1>4. body[j].key = Keys[s] /\ j \in Int
  BY <1>3, PayloadFacts DEF IsMember
<1>5. j \in 1 .. Len(body)
  <2>1. body \in Seq([key : STRING, owner : STRING, null : BOOLEAN])
    BY VectorizeAssumption DEF VecInv, Payload
  <2> QED BY <2>1
<1>6. CASE After[s] = 0
  BY <1>3, <1>4, <1>5, <1>6 DEF Matches
<1>7. CASE After[s] # 0
  <2> DEFINE t == After[s]
  <2>1. t \in 1 .. Len(at)
    <3>1. t \in 0 .. s - 1
      BY Tables
    <3> HIDE DEF t
    <3>2. t # 0
      BY <1>7 DEF t
    <3> QED BY <1>2, <3>1, <3>2
  <2>2. PICK i \in DOMAIN body : IsMember(i, t) /\ at[t] <= i
    BY <2>1 DEF OrderInv
  <2>3. PICK p \in Searches, q \in Searches : p < q /\ DocOrder[p] = t /\ DocOrder[q] = s
    BY <1>7, OrderTable
  <2>4. i < j
    BY <1>3, <2>2, <2>3 DEF InDocOrder
  <2>5. at[t] \in Int /\ i \in Int
    BY <2>1, <2>2, PayloadFacts DEF VecInv, Found
  <2>6. j \in at[t] + 1 .. Len(body)
    BY <1>4, <1>5, <2>2, <2>4, <2>5
  <2> QED BY <1>3, <1>4, <1>7, <2>6 DEF Matches
<1> QED BY <1>6, <1>7

LEMMA NextOrderInv == VecInv /\ OrderInv /\ [VecNext]_vecVars => OrderInv'
<1> SUFFICES ASSUME VecInv, OrderInv, [VecNext]_vecVars, Complete', InDocOrder'
             PROVE  /\ scan' # "refused"
                    /\ \A s \in 1 .. Len(at') : \E j \in DOMAIN body' : IsMember(j, s)' /\ at'[s] <= j
  BY DEF OrderInv
<1>1. body' = body
  BY DEF VecNext, FindKey, KeyMissing, vecVars
<1>2. Complete /\ InDocOrder
  BY <1>1 DEF Complete, InDocOrder, IsMember
<1>3. scan # "refused" /\ \A s \in 1 .. Len(at) : \E j \in DOMAIN body : IsMember(j, s) /\ at[s] <= j
  BY <1>2 DEF OrderInv
<1>4. \A j, s : IsMember(j, s)' <=> IsMember(j, s)
  BY <1>1 DEF IsMember
<1>5. Len(at) \in Nat /\ at \in Seq(Int)
  BY DEF VecInv
<1>6. ASSUME scan = "scan" PROVE Len(at) + 1 \in Searches
  <2>1. Searches = 1 .. 16 /\ Len(Keys) = 16
    BY Tables
  <2>2. Len(at) < 16
    BY <1>6, <2>1 DEF VecInv
  <2>3. Len(at) \in Nat
    BY <1>5
  <2>4. Len(at) + 1 \in 1 .. 16
    BY <2>2, <2>3
  <2> QED BY <2>1, <2>4
<1>7. CASE FindKey
  <2>1. PICK s : s = Len(at) + 1
    OBVIOUS
  <2>2. PICK m : m = Min(Matches(s))
    OBVIOUS
  <2>3. scan = "scan" /\ at' = Append(at, m) /\ Matches(s) # {} /\ scan' \in {"ok", "scan"}
    BY <1>7, <2>1, <2>2 DEF FindKey
  <2>4. PICK j \in Matches(s) : j \in DOMAIN body /\ IsMember(j, s)
    BY <1>2, <1>6, <2>1, <2>3, NextMember
  <2>5. m <= j /\ m \in DOMAIN body /\ m \in Int
    BY <1>6, <2>1, <2>2, <2>3, <2>4, FirstMatch, PayloadFacts
  <2>6. Len(at') = s /\ at'[s] = m /\ \A t \in 1 .. Len(at) : at'[t] = at[t]
    BY <1>5, <2>1, <2>3, <2>5
  <2>7. \A t \in 1 .. Len(at') : t = s \/ t \in 1 .. Len(at)
    BY <1>5, <2>1, <2>6
  <2>8. \A t \in 1 .. Len(at') : \E k \in DOMAIN body : IsMember(k, t) /\ at'[t] <= k
    BY <1>3, <2>4, <2>5, <2>6, <2>7
  <2> QED BY <1>1, <1>4, <2>3, <2>8
<1>8. CASE KeyMissing
  <2>1. PICK s : s = Len(at) + 1
    OBVIOUS
  <2>2. scan = "scan" /\ Matches(s) = {}
    BY <1>8, <2>1 DEF KeyMissing
  <2> QED BY <1>2, <1>6, <2>1, <2>2, NextMember
<1>9. CASE UNCHANGED vecVars
  BY <1>1, <1>3, <1>4, <1>9 DEF vecVars
<1> QED BY <1>7, <1>8, <1>9 DEF VecNext

\* A value of the same name in another object is never taken for the one that
\* is looked for: in the order of the searches a wrong one would leave a later
\* search without its key.
THEOREM FieldsNeverMixed == VecSpec => []FieldsRight
BY VecAlways, FieldsAreRight, PTL

\* A complete payload in the documented order is read to the end.
THEOREM DocumentedAccepted == VecSpec => []DocOrderAccepted
<1>1. VecInit => OrderInv
  <2> SUFFICES ASSUME VecInit PROVE OrderInv
    OBVIOUS
  <2>1. 1 .. Len(at) = {} /\ scan # "refused"
    BY DEF VecInit
  <2> QED BY <2>1 DEF OrderInv
<1>2. OrderInv => DocOrderAccepted
  BY DEF OrderInv, DocOrderAccepted
<1> QED BY <1>1, <1>2, VecAlways, NextOrderInv, PTL DEF VecSpec

-----------------------------------------------------------------------------
(* Days.                                                                   *)

Dated ==
  /\ first \in Nat \ {0} /\ passed \in Nat
  /\ date \in [y : Nat \ {0}, m : 1 .. 12, d : 1 .. 31]
  /\ date.d <= MonthLength(date.y, date.m)

DayInv == Dated /\ DaysRight

\* A quotient grows by one in the years the divisor divides.
LEMMA QuotientStep ==
  ASSUME NEW y \in Nat \ {0}, NEW k \in {4, 100, 400}
  PROVE  /\ y \div k \in Nat /\ (y - 1) \div k \in Nat
         /\ y \div k = (y - 1) \div k + (IF y % k = 0 THEN 1 ELSE 0)
<1>1. CASE k = 4 BY <1>1, SMT
<1>2. CASE k = 100 BY <1>2, SMT
<1>3. CASE k = 400 BY <1>3, SMT
<1>4. QED BY <1>1, <1>2, <1>3

\* The calendar's leap years are those of the formula.
LEMMA SameLeapYears ==
  ASSUME NEW y \in Nat \ {0}
  PROVE  MonthLength(y, 2) = IF isLeap(y) THEN 29 ELSE 28
<1>1. y % 400 = 0 => y % 100 = 0 OBVIOUS
<1>2. y % 100 = 0 => y % 4 = 0 OBVIOUS
<1>3. QED BY <1>1, <1>2 DEF MonthLength, isLeap

\* The days of the years before year y.
Before(y) == (y - 1) * 365 + (y - 1) \div 4 - (y - 1) \div 100 + (y - 1) \div 400

\* A year has as many days as its calendar.
LEMMA YearLength ==
  ASSUME NEW y \in Nat \ {0}
  PROVE  Before(y) \in Int /\ Before(y + 1) = Before(y) + (IF isLeap(y) THEN 366 ELSE 365)
<1> DEFINE Grows(k) == IF y % k = 0 THEN 1 ELSE 0
<1>1. /\ y \div 4 = (y - 1) \div 4 + Grows(4) /\ y \div 100 = (y - 1) \div 100 + Grows(100)
      /\ y \div 400 = (y - 1) \div 400 + Grows(400)
  BY QuotientStep
<1>2. Grows(4) - Grows(100) + Grows(400) = IF isLeap(y) THEN 1 ELSE 0
  <2>1. y % 400 = 0 => y % 100 = 0 OBVIOUS
  <2>2. y % 100 = 0 => y % 4 = 0 OBVIOUS
  <2>3. QED BY <2>1, <2>2 DEF isLeap
<1>3. (y - 1) \div 4 \in Nat /\ (y - 1) \div 100 \in Nat /\ (y - 1) \div 400 \in Nat
  BY QuotientStep
<1>4. (y + 1) - 1 = y /\ y * 365 = (y - 1) * 365 + 365 OBVIOUS
<1>5. Grows(4) \in {0, 1} /\ Grows(100) \in {0, 1} /\ Grows(400) \in {0, 1} OBVIOUS
<1> HIDE DEF Grows
<1>6. QED BY <1>1, <1>2, <1>3, <1>4, <1>5 DEF Before

\* From one day to the next the day number grows by one.
LEMMA NextDayNumber ==
  ASSUME Dated, NextDay
  PROVE  /\ Dated'
         /\ dayNumberFromYMD(date'.y, date'.m, date'.d)
              = dayNumberFromYMD(date.y, date.m, date.d) + 1
<1> DEFINE y == date.y
           m == date.m
           d == date.d
           number(a, b, c) == dayNumberFromYMD(a, b, c)
<1>1. y \in Nat \ {0} /\ m \in 1 .. 12 /\ d \in 1 .. 31 /\ d <= MonthLength(y, m) BY DEF Dated
<1>2. \A a \in Nat \ {0}, b \in 1 .. 12, c \in 1 .. 31 :
        number(a, b, c) = Before(a) + monthDaysBefore[b] + c - 1 + (IF b > 2 /\ isLeap(a) THEN 1 ELSE 0)
  BY DEF dayNumberFromYMD, Before
<1>3. Before(y) \in Int /\ Before(y + 1) = Before(y) + (IF isLeap(y) THEN 366 ELSE 365)
  BY <1>1, YearLength
<1>4. MonthLength(y, 2) = IF isLeap(y) THEN 29 ELSE 28 BY <1>1, SameLeapYears
<1>5. \A b \in 1 .. 12 : monthDaysBefore[b] \in Nat /\ MonthLength(y, b) \in 28 .. 31
  BY <1>1 DEF monthDaysBefore, MonthLength
<1>6. \A b \in 1 .. 11 : monthDaysBefore[b + 1] =
        monthDaysBefore[b] + (IF b = 2 THEN 28 ELSE MonthLength(y, b))
  BY <1>1 DEF monthDaysBefore, MonthLength
<1>7. monthDaysBefore[1] = 0 /\ monthDaysBefore[12] = 334 /\ MonthLength(y, 12) = 31
      /\ MonthLength(y + 1, 1) = 31
  BY DEF monthDaysBefore, MonthLength
<1>8. first' = first /\ passed' = passed + 1 BY DEF NextDay
<1>9. CASE d < MonthLength(y, m)
  <2>1. date' = [y |-> y, m |-> m, d |-> d + 1]
    <3>1. date' = [date EXCEPT !.d = @ + 1] BY <1>9 DEF NextDay
    <3>2. QED BY <3>1 DEF Dated
  <2>2. d + 1 \in 1 .. 31 BY <1>1, <1>5, <1>9
  <2>3. Dated' BY <1>1, <1>5, <1>8, <1>9, <2>1, <2>2 DEF Dated
  <2>4. number(y, m, d + 1) = number(y, m, d) + 1
    <3> DEFINE mb == monthDaysBefore[m]
               leap == IF m > 2 /\ isLeap(y) THEN 1 ELSE 0
               before == Before(y)
    <3>1. number(y, m, d) = before + mb + d - 1 + leap BY <1>1, <1>2
    <3>2. number(y, m, d + 1) = before + mb + (d + 1) - 1 + leap BY <1>1, <1>2, <2>2
    <3>3. mb \in Nat /\ leap \in Nat /\ before \in Int /\ d \in Nat BY <1>1, <1>3, <1>5
    <3> HIDE DEF number, mb, leap, before
    <3>4. QED BY <3>1, <3>2, <3>3
  <2>5. QED BY <2>1, <2>3, <2>4
<1>10. CASE d >= MonthLength(y, m) /\ m < 12
  <2>0. ~(d < MonthLength(y, m)) BY <1>1, <1>5, <1>10
  <2>1. date' = [y |-> y, m |-> m + 1, d |-> 1] BY <1>10, <2>0 DEF NextDay
  <2>2. m \in 1 .. 11 /\ m + 1 \in 1 .. 12 /\ d = MonthLength(y, m) BY <1>1, <1>5, <1>10
  <2>3. Dated' BY <1>1, <1>5, <1>8, <2>1, <2>2 DEF Dated
  <2>4. number(y, m + 1, 1) = number(y, m, d) + 1
    <3> DEFINE mb == monthDaysBefore[m]
               nb == monthDaysBefore[m + 1]
               lm == IF m > 2 /\ isLeap(y) THEN 1 ELSE 0
               ln == IF m + 1 > 2 /\ isLeap(y) THEN 1 ELSE 0
               before == Before(y)
    <3>1. number(y, m, d) = before + mb + d - 1 + lm BY <1>1, <1>2
    <3>2. number(y, m + 1, 1) = before + nb + 1 - 1 + ln BY <1>1, <1>2, <2>2
    <3>3. mb \in Nat /\ nb \in Nat /\ lm \in Nat /\ ln \in Nat
          /\ before \in Int /\ d \in Nat
      BY <1>1, <1>3, <1>5, <2>2
    <3>4. nb + ln = mb + d + lm
      <4>1. CASE m = 2
        <5>1. nb = mb + 28 /\ lm = 0 /\ ln = IF isLeap(y) THEN 1 ELSE 0
          BY <1>6, <2>2, <4>1
        <5>2. d = IF isLeap(y) THEN 29 ELSE 28 BY <1>4, <2>2, <4>1
        <5> HIDE DEF mb, nb, lm, ln
        <5>3. QED BY <3>3, <5>1, <5>2
      <4>2. CASE m # 2
        <5>1. nb = mb + d BY <1>6, <2>2, <4>2
        <5>2. ln = lm BY <2>2, <4>2
        <5> HIDE DEF mb, nb, lm, ln
        <5>3. QED BY <3>3, <5>1, <5>2
      <4>3. QED BY <4>1, <4>2
    <3> HIDE DEF number, mb, nb, lm, ln, before
    <3>5. QED BY <3>1, <3>2, <3>3, <3>4
  <2>5. QED BY <2>1, <2>3, <2>4
<1>11. CASE d >= MonthLength(y, m) /\ m >= 12
  <2>1. m = 12 /\ d = 31 BY <1>1, <1>7, <1>11
  <2>2. date' = [y |-> y + 1, m |-> 1, d |-> 1] BY <1>1, <1>7, <2>1 DEF NextDay, Dated
  <2>3. Dated' BY <1>1, <1>7, <1>8, <2>2 DEF Dated
  <2>4. number(y + 1, 1, 1) = number(y, 12, 31) + 1
    <3> HIDE DEF number
    <3>1. y + 1 \in Nat \ {0} BY <1>1
    <3>2. number(y + 1, 1, 1) = Before(y + 1) BY <1>2, <1>3, <1>7, <3>1
    <3>3. number(y, 12, 31) = Before(y) + 364 + (IF isLeap(y) THEN 1 ELSE 0)
      BY <1>1, <1>2, <1>3, <1>7
    <3>4. QED BY <1>3, <3>2, <3>3
  <2>5. QED BY <2>1, <2>2, <2>3, <2>4
<1>12. QED BY <1>1, <1>5, <1>9, <1>10, <1>11

\* The day numbers of dayNumberFromYMD count the days of the calendar: their
\* differences are days, whichever the year the walk starts from, over leap
\* days and centuries.
THEOREM DayNumbersCount == DaySpec => []DaysRight
<1>1. DayInit => DayInv
  <2> SUFFICES ASSUME DayInit PROVE DayInv OBVIOUS
  <2>1. first \in Nat \ {0} BY DaysAssumption DEF DayInit
  <2>2. Dated BY <2>1 DEF DayInit, Dated, MonthLength
  <2>3. dayNumberFromYMD(first, 1, 1) = Before(first)
    BY <2>1, YearLength DEF dayNumberFromYMD, Before, monthDaysBefore
  <2>4. first = 1 => Before(first) = 0 BY DEF Before
  <2>5. QED BY <2>1, <2>2, <2>3, <2>4, YearLength DEF DayInit, DayInv, DaysRight
<1>2. DayInv /\ [NextDay]_dayVars => DayInv'
  <2> SUFFICES ASSUME DayInv, [NextDay]_dayVars PROVE DayInv' OBVIOUS
  <2>1. CASE NextDay
    <3>1. /\ Dated'
          /\ dayNumberFromYMD(date'.y, date'.m, date'.d)
               = dayNumberFromYMD(date.y, date.m, date.d) + 1
      BY <2>1, NextDayNumber DEF DayInv
    <3>2. first' = first /\ passed' = passed + 1 BY <2>1 DEF NextDay
    <3>3. dayNumberFromYMD(first, 1, 1) \in Int
      BY YearLength DEF DayInv, Dated, dayNumberFromYMD, Before, monthDaysBefore
    <3>4. QED BY <3>1, <3>2, <3>3 DEF DayInv, DaysRight, Dated
  <2>2. CASE UNCHANGED dayVars BY <2>2 DEF dayVars, DayInv, DaysRight, Dated
  <2>3. QED BY <2>1, <2>2
<1>3. DayInv => DaysRight BY DEF DayInv
<1>4. QED BY <1>1, <1>2, <1>3, PTL DEF DaySpec

-----------------------------------------------------------------------------
(* Calibrate.                                                              *)

\* What the projection makes of the records.
StillWrong == {r \in records : IF Escalates(thresholds, r) THEN FullWrong(r) ELSE FastWrong(r)}

CalInv ==
  /\ records \subseteq Records
  /\ \/ thresholds = Uncomputed /\ wrong = {}
     \/ thresholds = Thresholds(records) /\ (wrong = {} \/ wrong = StillWrong)

LEMMA LeastWorst ==
  ASSUME NEW rs \in SUBSET Records, NEW c \in Classes, FixableWorsts(rs, c) # {}
  PROVE  /\ FixableWorsts(rs, c) \subseteq Nat
         /\ Min(FixableWorsts(rs, c)) \in FixableWorsts(rs, c)
         /\ \A w \in FixableWorsts(rs, c) : Min(FixableWorsts(rs, c)) <= w
<1> DEFINE W == FixableWorsts(rs, c)
<1>0. W # {} OBVIOUS
<1>1. W \subseteq Nat
  BY CalibrateAssumption DEF FixableWorsts, Records
<1> HIDE DEF W
<1>2. PICK v \in W : \A u \in W : ~(<<u, v>> \in OpToRel(<, Nat))
  BY <1>1, <1>0, NatLessThanWellFounded, WFMin, Zenon
<1>3. \A u \in W : v <= u
  <2>1. \A u, w \in Nat : u < w => <<u, w>> \in OpToRel(<, Nat) BY Zenon DEF OpToRel
  <2>2. \A u \in W : u \in Nat /\ v \in Nat /\ ~(u < v) BY <1>1, <1>2, <2>1, Zenon
  <2>3. QED BY <2>2
<1>4. Min(W) \in W /\ \A w \in W : Min(W) <= w BY <1>2, <1>3 DEF Min
<1>5. QED BY <1>1, <1>4 DEF W

\* The threshold of a class is 0 or lies right below the nearest error that
\* escalation puts right.
LEMMA ThresholdOf ==
  ASSUME NEW rs \in SUBSET Records, NEW c \in Classes
  PROVE  \/ Thresholds(rs)[c] = 0 /\ (c \in AlwaysEscalated \/ FixableWorsts(rs, c) = {})
         \/ /\ c \notin AlwaysEscalated
            /\ \E r \in rs : r.fastCount = c /\ Fixable(r) /\ r.fastWorst \in Nat
                             /\ Thresholds(rs)[c] = r.fastWorst - 1
            /\ \A r \in rs : r.fastCount = c /\ Fixable(r) => Thresholds(rs)[c] < r.fastWorst
<1>1. CASE c \in AlwaysEscalated \/ FixableWorsts(rs, c) = {} BY <1>1 DEF Thresholds
<1>2. CASE c \notin AlwaysEscalated /\ FixableWorsts(rs, c) # {}
  <2> DEFINE m == Min(FixableWorsts(rs, c))
  <2>1. m \in FixableWorsts(rs, c) /\ FixableWorsts(rs, c) \subseteq Nat
        /\ \A w \in FixableWorsts(rs, c) : m <= w
    BY <1>2, LeastWorst
  <2>2. Thresholds(rs)[c] = m - 1 BY <1>2 DEF Thresholds
  <2> HIDE DEF m
  <2>3. PICK r \in rs : r.fastCount = c /\ Fixable(r) /\ r.fastWorst = m
    BY <2>1 DEF FixableWorsts
  <2>4. \A q \in rs : q.fastCount = c /\ Fixable(q) => q.fastWorst \in FixableWorsts(rs, c)
    BY DEF FixableWorsts
  <2>5. \A q \in rs : q.fastCount = c /\ Fixable(q) => m - 1 < q.fastWorst
    BY <2>1, <2>4
  <2>6. QED BY <1>2, <2>1, <2>2, <2>3, <2>5
<1>3. QED BY <1>1, <1>2

\* What stays wrong cannot be put right, or belongs to a class without a gate.
LEMMA WrongForCause ==
  ASSUME records \subseteq Records, thresholds = Thresholds(records), NEW r \in StillWrong
  PROVE  FullWrong(r) \/ Ungated(r.fastCount)
<1> SUFFICES ASSUME ~FullWrong(r) PROVE Ungated(r.fastCount) OBVIOUS
<1> DEFINE c == r.fastCount
<1>1. r \in records /\ FastWrong(r) /\ ~Escalates(thresholds, r) /\ c \in Classes
  BY DEF StillWrong, Records
<1>2. Fixable(r) BY <1>1 DEF Fixable
<1>3. c \notin AlwaysEscalated /\ ~(thresholds[c] > 0 /\ r.fastWorst > thresholds[c])
  BY <1>1 DEF Escalates
<1>4. r.fastWorst \in FixableWorsts(records, c) BY <1>1, <1>2 DEF FixableWorsts
<1>5. PICK q \in records : /\ q.fastCount = c /\ Fixable(q) /\ q.fastWorst \in Nat
                           /\ thresholds[c] = q.fastWorst - 1 /\ thresholds[c] < r.fastWorst
  BY <1>1, <1>2, <1>3, <1>4, ThresholdOf
<1>6. r.fastWorst \in Nat BY <1>1, CalibrateAssumption DEF Records
<1>7. q.fastWorst <= 1 BY <1>3, <1>5, <1>6
<1>8. QED BY <1>5, <1>7 DEF Ungated

\* A threshold one higher would let an error through.
LEMMA NoLargerGate ==
  ASSUME records \subseteq Records, thresholds = Thresholds(records),
         NEW c \in Classes, thresholds[c] > 0
  PROVE  \E r \in records :
           r.fastCount = c /\ Fixable(r) /\ ~Escalates([thresholds EXCEPT ![c] = @ + 1], r)
<1>1. thresholds[c] # 0 OBVIOUS
<1>2. PICK r \in records : /\ r.fastCount = c /\ Fixable(r) /\ r.fastWorst \in Nat
                           /\ thresholds[c] = r.fastWorst - 1 /\ c \notin AlwaysEscalated
  BY <1>1, ThresholdOf
<1>3. c \in DOMAIN thresholds BY DEF Thresholds
<1>4. [thresholds EXCEPT ![c] = @ + 1][c] = r.fastWorst BY <1>2, <1>3
<1>5. ~(r.fastWorst > r.fastWorst) BY <1>2
<1>6. QED BY <1>2, <1>4, <1>5 DEF Escalates

\* Whatever was replayed, the thresholds computed from it let no error through
\* that escalation would put right, but in a class where such an error lies
\* within a distance of 1, and none of them could be higher.
THEOREM GateIsExact == CalSpec => []GateCatches
<1>1. CalInit => CalInv BY DEF CalInit, CalInv
<1>2. CalInv /\ [CalNext]_calVars => CalInv'
  <2> SUFFICES ASSUME CalInv, [CalNext]_calVars PROVE CalInv' OBVIOUS
  <2>1. Thresholds(records) # Uncomputed
    <3>1. Thresholds(records)[2] = 0 /\ Uncomputed[2] = -1
      BY DEF Thresholds, Uncomputed, Classes, AlwaysEscalated
    <3>2. QED BY <3>1
  <2>2. CASE Replay
    <3>1. thresholds = Uncomputed /\ wrong = {} BY <2>1, <2>2 DEF Replay, CalInv
    <3>2. QED BY <2>2, <3>1 DEF Replay, CalInv
  <2>3. CASE ComputeThresholds
    <3>1. thresholds = Uncomputed /\ wrong = {} BY <2>1, <2>3 DEF ComputeThresholds, CalInv
    <3>2. QED BY <2>3, <3>1 DEF ComputeThresholds, CalInv
  <2>4. CASE Project
    <3>1. thresholds = Thresholds(records) BY <2>4 DEF Project, CalInv
    <3>2. wrong' = StillWrong /\ StillWrong' = StillWrong BY <2>4 DEF Project, StillWrong
    <3>3. QED BY <2>4, <3>1, <3>2 DEF Project, CalInv
  <2>5. CASE UNCHANGED calVars BY <2>5 DEF calVars, CalInv, StillWrong
  <2>6. QED BY <2>2, <2>3, <2>4, <2>5 DEF CalNext
<1>3. CalInv => GateCatches
  BY WrongForCause, NoLargerGate DEF CalInv, GateCatches
<1>4. QED BY <1>1, <1>2, <1>3, PTL DEF CalSpec

=============================================================================
