--------------------------- MODULE RetrievalProofs ---------------------------
(***************************************************************************)
(* What the search, the merge and the cut keep, for every plan, index,     *)
(* setting and score.                                                      *)
(***************************************************************************)
EXTENDS RetrievalProperties, SequenceTheorems, FiniteSetTheorems, TLAPS

-----------------------------------------------------------------------------
(* Orders of finite sets *)

Below(S, R, x) == {y \in S : <<y, x>> \in R}

\* R orders S strictly, and no two elements are left unordered.
Total(S, R) ==
    /\ \A x \in S : <<x, x>> \notin R
    /\ \A x, y \in S : x = y \/ <<x, y>> \in R \/ <<y, x>> \in R
    /\ \A x, y, z \in S : <<x, y>> \in R /\ <<y, z>> \in R => <<x, z>> \in R

\* s is S in the order R.
Arranged(s, S, R) ==
    /\ s \in Seq(S) /\ Len(s) = Cardinality(S)
    /\ \A x \in S : \E i \in DOMAIN s : s[i] = x
    /\ \A i, j \in DOMAIN s : i < j <=> <<s[i], s[j]>> \in R
    /\ \A i \in DOMAIN s : Cardinality(Below(S, R, s[i])) = i - 1

\* Who comes later has more below it.
LEMMA LaterHasMoreBelow ==
    ASSUME NEW S, IsFiniteSet(S), NEW R, Total(S, R), NEW x \in S, NEW y \in S, <<y, x>> \in R
    PROVE  /\ Cardinality(Below(S, R, x)) \in Nat /\ Cardinality(Below(S, R, y)) \in Nat
           /\ Cardinality(Below(S, R, y)) < Cardinality(Below(S, R, x))
<1>1. PICK X : X = Below(S, R, x)
  OBVIOUS
<1>2. PICK Y : Y = Below(S, R, y)
  OBVIOUS
<1>3. X \in SUBSET S /\ Y \in SUBSET X /\ y \in X /\ y \notin Y
  BY <1>1, <1>2 DEF Below, Total
<1>4. IsFiniteSet(X) /\ IsFiniteSet(Y)
  BY <1>3, FS_Subset
<1>5. Cardinality(Y) <= Cardinality(X) /\ Cardinality(X) # Cardinality(Y)
  BY <1>3, <1>4, FS_Subset
<1>6. Cardinality(X) \in Nat /\ Cardinality(Y) \in Nat
  BY <1>4, FS_CardinalityType
<1> QED
  BY <1>1, <1>2, <1>5, <1>6

\* Every number of elements below is somebody's.
LEMMA EveryPlaceIsTaken ==
    ASSUME NEW S, IsFiniteSet(S), NEW R, Total(S, R)
    PROVE  /\ Cardinality(S) \in Nat
           /\ \A x \in S : Cardinality(Below(S, R, x)) \in 0..Cardinality(S) - 1
           /\ \A i \in 1..Cardinality(S) : \E x \in S : Cardinality(Below(S, R, x)) = i - 1
<1>1. PICK n : n = Cardinality(S)
  OBVIOUS
<1>2. n \in Nat
  BY <1>1, FS_CardinalityType
<1>3. ASSUME NEW x \in S
      PROVE  Cardinality(Below(S, R, x)) \in 0..n - 1
  <2>1. PICK X : X = Below(S, R, x)
    OBVIOUS
  <2>2. X \in SUBSET S /\ X # S
    BY <2>1 DEF Below, Total
  <2>3. IsFiniteSet(X) /\ Cardinality(X) <= n /\ Cardinality(X) # n
    BY <1>1, <2>2, FS_Subset
  <2>4. Cardinality(X) \in Nat
    BY <2>3, FS_CardinalityType
  <2> QED
    BY <1>2, <2>1, <2>3, <2>4
<1>4. PICK f : f = [x \in S |-> Cardinality(Below(S, R, x)) + 1]
  OBVIOUS
<1>5. f \in [S -> 1..n]
  BY <1>2, <1>3, <1>4
<1>6. ASSUME NEW x \in S, NEW y \in S, f[x] = f[y]
      PROVE  x = y
  <2>1. PICK a : a = Cardinality(Below(S, R, x))
    OBVIOUS
  <2>2. PICK b : b = Cardinality(Below(S, R, y))
    OBVIOUS
  <2>3. a = b
    BY <1>2, <1>3, <1>4, <1>6, <2>1, <2>2
  <2>4. ~(<<y, x>> \in R)
    <3>1. SUFFICES ASSUME <<y, x>> \in R
                   PROVE  FALSE
      OBVIOUS
    <3>2. a \in Nat /\ b < a
      BY <2>1, <2>2, <3>1, LaterHasMoreBelow
    <3> QED
      BY <2>3, <3>2
  <2>5. ~(<<x, y>> \in R)
    <3>1. SUFFICES ASSUME <<x, y>> \in R
                   PROVE  FALSE
      OBVIOUS
    <3>2. a \in Nat /\ a < b
      BY <2>1, <2>2, <3>1, LaterHasMoreBelow
    <3> QED
      BY <2>3, <3>2
  <2> QED
    BY <2>4, <2>5 DEF Total
<1>7. f \in Injection(S, 1..n)
  BY <1>5, <1>6 DEF Injection, IsInjective
<1>8. IsFiniteSet(1..n) /\ Cardinality(1..n) = n
  BY <1>2, FS_Interval
<1>9. f \in Surjection(S, 1..n)
  BY <1>1, <1>7, <1>8, FS_Injection
<1>10. ASSUME NEW i \in 1..n
       PROVE  \E x \in S : Cardinality(Below(S, R, x)) = i - 1
  <2>1. PICK x \in S : f[x] = i
    BY <1>9 DEF Surjection
  <2>2. PICK a : a = Cardinality(Below(S, R, x))
    OBVIOUS
  <2>3. a \in 0..n - 1 /\ a + 1 = i
    BY <1>3, <1>4, <2>1, <2>2
  <2> QED
    BY <1>2, <2>2, <2>3
<1> QED
  BY <1>1, <1>2, <1>3, <1>10

\* A sequence whose i-th element has i - 1 elements below it is in order.
LEMMA PlacesArrange ==
    ASSUME NEW S, IsFiniteSet(S), NEW R, Total(S, R), NEW s \in [1..Cardinality(S) -> S],
           \A i \in 1..Cardinality(S) : Cardinality(Below(S, R, s[i])) = i - 1
    PROVE  Arranged(s, S, R)
<1>1. PICK n : n = Cardinality(S)
  OBVIOUS
<1>2. n \in Nat
  BY <1>1, EveryPlaceIsTaken
<1>3. s \in Seq(S) /\ Len(s) = n /\ DOMAIN s = 1..n /\ \A i \in 1..n : s[i] \in S
  BY <1>1, <1>2
<1>4. ASSUME NEW i \in 1..n, NEW j \in 1..n
      PROVE  i < j <=> <<s[i], s[j]>> \in R
  <2>1. PICK a : a = Cardinality(Below(S, R, s[i]))
    OBVIOUS
  <2>2. PICK b : b = Cardinality(Below(S, R, s[j]))
    OBVIOUS
  <2>3. /\ i \in Nat /\ j \in Nat /\ a = i - 1 /\ b = j - 1
        /\ s[i] \in S /\ s[j] \in S
    BY <1>1, <1>2, <1>3, <2>1, <2>2
  <2>4. CASE <<s[i], s[j]>> \in R
    <3>1. a < b
      BY <2>1, <2>2, <2>3, <2>4, LaterHasMoreBelow
    <3> QED
      BY <2>3, <2>4, <3>1
  <2>5. CASE <<s[j], s[i]>> \in R
    <3>1. b < a
      BY <2>1, <2>2, <2>3, <2>5, LaterHasMoreBelow
    <3>2. ~(<<s[i], s[j]>> \in R)
      BY <2>3, <2>5 DEF Total
    <3> QED
      BY <2>3, <3>1, <3>2
  <2>6. CASE s[i] = s[j]
    <3>1. ~(<<s[i], s[j]>> \in R)
      BY <2>3, <2>6 DEF Total
    <3>2. a = b
      BY <2>1, <2>2, <2>6
    <3>3. i = j
      BY <2>3, <3>2
    <3> QED
      BY <2>3, <3>1, <3>3
  <2> QED
    BY <2>3, <2>4, <2>5, <2>6 DEF Total
<1>5. ASSUME NEW x \in S
      PROVE  \E i \in 1..n : s[i] = x
  <2>1. PICK a : a = Cardinality(Below(S, R, x))
    OBVIOUS
  <2>2. a \in 0..n - 1
    BY <1>1, <2>1, EveryPlaceIsTaken
  <2>3. PICK i : i = a + 1
    OBVIOUS
  <2>4. i \in 1..n /\ i - 1 = a
    <3>1. n \in Nat
      BY <1>2
    <3> QED
      BY <2>2, <2>3, <3>1
  <2>5. s[i] \in S /\ Cardinality(Below(S, R, s[i])) = a
    BY <1>1, <1>3, <2>4
  <2>6. PICK b : b = Cardinality(Below(S, R, s[i]))
    OBVIOUS
  <2>7. ~(<<s[i], x>> \in R)
    <3>1. SUFFICES ASSUME <<s[i], x>> \in R
                   PROVE  FALSE
      OBVIOUS
    <3>2. a \in Nat /\ b < a
      BY <2>1, <2>5, <2>6, <3>1, LaterHasMoreBelow
    <3> QED
      BY <2>5, <2>6, <3>2
  <2>8. ~(<<x, s[i]>> \in R)
    <3>1. SUFFICES ASSUME <<x, s[i]>> \in R
                   PROVE  FALSE
      OBVIOUS
    <3>2. a \in Nat /\ a < b
      BY <2>1, <2>5, <2>6, <3>1, LaterHasMoreBelow
    <3> QED
      BY <2>5, <2>6, <3>2
  <2> QED
    BY <2>4, <2>5, <2>7, <2>8 DEF Total
<1> QED
  BY <1>1, <1>3, <1>4, <1>5 DEF Arranged

\* The order of S by a first criterion V, by the second P where V leaves a tie.
ThenBy(S, V, P) == {e \in S \X S : e \in V \/ (<<e[2], e[1]>> \notin V /\ e \in P)}

\* V orders S up to ties.
WeakOrder(S, V) ==
    /\ \A x, y \in S : <<x, y>> \in V => <<y, x>> \notin V
    /\ \A x, y, z \in S : <<x, y>> \in V => <<x, z>> \in V \/ <<z, y>> \in V

\* Ties broken by an order, everything is in order.
LEMMA TiesAreBroken ==
    ASSUME NEW S, NEW V, WeakOrder(S, V), NEW P, Total(S, P)
    PROVE  Total(S, ThenBy(S, V, P))
<1>1. PICK R : R = ThenBy(S, V, P)
  OBVIOUS
<1>2. \A x, y \in S : <<x, y>> \in R <=> <<x, y>> \in V \/ (<<y, x>> \notin V /\ <<x, y>> \in P)
  BY <1>1 DEF ThenBy
<1>3. \A x \in S : <<x, x>> \notin R
  BY <1>2 DEF WeakOrder, Total
<1>4. \A x, y \in S : x = y \/ <<x, y>> \in R \/ <<y, x>> \in R
  BY <1>2 DEF Total
<1>5. ASSUME NEW x \in S, NEW y \in S, NEW z \in S, <<x, y>> \in R, <<y, z>> \in R
      PROVE  <<x, z>> \in R
  <2>1. CASE <<x, y>> \in V
    BY <1>2, <1>5, <2>1 DEF WeakOrder
  <2>2. CASE <<y, z>> \in V
    BY <1>2, <1>5, <2>2 DEF WeakOrder
  <2>3. CASE <<x, y>> \notin V /\ <<y, z>> \notin V
    <3>1. <<x, z>> \in P /\ <<z, x>> \notin V
      BY <1>2, <1>5, <2>3 DEF WeakOrder, Total
    <3> QED
      BY <1>2, <3>1
  <2> QED
    BY <2>1, <2>2, <2>3
<1> QED
  BY <1>1, <1>3, <1>4, <1>5 DEF Total

\* Something comes first.
LEMMA SomethingIsFirst ==
    ASSUME NEW S, IsFiniteSet(S), S # {}, NEW R, Total(S, R)
    PROVE  \E x \in S : \A y \in S : x = y \/ <<x, y>> \in R
<1>1. Cardinality(S) \in Nat /\ Cardinality(S) # 0
  BY FS_CardinalityType, FS_EmptySet
<1>2. PICK x \in S : Cardinality(Below(S, R, x)) = 0
  <2>1. 1 \in 1..Cardinality(S)
    BY <1>1
  <2> QED
    BY <2>1, EveryPlaceIsTaken
<1>3. PICK X : X = Below(S, R, x)
  OBVIOUS
<1>4. X \subseteq S /\ Cardinality(X) = 0
  BY <1>2, <1>3 DEF Below
<1>5. X = {}
  BY <1>4, FS_Subset, FS_EmptySet
<1> QED
  BY <1>3, <1>5 DEF Below, Total

\* A set that comes before the rest takes the first places.
LEMMA FirstPlaces ==
    ASSUME NEW S, IsFiniteSet(S), NEW R, Total(S, R), NEW s, Arranged(s, S, R),
           NEW G \in SUBSET S, \A x \in G, y \in S \ G : <<x, y>> \in R,
           NEW i \in DOMAIN s
    PROVE  /\ Cardinality(G) \in Nat
           /\ s[i] \in G <=> i <= Cardinality(G)
<1>1. IsFiniteSet(G) /\ Cardinality(G) \in Nat
  BY FS_Subset, FS_CardinalityType
<1>2. PICK X : X = Below(S, R, s[i])
  OBVIOUS
<1>3. i \in Nat /\ s[i] \in S /\ Cardinality(X) = i - 1
  <2>1. DOMAIN s = 1..Len(s) /\ s \in Seq(S)
    BY DEF Arranged
  <2> QED
    BY <1>2, <2>1 DEF Arranged
<1>4. X \subseteq S /\ IsFiniteSet(X)
  BY <1>2, FS_Subset DEF Below
<1>5. CASE s[i] \in G
  <2>1. X \in SUBSET G /\ X # G
    BY <1>2, <1>3, <1>5 DEF Below, Total
  <2>2. Cardinality(X) <= Cardinality(G) /\ Cardinality(X) # Cardinality(G)
    BY <1>1, <2>1, FS_Subset
  <2> QED
    BY <1>1, <1>3, <1>5, <2>2
<1>6. CASE s[i] \notin G
  <2>1. G \in SUBSET X
    BY <1>2, <1>3, <1>6 DEF Below
  <2>2. Cardinality(G) <= Cardinality(X)
    BY <1>4, <2>1, FS_Subset
  <2> QED
    BY <1>1, <1>3, <1>6, <2>2
<1> QED
  BY <1>1, <1>5, <1>6

-----------------------------------------------------------------------------
(* Lists without repetition *)

Distinct(s, S) == s \in Seq(S) /\ \A i, j \in DOMAIN s : s[i] = s[j] => i = j

\* In such a list everything has one rank.
LEMMA OneRank ==
    ASSUME NEW S, NEW s, Distinct(s, S)
    PROVE  /\ \A i \in DOMAIN s : s[i] \in Elements(s) /\ Rank(s, s[i]) = i
           /\ \A c \in Elements(s) : /\ c \in S
                                     /\ Rank(s, c) \in Nat /\ Rank(s, c) >= 1
                                     /\ Rank(s, c) <= Len(s)
                                     /\ Rank(s, c) \in DOMAIN s
                                     /\ s[Rank(s, c)] = c
<1>1. DOMAIN s = 1..Len(s) /\ Len(s) \in Nat /\ \A i \in DOMAIN s : s[i] \in S
  BY DEF Distinct
<1>2. ASSUME NEW i \in DOMAIN s
      PROVE  s[i] \in Elements(s) /\ Rank(s, s[i]) = i
  BY <1>2 DEF Elements, Rank, Distinct
<1>3. ASSUME NEW c \in Elements(s)
      PROVE  \E i \in DOMAIN s : s[i] = c /\ Rank(s, c) = i
  BY <1>2 DEF Elements
<1> QED
  BY <1>1, <1>2, <1>3

\* The first n of such a list keep their ranks.
LEMMA TakeKeepsRanks ==
    ASSUME NEW S, NEW s, Distinct(s, S), NEW n \in Nat
    PROVE  /\ Distinct(Take(s, n), S)
           /\ Len(Take(s, n)) <= n
           /\ Len(Take(s, n)) <= Len(s)
           /\ \A i \in Nat : i \in DOMAIN Take(s, n) <=> i \in DOMAIN s /\ i <= n
           /\ \A i \in DOMAIN Take(s, n) : Take(s, n)[i] = s[i]
           /\ \A c : c \in Elements(Take(s, n)) <=> c \in Elements(s) /\ Rank(s, c) <= n
           /\ \A c \in Elements(Take(s, n)) : Rank(Take(s, n), c) = Rank(s, c)
<1>1. PICK m : m = IF n < Len(s) THEN n ELSE Len(s)
  OBVIOUS
<1>2. PICK t : t = Take(s, n)
  OBVIOUS
<1>3. /\ s \in Seq(S) /\ DOMAIN s = 1..Len(s) /\ Len(s) \in Nat /\ m \in Nat
      /\ m <= n /\ m <= Len(s)
      /\ \A i \in Nat : i <= m <=> i <= n /\ i <= Len(s)
  BY <1>1 DEF Distinct
<1>4. t = SubSeq(s, 1, m)
  BY <1>1, <1>2 DEF Take
<1>5. t \in Seq(S) /\ Len(t) = m /\ DOMAIN t = 1..m /\ \A i \in 1..m : t[i] = s[i]
  BY <1>3, <1>4
<1>6. Distinct(t, S)
  BY <1>3, <1>5 DEF Distinct
<1>7. \A i \in Nat : i \in DOMAIN t <=> i \in DOMAIN s /\ i <= n
  BY <1>3, <1>5
<1>8. ASSUME NEW c, c \in Elements(t)
      PROVE  c \in Elements(s) /\ Rank(s, c) <= n /\ Rank(t, c) = Rank(s, c)
  <2>1. PICK i \in 1..m : c = s[i] /\ c = t[i]
    BY <1>5, <1>8 DEF Elements
  <2>2. i \in DOMAIN s /\ i \in DOMAIN t /\ i <= n
    BY <1>3, <1>5
  <2>3. c \in Elements(s) /\ Rank(s, c) = i
    BY <2>1, <2>2, OneRank
  <2>4. Rank(t, c) = i
    BY <1>6, <2>1, <2>2, OneRank
  <2> QED
    BY <2>2, <2>3, <2>4
<1>9. ASSUME NEW c, c \in Elements(s), Rank(s, c) <= n
      PROVE  c \in Elements(t)
  <2>1. PICK i : i = Rank(s, c)
    OBVIOUS
  <2>2. i \in Nat /\ i \in DOMAIN s /\ s[i] = c
    BY <1>9, <2>1, OneRank
  <2>3. i \in 1..m
    BY <1>3, <1>9, <2>1, <2>2
  <2> QED
    BY <1>5, <2>2, <2>3 DEF Elements
<1> QED
  BY <1>2, <1>3, <1>5, <1>6, <1>7, <1>8, <1>9

\* A list in the order R ranks by R.
LEMMA RanksByOrder ==
    ASSUME NEW S, NEW R, Total(S, R), NEW s, Arranged(s, S, R)
    PROVE  /\ Distinct(s, S) /\ Elements(s) = S
           /\ \A x, y \in S : Rank(s, x) < Rank(s, y) <=> <<x, y>> \in R
<1>1. s \in Seq(S) /\ DOMAIN s = 1..Len(s) /\ Len(s) \in Nat
  BY DEF Arranged
<1>2. ASSUME NEW i \in DOMAIN s, NEW j \in DOMAIN s, s[i] = s[j]
      PROVE  i = j
  <2>1. ~(i < j) /\ ~(j < i)
    BY <1>1, <1>2 DEF Arranged, Total
  <2> QED
    BY <1>1, <2>1
<1>3. Distinct(s, S)
  BY <1>1, <1>2 DEF Distinct
<1>4. Elements(s) = S
  BY <1>1 DEF Elements, Arranged
<1>5. ASSUME NEW x \in S, NEW y \in S
      PROVE  Rank(s, x) < Rank(s, y) <=> <<x, y>> \in R
  <2>1. PICK i : i = Rank(s, x)
    OBVIOUS
  <2>2. PICK j : j = Rank(s, y)
    OBVIOUS
  <2>3. i \in DOMAIN s /\ s[i] = x /\ j \in DOMAIN s /\ s[j] = y
    BY <1>3, <1>4, <2>1, <2>2, OneRank
  <2> QED
    BY <2>1, <2>2, <2>3 DEF Arranged
<1> QED
  BY <1>3, <1>4, <1>5

\* A leg of a search.
LEMMA HitsAreDistinct ==
    ASSUME NEW s \in Hits
    PROVE  Distinct(s, Chunks) /\ Len(s) <= Depth
<1>1. PICK C \in SUBSET Chunks : s \in SetToSeqs(C)
  BY DEF Hits, SetToAllKPermutations
<1>2. PICK n : n = Cardinality(C)
  OBVIOUS
<1>3. n \in Nat
  BY <1>2, IndexIsFinite, FS_Subset, FS_CardinalityType
<1>4. s \in [1..n -> C] /\ \A i, j \in 1..n : i # j => s[i] # s[j]
  BY <1>1, <1>2 DEF SetToSeqs
<1>5. s \in Seq(Chunks)
  BY <1>3, <1>4
<1>6. DOMAIN s = 1..n
  BY <1>4
<1> QED
  BY <1>4, <1>5, <1>6 DEF Distinct, Hits

\* The empty leg.
LEMMA NothingIsHits == <<>> \in Hits
<1>1. {} \in SUBSET Chunks /\ Cardinality({}) = 0
  BY FS_EmptySet
<1>2. <<>> \in SetToSeqs({})
  <2>1. 1..0 = {}
    OBVIOUS
  <2>2. <<>> \in [1..0 -> {}]
    BY <2>1
  <2> QED
    BY <1>1, <2>1, <2>2 DEF SetToSeqs
<1>3. <<>> \in SetToAllKPermutations(Chunks)
  BY <1>1, <1>2 DEF SetToAllKPermutations
<1>4. Len(<<>>) = 0 /\ Depth \in Nat
  BY SettingsArePositive
<1> QED
  BY <1>3, <1>4 DEF Hits

-----------------------------------------------------------------------------
(* Fractions *)

Fraction(x) == x[1] \in Int /\ x[2] \in Int /\ x[2] > 0

\* Cross-multiplication.
LEMMA Crosswise ==
    ASSUME NEW a, NEW b, NEW p, NEW q
    PROVE  Exceeds(<<a, p>>, <<b, q>>) <=> a * q > b * p
  BY DEF Exceeds

\* Factors above zero keep an inequality, and can be taken out of one.
LEMMA Scaled ==
    ASSUME NEW a \in Int, NEW b \in Int, NEW k \in Int, k > 0
    PROVE  a * k \in Int /\ b * k \in Int /\ (a > b <=> a * k > b * k)
<1>1. CASE a > b
  <2>1. (a - b) * k > 0
    BY <1>1
  <2> QED
    BY <1>1, <2>1
<1>2. CASE ~(a > b)
  <2>1. (b - a) * k >= 0
    BY <1>2
  <2> QED
    BY <1>2, <2>1
<1> QED
  BY <1>1, <1>2

\* The comparison of fractions is one of numbers.
LEMMA FractionsCompare ==
    ASSUME NEW x, Fraction(x), NEW y, Fraction(y), NEW z, Fraction(z), Exceeds(x, y)
    PROVE  ~Exceeds(y, x) /\ (Exceeds(x, z) \/ Exceeds(z, y))
<1>1. PICK a, b, c, p, q, r : /\ a = x[1] /\ b = y[1] /\ c = z[1]
                              /\ p = x[2] /\ q = y[2] /\ r = z[2]
  OBVIOUS
<1>2. /\ a \in Int /\ b \in Int /\ c \in Int
      /\ p \in Int /\ q \in Int /\ r \in Int /\ p > 0 /\ q > 0 /\ r > 0
  BY <1>1 DEF Fraction
<1>3. a * q > b * p
  BY <1>1 DEF Exceeds
<1>4. ~(b * p > a * q)
  BY <1>2, <1>3
<1>5. a * r > c * p \/ c * q > b * r
  <2>1. SUFFICES ASSUME ~(a * r > c * p), ~(c * q > b * r)
                 PROVE  FALSE
    OBVIOUS
  <2>2. (a * q) * r > (b * p) * r
    BY <1>2, <1>3, Scaled
  <2>3. ~((a * r) * q > (c * p) * q)
    BY <1>2, <2>1, Scaled
  <2>4. ~((c * q) * p > (b * r) * p)
    BY <1>2, <2>1, Scaled
  <2>5. /\ (a * q) * r = (a * r) * q
        /\ (c * p) * q = (c * q) * p
        /\ (b * p) * r = (b * r) * p
    BY <1>2
  <2>6. PICK u, v, w : /\ u = (a * q) * r /\ v = (c * p) * q /\ w = (b * p) * r
                       /\ u \in Int /\ v \in Int /\ w \in Int
    BY <1>2
  <2> QED
    BY <2>2, <2>3, <2>4, <2>5, <2>6
<1> QED
  BY <1>1, <1>4, <1>5 DEF Exceeds

\* Not to exceed is transitive.
LEMMA FractionsChain ==
    ASSUME NEW x, Fraction(x), NEW y, Fraction(y), NEW z, Fraction(z),
           ~Exceeds(x, y), ~Exceeds(y, z)
    PROVE  ~Exceeds(x, z)
<1>1. SUFFICES ASSUME Exceeds(x, z)
               PROVE  FALSE
  OBVIOUS
<1> QED
  BY <1>1, FractionsCompare

-----------------------------------------------------------------------------
(* The two legs of a search *)

Legs(pair) == Distinct(pair[1], Chunks) /\ Distinct(pair[2], Chunks)

\* The legs, each cut to its first n.
LEMMA CutLegs ==
    ASSUME NEW pair, Legs(pair), NEW n \in Nat
    PROVE  /\ Legs(Cut(pair, n))
           /\ \A l \in 1..2 :
                  /\ \A c : c \in Elements(Cut(pair, n)[l]) <=>
                              c \in Elements(pair[l]) /\ Rank(pair[l], c) <= n
                  /\ \A c \in Elements(Cut(pair, n)[l]) :
                         Rank(Cut(pair, n)[l], c) = Rank(pair[l], c)
<1>1. PICK cut : cut = Cut(pair, n)
  OBVIOUS
<1>2. cut[1] = Take(pair[1], n) /\ cut[2] = Take(pair[2], n)
  BY <1>1 DEF Cut
<1>3. Distinct(cut[1], Chunks) /\ Distinct(cut[2], Chunks)
  BY <1>2, TakeKeepsRanks DEF Legs
<1>4. ASSUME NEW l \in 1..2
      PROVE  /\ \A c : c \in Elements(cut[l]) <=>
                           c \in Elements(pair[l]) /\ Rank(pair[l], c) <= n
             /\ \A c \in Elements(cut[l]) : Rank(cut[l], c) = Rank(pair[l], c)
  <2>1. Distinct(pair[l], Chunks) /\ cut[l] = Take(pair[l], n)
    BY <1>2 DEF Legs
  <2> QED
    BY <2>1, TakeKeepsRanks
<1> QED
  BY <1>1, <1>3, <1>4 DEF Legs

\* What the walk over the legs meets, it meets somewhere, and nothing else there.
LEMMA MetOnce ==
    ASSUME NEW pair, Legs(pair), NEW c \in Union(pair)
    PROVE  /\ c \in Chunks /\ Met(pair, c) \in Nat
           /\ \A d \in Union(pair) : Met(pair, c) = Met(pair, d) => c = d
<1>1. /\ Distinct(pair[1], Chunks) /\ Distinct(pair[2], Chunks)
      /\ \A d \in Union(pair) : d \in Elements(pair[1]) \/ d \in Elements(pair[2])
      /\ Len(pair[1]) \in Nat
  BY DEF Legs, Union, Distinct
<1>2. ASSUME NEW d \in Union(pair)
      PROVE  /\ d \in Chunks
             /\ \/ /\ Met(pair, d) \in 1..Len(pair[1])
                   /\ pair[1][Met(pair, d)] = d
                \/ /\ Met(pair, d) - Len(pair[1]) \in Nat \ {0}
                   /\ Met(pair, d) \in Nat
                   /\ pair[2][Met(pair, d) - Len(pair[1])] = d
  <2>1. CASE d \in Elements(pair[1])
    <3>1. Met(pair, d) = Rank(pair[1], d)
      BY <2>1 DEF Met
    <3> QED
      BY <1>1, <2>1, <3>1, OneRank
  <2>2. CASE d \notin Elements(pair[1])
    <3>1. d \in Elements(pair[2])
      BY <1>1, <2>2
    <3>2. PICK r : r = Rank(pair[2], d)
      OBVIOUS
    <3>3. d \in Chunks /\ r \in Nat \ {0} /\ pair[2][r] = d
      BY <1>1, <3>1, <3>2, OneRank
    <3>4. Met(pair, d) = Len(pair[1]) + r
      BY <2>2, <3>2 DEF Met
    <3>5. Met(pair, d) - Len(pair[1]) = r /\ Met(pair, d) \in Nat
      BY <1>1, <3>3, <3>4
    <3> QED
      BY <3>3, <3>5
  <2> QED
    BY <2>1, <2>2
<1>3. ASSUME NEW d \in Union(pair), Met(pair, c) = Met(pair, d)
      PROVE  c = d
  <2>1. PICK m : m = Met(pair, c)
    OBVIOUS
  <2>2. PICK k : k = Len(pair[1])
    OBVIOUS
  <2>3. k \in Nat
    BY <1>1, <2>2
  <2>4. \/ m \in 1..k /\ pair[1][m] = c
        \/ m - k \in Nat \ {0} /\ m \in Nat /\ pair[2][m - k] = c
    BY <1>2, <2>1, <2>2
  <2>5. \/ m \in 1..k /\ pair[1][m] = d
        \/ m - k \in Nat \ {0} /\ m \in Nat /\ pair[2][m - k] = d
    BY <1>2, <1>3, <2>1, <2>2
  <2>6. CASE m \in 1..k
    BY <2>3, <2>4, <2>5, <2>6
  <2>7. CASE m \notin 1..k
    BY <2>4, <2>5, <2>7
  <2> QED
    BY <2>6, <2>7
<1> QED
  BY <1>2, <1>3

\* The better of a chunk's ranks.
LEMMA BestOfRanks ==
    ASSUME NEW pair, Legs(pair), NEW c \in Union(pair)
    PROVE  /\ BestRank(pair, c) \in Nat /\ BestRank(pair, c) >= 1
           /\ \A l \in 1..2 : c \in Elements(pair[l]) => BestRank(pair, c) <= Rank(pair[l], c)
           /\ \E l \in 1..2 : c \in Elements(pair[l]) /\ BestRank(pair, c) = Rank(pair[l], c)
<1>1. PICK T : T = {Rank(pair[l], c) : l \in {k \in 1..2 : c \in Elements(pair[k])}}
  OBVIOUS
<1>2. \A l \in 1..2 : l = 1 \/ l = 2
  OBVIOUS
<1>3. \A l \in 1..2 : c \in Elements(pair[l]) =>
          Rank(pair[l], c) \in T /\ Rank(pair[l], c) \in Nat /\ Rank(pair[l], c) >= 1
  BY <1>1, <1>2, OneRank DEF Legs
<1>4. \A t \in T : \E l \in 1..2 : c \in Elements(pair[l]) /\ t = Rank(pair[l], c)
  BY <1>1
<1>5. \E x \in T : \A y \in T : x <= y
  <2>1. PICK a, b : a = Rank(pair[1], c) /\ b = Rank(pair[2], c)
    OBVIOUS
  <2>2. \A t \in T : t \in Nat /\ (t = a \/ t = b)
    BY <1>2, <1>3, <1>4, <2>1
  <2>3. T # {}
    <3>1. 1 \in 1..2 /\ 2 \in 1..2
      OBVIOUS
    <3> QED
      BY <1>3, <3>1 DEF Union
  <2>4. CASE a \in T /\ b \in T
    <3>1. a \in Nat /\ b \in Nat
      BY <2>2, <2>4
    <3>2. CASE a <= b
      BY <2>2, <2>4, <3>1, <3>2
    <3>3. CASE ~(a <= b)
      BY <2>2, <2>4, <3>1, <3>3
    <3> QED
      BY <3>2, <3>3
  <2>5. CASE ~(a \in T /\ b \in T)
    <3>1. PICK t \in T : TRUE
      BY <2>3
    <3>2. \A y \in T : y = t /\ t \in Nat
      BY <2>2, <2>5, <3>1
    <3> QED
      BY <3>1, <3>2
  <2> QED
    BY <2>4, <2>5
<1>6. BestRank(pair, c) \in T /\ \A y \in T : BestRank(pair, c) <= y
  BY <1>1, <1>5 DEF BestRank, Least
<1> QED
  BY <1>3, <1>4, <1>6

\* The union of two legs is finite.
LEMMA UnionIsFinite ==
    ASSUME NEW pair, Legs(pair)
    PROVE  Union(pair) \subseteq Chunks /\ IsFiniteSet(Union(pair))
<1>1. Union(pair) \subseteq Chunks
  BY MetOnce
<1> QED
  BY <1>1, IndexIsFinite, FS_Subset

MetFirst(pair) ==
    {e \in Union(pair) \X Union(pair) : Met(pair, e[1]) < Met(pair, e[2])}

\* The walk is an order.
LEMMA WalkIsOrdered ==
    ASSUME NEW pair, Legs(pair)
    PROVE  /\ Total(Union(pair), MetFirst(pair))
           /\ \A x, y \in Union(pair) : <<x, y>> \in MetFirst(pair) <=> Met(pair, x) < Met(pair, y)
<1>1. \A x, y \in Union(pair) : <<x, y>> \in MetFirst(pair) <=> Met(pair, x) < Met(pair, y)
  BY DEF MetFirst
<1>2. \A x \in Union(pair) : Met(pair, x) \in Nat
  BY MetOnce
<1>3. \A x \in Union(pair) : <<x, x>> \notin MetFirst(pair)
  BY <1>1, <1>2
<1>4. ASSUME NEW x \in Union(pair), NEW y \in Union(pair)
      PROVE  x = y \/ <<x, y>> \in MetFirst(pair) \/ <<y, x>> \in MetFirst(pair)
  <2>1. Met(pair, x) = Met(pair, y) => x = y
    BY MetOnce
  <2>2. PICK a, b : a = Met(pair, x) /\ b = Met(pair, y)
    OBVIOUS
  <2>3. a \in Nat /\ b \in Nat
    BY <1>2, <2>2
  <2> QED
    BY <1>1, <2>1, <2>2, <2>3
<1>5. ASSUME NEW x \in Union(pair), NEW y \in Union(pair), NEW z \in Union(pair),
             <<x, y>> \in MetFirst(pair), <<y, z>> \in MetFirst(pair)
      PROVE  <<x, z>> \in MetFirst(pair)
  <2>1. PICK a, b, c : a = Met(pair, x) /\ b = Met(pair, y) /\ c = Met(pair, z)
    OBVIOUS
  <2>2. a \in Nat /\ b \in Nat /\ c \in Nat /\ a < b /\ b < c
    BY <1>1, <1>2, <1>5, <2>1
  <2>3. a < c
    BY <2>2
  <2> QED
    BY <1>1, <2>1, <2>3
<1> QED
  BY <1>1, <1>3, <1>4, <1>5 DEF Total

BetterRank(pair) ==
    {e \in Union(pair) \X Union(pair) : BestRank(pair, e[1]) < BestRank(pair, e[2])}
UnionBefore(pair) == ThenBy(Union(pair), BetterRank(pair), MetFirst(pair))

\* _union sorts by best rank; its sort is stable.
LEMMA UnionIsArranged ==
    ASSUME NEW pair, Legs(pair)
    PROVE  /\ Total(Union(pair), UnionBefore(pair))
           /\ Arranged(UnionOrder(pair), Union(pair), UnionBefore(pair))
<1>1. PICK S : S = Union(pair)
  OBVIOUS
<1>2. PICK R : R = UnionBefore(pair)
  OBVIOUS
<1>3. PICK s : s = UnionOrder(pair)
  OBVIOUS
<1>4. IsFiniteSet(S)
  BY <1>1, UnionIsFinite
<1>5. \A x \in S : BestRank(pair, x) \in Nat
  BY <1>1, BestOfRanks
<1>6. PICK V : V = BetterRank(pair)
  OBVIOUS
<1>7. \A x, y \in S : <<x, y>> \in V <=> BestRank(pair, x) < BestRank(pair, y)
  BY <1>1, <1>6 DEF BetterRank
<1>8. WeakOrder(S, V)
  <2>1. ASSUME NEW x \in S, NEW y \in S, NEW z \in S, <<x, y>> \in V
        PROVE  <<y, x>> \notin V /\ (<<x, z>> \in V \/ <<z, y>> \in V)
    <3>1. PICK a, b, c : /\ a = BestRank(pair, x)
                         /\ b = BestRank(pair, y)
                         /\ c = BestRank(pair, z)
      OBVIOUS
    <3>2. a \in Nat /\ b \in Nat /\ c \in Nat /\ a < b
      BY <1>5, <1>7, <2>1, <3>1
    <3>3. ~(b < a) /\ (a < c \/ c < b)
      BY <3>2
    <3> QED
      BY <1>7, <3>1, <3>3
  <2> QED
    BY <2>1 DEF WeakOrder
<1>9. Total(S, R)
  BY <1>1, <1>2, <1>6, <1>8, WalkIsOrdered, TiesAreBroken DEF UnionBefore
<1>10. \A x, y \in S : <<x, y>> \in R <=>
           \/ BestRank(pair, x) < BestRank(pair, y)
           \/ BestRank(pair, x) = BestRank(pair, y) /\ Met(pair, x) < Met(pair, y)
  <2>1. ASSUME NEW x \in S, NEW y \in S
        PROVE  <<x, y>> \in R <=>
                   \/ BestRank(pair, x) < BestRank(pair, y)
                   \/ BestRank(pair, x) = BestRank(pair, y) /\ Met(pair, x) < Met(pair, y)
    <3>1. <<x, y>> \in R <=>
              \/ BestRank(pair, x) < BestRank(pair, y)
              \/ ~(BestRank(pair, y) < BestRank(pair, x)) /\ Met(pair, x) < Met(pair, y)
      BY <1>1, <1>2, <1>6, <1>7, WalkIsOrdered DEF UnionBefore, ThenBy
    <3>2. PICK a, b : a = BestRank(pair, x) /\ b = BestRank(pair, y)
      OBVIOUS
    <3>3. a \in Nat /\ b \in Nat
      BY <1>5, <3>2
    <3> QED
      BY <3>1, <3>2, <3>3
  <2> QED
    BY <2>1
<1>11. ASSUME NEW i \in 1..Cardinality(S)
       PROVE  s[i] \in S /\ Cardinality(Below(S, R, s[i])) = i - 1
  <2>1. \A x \in S : Below(S, R, x) =
            {y \in S : \/ BestRank(pair, y) < BestRank(pair, x)
                       \/ BestRank(pair, y) = BestRank(pair, x) /\ Met(pair, y) < Met(pair, x)}
    BY <1>10 DEF Below
  <2>2. s[i] = CHOOSE x \in S :
            Cardinality({y \in S :
                \/ BestRank(pair, y) < BestRank(pair, x)
                \/ BestRank(pair, y) = BestRank(pair, x) /\ Met(pair, y) < Met(pair, x)}) = i - 1
    BY <1>1, <1>3, <1>11 DEF UnionOrder, InOrder
  <2>3. \E x \in S : Cardinality(Below(S, R, x)) = i - 1
    BY <1>4, <1>9, <1>11, EveryPlaceIsTaken
  <2> QED
    BY <2>1, <2>2, <2>3
<1>12. s \in [1..Cardinality(S) -> S]
  BY <1>1, <1>3, <1>11 DEF UnionOrder, InOrder
<1>13. Arranged(s, S, R)
  BY <1>4, <1>9, <1>11, <1>12, PlacesArrange
<1> QED
  BY <1>1, <1>2, <1>3, <1>9, <1>13

\* What _rrf gives a chunk, leg by leg.
LEMMA RrfScores ==
    ASSUME NEW pair, Legs(pair), NEW c \in Union(pair)
    PROVE  /\ Fraction(RrfScore(pair, c))
           /\ \A i, j : i = RrfK + Rank(pair[1], c) /\ j = RrfK + Rank(pair[2], c) =>
                  /\ c \in Elements(pair[1]) => i \in Int /\ i > 0
                  /\ c \in Elements(pair[2]) => j \in Int /\ j > 0
                  /\ c \notin Elements(pair[2]) => RrfScore(pair, c) = <<1, i>>
                  /\ c \notin Elements(pair[1]) => RrfScore(pair, c) = <<1, j>>
                  /\ c \in Elements(pair[1]) /\ c \in Elements(pair[2]) =>
                         RrfScore(pair, c) = <<i + j, i * j>>
<1>1. PICK i, j : i = RrfK + Rank(pair[1], c) /\ j = RrfK + Rank(pair[2], c)
  OBVIOUS
<1>2. RrfK \in Nat
  BY SettingsArePositive
<1>3. c \in Elements(pair[1]) => i \in Int /\ i > 0
  <2>1. SUFFICES ASSUME c \in Elements(pair[1])
                 PROVE  i \in Int /\ i > 0
    OBVIOUS
  <2>2. Rank(pair[1], c) \in Nat /\ Rank(pair[1], c) >= 1
    BY <2>1, OneRank DEF Legs
  <2> QED
    BY <1>1, <1>2, <2>2
<1>4. c \in Elements(pair[2]) => j \in Int /\ j > 0
  <2>1. SUFFICES ASSUME c \in Elements(pair[2])
                 PROVE  j \in Int /\ j > 0
    OBVIOUS
  <2>2. Rank(pair[2], c) \in Nat /\ Rank(pair[2], c) >= 1
    BY <2>1, OneRank DEF Legs
  <2> QED
    BY <1>1, <1>2, <2>2
<1>5. c \in Elements(pair[1]) \/ c \in Elements(pair[2])
  BY DEF Union
<1>6. CASE c \notin Elements(pair[2])
  <2>1. RrfScore(pair, c) = <<1, i>>
    BY <1>1, <1>5, <1>6 DEF RrfScore
  <2>2. c \in Elements(pair[1]) /\ i \in Int /\ i > 0
    BY <1>3, <1>5, <1>6
  <2>3. Fraction(RrfScore(pair, c))
    BY <2>1, <2>2 DEF Fraction
  <2> QED
    BY <1>1, <1>6, <2>1, <2>2, <2>3
<1>7. CASE c \notin Elements(pair[1])
  <2>1. RrfScore(pair, c) = <<1, j>>
    BY <1>1, <1>5, <1>7 DEF RrfScore
  <2>2. c \in Elements(pair[2]) /\ j \in Int /\ j > 0
    BY <1>4, <1>5, <1>7
  <2>3. Fraction(RrfScore(pair, c))
    BY <2>1, <2>2 DEF Fraction
  <2> QED
    BY <1>1, <1>7, <2>1, <2>2, <2>3
<1>8. CASE c \in Elements(pair[1]) /\ c \in Elements(pair[2])
  <2>1. RrfScore(pair, c) = <<i + j, i * j>>
    BY <1>1, <1>8 DEF RrfScore
  <2>2. i + j \in Int /\ i * j \in Int /\ i * j > 0
    BY <1>3, <1>4, <1>8
  <2>3. Fraction(RrfScore(pair, c))
    BY <2>1, <2>2 DEF Fraction
  <2> QED
    BY <1>1, <1>3, <1>4, <1>8, <2>1, <2>3
<1> QED
  BY <1>6, <1>7, <1>8

HigherScore(pair) ==
    {e \in Union(pair) \X Union(pair) : Exceeds(RrfScore(pair, e[1]), RrfScore(pair, e[2]))}
RrfBefore(pair) == ThenBy(Union(pair), HigherScore(pair), MetFirst(pair))

\* _rrf sorts by score; its sort is stable.
LEMMA RrfIsArranged ==
    ASSUME NEW pair, Legs(pair)
    PROVE  /\ Total(Union(pair), RrfBefore(pair))
           /\ Arranged(RrfOrder(pair), Union(pair), RrfBefore(pair))
<1>1. PICK S : S = Union(pair)
  OBVIOUS
<1>2. PICK R : R = RrfBefore(pair)
  OBVIOUS
<1>3. PICK s : s = RrfOrder(pair)
  OBVIOUS
<1>4. IsFiniteSet(S)
  BY <1>1, UnionIsFinite
<1>5. PICK V : V = HigherScore(pair)
  OBVIOUS
<1>6. \A x, y \in S : <<x, y>> \in V <=> Exceeds(RrfScore(pair, x), RrfScore(pair, y))
  BY <1>1, <1>5 DEF HigherScore
<1>7. WeakOrder(S, V)
  <2>1. ASSUME NEW x \in S, NEW y \in S, NEW z \in S, <<x, y>> \in V
        PROVE  <<y, x>> \notin V /\ (<<x, z>> \in V \/ <<z, y>> \in V)
    <3>1. PICK a, b, c : /\ a = RrfScore(pair, x)
                         /\ b = RrfScore(pair, y)
                         /\ c = RrfScore(pair, z)
      OBVIOUS
    <3>2. Fraction(a) /\ Fraction(b) /\ Fraction(c) /\ Exceeds(a, b)
      BY <1>1, <1>6, <2>1, <3>1, RrfScores
    <3>3. ~Exceeds(b, a) /\ (Exceeds(a, c) \/ Exceeds(c, b))
      BY <3>2, FractionsCompare
    <3> QED
      BY <1>6, <3>1, <3>3
  <2> QED
    BY <2>1 DEF WeakOrder
<1>8. Total(S, R)
  BY <1>1, <1>2, <1>5, <1>7, WalkIsOrdered, TiesAreBroken DEF RrfBefore
<1>9. \A x, y \in S : <<x, y>> \in R <=>
          \/ Exceeds(RrfScore(pair, x), RrfScore(pair, y))
          \/ /\ ~Exceeds(RrfScore(pair, y), RrfScore(pair, x))
             /\ Met(pair, x) < Met(pair, y)
  BY <1>1, <1>2, <1>5, <1>6, WalkIsOrdered DEF RrfBefore, ThenBy
<1>10. ASSUME NEW i \in 1..Cardinality(S)
       PROVE  s[i] \in S /\ Cardinality(Below(S, R, s[i])) = i - 1
  <2>1. \A x \in S : Below(S, R, x) =
            {y \in S : \/ Exceeds(RrfScore(pair, y), RrfScore(pair, x))
                       \/ /\ ~Exceeds(RrfScore(pair, x), RrfScore(pair, y))
                          /\ Met(pair, y) < Met(pair, x)}
    BY <1>9 DEF Below
  <2>2. s[i] = CHOOSE x \in S :
            Cardinality({y \in S :
                \/ Exceeds(RrfScore(pair, y), RrfScore(pair, x))
                \/ /\ ~Exceeds(RrfScore(pair, x), RrfScore(pair, y))
                   /\ Met(pair, y) < Met(pair, x)}) = i - 1
    BY <1>1, <1>3, <1>10 DEF RrfOrder, InOrder
  <2>3. \E x \in S : Cardinality(Below(S, R, x)) = i - 1
    BY <1>4, <1>8, <1>10, EveryPlaceIsTaken
  <2> QED
    BY <2>1, <2>2, <2>3
<1>11. s \in [1..Cardinality(S) -> S]
  BY <1>1, <1>3, <1>10 DEF RrfOrder, InOrder
<1>12. Arranged(s, S, R)
  BY <1>4, <1>8, <1>10, <1>11, PlacesArrange
<1> QED
  BY <1>1, <1>2, <1>3, <1>8, <1>12

-----------------------------------------------------------------------------
(* What the fusions make of the legs *)

\* Better in every leg is better, however the legs are fused.
LEMMA DominationCounts ==
    ASSUME NEW pair, Legs(pair), NEW c, NEW d, Dominates(pair, c, d)
    PROVE  /\ c \in Union(pair) /\ d \in Union(pair)
           /\ BestRank(pair, c) < BestRank(pair, d)
           /\ Exceeds(RrfScore(pair, c), RrfScore(pair, d))
<1>1. c \in Union(pair) /\ d \in Union(pair)
  <2>1. 1 \in 1..2 /\ 2 \in 1..2
    OBVIOUS
  <2> QED
    BY <2>1 DEF Dominates, Union
<1>2. BestRank(pair, c) < BestRank(pair, d)
  <2>1. PICK l \in 1..2 : d \in Elements(pair[l]) /\ BestRank(pair, d) = Rank(pair[l], d)
    BY <1>1, BestOfRanks
  <2>2. c \in Elements(pair[l]) /\ Rank(pair[l], c) < Rank(pair[l], d)
    BY <2>1 DEF Dominates
  <2>3. BestRank(pair, c) <= Rank(pair[l], c) /\ BestRank(pair, c) \in Nat
    BY <1>1, <2>2, BestOfRanks
  <2>4. Distinct(pair[l], Chunks)
    BY DEF Legs
  <2>5. Rank(pair[l], c) \in Nat /\ Rank(pair[l], d) \in Nat
    BY <2>1, <2>2, <2>4, OneRank
  <2> QED
    BY <2>1, <2>2, <2>3, <2>5
<1> SUFFICES Exceeds(RrfScore(pair, c), RrfScore(pair, d))
  BY <1>1, <1>2
<1>3. PICK i, j, m, n : /\ i = RrfK + Rank(pair[1], c) /\ j = RrfK + Rank(pair[2], c)
                        /\ m = RrfK + Rank(pair[1], d) /\ n = RrfK + Rank(pair[2], d)
  OBVIOUS
<1>4. d \in Elements(pair[1]) =>
          c \in Elements(pair[1]) /\ i \in Int /\ m \in Int /\ 0 < i /\ i < m
  <2>1. SUFFICES ASSUME d \in Elements(pair[1])
                 PROVE  c \in Elements(pair[1]) /\ i \in Int /\ m \in Int /\ 0 < i /\ i < m
    OBVIOUS
  <2>2. c \in Elements(pair[1]) /\ Rank(pair[1], c) < Rank(pair[1], d)
    BY <2>1 DEF Dominates
  <2>3. /\ Rank(pair[1], c) \in Nat /\ Rank(pair[1], c) >= 1
        /\ Rank(pair[1], d) \in Nat
    BY <2>1, <2>2, OneRank DEF Legs
  <2> QED
    BY <1>3, <2>2, <2>3, SettingsArePositive
<1>5. d \in Elements(pair[2]) =>
          c \in Elements(pair[2]) /\ j \in Int /\ n \in Int /\ 0 < j /\ j < n
  <2>1. SUFFICES ASSUME d \in Elements(pair[2])
                 PROVE  c \in Elements(pair[2]) /\ j \in Int /\ n \in Int /\ 0 < j /\ j < n
    OBVIOUS
  <2>2. c \in Elements(pair[2]) /\ Rank(pair[2], c) < Rank(pair[2], d)
    BY <2>1 DEF Dominates
  <2>3. /\ Rank(pair[2], c) \in Nat /\ Rank(pair[2], c) >= 1
        /\ Rank(pair[2], d) \in Nat
    BY <2>1, <2>2, OneRank DEF Legs
  <2> QED
    BY <1>3, <2>2, <2>3, SettingsArePositive
<1>6. PICK x, y : x = RrfScore(pair, c) /\ y = RrfScore(pair, d)
  OBVIOUS
<1>7. CASE d \notin Elements(pair[2])
  <2>1. y = <<1, m>> /\ c \in Elements(pair[1]) /\ i \in Int /\ m \in Int /\ 0 < i /\ i < m
    BY <1>1, <1>3, <1>4, <1>6, <1>7, RrfScores DEF Union
  <2>2. CASE c \notin Elements(pair[2])
    <3>1. x = <<1, i>>
      BY <1>1, <1>3, <1>6, <2>2, RrfScores
    <3>2. 1 * m > 1 * i
      BY <2>1
    <3>3. Exceeds(<<1, i>>, <<1, m>>)
      BY <3>2, Crosswise
    <3> QED
      BY <1>6, <2>1, <3>1, <3>3
  <2>3. CASE c \in Elements(pair[2])
    <3>1. x = <<i + j, i * j>> /\ j \in Int /\ j > 0
      BY <1>1, <1>3, <1>6, <2>1, <2>3, RrfScores
    <3>2. m * j > i * j
      BY <2>1, <3>1, Scaled
    <3>3. i * m > 0
      BY <2>1
    <3>4. (i + j) * m > 1 * (i * j)
      BY <2>1, <3>1, <3>2, <3>3
    <3>5. Exceeds(<<i + j, i * j>>, <<1, m>>)
      BY <3>4, Crosswise
    <3> QED
      BY <1>6, <2>1, <3>1, <3>5
  <2> QED
    BY <2>2, <2>3
<1>8. CASE d \notin Elements(pair[1])
  <2>1. y = <<1, n>> /\ c \in Elements(pair[2]) /\ j \in Int /\ n \in Int /\ 0 < j /\ j < n
    BY <1>1, <1>3, <1>5, <1>6, <1>8, RrfScores DEF Union
  <2>2. CASE c \notin Elements(pair[1])
    <3>1. x = <<1, j>>
      BY <1>1, <1>3, <1>6, <2>2, RrfScores
    <3>2. 1 * n > 1 * j
      BY <2>1
    <3>3. Exceeds(<<1, j>>, <<1, n>>)
      BY <3>2, Crosswise
    <3> QED
      BY <1>6, <2>1, <3>1, <3>3
  <2>3. CASE c \in Elements(pair[1])
    <3>1. x = <<i + j, i * j>> /\ i \in Int /\ i > 0
      BY <1>1, <1>3, <1>6, <2>1, <2>3, RrfScores
    <3>2. n * i > j * i
      BY <2>1, <3>1, Scaled
    <3>3. j * n > 0
      BY <2>1
    <3>4. (i + j) * n > 1 * (i * j)
      BY <2>1, <3>1, <3>2, <3>3
    <3>5. Exceeds(<<i + j, i * j>>, <<1, n>>)
      BY <3>4, Crosswise
    <3> QED
      BY <1>6, <2>1, <3>1, <3>5
  <2> QED
    BY <2>2, <2>3
<1>9. CASE d \in Elements(pair[1]) /\ d \in Elements(pair[2])
  <2>1. /\ c \in Elements(pair[1]) /\ i \in Int /\ m \in Int /\ 0 < i /\ i < m
        /\ c \in Elements(pair[2]) /\ j \in Int /\ n \in Int /\ 0 < j /\ j < n
    BY <1>4, <1>5, <1>9
  <2>2. x = <<i + j, i * j>> /\ y = <<m + n, m * n>>
    BY <1>1, <1>3, <1>6, <1>9, <2>1, RrfScores
  <2>3. i * m \in Int /\ i * m > 0 /\ j * n \in Int /\ j * n > 0
    BY <2>1
  <2>4. n * (i * m) > j * (i * m) /\ m * (j * n) > i * (j * n)
    BY <2>1, <2>3, Scaled
  <2>5. (i + j) * (m * n) = n * (i * m) + m * (j * n)
    BY <2>1
  <2>6. (m + n) * (i * j) = j * (i * m) + i * (j * n)
    BY <2>1
  <2>7. (i + j) * (m * n) > (m + n) * (i * j)
    <3>1. PICK p, q, r, s : /\ p = n * (i * m) /\ q = j * (i * m)
                            /\ r = m * (j * n) /\ s = i * (j * n)
                            /\ p \in Int /\ q \in Int /\ r \in Int /\ s \in Int
      BY <2>1
    <3>2. p + r > q + s
      BY <2>4, <3>1
    <3> QED
      BY <2>5, <2>6, <3>1, <3>2
  <2>8. Exceeds(<<i + j, i * j>>, <<m + n, m * n>>)
    BY <2>7, Crosswise
  <2> QED
    BY <1>6, <2>2, <2>8
<1> QED
  BY <1>7, <1>8, <1>9

\* What a cut leaves of the worse, it leaves of the better.
LEMMA DominationSurvivesCuts ==
    ASSUME NEW pair, Legs(pair), NEW n \in Nat, NEW cut, cut = Cut(pair, n),
           NEW c, NEW d \in Union(cut), Dominates(pair, c, d)
    PROVE  Dominates(cut, c, d)
<1>1. ASSUME NEW l \in 1..2, d \in Elements(cut[l])
      PROVE  c \in Elements(cut[l]) /\ Rank(cut[l], c) < Rank(cut[l], d)
  <2> /\ \A x : x \in Elements(cut[l]) <=> x \in Elements(pair[l]) /\ Rank(pair[l], x) <= n
      /\ \A x \in Elements(cut[l]) : Rank(cut[l], x) = Rank(pair[l], x)
    BY CutLegs
  <2>1. /\ d \in Elements(pair[l]) /\ Rank(pair[l], d) <= n
        /\ Rank(cut[l], d) = Rank(pair[l], d)
    BY <1>1
  <2>2. c \in Elements(pair[l]) /\ Rank(pair[l], c) < Rank(pair[l], d)
    BY <2>1 DEF Dominates
  <2>3. Distinct(pair[l], Chunks)
    BY DEF Legs
  <2>4. Rank(pair[l], c) \in Nat /\ Rank(pair[l], d) \in Nat
    BY <2>1, <2>2, <2>3, OneRank
  <2>5. Rank(pair[l], c) <= n
    BY <2>1, <2>2, <2>4
  <2>6. c \in Elements(cut[l]) /\ Rank(cut[l], c) = Rank(pair[l], c)
    BY <2>2, <2>5
  <2> QED
    BY <2>1, <2>2, <2>6
<1> QED
  BY <1>1 DEF Dominates, Union

CutOf(method) == IF method = "rrf" THEN Depth ELSE PerLeg
FusedBefore(method, pair) ==
    IF method = "rrf" THEN RrfBefore(Cut(pair, Depth)) ELSE UnionBefore(Cut(pair, PerLeg))

\* Either way the fused list is the union of the cut legs, in an order.
LEMMA FusedIsArranged ==
    ASSUME NEW pair, Legs(pair), NEW method, NEW cut, cut = Cut(pair, CutOf(method))
    PROVE  /\ CutOf(method) \in Nat /\ CutOf(method) >= 1 /\ Legs(cut)
           /\ Union(cut) \subseteq Chunks /\ IsFiniteSet(Union(cut))
           /\ Total(Union(cut), FusedBefore(method, pair))
           /\ Arranged(Fused(method, pair), Union(cut), FusedBefore(method, pair))
           /\ Distinct(Fused(method, pair), Union(cut))
           /\ Elements(Fused(method, pair)) = Union(cut)
<1>1. CutOf(method) \in Nat /\ CutOf(method) >= 1
  BY SettingsArePositive DEF CutOf
<1>2. Legs(cut)
  BY <1>1, CutLegs
<1>3. Union(cut) \subseteq Chunks /\ IsFiniteSet(Union(cut))
  BY <1>2, UnionIsFinite
<1>4. /\ Total(Union(cut), FusedBefore(method, pair))
      /\ Arranged(Fused(method, pair), Union(cut), FusedBefore(method, pair))
  <2>1. CASE method = "rrf"
    BY <1>2, <2>1, RrfIsArranged DEF CutOf, Fused, FusedBefore
  <2>2. CASE method # "rrf"
    BY <1>2, <2>2, UnionIsArranged DEF CutOf, Fused, FusedBefore
  <2> QED
    BY <2>1, <2>2
<1> QED
  BY <1>1, <1>2, <1>3, <1>4, RanksByOrder

\* Candidates are chunks, none twice, no more than the reranker is to have.
LEMMA CandidatesAreDistinct ==
    ASSUME NEW pair, Legs(pair), NEW method
    PROVE  Distinct(Candidates(method, pair), Chunks) /\ Len(Candidates(method, pair)) <= TopK
<1>1. PICK cut : cut = Cut(pair, CutOf(method))
  OBVIOUS
<1>2. PICK f : f = Fused(method, pair)
  OBVIOUS
<1>3. Distinct(f, Union(cut)) /\ Union(cut) \subseteq Chunks
  BY <1>1, <1>2, FusedIsArranged
<1>4. Distinct(f, Chunks)
  BY <1>3 DEF Distinct
<1>5. TopK \in Nat
  BY SettingsArePositive
<1> QED
  BY <1>2, <1>4, <1>5, TakeKeepsRanks DEF Candidates

\* A candidate brings along what beats it in every leg.
LEMMA CandidatesRespectLegs ==
    ASSUME NEW pair, Legs(pair), NEW method, NEW c,
           NEW d \in Elements(Candidates(method, pair)), Dominates(pair, c, d)
    PROVE  /\ c \in Elements(Candidates(method, pair))
           /\ Rank(Candidates(method, pair), c) < Rank(Candidates(method, pair), d)
<1>1. PICK cut : cut = Cut(pair, CutOf(method))
  OBVIOUS
<1>2. PICK f : f = Fused(method, pair)
  OBVIOUS
<1>3. PICK R : R = FusedBefore(method, pair)
  OBVIOUS
<1>4. PICK t : t = Candidates(method, pair)
  OBVIOUS
<1>5. TopK \in Nat
  BY SettingsArePositive
<1>6. /\ CutOf(method) \in Nat /\ Legs(cut)
      /\ Total(Union(cut), R) /\ Arranged(f, Union(cut), R)
      /\ Distinct(f, Union(cut)) /\ Elements(f) = Union(cut)
  BY <1>1, <1>2, <1>3, FusedIsArranged
<1>7. t = Take(f, TopK)
  BY <1>2, <1>4 DEF Candidates
<1>8. d \in Union(cut) /\ Rank(f, d) <= TopK /\ Rank(t, d) = Rank(f, d)
  BY <1>4, <1>5, <1>6, <1>7, TakeKeepsRanks
<1>9. Dominates(cut, c, d)
  BY <1>1, <1>6, <1>8, DominationSurvivesCuts
<1>10. /\ c \in Union(cut)
       /\ BestRank(cut, c) < BestRank(cut, d)
       /\ Exceeds(RrfScore(cut, c), RrfScore(cut, d))
  BY <1>6, <1>9, DominationCounts
<1>11. <<c, d>> \in R
  <2>1. ~(BestRank(cut, d) < BestRank(cut, c))
    <3>1. BestRank(cut, c) \in Nat /\ BestRank(cut, d) \in Nat
      BY <1>6, <1>8, <1>10, BestOfRanks
    <3> QED
      BY <1>10, <3>1
  <2>2. CASE method = "rrf"
    BY <1>1, <1>3, <1>8, <1>10, <2>2 DEF CutOf, FusedBefore, RrfBefore, ThenBy, HigherScore
  <2>3. CASE method # "rrf"
    BY <1>1, <1>3, <1>8, <1>10, <2>3 DEF CutOf, FusedBefore, UnionBefore, ThenBy, BetterRank
  <2> QED
    BY <2>2, <2>3
<1>12. Rank(f, c) < Rank(f, d)
  BY <1>6, <1>8, <1>10, <1>11, RanksByOrder
<1>13. Rank(f, c) \in Nat /\ Rank(f, d) \in Nat
  BY <1>6, <1>8, <1>10, OneRank
<1>14. Rank(f, c) <= TopK
  BY <1>5, <1>8, <1>12, <1>13
<1>15. c \in Elements(t) /\ Rank(t, c) = Rank(f, c)
  BY <1>5, <1>6, <1>7, <1>10, <1>14, TakeKeepsRanks
<1> QED
  BY <1>4, <1>8, <1>12, <1>15

\* In the order of _union, what comes before ranks no worse.
LEMMA BeforeIsNoWorse ==
    ASSUME NEW cut, Legs(cut), NEW x \in Union(cut), NEW y \in Union(cut),
           <<x, y>> \in UnionBefore(cut)
    PROVE  BestRank(cut, x) <= BestRank(cut, y)
<1>1. BestRank(cut, x) \in Nat /\ BestRank(cut, y) \in Nat
  BY BestOfRanks
<1>2. \/ BestRank(cut, x) < BestRank(cut, y)
      \/ ~(BestRank(cut, y) < BestRank(cut, x))
  BY DEF UnionBefore, ThenBy, BetterRank
<1> QED
  BY <1>1, <1>2

\* The union of the legs begins with their best.
LEMMA UnionKeepsTheBest ==
    ASSUME NEW pair, Legs(pair), TopK > 1, NEW l \in 1..2, pair[l] # <<>>
    PROVE  pair[l][1] \in Elements(Candidates("union", pair))
<1>1. PICK cut : cut = Cut(pair, PerLeg)
  OBVIOUS
<1>2. PICK f : f = Fused("union", pair)
  OBVIOUS
<1>3. PICK R : R = FusedBefore("union", pair)
  OBVIOUS
<1>4. PICK S : S = Union(cut)
  OBVIOUS
<1>5. TopK \in Nat /\ PerLeg \in Nat /\ PerLeg >= 1
  BY SettingsArePositive
<1>6. /\ Legs(cut) /\ IsFiniteSet(S) /\ Total(S, R) /\ Arranged(f, S, R)
      /\ Distinct(f, S) /\ Elements(f) = S
  <2>1. cut = Cut(pair, CutOf("union"))
    BY <1>1 DEF CutOf
  <2> QED
    BY <1>2, <1>3, <1>4, <2>1, FusedIsArranged
<1>7. PICK t : t = pair[l][1]
  OBVIOUS
<1>8. t \in Elements(pair[l]) /\ Rank(pair[l], t) = 1
  <2>1. Distinct(pair[l], Chunks)
    BY DEF Legs
  <2>2. 1 \in DOMAIN pair[l]
    BY <2>1 DEF Distinct
  <2> QED
    BY <1>7, <2>1, <2>2, OneRank
<1>9. t \in Elements(cut[l]) /\ Rank(cut[l], t) = 1
  <2>1. /\ \A c : c \in Elements(cut[l]) <=> c \in Elements(pair[l]) /\ Rank(pair[l], c) <= PerLeg
        /\ \A c \in Elements(cut[l]) : Rank(cut[l], c) = Rank(pair[l], c)
    BY <1>1, <1>5, CutLegs
  <2> QED
    BY <1>5, <1>8, <2>1
<1>10. t \in S
  BY <1>4, <1>9 DEF Union
<1>11. BestRank(cut, t) = 1
  BY <1>4, <1>6, <1>9, <1>10, BestOfRanks
<1>12. PICK X : X = Below(S, R, t)
  OBVIOUS
<1>13. PICK a, b : a = cut[1][1] /\ b = cut[2][1]
  OBVIOUS
<1>14. ASSUME NEW x \in S, BestRank(cut, x) = 1
       PROVE  x = a \/ x = b
  <2>1. PICK k \in 1..2 : x \in Elements(cut[k]) /\ Rank(cut[k], x) = 1
    BY <1>4, <1>6, <1>14, BestOfRanks
  <2>2. Distinct(cut[k], Chunks)
    BY <1>6 DEF Legs
  <2>3. cut[k][1] = x
    BY <2>1, <2>2, OneRank
  <2> QED
    BY <1>13, <2>3
<1>15. ASSUME NEW x \in X
       PROVE  x \in S /\ x # t /\ (x = a \/ x = b)
  <2>1. x \in S /\ <<x, t>> \in R /\ x # t
    BY <1>6, <1>12, <1>15 DEF Below, Total
  <2>2. BestRank(cut, x) <= BestRank(cut, t)
    <3>1. R = UnionBefore(cut)
      BY <1>1, <1>3 DEF FusedBefore
    <3> QED
      BY <1>4, <1>6, <1>10, <2>1, <3>1, BeforeIsNoWorse
  <2>3. BestRank(cut, x) \in Nat /\ BestRank(cut, x) >= 1
    BY <1>4, <1>6, <2>1, BestOfRanks
  <2>4. BestRank(cut, x) = 1
    BY <1>11, <2>2, <2>3
  <2> QED
    BY <1>14, <2>1, <2>4
<1>16. IsFiniteSet(X) /\ Cardinality(X) \in Nat
  BY <1>6, <1>12, FS_Subset, FS_CardinalityType DEF Below
<1>17. Cardinality(X) <= 1
  <2>1. t = a \/ t = b
    BY <1>10, <1>11, <1>14
  <2>2. PICK z : z = IF t = a THEN b ELSE a
    OBVIOUS
  <2>3. X \in SUBSET {z}
    BY <1>15, <2>1, <2>2
  <2>4. IsFiniteSet({z}) /\ Cardinality({z}) = 1
    BY FS_Singleton
  <2> QED
    BY <2>3, <2>4, FS_Subset
<1>18. PICK i : i = Rank(f, t)
  OBVIOUS
<1>19. i \in Nat /\ i \in DOMAIN f /\ f[i] = t
  BY <1>6, <1>10, <1>18, OneRank
<1>20. Cardinality(X) = i - 1
  BY <1>6, <1>12, <1>19 DEF Arranged
<1>21. i <= TopK
  BY <1>5, <1>16, <1>17, <1>19, <1>20
<1> QED
  BY <1>2, <1>5, <1>6, <1>7, <1>10, <1>18, <1>21, TakeKeepsRanks DEF Candidates

-----------------------------------------------------------------------------
(* What the reranker returns *)

\* Scored chunks, none twice.
Result(r) ==
    /\ r \in Seq([chunk : Chunks, score : Scores])
    /\ Len(r) <= Cardinality(Chunks)
    /\ \A i, j \in DOMAIN r : r[i].chunk = r[j].chunk => i = j

\* The reranker returns each candidate once.
LEMMA RerankedIsResult ==
    ASSUME NEW candidates, Distinct(candidates, Chunks),
           NEW score \in [Elements(candidates) -> Scores]
    PROVE  Result(Reranked(candidates, score))
<1>1. PICK S : S = Elements(candidates)
  OBVIOUS
<1>2. /\ S \subseteq Chunks /\ IsFiniteSet(S)
      /\ Cardinality(S) \in Nat /\ Cardinality(S) <= Cardinality(Chunks)
  <2>1. S \subseteq Chunks
    BY <1>1, OneRank
  <2> QED
    BY <2>1, IndexIsFinite, FS_Subset, FS_CardinalityType
<1>3. PICK V : V = {e \in S \X S : score[e[1]] > score[e[2]]}
  OBVIOUS
<1>4. PICK P : P = {e \in S \X S : Rank(candidates, e[1]) < Rank(candidates, e[2])}
  OBVIOUS
<1>5. PICK R : R = ThenBy(S, V, P)
  OBVIOUS
<1>6. \A x \in S : /\ score[x] \in Scores /\ score[x] \in Int
                   /\ Rank(candidates, x) \in Nat /\ candidates[Rank(candidates, x)] = x
  BY <1>1, OneRank, ScoresAreIntegers
<1>7. \A x, y \in S : <<x, y>> \in V <=> score[x] > score[y]
  BY <1>3
<1>8. \A x, y \in S : <<x, y>> \in P <=> Rank(candidates, x) < Rank(candidates, y)
  BY <1>4
<1>9. WeakOrder(S, V)
  <2>1. ASSUME NEW x \in S, NEW y \in S, NEW z \in S, <<x, y>> \in V
        PROVE  <<y, x>> \notin V /\ (<<x, z>> \in V \/ <<z, y>> \in V)
    <3>1. PICK a, b, c : a = score[x] /\ b = score[y] /\ c = score[z]
      OBVIOUS
    <3>2. a \in Int /\ b \in Int /\ c \in Int /\ a > b
      BY <1>6, <1>7, <2>1, <3>1
    <3>3. ~(b > a) /\ (a > c \/ c > b)
      BY <3>2
    <3> QED
      BY <1>7, <3>1, <3>3
  <2> QED
    BY <2>1 DEF WeakOrder
<1>10. Total(S, P)
  <2>1. ASSUME NEW x \in S, NEW y \in S, NEW z \in S
        PROVE  /\ <<x, x>> \notin P
               /\ x = y \/ <<x, y>> \in P \/ <<y, x>> \in P
               /\ <<x, y>> \in P /\ <<y, z>> \in P => <<x, z>> \in P
    <3>1. PICK a, b, c : /\ a = Rank(candidates, x)
                         /\ b = Rank(candidates, y)
                         /\ c = Rank(candidates, z)
      OBVIOUS
    <3>2. /\ a \in Nat /\ b \in Nat /\ c \in Nat
          /\ candidates[a] = x /\ candidates[b] = y
      BY <1>6, <3>1
    <3>3. ~(a < a) /\ (a = b \/ a < b \/ b < a) /\ (a < b /\ b < c => a < c)
      BY <3>2
    <3> QED
      BY <1>8, <3>1, <3>2, <3>3
  <2> QED
    BY <2>1 DEF Total
<1>11. Total(S, R)
  BY <1>5, <1>9, <1>10, TiesAreBroken
<1>12. \A x, y \in S : <<x, y>> \in R <=>
           \/ score[x] > score[y]
           \/ score[x] = score[y] /\ Rank(candidates, x) < Rank(candidates, y)
  <2>1. ASSUME NEW x \in S, NEW y \in S
        PROVE  <<x, y>> \in R <=>
                   \/ score[x] > score[y]
                   \/ score[x] = score[y] /\ Rank(candidates, x) < Rank(candidates, y)
    <3>1. <<x, y>> \in R <=>
              \/ score[x] > score[y]
              \/ ~(score[y] > score[x]) /\ Rank(candidates, x) < Rank(candidates, y)
      BY <1>5, <1>7, <1>8 DEF ThenBy
    <3>2. PICK a, b : a = score[x] /\ b = score[y] /\ a \in Int /\ b \in Int
      BY <1>6
    <3> QED
      BY <3>1, <3>2
  <2> QED
    BY <2>1
<1>13. PICK s : s = [i \in 1..Cardinality(S) |->
           CHOOSE x \in S : Cardinality({y \in S :
               \/ score[y] > score[x]
               \/ score[y] = score[x] /\ Rank(candidates, y) < Rank(candidates, x)}) = i - 1]
  OBVIOUS
<1>14. ASSUME NEW i \in 1..Cardinality(S)
       PROVE  s[i] \in S /\ Cardinality(Below(S, R, s[i])) = i - 1
  <2>1. \A x \in S : Below(S, R, x) =
            {y \in S : \/ score[y] > score[x]
                       \/ score[y] = score[x] /\ Rank(candidates, y) < Rank(candidates, x)}
    BY <1>12 DEF Below
  <2>2. \E x \in S : Cardinality(Below(S, R, x)) = i - 1
    BY <1>2, <1>11, <1>14, EveryPlaceIsTaken
  <2> QED
    BY <1>13, <2>1, <2>2
<1>15. s \in [1..Cardinality(S) -> S]
  BY <1>13, <1>14
<1>16. Arranged(s, S, R)
  BY <1>2, <1>11, <1>14, <1>15, PlacesArrange
<1>17. Distinct(s, S) /\ Len(s) = Cardinality(S)
  BY <1>11, <1>16, RanksByOrder DEF Arranged
<1>18. PICK r : r = [i \in DOMAIN s |-> [chunk |-> s[i], score |-> score[s[i]]]]
  OBVIOUS
<1>19. r = Reranked(candidates, score)
  BY <1>1, <1>13, <1>18 DEF Reranked, InOrder
<1>20. DOMAIN s = 1..Cardinality(S) /\ \A i \in DOMAIN s : s[i] \in S
  BY <1>15
<1>21. r \in Seq([chunk : Chunks, score : Scores]) /\ Len(r) = Cardinality(S)
  <2>1. DOMAIN r = 1..Cardinality(S) /\ r = [i \in 1..Cardinality(S) |-> r[i]]
    BY <1>18, <1>20
  <2>2. \A i \in 1..Cardinality(S) : r[i] \in [chunk : Chunks, score : Scores]
    BY <1>2, <1>6, <1>18, <1>20
  <2>3. PICK X : X = [chunk : Chunks, score : Scores]
    OBVIOUS
  <2>4. r \in [1..Cardinality(S) -> X]
    BY <2>1, <2>2, <2>3
  <2>5. r \in Seq(X) /\ Len(r) = Cardinality(S)
    BY <1>2, <2>4
  <2> QED
    BY <2>3, <2>5
<1>22. \A i, j \in DOMAIN r : r[i].chunk = r[j].chunk => i = j
  BY <1>17, <1>18 DEF Distinct
<1> QED
  BY <1>2, <1>19, <1>21, <1>22 DEF Result

-----------------------------------------------------------------------------
(* The merge of the results *)

Results(results) == \A q \in Queries : Result(results[q])

\* Sub-queries are numbered, places too.
LEMMA PlanIsFinite ==
    /\ IsFiniteSet(Queries) /\ Queries \subseteq Nat
    /\ IsFiniteSet(Chunks) /\ Cardinality(Chunks) \in Nat
    /\ Floor \in Nat /\ Floor > 0
<1>1. IsFiniteSet(Queries) /\ IsFiniteSet(Chunks)
  BY PlanIsNumbered, IndexIsFinite
<1>2. Cardinality(Queries) \in Nat /\ Cardinality(Chunks) \in Nat
  BY <1>1, FS_CardinalityType
<1>3. Queries \subseteq Nat
  BY <1>2, PlanIsNumbered
<1> QED
  BY <1>1, <1>2, <1>3, SettingsArePositive

\* A finite set of numbers has a greatest.
LEMMA GreatestOfSome ==
    ASSUME NEW T \in SUBSET Int, IsFiniteSet(T), T # {}
    PROVE  Greatest(T) \in T /\ \A y \in T : y <= Greatest(T)
<1>1. PICK R : R = {e \in T \X T : e[1] > e[2]}
  OBVIOUS
<1>2. \A x, y \in T : <<x, y>> \in R <=> x > y
  BY <1>1
<1>3. Total(T, R)
  <2>1. \A x, y, z \in T : /\ ~(x > x) /\ (x = y \/ x > y \/ y > x)
                           /\ (x > y /\ y > z => x > z)
    OBVIOUS
  <2> QED
    BY <1>2, <2>1 DEF Total
<1>4. PICK x \in T : \A y \in T : x = y \/ <<x, y>> \in R
  BY <1>3, SomethingIsFirst
<1>5. ASSUME NEW y \in T
      PROVE  y <= x
  <2>1. x = y \/ x > y
    BY <1>2, <1>4
  <2>2. x \in Int /\ y \in Int
    OBVIOUS
  <2> QED
    BY <2>1, <2>2
<1> QED
  BY <1>5 DEF Greatest

\* The best score of a result.
LEMMA OwnBestIsBest ==
    ASSUME NEW results, Results(results), NEW q \in Queries, NEW i \in DOMAIN results[q]
    PROVE  /\ results[q][i] \in [chunk : Chunks, score : Scores]
           /\ results[q][i].score \in Int /\ OwnBest(results, q) \in Int
           /\ results[q][i].score <= OwnBest(results, q)
           /\ \E j \in DOMAIN results[q] : results[q][j].score = OwnBest(results, q)
<1>1. PICK r : r = results[q]
  OBVIOUS
<1>2. r \in Seq([chunk : Chunks, score : Scores])
  <2>1. Result(r)
    BY <1>1 DEF Results
  <2> QED
    BY <2>1 DEF Result
<1>3. /\ DOMAIN r = 1..Len(r) /\ Len(r) \in Nat
      /\ \A j \in DOMAIN r : r[j] \in [chunk : Chunks, score : Scores] /\ r[j].score \in Int
  <2>1. /\ DOMAIN r = 1..Len(r) /\ Len(r) \in Nat
        /\ \A j \in 1..Len(r) : r[j] \in [chunk : Chunks, score : Scores]
    <3>1. PICK X : X = [chunk : Chunks, score : Scores]
      OBVIOUS
    <3>2. r \in Seq(X)
      BY <1>2, <3>1
    <3>3. /\ DOMAIN r = 1..Len(r) /\ Len(r) \in Nat
          /\ \A j \in 1..Len(r) : r[j] \in X
      BY <3>2
    <3> QED
      BY <3>1, <3>3
  <2>2. \A e \in [chunk : Chunks, score : Scores] : e.score \in Int
    BY ScoresAreIntegers
  <2> QED
    BY <2>1, <2>2
<1>4. PICK T : T = {r[j].score : j \in DOMAIN r}
  OBVIOUS
<1>5. T \subseteq Int /\ T # {}
  <2>1. r[i].score \in T
    BY <1>1, <1>4
  <2>2. \A y \in T : y \in Int
    BY <1>3, <1>4
  <2> QED
    BY <2>1, <2>2
<1>6. IsFiniteSet(T)
  <2>1. IsFiniteSet(1..Len(r))
    BY <1>3, FS_Interval
  <2>2. PICK f : f = [j \in 1..Len(r) |-> r[j].score]
    OBVIOUS
  <2>3. f \in Surjection(1..Len(r), T)
    BY <1>3, <1>4, <2>2 DEF Surjection
  <2> QED
    BY <2>1, <2>3, FS_Surjection
<1>7. OwnBest(results, q) = Greatest(T)
  BY <1>1, <1>4 DEF OwnBest
<1>8. Greatest(T) \in T /\ \A y \in T : y <= Greatest(T)
  BY <1>5, <1>6, GreatestOfSome
<1> QED
  BY <1>1, <1>3, <1>4, <1>7, <1>8

\* A result is judged against its best or the floor, whichever is more.
LEMMA JudgedAgainst ==
    ASSUME NEW results, Results(results), NEW q \in Queries, NEW i \in DOMAIN results[q]
    PROVE  /\ Denominator(results, q) \in Int /\ Denominator(results, q) > 0
           /\ Denominator(results, q) >= OwnBest(results, q)
           /\ Denominator(results, q) >= Floor
           /\ Denominator(results, q) = OwnBest(results, q) \/ Denominator(results, q) = Floor
<1>1. PICK b : b = OwnBest(results, q)
  OBVIOUS
<1>2. PICK T : T = {b, Floor}
  OBVIOUS
<1>3. b \in Int /\ Floor \in Int /\ Floor > 0
  BY <1>1, OwnBestIsBest, PlanIsFinite
<1>4. \E x \in T : \A y \in T : y <= x
  <2>1. CASE b <= Floor
    BY <1>2, <1>3, <2>1
  <2>2. CASE ~(b <= Floor)
    BY <1>2, <1>3, <2>2
  <2> QED
    BY <2>1, <2>2
<1>5. Denominator(results, q) \in T /\ \A y \in T : y <= Denominator(results, q)
  BY <1>1, <1>2, <1>4 DEF Denominator, Greatest
<1> QED
  BY <1>1, <1>2, <1>3, <1>5

\* A showing is worth at most 1; it is worth 1 when it is a genuine best.
LEMMA Worth ==
    ASSUME NEW results, Results(results), NEW c, NEW s \in Showings(results, c)
    PROVE  /\ s = <<s[1], s[2]>> /\ s[1] \in Queries /\ s[2] \in Nat
           /\ s[2] \in DOMAIN results[s[1]] /\ results[s[1]][s[2]].chunk = c /\ c \in Chunks
           /\ Fraction(Value(results, s))
           /\ Value(results, s) = <<results[s[1]][s[2]].score, Denominator(results, s[1])>>
           /\ Value(results, s)[1] <= Value(results, s)[2]
           /\ Value(results, s)[1] = Value(results, s)[2] <=>
                  /\ results[s[1]][s[2]].score = OwnBest(results, s[1])
                  /\ OwnBest(results, s[1]) >= Floor
<1>1. /\ s \in Queries \X (1..Cardinality(Chunks))
      /\ s[2] \in DOMAIN results[s[1]] /\ results[s[1]][s[2]].chunk = c
  BY DEF Showings
<1>2. s = <<s[1], s[2]>> /\ s[1] \in Queries /\ s[2] \in 1..Cardinality(Chunks)
  BY <1>1
<1>3. s[2] \in Nat
  BY <1>2, PlanIsFinite
<1>4. PICK q, i : q = s[1] /\ i = s[2]
  OBVIOUS
<1>5. PICK m, b, d : m = results[q][i].score /\ b = OwnBest(results, q) /\ d = Denominator(results, q)
  OBVIOUS
<1>6. /\ results[q][i] \in [chunk : Chunks, score : Scores]
      /\ m \in Int /\ b \in Int /\ m <= b
  BY <1>1, <1>2, <1>4, <1>5, OwnBestIsBest
<1>7. /\ d \in Int /\ d > 0 /\ d >= b /\ d >= Floor /\ (d = b \/ d = Floor)
  BY <1>1, <1>2, <1>4, <1>5, JudgedAgainst
<1>8. Value(results, s) = <<m, d>>
  BY <1>4, <1>5 DEF Value
<1>9. Fraction(Value(results, s))
  BY <1>6, <1>7, <1>8 DEF Fraction
<1>10. m <= d /\ (m = d <=> m = b /\ b >= Floor)
  <2>1. Floor \in Nat
    BY PlanIsFinite
  <2> QED
    BY <1>6, <1>7, <2>1
<1>11. c \in Chunks
  BY <1>1, <1>4, <1>6
<1> QED
  BY <1>1, <1>2, <1>3, <1>4, <1>5, <1>8, <1>9, <1>10, <1>11

\* Every place of a result is a showing.
LEMMA PlacesAreShowings ==
    ASSUME NEW results, Results(results), NEW q \in Queries, NEW i \in DOMAIN results[q]
    PROVE  <<q, i>> \in Showings(results, results[q][i].chunk)
<1>1. PICK r : r = results[q]
  OBVIOUS
<1>2. PICK X : X = [chunk : Chunks, score : Scores]
  OBVIOUS
<1>3. r \in Seq(X) /\ Len(r) <= Cardinality(Chunks)
  BY <1>1, <1>2 DEF Results, Result
<1>4. DOMAIN r = 1..Len(r) /\ Len(r) \in Nat
  BY <1>3
<1>5. i \in 1..Cardinality(Chunks)
  BY <1>1, <1>3, <1>4, PlanIsFinite
<1> QED
  BY <1>5 DEF Showings

EarlierIn(T) == {e \in T \X T : Earlier(e[1], e[2])}

\* A chunk that was found has showings, finitely many, one after the other.
LEMMA ShowingsAreInTurn ==
    ASSUME NEW results, Results(results), NEW c \in Found(results), NEW T, T = Showings(results, c)
    PROVE  T # {} /\ IsFiniteSet(T) /\ Total(T, EarlierIn(T))
<1>1. PICK q \in Queries : \E i \in DOMAIN results[q] : results[q][i].chunk = c
  BY DEF Found
<1>2. PICK i \in DOMAIN results[q] : results[q][i].chunk = c
  BY <1>1
<1>3. <<q, i>> \in T
  BY <1>2, PlacesAreShowings
<1>4. IsFiniteSet(T)
  <2>1. IsFiniteSet(1..Cardinality(Chunks))
    BY PlanIsFinite, FS_Interval
  <2>2. IsFiniteSet(Queries \X (1..Cardinality(Chunks)))
    BY <2>1, PlanIsFinite, FS_Product
  <2>3. T \subseteq Queries \X (1..Cardinality(Chunks))
    BY DEF Showings
  <2> QED
    BY <2>2, <2>3, FS_Subset
<1>5. \A s \in T : s = <<s[1], s[2]>> /\ s[1] \in Nat /\ s[2] \in Nat
  BY Worth, PlanIsFinite
<1>6. \A s, t \in T : <<s, t>> \in EarlierIn(T) <=> Earlier(s, t)
  BY DEF EarlierIn
<1>7. ASSUME NEW s \in T, NEW t \in T, NEW u \in T
      PROVE  /\ ~Earlier(s, s)
             /\ s = t \/ Earlier(s, t) \/ Earlier(t, s)
             /\ Earlier(s, t) /\ Earlier(t, u) => Earlier(s, u)
  <2>1. PICK a, b, d, e, f, g : /\ a = s[1] /\ b = s[2] /\ d = t[1] /\ e = t[2]
                                /\ f = u[1] /\ g = u[2]
    OBVIOUS
  <2>2. /\ s = <<a, b>> /\ t = <<d, e>> /\ u = <<f, g>>
        /\ a \in Nat /\ b \in Nat /\ d \in Nat /\ e \in Nat /\ f \in Nat /\ g \in Nat
    BY <1>5, <2>1
  <2> QED
    BY <2>2 DEF Earlier
<1> QED
  BY <1>3, <1>4, <1>6, <1>7 DEF Total

\* The first of them.
LEMMA FirstIsFirst ==
    ASSUME NEW results, Results(results), NEW c \in Found(results)
    PROVE  /\ FirstShowing(results, c) \in Showings(results, c)
           /\ \A t \in Showings(results, c) :
                  FirstShowing(results, c) = t \/ Earlier(FirstShowing(results, c), t)
<1>1. PICK T : T = Showings(results, c)
  OBVIOUS
<1>2. T # {} /\ IsFiniteSet(T) /\ Total(T, EarlierIn(T))
  BY <1>1, ShowingsAreInTurn
<1>3. \E s \in T : \A t \in T : s = t \/ <<s, t>> \in EarlierIn(T)
  BY <1>2, SomethingIsFirst
<1>4. \E s \in T : \A t \in T : s = t \/ Earlier(s, t)
  BY <1>3 DEF EarlierIn
<1> QED
  BY <1>1, <1>4 DEF FirstShowing

\* A chunk is credited with its best showing.
LEMMA BestShowing ==
    ASSUME NEW results, Results(results), NEW c \in Found(results)
    PROVE  /\ Fraction(Normalised(results, c))
           /\ \E s \in Showings(results, c) : Normalised(results, c) = Value(results, s)
           /\ \A t \in Showings(results, c) :
                  ~Exceeds(Value(results, t), Normalised(results, c))
<1>1. PICK T : T = Showings(results, c)
  OBVIOUS
<1>2. T # {} /\ IsFiniteSet(T) /\ Total(T, EarlierIn(T))
  BY <1>1, ShowingsAreInTurn
<1>3. PICK V : V = {e \in T \X T : Exceeds(Value(results, e[1]), Value(results, e[2]))}
  OBVIOUS
<1>4. \A s, t \in T : <<s, t>> \in V <=> Exceeds(Value(results, s), Value(results, t))
  BY <1>3
<1>5. \A s \in T : Fraction(Value(results, s))
  BY <1>1, Worth
<1>6. WeakOrder(T, V)
  <2>1. ASSUME NEW x \in T, NEW y \in T, NEW z \in T, <<x, y>> \in V
        PROVE  <<y, x>> \notin V /\ (<<x, z>> \in V \/ <<z, y>> \in V)
    <3>1. PICK a, b, d : a = Value(results, x) /\ b = Value(results, y) /\ d = Value(results, z)
      OBVIOUS
    <3>2. Fraction(a) /\ Fraction(b) /\ Fraction(d) /\ Exceeds(a, b)
      BY <1>4, <1>5, <2>1, <3>1
    <3>3. ~Exceeds(b, a) /\ (Exceeds(a, d) \/ Exceeds(d, b))
      BY <3>2, FractionsCompare
    <3> QED
      BY <1>4, <3>1, <3>3
  <2> QED
    BY <2>1 DEF WeakOrder
<1>7. PICK R : R = ThenBy(T, V, EarlierIn(T))
  OBVIOUS
<1>8. Total(T, R)
  BY <1>2, <1>6, <1>7, TiesAreBroken
<1>9. PICK s \in T : \A t \in T : s = t \/ <<s, t>> \in R
  BY <1>2, <1>8, SomethingIsFirst
<1>10. ASSUME NEW t \in T
       PROVE  ~Exceeds(Value(results, t), Value(results, s))
  <2>1. CASE s = t
    BY <1>5, <2>1, FractionsCompare
  <2>2. CASE s # t
    <3>1. <<t, s>> \notin V
      BY <1>6, <1>7, <1>9, <2>2 DEF ThenBy, WeakOrder
    <3> QED
      BY <1>4, <3>1
  <2> QED
    BY <2>1, <2>2
<1>11. PICK w : w = CHOOSE s_1 \in T : \A t \in T : ~Exceeds(Value(results, t), Value(results, s_1))
  OBVIOUS
<1>12. w \in T /\ \A t \in T : ~Exceeds(Value(results, t), Value(results, w))
  BY <1>10, <1>11
<1>13. Normalised(results, c) = Value(results, w)
  BY <1>1, <1>11 DEF Normalised
<1> QED
  BY <1>1, <1>5, <1>12, <1>13

WorthMore(results) ==
    {e \in Found(results) \X Found(results) :
        Exceeds(Normalised(results, e[1]), Normalised(results, e[2]))}
SeenFirst(results) ==
    {e \in Found(results) \X Found(results) :
        Earlier(FirstShowing(results, e[1]), FirstShowing(results, e[2]))}
MergedBefore(results) == ThenBy(Found(results), WorthMore(results), SeenFirst(results))

\* Everything found is a chunk.
LEMMA FoundAreChunks ==
    ASSUME NEW results, Results(results)
    PROVE  Found(results) \subseteq Chunks /\ IsFiniteSet(Found(results))
<1>1. ASSUME NEW c \in Found(results)
      PROVE  c \in Chunks
  <2>1. PICK s : s \in Showings(results, c)
    BY FirstIsFirst
  <2> QED
    BY <2>1, Worth
<1> QED
  BY <1>1, IndexIsFinite, FS_Subset

\* Chunks are found one after the other.
LEMMA SeenFirstIsOrder ==
    ASSUME NEW results, Results(results)
    PROVE  /\ Total(Found(results), SeenFirst(results))
           /\ \A c, d \in Found(results) : <<c, d>> \in SeenFirst(results) <=>
                  Earlier(FirstShowing(results, c), FirstShowing(results, d))
<1>1. PICK S : S = Found(results)
  OBVIOUS
<1>2. PICK P : P = SeenFirst(results)
  OBVIOUS
<1>3. \A x, y \in S : <<x, y>> \in P <=>
          Earlier(FirstShowing(results, x), FirstShowing(results, y))
  BY <1>1, <1>2 DEF SeenFirst
<1>4. ASSUME NEW x \in S
      PROVE  LET s == FirstShowing(results, x) IN
                 /\ s = <<s[1], s[2]>> /\ s[1] \in Nat /\ s[2] \in Nat
                 /\ results[s[1]][s[2]].chunk = x
  <2>1. PICK s : s = FirstShowing(results, x)
    OBVIOUS
  <2>2. s \in Showings(results, x)
    BY <1>1, <2>1, FirstIsFirst
  <2> QED
    BY <2>1, <2>2, Worth, PlanIsFinite
<1>5. ASSUME NEW x \in S, NEW y \in S, NEW z \in S
      PROVE  /\ <<x, x>> \notin P
             /\ x = y \/ <<x, y>> \in P \/ <<y, x>> \in P
             /\ <<x, y>> \in P /\ <<y, z>> \in P => <<x, z>> \in P
  <2>1. PICK s, t, u : /\ s = FirstShowing(results, x)
                       /\ t = FirstShowing(results, y)
                       /\ u = FirstShowing(results, z)
    OBVIOUS
  <2>2. /\ s = <<s[1], s[2]>> /\ s[1] \in Nat /\ s[2] \in Nat
        /\ t = <<t[1], t[2]>> /\ t[1] \in Nat /\ t[2] \in Nat
        /\ u = <<u[1], u[2]>> /\ u[1] \in Nat /\ u[2] \in Nat
        /\ results[s[1]][s[2]].chunk = x /\ results[t[1]][t[2]].chunk = y
    BY <1>4, <2>1
  <2>3. s = t => x = y
    BY <2>2
  <2>4. /\ ~Earlier(s, s)
        /\ s = t \/ Earlier(s, t) \/ Earlier(t, s)
        /\ Earlier(s, t) /\ Earlier(t, u) => Earlier(s, u)
    <3>1. PICK a, b, d, e, f, g : /\ a = s[1] /\ b = s[2] /\ d = t[1] /\ e = t[2]
                                  /\ f = u[1] /\ g = u[2]
      OBVIOUS
    <3>2. /\ s = <<a, b>> /\ t = <<d, e>> /\ u = <<f, g>>
          /\ a \in Nat /\ b \in Nat /\ d \in Nat /\ e \in Nat /\ f \in Nat /\ g \in Nat
      BY <2>2, <3>1
    <3> QED
      BY <3>2 DEF Earlier
  <2> QED
    BY <1>3, <2>1, <2>3, <2>4
<1> QED
  BY <1>1, <1>2, <1>3, <1>5 DEF Total

\* The merge sorts by the best showings; its sort is stable.
LEMMA MergedIsArranged ==
    ASSUME NEW results, Results(results)
    PROVE  /\ Total(Found(results), MergedBefore(results))
           /\ Arranged(MergedOrder(results), Found(results), MergedBefore(results))
<1>1. PICK S : S = Found(results)
  OBVIOUS
<1>2. PICK R : R = MergedBefore(results)
  OBVIOUS
<1>3. PICK s : s = MergedOrder(results)
  OBVIOUS
<1>4. IsFiniteSet(S)
  BY <1>1, FoundAreChunks
<1>5. PICK V : V = WorthMore(results)
  OBVIOUS
<1>6. \A x, y \in S : <<x, y>> \in V <=> Exceeds(Normalised(results, x), Normalised(results, y))
  BY <1>1, <1>5 DEF WorthMore
<1>7. WeakOrder(S, V)
  <2>1. ASSUME NEW x \in S, NEW y \in S, NEW z \in S, <<x, y>> \in V
        PROVE  <<y, x>> \notin V /\ (<<x, z>> \in V \/ <<z, y>> \in V)
    <3>1. PICK a, b, c : /\ a = Normalised(results, x)
                         /\ b = Normalised(results, y)
                         /\ c = Normalised(results, z)
      OBVIOUS
    <3>2. Fraction(a) /\ Fraction(b) /\ Fraction(c) /\ Exceeds(a, b)
      BY <1>1, <1>6, <2>1, <3>1, BestShowing
    <3>3. ~Exceeds(b, a) /\ (Exceeds(a, c) \/ Exceeds(c, b))
      BY <3>2, FractionsCompare
    <3> QED
      BY <1>6, <3>1, <3>3
  <2> QED
    BY <2>1 DEF WeakOrder
<1>8. Total(S, R)
  BY <1>1, <1>2, <1>5, <1>7, SeenFirstIsOrder, TiesAreBroken DEF MergedBefore
<1>9. \A x, y \in S : <<x, y>> \in R <=>
          \/ Exceeds(Normalised(results, x), Normalised(results, y))
          \/ /\ ~Exceeds(Normalised(results, y), Normalised(results, x))
             /\ Earlier(FirstShowing(results, x), FirstShowing(results, y))
  BY <1>1, <1>2, <1>5, <1>6, SeenFirstIsOrder DEF MergedBefore, ThenBy
<1>10. ASSUME NEW i \in 1..Cardinality(S)
       PROVE  s[i] \in S /\ Cardinality(Below(S, R, s[i])) = i - 1
  <2>1. \A x \in S : Below(S, R, x) =
            {y \in S : \/ Exceeds(Normalised(results, y), Normalised(results, x))
                       \/ /\ ~Exceeds(Normalised(results, x), Normalised(results, y))
                          /\ Earlier(FirstShowing(results, y), FirstShowing(results, x))}
    BY <1>9 DEF Below
  <2>2. s[i] = CHOOSE x \in S :
            Cardinality({y \in S :
                \/ Exceeds(Normalised(results, y), Normalised(results, x))
                \/ /\ ~Exceeds(Normalised(results, x), Normalised(results, y))
                   /\ Earlier(FirstShowing(results, y), FirstShowing(results, x))}) = i - 1
    BY <1>1, <1>3, <1>10 DEF MergedOrder, InOrder
  <2>3. \E x \in S : Cardinality(Below(S, R, x)) = i - 1
    BY <1>4, <1>8, <1>10, EveryPlaceIsTaken
  <2> QED
    BY <2>1, <2>2, <2>3
<1>11. s \in [1..Cardinality(S) -> S]
  BY <1>1, <1>3, <1>10 DEF MergedOrder, InOrder
<1>12. Arranged(s, S, R)
  BY <1>4, <1>8, <1>10, <1>11, PlacesArrange
<1> QED
  BY <1>1, <1>2, <1>3, <1>8, <1>12

\* Who is not outdone comes first: what comes later is not worth more.
LEMMA LaterIsWorthNoMore ==
    ASSUME NEW results, Results(results), NEW c \in Found(results), NEW d \in Found(results),
           <<c, d>> \in MergedBefore(results)
    PROVE  ~Exceeds(Normalised(results, d), Normalised(results, c))
<1>1. PICK x, y : x = Normalised(results, c) /\ y = Normalised(results, d)
  OBVIOUS
<1>2. Fraction(x) /\ Fraction(y)
  BY <1>1, BestShowing
<1>3. Exceeds(x, y) \/ ~Exceeds(y, x)
  BY <1>1 DEF MergedBefore, ThenBy, WorthMore
<1> QED
  BY <1>1, <1>2, <1>3, FractionsCompare

\* What is delivered, by its place in the merged order.
LEMMA WhatIsDelivered ==
    ASSUME NEW results, Results(results), NEW cut, NEW s, s = MergedOrder(results)
    PROVE  /\ Delivery(results, cut) \subseteq Found(results)
           /\ \A i \in DOMAIN s :
                  s[i] \in Delivery(results, cut) <=>
                      /\ i <= MaxChunks
                      /\ \/ ~cut
                         \/ ~Exceeds(<<CutPercent, 100>>, Normalised(results, s[i]))
                         \/ i <= DeliveryFloor
<1>1. MaxChunks \in Nat
  BY SettingsArePositive
<1>2. Distinct(s, Found(results)) /\ Elements(s) = Found(results)
  BY MergedIsArranged, RanksByOrder
<1>3. PICK t : t = Take(s, MaxChunks)
  OBVIOUS
<1>4. /\ \A i \in Nat : i \in DOMAIN t <=> i \in DOMAIN s /\ i <= MaxChunks
      /\ \A i \in DOMAIN t : t[i] = s[i]
      /\ Distinct(t, Found(results))
  BY <1>1, <1>2, <1>3, TakeKeepsRanks
<1>5. DOMAIN t \subseteq Nat /\ DOMAIN s \subseteq Nat
  BY <1>2, <1>4 DEF Distinct
<1>6. Delivery(results, cut) = {t[i] : i \in {j \in DOMAIN t :
          \/ ~cut
          \/ ~Exceeds(<<CutPercent, 100>>, Normalised(results, t[j]))
          \/ j <= DeliveryFloor}}
  BY <1>3 DEF Delivery
<1>7. Delivery(results, cut) \subseteq Found(results)
  <2>1. \A i \in DOMAIN t : t[i] \in Found(results)
    BY <1>4 DEF Distinct
  <2> QED
    BY <1>6, <2>1
<1>8. ASSUME NEW i \in DOMAIN s, s[i] \in Delivery(results, cut)
      PROVE  /\ i <= MaxChunks
             /\ \/ ~cut
                \/ ~Exceeds(<<CutPercent, 100>>, Normalised(results, s[i]))
                \/ i <= DeliveryFloor
  <2>1. PICK j \in DOMAIN t : /\ s[i] = t[j]
                              /\ \/ ~cut
                                 \/ ~Exceeds(<<CutPercent, 100>>, Normalised(results, t[j]))
                                 \/ j <= DeliveryFloor
    BY <1>6, <1>8
  <2>2. j \in DOMAIN s /\ j <= MaxChunks /\ t[j] = s[j]
    BY <1>4, <1>5
  <2>3. i = j
    BY <1>2, <2>1, <2>2 DEF Distinct
  <2> QED
    BY <2>1, <2>2, <2>3
<1>9. ASSUME NEW i \in DOMAIN s, i <= MaxChunks,
             \/ ~cut
             \/ ~Exceeds(<<CutPercent, 100>>, Normalised(results, s[i]))
             \/ i <= DeliveryFloor
      PROVE  s[i] \in Delivery(results, cut)
  <2>1. i \in DOMAIN t /\ t[i] = s[i]
    BY <1>4, <1>5, <1>9
  <2> QED
    BY <1>6, <1>9, <2>1
<1> QED
  BY <1>7, <1>8, <1>9

-----------------------------------------------------------------------------
(* What the cap and the cut spare *)

\* What is left out is worth no more than what is delivered.
LEMMA LeftOutIsWorthNoMore ==
    ASSUME NEW results, Results(results), NEW cut \in BOOLEAN,
           NEW c \in Delivery(results, cut), NEW d \in Found(results) \ Delivery(results, cut)
    PROVE  ~Exceeds(Normalised(results, d), Normalised(results, c))
<1>1. PICK s : s = MergedOrder(results)
  OBVIOUS
<1>2. PICK R : R = MergedBefore(results)
  OBVIOUS
<1>3. Total(Found(results), R) /\ Arranged(s, Found(results), R) /\ c \in Found(results)
  BY <1>1, <1>2, MergedIsArranged, WhatIsDelivered
<1>4. PICK i \in DOMAIN s : s[i] = c
  BY <1>3 DEF Arranged
<1>5. PICK j \in DOMAIN s : s[j] = d
  BY <1>3 DEF Arranged
<1>6. i \in Nat /\ j \in Nat
  BY <1>3 DEF Arranged
<1>7. MaxChunks \in Nat /\ DeliveryFloor \in Int
  <2>1. PICK T : T = {MinChunks, Cardinality(Queries)}
    OBVIOUS
  <2>2. MaxChunks \in Nat /\ MinChunks \in Nat /\ Cardinality(Queries) \in Nat
    BY PlanIsFinite, FS_CardinalityType, SettingsArePositive
  <2>3. T \in SUBSET Int /\ T # {}
    BY <2>1, <2>2
  <2>4. IsFiniteSet(T)
    <3>1. IsFiniteSet({MinChunks}) /\ IsFiniteSet({Cardinality(Queries)})
      BY FS_Singleton
    <3>2. T = {MinChunks} \cup {Cardinality(Queries)}
      BY <2>1
    <3> QED
      BY <3>1, <3>2, FS_Union
  <2>5. Greatest(T) \in T
    BY <2>3, <2>4, GreatestOfSome
  <2> QED
    BY <2>1, <2>2, <2>3, <2>5 DEF DeliveryFloor
<1>8. /\ i <= MaxChunks
      /\ \/ ~cut
         \/ ~Exceeds(<<CutPercent, 100>>, Normalised(results, c))
         \/ i <= DeliveryFloor
  BY <1>1, <1>4, WhatIsDelivered
<1>9. \/ ~(j <= MaxChunks)
      \/ /\ Exceeds(<<CutPercent, 100>>, Normalised(results, d))
         /\ ~(j <= DeliveryFloor) /\ cut
  BY <1>1, <1>5, WhatIsDelivered
<1>10. CASE i < j
  <2>1. <<c, d>> \in R
    BY <1>3, <1>4, <1>5, <1>10 DEF Arranged
  <2> QED
    BY <1>2, <1>3, <2>1, LaterIsWorthNoMore
<1>11. CASE ~(i < j)
  <2>1. /\ ~Exceeds(<<CutPercent, 100>>, Normalised(results, c))
        /\ Exceeds(<<CutPercent, 100>>, Normalised(results, d))
    BY <1>6, <1>7, <1>8, <1>9, <1>11
  <2>2. PICK x, y, z : /\ x = Normalised(results, c) /\ y = Normalised(results, d)
                       /\ z = <<CutPercent, 100>>
    OBVIOUS
  <2>3. Fraction(x) /\ Fraction(y) /\ Fraction(z)
    BY <1>3, <2>2, BestShowing, SettingsArePositive DEF Fraction
  <2>4. ~Exceeds(y, z)
    BY <2>1, <2>2, <2>3, FractionsCompare
  <2>5. ~Exceeds(y, x)
    BY <2>1, <2>2, <2>3, <2>4, FractionsChain
  <2> QED
    BY <2>2, <2>5
<1> QED
  BY <1>10, <1>11

\* The genuine bests are what is worth 1.
LEMMA GenuineIsWorthOne ==
    ASSUME Results(ranked), NEW c
    PROVE  c \in GenuineBest <=>
               c \in Found(ranked) /\ Normalised(ranked, c)[1] = Normalised(ranked, c)[2]
<1>1. ASSUME c \in GenuineBest
      PROVE  c \in Found(ranked) /\ Normalised(ranked, c)[1] = Normalised(ranked, c)[2]
  <2>1. PICK q \in Queries : Genuine(q) /\ c \in Best(q)
    BY <1>1 DEF GenuineBest
  <2>2. PICK i \in DOMAIN ranked[q] : ranked[q][i].chunk = c /\ ranked[q][i].score = OwnBest(ranked, q)
    BY <2>1 DEF Best
  <2>3. c \in Found(ranked)
    BY <2>2 DEF Found
  <2>4. PICK t : t = <<q, i>>
    OBVIOUS
  <2>5. t \in Showings(ranked, c) /\ t[1] = q /\ t[2] = i
    BY <2>2, <2>4, PlacesAreShowings
  <2>6. PICK v : v = Value(ranked, t)
    OBVIOUS
  <2>7. /\ Fraction(v) /\ v[1] = v[2]
    BY <2>1, <2>2, <2>5, <2>6, Worth DEF Genuine
  <2>8. PICK w : w = Normalised(ranked, c)
    OBVIOUS
  <2>9. Fraction(w) /\ ~Exceeds(v, w)
    BY <2>3, <2>5, <2>6, <2>8, BestShowing
  <2>10. w[1] <= w[2]
    <3>1. PICK s \in Showings(ranked, c) : w = Value(ranked, s)
      BY <2>3, <2>8, BestShowing
    <3> QED
      BY <3>1, Worth
  <2>11. PICK k, m, n : k = v[2] /\ m = w[1] /\ n = w[2]
    OBVIOUS
  <2>12. k \in Int /\ k > 0 /\ m \in Int /\ n \in Int /\ m <= n
    BY <2>7, <2>9, <2>10, <2>11 DEF Fraction
  <2>13. ~(k * n > m * k)
    BY <2>7, <2>9, <2>11 DEF Exceeds
  <2>14. ~(n * k > m * k)
    BY <2>12, <2>13
  <2>15. ~(n > m)
    BY <2>12, <2>14, Scaled
  <2>16. m = n
    BY <2>12, <2>15
  <2> QED
    BY <2>3, <2>8, <2>11, <2>16
<1>2. ASSUME c \in Found(ranked), Normalised(ranked, c)[1] = Normalised(ranked, c)[2]
      PROVE  c \in GenuineBest
  <2>1. PICK s \in Showings(ranked, c) : Normalised(ranked, c) = Value(ranked, s)
    BY <1>2, BestShowing
  <2>2. PICK q, i : q = s[1] /\ i = s[2]
    OBVIOUS
  <2>3. /\ q \in Queries /\ i \in DOMAIN ranked[q] /\ ranked[q][i].chunk = c /\ c \in Chunks
        /\ ranked[q][i].score = OwnBest(ranked, q) /\ OwnBest(ranked, q) >= Floor
    BY <1>2, <2>1, <2>2, Worth
  <2>4. ranked[q] # <<>>
    BY <2>3
  <2>5. c \in Best(q) /\ Genuine(q)
    BY <2>3, <2>4 DEF Best, Genuine
  <2> QED
    BY <2>3, <2>5 DEF GenuineBest
<1> QED
  BY <1>1, <1>2

\* They come before everything else.
LEMMA GenuineComesFirst ==
    ASSUME Results(ranked), NEW c \in GenuineBest, NEW d \in Found(ranked) \ GenuineBest
    PROVE  <<c, d>> \in MergedBefore(ranked)
<1>1. PICK x, y : x = Normalised(ranked, c) /\ y = Normalised(ranked, d)
  OBVIOUS
<1>2. c \in Found(ranked) /\ x[1] = x[2] /\ y[1] # y[2]
  BY <1>1, GenuineIsWorthOne
<1>3. Fraction(x) /\ Fraction(y)
  BY <1>1, <1>2, BestShowing
<1>4. x[1] > 0
  BY <1>2, <1>3 DEF Fraction
<1>5. y[1] <= y[2]
  <2>1. PICK s \in Showings(ranked, d) : y = Value(ranked, s)
    BY <1>1, BestShowing
  <2> QED
    BY <2>1, Worth
<1>6. PICK k, m, n : k = x[1] /\ m = y[1] /\ n = y[2]
  OBVIOUS
<1>7. k \in Int /\ k > 0 /\ m \in Int /\ n \in Int /\ n > m
  BY <1>2, <1>3, <1>4, <1>5, <1>6 DEF Fraction
<1>8. n * k > m * k
  BY <1>7, Scaled
<1>9. k * n > m * k
  BY <1>7, <1>8
<1>10. Exceeds(x, y)
  BY <1>2, <1>6, <1>9 DEF Exceeds
<1> QED
  BY <1>1, <1>2, <1>10 DEF MergedBefore, ThenBy, WorthMore

\* The cap takes them first, and the cut spares them.
LEMMA GenuineAreDelivered ==
    ASSUME Results(ranked), NEW cut \in BOOLEAN, NEW D, D = Delivery(ranked, cut)
    PROVE  IF Cardinality(GenuineBest) <= MaxChunks THEN GenuineBest \subseteq D
                                                    ELSE D \subseteq GenuineBest
<1>1. PICK s : s = MergedOrder(ranked)
  OBVIOUS
<1>2. PICK R, S : R = MergedBefore(ranked) /\ S = Found(ranked)
  OBVIOUS
<1>3. PICK G : G = GenuineBest
  OBVIOUS
<1>4. IsFiniteSet(S) /\ Total(S, R) /\ Arranged(s, S, R)
  BY <1>1, <1>2, FoundAreChunks, MergedIsArranged
<1>5. G \in SUBSET S /\ \A x \in G, y \in S \ G : <<x, y>> \in R
  BY <1>2, <1>3, GenuineIsWorthOne, GenuineComesFirst
<1>6. ASSUME NEW i \in DOMAIN s
      PROVE  /\ i \in Nat /\ Cardinality(G) \in Nat
             /\ s[i] \in G <=> i <= Cardinality(G)
  <2>1. i \in Nat
    BY <1>4 DEF Arranged
  <2>2. Cardinality(G) \in Nat /\ (s[i] \in G <=> i <= Cardinality(G))
    BY <1>4, <1>5, FirstPlaces
  <2> QED
    BY <2>1, <2>2
<1>7. MaxChunks \in Nat /\ CutPercent \in Int /\ CutPercent <= 100
  BY SettingsArePositive
<1>8. CASE Cardinality(G) <= MaxChunks
  <2>1. ASSUME NEW c \in G
        PROVE  c \in D
    <3>1. PICK i \in DOMAIN s : s[i] = c
      BY <1>4, <1>5 DEF Arranged
    <3>2. i <= MaxChunks
      BY <1>6, <1>7, <1>8, <3>1
    <3>3. PICK x : x = Normalised(ranked, c)
      OBVIOUS
    <3>4. Fraction(x) /\ x[1] = x[2]
      BY <1>2, <1>3, <1>5, <3>3, GenuineIsWorthOne, BestShowing
    <3>5. ~Exceeds(<<CutPercent, 100>>, x)
      <4>1. PICK k : k = x[1]
        OBVIOUS
      <4>2. k \in Int /\ k > 0 /\ x[1] = k /\ x[2] = k
        BY <3>4, <4>1 DEF Fraction
      <4>3. ~(CutPercent * k > 100 * k)
        BY <1>7, <4>2, Scaled
      <4>4. ~(CutPercent * k > k * 100)
        BY <1>7, <4>2, <4>3
      <4> QED
        BY <4>2, <4>4 DEF Exceeds
    <3> QED
      BY <1>1, <3>1, <3>2, <3>3, <3>5, WhatIsDelivered
  <2> QED
    BY <1>3, <1>8, <2>1
<1>9. CASE ~(Cardinality(G) <= MaxChunks)
  <2>1. ASSUME NEW c \in D
        PROVE  c \in G
    <3>1. PICK i \in DOMAIN s : s[i] = c
      BY <1>1, <1>2, <1>4, WhatIsDelivered DEF Arranged
    <3>2. i <= MaxChunks
      BY <1>1, <3>1, WhatIsDelivered
    <3> QED
      BY <1>6, <1>7, <1>9, <3>1, <3>2
  <2> QED
    BY <1>3, <1>9, <2>1
<1> QED
  BY <1>8, <1>9

-----------------------------------------------------------------------------
(* What every step maintains *)

\* While the pools are reranked, each is what its legs were fused to, until it
\* is used up; the results are scored chunks, none twice; and what was delivered
\* is what the cap and the cut leave of their merge.
RInv ==
    /\ TypeOK
    /\ pool \in [Queries -> Seq(Chunks)]
    /\ ranked \in [Queries -> Seq([chunk : Chunks, score : Scores])]
    /\ Results(ranked)
    /\ stage = "rerank" =>
           \A q \in Queries : \/ pool[q] = <<>> /\ legs[q] = <<<<>>, <<>>>>
                              \/ pool[q] = Candidates(fusion, legs[q])
    /\ stage = "done" => delivered = Delivery(ranked, cutOn)

\* What the engine found are two legs.
LEMMA FoundLegs ==
    ASSUME TypeOK, NEW q \in Queries
    PROVE  Legs(legs[q])
<1>1. legs[q] \in Hits \X Hits
  BY DEF TypeOK
<1>2. legs[q][1] \in Hits /\ legs[q][2] \in Hits
  BY <1>1
<1> QED
  BY <1>2, HitsAreDistinct DEF Legs

\* Nothing is a result.
LEMMA NothingIsResult == Result(<<>>)
<1>1. <<>> \in Seq([chunk : Chunks, score : Scores]) /\ Len(<<>>) = 0 /\ DOMAIN <<>> = {}
  OBVIOUS
<1> QED
  BY <1>1, PlanIsFinite DEF Result

\* The beginning.
LEMMA RetrievalBegins == Init => RInv
<1> SUFFICES ASSUME Init PROVE RInv
  OBVIOUS
<1>1. <<>> \in Seq(Chunks) /\ Len(<<>>) = 0 /\ <<>> \in Seq([chunk : Chunks, score : Scores])
  OBVIOUS
<1>2. pool \in [Queries -> Seq(Chunks)] /\ ranked \in [Queries -> Seq([chunk : Chunks, score : Scores])]
  BY <1>1 DEF Init
<1>3. \A q \in Queries : pool[q] = <<>> /\ ranked[q] = <<>>
  BY DEF Init
<1>4. Results(ranked)
  BY <1>3, NothingIsResult DEF Results
<1>5. TypeOK
  BY <1>1, <1>3, SettingsArePositive DEF Init, TypeOK
<1>6. stage = "search"
  BY DEF Init
<1> QED
  BY <1>2, <1>4, <1>5, <1>6 DEF RInv

\* A search fills every pool with the candidates of its legs.
LEMMA SearchKeepsRInv == RInv /\ Search => RInv'
<1> SUFFICES ASSUME RInv, Search PROVE RInv'
  OBVIOUS
<1>1. /\ stage' = "rerank" /\ pool' = [q \in Queries |-> Candidates(fusion, legs[q])]
      /\ UNCHANGED <<fusion, cutOn, legs, ranked, delivered>>
  BY DEF Search
<1>2. ASSUME NEW q \in Queries
      PROVE  Candidates(fusion, legs[q]) \in Seq(Chunks) /\ Len(Candidates(fusion, legs[q])) <= TopK
  <2>1. Legs(legs[q])
    BY FoundLegs DEF RInv
  <2> QED
    BY <2>1, CandidatesAreDistinct DEF Distinct
<1>3. pool' \in [Queries -> Seq(Chunks)] /\ \A q \in Queries : pool'[q] = Candidates(fusion, legs[q])
  BY <1>1, <1>2
<1>4. TypeOK'
  BY <1>1, <1>2, <1>3 DEF RInv, TypeOK
<1>5. Results(ranked)'
  BY <1>1 DEF RInv, Results
<1> QED
  BY <1>1, <1>3, <1>4, <1>5 DEF RInv

\* Reranking uses up one pool for one result.
LEMMA RerankKeepsRInv == ASSUME NEW p \in Queries PROVE RInv /\ Rerank(p) => RInv'
<1> SUFFICES ASSUME RInv, Rerank(p) PROVE RInv'
  OBVIOUS
<1>1. PICK score \in [Elements(pool[p]) -> Scores] :
          ranked' = [ranked EXCEPT ![p] = Reranked(pool[p], score)]
  BY DEF Rerank
<1>2. /\ stage = "rerank" /\ pool[p] # <<>>
      /\ pool' = [pool EXCEPT ![p] = <<>>]
      /\ legs' = [legs EXCEPT ![p] = <<<<>>, <<>>>>]
      /\ UNCHANGED <<stage, fusion, cutOn, delivered>>
  BY DEF Rerank
<1>3. PICK r : r = Reranked(pool[p], score)
  OBVIOUS
<1>4. Result(r)
  <2>1. pool[p] = Candidates(fusion, legs[p])
    BY <1>2 DEF RInv
  <2>2. Legs(legs[p])
    BY FoundLegs DEF RInv
  <2>3. Distinct(pool[p], Chunks)
    BY <2>1, <2>2, CandidatesAreDistinct
  <2> QED
    BY <1>3, <2>3, RerankedIsResult
<1>5. /\ ranked' \in [Queries -> Seq([chunk : Chunks, score : Scores])]
      /\ \A q \in Queries : ranked'[q] = IF q = p THEN r ELSE ranked[q]
  <2>1. PICK X : X = Seq([chunk : Chunks, score : Scores])
    OBVIOUS
  <2>2. r \in X /\ ranked \in [Queries -> X]
    BY <1>4, <2>1 DEF Result, RInv
  <2>3. ranked' = [ranked EXCEPT ![p] = r]
    BY <1>1, <1>3
  <2> QED
    BY <2>1, <2>2, <2>3
<1>6. Results(ranked)'
  <2>1. \A q \in Queries : Result(ranked[q])
    BY DEF RInv, Results
  <2>2. ASSUME NEW q \in Queries
        PROVE  Result(ranked[q])'
    <3>1. PICK t : t = ranked'[q]
      OBVIOUS
    <3>2. Result(t)
      BY <1>4, <1>5, <2>1, <3>1
    <3> QED
      BY <3>1, <3>2 DEF Result
  <2> QED
    BY <2>2 DEF Results
<1>7. /\ pool' \in [Queries -> Seq(Chunks)]
      /\ \A q \in Queries : pool'[q] = IF q = p THEN <<>> ELSE pool[q]
  <2>1. <<>> \in Seq(Chunks) /\ pool \in [Queries -> Seq(Chunks)]
    BY DEF RInv
  <2> QED
    BY <1>2, <2>1
<1>8. /\ legs' \in [Queries -> Hits \X Hits]
      /\ \A q \in Queries : legs'[q] = IF q = p THEN <<<<>>, <<>>>> ELSE legs[q]
  <2>1. <<<<>>, <<>>>> \in Hits \X Hits /\ legs \in [Queries -> Hits \X Hits]
    BY NothingIsHits DEF RInv, TypeOK
  <2> QED
    BY <1>2, <2>1
<1>9. TypeOK'
  <2>1. ASSUME NEW q \in Queries
        PROVE  /\ pool'[q] \in Seq(Chunks) /\ Len(pool'[q]) <= TopK
               /\ ranked'[q] \in Seq([chunk : Chunks, score : Scores])
    <3>1. Len(<<>>) = 0 /\ TopK \in Nat /\ Len(pool[q]) <= TopK
      BY SettingsArePositive DEF RInv, TypeOK
    <3>2. Len(pool'[q]) <= TopK
      BY <1>7, <3>1
    <3> QED
      BY <1>5, <1>7, <3>2
  <2> QED
    BY <1>2, <1>8, <2>1 DEF RInv, TypeOK
<1>10. ASSUME NEW q \in Queries
       PROVE  \/ pool'[q] = <<>> /\ legs'[q] = <<<<>>, <<>>>>
              \/ pool'[q] = Candidates(fusion, legs'[q])
  <2>1. CASE q = p
    BY <1>7, <1>8, <2>1
  <2>2. CASE q # p
    BY <1>2, <1>7, <1>8, <2>2 DEF RInv
  <2> QED
    BY <2>1, <2>2
<1> QED
  BY <1>2, <1>5, <1>6, <1>7, <1>9, <1>10 DEF RInv

\* What is delivered are chunks.
LEMMA DeliverKeepsRInv == RInv /\ Deliver => RInv'
<1> SUFFICES ASSUME RInv, Deliver PROVE RInv'
  OBVIOUS
<1>1. /\ stage' = "done" /\ delivered' = Delivery(ranked, cutOn)
      /\ UNCHANGED <<fusion, cutOn, legs, pool, ranked>>
  BY DEF Deliver
<1>2. Results(ranked)
  BY DEF RInv
<1>3. Delivery(ranked, cutOn) \subseteq Chunks
  <2>1. PICK s : s = MergedOrder(ranked)
    OBVIOUS
  <2> QED
    BY <1>2, <2>1, FoundAreChunks, WhatIsDelivered
<1>4. TypeOK'
  BY <1>1, <1>3 DEF RInv, TypeOK
<1>5. Results(ranked)' /\ (delivered = Delivery(ranked, cutOn))'
  BY <1>1, <1>2 DEF Results
<1> QED
  BY <1>1, <1>4, <1>5 DEF RInv

\* Every step maintains it.
LEMMA RetrievalGoesOn == RInv /\ [Next]_vars => RInv'
<1> SUFFICES ASSUME RInv, [Next]_vars PROVE RInv'
  OBVIOUS
<1>1. CASE Search
  BY <1>1, SearchKeepsRInv
<1>2. ASSUME NEW q \in Queries, Rerank(q)
      PROVE  RInv'
  BY <1>2, RerankKeepsRInv
<1>3. CASE Deliver
  BY <1>3, DeliverKeepsRInv
<1>4. CASE UNCHANGED vars
  BY <1>4 DEF vars, RInv, TypeOK, Results, Result
<1> QED
  BY <1>1, <1>2, <1>3, <1>4 DEF Next

\* The state of a retrieval is as said above, at every stage.
THEOREM RetrievalMaintains == Spec => []RInv
<1> QED
  BY RetrievalBegins, RetrievalGoesOn, PTL DEF Spec

-----------------------------------------------------------------------------
(* What follows at every moment *)

\* The types.
THEOREM RetrievalTyped == Spec => []TypeOK
<1>1. RInv => TypeOK
  BY DEF RInv
<1> QED
  BY <1>1, RetrievalMaintains, PTL

\* _rrf's docstring: a union never drops a leg's top hit.
THEOREM TopHitsAreKept == Spec => []LegsKeepTheirBest
<1>1. RInv => LegsKeepTheirBest
  <2>1. SUFFICES ASSUME RInv, stage = "rerank", fusion = "union", TopK > 1,
                        NEW q \in Queries, NEW l \in 1..2, legs[q][l] # <<>>
                 PROVE  legs[q][l][1] \in Elements(pool[q])
    BY DEF LegsKeepTheirBest, Pooled
  <2>2. legs[q] # <<<<>>, <<>>>>
    BY <2>1
  <2>3. pool[q] = Candidates("union", legs[q])
    BY <2>1, <2>2 DEF RInv
  <2>4. Legs(legs[q])
    BY <2>1, FoundLegs DEF RInv
  <2> QED
    BY <2>1, <2>3, <2>4, UnionKeepsTheBest
<1> QED
  BY <1>1, RetrievalMaintains, PTL

\* Under either fusion a candidate brings along, and follows, whatever beats it
\* in every leg that has it.
THEOREM FusionIsFair == Spec => []FusionRespectsLegs
<1>1. RInv => FusionRespectsLegs
  <2>1. SUFFICES ASSUME RInv, stage = "rerank", NEW q \in Queries, NEW c \in Chunks,
                        NEW d \in Elements(pool[q]), Dominates(legs[q], c, d)
                 PROVE  c \in Elements(pool[q]) /\ Rank(pool[q], c) < Rank(pool[q], d)
    BY DEF FusionRespectsLegs, Pooled
  <2>2. pool[q] # <<>>
    BY <2>1 DEF Elements
  <2>3. pool[q] = Candidates(fusion, legs[q])
    BY <2>1, <2>2 DEF RInv
  <2>4. Legs(legs[q])
    BY <2>1, FoundLegs DEF RInv
  <2> QED
    BY <2>1, <2>3, <2>4, CandidatesRespectLegs
<1> QED
  BY <1>1, RetrievalMaintains, PTL

\* The best of a sub-query that found something strong reaches the writer,
\* whatever the others found and however the delivery is cut.
THEOREM StrongHitsArrive == Spec => []GenuineBestIsDelivered
<1>1. RInv => GenuineBestIsDelivered
  <2>1. SUFFICES ASSUME RInv, stage = "done"
                 PROVE  IF Cardinality(GenuineBest) <= MaxChunks
                        THEN GenuineBest \subseteq delivered
                        ELSE delivered \subseteq GenuineBest
    BY DEF GenuineBestIsDelivered, Delivered
  <2>2. Results(ranked) /\ cutOn \in BOOLEAN /\ delivered = Delivery(ranked, cutOn)
    BY <2>1 DEF RInv, TypeOK
  <2> QED
    BY <2>2, GenuineAreDelivered
<1> QED
  BY <1>1, RetrievalMaintains, PTL

\* What is delivered holds its own somewhere against every showing of everything
\* left out.
THEOREM NothingBetterIsLeftOut == Spec => []DeliveredHoldTheirOwn
<1>1. RInv => DeliveredHoldTheirOwn
  <2>1. SUFFICES ASSUME RInv, stage = "done", NEW c \in delivered,
                        NEW d \in Found(ranked) \ delivered, NEW q \in Queries,
                        d \in {ranked[q][i].chunk : i \in DOMAIN ranked[q]}
                 PROVE  \E p \in Queries : AtLeastAsGood(c, p, d, q)
    BY DEF DeliveredHoldTheirOwn, Delivered
  <2>2. Results(ranked) /\ cutOn \in BOOLEAN /\ delivered = Delivery(ranked, cutOn)
    BY <2>1 DEF RInv, TypeOK
  <2>3. c \in Found(ranked)
    <3>1. PICK s : s = MergedOrder(ranked)
      OBVIOUS
    <3> QED
      BY <2>1, <2>2, <3>1, WhatIsDelivered
  <2>4. PICK j \in DOMAIN ranked[q] : ranked[q][j].chunk = d
    BY <2>1
  <2>5. PICK s \in Showings(ranked, c) : Normalised(ranked, c) = Value(ranked, s)
    BY <2>2, <2>3, BestShowing
  <2>6. PICK p, i : p = s[1] /\ i = s[2]
    OBVIOUS
  <2>7. s = <<p, i>> /\ p \in Queries /\ i \in DOMAIN ranked[p] /\ ranked[p][i].chunk = c
    BY <2>2, <2>5, <2>6, Worth
  <2>8. PICK u, v, w : /\ u = Value(ranked, <<q, j>>)
                       /\ v = Normalised(ranked, d)
                       /\ w = Normalised(ranked, c)
    OBVIOUS
  <2>9. <<q, j>> \in Showings(ranked, d)
    BY <2>2, <2>4, PlacesAreShowings
  <2>10. Fraction(u) /\ Fraction(v) /\ Fraction(w) /\ ~Exceeds(u, v)
    BY <2>1, <2>2, <2>3, <2>8, <2>9, Worth, BestShowing
  <2>11. ~Exceeds(v, w)
    BY <2>1, <2>2, <2>8, LeftOutIsWorthNoMore
  <2>12. ~Exceeds(u, w)
    BY <2>10, <2>11, FractionsChain
  <2>13. AtLeastAsGood(c, p, d, q)
    BY <2>4, <2>5, <2>7, <2>8, <2>12 DEF AtLeastAsGood
  <2> QED
    BY <2>7, <2>13
<1> QED
  BY <1>1, RetrievalMaintains, PTL

============================================================================
