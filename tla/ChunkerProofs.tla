--------------------------- MODULE ChunkerProofs ---------------------------
(***************************************************************************)
(* What the splitting of a text keeps, for every text, every length of a   *)
(* piece and every overlap.                                                *)
(***************************************************************************)
EXTENDS ChunkerProperties, Integers, FiniteSetTheorems, WellFoundedInduction, TLAPS

-----------------------------------------------------------------------------
(* Numbers *)

\* Some numbers have a first.
LEMMA FirstIsLeast ==
    ASSUME NEW S \in SUBSET Nat, S # {}
    PROVE  First(S) \in S /\ \A j \in S : First(S) <= j
<1>1. PICK R : R = OpToRel(<, Nat)
  OBVIOUS
<1>2. IsWellFoundedOn(R, Nat) /\ \A j, k \in Nat : <<j, k>> \in R <=> j < k
  <2>1. IsWellFoundedOn(R, Nat)
    BY <1>1, NatLessThanWellFounded
  <2>2. R = {ss \in Nat \X Nat : ss[1] < ss[2]}
    BY <1>1 DEF OpToRel
  <2> QED
    BY <2>1, <2>2
<1>3. PICK i \in S : \A j \in S : ~(<<j, i>> \in R)
  <2>1. IsWellFoundedOn(R, Nat) /\ S \subseteq Nat
    BY <1>2
  <2>2. \E i \in S : \A j \in S : ~(<<j, i>> \in R)
    BY <2>1, WFMin, Zenon
  <2> QED
    BY <2>2
<1>4. ASSUME NEW j \in S
      PROVE  i <= j
  <2>1. i \in Nat /\ j \in Nat /\ ~(j < i)
    BY <1>2, <1>3, Zenon
  <2> QED
    BY <2>1
<1> QED
  BY <1>4 DEF First

\* Numbers with a bound have a last.
LEMMA LatestIsGreatest ==
    ASSUME NEW n \in Nat, NEW S \in SUBSET (0..n), S # {}
    PROVE  Latest(S) \in S /\ \A j \in S : j <= Latest(S)
<1>1. PICK B : B = {m \in Nat : \A j \in S : j <= m}
  OBVIOUS
<1>2. n \in B /\ B \in SUBSET Nat
  BY <1>1
<1>3. PICK m \in B : \A k \in B : m <= k
  BY <1>2, FirstIsLeast
<1>4. m \in S
  <2>1. CASE m = 0
    <3>1. \A j \in S : j = 0
      BY <1>1, <2>1
    <3> QED
      BY <2>1, <3>1
  <2>2. CASE m # 0 /\ m \notin S
    <3>1. m - 1 \in B
      BY <1>1, <2>2
    <3> QED
      BY <1>1, <1>3, <3>1
  <2> QED
    BY <2>1, <2>2
<1>5. \A j \in S : j <= m
  BY <1>1
<1> QED
  BY <1>4, <1>5 DEF Latest

\* What is the last is unique.
LEMMA LatestIs ==
    ASSUME NEW S \in SUBSET Nat, NEW i \in S, \A j \in S : j <= i
    PROVE  Latest(S) = i
<1>1. \A k \in S : (\A j \in S : j <= k) => k = i
  OBVIOUS
<1> QED
  BY <1>1 DEF Latest

\* Among the offsets 0, Step, ... one is at most Step - 1 before any number.
LEMMA StepsCover ==
    ASSUME NEW n \in Nat
    PROVE  \E o \in 0..n : o % Step = 0 /\ n < o + MaxChars
<1>1. Step \in Nat /\ Step > 0 /\ Step <= MaxChars /\ MaxChars \in Nat
  BY OverlapIsSmaller DEF Step
<1> HIDE DEF Step
<1>2. PICK r : r = n % Step
  OBVIOUS
<1>3. r \in 0..Step - 1
  BY <1>1, <1>2
<1>4. PICK q \in Nat : n = Step * q + r
  BY <1>1, <1>2
<1>5. (Step * q) % Step = 0
  BY <1>1, <1>4
<1>6. Step * q \in Nat /\ Step * q <= n /\ n < Step * q + MaxChars
  BY <1>1, <1>3, <1>4
<1> QED
  BY <1>5, <1>6

-----------------------------------------------------------------------------
(* Characters and pieces *)

Lines(lines) == lines \in Seq(Kinds)

Place == Nat \X {1, 2}

\* A line has one or two characters.
LEMMA LinesHaveCharacters ==
    ASSUME NEW kind \in Kinds
    PROVE  /\ DOMAIN Letters[kind] \subseteq {1, 2}
           /\ \A k \in DOMAIN Letters[kind] : Letters[kind][k] \in BOOLEAN
<1>1. Letters[kind] \in {<<FALSE>>, <<TRUE>>, <<FALSE, TRUE>>, <<TRUE, TRUE>>}
  BY DEF Letters
<1>2. PICK w : w = Letters[kind]
  OBVIOUS
<1>3. /\ DOMAIN w \subseteq {1, 2}
      /\ \A k \in DOMAIN w : w[k] \in BOOLEAN
  <2>1. CASE w = <<FALSE>>
    <3>1. DOMAIN w = {1} /\ w[1] \in BOOLEAN
      BY <2>1
    <3> QED
      BY <3>1
  <2>2. CASE w = <<TRUE>>
    <3>1. DOMAIN w = {1} /\ w[1] \in BOOLEAN
      BY <2>2
    <3> QED
      BY <3>1
  <2>3. CASE w = <<FALSE, TRUE>>
    <3>1. DOMAIN w = {1, 2} /\ w[1] \in BOOLEAN /\ w[2] \in BOOLEAN
      BY <2>3
    <3> QED
      BY <3>1
  <2>4. CASE w = <<TRUE, TRUE>>
    <3>1. DOMAIN w = {1, 2} /\ w[1] \in BOOLEAN /\ w[2] \in BOOLEAN
      BY <2>4
    <3> QED
      BY <3>1
  <2> QED
    BY <1>1, <1>2, <2>1, <2>2, <2>3, <2>4
<1> QED
  BY <1>2, <1>3
\* A stretch has finitely many characters, which are on its lines.
LEMMA CharactersAreThere ==
    ASSUME NEW lines, Lines(lines), NEW s \in SUBSET DOMAIN lines
    PROVE  /\ Characters(lines, s) \in SUBSET Place
           /\ IsFiniteSet(Characters(lines, s))
           /\ \A ch \in Characters(lines, s) :
                  /\ ch[1] \in s /\ ch[2] \in DOMAIN Letters[lines[ch[1]]]
                  /\ Letters[lines[ch[1]]][ch[2]] \in BOOLEAN
           /\ \A i \in s : \A k \in DOMAIN Letters[lines[i]] :
                  <<i, k>> \in Characters(lines, s)
<1>1. DOMAIN lines = 1..Len(lines) /\ Len(lines) \in Nat /\ \A i \in s : lines[i] \in Kinds
  BY DEF Lines
<1>2. \A i \in s : /\ DOMAIN Letters[lines[i]] \subseteq {1, 2}
                   /\ \A k \in DOMAIN Letters[lines[i]] : Letters[lines[i]][k] \in BOOLEAN
  BY <1>1, LinesHaveCharacters
<1>3. \A ch \in Characters(lines, s) :
          \E i \in s : ch \in {i} \X DOMAIN Letters[lines[i]]
  BY DEF Characters
<1>4. \A ch \in Characters(lines, s) :
          /\ ch[1] \in s /\ ch[2] \in DOMAIN Letters[lines[ch[1]]] /\ ch = <<ch[1], ch[2]>>
  BY <1>3
<1>5. Characters(lines, s) \in SUBSET ((1..Len(lines)) \X {1, 2})
  <2>1. \A ch \in Characters(lines, s) : ch[1] \in 1..Len(lines) /\ ch[2] \in {1, 2}
    BY <1>1, <1>2, <1>4
  <2> QED
    BY <1>4, <2>1
<1>6. IsFiniteSet((1..Len(lines)) \X {1, 2})
  <2>1. 1 \in Int /\ Len(lines) \in Int
    BY <1>1
  <2>2. IsFiniteSet(1..Len(lines))
    BY <2>1, FS_Interval
  <2>3. IsFiniteSet({1, 2})
    <3>1. IsFiniteSet({1}) /\ IsFiniteSet({2})
      BY FS_Singleton
    <3>2. IsFiniteSet({1} \cup {2})
      BY <3>1, FS_Union
    <3>3. {1, 2} = {1} \cup {2}
      OBVIOUS
    <3> QED
      BY <3>2, <3>3
  <2> QED
    BY <2>2, <2>3, FS_Product
<1>7. IsFiniteSet(Characters(lines, s))
  BY <1>5, <1>6, FS_Subset
<1>8. (1..Len(lines)) \X {1, 2} \subseteq Place
  BY <1>1 DEF Place
<1>9. \A i \in s : \A k \in DOMAIN Letters[lines[i]] : <<i, k>> \in Characters(lines, s)
  BY DEF Characters
<1> QED
  BY <1>2, <1>4, <1>5, <1>7, <1>8, <1>9

\* Different characters have different offsets.
LEMMA OffsetsDiffer ==
    ASSUME NEW chars \in SUBSET Place, IsFiniteSet(chars), NEW ch \in chars
    PROVE  /\ Offset(chars, ch) \in 0..Cardinality(chars) - 1
           /\ Cardinality(chars) \in Nat
           /\ \A d \in chars : Before(d, ch) => Offset(chars, d) < Offset(chars, ch)
<1> DEFINE below(x) == {d \in chars : Before(d, x)}
<1>1. \A x \in chars : /\ IsFiniteSet(below(x)) /\ Cardinality(below(x)) \in Nat
                       /\ x \notin below(x)
  <2> SUFFICES ASSUME NEW x \in chars
               PROVE  /\ IsFiniteSet(below(x)) /\ Cardinality(below(x)) \in Nat
                      /\ x \notin below(x)
    OBVIOUS
  <2>1. below(x) \in SUBSET chars
    OBVIOUS
  <2>2. IsFiniteSet(below(x))
    BY <2>1, FS_Subset
  <2>3. ~Before(x, x)
    <3>1. x[1] \in Nat /\ x[2] \in {1, 2}
      BY DEF Place
    <3> QED
      BY <3>1 DEF Before
  <2> QED
    BY <2>2, <2>3, FS_CardinalityType
<1>2. Cardinality(chars) \in Nat
  BY FS_CardinalityType
<1>3. Cardinality(below(ch)) < Cardinality(chars)
  <2>1. below(ch) \in SUBSET chars /\ below(ch) # chars
    BY <1>1
  <2>2. Cardinality(below(ch)) <= Cardinality(chars)
        /\ Cardinality(below(ch)) # Cardinality(chars)
    BY <2>1, FS_Subset
  <2> QED
    BY <1>1, <1>2, <2>2
<1>4. ASSUME NEW d \in chars, Before(d, ch)
      PROVE  Cardinality(below(d)) < Cardinality(below(ch))
  <2>1. \A x \in chars : Before(x, d) => Before(x, ch)
    <3>1. \A x \in chars : x[1] \in Nat /\ x[2] \in {1, 2}
      BY DEF Place
    <3> QED
      BY <1>4, <3>1 DEF Before
  <2>2. below(d) \in SUBSET below(ch) /\ d \in below(ch) /\ d \notin below(d)
    BY <1>1, <1>4, <2>1
  <2>3. Cardinality(below(d)) <= Cardinality(below(ch))
        /\ Cardinality(below(d)) # Cardinality(below(ch))
    BY <1>1, <2>2, FS_Subset
  <2> QED
    BY <1>1, <2>3
<1> QED
  BY <1>1, <1>2, <1>3, <1>4 DEF Offset

\* Two characters of a text are in one order or the other.
LEMMA CharactersAreOrdered ==
    ASSUME NEW x \in Place, NEW y \in Place
    PROVE  x = y \/ Before(x, y) \/ Before(y, x)
<1>1. x[1] \in Nat /\ x[2] \in {1, 2} /\ y[1] \in Nat /\ y[2] \in {1, 2}
      /\ x = <<x[1], x[2]>> /\ y = <<y[1], y[2]>>
  BY DEF Place
<1> QED
  BY <1>1 DEF Before

\* What is read at an offset is no longer than a piece may be.
LEMMA PieceIsShort ==
    ASSUME NEW chars \in SUBSET Place, IsFiniteSet(chars), NEW offset \in Nat
    PROVE  /\ Piece(chars, offset) \in SUBSET chars
           /\ Cardinality(Piece(chars, offset)) <= MaxChars
<1>1. PICK piece : piece = Piece(chars, offset)
  OBVIOUS
<1>2. PICK T : T = offset..(offset + MaxChars - 1)
  OBVIOUS
<1>3. piece \in SUBSET chars /\ \A ch \in piece : Offset(chars, ch) \in T
  BY <1>1, <1>2 DEF Piece
<1>4. IsFiniteSet(T) /\ Cardinality(T) = MaxChars
  <2>1. offset \in Int /\ offset + MaxChars - 1 \in Int /\ MaxChars \in Nat /\ MaxChars > 0
    BY OverlapIsSmaller
  <2> QED
    BY <1>2, <2>1, FS_Interval
<1>5. PICK f : f = [ch \in piece |-> Offset(chars, ch)]
  OBVIOUS
<1>6. f \in Injection(piece, T)
  <2>1. f \in [piece -> T]
    BY <1>3, <1>5
  <2>2. ASSUME NEW x \in piece, NEW y \in piece, f[x] = f[y]
        PROVE  x = y
    <3>1. x \in chars /\ y \in chars /\ Offset(chars, x) = Offset(chars, y)
      BY <1>3, <1>5, <2>2
    <3>2. x = y \/ Before(x, y) \/ Before(y, x)
      BY <3>1, CharactersAreOrdered
    <3>3. Before(x, y) => Offset(chars, x) < Offset(chars, y)
      BY <3>1, OffsetsDiffer
    <3>4. Before(y, x) => Offset(chars, y) < Offset(chars, x)
      BY <3>1, OffsetsDiffer
    <3>5. Offset(chars, x) \in Int
      <4>1. Offset(chars, x) \in 0..Cardinality(chars) - 1
        BY <3>1, OffsetsDiffer
      <4> QED
        BY <4>1
    <3> QED
      BY <3>1, <3>2, <3>3, <3>4, <3>5
  <2> QED
    BY <2>1, <2>2 DEF Injection, IsInjective
<1> QED
  BY <1>1, <1>3, <1>4, <1>6, FS_Injection

\* The pieces of a paragraph: none is empty, too long or of another paragraph,
\* and every letter is in one.
LEMMA PiecesCover ==
    ASSUME NEW lines, NEW chars \in SUBSET Place, IsFiniteSet(chars)
    PROVE  /\ \A piece \in SplitLong(lines, chars) :
                  /\ piece \in SUBSET chars
                  /\ Cardinality(piece) \in 1..MaxChars
           /\ \A ch \in chars : Letters[lines[ch[1]]][ch[2]] =>
                  \E piece \in SplitLong(lines, chars) : ch \in piece
<1>1. Cardinality(chars) \in Nat /\ MaxChars \in Nat
  BY FS_CardinalityType, OverlapIsSmaller
<1>2. ASSUME NEW piece \in SplitLong(lines, chars)
      PROVE  piece \in SUBSET chars /\ Cardinality(piece) \in 1..MaxChars
  <2>1. piece \in SUBSET chars /\ Cardinality(piece) <= MaxChars
    <3>1. CASE Cardinality(chars) <= MaxChars
      BY <1>2, <3>1 DEF SplitLong
    <3>2. CASE ~(Cardinality(chars) <= MaxChars)
      <4>1. PICK offset \in 0..(Cardinality(chars) - 1) : piece = Piece(chars, offset)
        BY <1>2, <3>2 DEF SplitLong
      <4>2. offset \in Nat
        BY <1>1, <4>1
      <4> QED
        BY <4>1, <4>2, PieceIsShort
    <3> QED
      BY <3>1, <3>2
  <2>2. piece # {}
    BY <1>2 DEF SplitLong, HasSubstance
  <2>3. IsFiniteSet(piece)
    BY <2>1, FS_Subset
  <2>4. Cardinality(piece) \in Nat /\ Cardinality(piece) # 0
    BY <2>2, <2>3, FS_CardinalityType, FS_EmptySet
  <2> QED
    BY <1>1, <2>1, <2>4
<1>3. ASSUME NEW ch \in chars, Letters[lines[ch[1]]][ch[2]]
      PROVE  \E piece \in SplitLong(lines, chars) : ch \in piece
  <2>1. \A piece : ch \in piece => HasSubstance(lines, piece)
    BY <1>3 DEF HasSubstance
  <2>2. CASE Cardinality(chars) <= MaxChars
    BY <2>1, <2>2 DEF SplitLong
  <2>3. CASE ~(Cardinality(chars) <= MaxChars)
    <3>1. Offset(chars, ch) \in 0..(Cardinality(chars) - 1)
      BY OffsetsDiffer
    <3>2. PICK n \in Nat : n = Offset(chars, ch) /\ n <= Cardinality(chars) - 1
      BY <1>1, <3>1
    <3>3. PICK o \in 0..n : o % Step = 0 /\ n < o + MaxChars
      BY StepsCover
    <3>4. o \in 0..(Cardinality(chars) - 1)
      BY <1>1, <3>2, <3>3
    <3>5. n \in o..(o + MaxChars - 1)
      BY <1>1, <3>2, <3>3
    <3>6. ch \in Piece(chars, o)
      BY <3>2, <3>5 DEF Piece
    <3> QED
      BY <2>1, <2>3, <3>3, <3>4, <3>6 DEF SplitLong
  <2> QED
    BY <2>2, <2>3
<1> QED
  BY <1>2, <1>3

-----------------------------------------------------------------------------
(* Paragraphs *)

Starts(lines, s) == {i \in s : Opens(lines, s, i)}

\* From a number up to the next.
Part(lines, s, b) ==
    Strip(lines, {i \in s : b <= i /\ \A e \in Starts(lines, s) : b < e => i < e})

\* What precedes the first number.
Prefix(lines, s) == Strip(lines, {i \in s : \A b \in Starts(lines, s) : i < b})

Joins(lines, prefix) ==
    prefix = {} \/ \E i \in prefix : prefix = {i} /\ lines[i] = "article"

\* Stripping keeps what is solid and ends there.
LEMMA StripKeeps ==
    ASSUME NEW lines, NEW s \in SUBSET Nat
    PROVE  /\ Strip(lines, s) \in SUBSET s
           /\ \A i \in s : lines[i] # "blank" => i \in Strip(lines, s)
           /\ \A m \in Strip(lines, s) : \E k \in s : lines[k] # "blank" /\ m <= k
<1>1. \A i \in s : i <= i
  OBVIOUS
<1>2. Solid(lines, s) = {i \in s : lines[i] # "blank"}
  BY DEF Solid
<1>3. \A i \in Strip(lines, s) : i \in s /\ \E k \in Solid(lines, s) : i <= k
  BY DEF Strip
<1>4. \A i \in Solid(lines, s) : i \in Strip(lines, s)
  BY <1>1, <1>2 DEF Strip
<1> QED
  BY <1>2, <1>3, <1>4

\* A stretch with a number in it is split at its numbers.
LEMMA NumbersSplit ==
    ASSUME NEW lines, NEW s \in SUBSET Nat, Starts(lines, s) # {}
    PROVE  LET b == First(Starts(lines, s))
               others == {Part(lines, s, e) : e \in Starts(lines, s) \ {b}}
           IN  SplitParagraphs(lines, s) =
                   IF Joins(lines, Prefix(lines, s))
                   THEN {Prefix(lines, s) \cup Part(lines, s, b)} \cup others
                   ELSE {Prefix(lines, s), Part(lines, s, b)} \cup others
  BY DEF SplitParagraphs, NumberedParts, WithPrefix, Starts, Part, Prefix, Joins

\* A paragraph consists of lines of the stretch, and does not end in blank lines;
\* no line with text is left out; where a number opens a paragraph, that is its
\* first line or comes right behind a bare header.
LEMMA ParagraphsAreSplit ==
    ASSUME NEW lines, NEW s \in SUBSET Nat
    PROVE  /\ \A p \in SplitParagraphs(lines, s) :
                  /\ p \in SUBSET s
                  /\ \A m \in p : \E k \in s : lines[k] # "blank" /\ m <= k
           /\ \A i \in s : lines[i] # "blank" =>
                  \E p \in SplitParagraphs(lines, s) : i \in p
           /\ \A p \in SplitParagraphs(lines, s) : \A i, j \in p :
                  i < j /\ Opens(lines, s, j) =>
                      lines[i] = "article" /\ \A k \in p : k = i \/ k >= j
<1> DEFINE starts == Starts(lines, s)
           b == First(starts)
           P == Prefix(lines, s)
           F(e) == Part(lines, s, e)
           Ends(p) == p \in SUBSET s /\ \A m \in p : \E k \in s : lines[k] # "blank" /\ m <= k
<1>1. CASE starts = {}
  <2>1. SplitParagraphs(lines, s) = BlankLineParts(lines, s)
    BY <1>1 DEF SplitParagraphs, Starts
  <2> DEFINE joined(i, j) == \A k \in s : i <= k /\ k <= j => k \in Solid(lines, s)
             run(i) == {j \in s : joined(i, j) /\ joined(j, i)}
  <2>2. SplitParagraphs(lines, s) = {run(i) : i \in Solid(lines, s)}
    BY <2>1 DEF BlankLineParts
  <2>4. ASSUME NEW p \in SplitParagraphs(lines, s)
        PROVE  Ends(p)
    <3>1. PICK i \in Solid(lines, s) : p = run(i)
      BY <2>2, <2>4
    <3>2. ASSUME NEW m \in p
          PROVE  lines[m] # "blank" /\ m <= m
      <4>1. i \in s /\ m \in s /\ i \in Nat /\ m \in Nat
        BY <3>1, <3>2 DEF Solid
      <4>2. joined(i, m) /\ joined(m, i)
        BY <3>1, <3>2
      <4>3. (i <= m \/ m <= i) /\ m <= m
        BY <4>1
      <4>4. m \in Solid(lines, s)
        BY <4>1, <4>2, <4>3
      <4> QED
        BY <4>3, <4>4 DEF Solid
    <3> QED
      BY <3>1, <3>2
  <2>5. ASSUME NEW i \in s, lines[i] # "blank"
        PROVE  \E p \in SplitParagraphs(lines, s) : i \in p
    <3>1. i \in Solid(lines, s)
      BY <2>5 DEF Solid
    <3>2. \A k \in s : i <= k /\ k <= i => k = i
      OBVIOUS
    <3>3. i \in run(i)
      BY <3>1, <3>2
    <3> QED
      BY <2>2, <3>1, <3>3
  <2>6. ASSUME NEW p \in SplitParagraphs(lines, s), NEW j \in p
        PROVE  ~Opens(lines, s, j)
    BY <1>1, <2>4 DEF Starts
  <2> QED
    BY <2>4, <2>5, <2>6
<1>2. CASE starts # {}
  <2>1. starts \in SUBSET s /\ b \in starts /\ \A e \in starts : b <= e
    BY <1>2, FirstIsLeast DEF Starts
  <2>2. SplitParagraphs(lines, s) =
            IF Joins(lines, P) THEN {P \cup F(b)} \cup {F(e) : e \in starts \ {b}}
            ELSE {P, F(b)} \cup {F(e) : e \in starts \ {b}}
    BY <1>2, NumbersSplit
  <2>3. /\ Ends(P) /\ \A i \in P : \A e \in starts : i < e
        /\ \A i \in s : lines[i] # "blank" /\ (\A e \in starts : i < e) => i \in P
    <3>1. PICK t : t = {i \in s : \A e \in starts : i < e}
      OBVIOUS
    <3>2. t \in SUBSET s /\ t \in SUBSET Nat /\ P = Strip(lines, t)
      BY <3>1 DEF Prefix
    <3> QED
      BY <3>1, <3>2, StripKeeps
  <2>4. ASSUME NEW e \in starts
        PROVE  /\ Ends(F(e)) /\ \A i \in F(e) : e <= i /\ \A d \in starts : e < d => i < d
               /\ \A i \in s : /\ lines[i] # "blank" /\ e <= i
                               /\ \A d \in starts : e < d => i < d
                               => i \in F(e)
    <3>1. PICK t : t = {i \in s : e <= i /\ \A d \in starts : e < d => i < d}
      OBVIOUS
    <3>2. t \in SUBSET s /\ t \in SUBSET Nat /\ F(e) = Strip(lines, t)
      BY <3>1 DEF Part
    <3> QED
      BY <3>1, <3>2, StripKeeps
  <2> HIDE DEF starts, b, P, F
  <2>5. ASSUME NEW p \in SplitParagraphs(lines, s)
        PROVE  Ends(p)
    <3>1. \/ p = P \cup F(b) \/ p = P \/ p = F(b) \/ \E e \in starts : p = F(e)
      BY <2>2
    <3> QED
      BY <2>1, <2>3, <2>4, <3>1
  <2>6. ASSUME NEW i \in s, lines[i] # "blank"
        PROVE  \E p \in SplitParagraphs(lines, s) : i \in p
    <3>1. CASE \A e \in starts : i < e
      <4>1. i \in P
        BY <2>3, <2>6, <3>1
      <4> QED
        BY <2>2, <4>1
    <3>2. CASE \E e \in starts : ~(i < e)
      <4>1. PICK S : S = {e \in starts : e <= i}
        OBVIOUS
      <4>2. \A e \in starts : e \in Nat /\ i \in Nat
        BY <2>1
      <4>3. i \in Nat /\ S \in SUBSET (0..i) /\ S # {}
        BY <3>2, <4>1, <4>2
      <4>4. PICK e \in S : \A d \in S : d <= e
        BY <4>3, LatestIsGreatest
      <4>5. e \in starts /\ e <= i /\ \A d \in starts : e < d => i < d
        BY <4>1, <4>2, <4>4
      <4>6. i \in F(e)
        BY <2>4, <2>6, <4>5
      <4>7. \E p \in SplitParagraphs(lines, s) : F(e) \subseteq p
        BY <2>2, <4>5
      <4> QED
        BY <4>6, <4>7
    <3> QED
      BY <3>1, <3>2
  <2>7. ASSUME NEW p \in SplitParagraphs(lines, s), NEW i \in p, NEW j \in p,
               i < j, Opens(lines, s, j)
        PROVE  lines[i] = "article" /\ \A k \in p : k = i \/ k >= j
    <3>1. i \in Nat /\ j \in s /\ j \in Nat
      BY <2>5
    <3>2. j \in starts
      BY <2>7, <3>1 DEF starts, Starts
    <3>3. \A e \in starts : ~(i \in F(e) /\ j \in F(e))
      <4> SUFFICES ASSUME NEW e \in starts, i \in F(e), j \in F(e)
                   PROVE  FALSE
        OBVIOUS
      <4>1. e <= i /\ (e < j => j < j) /\ e \in Nat
        BY <2>1, <2>4, <3>2
      <4> QED
        BY <2>7, <3>1, <4>1
    <3>4. j \notin P
      BY <2>3, <3>1, <3>2
    <3>5. Joins(lines, P) /\ p = P \cup F(b)
      BY <2>1, <2>2, <3>3, <3>4
    <3>6. j \in F(b) /\ i \in P
      BY <2>1, <3>3, <3>4, <3>5
    <3>7. P = {i} /\ lines[i] = "article"
      BY <3>5, <3>6 DEF Joins
    <3>8. b = j
      <4>1. b <= j /\ (b < j => j < j) /\ b \in Nat
        BY <2>1, <2>4, <3>2, <3>6
      <4> QED
        BY <3>1, <4>1
    <3>9. \A k \in F(b) : k >= j
      <4>1. \A k \in F(b) : b <= k /\ k \in Nat
        BY <2>1, <2>4
      <4> QED
        BY <3>8, <4>1, <3>1
    <3> QED
      BY <3>5, <3>7, <3>9
  <2> QED
    BY <2>5, <2>6, <2>7
<1> QED
  BY <1>1, <1>2

-----------------------------------------------------------------------------
(* Articles *)

Text == text \in Seq(Kinds)

\* Cleaning turns footers into blank lines.
LEMMA CleanKeeps ==
    ASSUME Text
    PROVE  /\ Lines(Clean(text)) /\ Len(text) \in Nat
           /\ DOMAIN Clean(text) = 1..Len(text) /\ DOMAIN text = 1..Len(text)
           /\ Len(Clean(text)) = Len(text)
           /\ \A i \in 1..Len(text) :
                 /\ text[i] \in Kinds
                 /\ Clean(text)[i] = IF text[i] = "footer" THEN "blank" ELSE text[i]
<1>1. Len(text) \in Nat /\ DOMAIN text = 1..Len(text) /\ \A i \in 1..Len(text) : text[i] \in Kinds
  BY DEF Text
<1>2. PICK f : f = Clean(text)
  OBVIOUS
<1>3. f = [i \in 1..Len(text) |-> IF text[i] = "footer" THEN "blank" ELSE text[i]]
  BY <1>1, <1>2 DEF Clean
<1>4. f \in [1..Len(text) -> Kinds]
  BY <1>1, <1>3 DEF Kinds
<1>5. f \in Seq(Kinds) /\ Len(f) = Len(text)
  BY <1>1, <1>4
<1> QED
  BY <1>1, <1>2, <1>3, <1>5 DEF Lines

\* What articles and chapters of the cleaned text are in the text.
LEMMA HeadingsStay ==
    ASSUME Text
    PROVE  /\ Articles(Clean(text)) = {i \in 1..Len(text) : text[i] \in Headers}
           /\ Chapters(Clean(text)) = {i \in 1..Len(text) : text[i] = "chapter"}
<1>1. \A i \in 1..Len(text) : /\ Clean(text)[i] \in Headers <=> text[i] \in Headers
                              /\ Clean(text)[i] = "chapter" <=> text[i] = "chapter"
  BY CleanKeeps DEF Headers
<1> QED
  BY <1>1, CleanKeeps DEF Articles, Chapters

\* The lines of an article are those that stand under its header.
LEMMA BodyIsUnderItsHeader ==
    ASSUME Text, NEW a \in Articles(Clean(text)), NEW j \in Body(Clean(text), a)
    PROVE  /\ j \in 1..Len(text) /\ a \in 1..j
           /\ \A i \in 1..j : a < i => text[i] \notin Headers /\ text[i] # "chapter"
           /\ Heading(j) = a
<1>1. /\ j \in 1..Len(text) /\ a \in 1..Len(text) /\ a <= j /\ text[a] \in Headers
      /\ \A b \in Articles(Clean(text)) \cup Chapters(Clean(text)) : a < b => j < b
  BY CleanKeeps, HeadingsStay DEF Body
<1>2. j \in Nat /\ a \in Nat /\ a \in 1..j
  BY <1>1, CleanKeeps
<1>3. ASSUME NEW i \in 1..j, a < i
      PROVE  text[i] \notin Headers /\ text[i] # "chapter"
  <2>1. i \in 1..Len(text) /\ i \in Nat /\ ~(j < i)
    BY <1>1, <1>2, CleanKeeps
  <2> QED
    BY <1>1, <1>3, <2>1, HeadingsStay
<1>4. PICK S : S = {i \in 1..j : text[i] \in Headers \cup {"chapter"}}
  OBVIOUS
<1>5. S \in SUBSET Nat /\ a \in S
  BY <1>1, <1>2, <1>4
<1>6. \A i \in S : i <= a
  BY <1>2, <1>3, <1>4
<1>7. Latest(S) = a
  BY <1>5, <1>6, LatestIs
<1> QED
  BY <1>1, <1>2, <1>3, <1>4, <1>7 DEF Heading

\* And the converse.
LEMMA UnderItsHeaderIsBody ==
    ASSUME Text, NEW j \in 1..Len(text), Heading(j) # 0, text[Heading(j)] \in Headers
    PROVE  /\ Heading(j) \in Articles(Clean(text))
           /\ j \in Body(Clean(text), Heading(j))
<1>1. PICK S : S = {i \in 1..j : text[i] \in Headers \cup {"chapter"}}
  OBVIOUS
<1>2. PICK a : a = Latest(S) /\ a = Heading(j)
  BY <1>1 DEF Heading
<1>3. j \in Nat /\ S \in SUBSET (0..j) /\ S # {}
  BY <1>1, <1>2, CleanKeeps DEF Latest
<1>4. a \in S /\ \A i \in S : i <= a
  BY <1>2, <1>3, LatestIsGreatest
<1>5. a \in 1..Len(text) /\ a <= j /\ a \in Nat
  BY <1>1, <1>4, CleanKeeps
<1>6. a \in Articles(Clean(text))
  BY <1>2, <1>5, HeadingsStay
<1>7. ASSUME NEW b \in Articles(Clean(text)) \cup Chapters(Clean(text)), a < b
      PROVE  j < b
  <2>1. b \in 1..Len(text) /\ text[b] \in Headers \cup {"chapter"} /\ b \in Nat
    BY HeadingsStay, CleanKeeps
  <2>2. b <= j => b \in S
    BY <1>1, <2>1
  <2> QED
    BY <1>3, <1>4, <1>5, <1>7, <2>1, <2>2
<1> QED
  BY <1>2, <1>5, <1>6, <1>7, CleanKeeps DEF Body

-----------------------------------------------------------------------------
(* Chunks *)

\* A provision's lines and labels are of the text.
LEMMA ProvisionsAreThere ==
    ASSUME Text, NEW p \in Provisions(Clean(text))
    PROVE  /\ p.lines \in SUBSET (1..Len(text))
           /\ p.article \in 0..Len(text) /\ p.chapter \in 0..Len(text)
<1>1. CASE Articles(Clean(text)) = {}
  <2>1. p = [article |-> 0, chapter |-> 0, lines |-> DOMAIN Clean(text)]
    BY <1>1 DEF Provisions
  <2> QED
    BY <2>1, CleanKeeps
<1>2. CASE Articles(Clean(text)) # {}
  <2>1. PICK i \in Articles(Clean(text)) :
            p = [article |-> i, chapter |-> ChapterAt(Clean(text), i),
                 lines |-> Body(Clean(text), i)]
    BY <1>2 DEF Provisions
  <2>2. i \in 1..Len(text)
    BY <2>1, HeadingsStay
  <2>3. Body(Clean(text), i) \in SUBSET (1..Len(text))
    BY CleanKeeps DEF Body
  <2>4. ChapterAt(Clean(text), i) \in 0..Len(text)
    <3>1. PICK S : S = {c \in Chapters(Clean(text)) : c <= i}
      OBVIOUS
    <3>2. S \in SUBSET (0..Len(text))
      BY <3>1, HeadingsStay, CleanKeeps
    <3>3. S # {} => Latest(S) \in S
      BY <3>2, CleanKeeps, LatestIsGreatest
    <3>4. S = {} => Latest(S) = 0
      BY DEF Latest
    <3> QED
      BY <3>1, <3>2, <3>3, <3>4, CleanKeeps DEF ChapterAt
  <2> QED
    BY <2>1, <2>2, <2>3, <2>4, CleanKeeps
<1> QED
  BY <1>1, <1>2

\* The stretches a text is split into.
Paragraphs(p) == SplitParagraphs(Clean(text), p.lines)

\* The pieces of one of them.
PiecesOf(s) == SplitLong(Clean(text), Characters(Clean(text), s))

\* A chunk is a piece of a paragraph of a provision, with its labels.
LEMMA ChunksAreMade ==
    /\ \A c \in Chunks(text) :
          \E p \in Provisions(Clean(text)) : \E s \in Paragraphs(p) :
              c.text \in PiecesOf(s) /\ c.article = p.article /\ c.chapter = p.chapter
    /\ \A c \in Chunks(text) :
          c.position = Cardinality({q \in Pieces(Clean(text)) : Precedes(q, c)})
    /\ \A p \in Provisions(Clean(text)) : \A s \in Paragraphs(p) :
          \A t \in PiecesOf(s) : \E c \in Chunks(text) : c.text = t
<1>1. PICK P : P = Pieces(Clean(text))
  OBVIOUS
<1>2. \A q \in P : \E p \in Provisions(Clean(text)) : \E s \in Paragraphs(p) :
          \E t \in PiecesOf(s) : q = [text |-> t, article |-> p.article, chapter |-> p.chapter]
  BY <1>1 DEF Pieces, Paragraphs, PiecesOf
<1>3. \A p \in Provisions(Clean(text)) : \A s \in Paragraphs(p) : \A t \in PiecesOf(s) :
          [text |-> t, article |-> p.article, chapter |-> p.chapter] \in P
  BY <1>1 DEF Pieces, Paragraphs, PiecesOf
<1>4. Chunks(text) =
          {[text |-> q.text, article |-> q.article, chapter |-> q.chapter,
            position |-> Cardinality({r \in P : Precedes(r, q)})] : q \in P}
  BY <1>1 DEF Chunks
<1>5. ASSUME NEW c \in Chunks(text)
      PROVE  /\ \E p \in Provisions(Clean(text)) : \E s \in Paragraphs(p) :
                    /\ c.text \in PiecesOf(s)
                    /\ c.article = p.article /\ c.chapter = p.chapter
             /\ c.position = Cardinality({r \in P : Precedes(r, c)})
  <2>1. PICK q \in P :
            c = [text |-> q.text, article |-> q.article, chapter |-> q.chapter,
                 position |-> Cardinality({r \in P : Precedes(r, q)})]
    BY <1>4, <1>5
  <2>2. c.text = q.text /\ c.article = q.article /\ c.chapter = q.chapter
        /\ c.position = Cardinality({r \in P : Precedes(r, q)})
    BY <2>1
  <2>3. {r \in P : Precedes(r, q)} = {r \in P : Precedes(r, c)}
    BY <2>2 DEF Precedes
  <2>4. PICK p \in Provisions(Clean(text)) : \E s \in Paragraphs(p) :
            \E t \in PiecesOf(s) : q = [text |-> t, article |-> p.article, chapter |-> p.chapter]
    BY <1>2
  <2>5. PICK s \in Paragraphs(p) :
            \E t \in PiecesOf(s) : q = [text |-> t, article |-> p.article, chapter |-> p.chapter]
    BY <2>4
  <2>6. q.text \in PiecesOf(s) /\ q.article = p.article /\ q.chapter = p.chapter
    BY <2>5
  <2> QED
    BY <2>2, <2>3, <2>6
<1>6. ASSUME NEW p \in Provisions(Clean(text)), NEW s \in Paragraphs(p), NEW t \in PiecesOf(s)
      PROVE  \E c \in Chunks(text) : c.text = t
  <2>1. PICK q \in P : q = [text |-> t, article |-> p.article, chapter |-> p.chapter]
    BY <1>3
  <2>2. PICK c \in Chunks(text) :
            c = [text |-> q.text, article |-> q.article, chapter |-> q.chapter,
                 position |-> Cardinality({r \in P : Precedes(r, q)})]
    BY <1>4
  <2>3. c.text = q.text /\ q.text = t
    BY <2>1, <2>2
  <2> QED
    BY <2>3
<1> QED
  BY <1>1, <1>5, <1>6

\* A paragraph's lines and characters, and what its pieces are.
LEMMA ParagraphsAreThere ==
    ASSUME Text, NEW p \in Provisions(Clean(text)), NEW s \in Paragraphs(p)
    PROVE  /\ s \in SUBSET p.lines
           /\ p.lines \in SUBSET (1..Len(text)) /\ p.lines \in SUBSET Nat
           /\ Characters(Clean(text), s) \in SUBSET Place
           /\ IsFiniteSet(Characters(Clean(text), s))
           /\ \A ch \in Characters(Clean(text), s) : ch[1] \in s
           /\ \A t \in PiecesOf(s) : /\ t \in SUBSET Characters(Clean(text), s)
                                     /\ Cardinality(t) \in 1..MaxChars
<1>1. p.lines \in SUBSET (1..Len(text))
  BY ProvisionsAreThere
<1>2. p.lines \in SUBSET Nat
  BY <1>1, CleanKeeps
<1>3. s \in SUBSET p.lines
  BY <1>2, ParagraphsAreSplit DEF Paragraphs
<1>4. s \in SUBSET DOMAIN Clean(text) /\ Lines(Clean(text))
  BY <1>1, <1>3, CleanKeeps
<1>5. PICK chars : chars = Characters(Clean(text), s)
  OBVIOUS
<1>6. chars \in SUBSET Place /\ IsFiniteSet(chars) /\ \A ch \in chars : ch[1] \in s
  BY <1>4, <1>5, CharactersAreThere
<1>7. \A t \in PiecesOf(s) : t \in SUBSET chars /\ Cardinality(t) \in 1..MaxChars
  BY <1>5, <1>6, PiecesCover DEF PiecesOf
<1> QED
  BY <1>1, <1>2, <1>3, <1>5, <1>6, <1>7

\* There are finitely many pieces, so that positions are numbers.
LEMMA PiecesAreFinite ==
    ASSUME Text
    PROVE  IsFiniteSet(Pieces(Clean(text)))
<1>1. PICK n \in Nat : n = Len(text)
  BY CleanKeeps
<1>2. PICK chars : chars = Characters(Clean(text), 1..n)
  OBVIOUS
<1>3. IsFiniteSet(chars)
  BY <1>1, <1>2, CleanKeeps, CharactersAreThere
<1>4. PICK R : R = [text : SUBSET chars, article : 0..n, chapter : 0..n]
  OBVIOUS
<1>5. IsFiniteSet(R)
  <2>1. PICK D : D = (SUBSET chars) \X ((0..n) \X (0..n))
    OBVIOUS
  <2>2. IsFiniteSet(D)
    <3>1. IsFiniteSet(SUBSET chars)
      BY <1>3, FS_SUBSET
    <3>2. 0 \in Int /\ n \in Int
      OBVIOUS
    <3>3. IsFiniteSet(0..n)
      BY <3>2, FS_Interval
    <3>4. IsFiniteSet((0..n) \X (0..n))
      BY <3>3, FS_Product
    <3> QED
      BY <2>1, <3>1, <3>4, FS_Product
  <2>3. PICK f : f = [d \in D |-> [text |-> d[1], article |-> d[2][1], chapter |-> d[2][2]]]
    OBVIOUS
  <2>4. f \in [D -> R]
    <3>1. ASSUME NEW d \in D
          PROVE  f[d] \in R
      <4>1. d[1] \in SUBSET chars /\ d[2][1] \in 0..n /\ d[2][2] \in 0..n
        BY <2>1, <3>1
      <4> QED
        BY <1>4, <2>3, <4>1
    <3> QED
      BY <2>3, <3>1
  <2>5. ASSUME NEW r \in R
        PROVE  \E d \in D : f[d] = r
    <3>1. /\ r.text \in SUBSET chars /\ r.article \in 0..n /\ r.chapter \in 0..n
          /\ r = [text |-> r.text, article |-> r.article, chapter |-> r.chapter]
      BY <1>4
    <3>2. PICK d : d = <<r.text, <<r.article, r.chapter>>>>
      OBVIOUS
    <3>3. d \in D /\ f[d] = [text |-> r.text, article |-> r.article, chapter |-> r.chapter]
      BY <2>1, <2>3, <3>1, <3>2
    <3> QED
      BY <3>1, <3>3
  <2>6. f \in Surjection(D, R)
    BY <2>4, <2>5 DEF Surjection
  <2> QED
    BY <2>2, <2>6, FS_Surjection
<1>6. Pieces(Clean(text)) \in SUBSET R
  <2>1. ASSUME NEW q \in Pieces(Clean(text))
        PROVE  q \in R
    <3> DEFINE made(p, t) == [text |-> t, article |-> p.article, chapter |-> p.chapter]
    <3>0. PICK p \in Provisions(Clean(text)) :
              \E s \in Paragraphs(p) : \E t \in PiecesOf(s) : q = made(p, t)
      BY <2>1 DEF Pieces, Paragraphs, PiecesOf
    <3>1. PICK s \in Paragraphs(p) : \E t \in PiecesOf(s) : q = made(p, t)
      BY <3>0
    <3>4. PICK t \in PiecesOf(s) : q = made(p, t)
      BY <3>1
    <3>2. /\ t \in SUBSET Characters(Clean(text), s) /\ s \in SUBSET (1..n)
          /\ p.article \in 0..n /\ p.chapter \in 0..n
      BY <1>1, ParagraphsAreThere, ProvisionsAreThere
    <3>3. Characters(Clean(text), s) \in SUBSET chars
      BY <1>2, <3>2 DEF Characters
    <3> QED
      BY <1>4, <3>4, <3>2, <3>3
  <2> QED
    BY <2>1
<1> QED
  BY <1>5, <1>6, FS_Subset

-----------------------------------------------------------------------------
(* The properties *)

\* Whatever the text, chunks are as long as they may be and carry labels of the
\* text.
LEMMA ChunksAreTyped ==
    ASSUME Text
    PROVE  \A c \in Chunks(text) :
               /\ Cardinality(c.text) \in 1..MaxChars
               /\ {c.article, c.chapter} \subseteq 0..Len(text)
               /\ c.position \in Nat
<1> SUFFICES ASSUME NEW c \in Chunks(text)
             PROVE  /\ Cardinality(c.text) \in 1..MaxChars
                    /\ {c.article, c.chapter} \subseteq 0..Len(text)
                    /\ c.position \in Nat
  OBVIOUS
<1>0. PICK p \in Provisions(Clean(text)) : \E s \in Paragraphs(p) :
          c.text \in PiecesOf(s) /\ c.article = p.article /\ c.chapter = p.chapter
  BY ChunksAreMade
<1>1. PICK s \in Paragraphs(p) :
          c.text \in PiecesOf(s) /\ c.article = p.article /\ c.chapter = p.chapter
  BY <1>0
<1>2. Cardinality(c.text) \in 1..MaxChars
  BY <1>1, ParagraphsAreThere
<1>3. {c.article, c.chapter} \subseteq 0..Len(text)
  BY <1>1, ProvisionsAreThere
<1>4. c.position \in Nat
  <2>1. PICK Q : Q = {q \in Pieces(Clean(text)) : Precedes(q, c)}
    OBVIOUS
  <2>2. Q \in SUBSET Pieces(Clean(text))
    BY <2>1
  <2>3. Cardinality(Q) \in Nat
    BY <2>2, PiecesAreFinite, FS_Subset, FS_CardinalityType
  <2> QED
    BY <2>1, <2>3, ChunksAreMade
<1> QED
  BY <1>2, <1>3, <1>4

\* The lines of a chunk are lines of a paragraph.
LEMMA LinesAreTheParagraphs ==
    ASSUME Text, NEW c \in Chunks(text), NEW p \in Provisions(Clean(text)),
           NEW s \in Paragraphs(p), c.text \in PiecesOf(s)
    PROVE  LinesOf(c) \in SUBSET s
<1>1. \A ch \in c.text : ch[1] \in s
  BY ParagraphsAreThere
<1> QED
  BY <1>1 DEF LinesOf

\* The law is what provisions consist of.
LEMMA LawIsInProvisions ==
    ASSUME Text
    PROVE  Law = UNION {p.lines : p \in Provisions(Clean(text))}
<1>1. DOMAIN text = 1..Len(text)
  BY CleanKeeps
<1>2. CASE Articles(Clean(text)) = {}
  <2>1. Law = DOMAIN text
    BY <1>1, <1>2, HeadingsStay DEF Law
  <2>2. Provisions(Clean(text)) = {[article |-> 0, chapter |-> 0, lines |-> DOMAIN Clean(text)]}
    BY <1>2 DEF Provisions
  <2>3. \A p \in Provisions(Clean(text)) : p.lines = DOMAIN text
    BY <1>1, <2>2, CleanKeeps
  <2>4. \E p \in Provisions(Clean(text)) : p.lines = DOMAIN text
    BY <2>2, <2>3
  <2> QED
    BY <2>1, <2>3, <2>4
<1>3. CASE Articles(Clean(text)) # {}
  <2>1. Law = {i \in 1..Len(text) : Heading(i) # 0 /\ text[Heading(i)] \in Headers}
    BY <1>1, <1>3, HeadingsStay DEF Law
  <2>2. \A p \in Provisions(Clean(text)) :
            \E a \in Articles(Clean(text)) : p.lines = Body(Clean(text), a)
    BY <1>3 DEF Provisions
  <2>3. ASSUME NEW a \in Articles(Clean(text))
        PROVE  \E p \in Provisions(Clean(text)) : p.lines = Body(Clean(text), a)
    <3>1. [article |-> a, chapter |-> ChapterAt(Clean(text), a), lines |-> Body(Clean(text), a)]
              \in Provisions(Clean(text))
      BY <1>3 DEF Provisions
    <3> QED
      BY <3>1
  <2>4. ASSUME NEW a \in Articles(Clean(text)), NEW j \in Body(Clean(text), a)
        PROVE  j \in Law
    <3>1. j \in 1..Len(text) /\ Heading(j) = a
      BY BodyIsUnderItsHeader
    <3>2. a \in Nat /\ a # 0 /\ text[a] \in Headers
      BY HeadingsStay, CleanKeeps
    <3> QED
      BY <2>1, <3>1, <3>2
  <2>5. ASSUME NEW j \in Law
        PROVE  \E a \in Articles(Clean(text)) : j \in Body(Clean(text), a)
    BY <2>1, <2>5, UnderItsHeaderIsBody
  <2> QED
    BY <2>2, <2>3, <2>4, <2>5
<1> QED
  BY <1>2, <1>3

\* Which lines carry printed letters.
LEMMA PrintedIs ==
    ASSUME Text, NEW s \in SUBSET DOMAIN text
    PROVE  \A ch : ch \in Printed(s) <=>
               /\ ch = <<ch[1], ch[2]>> /\ ch[1] \in s /\ text[ch[1]] # "footer"
               /\ ch[2] \in DOMAIN Letters[text[ch[1]]] /\ Letters[text[ch[1]]][ch[2]]
<1>1. \A ch : ch \in Printed(s) <=>
          \E i \in s : text[i] # "footer" /\ ch \in {i} \X LettersAt(i)
  BY DEF Printed
<1> QED
  BY <1>1 DEF LettersAt

\* No letter of the law is lost, and no other is in a chunk.
LEMMA LawStaysWhole ==
    ASSUME Text
    PROVE  LawIsKept
<1>1. DOMAIN text = 1..Len(text) /\ Law \in SUBSET DOMAIN text
  BY CleanKeeps DEF Law
<1>2. ASSUME NEW c \in Chunks(text), NEW ch \in c.text, ch \in Printed(DOMAIN text)
      PROVE  ch \in Printed(Law)
  <2>1. PICK p \in Provisions(Clean(text)) : \E s \in Paragraphs(p) : c.text \in PiecesOf(s)
    BY ChunksAreMade
  <2>2. PICK s \in Paragraphs(p) : c.text \in PiecesOf(s)
    BY <2>1
  <2>3. ch[1] \in p.lines
    BY <1>2, <2>2, ParagraphsAreThere
  <2>4. ch[1] \in Law
    BY <2>3, LawIsInProvisions
  <2> QED
    BY <1>1, <1>2, <2>4, PrintedIs
<1>3. ASSUME NEW ch \in Printed(Law)
      PROVE  ch \in Printed(DOMAIN text) /\ \E c \in Chunks(text) : ch \in c.text
  <2>1. /\ ch = <<ch[1], ch[2]>> /\ ch[1] \in Law /\ text[ch[1]] # "footer"
        /\ ch[2] \in DOMAIN Letters[text[ch[1]]] /\ Letters[text[ch[1]]][ch[2]]
    BY <1>1, <1>3, PrintedIs
  <2>2. PICK i \in 1..Len(text) : i = ch[1]
    BY <1>1, <2>1
  <2>3. Clean(text)[i] = text[i] /\ text[i] \in Kinds
    BY <2>1, <2>2, CleanKeeps
  <2>4. text[i] # "blank"
    <3>1. Letters["blank"] = <<FALSE>>
      BY DEF Letters, Kinds
    <3>2. DOMAIN <<FALSE>> = {1} /\ ~(<<FALSE>>[1])
      OBVIOUS
    <3> QED
      BY <2>1, <2>2, <3>1, <3>2
  <2>5. PICK p \in Provisions(Clean(text)) : i \in p.lines
    BY <2>1, <2>2, LawIsInProvisions
  <2>6. p.lines \in SUBSET Nat
    BY ProvisionsAreThere, CleanKeeps
  <2>7. PICK s \in Paragraphs(p) : i \in s
    BY <2>3, <2>4, <2>5, <2>6, ParagraphsAreSplit DEF Paragraphs
  <2>8. PICK chars : chars = Characters(Clean(text), s)
    OBVIOUS
  <2>9. ch \in chars
    BY <2>1, <2>2, <2>3, <2>7, <2>8 DEF Characters
  <2>10. Letters[Clean(text)[ch[1]]][ch[2]]
    BY <2>1, <2>2, <2>3
  <2>11. PICK t \in PiecesOf(s) : ch \in t
    <3>1. chars \in SUBSET Place /\ IsFiniteSet(chars)
      BY <2>8, ParagraphsAreThere
    <3> QED
      BY <2>8, <2>9, <2>10, <3>1, PiecesCover DEF PiecesOf
  <2>12. \E c \in Chunks(text) : c.text = t
    BY ChunksAreMade
  <2> QED
    BY <1>1, <2>1, <2>11, <2>12, PrintedIs
<1> QED
  BY <1>2, <1>3 DEF LawIsKept

\* No chunk mixes two paragraphs or two articles.
LEMMA ParagraphsStayApart ==
    ASSUME Text
    PROVE  ParagraphsNeverMix
<1> SUFFICES ASSUME NEW c \in Chunks(text), NEW i \in LinesOf(c), NEW j \in LinesOf(c), i < j
             PROVE  /\ text[j] \notin Headers
                    /\ (text[j] = "paragraph"
                        \/ (text[j] = "number" /\ j # Latest(LinesOf(c)))) =>
                           text[i] = "article" /\ \A k \in LinesOf(c) : k = i \/ k >= j
  BY DEF ParagraphsNeverMix
<1>1. PICK p \in Provisions(Clean(text)) : \E s \in Paragraphs(p) : c.text \in PiecesOf(s)
  BY ChunksAreMade
<1>2. PICK s \in Paragraphs(p) : c.text \in PiecesOf(s)
  BY <1>1
<1>3. /\ LinesOf(c) \in SUBSET s /\ s \in SUBSET p.lines
      /\ p.lines \in SUBSET (1..Len(text)) /\ p.lines \in SUBSET Nat
  BY <1>2, LinesAreTheParagraphs, ParagraphsAreThere
<1>4. i \in s /\ j \in s /\ i \in Nat /\ j \in Nat /\ i \in 1..Len(text) /\ j \in 1..Len(text)
  BY <1>3
<1>5. text[j] \notin Headers
  <2>1. CASE Articles(Clean(text)) = {}
    BY <1>4, <2>1, HeadingsStay
  <2>2. CASE Articles(Clean(text)) # {}
    <3>1. PICK a \in Articles(Clean(text)) : p.lines = Body(Clean(text), a)
      BY <2>2 DEF Provisions
    <3>2. a <= i /\ a \in Nat
      BY <1>3, <1>4, <3>1, BodyIsUnderItsHeader
    <3>3. j \in 1..j /\ a < j
      BY <1>4, <3>2
    <3> QED
      BY <1>3, <1>4, <3>1, <3>3, BodyIsUnderItsHeader
  <2> QED
    BY <2>1, <2>2
<1>6. ASSUME text[j] = "paragraph" \/ (text[j] = "number" /\ j # Latest(LinesOf(c)))
      PROVE  Opens(Clean(text), p.lines, j)
  <2>1. CASE text[j] = "paragraph"
    BY <1>4, <2>1, CleanKeeps DEF Opens
  <2>2. CASE text[j] = "number" /\ j # Latest(LinesOf(c))
    <3>1. LinesOf(c) \in SUBSET Nat
      BY <1>3
    <3>2. PICK m \in LinesOf(c) : ~(m <= j)
      BY <2>2, <3>1, LatestIs
    <3>3. PICK k \in p.lines : Clean(text)[k] # "blank" /\ m <= k
      BY <1>3, <3>2, ParagraphsAreSplit DEF Paragraphs
    <3>4. k \in Solid(Clean(text), p.lines) /\ j < k
      BY <1>3, <1>4, <3>1, <3>2, <3>3 DEF Solid
    <3> QED
      BY <1>4, <2>2, <3>4, CleanKeeps DEF Opens
  <2> QED
    BY <1>6, <2>1, <2>2
<1>7. ASSUME Opens(Clean(text), p.lines, j)
      PROVE  text[i] = "article" /\ \A k \in LinesOf(c) : k = i \/ k >= j
  <2>1. Clean(text)[i] = "article" /\ \A k \in s : k = i \/ k >= j
    BY <1>3, <1>4, <1>7, ParagraphsAreSplit DEF Paragraphs
  <2>2. text[i] = "article"
    BY <1>4, <2>1, CleanKeeps
  <2> QED
    BY <1>3, <2>1, <2>2
<1> QED
  BY <1>5, <1>6, <1>7

\* A chunk has the labels of the headings above it.
LEMMA LabelsStayRight ==
    ASSUME Text
    PROVE  LabelsAreRight
<1> SUFFICES ASSUME Articles(Clean(text)) # {}, NEW c \in Chunks(text), NEW i \in LinesOf(c)
             PROVE  /\ c.article = Latest({j \in 1..i : text[j] \in Headers})
                    /\ c.chapter = Latest({j \in 1..i : text[j] = "chapter"})
  BY HeadingsStay, CleanKeeps DEF LabelsAreRight
<1>1. PICK p \in Provisions(Clean(text)) : \E s \in Paragraphs(p) :
          c.text \in PiecesOf(s) /\ c.article = p.article /\ c.chapter = p.chapter
  BY ChunksAreMade
<1>2. PICK s \in Paragraphs(p) :
          c.text \in PiecesOf(s) /\ c.article = p.article /\ c.chapter = p.chapter
  BY <1>1
<1>3. i \in p.lines
  BY <1>2, LinesAreTheParagraphs, ParagraphsAreThere
<1>4. PICK a \in Articles(Clean(text)) :
          p = [article |-> a, chapter |-> ChapterAt(Clean(text), a),
               lines |-> Body(Clean(text), a)]
  BY DEF Provisions
<1>5. /\ c.article = a /\ c.chapter = ChapterAt(Clean(text), a)
      /\ i \in Body(Clean(text), a)
  BY <1>2, <1>3, <1>4
<1>6. /\ i \in 1..Len(text) /\ a \in 1..i /\ i \in Nat /\ a \in Nat /\ text[a] \in Headers
      /\ \A j \in 1..i : a < j => text[j] \notin Headers /\ text[j] # "chapter"
  BY <1>5, BodyIsUnderItsHeader, HeadingsStay, CleanKeeps
<1>7. a = Latest({j \in 1..i : text[j] \in Headers})
  <2>1. PICK S : S = {j \in 1..i : text[j] \in Headers}
    OBVIOUS
  <2>2. S \in SUBSET Nat /\ a \in S /\ \A j \in S : j <= a
    BY <1>6, <2>1
  <2> QED
    BY <2>1, <2>2, LatestIs
<1>8. {j \in Chapters(Clean(text)) : j <= a} = {j \in 1..i : text[j] = "chapter"}
  BY <1>6, HeadingsStay, CleanKeeps
<1> QED
  BY <1>5, <1>7, <1>8 DEF ChapterAt

\* A text only grows by lines.
LEMMA TextGrows == Spec => [](Text /\ Len(text) <= MaxLines)
<1>1. Init => Text /\ Len(text) <= MaxLines
  BY BoundIsNatural DEF Init, Text
<1>2. (Text /\ Len(text) <= MaxLines) /\ [Next]_text => (Text /\ Len(text) <= MaxLines)'
  <2> SUFFICES ASSUME Text, Len(text) <= MaxLines, [Next]_text
               PROVE  Text' /\ Len(text') <= MaxLines
    OBVIOUS
  <2>1. CASE UNCHANGED text
    BY <2>1 DEF Text
  <2>2. CASE Next
    <3>1. PICK kind \in Kinds : Len(text) < MaxLines /\ text' = Append(text, kind)
      BY <2>2 DEF Next, Extract
    <3> QED
      BY <3>1, BoundIsNatural DEF Text
  <2> QED
    BY <2>1, <2>2
<1> QED
  BY <1>1, <1>2, PTL DEF Spec

\* Chunks are never empty or longer than max_chars, and their labels are headings
\* of the text: for every length of a piece and overlap (_split_long).
THEOREM ChunksFit == Spec => []TypeOK
<1>1. Text => TypeOK
  BY ChunksAreTyped DEF TypeOK, Text
<1> QED
  BY <1>1, TextGrows, PTL

\* The letters of all chunks are those of the articles: no splitting into
\* articles, paragraphs and overlapping pieces loses or adds any (chunk).
THEOREM NoLawIsLost == Spec => []LawIsKept
<1>1. Text => LawIsKept
  BY LawStaysWhole
<1> QED
  BY <1>1, TextGrows, PTL

\* No text makes a chunk with two paragraphs or two articles in it
\* (_split_paragraphs).
THEOREM NothingIsMixed == Spec => []ParagraphsNeverMix
<1>1. Text => ParagraphsNeverMix
  BY ParagraphsStayApart
<1> QED
  BY <1>1, TextGrows, PTL

\* In every text each chunk has the article and the chapter it is printed under
\* (chapter_at, boundaries).
THEOREM LabelsAreTrue == Spec => []LabelsAreRight
<1>1. Text => LabelsAreRight
  BY LabelsStayRight
<1> QED
  BY <1>1, TextGrows, PTL

============================================================================
