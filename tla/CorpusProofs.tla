----------------------------- MODULE CorpusProofs -----------------------------
(***************************************************************************)
(* What holds of the corpus for every registry, text, budget and batch.    *)
(* The first half is about texts: how headers are read, what the chunker   *)
(* makes of a text, what a re-splitting makes of an article.  CInv is the  *)
(* inductive invariant: documents keep the law they were named for, under  *)
(* a label that is true of it, a cleaning has every dirty chunk before it, *)
(* what a script has yet to write is true, and a stage's tasks have the    *)
(* files they read.                                                        *)
(***************************************************************************)
EXTENDS CorpusProperties, FiniteSetTheorems, WellFoundedInduction, TLAPS

-----------------------------------------------------------------------------
(* Numbers and finite sets *)

\* Some numbers have a least.
LEMMA SomeIsLeast ==
    ASSUME NEW S \in SUBSET Nat, S # {}
    PROVE  \E i \in S : \A j \in S : i <= j
<1>1. PICK R : R = OpToRel(<, Nat)
  OBVIOUS
<1>2. IsWellFoundedOn(R, Nat) /\ R = {ss \in Nat \X Nat : ss[1] < ss[2]}
  BY <1>1, NatLessThanWellFounded DEF OpToRel
<1>3. \E i \in S : \A j \in S : ~(<<j, i>> \in R)
  BY <1>2, WFMin, Zenon
<1>4. PICK i \in S : \A j \in S : ~(<<j, i>> \in R)
  BY <1>3
<1>5. \A j \in S : ~(j < i)
  BY <1>2, <1>4
<1> QED
  BY <1>4, <1>5

\* What holds of 0 and of every successor holds up to n.
LEMMA StepByStep ==
    ASSUME NEW n \in Nat, NEW S, 0 \in S, \A i \in 0..n : i \in S /\ i < n => i + 1 \in S
    PROVE  \A i \in 0..n : i \in S
<1>1. PICK C : C = {i \in 0..n : i \notin S}
  OBVIOUS
<1>2. CASE C = {}
  BY <1>1, <1>2
<1>3. CASE C # {}
  <2>1. PICK i \in C : \A j \in C : i <= j
    BY <1>1, <1>3, SomeIsLeast
  <2>2. i \in 0..n /\ i # 0 /\ i \notin S
    BY <1>1, <2>1
  <2>3. i - 1 \in 0..n /\ i - 1 \notin C /\ i - 1 < n /\ (i - 1) + 1 = i
    BY <1>1, <2>1, <2>2
  <2>4. i - 1 \in S
    BY <1>1, <2>3
  <2> QED
    BY <2>2, <2>3, <2>4
<1> QED
  BY <1>2, <1>3

\* Max is the greatest of some numbers with a bound.
LEMMA MaxIsGreatest ==
    ASSUME NEW n \in Nat, NEW S \in SUBSET (0..n), S # {}
    PROVE  Max(S) \in S /\ \A j \in S : j <= Max(S)
<1>1. PICK B : B = {m \in Nat : \A j \in S : j <= m}
  OBVIOUS
<1>2. n \in B /\ B \in SUBSET Nat
  BY <1>1
<1>3. PICK m \in B : \A k \in B : m <= k
  BY <1>2, SomeIsLeast
<1>4. m \in S
  <2>1. CASE m = 0
    <3>1. \A j \in S : j = 0
      BY <1>1, <2>1
    <3> QED
      BY <2>1, <3>1
  <2>2. CASE m # 0 /\ m \notin S
    <3>1. m - 1 \in B
      BY <1>1, <2>2
    <3> QED
      BY <1>1, <1>3, <3>1
  <2> QED
    BY <2>1, <2>2
<1>5. \E x \in S : \A y \in S : x >= y
  BY <1>1, <1>4
<1>6. Max(S) \in S /\ \A y \in S : Max(S) >= y
  BY <1>5 DEF Max
<1> QED
  BY <1>6

\* What is listed by finitely many is finite.
LEMMA ListedIsFinite ==
    ASSUME NEW S, IsFiniteSet(S), NEW f, DOMAIN f = S
    PROVE  IsFiniteSet({f[x] : x \in S})
<1>1. PICK T : T = {f[x] : x \in S}
  OBVIOUS
<1>2. PICK g : g = [x \in S |-> f[x]]
  OBVIOUS
<1>3. g \in Surjection(S, T)
  BY <1>1, <1>2 DEF Surjection
<1> QED
  BY <1>1, <1>3, FS_Surjection

-----------------------------------------------------------------------------
(* Articles of a text *)

LabelForms == [num : Seq(Nat), sup : Seq(Nat), letter : STRING]

Paras == Seq(DOMAIN Header)

\* The header above a paragraph is the last one that is not below it.
LEMMA HeadAtIsLast ==
    ASSUME NEW paras \in Paras, NEW i \in DOMAIN paras, NEW h \in Heads(paras), h <= i
    PROVE  /\ HeadAt(paras, i) \in Heads(paras) /\ HeadAt(paras, i) <= i
           /\ \A g \in Heads(paras) : g <= i => g <= HeadAt(paras, i)
<1>1. PICK S : S = {g \in Heads(paras) : g <= i}
  OBVIOUS
<1>2. DOMAIN paras = 1..Len(paras) /\ Len(paras) \in Nat
  BY DEF Paras
<1>3. S \in SUBSET (0..i) /\ S # {} /\ i \in Nat
  BY <1>1, <1>2 DEF Heads
<1>4. Max(S) \in S /\ \A j \in S : j <= Max(S)
  BY <1>3, MaxIsGreatest
<1>5. HeadAt(paras, i) = Max(S)
  BY <1>1 DEF HeadAt
<1> QED
  BY <1>1, <1>4, <1>5

\* Its label is what the paragraph is under.
LEMMA LabelAtIs ==
    ASSUME NEW paras \in Paras, NEW i \in DOMAIN paras
    PROVE  \/ /\ LabelAt(paras, i) = NoLabel /\ \A h \in Heads(paras) : ~(h <= i)
           \/ \E h \in Heads(paras) :
                 /\ LabelAt(paras, i) = Header[paras[h]]
                 /\ h <= i /\ h = HeadAt(paras, i)
                 /\ \A g \in Heads(paras) : g <= i => g <= h
<1>1. CASE \E h \in Heads(paras) : h <= i
  <2>1. PICK h \in Heads(paras) : h <= i
    BY <1>1
  <2>2. PICK g : g = HeadAt(paras, i)
    OBVIOUS
  <2>3. g \in Heads(paras) /\ g <= i /\ \A f \in Heads(paras) : f <= i => f <= g
    BY <2>1, <2>2, HeadAtIsLast
  <2>4. LabelAt(paras, i) = Header[paras[g]]
    BY <1>1, <2>2 DEF LabelAt
  <2> QED
    BY <2>2, <2>3, <2>4
<1>2. CASE ~ \E h \in Heads(paras) : h <= i
  BY <1>2 DEF LabelAt
<1> QED
  BY <1>1, <1>2

\* The reading of a text's headers, up to its k-th paragraph.
Reading(paras, k, seen) ==
    seen = [i \in 0..k |->
        CASE i = 0 -> [base |-> <<>>, last |-> 0, label |-> NoLabel]
          [] i \in Heads(paras) -> Restore(seen[i - 1], Header[paras[i]])
          [] OTHER -> seen[i - 1]]

\* It goes from one paragraph to the next, through the whole text.
LEMMA ReadingGoesThrough ==
    ASSUME NEW paras \in Paras
    PROVE  \E seen : Reading(paras, Len(paras), seen)
<1> DEFINE first == [base |-> <<>>, last |-> 0, label |-> NoLabel]
           heads == Heads(paras)
           Solves(k, f) == Reading(paras, k, f)
<1>n. PICK n : n = Len(paras)
  OBVIOUS
<1>0. n \in Nat /\ 0 \notin heads
  BY <1>n DEF Paras, Heads
<1>1. PICK S : S = {k \in 0..n : \E f : Solves(k, f)}
  OBVIOUS
<1>2. 0 \in S
  <2>1. PICK f : f = [i \in 0..0 |-> first]
    OBVIOUS
  <2>2. f = [i \in 0..0 |-> CASE i = 0 -> first
                             [] i \in heads -> Restore(f[i - 1], Header[paras[i]])
                             [] OTHER -> f[i - 1]]
    <3>1. \A i \in 0..0 : i = 0
      OBVIOUS
    <3>2. \A i \in 0..0 : first = CASE i = 0 -> first
                                  [] i \in heads -> Restore(f[i - 1], Header[paras[i]])
                                  [] OTHER -> f[i - 1]
      BY <1>0, <3>1
    <3> QED
      BY <2>1, <3>2
  <2>3. Solves(0, f)
    BY <2>2 DEF Reading
  <2> QED
    BY <1>0, <1>1, <2>3
<1>3. ASSUME NEW k \in 0..n, k \in S, k < n
      PROVE  k + 1 \in S
  <2>1. PICK f : Solves(k, f)
    BY <1>0, <1>1, <1>3
  <2>2. PICK next : next = IF k + 1 \in heads THEN Restore(f[k], Header[paras[k + 1]]) ELSE f[k]
    OBVIOUS
  <2>3. PICK g : g = [i \in 0..(k + 1) |-> IF i = k + 1 THEN next ELSE f[i]]
    OBVIOUS
  <2>4. ASSUME NEW i \in 0..(k + 1)
        PROVE  g[i] = CASE i = 0 -> first
                        [] i \in heads -> Restore(g[i - 1], Header[paras[i]])
                        [] OTHER -> g[i - 1]
    <3>1. CASE i = 0
      BY <1>0, <2>1, <2>3, <3>1 DEF Reading
    <3>2. CASE i = k + 1
      <4>1. i # 0 /\ i - 1 = k /\ g[k] = f[k] /\ g[i] = next
        BY <2>3, <3>2
      <4> QED
        BY <1>0, <2>2, <3>2, <4>1
    <3>3. CASE i # 0 /\ i # k + 1
      <4>1. i - 1 \in 0..k /\ i \in 0..k /\ g[i] = f[i] /\ g[i - 1] = f[i - 1]
        BY <2>3, <3>3
      <4>2. f[i] = CASE i = 0 -> first
                     [] i \in heads -> Restore(f[i - 1], Header[paras[i]])
                     [] OTHER -> f[i - 1]
        BY <2>1, <4>1 DEF Reading
      <4> QED
        BY <4>1, <4>2
    <3> QED
      BY <3>1, <3>2, <3>3
  <2>5. DOMAIN g = 0..(k + 1) /\ g = [i \in DOMAIN g |-> g[i]]
    BY <2>3
  <2>6. Solves(k + 1, g)
    BY <2>4, <2>5 DEF Reading
  <2>7. k + 1 \in 0..n
    BY <1>0, <1>3
  <2> QED
    BY <1>1, <2>6, <2>7
<1> HIDE DEF Solves
<1>4. \A k \in 0..n : k \in S
  BY <1>0, <1>2, <1>3, StepByStep
<1>5. PICK f : Solves(n, f)
  BY <1>0, <1>1, <1>4
<1> QED
  BY <1>n, <1>5 DEF Solves

\* A label keeps its digits when they are read as another's superscript.
LEMMA RestoreReads ==
    ASSUME NEW seen, seen.base \in Seq(Nat), NEW head \in LabelForms
    PROVE  LET after == Restore(seen, head) IN
           /\ after.base \in Seq(Nat) /\ after.label \in LabelForms
           /\ Flat(after.label) = Flat(head)
<1>1. PICK base : base = seen.base
  OBVIOUS
<1>2. PICK num : num = head.num
  OBVIOUS
<1>3. num \in Seq(Nat) /\ base \in Seq(Nat) /\ head = Label(num, head.sup, head.letter)
  BY <1>1, <1>2 DEF LabelForms, Label
<1>4. PICK suffix : suffix = Suffix(base, num)
  OBVIOUS
<1>5. CASE Advances(seen, head) /\ head.sup = <<>>
  <2>1. suffix # <<>>
    BY <1>1, <1>2, <1>4, <1>5 DEF Advances
  <2>2. IsStrictPrefix(base, num) /\ suffix = SubSeq(num, Len(base) + 1, Len(num))
    BY <1>4, <2>1 DEF Suffix
  <2>3. Len(base) <= Len(num) /\ SubSeq(base, 1, Len(base)) = SubSeq(num, 1, Len(base))
    BY <2>2 DEF IsStrictPrefix, IsPrefix
  <2>4. suffix \in Seq(Nat) /\ Len(suffix) = Len(num) - Len(base)
    BY <1>3, <2>2, <2>3
  <2>5. \A i \in 1..Len(suffix) : suffix[i] = num[Len(base) + i]
    BY <1>3, <2>2, <2>3
  <2>6. \A i \in 1..Len(base) : base[i] = num[i]
    <3>1. SUFFICES ASSUME NEW i \in 1..Len(base) PROVE base[i] = num[i]
      OBVIOUS
    <3>2. SubSeq(base, 1, Len(base))[i] = base[i] /\ SubSeq(num, 1, Len(base))[i] = num[i]
      BY <1>3, <2>3
    <3> QED
      BY <2>3, <3>2
  <2>7. PICK joined : joined = base \o suffix
    OBVIOUS
  <2>8. joined \in Seq(Nat) /\ Len(joined) = Len(num)
    BY <1>3, <2>3, <2>4, <2>7
  <2>9. \A i \in 1..Len(num) : joined[i] = num[i]
    <3>1. SUFFICES ASSUME NEW i \in 1..Len(num) PROVE joined[i] = num[i]
      OBVIOUS
    <3>2. CASE i <= Len(base)
      BY <1>3, <2>4, <2>6, <2>7, <3>2
    <3>3. CASE i > Len(base)
      <4>1. i - Len(base) \in 1..Len(suffix) /\ joined[i] = suffix[i - Len(base)]
        BY <1>3, <2>3, <2>4, <2>7, <3>3
      <4>2. suffix[i - Len(base)] = num[Len(base) + (i - Len(base))]
        BY <2>5, <4>1
      <4>3. Len(base) + (i - Len(base)) = i
        BY <1>3
      <4> QED
        BY <4>1, <4>2, <4>3
    <3> QED
      BY <1>3, <3>2, <3>3
  <2>10. joined = num
    <3>1. joined = [i \in 1..Len(joined) |-> joined[i]] /\ num = [i \in 1..Len(num) |-> num[i]]
      BY <1>3, <2>8
    <3> QED
      BY <2>8, <2>9, <3>1
  <2>11. PICK label : label = Label(base, suffix, head.letter)
    OBVIOUS
  <2>12. Restore(seen, head) = [base |-> base, last |-> Number(suffix), label |-> label]
    BY <1>1, <1>2, <1>4, <1>5, <2>11 DEF Restore
  <2>13. label \in LabelForms /\ label.num = base /\ label.sup = suffix /\ label.letter = head.letter
    BY <1>3, <2>4, <2>11 DEF LabelForms, Label
  <2>14. num \o head.sup = num
    BY <1>3, <1>5
  <2>15. Flat(label) = Flat(head)
    BY <1>2, <2>7, <2>10, <2>13, <2>14 DEF Flat
  <2> QED
    BY <1>3, <2>12, <2>13, <2>15
<1>6. CASE ~(Advances(seen, head) /\ head.sup = <<>>)
  <2>1. \E last : Restore(seen, head) = [base |-> num, last |-> last, label |-> head]
    <3>1. CASE head.sup # <<>>
      BY <1>2, <3>1, Zenon DEF Restore
    <3>2. CASE head.sup = <<>>
      BY <1>2, <1>6, <3>2, Zenon DEF Restore
    <3> QED
      BY <3>1, <3>2
  <2> QED
    BY <1>3, <2>1
<1> QED
  BY <1>5, <1>6

\* The body of the article that a header opens.
BodyOf(paras, h) == {paras[i] : i \in {i \in DOMAIN paras : h <= i /\ h = HeadAt(paras, i)}}

\* The articles of a text are those of its headers, as the reading labels them.
LEMMA OccurrencesAreRead ==
    ASSUME NEW paras \in Paras
    PROVE  \E seen :
              /\ Reading(paras, Len(paras), seen)
              /\ Occurrences(paras) =
                    {[label |-> seen[h].label, body |-> BodyOf(paras, h)] : h \in Heads(paras)}
<1> DEFINE Solves(f) == f = [i \in 0..Len(paras) |->
               CASE i = 0 -> [base |-> <<>>, last |-> 0, label |-> NoLabel]
                 [] i \in Heads(paras) -> Restore(f[i - 1], Header[paras[i]])
                 [] OTHER -> f[i - 1]]
<1>1. \E f : Solves(f)
  BY ReadingGoesThrough, Zenon DEF Reading
<1>2. Solves(CHOOSE f : Solves(f))
  <2> HIDE DEF Solves
  <2> QED
    BY <1>1
<1>3. Reading(paras, Len(paras), CHOOSE f : Solves(f))
  BY <1>2, Zenon DEF Reading
<1>4. Occurrences(paras) =
         {[label |-> (CHOOSE f : Solves(f))[h].label, body |-> BodyOf(paras, h)] : h \in Heads(paras)}
  BY Zenon DEF Occurrences, BodyOf
<1> QED
  BY <1>3, <1>4, Zenon

\* A text is made of paragraphs, its headers of some of their places.
LEMMA HeadersAreRead ==
    ASSUME NEW paras \in Paras
    PROVE  /\ DOMAIN paras = 1..Len(paras) /\ Len(paras) \in Nat
           /\ Heads(paras) \subseteq 1..Len(paras) /\ IsFiniteSet(Heads(paras))
           /\ \A i \in 1..Len(paras) : paras[i] \in DOMAIN Header
           /\ \A i \in 1..Len(paras) : Header[paras[i]] \in LabelForms
<1>1. DOMAIN paras = 1..Len(paras) /\ Len(paras) \in Nat
  BY DEF Paras
<1>2. Heads(paras) \subseteq 1..Len(paras)
  BY <1>1 DEF Heads
<1>3. IsFiniteSet(Heads(paras))
  <2>1. IsFiniteSet(1..Len(paras))
    BY <1>1, FS_Interval
  <2> QED
    BY <1>2, <2>1, FS_Subset
<1>4. \A i \in 1..Len(paras) : paras[i] \in DOMAIN Header
  BY <1>1 DEF Paras
<1> QED
  BY <1>1, <1>2, <1>3, <1>4, HeadersAreLabels DEF LabelForms

\* The reading gives every header a label that has its digits.
LEMMA ReadingKeepsDigits ==
    ASSUME NEW paras \in Paras, NEW seen, Reading(paras, Len(paras), seen), NEW h \in Heads(paras)
    PROVE  seen[h].label \in LabelForms /\ Flat(seen[h].label) = Flat(Header[paras[h]])
<1>1. PICK n : n = Len(paras)
  OBVIOUS
<1>2. n \in Nat /\ Heads(paras) \subseteq 1..n
  BY <1>1, HeadersAreRead
<1>3. \A i \in 0..n :
         seen[i] = CASE i = 0 -> [base |-> <<>>, last |-> 0, label |-> NoLabel]
                     [] i \in Heads(paras) -> Restore(seen[i - 1], Header[paras[i]])
                     [] OTHER -> seen[i - 1]
  BY <1>1 DEF Reading
<1>4. PICK S : S = {i \in 0..n : seen[i].base \in Seq(Nat)}
  OBVIOUS
<1>5. 0 \in S
  <2>1. seen[0] = [base |-> <<>>, last |-> 0, label |-> NoLabel]
    BY <1>2, <1>3
  <2>2. seen[0].base = <<>> /\ <<>> \in Seq(Nat)
    BY <2>1
  <2>3. seen[0].base \in Seq(Nat) /\ 0 \in 0..n
    BY <1>2, <2>2
  <2> QED
    BY <1>4, <2>3
<1>6. ASSUME NEW i \in 0..n, i \in S, i < n
      PROVE  i + 1 \in S
  <2>1. i + 1 \in 0..n /\ i + 1 # 0 /\ (i + 1) - 1 = i
    BY <1>2, <1>6
  <2>2. CASE i + 1 \in Heads(paras)
    <3>1. seen[i + 1] = Restore(seen[i], Header[paras[i + 1]])
      BY <1>3, <2>1, <2>2
    <3>2. Header[paras[i + 1]] \in LabelForms
      BY <1>1, <1>2, <2>2, HeadersAreRead
    <3>3. seen[i].base \in Seq(Nat)
      BY <1>4, <1>6
    <3> QED
      BY <1>4, <2>1, <3>1, <3>2, <3>3, RestoreReads
  <2>3. CASE i + 1 \notin Heads(paras)
    <3>1. seen[i + 1] = seen[i]
      BY <1>3, <2>1, <2>3
    <3> QED
      BY <1>4, <1>6, <2>1, <3>1
  <2> QED
    BY <2>2, <2>3
<1>7. \A i \in 0..n : i \in S
  BY <1>2, <1>5, <1>6, StepByStep
<1>8. h \in 0..n /\ h # 0 /\ h - 1 \in 0..n
  BY <1>2
<1>9. seen[h] = Restore(seen[h - 1], Header[paras[h]])
  BY <1>3, <1>8
<1>10. seen[h - 1].base \in Seq(Nat) /\ Header[paras[h]] \in LabelForms
  BY <1>1, <1>2, <1>4, <1>7, <1>8, HeadersAreRead
<1> QED
  BY <1>9, <1>10, RestoreReads

\* Each article has the digits of its header,
LEMMA ArticlesHaveHeaders ==
    ASSUME NEW paras \in Paras
    PROVE  /\ IsFiniteSet(Occurrences(paras))
           /\ \A o \in Occurrences(paras) :
                 /\ o.label \in LabelForms
                 /\ \E h \in Heads(paras) : Flat(o.label) = Flat(Header[paras[h]])
           /\ \A h \in Heads(paras) : \E o \in Occurrences(paras) :
                 o.body = BodyOf(paras, h) /\ Flat(o.label) = Flat(Header[paras[h]])
<1>1. PICK seen :
         /\ Reading(paras, Len(paras), seen)
         /\ Occurrences(paras) =
               {[label |-> seen[h].label, body |-> BodyOf(paras, h)] : h \in Heads(paras)}
  BY OccurrencesAreRead
<1>2. PICK read : read = [h \in Heads(paras) |-> [label |-> seen[h].label, body |-> BodyOf(paras, h)]]
  OBVIOUS
<1>3. Occurrences(paras) = {read[h] : h \in Heads(paras)} /\ DOMAIN read = Heads(paras)
  BY <1>1, <1>2
<1>4. IsFiniteSet(Occurrences(paras))
  <2>1. IsFiniteSet({read[h] : h \in Heads(paras)})
    BY <1>3, HeadersAreRead, ListedIsFinite
  <2> QED
    BY <1>3, <2>1
<1>5. ASSUME NEW h \in Heads(paras)
      PROVE  /\ read[h].label \in LabelForms /\ Flat(read[h].label) = Flat(Header[paras[h]])
             /\ read[h].body = BodyOf(paras, h)
  BY <1>1, <1>2, ReadingKeepsDigits
<1> QED
  BY <1>3, <1>4, <1>5

\* A label is put together of its parts.
LEMMA LabelParts ==
    ASSUME NEW label \in LabelForms
    PROVE  /\ label.num \in Seq(Nat) /\ label.sup \in Seq(Nat) /\ label.letter \in STRING
           /\ label = Label(label.num, label.sup, label.letter)
BY DEF LabelForms, Label

\* A label without a superscript is as it reads,
LEMMA PlainIsFlat ==
    ASSUME NEW label \in LabelForms, label.sup = <<>>
    PROVE  Flat(label) = label /\ Cut(label) = label
<1>1. PICK num, blank, letter : num = label.num /\ blank = label.sup /\ letter = label.letter
  OBVIOUS
<1>2. num \in Seq(Nat) /\ label = [num |-> num, sup |-> blank, letter |-> letter]
  BY <1>1, LabelParts DEF Label
<1>3. num \o <<>> = num
  BY <1>2
<1>4. Flat(label) = label
  <2>1. Flat(label) = [num |-> num \o blank, sup |-> <<>>, letter |-> letter]
    BY <1>1 DEF Flat, Label
  <2>2. num \o blank = num /\ <<>> = blank
    BY <1>1, <1>3
  <2> QED
    BY <1>2, <2>1, <2>2, Zenon
<1>5. Cut(label) = label
  <2>1. Cut(label) = [label EXCEPT !.sup = blank]
    BY <1>1 DEF Cut
  <2>2. [label EXCEPT !.sup = blank] = label
    BY <1>2
  <2> QED
    BY <2>1, <2>2
<1> QED
  BY <1>4, <1>5

\* and only one without parts reads as none.
LEMMA OnlyNoneReadsAsNone ==
    /\ Cut(NoLabel) = NoLabel
    /\ \A label \in LabelForms : Flat(label) = NoLabel => label = NoLabel
<1>1. PICK blank : blank = <<>>
  OBVIOUS
<1>2. blank \in Seq(Nat) /\ Len(blank) = 0
  BY <1>1
<1>3. NoLabel = [num |-> blank, sup |-> blank, letter |-> ""]
  BY <1>1 DEF NoLabel, Label
<1>4. Cut(NoLabel) = NoLabel
  <2>1. PICK letter : letter = ""
    OBVIOUS
  <2>2. PICK none : none = [num |-> blank, sup |-> blank, letter |-> letter]
    OBVIOUS
  <2>3. NoLabel = none
    BY <1>3, <2>1, <2>2
  <2>4. [none EXCEPT !.sup = blank] = none
    BY <2>2
  <2> QED
    BY <1>1, <2>3, <2>4 DEF Cut
<1>5. ASSUME NEW label \in LabelForms, Flat(label) = NoLabel
      PROVE  label = NoLabel
  <2>1. PICK num, sup, letter : num = label.num /\ sup = label.sup /\ letter = label.letter
    OBVIOUS
  <2>2. num \in Seq(Nat) /\ sup \in Seq(Nat) /\ label = [num |-> num, sup |-> sup, letter |-> letter]
    BY <2>1, LabelParts DEF Label
  <2>3. Flat(label) = [num |-> num \o sup, sup |-> blank, letter |-> letter]
    BY <1>1, <2>1 DEF Flat, Label
  <2>4. num \o sup = blank /\ letter = ""
    <3>1. PICK joined : joined = num \o sup
      OBVIOUS
    <3>2. [num |-> joined, sup |-> blank, letter |-> letter]
             = [num |-> blank, sup |-> blank, letter |-> ""]
      BY <1>3, <1>5, <2>3, <3>1
    <3> QED
      BY <3>1, <3>2
  <2>5. Len(num \o sup) = Len(num) + Len(sup) /\ Len(num) \in Nat /\ Len(sup) \in Nat
    BY <2>2
  <2>6. Len(num) = 0 /\ Len(sup) = 0
    <3>1. Len(num \o sup) = 0
      BY <1>2, <2>4
    <3> QED
      BY <2>5, <3>1
  <2>7. num = blank /\ sup = blank
    BY <1>1, <2>2, <2>6
  <2> QED
    BY <1>3, <2>2, <2>4, <2>7
<1> QED
  BY <1>4, <1>5

\* A label that is true of all the law a chunk was named for.
TrueLabel(id, label) ==
    /\ label \in Labels
    /\ \A p \in Range(id.text.paras) : label \in LabelsOf[id.act][p]

\* What its paragraphs can be labelled with.
LEMMA LabelsAreOf ==
    ASSUME NEW act \in Acts, NEW p \in Range(Source[act])
    PROVE  LabelsOf[act][p] =
               PrintedOver(act, p) \cup {o.label : o \in {o \in Articles[act] : p \in o.body}}
BY DEF LabelsOf

\* The articles of an act are read in its text.
LEMMA ArticlesAreRead ==
    ASSUME NEW act \in Acts
    PROVE  Source[act] \in Paras /\ Articles[act] = Occurrences(Source[act])
BY SourceIsText DEF Paras, Articles

\* A plain label that a paragraph has printed over it, with or without its
\* superscript, is the reading of an article that the paragraph is in, or the
\* base of an article with a superscript.
LEMMA PrintedIsRead ==
    ASSUME NEW act \in Acts, NEW p \in Range(Source[act]), NEW label \in PrintedOver(act, p),
           label # NoLabel, label.sup = <<>>
    PROVE  \/ \E o \in Articles[act] : Flat(o.label) = label /\ p \in o.body
           \/ \E h \in Heads(Source[act]) :
                 Header[Source[act][h]].sup # <<>> /\ Cut(Header[Source[act][h]]) = label
<1>1. PICK paras : paras = Source[act]
  OBVIOUS
<1>2. paras \in Paras /\ Articles[act] = Occurrences(paras)
  BY <1>1, ArticlesAreRead
<1>3. PICK i \in DOMAIN paras :
         /\ paras[i] = p
         /\ label = LabelAt(paras, i) \/ label = Cut(LabelAt(paras, i))
  BY <1>1 DEF PrintedOver
<1>4. Cut(NoLabel) = NoLabel
  BY OnlyNoneReadsAsNone
<1>5. PICK h \in Heads(paras) :
         LabelAt(paras, i) = Header[paras[h]] /\ h <= i /\ h = HeadAt(paras, i)
  BY <1>2, <1>3, <1>4, LabelAtIs
<1>6. PICK head : head = Header[paras[h]]
  OBVIOUS
<1>7. head \in LabelForms
  BY <1>2, <1>6, HeadersAreRead
<1>8. CASE head.sup # <<>>
  <2>1. label = Cut(head)
    BY <1>3, <1>5, <1>6, <1>8
  <2> QED
    BY <1>1, <1>6, <1>8, <2>1
<1>9. CASE head.sup = <<>>
  <2>1. Cut(head) = head /\ Flat(head) = head
    BY <1>7, <1>9, PlainIsFlat
  <2>2. label = head
    BY <1>3, <1>5, <1>6, <2>1
  <2>4. PICK o \in Occurrences(paras) : o.body = BodyOf(paras, h) /\ Flat(o.label) = Flat(head)
    BY <1>2, <1>6, ArticlesHaveHeaders
  <2>5. p \in BodyOf(paras, h)
    BY <1>3, <1>5 DEF BodyOf
  <2> QED
    BY <1>2, <2>1, <2>2, <2>4, <2>5
<1> QED
  BY <1>8, <1>9

\* The label that fix_superscript_labels settles on is true of the whole chunk.
LEMMA SettledIsTrue ==
    ASSUME NEW id, IsChunkOf(id.act, id.text),
           NEW doc, doc.text.paras = id.text.paras, TrueLabel(id, doc.article),
           NEW labels, labels = Candidates(id.act, doc), Cardinality(labels) = 1,
           doc.article \notin labels, NEW label \in labels
    PROVE  TrueLabel(id, label)
<1>1. PICK act : act = id.act
  OBVIOUS
<1>2. PICK article : article = doc.article
  OBVIOUS
<1>3. /\ act \in Acts /\ id.text.paras \in Seq(Range(Source[act]))
      /\ Substance(id.text) => \A o \in Articles[act] :
             id.text.paras[1] \in o.body => Range(id.text.paras) \subseteq o.body
  BY <1>1 DEF IsChunkOf
<1>4. \A p \in Range(id.text.paras) : p \in Range(Source[act])
  BY <1>3 DEF Range
<1>5. PICK options : options = {o \in Articles[act] : Flat(o.label) = article}
  OBVIOUS
<1>6. PICK all : all = {o.label : o \in options}
  OBVIOUS
<1>7. labels = IF Cardinality(all) <= 1 THEN all
               ELSE {o.label : o \in {o \in options : FoundIn(doc.text, o.body)}}
  BY <1>1, <1>2, <1>5, <1>6 DEF Candidates
<1>8. PICK o \in options : o.label = label
  BY <1>6, <1>7
<1>9. o \in Articles[act] /\ Flat(label) = article
  BY <1>5, <1>8
<1>10. label \in Labels
  BY <1>3, <1>8, <1>9 DEF Labels
<1>11. CASE ~(Cardinality(all) <= 1)
  <2>1. PICK found \in options : found.label = label /\ FoundIn(doc.text, found.body)
    BY <1>7, <1>11
  <2>2. Range(id.text.paras) \subseteq found.body /\ found \in Articles[act]
    BY <1>3, <1>5, <2>1 DEF FoundIn, Substance
  <2>3. ASSUME NEW p \in Range(id.text.paras)
        PROVE  label \in LabelsOf[act][p]
    BY <1>3, <1>4, <2>1, <2>2, <2>3, LabelsAreOf
  <2> QED
    BY <1>1, <1>10, <2>3 DEF TrueLabel
<1>12. CASE Cardinality(all) <= 1
  <2>1. labels = all
    BY <1>7, <1>12
  <2>2. PICK paras : paras = Source[act]
    OBVIOUS
  <2>3. paras \in Paras /\ Articles[act] = Occurrences(paras)
    BY <1>3, <2>2, ArticlesAreRead
  <2>4. IsFiniteSet(all)
    <3>1. IsFiniteSet(options)
      BY <1>5, <2>3, ArticlesHaveHeaders, FS_Subset
    <3>2. PICK f : f = [x \in options |-> x.label]
      OBVIOUS
    <3>3. IsFiniteSet({f[x] : x \in options})
      BY <3>1, <3>2, ListedIsFinite
    <3>4. all = {f[x] : x \in options}
      BY <1>6, <3>2
    <3> QED
      BY <3>3, <3>4
  <2>5. \A x \in options : x.label = label
    <3>1. PICK only : all = {only}
      BY <2>1, <2>4, FS_Singleton
    <3> QED
      BY <1>6, <1>8, <3>1
  <2>6. label \in LabelForms /\ \E h \in Heads(paras) : Flat(label) = Flat(Header[paras[h]])
    BY <1>8, <1>9, <2>3, ArticlesHaveHeaders
  <2>7. article.sup = <<>> /\ article # NoLabel
    <3>1. PICK h \in Heads(paras) : article = Flat(Header[paras[h]])
      BY <1>9, <2>6
    <3>2. PICK head : head = Header[paras[h]]
      OBVIOUS
    <3>3. head \in LabelForms /\ head # NoLabel
      BY <2>3, <3>2, HeadersAreRead DEF Heads
    <3>4. article.sup = <<>>
      BY <3>1, <3>2 DEF Flat, Label
    <3> QED
      BY <3>1, <3>2, <3>3, <3>4, OnlyNoneReadsAsNone
  <2>8. ASSUME NEW x \in Articles[act], x.label = article
        PROVE  FALSE
    <3>1. article \in LabelForms
      BY <2>3, <2>8, ArticlesHaveHeaders
    <3>2. Flat(article) = article
      BY <2>7, <3>1, PlainIsFlat
    <3>3. x \in options
      BY <1>5, <2>8, <3>2
    <3> QED
      BY <1>2, <1>6, <2>1, <2>8, <3>3
  <2>9. ASSUME NEW p \in Range(id.text.paras)
        PROVE  label \in LabelsOf[act][p]
    <3>1. p \in Range(Source[act]) /\ article \in LabelsOf[act][p]
      BY <1>1, <1>2, <1>4, <2>9 DEF TrueLabel
    <3>2. article \in PrintedOver(act, p)
      BY <1>3, <2>8, <3>1, LabelsAreOf
    <3>3. CASE \E x \in Articles[act] : Flat(x.label) = article /\ p \in x.body
      <4>1. PICK x \in Articles[act] : Flat(x.label) = article /\ p \in x.body
        BY <3>3
      <4>2. x.label = label
        BY <1>5, <2>5, <4>1
      <4> QED
        BY <1>3, <3>1, <4>1, <4>2, LabelsAreOf
    <3>4. CASE \E h \in Heads(Source[act]) :
                  Header[Source[act][h]].sup # <<>> /\ Cut(Header[Source[act][h]]) = article
      <4>1. \E x \in Articles[act] : Flat(x.label) = article
        BY <1>8, <1>9
      <4>2. \E x \in Articles[act] : x.label = article
        BY <1>3, <3>4, <4>1, BasesAreClear
      <4> QED
        BY <2>8, <4>2
    <3> QED
      BY <1>3, <2>7, <3>1, <3>2, <3>3, <3>4, PrintedIsRead
  <2> QED
    BY <1>1, <1>10, <2>9 DEF TrueLabel
<1> QED
  BY <1>11, <1>12

-----------------------------------------------------------------------------
(* Texts joined *)

\* The texts of seqs one behind the other, up to the k-th.
Joining(seqs, k, f) == f = [i \in 1..k |-> IF i = 1 THEN seqs[i] ELSE f[i - 1] \o seqs[i]]

\* They can be joined one by one,
LEMMA JoiningGoesThrough ==
    ASSUME NEW n \in Nat, NEW seqs
    PROVE  \E f : Joining(seqs, n, f)
<1>1. PICK S : S = {k \in 0..n : \E f : Joining(seqs, k, f)}
  OBVIOUS
<1>2. 0 \in S
  <2>1. PICK f : f = [i \in 1..0 |-> seqs[i]]
    OBVIOUS
  <2>2. f = [i \in 1..0 |-> IF i = 1 THEN seqs[i] ELSE f[i - 1] \o seqs[i]]
    BY <2>1
  <2>3. Joining(seqs, 0, f)
    BY <2>2 DEF Joining
  <2> QED
    BY <1>1, <2>3
<1>3. ASSUME NEW k \in 0..n, k \in S, k < n
      PROVE  k + 1 \in S
  <2>1. PICK f : Joining(seqs, k, f)
    BY <1>1, <1>3
  <2>2. PICK next : next = IF k + 1 = 1 THEN seqs[k + 1] ELSE f[k] \o seqs[k + 1]
    OBVIOUS
  <2>3. PICK g : g = [i \in 1..(k + 1) |-> IF i = k + 1 THEN next ELSE f[i]]
    OBVIOUS
  <2>4. ASSUME NEW i \in 1..(k + 1)
        PROVE  g[i] = IF i = 1 THEN seqs[i] ELSE g[i - 1] \o seqs[i]
    <3>1. CASE i = k + 1
      <4>1. g[i] = next /\ (i # 1 => i - 1 = k /\ g[k] = f[k])
        BY <2>3, <3>1
      <4> QED
        BY <2>2, <3>1, <4>1
    <3>2. CASE i # k + 1
      <4>1. i \in 1..k /\ g[i] = f[i] /\ (i # 1 => g[i - 1] = f[i - 1])
        BY <2>3, <3>2
      <4>2. f[i] = IF i = 1 THEN seqs[i] ELSE f[i - 1] \o seqs[i]
        BY <2>1, <4>1 DEF Joining
      <4> QED
        BY <4>1, <4>2
    <3> QED
      BY <3>1, <3>2
  <2>5. DOMAIN g = 1..(k + 1) /\ g = [i \in DOMAIN g |-> g[i]]
    BY <2>3
  <2>6. Joining(seqs, k + 1, g)
    BY <2>4, <2>5 DEF Joining
  <2>7. k + 1 \in 0..n
    BY <1>3
  <2> QED
    BY <1>1, <2>6, <2>7
<1>4. \A k \in 0..n : k \in S
  BY <1>2, <1>3, StepByStep
<1> QED
  BY <1>1, <1>4

\* and that is how the whole is made.
LEMMA FlattenedIsJoined ==
    ASSUME NEW seqs, Len(seqs) \in Nat, Len(seqs) # 0
    PROVE  \E f : Joining(seqs, Len(seqs), f) /\ FlattenSeq(seqs) = f[Len(seqs)]
<1> DEFINE Solves(f) == f = [i \in 1..Len(seqs) |-> IF i = 1 THEN seqs[i] ELSE f[i - 1] \o seqs[i]]
<1>1. \E f : Solves(f)
  BY JoiningGoesThrough, Zenon DEF Joining
<1>2. Solves(CHOOSE f : Solves(f))
  <2> HIDE DEF Solves
  <2> QED
    BY <1>1
<1>3. Joining(seqs, Len(seqs), CHOOSE f : Solves(f))
  BY <1>2, Zenon DEF Joining
<1>4. FlattenSeq(seqs) = (CHOOSE f : Solves(f))[Len(seqs)]
  BY Zenon DEF FlattenSeq
<1> QED
  BY <1>3, <1>4, Zenon

\* off[k] places come with the first k texts.
Offsets(seqs, n, off) ==
    /\ off \in [0..n -> Nat] /\ off[0] = 0
    /\ \A k \in 1..n : off[k] = off[k - 1] + Len(seqs[k])

Grow(n, off) == \A a, b \in 0..n : a <= b => off[a] <= off[b]

\* Every place of the whole belongs to a text.
Covered(seqs, n, off) ==
    \A m \in 1..off[n] : \E k \in 1..n : \E j \in 1..Len(seqs[k]) : m = off[k - 1] + j

\* Every text is found in the whole, at its offset.
Placed(seqs, n, off, whole) ==
    \A k \in 1..n : \A j \in 1..Len(seqs[k]) :
        off[k - 1] + j \in 1..off[n] /\ whole[off[k - 1] + j] = seqs[k][j]

\* Offsets grow, and each place belongs to a text.
LEMMA OffsetsGrow ==
    ASSUME NEW T, NEW n \in Nat, NEW seqs \in [1..n -> Seq(T)], NEW off, Offsets(seqs, n, off)
    PROVE  Grow(n, off) /\ Covered(seqs, n, off)
<1>1. /\ \A k \in 0..n : off[k] \in Nat
      /\ off[0] = 0
      /\ \A k \in 1..n : off[k] = off[k - 1] + Len(seqs[k]) /\ Len(seqs[k]) \in Nat
  BY DEF Offsets
<1>2. ASSUME NEW a \in 0..n
      PROVE  \A b \in 0..n : a <= b => off[a] <= off[b]
  <2>1. PICK S : S = {b \in 0..n : a <= b => off[a] <= off[b]}
    OBVIOUS
  <2>2. 0 \in S
    BY <1>1, <2>1
  <2>3. ASSUME NEW b \in 0..n, b \in S, b < n
        PROVE  b + 1 \in S
    <3>1. b + 1 \in 1..n /\ b + 1 \in 0..n /\ (b + 1) - 1 = b
      BY <2>3
    <3>2. off[b + 1] = off[b] + Len(seqs[b + 1]) /\ Len(seqs[b + 1]) \in Nat
      BY <1>1, <3>1
    <3>3. off[a] \in Nat /\ off[b] \in Nat /\ off[b] <= off[b + 1]
      BY <1>1, <3>2
    <3>4. CASE a = b + 1
      BY <2>1, <3>1, <3>3, <3>4
    <3>5. CASE a # b + 1
      BY <2>1, <2>3, <3>1, <3>2, <3>3, <3>5
    <3> QED
      BY <3>4, <3>5
  <2>4. \A b \in 0..n : b \in S
    BY <2>2, <2>3, StepByStep
  <2> QED
    BY <2>1, <2>4
<1>3. ASSUME NEW m \in 1..off[n]
      PROVE  \E k \in 1..n : \E j \in 1..Len(seqs[k]) : m = off[k - 1] + j
  <2>1. PICK S : S = {k \in 0..n : m <= off[k]}
    OBVIOUS
  <2>2. n \in S /\ S \subseteq Nat /\ m \in Nat
    BY <1>1, <2>1
  <2>3. PICK k \in S : \A i \in S : k <= i
    BY <2>2, SomeIsLeast
  <2>4. k \in 1..n /\ k - 1 \in 0..n /\ ~(m <= off[k - 1])
    BY <1>1, <2>1, <2>3
  <2>5. off[k] = off[k - 1] + Len(seqs[k]) /\ off[k - 1] \in Nat /\ Len(seqs[k]) \in Nat /\ m <= off[k]
    BY <1>1, <2>1, <2>4
  <2>6. m - off[k - 1] \in 1..Len(seqs[k]) /\ m = off[k - 1] + (m - off[k - 1])
    BY <2>2, <2>4, <2>5
  <2> QED
    BY <2>4, <2>6
<1> QED
  BY <1>2, <1>3 DEF Grow, Covered

\* The offsets of a joining are the lengths it goes through.
Lengths(f, n, off) == off = [k \in 0..n |-> IF k = 0 THEN 0 ELSE Len(f[k])]

\* One more text is put behind the others and moves none of them.
LEMMA OneMoreIsJoined ==
    ASSUME NEW T, NEW s \in Seq(T), NEW t \in Seq(T)
    PROVE  /\ s \o t \in Seq(T) /\ Len(s \o t) = Len(s) + Len(t)
           /\ \A m \in 1..Len(s) : (s \o t)[m] = s[m]
           /\ \A j \in 1..Len(t) : (s \o t)[Len(s) + j] = t[j]
OBVIOUS

\* Joined, every text is found at its offset.
LEMMA TextsAreJoined ==
    ASSUME NEW T, NEW n \in Nat, NEW seqs \in [1..n -> Seq(T)], NEW f, Joining(seqs, n, f),
           NEW off, Lengths(f, n, off)
    PROVE  /\ Offsets(seqs, n, off)
           /\ \A k \in 1..n : f[k] \in Seq(T) /\ Len(f[k]) = off[k] /\ Placed(seqs, k, off, f[k])
<1>1. \A k \in 1..n : f[k] = IF k = 1 THEN seqs[k] ELSE f[k - 1] \o seqs[k]
  BY DEF Joining
<1>2. \A k \in 1..n : seqs[k] \in Seq(T) /\ Len(seqs[k]) \in Nat
  OBVIOUS
<1>3. off[0] = 0 /\ \A k \in 1..n : off[k] = Len(f[k])
  BY DEF Lengths
<1> DEFINE Found(k) == \A i \in 1..k : \A j \in 1..Len(seqs[i]) :
               off[i - 1] + j \in 1..off[k] /\ f[k][off[i - 1] + j] = seqs[i][j]
           Right(k) ==
               /\ f[k] \in Seq(T) /\ off[k] \in Nat
               /\ off[k - 1] \in Nat /\ off[k] = off[k - 1] + Len(seqs[k])
               /\ Found(k)
<1>4. PICK S : S = {k \in 0..n : k # 0 => Right(k)}
  OBVIOUS
<1>5. 0 \in S
  BY <1>4
<1>6. ASSUME NEW k \in 0..n, k \in S, k < n
      PROVE  k + 1 \in S
  <2>1. PICK p : p = k + 1
    OBVIOUS
  <2>2. p \in 1..n /\ p \in 0..n /\ p - 1 = k /\ p # 0
    BY <1>6, <2>1
  <2>3. seqs[p] \in Seq(T) /\ Len(seqs[p]) \in Nat /\ off[p] = Len(f[p])
    BY <1>2, <1>3, <2>2
  <2>4. CASE k = 0
    <3>1. p = 1 /\ f[p] = seqs[p] /\ off[p - 1] = 0
      BY <1>1, <1>3, <2>1, <2>2, <2>4
    <3>2. \A i \in 1..p : i = p /\ off[i - 1] = 0
      BY <3>1
    <3>3. Found(p)
      BY <2>3, <3>1, <3>2
    <3>4. Right(p)
      BY <2>3, <3>1, <3>3
    <3> QED
      BY <1>4, <2>1, <2>2, <3>4
  <2>5. CASE k # 0
    <3>1. f[k] \in Seq(T) /\ off[k] \in Nat /\ Found(k)
      BY <1>4, <1>6, <2>5
    <3>2. k \in 1..n /\ p # 1
      BY <2>1, <2>2, <2>5
    <3>3. off[k] = Len(f[k])
      BY <1>3, <3>2
    <3>4. f[p] = f[k] \o seqs[p]
      BY <1>1, <2>2, <3>2
    <3>5. PICK s, t : s = f[k] /\ t = seqs[p]
      OBVIOUS
    <3>6. s \in Seq(T) /\ t \in Seq(T) /\ f[p] = s \o t /\ Len(s) \in Nat /\ Len(t) \in Nat
      BY <2>3, <3>1, <3>4, <3>5
    <3>7. /\ f[p] \in Seq(T) /\ off[p] = off[k] + Len(t)
          /\ \A m \in 1..off[k] : f[p][m] = s[m]
          /\ \A j \in 1..Len(t) : f[p][off[k] + j] = t[j]
      <4>1. /\ s \o t \in Seq(T) /\ Len(s \o t) = Len(s) + Len(t)
            /\ \A m \in 1..Len(s) : (s \o t)[m] = s[m]
            /\ \A j \in 1..Len(t) : (s \o t)[Len(s) + j] = t[j]
        BY <3>6, OneMoreIsJoined
      <4>2. PICK joined : joined = s \o t
        OBVIOUS
      <4>3. f[p] = joined /\ off[k] = Len(s) /\ off[p] = Len(joined)
        BY <2>3, <3>3, <3>5, <3>6, <4>2
      <4> QED
        BY <4>1, <4>2, <4>3
    <3>8. ASSUME NEW i \in 1..p, NEW j \in 1..Len(seqs[i])
          PROVE  off[i - 1] + j \in 1..off[p] /\ f[p][off[i - 1] + j] = seqs[i][j]
      <4>1. CASE i = p
        <5>1. i - 1 = k /\ j \in 1..Len(t) /\ seqs[i] = t
          BY <2>2, <3>5, <3>8, <4>1
        <5>2. PICK a, b, l : a = off[k] /\ b = off[p] /\ l = Len(t)
          OBVIOUS
        <5>3. a \in Nat /\ l \in Nat /\ j \in 1..l /\ b = a + l
          BY <3>1, <3>6, <3>7, <5>1, <5>2
        <5>4. a + j \in 1..b
          BY <5>3
        <5>5. f[p][off[k] + j] = t[j]
          BY <3>7, <5>1
        <5> QED
          BY <5>1, <5>2, <5>4, <5>5
      <4>2. CASE i # p
        <5>1. i \in 1..k
          BY <2>1, <4>2
        <5>2. off[i - 1] + j \in 1..off[k] /\ s[off[i - 1] + j] = seqs[i][j]
          BY <3>1, <3>5, <3>8, <5>1
        <5>3. off[k] <= off[p] /\ off[p] \in Nat /\ off[k] \in Nat
          BY <3>1, <3>6, <3>7
        <5>4. PICK a, b, o : a = off[k] /\ b = off[p] /\ o = off[i - 1] + j
          OBVIOUS
        <5>5. o \in 1..a /\ a \in Nat /\ b \in Nat /\ a <= b
          BY <5>2, <5>3, <5>4
        <5>6. o \in 1..b
          BY <5>5
        <5>7. f[p][o] = s[o]
          BY <3>7, <5>4, <5>5
        <5> QED
          BY <5>2, <5>4, <5>6, <5>7
      <4> QED
        BY <4>1, <4>2
    <3>9. off[p] \in Nat /\ off[p - 1] \in Nat /\ off[p] = off[p - 1] + Len(seqs[p])
      BY <2>2, <3>1, <3>5, <3>6, <3>7
    <3>10. Right(p)
      BY <3>7, <3>8, <3>9
    <3> QED
      BY <1>4, <2>1, <2>2, <3>10
  <2> QED
    BY <2>4, <2>5
<1>7. \A k \in 0..n : k \in S
  <2> HIDE DEF Right
  <2> QED
    BY <1>5, <1>6, StepByStep
<1>8. ASSUME NEW k \in 1..n
      PROVE  Right(k) /\ k \in 0..n /\ k # 0
  <2> HIDE DEF Right
  <2> QED
    BY <1>4, <1>7
<1>9. \A k \in 0..n : off[k] \in Nat
  <2>1. SUFFICES ASSUME NEW k \in 0..n PROVE off[k] \in Nat
    OBVIOUS
  <2>2. CASE k = 0
    BY <1>3, <2>2
  <2>3. CASE k # 0
    <3>1. k \in 1..n
      BY <2>3
    <3> QED
      BY <1>8, <3>1
  <2> QED
    BY <2>2, <2>3
<1>10. off = [k \in 0..n |-> off[k]]
  BY DEF Lengths
<1>11. off \in [0..n -> Nat]
  BY <1>9, <1>10
<1>12. Offsets(seqs, n, off)
  BY <1>3, <1>8, <1>11 DEF Offsets
<1>13. \A k \in 1..n : f[k] \in Seq(T) /\ Len(f[k]) = off[k] /\ Placed(seqs, k, off, f[k])
  BY <1>3, <1>8 DEF Placed
<1> QED
  BY <1>12, <1>13

\* The texts of seqs are one whole, each behind the other.
Joined(seqs, n, off, whole) ==
    /\ whole \in Paras /\ off \in [0..n -> Nat] /\ off[n] = Len(whole)
    /\ Grow(n, off) /\ Covered(seqs, n, off) /\ Placed(seqs, n, off, whole)
    /\ \A k \in 1..n : off[k] = off[k - 1] + Len(seqs[k])

LEMMA FlattenedIsWhole ==
    ASSUME NEW n \in Nat, NEW seqs \in [1..n -> Paras]
    PROVE  \E off : Joined(seqs, n, off, FlattenSeq(seqs))
<1>1. PICK whole : whole = FlattenSeq(seqs)
  OBVIOUS
<1>2. Len(seqs) = n /\ seqs \in Seq(Paras)
  OBVIOUS
<1>3. CASE n = 0
  <2>1. whole = seqs
    BY <1>1, <1>2, <1>3 DEF FlattenSeq
  <2>2. whole = <<>> /\ Len(whole) = 0 /\ whole \in Paras
    BY <1>2, <1>3, <2>1 DEF Paras
  <2>3. PICK off : off = [k \in 0..0 |-> 0]
    OBVIOUS
  <2>4. Joined(seqs, n, off, whole)
    BY <1>3, <2>2, <2>3 DEF Joined, Grow, Covered, Placed
  <2> QED
    BY <1>1, <2>4
<1>4. CASE n # 0
  <2>1. PICK f : Joining(seqs, n, f) /\ whole = f[n]
    BY <1>1, <1>2, <1>4, FlattenedIsJoined
  <2>2. PICK off : Lengths(f, n, off)
    BY DEF Lengths
  <2>3. PICK T : T = DOMAIN Header
    OBVIOUS
  <2>4. seqs \in [1..n -> Seq(T)]
    BY <2>3 DEF Paras
  <2>5. /\ Offsets(seqs, n, off)
        /\ \A k \in 1..n : f[k] \in Seq(T) /\ Len(f[k]) = off[k] /\ Placed(seqs, k, off, f[k])
    BY <2>1, <2>2, <2>4, TextsAreJoined
  <2>6. Grow(n, off) /\ Covered(seqs, n, off)
    BY <2>4, <2>5, OffsetsGrow
  <2>7. n \in 1..n
    BY <1>4
  <2>8. whole \in Paras /\ Len(whole) = off[n] /\ Placed(seqs, n, off, whole)
    BY <2>1, <2>3, <2>5, <2>7 DEF Paras
  <2>9. off \in [0..n -> Nat] /\ \A k \in 1..n : off[k] = off[k - 1] + Len(seqs[k])
    BY <2>5 DEF Offsets
  <2>10. Joined(seqs, n, off, whole)
    BY <2>6, <2>8, <2>9 DEF Joined
  <2> QED
    BY <1>1, <2>10
<1> QED
  BY <1>3, <1>4

-----------------------------------------------------------------------------
(* What the chunker makes of a text *)

\* Places that become chunks.
Chunked(paras, i) == Heads(paras) = {} \/ \E h \in Heads(paras) : h <= i

LEMMA RawChunksAre ==
    ASSUME NEW paras \in Paras
    PROVE  /\ IsFiniteSet(RawChunks(paras))
           /\ \A raw \in RawChunks(paras) : \E i \in DOMAIN paras :
                 /\ raw.article = LabelAt(paras, i) /\ raw.text = Plain(<<paras[i]>>)
                 /\ Chunked(paras, i)
           /\ \A i \in DOMAIN paras : Chunked(paras, i) => \E raw \in RawChunks(paras) :
                 raw.article = LabelAt(paras, i) /\ raw.text = Plain(<<paras[i]>>)
<1>1. PICK kept : kept = IF Heads(paras) = {} THEN DOMAIN paras
                         ELSE {i \in DOMAIN paras : \E h \in Heads(paras) : h <= i}
  OBVIOUS
<1>2. PICK place : place = [i \in kept |-> Cardinality({j \in kept : j < i})]
  OBVIOUS
<1>3. PICK f : f = [i \in kept |-> [article |-> LabelAt(paras, i), position |-> place[i],
                                    text |-> Plain(<<paras[i]>>)]]
  OBVIOUS
<1>4. RawChunks(paras) = {[article |-> LabelAt(paras, i),
                           position |-> Cardinality({j \in kept : j < i}),
                           text |-> Plain(<<paras[i]>>)] : i \in kept}
  BY <1>1, Zenon DEF RawChunks
<1>5. RawChunks(paras) = {f[i] : i \in kept}
  BY <1>2, <1>3, <1>4
<1>6. kept \subseteq DOMAIN paras /\ \A i \in DOMAIN paras : i \in kept <=> Chunked(paras, i)
  BY <1>1 DEF Chunked
<1>7. IsFiniteSet(RawChunks(paras))
  <2>1. IsFiniteSet(1..Len(paras)) /\ DOMAIN paras = 1..Len(paras)
    BY HeadersAreRead, FS_Interval
  <2>2. IsFiniteSet(kept)
    BY <1>6, <2>1, FS_Subset
  <2>3. DOMAIN f = kept
    BY <1>3
  <2>4. IsFiniteSet({f[i] : i \in kept})
    BY <2>2, <2>3, ListedIsFinite
  <2> QED
    BY <1>5, <2>4
<1>8. \A i \in kept : f[i].article = LabelAt(paras, i) /\ f[i].text = Plain(<<paras[i]>>)
  BY <1>3
<1> QED
  BY <1>5, <1>6, <1>7, <1>8

\* A single paragraph of an act is a chunk of it.
LEMMA ParagraphsAreChunks ==
    ASSUME NEW act \in Acts, NEW p \in Range(Source[act]), NEW text, text = Plain(<<p>>)
    PROVE  /\ IsChunkOf(act, text) /\ ~Junk(text) /\ text.mark \in Marks
           /\ Range(text.paras) = {p} /\ text.paras = <<p>>
<1>1. PICK paras : paras = <<p>>
  OBVIOUS
<1>2. text.paras = paras /\ text.mark = "none"
  BY <1>1 DEF Plain, Text
<1>3. paras \in Seq(Range(Source[act])) /\ DOMAIN paras = {1} /\ paras[1] = p
  BY <1>1
<1>4. Range(paras) = {p} /\ Heads(paras) \subseteq {1}
  BY <1>3 DEF Range, Heads
<1> QED
  BY <1>1, <1>2, <1>3, <1>4 DEF IsChunkOf, Marks, Junk

\* A document as it may stand in an index: its law is that of its id, which is
\* law of one act, and its label is true of it.
Filed(id, doc) ==
    /\ doc = Doc(doc.article, doc.text)
    /\ doc.text.paras = id.text.paras
    /\ doc.text.mark \in Marks
    /\ IsChunkOf(id.act, id.text)
    /\ TrueLabel(id, doc.article)

Intact(store) ==
    /\ IsFiniteSet(DOMAIN store)
    /\ \A id \in DOMAIN store : Filed(id, store[id])

\* Documents as any writer makes them: intact and without page furniture.
Fresh(chunks) == Intact(chunks) /\ \A id \in DOMAIN chunks : ~Junk(chunks[id].text)

\* Chunks built from paragraphs, each under a label it can have, are fresh.
LEMMA BuiltIsFresh ==
    ASSUME NEW act, NEW raws, IsFiniteSet(raws),
           \A raw \in raws : \E p \in Range(Source[act]) :
               /\ act \in Acts /\ raw.text = Plain(<<p>>)
               /\ raw.article \in Labels /\ raw.article \in LabelsOf[act][p]
    PROVE  /\ Fresh(Build(raws, act))
           /\ \A id \in DOMAIN Build(raws, act) : id.act = act
           /\ \A raw \in raws : ChunkId(act, raw) \in DOMAIN Build(raws, act)
<1>1. PICK named : named = [raw \in raws |-> ChunkId(act, raw)]
  OBVIOUS
<1>2. PICK ids : ids = {named[raw] : raw \in raws}
  OBVIOUS
<1>3. PICK chunks : chunks = Build(raws, act)
  OBVIOUS
<1>4. chunks = [id \in ids |-> Doc(id.article, id.text)]
  BY <1>1, <1>2, <1>3 DEF Build
<1>5. IsFiniteSet(ids)
  BY <1>1, <1>2, ListedIsFinite
<1>6. ASSUME NEW id \in ids
      PROVE  id.act = act /\ Filed(id, chunks[id]) /\ ~Junk(chunks[id].text)
  <2>1. PICK raw \in raws : id = ChunkId(act, raw)
    BY <1>1, <1>2
  <2>2. id.text = raw.text /\ id.article = raw.article /\ id.act = act
    BY <2>1 DEF ChunkId
  <2>3. PICK p \in Range(Source[act]) :
           /\ act \in Acts /\ id.text = Plain(<<p>>)
           /\ id.article \in Labels /\ id.article \in LabelsOf[act][p]
    BY <2>2
  <2>4. PICK doc : doc = chunks[id]
    OBVIOUS
  <2>5. doc = Doc(id.article, id.text)
    BY <1>4, <2>4
  <2>6. doc.article = id.article /\ doc.text = id.text
    BY <2>5 DEF Doc
  <2>7. /\ IsChunkOf(act, id.text) /\ ~Junk(id.text) /\ id.text.mark \in Marks
        /\ Range(id.text.paras) = {p}
    BY <2>3, ParagraphsAreChunks
  <2>8. TrueLabel(id, id.article)
    BY <2>2, <2>3, <2>7 DEF TrueLabel
  <2> QED
    BY <2>2, <2>4, <2>5, <2>6, <2>7, <2>8 DEF Filed
<1>7. DOMAIN chunks = ids
  BY <1>4
<1> QED
  BY <1>1, <1>2, <1>3, <1>5, <1>6, <1>7 DEF Fresh, Intact

\* The paragraphs of an act have the labels the chunker gives them.
LEMMA LabelAtIsTrue ==
    ASSUME NEW act \in Acts, NEW i \in DOMAIN Source[act], Chunked(Source[act], i)
    PROVE  /\ Source[act][i] \in Range(Source[act])
           /\ LabelAt(Source[act], i) \in LabelsOf[act][Source[act][i]]
           /\ LabelAt(Source[act], i) \in Labels
<1>1. PICK paras : paras = Source[act]
  OBVIOUS
<1>2. PICK p : p = paras[i]
  OBVIOUS
<1>3. PICK label : label = LabelAt(paras, i)
  OBVIOUS
<1>4. paras \in Paras
  BY <1>1, ArticlesAreRead
<1>5. p \in Range(Source[act])
  BY <1>1, <1>2 DEF Range
<1>6. label \in PrintedOver(act, p)
  BY <1>1, <1>2, <1>3 DEF PrintedOver
<1>7. \E h \in DOMAIN paras : label = Header[paras[h]] /\ paras[h] \in DOMAIN Header
  <2>1. \A h \in DOMAIN paras : paras[h] \in DOMAIN Header
    BY <1>4 DEF Paras
  <2>2. CASE Heads(paras) = {}
    <3>1. label = NoLabel
      BY <1>1, <1>3, <1>4, <2>2, LabelAtIs
    <3>2. Header[paras[i]] = NoLabel
      BY <1>1, <2>2 DEF Heads
    <3> QED
      BY <1>1, <2>1, <3>1, <3>2
  <2>3. CASE \E h \in Heads(paras) : h <= i
    <3>1. PICK h \in Heads(paras) : label = Header[paras[h]]
      BY <1>1, <1>3, <1>4, <2>3, LabelAtIs
    <3> QED
      BY <2>1, <3>1 DEF Heads
  <2> QED
    BY <1>1, <2>2, <2>3 DEF Chunked
<1>8. label \in Range(Header)
  BY <1>7 DEF Range
<1>9. label \in Labels
  BY <1>8 DEF Labels
<1> QED
  BY <1>1, <1>2, <1>3, <1>5, <1>6, <1>9, LabelsAreOf

-----------------------------------------------------------------------------
(* What a re-splitting makes of an article *)

\* A listing of some of the scanned chunks by their numbers.
Listing(ids, n, s) ==
    /\ s \in [1..n -> ids]
    /\ \A id \in ids : \E k \in 1..n : s[k] = id
    /\ \A i, j \in 1..n : i < j => Provision(hits[s[i]]) <= Provision(hits[s[j]])

\* The body it gives is the chunks' law, one behind the other.
Body(n, s, off, body) == Joined([k \in 1..n |-> s[k].text.paras], n, off, body)

\* What a chunk is named for is text.
LEMMA FiledIsText ==
    ASSUME NEW id, NEW doc, Filed(id, doc)
    PROVE  /\ id.act \in Acts /\ doc.text.paras = id.text.paras
           /\ id.text.paras \in Paras /\ Heads(id.text.paras) \subseteq {1}
           /\ Range(id.text.paras) \subseteq Range(Source[id.act])
<1>1. PICK paras : paras = id.text.paras
  OBVIOUS
<1>2. PICK act : act = id.act
  OBVIOUS
<1>3. act \in Acts /\ paras \in Seq(Range(Source[act])) /\ Heads(paras) \subseteq {1}
  BY <1>1, <1>2 DEF Filed, IsChunkOf
<1>4. Range(Source[act]) \subseteq DOMAIN Header
  BY <1>3, ArticlesAreRead DEF Paras, Range
<1>5. paras \in Seq(DOMAIN Header)
  <2>1. DOMAIN paras = 1..Len(paras) /\ Len(paras) \in Nat /\ paras = [i \in 1..Len(paras) |-> paras[i]]
    BY <1>3
  <2>2. \A i \in 1..Len(paras) : paras[i] \in DOMAIN Header
    BY <1>3, <1>4
  <2> QED
    BY <2>1, <2>2
<1>6. Range(paras) \subseteq Range(Source[act])
  BY <1>3 DEF Range
<1> QED
  BY <1>1, <1>2, <1>3, <1>5, <1>6 DEF Filed, Paras

\* Every body of an article is a listing of its chunks, joined.
LEMMA BodiesAreJoined ==
    ASSUME Intact(hits), NEW ids, ids \subseteq DOMAIN hits, NEW body \in Bodies(ids)
    PROVE  \E n \in Nat : \E s, off : Listing(ids, n, s) /\ Body(n, s, off, body)
<1>1. PICK s \in Orders(ids) :
         body = FlattenSeq([i \in DOMAIN s |-> hits[s[i]].text.paras])
  BY DEF Bodies
<1>2. PICK n : n = Cardinality(ids)
  OBVIOUS
<1>3. IsFiniteSet(ids) /\ n \in Nat
  BY <1>2, FS_Subset, FS_CardinalityType DEF Intact
<1>4. /\ s \in [1..n -> ids]
      /\ \A i, j \in 1..n : i # j => s[i] # s[j]
      /\ \A i, j \in 1..n : i < j => Provision(hits[s[i]]) <= Provision(hits[s[j]])
  BY <1>2 DEF Orders, SetToSeqs
<1>5. \A id \in ids : \E k \in 1..n : s[k] = id
  <2>1. s \in Injection(1..n, ids)
    BY <1>4 DEF Injection, IsInjective
  <2>2. IsFiniteSet(1..n) /\ Cardinality(1..n) = n
    BY <1>3, FS_Interval
  <2>3. s \in Surjection(1..n, ids)
    BY <1>2, <1>3, <2>1, <2>2, FS_Injection
  <2> QED
    BY <2>3 DEF Surjection
<1>6. Listing(ids, n, s)
  BY <1>4, <1>5 DEF Listing
<1>7. PICK seqs : seqs = [i \in 1..n |-> s[i].text.paras]
  OBVIOUS
<1>8. ASSUME NEW k \in 1..n
      PROVE  s[k].text.paras \in Paras /\ hits[s[k]].text.paras = s[k].text.paras
  <2>1. s[k] \in DOMAIN hits
    BY <1>4
  <2> QED
    BY <2>1, FiledIsText DEF Intact
<1>9. seqs \in [1..n -> Paras]
  BY <1>7, <1>8
<1>10. body = FlattenSeq(seqs)
  <2>1. [i \in DOMAIN s |-> hits[s[i]].text.paras] = seqs
    BY <1>4, <1>7, <1>8
  <2> QED
    BY <1>1, <2>1
<1>11. PICK off : Joined(seqs, n, off, body)
  BY <1>3, <1>9, <1>10, FlattenedIsWhole
<1>12. Body(n, s, off, body)
  BY <1>7, <1>11 DEF Body
<1> QED
  BY <1>3, <1>6, <1>12

\* The chunks of an article that a re-splitting goes through.
LEMMA SameAre ==
    ASSUME Intact(hits), NEW article, NEW id \in Same(article)
    PROVE  /\ id \in DOMAIN hits /\ Filed(id, hits[id])
           /\ article[1] = id.act /\ article[2] = hits[id].article
           /\ ArticleOf(id, hits[id]) = article
<1>1. id \in DOMAIN hits /\ ArticleOf(id, hits[id]) = article
  BY DEF Same
<1>2. <<id.act, hits[id].article>> = article
  BY <1>1 DEF ArticleOf
<1> QED
  BY <1>1, <1>2 DEF Intact

\* A chunk's places in the body are behind those of the chunks before it,
LEMMA BodyIsText ==
    ASSUME NEW n \in Nat, NEW s, NEW off, NEW body, Body(n, s, off, body)
    PROVE  /\ body \in Paras /\ DOMAIN body = 1..Len(body) /\ Len(body) \in Nat
           /\ \A k \in 0..n : off[k] \in Nat
           /\ Grow(n, off)
           /\ \A k \in 1..n : off[k] = off[k - 1] + Len(s[k].text.paras)
<1>1. PICK seqs : seqs = [k \in 1..n |-> s[k].text.paras]
  OBVIOUS
<1>2. Joined(seqs, n, off, body)
  BY <1>1 DEF Body
<1>3. body \in Paras /\ DOMAIN body = 1..Len(body) /\ Len(body) \in Nat
  BY <1>2, HeadersAreRead DEF Joined
<1>4. (\A k \in 0..n : off[k] \in Nat) /\ Grow(n, off)
  BY <1>2 DEF Joined
<1>5. \A k \in 1..n : seqs[k] = s[k].text.paras
  BY <1>1
<1>6. \A k \in 1..n : off[k] = off[k - 1] + Len(seqs[k])
  BY <1>2 DEF Joined
<1> QED
  BY <1>3, <1>4, <1>5, <1>6

\* each of its paragraphs has one,
LEMMA ChunksHavePlaces ==
    ASSUME NEW n \in Nat, NEW s, NEW off, NEW body, Body(n, s, off, body),
           NEW k \in 1..n, NEW j \in 1..Len(s[k].text.paras),
           NEW m, m = off[k - 1] + j
    PROVE  m \in DOMAIN body /\ body[m] = s[k].text.paras[j]
<1>1. PICK seqs : seqs = [i \in 1..n |-> s[i].text.paras]
  OBVIOUS
<1>2. Joined(seqs, n, off, body)
  BY <1>1 DEF Body
<1>3. DOMAIN body = 1..Len(body) /\ off[n] = Len(body)
  BY <1>2, HeadersAreRead DEF Joined
<1>4. seqs[k] = s[k].text.paras
  BY <1>1
<1>5. Placed(seqs, n, off, body) /\ j \in 1..Len(seqs[k])
  BY <1>2, <1>4 DEF Joined
<1>6. m \in 1..off[n] /\ body[m] = seqs[k][j]
  BY <1>5 DEF Placed
<1> QED
  BY <1>3, <1>4, <1>6

\* and there are no others.
LEMMA PlacesAreOfChunks ==
    ASSUME NEW n \in Nat, NEW s, NEW off, NEW body, Body(n, s, off, body), NEW m \in DOMAIN body
    PROVE  \E k \in 1..n : \E j \in 1..Len(s[k].text.paras) :
               m = off[k - 1] + j /\ body[m] = s[k].text.paras[j]
<1>1. PICK seqs : seqs = [i \in 1..n |-> s[i].text.paras]
  OBVIOUS
<1>2. Joined(seqs, n, off, body)
  BY <1>1 DEF Body
<1>3. m \in 1..off[n] /\ Covered(seqs, n, off)
  BY <1>2, HeadersAreRead DEF Joined
<1>4. PICK k \in 1..n : \E j \in 1..Len(seqs[k]) : m = off[k - 1] + j
  BY <1>3 DEF Covered
<1>5. PICK j \in 1..Len(seqs[k]) : m = off[k - 1] + j
  BY <1>4
<1>6. seqs[k] = s[k].text.paras
  BY <1>1
<1>7. j \in 1..Len(s[k].text.paras)
  BY <1>6
<1>8. body[m] = s[k].text.paras[j]
  BY <1>5, <1>7, ChunksHavePlaces
<1> QED
  BY <1>5, <1>7, <1>8

\* What a re-splitting writes is fresh: each chunk keeps a label that its
\* paragraph had.
LEMMA ResplitIsFresh ==
    ASSUME Intact(hits), NEW article, NEW body \in Bodies(Same(article))
    PROVE  Fresh(Resplit(article, body))
<1>1. Same(article) \subseteq DOMAIN hits
  BY DEF Same
<1>2. PICK n \in Nat : \E s, off : Listing(Same(article), n, s) /\ Body(n, s, off, body)
  BY <1>1, BodiesAreJoined
<1>3. PICK s, off : Listing(Same(article), n, s) /\ Body(n, s, off, body)
  BY <1>2
<1>4. body \in Paras
  BY <1>3, BodyIsText
<1>5. PICK raws : raws = {raw \in RawChunks(body) : raw.article = article[2]}
  OBVIOUS
<1>6. IsFiniteSet(raws)
  BY <1>4, <1>5, RawChunksAre, FS_Subset
<1>7. PICK act : act = article[1]
  OBVIOUS
<1>8. ASSUME NEW raw \in raws
      PROVE  \E p \in Range(Source[act]) :
               /\ act \in Acts /\ raw.text = Plain(<<p>>)
               /\ raw.article \in Labels /\ raw.article \in LabelsOf[act][p]
  <2>1. PICK m \in DOMAIN body : raw.text = Plain(<<body[m]>>)
    BY <1>4, <1>5, RawChunksAre
  <2>2. PICK k \in 1..n : \E j \in 1..Len(s[k].text.paras) : body[m] = s[k].text.paras[j]
    BY <1>3, PlacesAreOfChunks
  <2>3. PICK j \in 1..Len(s[k].text.paras) : body[m] = s[k].text.paras[j]
    BY <2>2
  <2>4. PICK id : id = s[k]
    OBVIOUS
  <2>5. id \in Same(article)
    BY <1>3, <2>4 DEF Listing
  <2>6. Filed(id, hits[id]) /\ act = id.act /\ raw.article = hits[id].article
    BY <1>5, <1>7, <2>5, SameAre
  <2>7. id.text.paras \in Paras /\ act \in Acts /\ Range(id.text.paras) \subseteq Range(Source[act])
    BY <2>6, FiledIsText
  <2>8. body[m] \in Range(id.text.paras)
    BY <2>3, <2>4, <2>7, HeadersAreRead DEF Range
  <2>9. raw.article \in Labels /\ raw.article \in LabelsOf[act][body[m]]
    BY <2>6, <2>8 DEF Filed, TrueLabel
  <2> QED
    BY <2>1, <2>7, <2>8, <2>9
<1>9. Fresh(Build(raws, act))
  BY <1>6, <1>8, BuiltIsFresh
<1> QED
  BY <1>5, <1>7, <1>9 DEF Resplit

\* The header of a chunk is a header of the body, and the body has no other.
LEMMA HeadersOfBodies ==
    ASSUME Intact(hits), NEW n \in Nat, NEW s, NEW off, NEW body, Body(n, s, off, body),
           \A k \in 1..n : s[k] \in DOMAIN hits
    PROVE  /\ \A g \in Heads(body) : \E k \in 1..n :
                 /\ g = off[k - 1] + 1 /\ 1 \in 1..Len(s[k].text.paras)
                 /\ Opening(hits[s[k]]) = Header[body[g]]
           /\ \A k \in 1..n : Opening(hits[s[k]]) # NoLabel =>
                 /\ off[k - 1] + 1 \in Heads(body)
                 /\ Opening(hits[s[k]]) = Header[body[off[k - 1] + 1]]
<1>1. ASSUME NEW k \in 1..n
      PROVE  LET paras == s[k].text.paras IN
             /\ paras \in Paras /\ Heads(paras) \subseteq {1}
             /\ hits[s[k]].text.paras = paras
             /\ DOMAIN paras = 1..Len(paras) /\ Len(paras) \in Nat
  BY FiledIsText, HeadersAreRead DEF Intact
<1>2. ASSUME NEW g \in Heads(body)
      PROVE  \E k \in 1..n :
                 /\ g = off[k - 1] + 1 /\ 1 \in 1..Len(s[k].text.paras)
                 /\ Opening(hits[s[k]]) = Header[body[g]]
  <2>1. g \in DOMAIN body /\ Header[body[g]] # NoLabel
    BY DEF Heads
  <2>2. PICK k \in 1..n : \E j \in 1..Len(s[k].text.paras) :
           g = off[k - 1] + j /\ body[g] = s[k].text.paras[j]
    BY <2>1, PlacesAreOfChunks
  <2>3. PICK paras : paras = s[k].text.paras
    OBVIOUS
  <2>4. PICK j \in 1..Len(paras) : g = off[k - 1] + j /\ body[g] = paras[j]
    BY <2>2, <2>3
  <2>5. j \in Heads(paras)
    BY <1>1, <2>1, <2>3, <2>4 DEF Heads
  <2>6. j = 1
    BY <1>1, <2>3, <2>5
  <2>7. paras # <<>>
    BY <1>1, <2>3, <2>4
  <2>8. Opening(hits[s[k]]) = Header[paras[1]]
    BY <1>1, <2>3, <2>7 DEF Opening, Substance
  <2> QED
    BY <2>3, <2>4, <2>6, <2>8
<1>3. ASSUME NEW k \in 1..n, Opening(hits[s[k]]) # NoLabel
      PROVE  /\ off[k - 1] + 1 \in Heads(body)
             /\ Opening(hits[s[k]]) = Header[body[off[k - 1] + 1]]
  <2>1. PICK paras : paras = s[k].text.paras
    OBVIOUS
  <2>2. paras # <<>> /\ Opening(hits[s[k]]) = Header[paras[1]]
    BY <1>1, <1>3, <2>1 DEF Opening, Substance
  <2>3. 1 \in 1..Len(paras)
    <3>1. Len(paras) \in Nat /\ paras \in Paras
      BY <1>1, <2>1
    <3>2. Len(paras) # 0
      BY <2>2, <3>1 DEF Paras
    <3> QED
      BY <3>1, <3>2
  <2>4. PICK g : g = off[k - 1] + 1
    OBVIOUS
  <2>5. g \in DOMAIN body /\ body[g] = paras[1]
    BY <2>1, <2>3, <2>4, ChunksHavePlaces
  <2>6. g \in Heads(body) /\ Opening(hits[s[k]]) = Header[body[g]]
    BY <1>3, <2>2, <2>5 DEF Heads
  <2> QED
    BY <2>4, <2>6
<1> QED
  BY <1>2, <1>3

\* A chunk that is in place has the header of its article above it in the
\* body, and no other between them.
LEMMA InPlaceIsUnderItsHeader ==
    ASSUME Intact(hits), NEW article, NEW n \in Nat, NEW s, NEW off, NEW body,
           Listing(Same(article), n, s), Body(n, s, off, body),
           NEW k \in 1..n, InPlace(s[k]), NEW j \in 1..Len(s[k].text.paras),
           NEW m, m = off[k - 1] + j
    PROVE  LabelAt(body, m) = article[2] /\ Chunked(body, m)
<1>1. PICK label : label = article[2]
  OBVIOUS
<1>2. /\ \A i \in 1..n : s[i] \in Same(article) /\ s[i] \in DOMAIN hits
      /\ \A i \in 1..n : hits[s[i]].article = label
  BY <1>1, SameAre DEF Listing
<1>3. /\ \A id \in Same(article) : \E i \in 1..n : s[i] = id
      /\ \A a, b \in 1..n : a < b => Provision(hits[s[a]]) <= Provision(hits[s[b]])
  BY DEF Listing
<1>4. ArticleOf(s[k], hits[s[k]]) = article /\ hits[s[k]].article = label
  BY <1>2, SameAre
<1>5. /\ label = NoLabel => \A other \in Same(article) : Opening(hits[other]) = NoLabel
      /\ label # NoLabel => \E own \in Same(article) :
            /\ Opening(hits[own]) = label
            /\ \/ own = s[k]
               \/ /\ Provision(hits[own]) < Provision(hits[s[k]])
                  /\ \A other \in Same(article) : Opening(hits[other]) \notin {NoLabel, label} =>
                        \/ Provision(hits[other]) < Provision(hits[own])
                        \/ Provision(hits[s[k]]) < Provision(hits[other])
  BY <1>4 DEF InPlace
<1>6. ASSUME NEW i \in 1..n
      PROVE  Provision(hits[s[i]]) \in Nat
  <2>1. PICK doc : doc = hits[s[i]]
    OBVIOUS
  <2>2. PICK paras : paras = doc.text.paras
    OBVIOUS
  <2>3. Filed(s[i], doc)
    BY <1>2, <2>1 DEF Intact
  <2>4. paras \in Paras
    BY <2>2, <2>3, FiledIsText
  <2>5. CASE paras = <<>>
    BY <2>1, <2>2, <2>5 DEF Provision, Substance
  <2>6. CASE paras # <<>>
    <3>1. paras[1] \in DOMAIN Header
      BY <2>4, <2>6 DEF Paras
    <3>2. Section[paras[1]] \in Nat
      BY <3>1, SectionsAreNumbers
    <3> QED
      BY <2>1, <2>2, <2>6, <3>2 DEF Provision, Substance
  <2> QED
    BY <2>5, <2>6
<1>7. /\ body \in Paras /\ DOMAIN body = 1..Len(body)
      /\ \A i \in 0..n : off[i] \in Nat
      /\ \A a, b \in 0..n : a <= b => off[a] <= off[b]
      /\ \A i \in 1..n : off[i] = off[i - 1] + Len(s[i].text.paras)
  BY BodyIsText DEF Grow
<1>8. m \in DOMAIN body /\ Heads(body) \subseteq Nat /\ m \in Nat
  <2>1. m \in DOMAIN body
    BY ChunksHavePlaces
  <2> QED
    BY <1>7, <2>1, HeadersAreRead
<1>9. /\ \A g \in Heads(body) : \E i \in 1..n :
            /\ g = off[i - 1] + 1 /\ 1 \in 1..Len(s[i].text.paras)
            /\ Opening(hits[s[i]]) = Header[body[g]]
      /\ \A i \in 1..n : Opening(hits[s[i]]) # NoLabel =>
            /\ off[i - 1] + 1 \in Heads(body)
            /\ Opening(hits[s[i]]) = Header[body[off[i - 1] + 1]]
  BY <1>2, HeadersOfBodies
<1>10. CASE label = NoLabel
  <2>1. Heads(body) = {}
    <3>1. SUFFICES ASSUME NEW g \in Heads(body) PROVE FALSE
      OBVIOUS
    <3>2. PICK i \in 1..n : Opening(hits[s[i]]) = Header[body[g]]
      BY <1>9
    <3>3. Opening(hits[s[i]]) = NoLabel
      BY <1>2, <1>5, <1>10
    <3> QED
      BY <3>2, <3>3 DEF Heads
  <2> QED
    BY <1>1, <1>10, <2>1 DEF LabelAt, Chunked
<1>11. CASE label # NoLabel
  <2>1. PICK own \in Same(article) :
            /\ Opening(hits[own]) = label
            /\ \/ own = s[k]
               \/ /\ Provision(hits[own]) < Provision(hits[s[k]])
                  /\ \A other \in Same(article) : Opening(hits[other]) \notin {NoLabel, label} =>
                        \/ Provision(hits[other]) < Provision(hits[own])
                        \/ Provision(hits[s[k]]) < Provision(hits[other])
    BY <1>5, <1>11
  <2>2. \E q \in 1..n : s[q] = own /\ q <= k
    <3>1. CASE own = s[k]
      BY <3>1
    <3>2. CASE own # s[k]
      <4>1. PICK q \in 1..n : s[q] = own
        BY <1>3
      <4>2. ~(k < q)
        BY <1>3, <1>6, <2>1, <3>2, <4>1
      <4> QED
        BY <4>1, <4>2
    <3> QED
      BY <3>1, <3>2
  <2>3. PICK q \in 1..n : s[q] = own /\ q <= k
    BY <2>2
  <2>4. PICK top : top = off[q - 1] + 1
    OBVIOUS
  <2>5. top \in Heads(body)
    BY <1>9, <1>11, <2>1, <2>3, <2>4
  <2>6. top <= m
    <3>1. q - 1 \in 0..n /\ k - 1 \in 0..n /\ q - 1 <= k - 1
      BY <2>3
    <3>2. off[q - 1] \in Nat /\ off[k - 1] \in Nat /\ off[q - 1] <= off[k - 1]
      BY <1>7, <3>1
    <3>3. 1 <= j /\ j \in Nat
      OBVIOUS
    <3> QED
      BY <2>4, <3>2, <3>3
  <2>7. PICK h \in Heads(body) :
           /\ LabelAt(body, m) = Header[body[h]] /\ h <= m
           /\ \A g \in Heads(body) : g <= m => g <= h
    <3>1. m \in DOMAIN body /\ body \in Paras
      BY <1>7, <1>8
    <3>2. \/ \A g \in Heads(body) : ~(g <= m)
          \/ \E g \in Heads(body) :
                /\ LabelAt(body, m) = Header[body[g]] /\ g <= m
                /\ \A f \in Heads(body) : f <= m => f <= g
      BY <3>1, LabelAtIs
    <3> QED
      BY <2>5, <2>6, <3>2
  <2>8. top <= h
    BY <2>5, <2>6, <2>7
  <2>9. PICK i \in 1..n : /\ h = off[i - 1] + 1 /\ 1 \in 1..Len(s[i].text.paras)
                          /\ Opening(hits[s[i]]) = Header[body[h]]
    BY <1>9
  <2>10. Opening(hits[s[i]]) # NoLabel
    BY <2>7, <2>9 DEF Heads
  <2>11. i <= k
    <3>1. SUFFICES ASSUME i > k PROVE FALSE
      OBVIOUS
    <3>2. k \in 0..n /\ i - 1 \in 0..n /\ k <= i - 1
      BY <3>1
    <3>3. off[k] <= off[i - 1] /\ off[k] \in Nat /\ off[i - 1] \in Nat
      BY <1>7, <3>2
    <3>4. off[k] = off[k - 1] + Len(s[k].text.paras)
      BY <1>7
    <3>5. off[k - 1] \in Nat /\ Len(s[k].text.paras) \in Nat
      <4>1. k - 1 \in 0..n
        OBVIOUS
      <4>2. s[k].text.paras \in Paras
        BY <1>2, FiledIsText DEF Intact
      <4> QED
        BY <1>7, <4>1, <4>2 DEF Paras
    <3>6. m <= off[k]
      <4>1. PICK a, b, l : a = off[k - 1] /\ b = off[k] /\ l = Len(s[k].text.paras)
        OBVIOUS
      <4>2. a \in Nat /\ l \in Nat /\ j \in 1..l /\ b = a + l /\ m = a + j
        BY <3>4, <3>5, <4>1
      <4>3. m <= b
        BY <4>2
      <4> QED
        BY <4>1, <4>3
    <3> QED
      BY <1>8, <2>7, <2>9, <3>3, <3>6
  <2>12. q <= i
    <3>1. SUFFICES ASSUME i < q PROVE FALSE
      OBVIOUS
    <3>2. i \in 0..n /\ i - 1 \in 0..n /\ q - 1 \in 0..n /\ i <= q - 1
      BY <3>1
    <3>3. off[i] <= off[q - 1] /\ off[i - 1] \in Nat /\ off[q - 1] \in Nat /\ off[i] \in Nat
      BY <1>7, <3>2
    <3>4. off[i] = off[i - 1] + Len(s[i].text.paras) /\ Len(s[i].text.paras) \in Nat
      <4>1. s[i].text.paras \in Paras
        BY <1>2, FiledIsText DEF Intact
      <4> QED
        BY <1>7, <4>1 DEF Paras
    <3>5. PICK a, b, c, l : /\ a = off[i - 1] /\ b = off[i] /\ c = off[q - 1]
                            /\ l = Len(s[i].text.paras)
      OBVIOUS
    <3>6. /\ a \in Nat /\ b \in Nat /\ c \in Nat /\ l \in Nat
          /\ b <= c /\ b = a + l
      BY <3>3, <3>4, <3>5
    <3>7. 1 <= l /\ h = a + 1
      BY <2>9, <3>5, <3>6
    <3>8. top = c + 1 /\ top <= h
      BY <2>4, <2>8, <3>5
    <3> QED
      BY <3>6, <3>7, <3>8
  <2>13. Opening(hits[s[i]]) = label
    <3>1. CASE own = s[k]
      <4>1. SUFFICES ASSUME Opening(hits[s[i]]) # label PROVE FALSE
        OBVIOUS
      <4>2. Opening(hits[s[k]]) = label /\ i # k
        BY <2>1, <3>1, <4>1
      <4>3. PICK g : g = off[k - 1] + 1
        OBVIOUS
      <4>4. g \in Heads(body)
        BY <1>9, <1>11, <4>2, <4>3
      <4>5. k - 1 \in 0..n /\ off[k - 1] \in Nat
        <5>1. k - 1 \in 0..n
          OBVIOUS
        <5> QED
          BY <1>7, <5>1
      <4>6. g <= m
        BY <4>3, <4>5
      <4>7. g <= h
        BY <2>7, <4>4, <4>6
      <4>8. i \in 0..n /\ i - 1 \in 0..n /\ i <= k - 1
        BY <2>11, <4>2
      <4>9. off[i] <= off[k - 1] /\ off[i] \in Nat /\ off[i - 1] \in Nat
        BY <1>7, <4>5, <4>8
      <4>10. off[i] = off[i - 1] + Len(s[i].text.paras) /\ Len(s[i].text.paras) \in Nat
        <5>1. s[i].text.paras \in Paras
          BY <1>2, FiledIsText DEF Intact
        <5> QED
          BY <1>7, <5>1 DEF Paras
      <4>11. PICK a, b, c, l : /\ a = off[i - 1] /\ b = off[i] /\ c = off[k - 1]
                               /\ l = Len(s[i].text.paras)
        OBVIOUS
      <4>12. /\ a \in Nat /\ b \in Nat /\ c \in Nat /\ l \in Nat
             /\ b <= c /\ b = a + l
        BY <4>5, <4>9, <4>10, <4>11
      <4>13. 1 <= l /\ h = a + 1
        BY <2>9, <4>11, <4>12
      <4>14. g = c + 1 /\ g <= h
        BY <4>3, <4>7, <4>11
      <4> QED
        BY <4>12, <4>13, <4>14
    <3>2. CASE own # s[k]
      <4>1. SUFFICES ASSUME Opening(hits[s[i]]) # label PROVE FALSE
        OBVIOUS
      <4>2. \/ Provision(hits[s[i]]) < Provision(hits[s[q]])
            \/ Provision(hits[s[k]]) < Provision(hits[s[i]])
        BY <1>2, <2>1, <2>3, <2>10, <3>2, <4>1
      <4>3. i # q
        BY <2>1, <2>3, <4>1
      <4>4. Provision(hits[s[q]]) <= Provision(hits[s[i]])
        BY <1>3, <2>12, <4>3
      <4>5. Provision(hits[s[i]]) <= Provision(hits[s[k]])
        <5>1. CASE i = k
          BY <1>6, <5>1
        <5>2. CASE i # k
          BY <1>3, <2>11, <5>2
        <5> QED
          BY <5>1, <5>2
      <4> QED
        BY <1>6, <4>2, <4>4, <4>5
    <3> QED
      BY <3>1, <3>2
  <2>14. LabelAt(body, m) = label
    BY <2>7, <2>9, <2>13
  <2>15. Chunked(body, m)
    BY <2>5, <2>6 DEF Chunked
  <2> QED
    BY <1>1, <2>14, <2>15
<1> QED
  BY <1>10, <1>11

\* Hence the re-splitting writes its law anew.
LEMMA InPlaceIsKept ==
    ASSUME Intact(hits), NEW article, NEW body \in Bodies(Same(article)),
           NEW id \in Same(article), InPlace(id), NEW p \in Range(id.text.paras)
    PROVE  \E other \in DOMAIN Resplit(article, body) :
               other.act = id.act /\ p \in Range(other.text.paras)
<1>1. Same(article) \subseteq DOMAIN hits
  BY DEF Same
<1>2. PICK n \in Nat : \E s, off : Listing(Same(article), n, s) /\ Body(n, s, off, body)
  BY <1>1, BodiesAreJoined
<1>3. PICK s, off : Listing(Same(article), n, s) /\ Body(n, s, off, body)
  BY <1>2
<1>4. PICK k \in 1..n : s[k] = id
  BY <1>3 DEF Listing
<1>5. id.text.paras \in Paras /\ article[1] = id.act
  BY SameAre, FiledIsText
<1>6. PICK j \in 1..Len(id.text.paras) : id.text.paras[j] = p
  BY <1>5 DEF Range, Paras
<1>7. PICK m : m = off[k - 1] + j
  OBVIOUS
<1>8. m \in DOMAIN body /\ body[m] = p
  BY <1>3, <1>4, <1>6, <1>7, ChunksHavePlaces
<1>9. LabelAt(body, m) = article[2] /\ Chunked(body, m)
  BY <1>3, <1>4, <1>6, <1>7, InPlaceIsUnderItsHeader
<1>10. body \in Paras
  BY <1>3, BodyIsText
<1>11. PICK raw \in RawChunks(body) : raw.article = article[2] /\ raw.text = Plain(<<p>>)
  BY <1>8, <1>9, <1>10, RawChunksAre
<1>12. PICK other : other = ChunkId(article[1], raw)
  OBVIOUS
<1>13. other \in DOMAIN Resplit(article, body)
  BY <1>11, <1>12 DEF Resplit, Build
<1>14. other.act = id.act /\ other.text = Plain(<<p>>)
  BY <1>5, <1>11, <1>12 DEF ChunkId
<1>15. p \in Range(other.text.paras)
  <2>1. other.text.paras = <<p>>
    BY <1>14 DEF Plain, Text
  <2> QED
    BY <2>1 DEF Range
<1> QED
  BY <1>13, <1>14, <1>15

-----------------------------------------------------------------------------
(* The invariant *)

\* The index is there, or a script that created it is running.
InUse ==
    \/ index # NoIndex
    \/ script \in {"cleaning", "relabelling", "resplitting"}
    \/ script = "copying" /\ ~live

DocumentInv ==
    /\ InUse => Intact(index)
    /\ target # NoIndex \/ script = "patching" => Intact(target)

\* What the cleaning has yet to write or delete has all page furniture there
\* is, and what it deletes holds no law.
CleaningInv ==
    script = "cleaning" =>
        /\ \A id \in DOMAIN index : Junk(index[id].text) => id \in DOMAIN plan \cup doomed
        /\ \A id \in DOMAIN plan :
              plan[id] = Doc(plan[id].article, plan[id].text) /\ TrueLabel(id, plan[id].article)
        /\ \A id \in doomed : id.text.paras = <<>>

\* The labels a relabelling has yet to set are true, and a re-splitting works
\* on documents of the index and deletes some of them.
ScanInv ==
    /\ script = "relabelling" => \A id \in DOMAIN plan : TrueLabel(id, plan[id])
    /\ script = "resplitting" => Intact(hits) /\ doomed \subseteq DOMAIN hits
    /\ script \notin {"cleaning", "resplitting"} => doomed = {}

Tasks == Acts \cup Domains
RunStates ==
    [stage : Range(Stages) \cup {"none"}, conf : Confs, acts : SUBSET Acts,
     left : UNION {[S -> 0..Retries] : S \in SUBSET Tasks}, failed : SUBSET Tasks]

\* The files a run's stage has before it: its input of every act, and its
\* output of every act whose task is neither left nor failed.
Supplied(r, store) ==
    /\ r.stage # "act_ids" => DOMAIN r.left \subseteq r.acts
    /\ r.stage \in DOMAIN Input => \A act \in r.acts : Input[r.stage] \in store[act]
    /\ r.stage \in DOMAIN Output =>
          \A act \in r.acts \ (DOMAIN r.left \cup r.failed) : Output[r.stage] \in store[act]

StageInv ==
    /\ files \in [Acts -> SUBSET FileKinds]
    /\ \A d \in Domains : run[d] \in RunStates /\ Supplied(run[d], files)
    /\ run \in [Domains -> RunStates]

CInv == DocumentInv /\ CleaningInv /\ ScanInv /\ StageInv

\* Law leaves an index with the chunks a re-splitting replaces, and with a
\* live index that a migration deletes: never by an ingestion, a cleaning or a
\* relabelling, whole, half done or repeated.
LawLeavesInTwoWays ==
    [][index # NoIndex =>
          \A gone \in Law(index) \ Law(index') :
              \/ script = "resplitting"
                 /\ \E id \in doomed \ doomed' :
                       gone[1] = id.act /\ gone[2] \in Range(id.text.paras)
              \/ live /\ script' = "copying"]_vars

-----------------------------------------------------------------------------
(* What is written *)

\* The registry is a list, so the acts are finitely many.
LEMMA ActsAreFinite == IsFiniteSet(Acts)
<1>1. PICK n : n = Len(Registry)
  OBVIOUS
<1>2. n \in Nat /\ Registry \in [1..n -> Acts]
  BY <1>1, RegistryIsListed
<1>3. IsFiniteSet({Registry[i] : i \in 1..n})
  <2>1. IsFiniteSet(1..n)
    BY <1>2, FS_Interval
  <2> QED
    BY <1>2, <2>1, ListedIsFinite
<1>4. Acts = {Registry[i] : i \in 1..n}
  BY <1>2 DEF Acts, Range
<1> QED
  BY <1>3, <1>4

\* The chunks of one act are fresh.
LEMMA ActIsFresh ==
    ASSUME NEW act \in Acts
    PROVE  Fresh(ChunksOf[act]) /\ \A id \in DOMAIN ChunksOf[act] : id.act = act
<1>1. PICK paras : paras = Source[act]
  OBVIOUS
<1>2. PICK raws : raws = RawChunks(paras)
  OBVIOUS
<1>3. paras \in Paras
  BY <1>1, ArticlesAreRead
<1>4. IsFiniteSet(raws)
  BY <1>2, <1>3, RawChunksAre
<1>5. ASSUME NEW raw \in raws
      PROVE  \E p \in Range(Source[act]) :
                /\ act \in Acts /\ raw.text = Plain(<<p>>)
                /\ raw.article \in Labels /\ raw.article \in LabelsOf[act][p]
  <2>1. PICK i \in DOMAIN paras :
            /\ raw.article = LabelAt(paras, i) /\ raw.text = Plain(<<paras[i]>>)
            /\ Chunked(paras, i)
    BY <1>2, <1>3, RawChunksAre
  <2>2. /\ paras[i] \in Range(Source[act])
        /\ LabelAt(paras, i) \in LabelsOf[act][paras[i]] /\ LabelAt(paras, i) \in Labels
    BY <1>1, <2>1, LabelAtIsTrue
  <2> QED
    BY <2>1, <2>2
<1>6. /\ Fresh(Build(raws, act))
      /\ \A id \in DOMAIN Build(raws, act) : id.act = act
  BY <1>4, <1>5, BuiltIsFresh
<1> QED
  BY <1>1, <1>2, <1>6 DEF ChunksOf

\* An ingestion writes fresh documents of its acts.
LEMMA ChunksAreFresh ==
    ASSUME NEW acts \in SUBSET Acts
    PROVE  Fresh(Chunks(acts))
<1>1. PICK ids : ids = [a \in acts |-> DOMAIN ChunksOf[a]]
  OBVIOUS
<1>2. PICK chunks : chunks = Chunks(acts)
  OBVIOUS
<1>3. /\ DOMAIN chunks = UNION {ids[a] : a \in acts}
      /\ \A id \in DOMAIN chunks : chunks[id] = ChunksOf[id.act][id]
  BY <1>1, <1>2 DEF Chunks
<1>4. IsFiniteSet(DOMAIN chunks)
  <2>1. IsFiniteSet(acts)
    BY ActsAreFinite, FS_Subset
  <2>2. \A a \in acts : IsFiniteSet(ids[a])
    BY <1>1, ActIsFresh DEF Fresh, Intact
  <2>3. PICK sets : sets = {ids[a] : a \in acts}
    OBVIOUS
  <2>4. IsFiniteSet(sets)
    BY <1>1, <2>1, <2>3, ListedIsFinite
  <2>5. \A S \in sets : IsFiniteSet(S)
    BY <2>2, <2>3
  <2>6. IsFiniteSet(UNION sets)
    BY <2>4, <2>5, FS_UNION
  <2> QED
    BY <1>3, <2>3, <2>6
<1>5. ASSUME NEW id \in DOMAIN chunks
      PROVE  Filed(id, chunks[id]) /\ ~Junk(chunks[id].text)
  <2>1. PICK a \in acts : id \in DOMAIN ChunksOf[a]
    BY <1>1, <1>3
  <2>2. Fresh(ChunksOf[a]) /\ id.act = a
    BY <2>1, ActIsFresh
  <2>3. chunks[id] = ChunksOf[a][id]
    BY <1>3, <2>2
  <2> QED
    BY <2>1, <2>2, <2>3 DEF Fresh, Intact
<1> QED
  BY <1>2, <1>4, <1>5 DEF Fresh, Intact

\* A request that fails half way writes some of its chunks.
LEMMA PartOfFresh ==
    ASSUME NEW chunks, Fresh(chunks), NEW ids, ids \subseteq DOMAIN chunks
    PROVE  Fresh(Restrict(chunks, ids))
<1>1. PICK part : part = Restrict(chunks, ids)
  OBVIOUS
<1>2. DOMAIN part = ids /\ \A id \in ids : part[id] = chunks[id]
  BY <1>1 DEF Restrict
<1>3. IsFiniteSet(ids)
  BY FS_Subset DEF Fresh, Intact
<1> QED
  BY <1>1, <1>2, <1>3 DEF Fresh, Intact

\* A write puts fresh documents over those of the same ids.
Written(after) == \E chunks : Fresh(chunks) /\ after = Upsert(EnsureIndex(index), chunks)

\* Indexing that succeeds and indexing that fails half way both write.
LEMMA IndexingWrites ==
    ASSUME NEW chunks, Fresh(chunks), NEW after,
           IndexChunks(index, chunks, after) \/ IndexChunksFails(index, chunks, after)
    PROVE  Written(after)
<1>1. CASE IndexChunks(index, chunks, after)
  BY <1>1 DEF IndexChunks, Written
<1>2. CASE IndexChunksFails(index, chunks, after)
  <2>1. PICK ids : ids \subseteq DOMAIN chunks
                   /\ after = Upsert(EnsureIndex(index), Restrict(chunks, ids))
    BY <1>2 DEF IndexChunksFails
  <2> QED
    BY <2>1, PartOfFresh DEF Written
<1> QED
  BY <1>1, <1>2

-----------------------------------------------------------------------------
(* What becomes of the index in a step *)

Deleted ==
    /\ script \in {"cleaning", "resplitting"} /\ UNCHANGED <<script, plan>>
    /\ \E id \in doomed : index' = DeleteChunk(index, id) /\ doomed' = doomed \ {id}

Dropped ==
    /\ script = "none" /\ script' = "copying"
    /\ live /\ UNCHANGED live
    /\ index # NoIndex /\ index' = NoIndex

IndexMoves ==
    \/ UNCHANGED index
    \/ index' = EnsureIndex(index)
    \/ Written(index')
    \/ Deleted
    \/ script = "relabelling"
       /\ \E id \in DOMAIN index : \E article :
             TrueLabel(id, article) /\ index' = UpdateArticle(index, id, article)
    \/ Dropped

\* An ingestion creates the index or writes to it, and deletes nothing.
LEMMA IngestMoves ==
    ASSUME StageInv, IngestNext
    PROVE  UNCHANGED index \/ index' = EnsureIndex(index) \/ Written(index')
<1>1. ASSUME NEW acts \in SUBSET Acts,
             \/ IndexChunks(index, Chunks(acts), index')
             \/ IndexChunksFails(index, Chunks(acts), index')
      PROVE  Written(index')
  <2>1. PICK chunks : chunks = Chunks(acts)
    OBVIOUS
  <2>2. PICK after : after = index'
    OBVIOUS
  <2>3. Fresh(chunks)
    BY <2>1, ChunksAreFresh
  <2>4. Written(after)
    BY <1>1, <2>1, <2>2, <2>3, IndexingWrites
  <2> QED
    BY <2>2, <2>4
<1>2. ASSUME NEW d \in Domains, NEW act \in Acts, IndexingAndStoring(d, act)
      PROVE  Written(index')
  BY <1>1, <1>2 DEF IndexingAndStoring
<1>3. ASSUME NEW d \in Domains, NEW task \in Acts \cup {d}, TaskFails(d, task)
      PROVE  UNCHANGED index \/ index' = EnsureIndex(index) \/ Written(index')
  <2>1. CASE /\ run[d].stage = "indexing_and_storing"
             /\ IndexChunksFails(index, Chunks({task}), index')
    <3>1. task \in DOMAIN run[d].left
      BY <1>3 DEF TaskFails, Pending
    <3>2. task \in Acts
      BY <2>1, <3>1 DEF StageInv, Supplied, RunStates
    <3> QED
      BY <1>1, <2>1, <3>2
  <2>2. CASE UNCHANGED index \/ index' = EnsureIndex(index)
    BY <2>2
  <2> QED
    BY <1>3, <2>1, <2>2 DEF TaskFails
<1>4. ASSUME NEW acts \in {ActsForDomain(d) : d \in Domains} \cup {{a} : a \in Acts},
             DirectIngest(acts)
      PROVE  Written(index')
  <2>1. acts \in SUBSET Acts
    BY DEF ActsForDomain
  <2> QED
    BY <1>1, <1>4, <2>1 DEF DirectIngest
<1>5. ASSUME NEW d \in Domains, RunStep(d)
      PROVE  UNCHANGED index \/ index' = EnsureIndex(index) \/ Written(index')
  BY <1>2, <1>3, <1>5 DEF RunStep, ActIds, Fetching, Deriving, Schedule
<1> QED
  BY <1>4, <1>5 DEF IngestNext, Trigger

\* A batch of the cleaning is fresh: the label of the scan, the text of now.
LEMMA CleanedRowsAreFresh ==
    ASSUME DocumentInv, CleaningInv, script = "cleaning",
           NEW rows, rows \subseteq DOMAIN plan, rows \subseteq DOMAIN index
    PROVE  Fresh(CleanedRows(rows))
<1>1. PICK chunks : chunks = CleanedRows(rows)
  OBVIOUS
<1>2. chunks = [id \in rows |-> [plan[id] EXCEPT !.text = CleanText(index[id].text)]]
  BY <1>1 DEF CleanedRows
<1>3. ASSUME NEW id \in rows
      PROVE  Filed(id, chunks[id]) /\ ~Junk(chunks[id].text)
  <2>1. PICK doc : doc = plan[id]
    OBVIOUS
  <2>2. PICK clean : clean = CleanText(index[id].text)
    OBVIOUS
  <2>3. doc = Doc(doc.article, doc.text) /\ TrueLabel(id, doc.article)
    BY <2>1 DEF CleaningInv
  <2>4. [doc EXCEPT !.text = clean] = Doc(doc.article, clean)
    BY <2>3 DEF Doc
  <2>5. PICK new : new = Doc(doc.article, clean)
    OBVIOUS
  <2>6. chunks[id] = new
    BY <1>2, <2>1, <2>2, <2>4, <2>5
  <2>7. new.article = doc.article /\ new.text = clean
    BY <2>5 DEF Doc
  <2>8. index[id].text.paras = id.text.paras /\ IsChunkOf(id.act, id.text)
    BY DEF DocumentInv, InUse, Intact, Filed
  <2>9. clean.paras = id.text.paras /\ clean.mark = "none"
    BY <2>2, <2>8 DEF CleanText, Plain, Text
  <2> QED
    BY <2>3, <2>5, <2>6, <2>7, <2>8, <2>9 DEF Filed, Junk, Marks
<1>4. IsFiniteSet(rows)
  BY FS_Subset DEF DocumentInv, InUse, Intact
<1> QED
  BY <1>1, <1>2, <1>3, <1>4 DEF Fresh, Intact

\* What a script does to the index.
LEMMA MaintenanceMoves ==
    ASSUME DocumentInv, CleaningInv, ScanInv, NEW onDisk, MaintenanceNext(onDisk)
    PROVE  IndexMoves
<1>1. ASSUME StartCleaning \/ (\E act \in onDisk : StartRelabelling(act)) \/ StartResplitting
      PROVE  index' = EnsureIndex(index)
  BY <1>1 DEF StartCleaning, StartRelabelling, StartResplitting, Opened
<1>2. CASE StartMigration
  BY <1>2 DEF StartMigration, Launch, IndexMoves, Dropped
<1>3. CASE CleanBatch
  <2>1. PICK rows : /\ rows \in UpTo(Batch, DOMAIN plan)
                    /\ rows \subseteq DOMAIN index
                    /\ \/ IndexChunks(index, CleanedRows(rows), index')
                       \/ IndexChunksFails(index, CleanedRows(rows), index')
    BY <1>3 DEF CleanBatch
  <2>2. rows \subseteq DOMAIN plan /\ script = "cleaning"
    BY <1>3, <2>1 DEF CleanBatch, UpTo, kSubset
  <2>3. PICK chunks : chunks = CleanedRows(rows)
    OBVIOUS
  <2>4. PICK after : after = index'
    OBVIOUS
  <2>5. Fresh(chunks)
    BY <2>1, <2>2, <2>3, CleanedRowsAreFresh
  <2>6. Written(after)
    BY <2>1, <2>3, <2>4, <2>5, IndexingWrites
  <2> QED
    BY <2>4, <2>6 DEF IndexMoves
<1>4. CASE CleanDelete \/ ResplitDelete
  BY <1>4 DEF CleanDelete, ResplitDelete, IndexMoves, Deleted
<1>5. CASE Relabel
  <2>1. PICK id \in DOMAIN plan \cap DOMAIN index : index' = UpdateArticle(index, id, plan[id])
    BY <1>5 DEF Relabel
  <2>2. PICK article : article = plan[id]
    OBVIOUS
  <2>3. script = "relabelling" /\ index' = UpdateArticle(index, id, article)
    BY <1>5, <2>1, <2>2 DEF Relabel
  <2>4. TrueLabel(id, article)
    BY <2>1, <2>2, <2>3 DEF ScanInv
  <2> QED
    BY <2>1, <2>3, <2>4 DEF IndexMoves
<1>6. CASE Copy
  BY <1>6 DEF Copy, IndexMoves
<1>7. CASE ResplitArticle
  <2>1. PICK article \in todo : \E body \in Bodies(Same(article)) :
            \/ UNCHANGED index
            \/ IndexChunks(index, Resplit(article, body), index')
            \/ IndexChunksFails(index, Resplit(article, body), index')
    BY <1>7 DEF ResplitArticle
  <2>2. PICK body \in Bodies(Same(article)) :
            \/ UNCHANGED index
            \/ IndexChunks(index, Resplit(article, body), index')
            \/ IndexChunksFails(index, Resplit(article, body), index')
    BY <2>1
  <2>3. PICK chunks : chunks = Resplit(article, body)
    OBVIOUS
  <2>4. PICK after : after = index'
    OBVIOUS
  <2>5. Fresh(chunks)
    <3>1. Intact(hits)
      BY <1>7 DEF ResplitArticle, ScanInv
    <3> QED
      BY <2>2, <2>3, <3>1, ResplitIsFresh
  <2>6. CASE ~UNCHANGED index
    <3>1. Written(after)
      BY <2>2, <2>3, <2>4, <2>5, <2>6, IndexingWrites
    <3> QED
      BY <2>4, <3>1 DEF IndexMoves
  <2> QED
    BY <2>6 DEF IndexMoves
<1>8. ASSUME NEW act, NEW found, Patch(act, found)
      PROVE  UNCHANGED index
  BY <1>8 DEF Patch
<1>9. ASSUME CleanEnd \/ RelabelEnd \/ MigrationEnd \/ ResplitEnd \/ Interrupt
      PROVE  UNCHANGED index
  BY <1>9 DEF CleanEnd, RelabelEnd, MigrationEnd, ResplitEnd, Interrupt
<1> QED
  BY <1>1, <1>2, <1>3, <1>4, <1>5, <1>6, <1>7, <1>8, <1>9
     DEF MaintenanceNext, ScriptStep, IndexMoves

\* What any step does to the index.
LEMMA IndexGoesOn ==
    ASSUME CInv, [Next]_vars
    PROVE  IndexMoves
<1>1. CASE Ingest
  BY <1>1, IngestMoves DEF Ingest, CInv, IndexMoves
<1>2. CASE Maintain
  BY <1>2, MaintenanceMoves DEF Maintain, CInv
<1>3. CASE UNCHANGED vars
  BY <1>3 DEF vars, IndexMoves
<1> QED
  BY <1>1, <1>2, <1>3 DEF Next

-----------------------------------------------------------------------------
(* Documents stay what they were named for *)

\* Fresh documents leave a store intact,
LEMMA WritesAreIntact ==
    ASSUME NEW store, Intact(store), NEW chunks, Fresh(chunks)
    PROVE  Intact(Upsert(store, chunks))
<1>1. PICK after : after = Upsert(store, chunks)
  OBVIOUS
<1>2. DOMAIN after = DOMAIN chunks \cup DOMAIN store
  BY <1>1 DEF Upsert
<1>3. IsFiniteSet(DOMAIN chunks \cup DOMAIN store)
  BY FS_Union DEF Fresh, Intact
<1>4. ASSUME NEW id \in DOMAIN after
      PROVE  Filed(id, after[id])
  BY <1>1, <1>4 DEF Fresh, Intact, Upsert
<1> QED
  BY <1>1, <1>2, <1>3, <1>4 DEF Intact

\* so does taking documents out of it,
LEMMA RemovalsAreIntact ==
    ASSUME NEW store, Intact(store), NEW ids, ids \subseteq DOMAIN store
    PROVE  Intact(Restrict(store, ids))
<1>1. PICK part : part = Restrict(store, ids)
  OBVIOUS
<1>2. DOMAIN part = ids /\ \A id \in ids : part[id] = store[id]
  BY <1>1 DEF Restrict
<1>3. IsFiniteSet(ids)
  BY FS_Subset DEF Intact
<1> QED
  BY <1>1, <1>2, <1>3 DEF Intact

\* a new label that is true,
LEMMA RelabelledIsFiled ==
    ASSUME NEW id, NEW doc, Filed(id, doc), NEW article, TrueLabel(id, article)
    PROVE  Filed(id, [doc EXCEPT !.article = article])
<1>1. doc = Doc(doc.article, doc.text)
  BY DEF Filed
<1>2. PICK new : new = Doc(article, doc.text)
  OBVIOUS
<1>3. [doc EXCEPT !.article = article] = new
  BY <1>1, <1>2 DEF Doc
<1>4. new.article = article /\ new.text = doc.text
  BY <1>2 DEF Doc
<1>5. Filed(id, new)
  BY <1>2, <1>4 DEF Filed
<1> QED
  BY <1>3, <1>5

LEMMA LabelsAreApart ==
    ASSUME NEW store, Intact(store), NEW id \in DOMAIN store,
           NEW article, TrueLabel(id, article)
    PROVE  Intact(UpdateArticle(store, id, article))
<1>1. PICK new : new = [store[id] EXCEPT !.article = article]
  OBVIOUS
<1>2. PICK after : after = [store EXCEPT ![id] = new]
  OBVIOUS
<1>3. UpdateArticle(store, id, article) = after
  BY <1>1, <1>2 DEF UpdateArticle
<1>4. Filed(id, new)
  BY <1>1, RelabelledIsFiled DEF Intact
<1>5. DOMAIN after = DOMAIN store
  BY <1>2
<1>6. ASSUME NEW other \in DOMAIN after
      PROVE  Filed(other, after[other])
  <2>1. CASE other = id
    BY <1>2, <1>4, <1>5, <2>1
  <2>2. CASE other # id
    BY <1>2, <1>5, <2>2 DEF Intact
  <2> QED
    BY <2>1, <2>2
<1> QED
  BY <1>3, <1>5, <1>6 DEF Intact

\* and the search client that opens it.
LEMMA OpenedIsIntact ==
    ASSUME DocumentInv
    PROVE  Intact(EnsureIndex(index))
<1>1. PICK opened : opened = EnsureIndex(index)
  OBVIOUS
<1>2. CASE index = NoIndex
  <2>1. opened = <<>>
    BY <1>1, <1>2 DEF EnsureIndex
  <2>2. DOMAIN opened = {}
    BY <2>1
  <2> QED
    BY <1>1, <2>2, FS_EmptySet DEF Intact
<1>3. CASE index # NoIndex
  BY <1>3 DEF EnsureIndex, DocumentInv, InUse
<1> QED
  BY <1>2, <1>3

\* Who comes to use the index, where nobody did, has made sure that it is there.
LEMMA UsersOpenIt ==
    ASSUME CInv, [Next]_vars
    PROVE  \/ UNCHANGED <<script, live>>
           \/ script' \in {"none", "patching"}
           \/ script' = "copying" /\ index # NoIndex
           \/ index' = EnsureIndex(index)
<1>1. CASE Ingest
  BY <1>1 DEF Ingest, maintenanceVars
<1>2. ASSUME \/ StartCleaning
             \/ \E act \in OnDisk : StartRelabelling(act)
             \/ StartResplitting
      PROVE  index' = EnsureIndex(index)
  BY <1>2 DEF StartCleaning, StartRelabelling, StartResplitting, Opened
<1>3. CASE StartMigration
  BY <1>3 DEF StartMigration, Launch
<1>4. ASSUME ScriptStep(OnDisk)
      PROVE  UNCHANGED <<script, live>> \/ script' \in {"none", "patching"}
  <2>1. ASSUME CleanBatch \/ CleanDelete \/ CleanEnd
        PROVE  UNCHANGED <<script, live>> \/ script' \in {"none", "patching"}
    BY <2>1 DEF CleanBatch, CleanDelete, CleanEnd, Leave
  <2>2. ASSUME Relabel \/ RelabelEnd \/ Copy \/ MigrationEnd
        PROVE  UNCHANGED <<script, live>> \/ script' \in {"none", "patching"}
    BY <2>2 DEF Relabel, RelabelEnd, Copy, MigrationEnd, Leave
  <2>3. ASSUME NEW act, NEW found, Patch(act, found)
        PROVE  UNCHANGED <<script, live>>
    BY <2>3 DEF Patch
  <2>4. ASSUME ResplitArticle \/ ResplitDelete \/ ResplitEnd
        PROVE  UNCHANGED <<script, live>> \/ script' \in {"none", "patching"}
    BY <2>4 DEF ResplitArticle, ResplitDelete, ResplitEnd, Leave
  <2> QED
    BY <1>4, <2>1, <2>2, <2>3, <2>4 DEF ScriptStep
<1>5. CASE Interrupt
  BY <1>5 DEF Interrupt, Leave
<1>6. CASE Maintain
  BY <1>2, <1>3, <1>4, <1>5, <1>6 DEF Maintain, MaintenanceNext
<1>7. CASE UNCHANGED vars
  BY <1>7 DEF vars, maintenanceVars
<1> QED
  BY <1>1, <1>6, <1>7 DEF Next

\* The index stays intact while anyone uses it.
LEMMA IndexStaysIntact ==
    ASSUME CInv, [Next]_vars
    PROVE  InUse' => Intact(index')
<1>1. PICK after : after = index'
  OBVIOUS
<1>2. PICK opened : opened = EnsureIndex(index)
  OBVIOUS
<1>3. Intact(opened)
  BY <1>2, OpenedIsIntact DEF CInv
<1>4. CASE UNCHANGED index
  <2>1. CASE index' = EnsureIndex(index)
    BY <1>1, <1>2, <1>3, <2>1
  <2>2. CASE index' # EnsureIndex(index)
    <3>1. InUse' => InUse
      BY <1>4, <2>2, UsersOpenIt DEF InUse
    <3> QED
      BY <1>1, <1>4, <3>1 DEF CInv, DocumentInv
  <2> QED
    BY <2>1, <2>2
<1>5. CASE index' = EnsureIndex(index)
  BY <1>1, <1>2, <1>3, <1>5
<1>6. CASE Written(index')
  <2>1. Written(after)
    BY <1>1, <1>6
  <2>2. PICK chunks : Fresh(chunks) /\ after = Upsert(opened, chunks)
    BY <1>2, <2>1 DEF Written
  <2>3. Intact(after)
    BY <1>3, <2>2, WritesAreIntact
  <2> QED
    BY <1>1, <2>3
<1>7. CASE Deleted
  <2>1. Intact(index)
    BY <1>7 DEF Deleted, CInv, DocumentInv, InUse
  <2>2. PICK id : after = DeleteChunk(index, id)
    BY <1>1, <1>7 DEF Deleted
  <2>3. Intact(after)
    BY <2>1, <2>2, RemovalsAreIntact DEF DeleteChunk
  <2> QED
    BY <1>1, <2>3
<1>8. CASE script = "relabelling"
           /\ \E id \in DOMAIN index : \E article :
                 TrueLabel(id, article) /\ index' = UpdateArticle(index, id, article)
  <2>1. Intact(index)
    BY <1>8 DEF CInv, DocumentInv, InUse
  <2>2. PICK id \in DOMAIN index : \E article :
            TrueLabel(id, article) /\ after = UpdateArticle(index, id, article)
    BY <1>1, <1>8
  <2>3. Intact(after)
    BY <2>1, <2>2, LabelsAreApart
  <2> QED
    BY <1>1, <2>3
<1>9. CASE Dropped
  BY <1>9 DEF Dropped, InUse
<1> QED
  BY <1>4, <1>5, <1>6, <1>7, <1>8, <1>9, IndexGoesOn DEF IndexMoves

\* The label a migration corrects to is true of what it corrects.
LEMMA CorrectedIsTrue ==
    ASSUME NEW act \in Acts, NEW text \in DOMAIN Corrected[act],
           NEW id, id.act = act, id.text.paras = text.paras
    PROVE  TrueLabel(id, Corrected[act][text])
<1>1. PICK paras : paras = Source[act]
  OBVIOUS
<1>2. PICK clear : clear = {raw \in RawChunks(paras) : \A other \in RawChunks(paras) :
                                 other.text = raw.text => other.article = raw.article}
  OBVIOUS
<1>3. Corrected[act] = [other \in {raw.text : raw \in clear} |->
            (CHOOSE raw \in clear : raw.text = other).article]
  BY <1>1, <1>2 DEF Corrected
<1>4. PICK key : key = text
  OBVIOUS
<1>5. \E raw \in clear : raw.text = key
  BY <1>3, <1>4
<1>6. PICK found : found = CHOOSE raw \in clear : raw.text = key
  OBVIOUS
<1>7. found \in clear /\ found.text = text
  BY <1>4, <1>5, <1>6
<1>8. Corrected[act][text] = found.article
  BY <1>3, <1>4, <1>6
<1>9. paras \in Paras /\ found \in RawChunks(paras)
  BY <1>1, <1>2, <1>7, ArticlesAreRead
<1>10. PICK i \in DOMAIN paras :
          /\ found.article = LabelAt(paras, i) /\ found.text = Plain(<<paras[i]>>)
          /\ Chunked(paras, i)
  BY <1>9, RawChunksAre
<1>11. PICK p : p = paras[i]
  OBVIOUS
<1>12. /\ p \in Range(Source[act]) /\ found.article \in LabelsOf[act][p]
       /\ found.article \in Labels
  BY <1>1, <1>10, <1>11, LabelAtIsTrue
<1>13. Range(text.paras) = {p}
  BY <1>7, <1>10, <1>11, <1>12, ParagraphsAreChunks
<1> QED
  BY <1>8, <1>12, <1>13 DEF TrueLabel

\* A correction sets true labels.
LEMMA CorrectionsAreIntact ==
    ASSUME Intact(target), NEW act \in Acts
    PROVE  Intact(Patched(act))
<1>1. PICK after : after = Patched(act)
  OBVIOUS
<1>2. DOMAIN after = DOMAIN target
  BY <1>1 DEF Patched
<1>3. ASSUME NEW id \in DOMAIN after
      PROVE  Filed(id, after[id])
  <2>1. PICK doc : doc = target[id]
    OBVIOUS
  <2>2. Filed(id, doc)
    BY <1>2, <2>1 DEF Intact
  <2>3. CASE id.act = act /\ doc.text \in DOMAIN Corrected[act]
    <3>1. PICK article : article = Corrected[act][doc.text]
      OBVIOUS
    <3>2. TrueLabel(id, article)
      BY <2>2, <2>3, <3>1, CorrectedIsTrue DEF Filed
    <3>3. after[id] = [doc EXCEPT !.article = article]
      BY <1>1, <1>2, <2>1, <2>3, <3>1 DEF Patched
    <3> QED
      BY <2>2, <3>2, <3>3, RelabelledIsFiled
  <2>4. CASE ~(id.act = act /\ doc.text \in DOMAIN Corrected[act])
    <3>1. after[id] = doc
      BY <1>1, <1>2, <2>1, <2>4 DEF Patched
    <3> QED
      BY <2>2, <3>1
  <2> QED
    BY <2>3, <2>4
<1> QED
  BY <1>1, <1>2, <1>3 DEF Intact

\* So does the copy of a migration.
LEMMA TargetStaysIntact ==
    ASSUME CInv, [Next]_vars
    PROVE  (target # NoIndex \/ script = "patching" => Intact(target))'
<1> DEFINE Kept == UNCHANGED target /\ (script' = "patching" => script = "patching")
<1>1. ASSUME Kept
      PROVE  (target # NoIndex \/ script = "patching" => Intact(target))'
  <2>1. PICK after : after = target'
    OBVIOUS
  <2>2. target # NoIndex \/ script = "patching" => Intact(after)
    BY <1>1, <2>1 DEF CInv, DocumentInv
  <2> QED
    BY <1>1, <2>1, <2>2
<1>2. CASE Ingest
  BY <1>1, <1>2 DEF Ingest, maintenanceVars
<1>3. ASSUME \/ StartCleaning
             \/ \E act \in OnDisk : StartRelabelling(act)
             \/ StartResplitting
      PROVE  Kept
  BY <1>3 DEF StartCleaning, StartRelabelling, StartResplitting, Launch
<1>4. CASE StartMigration
  BY <1>4 DEF StartMigration, Launch
<1>5. CASE Copy
  <2>1. CASE live
    BY <1>1, <1>5, <2>1 DEF Copy, Leave
  <2>2. CASE ~live
    <3>1. PICK after : after = target'
      OBVIOUS
    <3>2. Intact(after)
      BY <1>5, <2>2, <3>1 DEF Copy, CInv, DocumentInv, InUse
    <3> QED
      BY <3>1, <3>2
  <2> QED
    BY <2>1, <2>2
<1>6. ASSUME NEW act \in Acts, NEW found, Patch(act, found)
      PROVE  (target # NoIndex \/ script = "patching" => Intact(target))'
  <2>1. Intact(target)
    BY <1>6 DEF Patch, CInv, DocumentInv
  <2>2. PICK after : after = target'
    OBVIOUS
  <2>3. PICK patched : patched = Patched(act)
    OBVIOUS
  <2>4. Intact(patched)
    BY <2>1, <2>3, CorrectionsAreIntact
  <2>5. Intact(after)
    BY <1>6, <2>1, <2>2, <2>3, <2>4 DEF Patch
  <2> QED
    BY <2>2, <2>5
<1>7. ASSUME \/ CleanBatch \/ CleanDelete \/ CleanEnd
             \/ Relabel \/ RelabelEnd \/ MigrationEnd
      PROVE  Kept
  BY <1>7 DEF CleanBatch, CleanDelete, CleanEnd, Relabel, RelabelEnd, MigrationEnd, Leave
<1>8. ASSUME ResplitArticle \/ ResplitDelete \/ ResplitEnd \/ Interrupt
      PROVE  Kept
  BY <1>8 DEF ResplitArticle, ResplitDelete, ResplitEnd, Interrupt, Leave
<1>9. CASE Maintain
  BY <1>1, <1>3, <1>4, <1>5, <1>6, <1>7, <1>8, <1>9
     DEF Maintain, MaintenanceNext, ScriptStep
<1>10. CASE UNCHANGED vars
  BY <1>1, <1>10 DEF vars, maintenanceVars
<1> QED
  BY <1>2, <1>9, <1>10 DEF Next

\* Every step keeps the documents intact.
LEMMA DocumentsStay ==
    ASSUME CInv, [Next]_vars
    PROVE  DocumentInv'
BY IndexStaysIntact, TargetStaysIntact DEF DocumentInv

-----------------------------------------------------------------------------
(* The cleaning has every dirty chunk before it *)

\* All page furniture of an index is within some chunks.
Within(store, ids) == \A id \in DOMAIN store : Junk(store[id].text) => id \in ids

\* A write brings no page furniture, and takes away what it overwrites.
LEMMA WritesBringNoJunk ==
    ASSUME NEW store, NEW ids, Within(store, ids), NEW chunks, Fresh(chunks)
    PROVE  Within(Upsert(store, chunks), ids \ DOMAIN chunks)
<1>1. PICK after : after = Upsert(store, chunks)
  OBVIOUS
<1>2. ASSUME NEW id \in DOMAIN after, Junk(after[id].text)
      PROVE  id \in ids \ DOMAIN chunks
  <2>1. CASE id \in DOMAIN chunks
    BY <1>1, <1>2, <2>1 DEF Upsert, Fresh
  <2>2. CASE id \notin DOMAIN chunks
    <3>1. id \in DOMAIN store /\ after[id] = store[id]
      BY <1>1, <1>2, <2>2 DEF Upsert
    <3> QED
      BY <1>2, <2>2, <3>1 DEF Within
  <2> QED
    BY <2>1, <2>2
<1> QED
  BY <1>1, <1>2 DEF Within

\* An index that is created is empty.
LEMMA OpeningBringsNoJunk ==
    ASSUME NEW ids, index = NoIndex \/ Within(index, ids)
    PROVE  Within(EnsureIndex(index), ids)
<1>1. CASE index = NoIndex
  BY <1>1 DEF EnsureIndex, Within
<1>2. CASE index # NoIndex
  BY <1>2 DEF EnsureIndex
<1> QED
  BY <1>1, <1>2

\* What the scan for furniture makes of a text.
LEMMA FurnitureIsFound ==
    ASSUME NEW text
    PROVE  /\ Junk(text) => Cleaning(text) \in {"clean", "delete"}
           /\ Cleaning(text) = "delete" => text.paras = <<>>
<1>1. PICK clean : clean = CleanText(text)
  OBVIOUS
<1>2. clean.paras = text.paras /\ clean.mark = "none"
  BY <1>1 DEF CleanText, Plain, Text
<1>3. Junk(text) => clean # text
  BY <1>2 DEF Junk
<1>4. Cleaning(text) = CASE clean = text -> "none"
                          [] ~Junk(text) -> "skip_whitespace_only"
                          [] Substance(clean) -> "clean"
                          [] OTHER -> "delete"
  BY <1>1 DEF Cleaning
<1> QED
  BY <1>2, <1>3, <1>4 DEF Substance

\* The scan of the cleaning finds every dirty chunk.
LEMMA ScanFindsAll ==
    ASSUME CInv, StartCleaning
    PROVE  CleaningInv'
<1>1. PICK opened : opened = Opened
  OBVIOUS
<1>2. Intact(opened)
  BY <1>1, OpenedIsIntact DEF Opened, CInv
<1>3. PICK rows : rows = {id \in DOMAIN opened : Cleaning(opened[id].text) = "clean"}
  OBVIOUS
<1>4. PICK gone : gone = {id \in DOMAIN opened : Cleaning(opened[id].text) = "delete"}
  OBVIOUS
<1>5. index' = opened /\ plan' = Restrict(opened, rows) /\ doomed' = gone
  BY <1>1, <1>3, <1>4 DEF StartCleaning, Scanned
<1>6. DOMAIN plan' = rows /\ \A id \in rows : plan'[id] = opened[id]
  BY <1>5 DEF Restrict
<1>7. \A id \in DOMAIN opened : Junk(opened[id].text) => id \in rows \cup gone
  BY <1>3, <1>4, FurnitureIsFound
<1>8. \A id \in rows : /\ opened[id] = Doc(opened[id].article, opened[id].text)
                        /\ TrueLabel(id, opened[id].article)
  BY <1>2, <1>3 DEF Intact, Filed
<1>9. \A id \in gone : id.text.paras = <<>>
  BY <1>2, <1>4, FurnitureIsFound DEF Intact, Filed
<1> QED
  BY <1>5, <1>6, <1>7, <1>8, <1>9 DEF CleaningInv

\* A batch that was written is clean and leaves the plan.
LEMMA BatchesAreCleaned ==
    ASSUME CInv, CleanBatch
    PROVE  CleaningInv'
<1>1. script = "cleaning"
  BY DEF CleanBatch
<1>2. PICK rows : /\ rows \in UpTo(Batch, DOMAIN plan)
                  /\ rows \subseteq DOMAIN index
                  /\ \/ /\ IndexChunks(index, CleanedRows(rows), index')
                        /\ plan' = Restrict(plan, DOMAIN plan \ rows)
                        /\ UNCHANGED <<script, doomed, todo, hits>>
                     \/ Leave
  BY DEF CleanBatch
<1>3. rows \subseteq DOMAIN plan
  BY <1>2 DEF UpTo, kSubset
<1>4. CASE Leave
  BY <1>4 DEF Leave, CleaningInv
<1>5. CASE /\ IndexChunks(index, CleanedRows(rows), index')
           /\ plan' = Restrict(plan, DOMAIN plan \ rows)
           /\ UNCHANGED <<script, doomed, todo, hits>>
  <2>1. PICK chunks : chunks = CleanedRows(rows)
    OBVIOUS
  <2>2. PICK opened : opened = EnsureIndex(index)
    OBVIOUS
  <2>3. PICK after : after = Upsert(opened, chunks)
    OBVIOUS
  <2>4. index' = after
    BY <1>5, <2>1, <2>2, <2>3 DEF IndexChunks
  <2>5. DOMAIN chunks = rows
    BY <2>1 DEF CleanedRows
  <2>6. Fresh(chunks)
    BY <1>1, <1>2, <1>3, <2>1, CleanedRowsAreFresh DEF CInv
  <2>7. Within(index, DOMAIN plan \cup doomed)
    BY <1>1 DEF CInv, CleaningInv, Within
  <2>8. Within(after, (DOMAIN plan \cup doomed) \ rows)
    BY <2>2, <2>3, <2>5, <2>6, <2>7, OpeningBringsNoJunk, WritesBringNoJunk
  <2>9. DOMAIN plan' = DOMAIN plan \ rows /\ \A id \in DOMAIN plan' : plan'[id] = plan[id]
    BY <1>5 DEF Restrict
  <2>10. \A id \in DOMAIN plan' : /\ plan'[id] = Doc(plan'[id].article, plan'[id].text)
                                  /\ TrueLabel(id, plan'[id].article)
    BY <1>1, <2>9 DEF CInv, CleaningInv
  <2>11. \A id \in doomed' : id.text.paras = <<>>
    BY <1>1, <1>5 DEF CInv, CleaningInv
  <2>12. \A id \in DOMAIN index' : Junk(index'[id].text) => id \in DOMAIN plan' \cup doomed'
    BY <1>5, <2>4, <2>8, <2>9 DEF Within
  <2> QED
    BY <2>10, <2>11, <2>12 DEF CleaningInv
<1> QED
  BY <1>2, <1>4, <1>5

\* Every step leaves the cleaning all it has to clean.
LEMMA CleaningGoesOn ==
    ASSUME CInv, [Next]_vars
    PROVE  CleaningInv'
<1>1. ASSUME UNCHANGED <<script, plan, doomed>>, script = "cleaning",
             UNCHANGED index \/ index' = EnsureIndex(index) \/ Written(index')
      PROVE  CleaningInv'
  <2>1. PICK ids : ids = DOMAIN plan \cup doomed
    OBVIOUS
  <2>2. Within(index, ids)
    BY <1>1, <2>1 DEF CInv, CleaningInv, Within
  <2>3. PICK opened : opened = EnsureIndex(index)
    OBVIOUS
  <2>4. Within(opened, ids)
    BY <2>2, <2>3, OpeningBringsNoJunk
  <2>5. PICK after : after = index'
    OBVIOUS
  <2>6. CASE Written(index')
    <3>1. Written(after)
      BY <2>5, <2>6
    <3>2. PICK chunks : Fresh(chunks) /\ after = Upsert(opened, chunks)
      BY <2>3, <3>1 DEF Written
    <3>3. Within(after, ids)
      BY <2>4, <3>2, WritesBringNoJunk DEF Within
    <3> QED
      BY <1>1, <2>1, <2>5, <3>3 DEF CInv, CleaningInv, Within
  <2>7. CASE UNCHANGED index \/ index' = EnsureIndex(index)
    <3>1. Within(after, ids)
      BY <2>2, <2>3, <2>4, <2>5, <2>7
    <3> QED
      BY <1>1, <2>1, <2>5, <3>1 DEF CInv, CleaningInv, Within
  <2> QED
    BY <1>1, <2>6, <2>7
<1>2. ASSUME script' # "cleaning"
      PROVE  CleaningInv'
  BY <1>2 DEF CleaningInv
<1>3. CASE Ingest
  <2>1. UNCHANGED index \/ index' = EnsureIndex(index) \/ Written(index')
    BY <1>3, IngestMoves DEF Ingest, CInv
  <2> QED
    BY <1>1, <1>2, <1>3, <2>1 DEF Ingest, maintenanceVars, scan
<1>4. CASE CleanDelete
  <2>1. PICK id \in doomed : index' = DeleteChunk(index, id) /\ doomed' = doomed \ {id}
    BY <1>4 DEF CleanDelete
  <2>2. /\ DOMAIN index' = DOMAIN index \ {id}
        /\ \A other \in DOMAIN index' : index'[other] = index[other]
    BY <2>1 DEF DeleteChunk, Restrict
  <2> QED
    BY <1>4, <2>1, <2>2 DEF CleanDelete, CInv, CleaningInv
<1>5. ASSUME \/ \E act \in OnDisk : StartRelabelling(act)
             \/ StartMigration \/ StartResplitting
      PROVE  script' # "cleaning"
  BY <1>5 DEF StartRelabelling, StartMigration, StartResplitting, Launch
<1>6. ASSUME \/ CleanEnd \/ Relabel \/ RelabelEnd
             \/ Copy \/ (\E act \in Acts : Patch(act, act \in OnDisk)) \/ MigrationEnd
      PROVE  script' # "cleaning"
  BY <1>6 DEF CleanEnd, Relabel, RelabelEnd, Copy, Patch, MigrationEnd, Leave
<1>7. ASSUME ResplitArticle \/ ResplitEnd \/ Interrupt
      PROVE  script' # "cleaning"
  BY <1>7 DEF ResplitArticle, ResplitEnd, Interrupt, Leave
<1>8. CASE ResplitDelete
  BY <1>2, <1>8 DEF ResplitDelete
<1>9. CASE Maintain
  BY <1>2, <1>4, <1>5, <1>6, <1>7, <1>8, <1>9, ScanFindsAll, BatchesAreCleaned
     DEF Maintain, MaintenanceNext, ScriptStep
<1>10. CASE UNCHANGED vars
  BY <1>1, <1>2, <1>10 DEF vars, maintenanceVars, scan
<1> QED
  BY <1>3, <1>9, <1>10 DEF Next

-----------------------------------------------------------------------------
(* What a script has yet to do is right *)

\* A relabelling sets labels that are true.
LEMMA RelabelledAreTrue ==
    ASSUME CInv, NEW act, NEW id \in DOMAIN Relabelled(act)
    PROVE  TrueLabel(id, Relabelled(act)[id])
<1>1. PICK opened : opened = Opened
  OBVIOUS
<1>2. PICK doc : doc = opened[id]
  OBVIOUS
<1>3. PICK labels : labels = Candidates(act, doc)
  OBVIOUS
<1>4. PICK label : label = CHOOSE one \in labels : TRUE
  OBVIOUS
<1>5. /\ id \in DOMAIN opened /\ id.act = act
      /\ Cardinality(labels) = 1 /\ doc.article \notin labels
      /\ Relabelled(act)[id] = label
  BY <1>1, <1>2, <1>3, <1>4 DEF Relabelled
<1>6. label \in labels
  <2>1. labels # {}
    BY <1>5, FS_EmptySet
  <2> QED
    BY <1>4, <2>1
<1>7. Filed(id, doc)
  BY <1>1, <1>2, <1>5, OpenedIsIntact DEF Opened, CInv, Intact
<1>8. IsChunkOf(id.act, id.text) /\ doc.text.paras = id.text.paras /\ TrueLabel(id, doc.article)
  BY <1>7 DEF Filed
<1>9. TrueLabel(id, label)
  BY <1>3, <1>5, <1>6, <1>8, SettledIsTrue
<1> QED
  BY <1>5, <1>9

\* A re-splitting scans documents of the index.
LEMMA ScannedAreIntact ==
    ASSUME CInv, StartResplitting
    PROVE  Intact(hits')
<1>1. PICK opened : opened = Opened
  OBVIOUS
<1>2. PICK ids, some : /\ ids \subseteq DOMAIN opened /\ some \subseteq ids
                       /\ hits' = Restrict(Restrict(opened, ids), some)
  <2>1. PICK ids \in UpTo(ScanLimit, DOMAIN opened) :
            hits' = Restrict(Restrict(opened, ids),
                        {id \in ids : ArticleOf(id, Restrict(opened, ids)[id])
                                          \in Affected(Restrict(opened, ids))})
    BY <1>1 DEF StartResplitting
  <2>2. ids \subseteq DOMAIN opened
    BY <2>1 DEF UpTo, kSubset
  <2> QED
    BY <2>1, <2>2
<1>3. PICK scanned : scanned = Restrict(opened, ids)
  OBVIOUS
<1>4. Intact(scanned) /\ DOMAIN scanned = ids
  <2>1. Intact(opened)
    BY <1>1, OpenedIsIntact DEF Opened, CInv
  <2>2. DOMAIN scanned = ids
    BY <1>3 DEF Restrict
  <2> QED
    BY <1>2, <1>3, <2>1, <2>2, RemovalsAreIntact
<1>5. PICK after : after = Restrict(scanned, some)
  OBVIOUS
<1>6. Intact(after)
  BY <1>2, <1>4, <1>5, RemovalsAreIntact
<1> QED
  BY <1>2, <1>3, <1>5, <1>6

\* Every step leaves a script with what is right to do.
LEMMA ScanGoesOn ==
    ASSUME CInv, [Next]_vars
    PROVE  ScanInv'
<1>1. ASSUME UNCHANGED <<script, plan, hits>>, doomed' \subseteq doomed
      PROVE  ScanInv'
  <2>1. PICK before : before = hits
    OBVIOUS
  <2>2. hits' = before /\ (script = "resplitting" => Intact(before) /\ doomed \subseteq DOMAIN before)
    BY <1>1, <2>1 DEF CInv, ScanInv
  <2> QED
    BY <1>1, <2>2 DEF CInv, ScanInv
<1>2. ASSUME Leave \/ script' \in {"cleaning", "copying", "patching"},
             script' # "cleaning" => doomed' = {}
      PROVE  ScanInv'
  BY <1>2 DEF Leave, ScanInv
<1>3. CASE Ingest
  BY <1>1, <1>3 DEF Ingest, maintenanceVars, scan
<1>4. CASE StartCleaning \/ CleanBatch \/ CleanDelete \/ CleanEnd
  <2>1. script' = "cleaning" \/ Leave
    BY <1>4 DEF StartCleaning, Launch, CleanBatch, CleanDelete, CleanEnd
  <2> QED
    BY <1>2, <2>1 DEF Leave
<1>5. ASSUME NEW act, StartRelabelling(act)
      PROVE  ScanInv'
  <2>1. PICK after : after = Relabelled(act)
    OBVIOUS
  <2>2. plan' = after /\ script' = "relabelling" /\ doomed' = {}
    BY <1>5, <2>1 DEF StartRelabelling, Launch, CInv, ScanInv
  <2>3. \A id \in DOMAIN after : TrueLabel(id, after[id])
    BY <2>1, RelabelledAreTrue
  <2> QED
    BY <2>2, <2>3 DEF ScanInv
<1>6. CASE Relabel
  <2>1. PICK id : plan' = Restrict(plan, DOMAIN plan \ {id})
    BY <1>6 DEF Relabel
  <2>2. DOMAIN plan' \subseteq DOMAIN plan /\ \A other \in DOMAIN plan' : plan'[other] = plan[other]
    BY <2>1 DEF Restrict
  <2> QED
    BY <1>6, <2>2 DEF Relabel, CInv, ScanInv
<1>7. CASE StartMigration \/ Copy
  BY <1>2, <1>7 DEF StartMigration, Launch, Copy, Leave, scan, CInv, ScanInv
<1>8. ASSUME NEW act, NEW found, Patch(act, found)
      PROVE  ScanInv'
  BY <1>2, <1>8 DEF Patch, CInv, ScanInv
<1>9. CASE StartResplitting
  <2>1. PICK after : after = hits'
    OBVIOUS
  <2>2. Intact(after)
    BY <1>9, <2>1, ScannedAreIntact
  <2>3. script' = "resplitting" /\ doomed' = {}
    BY <1>9 DEF StartResplitting, Launch, CInv, ScanInv
  <2> QED
    BY <2>1, <2>2, <2>3 DEF ScanInv
<1>10. CASE ResplitArticle
  <2>1. CASE Leave
    BY <1>2, <2>1 DEF Leave
  <2>2. CASE ~Leave
    <3>1. PICK before : before = hits
      OBVIOUS
    <3>2. PICK article \in todo : UNCHANGED doomed \/ \E new : doomed' = Same(article) \ new
      BY <1>10, <2>2 DEF ResplitArticle
    <3>3. doomed' \subseteq DOMAIN before
      BY <1>10, <3>1, <3>2 DEF ResplitArticle, Same
    <3>4. script' = "resplitting" /\ hits' = before
      BY <1>10, <2>2, <3>1 DEF ResplitArticle
    <3>5. Intact(before)
      BY <1>10, <3>1 DEF ResplitArticle, CInv, ScanInv
    <3> QED
      BY <3>3, <3>4, <3>5 DEF ScanInv
  <2> QED
    BY <2>1, <2>2
<1>11. CASE ResplitDelete
  BY <1>1, <1>11 DEF ResplitDelete
<1>12. CASE RelabelEnd \/ MigrationEnd \/ ResplitEnd \/ Interrupt
  <2>1. Leave
    BY <1>12 DEF RelabelEnd, MigrationEnd, ResplitEnd, Interrupt
  <2> QED
    BY <1>2, <2>1 DEF Leave
<1>13. CASE Maintain
  BY <1>4, <1>5, <1>6, <1>7, <1>8, <1>9, <1>10, <1>11, <1>12, <1>13
     DEF Maintain, MaintenanceNext, ScriptStep
<1>14. CASE UNCHANGED vars
  BY <1>1, <1>14 DEF vars, maintenanceVars, scan
<1> QED
  BY <1>3, <1>13, <1>14 DEF Next

-----------------------------------------------------------------------------
(* A stage finds the files it reads *)

\* Files are only added, so what supplied a run still does.
LEMMA FilesGrow ==
    ASSUME NEW r \in RunStates, NEW store, Supplied(r, store),
           NEW after, \A act \in Acts : store[act] \subseteq after[act]
    PROVE  Supplied(r, after)
BY DEF Supplied, RunStates

\* One run goes on, files are added, and the other runs stay supplied.
LEMMA OneRunGoesOn ==
    ASSUME StageInv, NEW d \in Domains, NEW r \in RunStates, run' = [run EXCEPT ![d] = r],
           files' \in [Acts -> SUBSET FileKinds],
           \A act \in Acts : files[act] \subseteq files'[act],
           NEW store, files' = store, Supplied(r, store)
    PROVE  StageInv'
<1>1. PICK runs : runs = [run EXCEPT ![d] = r]
  OBVIOUS
<1>2. runs \in [Domains -> RunStates]
  BY <1>1 DEF StageInv
<1>3. ASSUME NEW other \in Domains
      PROVE  runs[other] \in RunStates /\ Supplied(runs[other], store)
  <2>1. CASE other = d
    BY <1>1, <2>1 DEF StageInv
  <2>2. CASE other # d
    <3>1. PICK before : before = run[other]
      OBVIOUS
    <3>2. before \in RunStates /\ Supplied(before, files)
      BY <3>1 DEF StageInv
    <3>3. Supplied(before, store)
      BY <3>2, FilesGrow
    <3>4. runs[other] = before
      BY <1>1, <2>2, <3>1 DEF StageInv
    <3> QED
      BY <3>2, <3>3, <3>4
  <2> QED
    BY <2>1, <2>2
<1> QED
  BY <1>1, <1>2, <1>3 DEF StageInv

\* A task that ended well has written what its stage writes.
LEMMA TaskEndsWell ==
    ASSUME NEW r \in RunStates, NEW act \in Acts, r.stage # "act_ids",
           NEW store, Supplied(r, store),
           NEW after, \A a \in Acts : store[a] \subseteq after[a],
           r.stage \in DOMAIN Output => Output[r.stage] \in after[act],
           NEW rest, rest = Finish(r, act)
    PROVE  rest \in RunStates /\ Supplied(rest, after)
<1>1. PICK left : left = Restrict(r.left, DOMAIN r.left \ {act})
  OBVIOUS
<1>2. rest = [r EXCEPT !.left = left]
  BY <1>1 DEF Finish
<1>3. /\ rest.stage = r.stage /\ rest.acts = r.acts /\ rest.failed = r.failed
      /\ rest.conf = r.conf /\ rest.left = left
  BY <1>2 DEF RunStates
<1>4. DOMAIN left = DOMAIN r.left \ {act}
  BY <1>1 DEF Restrict
<1>5. left \in UNION {[S -> 0..Retries] : S \in SUBSET Tasks}
  <2>1. r.left \in UNION {[S -> 0..Retries] : S \in SUBSET Tasks}
    BY DEF RunStates
  <2>2. PICK S \in SUBSET Tasks : r.left \in [S -> 0..Retries]
    BY <2>1
  <2>3. left \in [S \ {act} -> 0..Retries]
    BY <1>1, <2>2 DEF Restrict
  <2> QED
    BY <2>3
<1>6. rest \in RunStates
  BY <1>2, <1>5 DEF RunStates
<1>7. Supplied(r, after)
  BY FilesGrow
<1> QED
  BY <1>3, <1>4, <1>6, <1>7 DEF Supplied

\* A task that failed is tried again or has failed for good.
LEMMA TaskEndsBadly ==
    ASSUME NEW r \in RunStates, NEW store, Supplied(r, store), NEW task \in DOMAIN r.left,
           NEW rest, rest = Failed(r, task)
    PROVE  rest \in RunStates /\ Supplied(rest, store)
<1>1. PICK S \in SUBSET Tasks : r.left \in [S -> 0..Retries]
  <2>1. r.left \in UNION {[S -> 0..Retries] : S \in SUBSET Tasks}
    BY DEF RunStates
  <2> QED
    BY <2>1
<1>2. task \in Tasks
  BY <1>1
<1>3. CASE r.left[task] > 0
  <2>1. PICK left : left = [r.left EXCEPT ![task] = @ - 1]
    OBVIOUS
  <2>2. left \in [S -> 0..Retries]
    BY <1>1, <1>3, <2>1, RetriesAreBounded
  <2>3. rest = [r EXCEPT !.left = left]
    BY <1>3, <2>1 DEF Failed
  <2>4. rest \in RunStates
    BY <2>2, <2>3 DEF RunStates
  <2>5. DOMAIN left = DOMAIN r.left
    BY <2>1
  <2>6. rest.stage = r.stage /\ rest.acts = r.acts /\ rest.failed = r.failed /\ rest.left = left
    BY <2>3 DEF RunStates
  <2> QED
    BY <2>4, <2>5, <2>6 DEF Supplied
<1>4. CASE ~(r.left[task] > 0)
  <2>1. PICK left : left = Restrict(r.left, DOMAIN r.left \ {task})
    OBVIOUS
  <2>2. left \in [S \ {task} -> 0..Retries]
    BY <1>1, <2>1 DEF Restrict
  <2>3. PICK kept : kept = [r EXCEPT !.left = left]
    OBVIOUS
  <2>4. rest = [kept EXCEPT !.failed = kept.failed \cup {task}]
    BY <1>4, <2>1, <2>3 DEF Failed, Finish
  <2>5. /\ kept.stage = r.stage /\ kept.acts = r.acts /\ kept.failed = r.failed
        /\ kept.left = left /\ kept \in RunStates
    BY <2>2, <2>3 DEF RunStates
  <2>6. /\ rest.stage = r.stage /\ rest.acts = r.acts /\ rest.left = left
        /\ rest.failed = r.failed \cup {task} /\ rest \in RunStates
    BY <1>2, <2>4, <2>5 DEF RunStates
  <2>7. DOMAIN left = DOMAIN r.left \ {task}
    BY <2>1 DEF Restrict
  <2> QED
    BY <2>6, <2>7 DEF Supplied
<1> QED
  BY <1>3, <1>4

\* A run that is over, or not begun, needs nothing.
LEMMA NoRunIsSupplied ==
    ASSUME NEW store
    PROVE  NoRun \in RunStates /\ Supplied(NoRun, store)
<1>1. PICK left : left = <<>>
  OBVIOUS
<1>2. left \in [{} -> 0..Retries] /\ DOMAIN left = {}
  BY <1>1
<1>3. left \in UNION {[S -> 0..Retries] : S \in SUBSET Tasks}
  BY <1>2
<1>4. DefaultConf \in Confs
  BY DEF DefaultConf, Confs
<1>5. NoRun \in RunStates
  BY <1>1, <1>3, <1>4 DEF NoRun, RunStates
<1> QED
  BY <1>5 DEF Supplied, NoRun, Input, Output

\* The stages in order: what one wrote of every act the next one reads.
LEMMA NextStageIsSupplied ==
    ASSUME NEW r \in RunStates, r.stage # "none", DOMAIN r.left = {},
           NEW store, Supplied(r, store), NEW next, next = NextStage(r)
    PROVE  next \in RunStates /\ Supplied(next, store)
<1>1. PICK k : k = CHOOSE i \in DOMAIN Stages : Stages[i] = r.stage
  OBVIOUS
<1>2. k \in 1..6 /\ Stages[k] = r.stage
  <2>1. DOMAIN Stages = 1..6
    BY DEF Stages
  <2>2. \E i \in DOMAIN Stages : Stages[i] = r.stage
    BY DEF RunStates, Range
  <2> QED
    BY <1>1, <2>1, <2>2
<1>3. CASE next = NoRun
  BY <1>3, NoRunIsSupplied
<1>4. CASE next # NoRun
  <2>1. r.failed = {} /\ k \in 1..5
    BY <1>1, <1>2, <1>4 DEF NextStage, Stages
  <2>2. PICK left : left = [a \in r.acts |-> Retries]
    OBVIOUS
  <2>3. next = [r EXCEPT !.stage = Stages[k + 1], !.left = left]
    BY <1>1, <1>4, <2>2 DEF NextStage
  <2>4. Stages[k + 1] \in Range(Stages)
    BY <2>1 DEF Stages, Range
  <2>5. left \in UNION {[S -> 0..Retries] : S \in SUBSET Tasks}
    <3>1. r.acts \in SUBSET Tasks
      BY DEF RunStates, Tasks
    <3>2. left \in [r.acts -> 0..Retries]
      BY <2>2, RetriesAreBounded
    <3> QED
      BY <3>1, <3>2
  <2>6. next \in RunStates
    BY <2>3, <2>4, <2>5 DEF RunStates
  <2>7. next.stage = Stages[k + 1] /\ next.acts = r.acts /\ next.left = left
    BY <2>3 DEF RunStates
  <2>8. DOMAIN left = r.acts
    BY <2>2
  <2>9. \/ r.stage = "act_ids" /\ next.stage = "fetching"
        \/ /\ r.stage \in DOMAIN Output /\ next.stage \in DOMAIN Input
           /\ Input[next.stage] = Output[r.stage]
    BY <1>2, <2>1, <2>7 DEF Stages, Input, Output
  <2>10. next.stage \in DOMAIN Input => \A act \in r.acts : Input[next.stage] \in store[act]
    BY <2>1, <2>9 DEF Supplied, Input
  <2> QED
    BY <2>6, <2>7, <2>8, <2>10 DEF Supplied
<1> QED
  BY <1>3, <1>4

\* A stage's task that ends well, whatever file it adds.
LEMMA FileIsWritten ==
    ASSUME StageInv, NEW d \in Domains, NEW act \in Acts, NEW stage \in DOMAIN Output,
           Pending(d, act, stage),
           files' = [files EXCEPT ![act] = @ \cup {Output[stage]}],
           run' = [run EXCEPT ![d] = Finish(@, act)]
    PROVE  StageInv'
<1>1. PICK r : r = run[d]
  OBVIOUS
<1>2. r \in RunStates /\ Supplied(r, files) /\ r.stage = stage
  BY <1>1 DEF StageInv, Pending
<1>3. PICK after : after = [files EXCEPT ![act] = @ \cup {Output[stage]}]
  OBVIOUS
<1>4. Output[stage] \in FileKinds /\ stage # "act_ids"
  BY DEF Output, FileKinds
<1>5. /\ after \in [Acts -> SUBSET FileKinds]
      /\ \A a \in Acts : files[a] \subseteq after[a]
      /\ Output[stage] \in after[act]
  BY <1>3, <1>4 DEF StageInv
<1>6. PICK rest : rest = Finish(r, act)
  OBVIOUS
<1>7. rest \in RunStates /\ Supplied(rest, after)
  BY <1>2, <1>4, <1>5, <1>6, TaskEndsWell
<1>8. run' = [run EXCEPT ![d] = rest]
  BY <1>1, <1>6
<1>9. files' = after
  BY <1>3
<1> QED
  BY <1>5, <1>7, <1>8, <1>9, OneRunGoesOn

\* A run goes on and no file is written.
LEMMA RunGoesOn ==
    ASSUME StageInv, NEW d \in Domains, NEW r \in RunStates, Supplied(r, files),
           run' = [run EXCEPT ![d] = r], UNCHANGED files
    PROVE  StageInv'
<1>1. PICK store : store = files
  OBVIOUS
<1> QED
  BY <1>1, OneRunGoesOn DEF StageInv

\* A new run reads no file yet.
LEMMA RunsAreTriggered ==
    ASSUME StageInv, NEW d \in Domains, NEW conf \in Confs, Trigger(d, conf)
    PROVE  StageInv'
<1>1. PICK left : left = [t \in {d} |-> Retries]
  OBVIOUS
<1>2. PICK r : r = [NoRun EXCEPT !.stage = "act_ids", !.conf = conf, !.left = left]
  OBVIOUS
<1>3. run' = [run EXCEPT ![d] = r] /\ UNCHANGED files
  BY <1>1, <1>2 DEF Trigger
<1>4. left \in UNION {[S -> 0..Retries] : S \in SUBSET Tasks}
  <2>1. left \in [{d} -> 0..Retries]
    BY <1>1, RetriesAreBounded
  <2> QED
    BY <2>1 DEF Tasks
<1>5. "act_ids" \in Range(Stages)
  <2>1. 1 \in DOMAIN Stages /\ Stages[1] = "act_ids"
    BY DEF Stages
  <2> QED
    BY <2>1 DEF Range
<1>6. NoRun \in RunStates
  BY NoRunIsSupplied
<1>7. r \in RunStates /\ r.stage = "act_ids"
  BY <1>2, <1>4, <1>5, <1>6 DEF RunStates
<1>8. Supplied(r, files)
  BY <1>7 DEF Supplied, Input, Output
<1> QED
  BY <1>3, <1>7, <1>8, RunGoesOn

\* Its acts are among those of the registry.
LEMMA ActsAreNamed ==
    ASSUME StageInv, NEW d \in Domains, ActIds(d)
    PROVE  StageInv'
<1>1. PICK r : r = run[d]
  OBVIOUS
<1>2. r \in RunStates /\ r.stage = "act_ids"
  BY <1>1 DEF StageInv, ActIds, Pending
<1>3. PICK kept : kept = Finish(r, d)
  OBVIOUS
<1>4. PICK acts : acts = IF r.conf.force THEN ActsForDomain(d) ELSE r.conf.acts
  OBVIOUS
<1>5. acts \subseteq Acts
  <2>1. r.conf.acts \subseteq Acts
    BY <1>2 DEF RunStates, Confs
  <2> QED
    BY <1>4, <2>1 DEF ActsForDomain
<1>6. PICK next : next = [kept EXCEPT !.conf = DefaultConf, !.acts = acts]
  OBVIOUS
<1>7. PICK left : left = Restrict(r.left, DOMAIN r.left \ {d})
  OBVIOUS
<1>8. left \in UNION {[S -> 0..Retries] : S \in SUBSET Tasks}
  <2>1. PICK S \in SUBSET Tasks : r.left \in [S -> 0..Retries]
    <3>1. r.left \in UNION {[S -> 0..Retries] : S \in SUBSET Tasks}
      BY <1>2 DEF RunStates
    <3> QED
      BY <3>1
  <2>2. left \in [S \ {d} -> 0..Retries]
    BY <1>7, <2>1 DEF Restrict
  <2> QED
    BY <2>2
<1>9. kept \in RunStates /\ kept.stage = "act_ids"
  BY <1>2, <1>3, <1>7, <1>8 DEF Finish, RunStates
<1>10. DefaultConf \in Confs
  BY DEF DefaultConf, Confs
<1>11. next \in RunStates /\ next.stage = "act_ids"
  BY <1>5, <1>6, <1>9, <1>10 DEF RunStates
<1>12. Supplied(next, files)
  BY <1>11 DEF Supplied, Input, Output
<1>13. run' = [run EXCEPT ![d] = next] /\ UNCHANGED files
  BY <1>1, <1>3, <1>4, <1>6 DEF ActIds
<1> QED
  BY <1>11, <1>12, <1>13, RunGoesOn

\* The last stage writes no file.
LEMMA ActsAreIndexed ==
    ASSUME StageInv, NEW d \in Domains, NEW act \in Acts, IndexingAndStoring(d, act)
    PROVE  StageInv'
<1>1. PICK r : r = run[d]
  OBVIOUS
<1>2. r \in RunStates /\ Supplied(r, files) /\ r.stage = "indexing_and_storing"
  BY <1>1 DEF StageInv, IndexingAndStoring, Pending
<1>3. PICK rest : rest = Finish(r, act)
  OBVIOUS
<1>4. r.stage # "act_ids" /\ r.stage \notin DOMAIN Output
  BY <1>2 DEF Output
<1>5. rest \in RunStates /\ Supplied(rest, files)
  BY <1>2, <1>3, <1>4, TaskEndsWell
<1>6. run' = [run EXCEPT ![d] = rest] /\ UNCHANGED files
  BY <1>1, <1>3 DEF IndexingAndStoring
<1> QED
  BY <1>5, <1>6, RunGoesOn

\* A failed attempt adds and takes no file.
LEMMA FailuresAreKept ==
    ASSUME StageInv, NEW d \in Domains, NEW task, TaskFails(d, task)
    PROVE  StageInv'
<1>1. PICK r : r = run[d]
  OBVIOUS
<1>2. r \in RunStates /\ Supplied(r, files) /\ task \in DOMAIN r.left
  BY <1>1 DEF StageInv, TaskFails, Pending
<1>3. PICK rest : rest = Failed(r, task)
  OBVIOUS
<1>4. rest \in RunStates /\ Supplied(rest, files)
  BY <1>2, <1>3, TaskEndsBadly
<1>5. run' = [run EXCEPT ![d] = rest] /\ UNCHANGED files
  BY <1>1, <1>3 DEF TaskFails
<1> QED
  BY <1>4, <1>5, RunGoesOn

\* The next stage starts with the files of the last.
LEMMA StagesAreScheduled ==
    ASSUME StageInv, NEW d \in Domains, Schedule(d)
    PROVE  StageInv'
<1>1. PICK r : r = run[d]
  OBVIOUS
<1>2. r \in RunStates /\ Supplied(r, files) /\ r.stage # "none" /\ DOMAIN r.left = {}
  BY <1>1 DEF StageInv, Schedule
<1>3. PICK next : next = NextStage(r)
  OBVIOUS
<1>4. next \in RunStates /\ Supplied(next, files)
  BY <1>2, <1>3, NextStageIsSupplied
<1>5. run' = [run EXCEPT ![d] = next] /\ UNCHANGED files
  BY <1>1, <1>3 DEF Schedule
<1> QED
  BY <1>4, <1>5, RunGoesOn

\* Every step keeps every run supplied.
LEMMA StagesGoOn ==
    ASSUME CInv, [Next]_vars
    PROVE  StageInv'
<1>1. ASSUME UNCHANGED <<files, run>>
      PROVE  StageInv'
  <2>1. PICK runs : runs = run
    OBVIOUS
  <2>2. PICK store : store = files
    OBVIOUS
  <2>3. \A d \in Domains : Supplied(runs[d], store)
    BY <2>1, <2>2 DEF CInv, StageInv
  <2>4. run' = runs /\ files' = store
    BY <1>1, <2>1, <2>2
  <2> QED
    BY <2>1, <2>2, <2>3, <2>4 DEF CInv, StageInv
<1>2. ASSUME NEW d \in Domains, NEW act \in Acts, Fetching(d, act)
      PROVE  StageInv'
  <2>1. "fetching" \in DOMAIN Output /\ Output.fetching = Output["fetching"]
    BY DEF Output
  <2> QED
    BY <1>2, <2>1, FileIsWritten DEF Fetching, CInv
<1>3. ASSUME NEW d \in Domains, NEW act \in Acts, NEW stage \in DOMAIN Input,
             stage # "indexing_and_storing", Deriving(d, act, stage)
      PROVE  StageInv'
  <2>1. stage \in DOMAIN Output
    BY <1>3 DEF Input, Output
  <2> QED
    BY <1>3, <2>1, FileIsWritten DEF Deriving, CInv
<1>4. ASSUME NEW d \in Domains, RunStep(d)
      PROVE  StageInv'
  BY <1>2, <1>3, <1>4, ActsAreNamed, ActsAreIndexed, FailuresAreKept, StagesAreScheduled
     DEF RunStep, CInv
<1>5. CASE Ingest
  BY <1>1, <1>4, <1>5, RunsAreTriggered DEF Ingest, IngestNext, DirectIngest, CInv
<1>6. CASE Maintain
  BY <1>1, <1>6 DEF Maintain, ingestVars
<1>7. CASE UNCHANGED vars
  BY <1>1, <1>7 DEF vars, ingestVars
<1> QED
  BY <1>5, <1>6, <1>7 DEF Next

-----------------------------------------------------------------------------
(* What follows for every execution *)

\* What an older ingestion left.
LEMMA LegacyIsIntact ==
    ASSUME NEW store \in Legacy
    PROVE  Intact(store)
<1>1. ASSUME NEW id \in DOMAIN store
      PROVE  Filed(id, store[id])
  <2>1. PICK doc : doc = store[id]
    OBVIOUS
  <2>2. doc = Doc(id.article, id.text) /\ IsChunkOf(id.act, id.text)
    BY <2>1, LegacyWasBuilt
  <2>3. doc.article = id.article /\ doc.text = id.text
    BY <2>2 DEF Doc
  <2>4. id.article \in Labels
    BY LegacyWasBuilt DEF Labels
  <2>5. ASSUME NEW p \in Range(id.text.paras)
        PROVE  id.article \in LabelsOf[id.act][p]
    <3>1. id.article \in PrintedOver(id.act, p)
      BY LegacyWasBuilt
    <3>2. p \in Range(Source[id.act]) /\ id.act \in Acts
      <4>1. PICK paras : paras = id.text.paras
        OBVIOUS
      <4>2. paras \in Seq(Range(Source[id.act])) /\ id.act \in Acts
        BY <2>2, <4>1 DEF IsChunkOf
      <4> QED
        BY <4>1, <4>2 DEF Range
    <3> QED
      BY <3>1, <3>2, LabelsAreOf
  <2>6. id.text.mark \in Marks
    BY <2>2 DEF IsChunkOf
  <2> QED
    BY <2>1, <2>2, <2>3, <2>4, <2>5, <2>6 DEF Filed, TrueLabel
<1> QED
  BY <1>1, LegacyWasBuilt DEF Intact

\* It holds of an empty corpus and of what an older ingestion left.
LEMMA EstablishedAtStart ==
    ASSUME Init
    PROVE  CInv
<1>1. Intact(index) \/ index = NoIndex
  BY LegacyIsIntact DEF Init
<1>2. DocumentInv /\ CleaningInv /\ ScanInv
  BY <1>1 DEF Init, MaintenanceInit, NothingScanned, DocumentInv, CleaningInv, ScanInv, InUse
<1>3. files \in [Acts -> SUBSET FileKinds]
  BY DEF Init
<1>4. PICK none : none = NoRun
  OBVIOUS
<1>5. none \in RunStates /\ Supplied(none, files)
  BY <1>4, NoRunIsSupplied
<1>6. run = [d \in Domains |-> none]
  BY <1>4 DEF Init, IngestInit
<1>7. StageInv
  BY <1>3, <1>5, <1>6 DEF StageInv
<1> QED
  BY <1>2, <1>7 DEF CInv

\* The invariant of the corpus holds throughout (Ingestion, Maintenance).
THEOREM Maintained == Spec => []CInv
<1>1. CInv /\ [Next]_vars => CInv'
  BY DocumentsStay, CleaningGoesOn, ScanGoesOn, StagesGoOn DEF CInv
<1> QED
  BY <1>1, EstablishedAtStart, PTL DEF Spec

\* A stage starts with the file it reads of every act of its run, whatever
\* failed and was tried again before.
THEOREM WholeStages == Spec => []StagesAreWhole
<1>1. CInv => StagesAreWhole
  BY DEF CInv, StageInv, Supplied, StagesAreWhole
<1> QED
  BY <1>1, Maintained, PTL

\* The cleaning comes to its verifying scan with no page furniture left.
THEOREM NothingLeftToClean == Spec => []CleanedForGood
<1>1. CInv => CleanedForGood
  BY DEF CInv, CleaningInv, CleanedForGood
<1> QED
  BY <1>1, Maintained, PTL

\* A correction of the copy changes labels and nothing else.
LEMMA CorrectionKeeps ==
    ASSUME Intact(target), NEW act
    PROVE  LET after == Patched(act) IN
           /\ DOMAIN after = DOMAIN target
           /\ \A id \in DOMAIN target :
                 [after[id] EXCEPT !.article = target[id].article] = target[id]
<1>1. PICK after : after = Patched(act)
  OBVIOUS
<1>2. DOMAIN after = DOMAIN target
  BY <1>1 DEF Patched
<1>3. ASSUME NEW id \in DOMAIN target
      PROVE  [after[id] EXCEPT !.article = target[id].article] = target[id]
  <2>1. PICK doc : doc = target[id]
    OBVIOUS
  <2>2. doc = Doc(doc.article, doc.text)
    BY <2>1 DEF Intact, Filed
  <2>3. PICK article : article = Corrected[act][doc.text]
    OBVIOUS
  <2>4. PICK new : new = Doc(article, doc.text)
    OBVIOUS
  <2>5. [doc EXCEPT !.article = article] = new
    BY <2>2, <2>4 DEF Doc
  <2>6. after[id] = new \/ after[id] = doc
    BY <1>1, <2>1, <2>3, <2>5 DEF Patched
  <2>7. [new EXCEPT !.article = doc.article] = Doc(doc.article, doc.text)
    BY <2>4 DEF Doc
  <2>8. [doc EXCEPT !.article = doc.article] = Doc(doc.article, doc.text)
    BY <2>2 DEF Doc
  <2> QED
    BY <2>1, <2>2, <2>6, <2>7, <2>8
<1> QED
  BY <1>1, <1>2, <1>3

\* During the corrections nobody else writes to the copy.
LEMMA OnlyPatchingWrites ==
    ASSUME [Next]_vars, script = "patching", target' # target
    PROVE  \E act : target' = Patched(act)
<1>1. CASE Ingest
  BY <1>1 DEF Ingest, maintenanceVars
<1>2. ASSUME NEW act, NEW found, Patch(act, found)
      PROVE  target' = Patched(act)
  BY <1>2 DEF Patch
<1>3. ASSUME \/ StartCleaning \/ (\E act \in OnDisk : StartRelabelling(act))
             \/ StartMigration \/ StartResplitting
      PROVE  FALSE
  BY <1>3 DEF StartCleaning, StartRelabelling, StartMigration, StartResplitting, Launch
<1>4. ASSUME \/ CleanBatch \/ CleanDelete \/ CleanEnd
             \/ Relabel \/ RelabelEnd \/ Copy \/ MigrationEnd
      PROVE  FALSE
  BY <1>4 DEF CleanBatch, CleanDelete, CleanEnd, Relabel, RelabelEnd, Copy, MigrationEnd
<1>5. ASSUME ResplitArticle \/ ResplitDelete \/ ResplitEnd \/ Interrupt
      PROVE  FALSE
  BY <1>5 DEF ResplitArticle, ResplitDelete, ResplitEnd, Interrupt
<1>6. CASE Maintain
  BY <1>2, <1>3, <1>4, <1>5, <1>6 DEF Maintain, MaintenanceNext, ScriptStep
<1>7. CASE UNCHANGED vars
  BY <1>7 DEF vars, maintenanceVars
<1> QED
  BY <1>1, <1>6, <1>7 DEF Next

\* The migration's corrections drop and merge no document of the copy.
THEOREM CopiesAreWhole == Spec => MigrationKeepsDocuments
<1>1. CInv /\ [Next]_vars =>
          (script = "patching" /\ target' # target =>
              /\ DOMAIN target' = DOMAIN target
              /\ \A id \in DOMAIN target :
                    [target'[id] EXCEPT !.article = target[id].article] = target[id])
  <2> SUFFICES ASSUME CInv, [Next]_vars, script = "patching", target' # target
               PROVE  /\ DOMAIN target' = DOMAIN target
                      /\ \A id \in DOMAIN target :
                            [target'[id] EXCEPT !.article = target[id].article] = target[id]
    OBVIOUS
  <2>1. PICK act : target' = Patched(act)
    BY OnlyPatchingWrites
  <2>2. Intact(target)
    BY DEF CInv, DocumentInv
  <2> QED
    BY <2>1, <2>2, CorrectionKeeps
<1>2. CInv /\ UNCHANGED vars =>
          (script = "patching" /\ target' # target =>
              /\ DOMAIN target' = DOMAIN target
              /\ \A id \in DOMAIN target :
                    [target'[id] EXCEPT !.article = target[id].article] = target[id])
  BY DEF vars, maintenanceVars
<1> QED
  BY <1>1, <1>2, Maintained, PTL DEF Spec, MigrationKeepsDocuments

\* Writing over a document of the same id keeps the law it held.
LEMMA WritesKeepLaw ==
    ASSUME NEW store, Intact(store), NEW chunks, Fresh(chunks)
    PROVE  Law(store) \subseteq Law(Upsert(store, chunks))
<1>1. PICK after : after = Upsert(store, chunks)
  OBVIOUS
<1>2. ASSUME NEW id \in DOMAIN store
      PROVE  id \in DOMAIN after /\ after[id].text.paras = store[id].text.paras
  <2>1. /\ id \in DOMAIN after
        /\ after[id] = IF id \in DOMAIN chunks THEN chunks[id] ELSE store[id]
    BY <1>1 DEF Upsert
  <2> QED
    BY <2>1 DEF Intact, Filed, Fresh
<1>3. ASSUME NEW law \in Law(store)
      PROVE  law \in Law(after)
  <2>1. PICK id \in DOMAIN store : law \in {id.act} \X Range(store[id].text.paras)
    BY <1>3 DEF Law
  <2>2. law \in {id.act} \X Range(after[id].text.paras)
    BY <1>2, <2>1
  <2> QED
    BY <1>2, <2>1, <2>2 DEF Law
<1> QED
  BY <1>1, <1>3

\* No step but a deletion takes law from the index.
LEMMA DeletionsLoseLaw ==
    ASSUME CInv, [Next]_vars, index # NoIndex, NEW gone \in Law(index) \ Law(index')
    PROVE  \/ Dropped
           \/ /\ Deleted
              /\ \E id \in doomed \ doomed' :
                    gone[1] = id.act /\ gone[2] \in Range(id.text.paras)
<1>1. PICK after : after = index'
  OBVIOUS
<1>2. Intact(index)
  BY DEF CInv, DocumentInv, InUse
<1>3. PICK id \in DOMAIN index : gone \in {id.act} \X Range(index[id].text.paras)
  BY DEF Law
<1>4. gone[1] = id.act /\ gone[2] \in Range(id.text.paras)
  BY <1>2, <1>3 DEF Intact, Filed
<1>5. EnsureIndex(index) = index
  BY DEF EnsureIndex
<1>6. CASE UNCHANGED index \/ index' = EnsureIndex(index)
  <2>1. after = index
    BY <1>1, <1>5, <1>6
  <2> QED
    BY <1>1, <2>1
<1>7. CASE Written(index')
  <2>1. Written(after)
    BY <1>1, <1>7
  <2>2. PICK chunks : Fresh(chunks) /\ after = Upsert(index, chunks)
    BY <1>5, <2>1 DEF Written
  <2>3. Law(index) \subseteq Law(after)
    BY <1>2, <2>2, WritesKeepLaw
  <2> QED
    BY <1>1, <2>3
<1>8. CASE Deleted
  <2>1. PICK out \in doomed : index' = DeleteChunk(index, out) /\ doomed' = doomed \ {out}
    BY <1>8 DEF Deleted
  <2>2. out = id
    <3>1. SUFFICES ASSUME out # id PROVE FALSE
      OBVIOUS
    <3>2. id \in DOMAIN after /\ after[id] = index[id]
      BY <1>1, <1>3, <2>1, <3>1 DEF DeleteChunk, Restrict
    <3>3. gone \in Law(after)
      BY <1>3, <3>2 DEF Law
    <3> QED
      BY <1>1, <3>3
  <2> QED
    BY <1>4, <1>8, <2>1, <2>2
<1>9. CASE script = "relabelling"
           /\ \E other \in DOMAIN index : \E article :
                 TrueLabel(other, article) /\ index' = UpdateArticle(index, other, article)
  <2>1. PICK other \in DOMAIN index : \E article :
            TrueLabel(other, article) /\ after = UpdateArticle(index, other, article)
    BY <1>1, <1>9
  <2>2. Intact(after) /\ DOMAIN after = DOMAIN index
    <3>1. Intact(after)
      BY <1>2, <2>1, LabelsAreApart
    <3> QED
      BY <2>1, <3>1 DEF UpdateArticle
  <2>3. after[id].text.paras = index[id].text.paras
    BY <1>2, <1>3, <2>2 DEF Intact, Filed
  <2>4. gone \in Law(after)
    BY <1>3, <2>2, <2>3 DEF Law
  <2> QED
    BY <1>1, <2>4
<1> QED
  BY <1>6, <1>7, <1>8, <1>9, IndexGoesOn DEF IndexMoves

\* Nothing but a re-splitting's deletions and a migration onto the live index
\* takes law out of the index, for every text, batch and order of failures.
THEOREM LawStays == Spec => LawLeavesInTwoWays
<1>1. CInv /\ [Next]_vars =>
          (index # NoIndex =>
              \A gone \in Law(index) \ Law(index') :
                 \/ script = "resplitting"
                    /\ \E id \in doomed \ doomed' :
                          gone[1] = id.act /\ gone[2] \in Range(id.text.paras)
                 \/ live /\ script' = "copying")
  <2> SUFFICES ASSUME CInv, [Next]_vars, index # NoIndex,
                      NEW gone \in Law(index) \ Law(index')
               PROVE  \/ script = "resplitting"
                         /\ \E id \in doomed \ doomed' :
                               gone[1] = id.act /\ gone[2] \in Range(id.text.paras)
                      \/ live /\ script' = "copying"
    OBVIOUS
  <2>1. CASE Dropped
    BY <2>1 DEF Dropped
  <2>2. ASSUME Deleted,
               NEW id \in doomed \ doomed',
               gone[1] = id.act, gone[2] \in Range(id.text.paras)
        PROVE  script = "resplitting"
    <3>1. CASE script = "cleaning"
      <4>1. id.text.paras = <<>>
        BY <2>2, <3>1 DEF CInv, CleaningInv
      <4> QED
        BY <2>2, <4>1 DEF Range
    <3> QED
      BY <2>2, <3>1 DEF Deleted
  <2> QED
    BY <2>1, <2>2, DeletionsLoseLaw
<1> QED
  BY <1>1, Maintained, PTL DEF Spec, LawLeavesInTwoWays

-----------------------------------------------------------------------------
(* Labels and shapes *)

\* A document of a store has a label that is true of its law.
LEMMA FiledIsLabelled ==
    ASSUME NEW id, NEW doc, Filed(id, doc), Substance(doc.text)
    PROVE  doc.article \in LabelsOf[id.act][doc.text.paras[1]]
<1>1. PICK paras : paras = id.text.paras
  OBVIOUS
<1>2. paras \in Paras /\ paras # <<>> /\ doc.text.paras = paras
  BY <1>1, FiledIsText DEF Substance
<1>3. paras[1] \in Range(paras)
  BY <1>2 DEF Paras, Range
<1> QED
  BY <1>1, <1>2, <1>3 DEF Filed, TrueLabel

\* No chunk comes under the label of another article, in whatever order
\* ingestions and scripts came, ended or stopped half way.
THEOREM LabelsAreKept == Spec => []LabelsStayTrue
<1>1. CInv => LabelsStayTrue
  <2> SUFFICES ASSUME CInv, NEW store \in {index, target} \ {NoIndex},
                      NEW id \in DOMAIN store, Substance(store[id].text)
               PROVE  store[id].article \in LabelsOf[id.act][store[id].text.paras[1]]
    BY DEF LabelsStayTrue
  <2>1. Intact(store)
    BY DEF CInv, DocumentInv, InUse
  <2>2. Filed(id, store[id])
    BY <2>1 DEF Intact
  <2> QED
    BY <2>2, FiledIsLabelled
<1> QED
  BY <1>1, Maintained, PTL

\* The acts of a domain's run are acts of the domain, its tasks are for them
\* or name the acts.
RunShape(d, r) ==
    /\ r.acts \subseteq ActsForDomain(d)
    /\ DOMAIN r.left \cup r.failed \subseteq r.acts \cup {d}
    /\ r.stage = "act_ids" /\ d \in DOMAIN r.left => r.acts = {}

ShapeInv ==
    /\ \A d \in Domains : RunShape(d, run[d])
    /\ script \in Phases
    /\ live \in BOOLEAN
    /\ ingests \in Nat /\ scripts \in Nat

\* A task that ends, well or badly, is not left.
LEMMA TasksEnd ==
    ASSUME NEW d, NEW r \in RunStates, RunShape(d, r), NEW task \in DOMAIN r.left
    PROVE  /\ RunShape(d, Finish(r, task))
           /\ RunShape(d, Failed(r, task))
<1>1. PICK left : left = Restrict(r.left, DOMAIN r.left \ {task})
  OBVIOUS
<1>2. DOMAIN left = DOMAIN r.left \ {task}
  BY <1>1 DEF Restrict
<1>3. PICK rest : rest = [r EXCEPT !.left = left]
  OBVIOUS
<1>4. rest = Finish(r, task)
  BY <1>1, <1>3 DEF Finish
<1>5. /\ rest.stage = r.stage /\ rest.acts = r.acts /\ rest.left = left
      /\ rest.failed = r.failed /\ DOMAIN rest = DOMAIN r
  BY <1>3 DEF RunStates
<1>6. RunShape(d, rest)
  BY <1>2, <1>5 DEF RunShape
<1>7. PICK gone : gone = [rest EXCEPT !.failed = rest.failed \cup {task}]
  OBVIOUS
<1>8. RunShape(d, gone)
  <2>1. /\ gone.stage = r.stage /\ gone.acts = r.acts /\ gone.left = left
        /\ gone.failed = r.failed \cup {task}
    BY <1>3, <1>5, <1>7 DEF RunStates
  <2> QED
    BY <1>2, <2>1 DEF RunShape
<1>9. PICK fewer : fewer = [r.left EXCEPT ![task] = @ - 1]
  OBVIOUS
<1>10. PICK again : again = [r EXCEPT !.left = fewer]
  OBVIOUS
<1>11. RunShape(d, again)
  <2>1. /\ again.stage = r.stage /\ again.acts = r.acts /\ again.left = fewer
        /\ again.failed = r.failed
    BY <1>10 DEF RunStates
  <2>2. DOMAIN fewer = DOMAIN r.left
    BY <1>9
  <2> QED
    BY <2>1, <2>2 DEF RunShape
<1>12. Failed(r, task) = gone \/ Failed(r, task) = again
  BY <1>4, <1>7, <1>9, <1>10 DEF Failed
<1> QED
  BY <1>4, <1>6, <1>8, <1>11, <1>12

\* A run that has not begun has no tasks, and a stage has one for each act.
LEMMA StagesBegin ==
    ASSUME NEW d, NEW r \in RunStates, RunShape(d, r), r.stage # "none"
    PROVE  RunShape(d, NoRun) /\ RunShape(d, NextStage(r))
<1>1. RunShape(d, NoRun)
  BY DEF RunShape, NoRun
<1>2. PICK next : next = NextStage(r)
  OBVIOUS
<1>3. CASE next # NoRun
  <2>1. PICK k : k = CHOOSE i \in DOMAIN Stages : Stages[i] = r.stage
    OBVIOUS
  <2>2. k \in 1..6
    <3>1. DOMAIN Stages = 1..6
      BY DEF Stages
    <3>2. \E i \in DOMAIN Stages : Stages[i] = r.stage
      BY DEF RunStates, Range
    <3> QED
      BY <2>1, <3>1, <3>2
  <2>3. k \in 1..5 /\ r.failed = {}
    BY <1>2, <1>3, <2>1, <2>2 DEF NextStage, Stages
  <2>4. PICK left : left = [a \in r.acts |-> Retries]
    OBVIOUS
  <2>5. next = [r EXCEPT !.stage = Stages[k + 1], !.left = left]
    BY <1>2, <1>3, <2>1, <2>4 DEF NextStage
  <2>6. /\ next.stage = Stages[k + 1] /\ next.acts = r.acts /\ next.left = left
        /\ next.failed = {}
    BY <2>3, <2>5 DEF RunStates
  <2>7. Stages[k + 1] # "act_ids"
    BY <2>3 DEF Stages
  <2>8. DOMAIN left = r.acts
    BY <2>4
  <2>9. RunShape(d, next)
    BY <2>6, <2>7, <2>8 DEF RunShape
  <2> QED
    BY <1>1, <1>2, <2>9
<1> QED
  BY <1>1, <1>2, <1>3

\* One run goes on and the others are as they were.
LEMMA OneRunIsShaped ==
    ASSUME StageInv, ShapeInv, NEW d \in Domains, NEW r, RunShape(d, r),
           run' = [run EXCEPT ![d] = r]
    PROVE  \A other \in Domains : RunShape(other, run'[other])
<1>1. SUFFICES ASSUME NEW other \in Domains
               PROVE  RunShape(other, run'[other])
  OBVIOUS
<1>2. PICK before : before = run[other]
  OBVIOUS
<1>3. RunShape(other, before)
  BY <1>2 DEF ShapeInv
<1>4. run'[other] = IF other = d THEN r ELSE before
  BY <1>2 DEF StageInv
<1> QED
  BY <1>3, <1>4

\* Every step of a run keeps its shape.
LEMMA RunsStayShaped ==
    ASSUME StageInv, ShapeInv, NEW d \in Domains,
           RunStep(d) \/ \E conf \in Confs : Trigger(d, conf)
    PROVE  \A other \in Domains : RunShape(other, run'[other])
<1>1. PICK r : r = run[d]
  OBVIOUS
<1>2. r \in RunStates /\ RunShape(d, r)
  BY <1>1 DEF StageInv, ShapeInv
<1>3. ASSUME NEW task \in DOMAIN r.left,
             \/ run' = [run EXCEPT ![d] = Finish(r, task)]
             \/ run' = [run EXCEPT ![d] = Failed(r, task)]
      PROVE  \A other \in Domains : RunShape(other, run'[other])
  BY <1>2, <1>3, TasksEnd, OneRunIsShaped
<1>4. ASSUME NEW conf, Trigger(d, conf)
      PROVE  \A other \in Domains : RunShape(other, run'[other])
  <2>1. PICK left : left = [t \in {d} |-> Retries]
    OBVIOUS
  <2>2. PICK next : next = [NoRun EXCEPT !.stage = "act_ids", !.conf = conf, !.left = left]
    OBVIOUS
  <2>3. next.acts = {} /\ next.failed = {} /\ next.left = left
    BY <2>2 DEF NoRun
  <2>4. RunShape(d, next)
    BY <2>1, <2>3 DEF RunShape
  <2>5. run' = [run EXCEPT ![d] = next]
    BY <1>4, <2>1, <2>2 DEF Trigger
  <2> QED
    BY <2>4, <2>5, OneRunIsShaped
<1>5. CASE ActIds(d)
  <2>1. r.stage = "act_ids" /\ d \in DOMAIN r.left /\ r.conf.acts \subseteq ActsForDomain(d)
    BY <1>1, <1>5 DEF ActIds, Pending
  <2>2. PICK kept : kept = Finish(r, d)
    OBVIOUS
  <2>3. PICK acts : acts = IF r.conf.force THEN ActsForDomain(d) ELSE r.conf.acts
    OBVIOUS
  <2>4. PICK left : left = Restrict(r.left, DOMAIN r.left \ {d})
    OBVIOUS
  <2>5. DOMAIN left = DOMAIN r.left \ {d}
    BY <2>4 DEF Restrict
  <2>6. kept = [r EXCEPT !.left = left]
    BY <2>2, <2>4 DEF Finish
  <2>7. PICK next : next = [kept EXCEPT !.conf = DefaultConf, !.acts = acts]
    OBVIOUS
  <2>8. /\ next.acts = acts /\ next.left = left /\ next.failed = r.failed
    BY <1>2, <2>6, <2>7 DEF RunStates
  <2>9. RunShape(d, next)
    BY <1>2, <2>1, <2>3, <2>5, <2>8 DEF RunShape
  <2>10. run' = [run EXCEPT ![d] = next]
    BY <1>1, <1>5, <2>2, <2>3, <2>7 DEF ActIds
  <2> QED
    BY <2>9, <2>10, OneRunIsShaped
<1>6. ASSUME NEW act, \/ Fetching(d, act) \/ IndexingAndStoring(d, act)
                      \/ \E stage \in DOMAIN Input : Deriving(d, act, stage)
      PROVE  \A other \in Domains : RunShape(other, run'[other])
  <2>1. act \in DOMAIN r.left /\ run' = [run EXCEPT ![d] = Finish(r, act)]
    BY <1>1, <1>6 DEF Fetching, IndexingAndStoring, Deriving, Pending
  <2> QED
    BY <1>3, <2>1
<1>7. ASSUME NEW task, TaskFails(d, task)
      PROVE  \A other \in Domains : RunShape(other, run'[other])
  <2>1. task \in DOMAIN r.left /\ run' = [run EXCEPT ![d] = Failed(r, task)]
    BY <1>1, <1>7 DEF TaskFails, Pending
  <2> QED
    BY <1>3, <2>1
<1>8. CASE Schedule(d)
  <2>1. r.stage # "none" /\ run' = [run EXCEPT ![d] = NextStage(r)]
    BY <1>1, <1>8 DEF Schedule
  <2> QED
    BY <1>2, <2>1, StagesBegin, OneRunIsShaped
<1> QED
  BY <1>4, <1>5, <1>6, <1>7, <1>8 DEF RunStep

\* The bounds count down to none.
LEMMA IngestionsCount ==
    ASSUME ShapeInv, IngestNext
    PROVE  ingests' \in Nat
<1>1. ASSUME NEW d, RunStep(d)
      PROVE  ingests' \in Nat
  BY <1>1 DEF RunStep, ActIds, Fetching, Deriving, IndexingAndStoring, TaskFails, Schedule, ShapeInv
<1>2. ASSUME \/ \E d, conf : Trigger(d, conf)
             \/ \E acts : DirectIngest(acts)
      PROVE  ingests' \in Nat
  <2>1. ingests > 0 /\ ingests' = ingests - 1
    BY <1>2 DEF Trigger, DirectIngest
  <2> QED
    BY <2>1 DEF ShapeInv
<1> QED
  BY <1>1, <1>2 DEF IngestNext

LEMMA ScriptsCount ==
    ASSUME ShapeInv, NEW onDisk, MaintenanceNext(onDisk)
    PROVE  script' \in Phases /\ live' \in BOOLEAN /\ scripts' \in Nat
<1>1. ASSUME \/ StartCleaning \/ (\E act \in onDisk : StartRelabelling(act))
             \/ StartMigration \/ StartResplitting
      PROVE  script' \in Phases /\ live' \in BOOLEAN /\ scripts' \in Nat
  BY <1>1 DEF StartCleaning, StartRelabelling, StartMigration, StartResplitting, Launch,
              ShapeInv, Phases
<1>2. ASSUME CleanBatch \/ CleanDelete \/ CleanEnd \/ Relabel \/ RelabelEnd \/ Interrupt
      PROVE  script' \in Phases /\ live' \in BOOLEAN /\ scripts' \in Nat
  BY <1>2 DEF CleanBatch, CleanDelete, CleanEnd, Relabel, RelabelEnd, Interrupt, Leave,
              ShapeInv, Phases
<1>3. ASSUME \/ Copy \/ (\E act \in Acts : Patch(act, act \in onDisk)) \/ MigrationEnd
             \/ ResplitArticle \/ ResplitDelete \/ ResplitEnd
      PROVE  script' \in Phases /\ live' \in BOOLEAN /\ scripts' \in Nat
  BY <1>3 DEF Copy, Patch, MigrationEnd, ResplitArticle, ResplitDelete, ResplitEnd, Leave,
              ShapeInv, Phases
<1> QED
  BY <1>1, <1>2, <1>3 DEF MaintenanceNext, ScriptStep

\* Every step keeps the shapes.
LEMMA ShapesStay ==
    ASSUME StageInv, ShapeInv, [Next]_vars
    PROVE  ShapeInv'
<1>1. ASSUME UNCHANGED run
      PROVE  \A d \in Domains : RunShape(d, run'[d])
  BY <1>1 DEF ShapeInv
<1>2. CASE Ingest
  <2>1. \A d \in Domains : RunShape(d, run'[d])
    BY <1>1, <1>2, RunsStayShaped DEF Ingest, IngestNext, DirectIngest
  <2>2. ingests' \in Nat
    BY <1>2, IngestionsCount DEF Ingest
  <2> QED
    BY <1>2, <2>1, <2>2 DEF Ingest, maintenanceVars, ShapeInv
<1>3. CASE Maintain
  <2>1. script' \in Phases /\ live' \in BOOLEAN /\ scripts' \in Nat
    BY <1>3, ScriptsCount DEF Maintain
  <2>2. UNCHANGED <<run, ingests>>
    BY <1>3 DEF Maintain, ingestVars
  <2> QED
    BY <1>1, <2>1, <2>2 DEF ShapeInv
<1>4. CASE UNCHANGED vars
  BY <1>1, <1>4 DEF vars, ingestVars, maintenanceVars, ShapeInv
<1> QED
  BY <1>2, <1>3, <1>4 DEF Next

LEMMA ShapedAtStart ==
    ASSUME Init
    PROVE  ShapeInv
<1>1. PICK none : none = NoRun
  OBVIOUS
<1>2. \A d \in Domains : RunShape(d, none)
  BY <1>1 DEF RunShape, NoRun
<1>3. \A d \in Domains : RunShape(d, run[d])
  BY <1>1, <1>2 DEF Init, IngestInit
<1>4. PICK budget \in Budgets : ingests = budget[1] /\ scripts = budget[2]
  BY DEF Init
<1>5. ingests \in Nat /\ scripts \in Nat
  BY <1>4, BudgetsAreNatural
<1> QED
  BY <1>3, <1>5 DEF Init, MaintenanceInit, Phases, ShapeInv

\* An intact store has the shape of one.
LEMMA IntactIsStore ==
    ASSUME NEW store, Intact(store)
    PROVE  IsStore(store)
<1>1. ASSUME NEW id \in DOMAIN store
      PROVE  /\ id.act \in Acts
             /\ store[id].article \in Labels
             /\ Range(store[id].text.paras) \subseteq Range(Source[id.act])
             /\ store[id].text.mark \in Marks
  <2>1. PICK doc : doc = store[id]
    OBVIOUS
  <2>2. Filed(id, doc)
    BY <2>1 DEF Intact
  <2> QED
    BY <2>1, <2>2, FiledIsText DEF Filed, TrueLabel
<1> QED
  BY <1>1 DEF IsStore

\* Documents, runs and scripts have the shapes the code gives them.
THEOREM TypesAreKept == Spec => []TypeOK
<1>1. CInv /\ ShapeInv /\ [Next]_vars => ShapeInv'
  BY ShapesStay DEF CInv
<1>2. CInv /\ ShapeInv => TypeOK
  <2> SUFFICES ASSUME CInv, ShapeInv PROVE TypeOK
    OBVIOUS
  <2>1. IsStore(index) /\ IsStore(target)
    BY IntactIsStore DEF CInv, DocumentInv, InUse, IsStore
  <2>2. files \in [Acts -> SUBSET FileKinds]
    BY DEF CInv, StageInv
  <2>3. ASSUME NEW d \in Domains
        PROVE  /\ run[d].stage \in Range(Stages) \cup {"none"}
               /\ run[d].conf \in Confs
               /\ run[d].acts \subseteq ActsForDomain(d)
               /\ \A t \in DOMAIN run[d].left : run[d].left[t] \in 0..Retries
               /\ DOMAIN run[d].left \cup run[d].failed \subseteq run[d].acts \cup {d}
    <3>1. PICK r : r = run[d]
      OBVIOUS
    <3>2. r \in RunStates /\ RunShape(d, r)
      BY <3>1 DEF CInv, StageInv, ShapeInv
    <3>3. PICK S \in SUBSET Tasks : r.left \in [S -> 0..Retries]
      <4>1. r.left \in UNION {[S -> 0..Retries] : S \in SUBSET Tasks}
        BY <3>2 DEF RunStates
      <4> QED
        BY <4>1
    <3>4. \A t \in DOMAIN r.left : r.left[t] \in 0..Retries
      BY <3>3
    <3>5. r.stage \in Range(Stages) \cup {"none"} /\ r.conf \in Confs
      BY <3>2 DEF RunStates
    <3> QED
      BY <3>1, <3>2, <3>4, <3>5 DEF RunShape
  <2> QED
    BY <2>1, <2>2, <2>3 DEF ShapeInv, TypeOK
<1> QED
  BY <1>1, <1>2, ShapedAtStart, Maintained, PTL DEF Spec

-----------------------------------------------------------------------------
(* What a re-splitting deletes it has written anew *)

\* An index that exists maps its ids to documents.
IsMap(store) == store = [id \in DOMAIN store |-> store[id]]

\* The law of a chunk that is in place is in a chunk the re-splitting keeps.
Rewritten(act, p, store, gone) ==
    \E other \in DOMAIN store \ gone : other.act = act /\ p \in Range(other.text.paras)

ReplacedInv ==
    script = "resplitting" =>
        /\ index # NoIndex
        /\ \A id \in doomed : InPlace(id) =>
              \A p \in Range(id.text.paras) : Rewritten(id.act, p, index, doomed)

\* Where a chunk stands is a matter of what was scanned.
LEMMA PlacesStay ==
    ASSUME UNCHANGED hits, NEW id
    PROVE  InPlace(id)' = InPlace(id)
BY DEF InPlace, Same, Opening

\* Whatever is written is an index.
LEMMA WritesAreMaps ==
    /\ IsMap(<<>>)
    /\ \A store, chunks : IsMap(Upsert(store, chunks))
    /\ \A store, ids : IsMap(Restrict(store, ids))
    /\ \A store, id, article : IsMap(store) => IsMap(UpdateArticle(store, id, article))
<1>1. IsMap(<<>>)
  BY DEF IsMap
<1>2. ASSUME NEW store, NEW chunks
      PROVE  IsMap(Upsert(store, chunks))
  BY DEF IsMap, Upsert
<1>3. ASSUME NEW store, NEW ids
      PROVE  IsMap(Restrict(store, ids))
  BY DEF IsMap, Restrict
<1>4. ASSUME NEW store, NEW id, NEW article, IsMap(store)
      PROVE  IsMap(UpdateArticle(store, id, article))
  BY <1>4 DEF IsMap, UpdateArticle
<1> QED
  BY <1>1, <1>2, <1>3, <1>4

\* No write loses a document.
LEMMA WritesKeepDocuments ==
    ASSUME Written(index'), index # NoIndex
    PROVE  DOMAIN index \subseteq DOMAIN index' /\ IsMap(index')
<1>1. PICK after : after = index'
  OBVIOUS
<1>2. Written(after)
  BY <1>1
<1>3. PICK chunks : after = Upsert(index, chunks)
  BY <1>2 DEF Written, EnsureIndex
<1>4. DOMAIN index \subseteq DOMAIN after
  BY <1>3 DEF Upsert
<1> QED
  BY <1>1, <1>3, <1>4, WritesAreMaps

\* What is kept in the index stays rewritten.
LEMMA RewrittenStays ==
    ASSUME ReplacedInv, script = "resplitting", UNCHANGED <<script, hits>>,
           index' # NoIndex, doomed' \subseteq doomed,
           \A id \in DOMAIN index \ doomed : id \in DOMAIN index'
    PROVE  ReplacedInv'
<1>1. PICK after, gone : after = index' /\ gone = doomed'
  OBVIOUS
<1>2. ASSUME NEW id \in gone, InPlace(id), NEW p \in Range(id.text.paras)
      PROVE  Rewritten(id.act, p, after, gone)
  <2>1. id \in doomed
    BY <1>1
  <2>2. Rewritten(id.act, p, index, doomed)
    BY <1>2, <2>1 DEF ReplacedInv
  <2> QED
    BY <1>1, <2>2 DEF Rewritten
<1>3. ASSUME NEW id \in doomed', InPlace(id)', NEW p \in Range(id.text.paras)
      PROVE  Rewritten(id.act, p, index', doomed')
  <2>1. InPlace(id)
    BY <1>3, PlacesStay
  <2>2. id \in gone
    BY <1>1, <1>3
  <2> QED
    BY <1>1, <1>2, <1>3, <2>1, <2>2
<1> QED
  BY <1>3 DEF ReplacedInv

\* An ingestion that overlaps a re-splitting takes nothing out.
LEMMA IngestionsReplaceNothing ==
    ASSUME ~IsMap(NoIndex), CInv, ReplacedInv, script = "resplitting", Ingest
    PROVE  ReplacedInv'
<1>1. UNCHANGED <<script, hits, doomed>>
  BY DEF Ingest, maintenanceVars, scan
<1>2. index # NoIndex
  BY DEF ReplacedInv
<1>3. UNCHANGED index \/ index' = EnsureIndex(index) \/ Written(index')
  BY IngestMoves DEF Ingest, CInv
<1>4. index' # NoIndex /\ DOMAIN index \subseteq DOMAIN index'
  <2>1. CASE UNCHANGED index \/ index' = EnsureIndex(index)
    <3>1. index' = index
      BY <1>2, <2>1 DEF EnsureIndex
    <3> QED
      BY <1>2, <3>1
  <2>2. CASE Written(index')
    BY <1>2, <2>2, WritesKeepDocuments
  <2> QED
    BY <1>3, <2>1, <2>2
<1> QED
  BY <1>1, <1>4, RewrittenStays

\* An article's chunks that are in place are all written anew before any is
\* deleted.
LEMMA ArticlesAreReplaced ==
    ASSUME ~IsMap(NoIndex), CInv, ReplacedInv, ResplitArticle
    PROVE  ReplacedInv'
<1>1. script = "resplitting" /\ doomed = {} /\ index # NoIndex /\ Intact(hits)
  BY DEF ResplitArticle, ReplacedInv, CInv, ScanInv
<1>2. PICK article \in todo : \E body \in Bodies(Same(article)) :
          \/ UNCHANGED <<index, script, doomed, hits>>
          \/ /\ IndexChunks(index, Resplit(article, body), index')
             /\ doomed' = Same(article) \ DOMAIN Resplit(article, body)
             /\ UNCHANGED <<script, hits>>
          \/ Leave
  BY DEF ResplitArticle
<1>3. PICK body \in Bodies(Same(article)) :
          \/ UNCHANGED <<index, script, doomed, hits>>
          \/ /\ IndexChunks(index, Resplit(article, body), index')
             /\ doomed' = Same(article) \ DOMAIN Resplit(article, body)
             /\ UNCHANGED <<script, hits>>
          \/ Leave
  BY <1>2
<1>4. CASE UNCHANGED <<index, script, doomed, hits>>
  BY <1>1, <1>4, RewrittenStays
<1>5. CASE Leave
  BY <1>5 DEF Leave, ReplacedInv
<1>6. CASE /\ IndexChunks(index, Resplit(article, body), index')
           /\ doomed' = Same(article) \ DOMAIN Resplit(article, body)
           /\ UNCHANGED <<script, hits>>
  <2>1. PICK new, after, gone : /\ new = Resplit(article, body) /\ after = index'
                                /\ gone = doomed'
    OBVIOUS
  <2>2. gone = Same(article) \ DOMAIN new
    BY <1>6, <2>1
  <2>3. after = Upsert(index, new)
    <3>1. IndexChunks(index, new, after)
      BY <1>6, <2>1
    <3> QED
      BY <1>1, <3>1 DEF IndexChunks, EnsureIndex
  <2>4. DOMAIN new \subseteq DOMAIN after /\ after # NoIndex
    <3>1. DOMAIN new \subseteq DOMAIN after
      BY <2>3 DEF Upsert
    <3>2. IsMap(after)
      BY <2>3, WritesAreMaps
    <3> QED
      BY <3>1, <3>2
  <2>5. ASSUME NEW id \in gone, InPlace(id), NEW p \in Range(id.text.paras)
        PROVE  Rewritten(id.act, p, after, gone)
    <3>1. id \in Same(article)
      BY <2>2
    <3>2. PICK other \in DOMAIN new : other.act = id.act /\ p \in Range(other.text.paras)
      BY <1>1, <2>1, <2>5, <3>1, InPlaceIsKept
    <3> QED
      BY <2>2, <2>4, <3>2 DEF Rewritten
  <2>6. ASSUME NEW id \in doomed', InPlace(id)', NEW p \in Range(id.text.paras)
        PROVE  Rewritten(id.act, p, index', doomed')
    <3>1. InPlace(id)
      BY <1>6, <2>6, PlacesStay
    <3>2. id \in gone
      BY <2>1, <2>6
    <3> QED
      BY <2>1, <2>5, <2>6, <3>1, <3>2
  <2>7. index' # NoIndex
    BY <2>1, <2>4
  <2> QED
    BY <2>6, <2>7 DEF ReplacedInv
<1> QED
  BY <1>3, <1>4, <1>5, <1>6

\* A deletion takes out one of those that are to go.
LEMMA DeletionsKeepTheRest ==
    ASSUME ~IsMap(NoIndex), ReplacedInv, ResplitDelete
    PROVE  ReplacedInv'
<1>1. PICK id \in doomed : index' = DeleteChunk(index, id) /\ doomed' = doomed \ {id}
  BY DEF ResplitDelete
<1>2. PICK after : after = DeleteChunk(index, id)
  OBVIOUS
<1>3. after # NoIndex /\ \A other \in DOMAIN index \ doomed : other \in DOMAIN after
  BY <1>1, <1>2, WritesAreMaps DEF DeleteChunk, Restrict
<1>4. index' = after
  BY <1>1, <1>2
<1> QED
  BY <1>1, <1>3, <1>4, RewrittenStays DEF ResplitDelete

\* Every step keeps what is to be deleted written anew.
LEMMA ReplacementsStay ==
    ASSUME ~IsMap(NoIndex), CInv, ReplacedInv, [Next]_vars
    PROVE  ReplacedInv'
<1>1. ASSUME script' # "resplitting"
      PROVE  ReplacedInv'
  BY <1>1 DEF ReplacedInv
<1>2. CASE Ingest
  BY <1>1, <1>2, IngestionsReplaceNothing DEF Ingest, maintenanceVars
<1>3. CASE StartResplitting
  <2>1. script' = "resplitting" /\ doomed' = {} /\ index' = EnsureIndex(index)
    BY <1>3 DEF StartResplitting, Launch, Opened, CInv, ScanInv
  <2>2. index' # NoIndex
    BY <2>1, WritesAreMaps DEF EnsureIndex
  <2> QED
    BY <2>1, <2>2 DEF ReplacedInv
<1>4. ASSUME \/ StartCleaning \/ (\E act \in OnDisk : StartRelabelling(act))
             \/ StartMigration \/ CleanBatch \/ CleanDelete \/ CleanEnd
      PROVE  script' # "resplitting"
  BY <1>4 DEF StartCleaning, StartRelabelling, StartMigration, Launch,
              CleanBatch, CleanDelete, CleanEnd, Leave
<1>5. ASSUME \/ Relabel \/ RelabelEnd
             \/ Copy \/ (\E act \in Acts : Patch(act, act \in OnDisk)) \/ MigrationEnd
             \/ ResplitEnd \/ Interrupt
      PROVE  script' # "resplitting"
  BY <1>5 DEF Relabel, RelabelEnd, Copy, Patch, MigrationEnd, ResplitEnd, Interrupt, Leave
<1>6. CASE Maintain
  BY <1>1, <1>3, <1>4, <1>5, <1>6, ArticlesAreReplaced, DeletionsKeepTheRest
     DEF Maintain, MaintenanceNext, ScriptStep
<1>7. CASE UNCHANGED vars
  <2>1. UNCHANGED <<script, hits, doomed, index>>
    BY <1>7 DEF vars, maintenanceVars, scan
  <2>2. CASE script = "resplitting"
    <3>1. index' # NoIndex
      BY <2>1, <2>2 DEF ReplacedInv
    <3> QED
      BY <2>1, <2>2, <3>1, RewrittenStays
  <2> QED
    BY <1>1, <2>1, <2>2
<1> QED
  BY <1>2, <1>6, <1>7 DEF Next

\* An index that exists goes on existing, but for a migration onto it.
LEMMA IndexesStay ==
    ASSUME ~IsMap(NoIndex), CInv, [Next]_vars, index # NoIndex, index' = NoIndex
    PROVE  Dropped
<1>1. PICK after : after = index'
  OBVIOUS
<1>2. after = NoIndex
  BY <1>1
<1>3. ~(UNCHANGED index \/ index' = EnsureIndex(index))
  BY DEF EnsureIndex
<1>4. ~Written(index')
  BY WritesKeepDocuments
<1>5. ~Deleted
  <2>1. SUFFICES ASSUME Deleted PROVE FALSE
    OBVIOUS
  <2>2. PICK id : after = DeleteChunk(index, id)
    BY <1>1, <2>1 DEF Deleted
  <2> QED
    BY <1>2, <2>2, WritesAreMaps DEF DeleteChunk
<1>6. ASSUME NEW id \in DOMAIN index, NEW article, index' = UpdateArticle(index, id, article)
      PROVE  FALSE
  <2>1. IsMap(UpdateArticle(index, id, article))
    BY DEF IsMap, UpdateArticle
  <2> QED
    BY <1>6, <2>1
<1> QED
  BY <1>3, <1>4, <1>5, <1>6, IndexGoesOn DEF IndexMoves

\* A deletion of a chunk that is in place takes no law out.
LEMMA PlacedLawStays ==
    ASSUME CInv, ReplacedInv, script = "resplitting", Deleted,
           NEW id \in doomed \ doomed', InPlace(id),
           NEW p \in Range(id.text.paras)
    PROVE  <<id.act, p>> \in Law(index')
<1>1. PICK after : after = index'
  OBVIOUS
<1>2. after = DeleteChunk(index, id)
  BY <1>1 DEF Deleted
<1>3. PICK other \in DOMAIN index \ doomed : other.act = id.act /\ p \in Range(other.text.paras)
  BY DEF ReplacedInv, Rewritten
<1>4. other \in DOMAIN after /\ after[other] = index[other]
  BY <1>2, <1>3 DEF DeleteChunk, Restrict
<1>5. after[other].text.paras = other.text.paras
  BY <1>4, <1>3 DEF CInv, DocumentInv, InUse, Intact, Filed
<1>6. <<id.act, p>> \in {other.act} \X Range(after[other].text.paras)
  BY <1>3, <1>5
<1> QED
  BY <1>1, <1>4, <1>6 DEF Law

\* No law leaves the index but with chunks that are out of place in the article
\* a re-splitting takes them for, or when a migration deletes the live index:
\* for every text, legacy index, batch, scan and order of failures.  What stands
\* for no index is not itself an index.
THEOREM NoLawIsLost ==
    ASSUME ~IsMap(NoIndex)
    PROVE  Spec => LawIsNeverLost
<1>1. Init => ReplacedInv
  BY DEF Init, MaintenanceInit, ReplacedInv
<1>2. CInv /\ ReplacedInv /\ [Next]_vars => ReplacedInv'
  BY ReplacementsStay
<1>3. CInv /\ ReplacedInv /\ [Next]_vars =>
          \A gone \in Held(index) \ Held(index)' :
              \/ script = "resplitting"
                 /\ \E id \in doomed \ doomed' :
                       gone[1] = id.act /\ gone[2] \in Range(id.text.paras) /\ ~InPlace(id)
              \/ live /\ script' = "copying"
  <2> SUFFICES ASSUME CInv, ReplacedInv, [Next]_vars, NEW gone \in Held(index) \ Held(index)'
               PROVE  \/ script = "resplitting"
                         /\ \E id \in doomed \ doomed' :
                               /\ gone[1] = id.act /\ gone[2] \in Range(id.text.paras)
                               /\ ~InPlace(id)
                      \/ live /\ script' = "copying"
    OBVIOUS
  <2>1. index # NoIndex /\ gone \in Law(index)
    BY DEF Held
  <2>2. CASE Dropped
    BY <2>2 DEF Dropped
  <2>3. CASE ~Dropped
    <3>1. index' # NoIndex
      BY <2>1, <2>3, IndexesStay
    <3>2. gone \notin Law(index')
      BY <3>1 DEF Held
    <3>3. /\ Deleted
          /\ \E id \in doomed \ doomed' :
                gone[1] = id.act /\ gone[2] \in Range(id.text.paras)
      BY <2>1, <2>3, <3>2, DeletionsLoseLaw
    <3>4. PICK id \in doomed \ doomed' : gone[1] = id.act /\ gone[2] \in Range(id.text.paras)
      BY <3>3
    <3>5. script = "resplitting"
      <4>1. CASE script = "cleaning"
        <5>1. id.text.paras = <<>>
          BY <4>1 DEF CInv, CleaningInv
        <5> QED
          BY <3>4, <5>1 DEF Range
      <4> QED
        BY <3>3, <4>1 DEF Deleted
    <3>6. gone = <<id.act, gone[2]>>
      BY <2>1, <3>4 DEF Law
    <3>7. ~InPlace(id)
      BY <3>2, <3>3, <3>4, <3>5, <3>6, PlacedLawStays
    <3> QED
      BY <3>4, <3>5, <3>7
  <2> QED
    BY <2>2, <2>3
<1>4. CInv /\ ReplacedInv /\ UNCHANGED vars =>
          \A gone \in Held(index) \ Held(index)' : FALSE
  <2>1. UNCHANGED vars => UNCHANGED index
    BY DEF vars
  <2> QED
    BY <2>1 DEF Held, Law
<1> QED
  BY <1>1, <1>2, <1>3, Maintained, PTL DEF Spec, LawIsNeverLost

============================================================================
