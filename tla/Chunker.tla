------------------------------ MODULE Chunker ------------------------------
(***************************************************************************)
(* The splitting of an act's extracted text into provisions                *)
(* (services/chunking/client.py).  Text arrives from the PDF line by line; *)
(* a line is its kind, and its characters are told apart by their place    *)
(* and by whether they are letters.  A stretch of text is the set of its   *)
(* lines, or of its characters: their order is that of the text.           *)
(***************************************************************************)
EXTENDS Naturals, Sequences, FiniteSets

CONSTANTS
    MaxChars,  \* max_chars
    Overlap,   \* overlap_chars
    MaxLines   \* bound on the length of a text

ASSUME OverlapIsSmaller ==
    MaxChars \in Nat /\ Overlap \in Nat /\ Overlap < MaxChars
ASSUME BoundIsNatural == MaxLines \in Nat

VARIABLE text  \* the lines extracted so far

\* "Art. 5." alone; with its text or first paragraph behind it; "2. Kto ...",
\* a number at a page break that looks like one; a page's footer.
Headers == {"article", "inline"}
Kinds == Headers \cup {"paragraph", "number", "chapter", "plain", "blank", "footer"}

\* Which characters of a line are letters.
Letters == [kind \in Kinds |->
    CASE kind \in {"number", "blank"} -> <<FALSE>>
      [] kind \in {"article", "chapter", "footer"} -> <<TRUE>>
      [] kind = "paragraph" -> <<FALSE, TRUE>>
      [] OTHER -> <<TRUE, TRUE>>]

Init == text = <<>>

Extract(kind) ==
    /\ Len(text) < MaxLines
    /\ text' = Append(text, kind)

Next == \E kind \in Kinds : Extract(kind)

Spec == Init /\ [][Next]_text

----------------------------------------------------------------------------

\* A footer on a line of its own leaves a line of white space.
Clean(lines) ==
    [i \in DOMAIN lines |-> IF lines[i] = "footer" THEN "blank" ELSE lines[i]]

First(S) == CHOOSE i \in S : \A j \in S : i <= j
Latest(S) == IF S = {} THEN 0 ELSE CHOOSE i \in S : \A j \in S : j <= i

Solid(lines, s) == {i \in s : lines[i] # "blank"}

Strip(lines, s) == {i \in s : \E j, k \in Solid(lines, s) : j <= i /\ i <= k}

\* What lies between blank lines.
BlankLineParts(lines, s) ==
    LET solid == Solid(lines, s)
        joined(i, j) == \A k \in s : i <= k /\ k <= j => k \in solid
    IN  {{j \in s : joined(i, j) /\ joined(j, i)} : i \in solid}

\* Mutant: what precedes the first number always belongs to it.
JoinPrefix(lines, prefix, first, others) ==
    {prefix \cup first} \cup others

\* A bare header joins the first paragraph; any other text before the first
\* number is a paragraph of its own.
WithPrefix(lines, prefix, first, others) ==
    IF prefix = {} \/ \E i \in prefix : prefix = {i} /\ lines[i] = "article"
    THEN {prefix \cup first} \cup others
    ELSE {prefix, first} \cup others

\* Every numbered paragraph by itself, up to the next number.
NumberedParts(lines, s, starts) ==
    LET part(b) == Strip(lines, {i \in s : b <= i /\ \A e \in starts : b < e => i < e})
        prefix == Strip(lines, {i \in s : \A b \in starts : i < b})
        others == {part(b) : b \in starts \ {First(starts)}}
    IN  WithPrefix(lines, prefix, part(First(starts)), others)

\* A number opens a paragraph when something follows it.
Opens(lines, s, i) ==
    \/ lines[i] = "paragraph"
    \/ lines[i] = "number" /\ \E j \in Solid(lines, s) : i < j

SplitParagraphs(lines, s) ==
    LET starts == {i \in s : Opens(lines, s, i)}
    IN  IF starts = {} THEN BlankLineParts(lines, s)
        ELSE NumberedParts(lines, s, starts)

----------------------------------------------------------------------------

\* A character is its line and its place there.
Characters(lines, s) == UNION {{i} \X DOMAIN Letters[lines[i]] : i \in s}

Before(x, y) == x[1] < y[1] \/ (x[1] = y[1] /\ x[2] < y[2])

Offset(chars, ch) == Cardinality({d \in chars : Before(d, ch)})

HasSubstance(lines, chars) == \E ch \in chars : Letters[lines[ch[1]]][ch[2]]

\* Consecutive pieces share Overlap characters.
Step == MaxChars - Overlap

\* What is read at an offset.
Piece(chars, offset) ==
    {ch \in chars : Offset(chars, ch) \in offset..(offset + MaxChars - 1)}

\* Mutant: paragraphs of any length stay whole.
SplitNever(lines, chars) == {piece \in {chars} : HasSubstance(lines, piece)}

\* A text longer than MaxChars is read at the offsets 0, Step, ...; what has no
\* letter is skipped.
SplitLong(lines, chars) ==
    {piece \in IF Cardinality(chars) <= MaxChars THEN {chars}
               ELSE {Piece(chars, offset) :
                        offset \in {o \in 0..(Cardinality(chars) - 1) : o % Step = 0}} :
        HasSubstance(lines, piece)}

----------------------------------------------------------------------------

Articles(lines) == {i \in DOMAIN lines : lines[i] \in Headers}
Chapters(lines) == {i \in DOMAIN lines : lines[i] = "chapter"}

\* Mutant: an article that ends where the next one begins.
UpToNextArticle(lines, i) ==
    {j \in DOMAIN lines : i <= j /\ \A b \in Articles(lines) : i < b => j < b}

\* An article ends at the next one or at the next chapter's heading.
Body(lines, i) ==
    {j \in DOMAIN lines :
        i <= j /\ \A b \in Articles(lines) \cup Chapters(lines) : i < b => j < b}

\* Mutant: the first chapter of the act.
ChapterFirst(lines, i) ==
    LET above == {c \in Chapters(lines) : c <= i}
    IN  IF above = {} THEN 0 ELSE First(above)

\* The last heading at or above a line, 0 when there is none.
ChapterAt(lines, i) == Latest({c \in Chapters(lines) : c <= i})

\* Each article and the lines it consists of; a text without any is split as a
\* whole.
Provisions(lines) ==
    IF Articles(lines) = {}
    THEN {[article |-> 0, chapter |-> 0, lines |-> DOMAIN lines]}
    ELSE {[article |-> i, chapter |-> ChapterAt(lines, i), lines |-> Body(lines, i)] :
             i \in Articles(lines)}

Pieces(lines) ==
    UNION {UNION {{[text |-> piece, article |-> p.article, chapter |-> p.chapter] :
                      piece \in SplitLong(lines, Characters(lines, s))} :
                     s \in SplitParagraphs(lines, p.lines)} :
              p \in Provisions(lines)}

\* q is emitted before p: it begins before it.
Precedes(q, p) == \E x \in q.text : \A y \in p.text : Before(x, y)

\* All chunks of a text: a position is taken for every piece that is emitted.
Chunks(extracted) ==
    LET pieces == Pieces(Clean(extracted)) IN
    {[text |-> p.text, article |-> p.article, chapter |-> p.chapter,
      position |-> Cardinality({q \in pieces : Precedes(q, p)})] : p \in pieces}

============================================================================
