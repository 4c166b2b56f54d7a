------------------------- MODULE ChunkerProperties -------------------------
(***************************************************************************)
(* What splitting an act must keep, stated on the lines of the extracted   *)
(* text rather than on bodies, paragraphs and offsets.                     *)
(***************************************************************************)
EXTENDS Chunker

\* A text is lines, and no chunk of it is empty or longer than max_chars.
TypeOK ==
    /\ text \in Seq(Kinds)
    /\ \A c \in Chunks(text) :
        /\ Cardinality(c.text) \in 1..MaxChars
        /\ {c.article, c.chapter} \subseteq 0..Len(text)
        /\ c.position \in Nat

LinesOf(chunk) == {ch[1] : ch \in chunk.text}

\* The header a line stands under: the last article or chapter heading.
Heading(i) == Latest({j \in 1..i : text[j] \in Headers \cup {"chapter"}})

\* Lines that belong to the law: those of articles, or everything in a text
\* without any; titles of chapters, and what precedes the first article, not.
Law ==
    IF \E i \in DOMAIN text : text[i] \in Headers
    THEN {i \in DOMAIN text : Heading(i) # 0 /\ text[Heading(i)] \in Headers}
    ELSE DOMAIN text

LettersAt(i) == {k \in DOMAIN Letters[text[i]] : Letters[text[i]][k]}

\* The letters printed on some lines, without the pages' footers.
Printed(s) == UNION {{i} \X LettersAt(i) : i \in {j \in s : text[j] # "footer"}}

\* Nothing of the law is lost and nothing else is indexed: the letters of all
\* chunks are those of the articles' lines.
LawIsKept ==
    (UNION {c.text : c \in Chunks(text)}) \cap Printed(DOMAIN text) = Printed(Law)

\* "A chunk NEVER mixes two paragraphs", nor two articles: a number with text
\* behind it opens its chunk, or follows a header that stands alone.
ParagraphsNeverMix ==
    \A c \in Chunks(text) : \A i, j \in LinesOf(c) : i < j =>
        /\ text[j] \notin Headers
        /\ (text[j] = "paragraph" \/ (text[j] = "number" /\ j # Latest(LinesOf(c)))) =>
               text[i] = "article" /\ \A k \in LinesOf(c) : k = i \/ k >= j

\* A chunk carries the article and the chapter it is printed under.
LabelsAreRight ==
    (\E i \in DOMAIN text : text[i] \in Headers) =>
        \A c \in Chunks(text) : \A i \in LinesOf(c) :
            /\ c.article = Latest({j \in 1..i : text[j] \in Headers})
            /\ c.chapter = Latest({j \in 1..i : text[j] = "chapter"})

----------------------------------------------------------------------------
(* What the comments claim and the code does not do.                       *)

\* clean's docstring: stripping comes first, "so the footer cannot create a
\* paragraph boundary where the page happened to break": an article is split
\* into as many chunks as it is when no page breaks in it.
FootersMakeNoBoundary ==
    (text # <<>> /\ text[1] \in Headers) => Cardinality(Chunks(text)) =
        Cardinality(Chunks(SelectSeq(text, LAMBDA kind : kind # "footer")))

============================================================================
