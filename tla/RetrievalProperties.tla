------------------------ MODULE RetrievalProperties ------------------------
(***************************************************************************)
(* What the search, the merge and the cut must not lose, stated without    *)
(* the orders and normalised values the code computes.                     *)
(***************************************************************************)
EXTENDS Retrieval

TypeOK ==
    /\ stage \in {"search", "rerank", "done"}
    /\ fusion \in {"union", "rrf"}
    /\ cutOn \in BOOLEAN
    /\ legs \in [Queries -> Hits \X Hits]
    /\ \A q \in Queries : /\ pool[q] \in Seq(Chunks)
                          /\ Len(pool[q]) <= TopK
                          /\ ranked[q] \in Seq([chunk : Chunks, score : Scores])
    /\ delivered \subseteq Chunks

Pooled == stage = "rerank"

\* _rrf's docstring: "a union never drops a leg's top hit", however the pool is
\* capped afterwards and whatever the other leg returned.
LegsKeepTheirBest ==
    (Pooled /\ fusion = "union" /\ TopK > 1) =>
        \A q \in Queries : \A l \in 1..2 :
            legs[q][l] # <<>> => legs[q][l][1] \in Elements(pool[q])

\* c is better placed than d in every leg that has d.
Dominates(pair, c, d) ==
    /\ d \in Elements(pair[1]) \cup Elements(pair[2])
    /\ \A l \in 1..2 : d \in Elements(pair[l]) =>
           c \in Elements(pair[l]) /\ Rank(pair[l], c) < Rank(pair[l], d)

\* Under either fusion a candidate brings along everything that beats it in
\* every leg, and follows it.
FusionRespectsLegs ==
    Pooled => \A q \in Queries : \A c \in Chunks : \A d \in Elements(pool[q]) :
        Dominates(legs[q], c, d) =>
            c \in Elements(pool[q]) /\ Rank(pool[q], c) < Rank(pool[q], d)

----------------------------------------------------------------------------

Delivered == stage = "done"
Best(q) == {c \in Chunks : \E i \in DOMAIN ranked[q] :
               ranked[q][i].chunk = c /\ ranked[q][i].score = OwnBest(ranked, q)}
Genuine(q) == ranked[q] # <<>> /\ OwnBest(ranked, q) >= Floor
GenuineBest == UNION {Best(q) : q \in {p \in Queries : Genuine(p)}}

\* A sub-query that found something strong gets its best to the writer: neither
\* another one's larger logits nor a weak one rescaled to its own best takes the
\* place.  (When more chunks tie for best than fit, places are theirs alone.)
GenuineBestIsDelivered ==
    Delivered => IF Cardinality(GenuineBest) <= MaxChunks
                 THEN GenuineBest \subseteq delivered
                 ELSE delivered \subseteq GenuineBest

\* c's showing in p is worth no less than d's in q.
AtLeastAsGood(c, p, d, q) ==
    \E i \in DOMAIN ranked[p], j \in DOMAIN ranked[q] :
        /\ ranked[p][i].chunk = c
        /\ ranked[q][j].chunk = d
        /\ ~Exceeds(Value(ranked, <<q, j>>), Value(ranked, <<p, i>>))

\* A chunk several sub-queries found is credited with its best showing: whatever
\* is delivered holds its own in some sub-query against every showing of every
\* chunk that is left out.
DeliveredHoldTheirOwn ==
    Delivered => \A c \in delivered : \A d \in Found(ranked) \ delivered :
        \A q \in Queries : d \in {ranked[q][i].chunk : i \in DOMAIN ranked[q]} =>
            \E p \in Queries : AtLeastAsGood(c, p, d, q)

----------------------------------------------------------------------------
(* What the comments claim and the code does not do.                       *)

\* nodes/retriever.py, lines 90-92: the cut keeps "never fewer than one chunk per
\* sub-query", since a provision that merely scores lower than its siblings "is
\* still the one its sub-query was planned to find": when the cap has room for
\* everything, every sub-query that found something sees a chunk delivered.
CutSparesEverySubQuery ==
    (Delivered /\ Cardinality(Found(ranked)) <= MaxChunks) =>
        \A q \in Queries : ranked[q] # <<>> =>
            \E i \in DOMAIN ranked[q] : ranked[q][i].chunk \in delivered

============================================================================
