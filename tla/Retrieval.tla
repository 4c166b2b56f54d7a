----------------------------- MODULE Retrieval -----------------------------
(***************************************************************************)
(* What reaches the writer: the hybrid search of each sub-query            *)
(* (services/opensearch/client.py, retrieve), the cross-encoder's scores   *)
(* (services/reranker/client.py), and the merge of all sub-queries with    *)
(* its cap and cut (nodes/retriever.py).                                   *)
(*                                                                         *)
(* Sub-queries are searched, then reranked, all together, and the results  *)
(* are taken in plan order whoever answers first.  A chunk is its id; the  *)
(* engine's hit lists and the cross-encoder's scores are arbitrary.        *)
(***************************************************************************)
EXTENDS Integers, Sequences, FiniteSets, SequencesExt

CONSTANTS
    Queries,    \* sub-queries of the plan: 1..n, in its order
    Chunks,
    Scores,     \* logits of the cross-encoder
    PerLeg,     \* union_per_leg
    Depth,      \* candidates_per_leg
    RrfK,       \* rrf_k
    TopK,       \* rerank_candidates
    Floor,      \* score_floor
    MaxChunks,  \* max_chunks
    MinChunks,  \* delivery_min_chunks
    CutPercent  \* delivery_score_cut, when it is on, in hundredths

ASSUME SettingsArePositive ==
    /\ {PerLeg, Depth, RrfK, TopK, Floor, MaxChunks, MinChunks} \subseteq Nat \ {0}
    /\ CutPercent \in 1..100
ASSUME ScoresAreIntegers == Scores \subseteq Int
ASSUME PlanIsNumbered == IsFiniteSet(Queries) /\ Queries = 1..Cardinality(Queries)
ASSUME IndexIsFinite == IsFiniteSet(Chunks)

VARIABLES
    stage,
    fusion, cutOn,  \* settings: OPENSEARCH__FUSION, whether the cut is on
    legs,           \* legs[q]: the hits of the dense and of the keyword leg
    pool,           \* pool[q]: the candidates of q, in fused order
    ranked,         \* ranked[q]: what the reranker returned, best first
    delivered       \* the chunks in the notes

vars == <<stage, fusion, cutOn, legs, pool, ranked, delivered>>

Elements(s) == {s[i] : i \in DOMAIN s}
Rank(s, c) == CHOOSE i \in DOMAIN s : s[i] = c
Least(S) == CHOOSE x \in S : \A y \in S : x <= y
Greatest(S) == CHOOSE x \in S : \A y \in S : y <= x
Take(s, n) == SubSeq(s, 1, IF n < Len(s) THEN n ELSE Len(s))

\* The elements of S, each behind all that come before it.
InOrder(S, before(_, _)) ==
    [i \in 1..Cardinality(S) |->
        CHOOSE x \in S : Cardinality({y \in S : before(y, x)}) = i - 1]

\* A leg returns at most Depth hits, none twice; a leg that is off, or a scope
\* without a match, returns none.
Hits == {s \in SetToAllKPermutations(Chunks) : Len(s) <= Depth}

Init ==
    /\ stage = "search"
    /\ fusion \in {"union", "rrf"}
    /\ cutOn \in BOOLEAN
    /\ legs \in [Queries -> Hits \X Hits]
    /\ pool = [q \in Queries |-> <<>>]
    /\ ranked = [q \in Queries |-> <<>>]
    /\ delivered = {}

----------------------------------------------------------------------------
(* One sub-query's candidates.                                             *)

\* A pool is built by walking the dense leg, then the keyword leg: equal keys
\* keep the order in which the walk met the chunks.
Met(pair, c) ==
    IF c \in Elements(pair[1]) THEN Rank(pair[1], c)
    ELSE Len(pair[1]) + Rank(pair[2], c)

Cut(pair, n) == <<Take(pair[1], n), Take(pair[2], n)>>

Union(pair) == Elements(pair[1]) \cup Elements(pair[2])

\* Mutant: fused as a plain concatenation of the legs.
ConcatenationOrder(pair) ==
    LET before(c, d) == Met(pair, c) < Met(pair, d)
    IN  InOrder(Union(pair), before)

BestRank(pair, c) == Least({Rank(pair[l], c) : l \in {k \in 1..2 : c \in Elements(pair[k])}})

\* Each leg's best, ordered by the better of a chunk's ranks.
UnionOrder(pair) ==
    LET before(c, d) == \/ BestRank(pair, c) < BestRank(pair, d)
                        \/ /\ BestRank(pair, c) = BestRank(pair, d)
                           /\ Met(pair, c) < Met(pair, d)
    IN  InOrder(Union(pair), before)

\* Mutant: ranks added up as they are, the worse, the more.
RankSum(pair, c) ==
    <<(IF c \in Elements(pair[1]) THEN Rank(pair[1], c) ELSE 0)
      + (IF c \in Elements(pair[2]) THEN Rank(pair[2], c) ELSE 0), 1>>

\* The sum over the legs of 1 / (rrf_k + rank), as a fraction.
RrfScore(pair, c) ==
    LET i == RrfK + Rank(pair[1], c)
        j == RrfK + Rank(pair[2], c)
    IN  CASE c \notin Elements(pair[2]) -> <<1, i>>
          [] c \notin Elements(pair[1]) -> <<1, j>>
          [] OTHER -> <<i + j, i * j>>

\* Fractions with positive denominators.
Exceeds(x, y) == x[1] * y[2] > y[1] * x[2]

RrfOrder(pair) ==
    LET before(c, d) == \/ Exceeds(RrfScore(pair, c), RrfScore(pair, d))
                        \/ /\ ~Exceeds(RrfScore(pair, d), RrfScore(pair, c))
                           /\ Met(pair, c) < Met(pair, d)
    IN  InOrder(Union(pair), before)

Fused(method, pair) ==
    IF method = "rrf" THEN RrfOrder(Cut(pair, Depth)) ELSE UnionOrder(Cut(pair, PerLeg))

\* Mutant: everything the legs found.
AllCandidates(method, pair) == Fused(method, pair)

\* The fused list, cut to what the reranker is given.
Candidates(method, pair) == Take(Fused(method, pair), TopK)

Search ==
    /\ stage = "search"
    /\ stage' = "rerank"
    /\ pool' = [q \in Queries |-> Candidates(fusion, legs[q])]
    /\ UNCHANGED <<fusion, cutOn, legs, ranked, delivered>>

----------------------------------------------------------------------------

\* Each pool is scored against its own sub-query; equal scores keep the order.
Reranked(candidates, score) ==
    LET before(c, d) ==
            \/ score[c] > score[d]
            \/ score[c] = score[d] /\ Rank(candidates, c) < Rank(candidates, d)
        order == InOrder(Elements(candidates), before)
    IN  [i \in DOMAIN order |-> [chunk |-> order[i], score |-> score[order[i]]]]

\* A sub-query without candidates is not scored.
Rerank(q) ==
    /\ stage = "rerank"
    /\ pool[q] # <<>>
    /\ \E score \in [Elements(pool[q]) -> Scores] :
          ranked' = [ranked EXCEPT ![q] = Reranked(pool[q], score)]
    /\ pool' = [pool EXCEPT ![q] = <<>>]
    /\ legs' = [legs EXCEPT ![q] = <<<<>>, <<>>>>]
    /\ UNCHANGED <<stage, fusion, cutOn, delivered>>

----------------------------------------------------------------------------
(* The merge of the results, the lists the reranker returned.              *)

Found(results) ==
    UNION {{results[q][i].chunk : i \in DOMAIN results[q]} : q \in Queries}

\* Where a chunk is in the results: its sub-query and place.
Showings(results, c) ==
    {s \in Queries \X (1..Cardinality(Chunks)) :
        s[2] \in DOMAIN results[s[1]] /\ results[s[1]][s[2]].chunk = c}

\* Mutant: every sub-query judged against its own best alone.
OwnBest(results, q) == Greatest({results[q][i].score : i \in DOMAIN results[q]})

\* A sub-query is judged against its best, but never against less than the floor.
Denominator(results, q) == Greatest({OwnBest(results, q), Floor})

Value(results, s) == <<results[s[1]][s[2]].score, Denominator(results, s[1])>>

Earlier(s, t) == s[1] < t[1] \/ (s[1] = t[1] /\ s[2] < t[2])
FirstShowing(results, c) ==
    CHOOSE s \in Showings(results, c) :
        \A t \in Showings(results, c) : s = t \/ Earlier(s, t)

\* Mutant: a chunk counted as the first sub-query that found it saw it.
FirstValue(results, c) == Value(results, FirstShowing(results, c))

\* A chunk several sub-queries found keeps its best normalised score.
Normalised(results, c) ==
    Value(results, CHOOSE s \in Showings(results, c) :
              \A t \in Showings(results, c) : ~Exceeds(Value(results, t), Value(results, s)))

MergedOrder(results) ==
    LET before(c, d) ==
            \/ Exceeds(Normalised(results, c), Normalised(results, d))
            \/ /\ ~Exceeds(Normalised(results, d), Normalised(results, c))
               /\ Earlier(FirstShowing(results, c), FirstShowing(results, d))
    IN  InOrder(Found(results), before)

\* As many chunks as there are sub-queries are delivered whatever they score.
DeliveryFloor == Greatest({MinChunks, Cardinality(Queries)})

\* What is left of the merged order after the cap and the cut.
Delivery(results, cut) ==
    LET chunks == Take(MergedOrder(results), MaxChunks) IN
    {chunks[i] : i \in {j \in DOMAIN chunks :
        \/ ~cut
        \/ ~Exceeds(<<CutPercent, 100>>, Normalised(results, chunks[j]))
        \/ j <= DeliveryFloor}}

Deliver ==
    /\ stage = "rerank"
    /\ \A q \in Queries : pool[q] = <<>>
    /\ stage' = "done"
    /\ delivered' = Delivery(ranked, cutOn)
    /\ UNCHANGED <<fusion, cutOn, legs, pool, ranked>>

Next == Search \/ (\E q \in Queries : Rerank(q)) \/ Deliver

Spec == Init /\ [][Next]_vars

============================================================================
