---------------------------- MODULE AnswerCache ----------------------------
(***************************************************************************)
(* The answers in Redis, which outlive the process that stored them:       *)
(* services/cache.  A key is the normalised question and what the factory  *)
(* takes from the settings; errors of Redis are misses.                    *)
(***************************************************************************)
EXTENDS Functions

CONSTANTS
    Questions,  \* the questions asked
    Normal      \* Normal[q]: q in lower case with single spaces

ASSUME SomethingIsAsked == Questions # {}

VARIABLE entries  \* keys to answers

CacheInit == entries = <<>>

\* Mutant: an index in place of another is not noticed.
FingerprintOfModels(pipeline) ==
    [llm |-> pipeline.llm, embedding |-> pipeline.embedding, reranker |-> pipeline.reranker]

\* What shapes an answer, without the fast and the reasoning model.
Fingerprint(pipeline) ==
    [llm |-> pipeline.llm, embedding |-> pipeline.embedding,
     reranker |-> pipeline.reranker, index |-> pipeline.index]

Key(question, pipeline) ==
    [question |-> Normal[question], fingerprint |-> Fingerprint(pipeline)]

IsCached(question, pipeline) == Key(question, pipeline) \in DOMAIN entries
Cached(question, pipeline) == entries[Key(question, pipeline)]

\* Storing may fail, and nobody learns of it.
StoreResponse(question, pipeline, answer) ==
    LET key == Key(question, pipeline) IN
    \/ entries' = [k \in DOMAIN entries \cup {key} |->
                      IF k = key THEN answer ELSE entries[k]]
    \/ UNCHANGED entries

\* The time to live of an entry is over.
Expire ==
    \E key \in DOMAIN entries : entries' = Restrict(entries, DOMAIN entries \ {key})

============================================================================
