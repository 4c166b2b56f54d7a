-------------------------- MODULE ServiceProperties --------------------------
(***************************************************************************)
(* What the service promises, whatever its processes, clients and stores   *)
(* do.                                                                     *)
(***************************************************************************)
EXTENDS Service

\* Every part of the state has the shape the code gives it, and only searches
\* that are reranking wait for the model's lock or hold it.
TypeOK ==
    /\ phase \in Startup \cup DOMAIN Closes \cup {"down", "serving", "stopped"}
    /\ settings \in Pipelines \cup {NoPipeline}
    /\ app \subseteq Attributes /\ opened \subseteq Clients
    /\ model \in Asks \cup {"warmup", NoModel}
    /\ waiting \cup ({holder} \ {NoModel}) \subseteq {a \in Asks : At(a, "reranking")}
    /\ abandoned \in 0..Cardinality(Asks)
    /\ \A key \in DOMAIN entries : entries[key].ask \in Asks /\ entries[key].pipeline \in Pipelines
    /\ \A a \in Asks : ask[a].text \in Texts /\ ask[a].chat \in Chats \cup {Elsewhere}
    /\ \A c \in Chats : \A i \in DOMAIN written[c] : written[c][i].text \in Texts
    /\ \A i \in DOMAIN shown : shown[i].text \in Texts
    /\ token \in {"none", "valid", "expired"} /\ value \in Chats \cup {NoChat}
    /\ choices \subseteq Chats

\* While a process lives its reranker is loaded once: a loaded model is never
\* replaced, and no load starts beside another that somebody waits for.
ModelIsLoadedOnce ==
    [][/\ model # NoModel /\ phase' # "down" => model' = model
       /\ holder' \notin {holder, NoModel} => holder = NoModel /\ model = NoModel]_vars

\* What a process finds in the cache answers the question asked, and was
\* written by a process with the same writer, embeddings, reranker and index:
\* across every restart under other settings.
HitsShareThePipeline ==
    phase = "serving" =>
        \A q \in Questions :
            IsCached(q, settings) =>
                LET hit == Cached(q, settings) IN
                /\ Normal[ask[hit.ask].question] = Normal[q]
                /\ \A part \in {"llm", "embedding", "reranker", "index"} :
                      hit.pipeline[part] = settings[part]

\* An answer that the page shows to the end without a warning is in a
\* transcript, in full and for this question, although the page may show the
\* bubbles of one chat under the name of another.  What it shows of an answer
\* without a warning and short of the end is still being shown, or was cut at a
\* line separator, or its handler raised before its last yield, or was asked
\* for another question meanwhile.
ShownAnswersAreWritten ==
    \A i \in DOMAIN shown :
        LET b == shown[i] IN
        /\ b.text \in Asks => \E c \in Chats : \E j \in DOMAIN written[c] : written[c][j] = b
        /\ b.text = "part" => \/ At(b.ask, "broken")
                              \/ b.ask \in unfinished
                              \/ sending # NoSend /\ sending.ask = b.ask

\* When a process has stopped in order, it has closed what it had opened: but
\* for the clients of a cache and of an index that did not answer at its boot,
\* which it dropped, and those of its models and embedder, which nothing closes.
StoppedIsClosed ==
    phase = "stopped" => opened \subseteq {"llm", "embedder"} \cup ({"cache", "search"} \ app)

\* However registrations of one name overlap, one account has it.
OneAccountPerName == \A u, v \in users : u.name = v.name => u = v

\* Every ask ends, also behind a caller that was cancelled while it loaded the
\* model, or whose load failed.
AsksEnd == \A a \in Asks : InFlight(a) ~> ~InFlight(a)

============================================================================
