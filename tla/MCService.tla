----------------------------- MODULE MCService -----------------------------
(***************************************************************************)
(* One page, another client and two people for TLC.                        *)
(***************************************************************************)
EXTENDS ServiceProperties

\* Local models, and remote ones with tracing.
Pipeline(llm, embedding, index, fast, clients) ==
    [llm |-> llm, embedding |-> embedding, reranker |-> "r", index |-> index, fast |-> fast,
     remote |-> {"embedder"} \cap clients, tracing |-> {"langfuse"} \cap clients]

Plain == Pipeline("m", "e", "v1", "f", {})
Repointed == Pipeline("m", "e", "v2", "f", {})
Faster == Pipeline("m", "e", "v1", "g", {"embedder", "langfuse"})
Unset == Pipeline("", "e", "v1", "f", {})
NoEmbedder == Pipeline("m", "", "v1", "f", {})
NoReranker == [Plain EXCEPT !.reranker = ""]

MCPipelines == {Plain, Repointed, Faster, Unset, NoEmbedder, NoReranker}
\* Two spellings of one question, and another question.
MCNormal == [q \in {"q", "Q", "other"} |-> IF q = "other" THEN q ELSE "q"]

Budget(processes, accounting, clicking, calling, failing) ==
    [boots |-> processes, registrations |-> accounting, clicks |-> clicking,
     calls |-> calling, faults |-> failing]

\* Every way to boot and stop; answers that outlive a process; the model;
\* registrations; the page with a failure, and with another client.
MCBudgets ==
    {Budget(<<p>>, 0, 0, 0, 3) : p \in MCPipelines}
        \cup {Budget(<<Plain, p>>, 0, 0, 2, 1) : p \in {Repointed, Faster, NoReranker}}
        \cup {Budget(<<Plain>>, 0, 0, 2, 2), Budget(<<Unset>>, 3, 1, 0, 1)}
        \cup {Budget(<<Plain>>, 0, 3, 0, 1), Budget(<<Plain>>, 0, 3, 1, 0)}

\* Only the other client has a choice of questions: a bubble has its ask.
\* Clicks are not fair, so the fairness asks for nothing this forbids.
OnePageQuestion ==
    /\ sending # NoSend => sending.question = "q"
    /\ queued # <<>> => queued[1].question = "q"

AskedOfOnePage == OnePageQuestion'

============================================================================
