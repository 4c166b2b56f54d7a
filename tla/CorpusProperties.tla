-------------------------- MODULE CorpusProperties --------------------------
(***************************************************************************)
(* What ingestion and maintenance promise about the index.                 *)
(***************************************************************************)
EXTENDS Corpus

Paragraphs == UNION {Range(Source[a]) : a \in Acts}
Labels == Range(Header) \cup {Cut(label) : label \in Range(Header)}
             \cup UNION {{o.label : o \in Articles[a]} : a \in Acts}

IsStore(store) ==
    \/ store = NoIndex
    \/ \A id \in DOMAIN store :
          /\ id.act \in Acts
          /\ store[id].article \in Labels
          /\ Range(store[id].text.paras) \subseteq Range(Source[id.act])
          /\ store[id].text.mark \in Marks

\* Documents and the state of runs and scripts have the shapes the code gives
\* them.
TypeOK ==
    /\ IsStore(index) /\ IsStore(target)
    /\ files \in [Acts -> SUBSET FileKinds]
    /\ \A d \in Domains :
        /\ run[d].stage \in Range(Stages) \cup {"none"}
        /\ run[d].conf \in Confs
        /\ run[d].acts \subseteq ActsForDomain(d)
        /\ \A t \in DOMAIN run[d].left : run[d].left[t] \in 0..Retries
        /\ DOMAIN run[d].left \cup run[d].failed \subseteq run[d].acts \cup {d}
    /\ script \in Phases
    /\ live \in BOOLEAN
    /\ ingests \in Nat /\ scripts \in Nat

\* The law an index holds, act by act.
Law(store) == UNION {{id.act} \X Range(store[id].text.paras) : id \in DOMAIN store}
Held(store) == IF store = NoIndex THEN {} ELSE Law(store)

\* The header a chunk opens with.
Opening(doc) == IF Substance(doc.text) THEN Header[doc.text.paras[1]] ELSE NoLabel

\* Sorted by their numbers, the chunks of an article have this one behind its
\* own header and no other's, or none of them has a header.
InPlace(id) ==
    LET article == hits[id].article
        same == Same(ArticleOf(id, hits[id]))
        number(other) == Provision(hits[other])
        behind(own) ==
            /\ number(own) < number(id)
            /\ \A other \in same : Opening(hits[other]) \notin {NoLabel, article} =>
                   number(other) < number(own) \/ number(id) < number(other)
    IN  IF article = NoLabel THEN \A other \in same : Opening(hits[other]) = NoLabel
        ELSE \E own \in same : Opening(hits[own]) = article /\ (own = id \/ behind(own))

\* No law ever leaves the index: not when an ingestion or a script fails half
\* way, is retried, interrupted or overlaps another.  Two things the scripts do
\* take law out: re-splitting an article deletes what is out of place in it,
\* and a migration whose target is the live index deletes that index.
LawIsNeverLost ==
    [][\A gone \in Held(index) \ Held(index)' :
          \/ script = "resplitting"
             /\ \E id \in doomed \ doomed' :
                   gone[1] = id.act /\ gone[2] \in Range(id.text.paras) /\ ~InPlace(id)
          \/ live /\ script' = "copying"]_vars

\* The labels a paragraph has: the printed ones, and those of its articles as
\* document order restores them.
LabelsOf ==
    [a \in Acts |-> [p \in Range(Source[a]) |->
        PrintedOver(a, p) \cup {o.label : o \in {o \in Articles[a] : p \in o.body}}]]

\* No script moves a provision under the label of another article, whatever
\* scripts ran before, were interrupted or ran twice: a chunk has the label
\* its own header prints or stands for.
LabelsStayTrue ==
    \A store \in {index, target} \ {NoIndex} :
        \A id \in DOMAIN store :
            Substance(store[id].text) =>
                store[id].article \in LabelsOf[id.act][store[id].text.paras[1]]

\* A task of a run never starts before the file it reads is written, whichever
\* attempts failed before, and nothing of a domain is indexed by a run one of
\* whose acts could not be fetched, parsed or chunked.
StagesAreWhole ==
    \A d \in Domains :
        run[d].stage \in DOMAIN Input /\ DOMAIN run[d].left # {} =>
            \A act \in run[d].acts : Input[run[d].stage] \in files[act]

\* When the cleaning comes to verify, no chunk carries page furniture, however
\* often it was interrupted before and whatever was ingested meanwhile.
CleanedForGood ==
    script = "cleaning" /\ plan = <<>> /\ doomed = {} =>
        \A id \in DOMAIN index : ~Junk(index[id].text)

\* Correcting the copy keeps every document apart and its text as it was: none
\* is dropped or collapses with another.  Only the label changes.
MigrationKeepsDocuments ==
    [][script = "patching" /\ target' # target =>
          /\ DOMAIN target' = DOMAIN target
          /\ \A id \in DOMAIN target :
                [target'[id] EXCEPT !.article = target[id].article] = target[id]]_vars

============================================================================
