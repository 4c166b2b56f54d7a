----------------------------- MODULE Ingestion -----------------------------
(***************************************************************************)
(* Writing acts into the index: the Airflow DAG of a legal domain          *)
(* (airflow/dags/ingest_domain.py) and the command line's direct run       *)
(* (airflow/ingest.py).                                                    *)
(*                                                                         *)
(* A run goes through its stages with one task per act.  A stage maps over *)
(* the result of the whole stage before it, so it starts when every task   *)
(* of that one has succeeded, and never when one has failed for good.      *)
(* Tasks hand files to the next stage under the act's id.  An attempt that *)
(* raises, times out or loses its worker is tried again.                   *)
(***************************************************************************)
EXTENDS LawIndex

CONSTANT Retries  \* retries of a task; 3 in the code

ASSUME RetriesAreBounded == Retries \in Nat

VARIABLES
    files,   \* files[a]: what DATA_DIR holds of act a
    run,     \* run[d]: the run of the DAG ingest_<d>
    ingests  \* bound: the ingestions still to come

ingestVars == <<files, run, ingests>>

Stages == <<"act_ids", "fetching", "pdf_parsing", "chunking",
            "metadata_creating", "indexing_and_storing">>
FileKinds == {"pdf", "txt", "raw_chunks", "law_chunks"}

\* The file a stage reads and the one it writes.
Input == [pdf_parsing |-> "pdf", chunking |-> "txt", metadata_creating |-> "raw_chunks",
          indexing_and_storing |-> "law_chunks"]
Output == [fetching |-> "pdf", pdf_parsing |-> "txt", chunking |-> "raw_chunks",
           metadata_creating |-> "law_chunks"]

Domains == Range(Domain)
ActsForDomain(domain) == {a \in Acts : Domain[a] = domain}

\* What a run is triggered with: the acts asked for, which win over force.
Confs == {c \in [acts : SUBSET Acts, force : BOOLEAN] : c.acts # {} => ~c.force}
DefaultConf == [acts |-> {}, force |-> FALSE]

NoRun == [stage |-> "none", conf |-> DefaultConf,
          acts |-> {}, left |-> <<>>, failed |-> {}]

IngestInit == run = [d \in Domains |-> NoRun]

\* left[t]: the retries task t still has.  act_ids is one task for its domain.
Trigger(d, conf) ==
    /\ run[d].stage = "none"
    /\ ingests > 0
    /\ ingests' = ingests - 1
    /\ run' = [run EXCEPT ![d] = [NoRun EXCEPT
                   !.stage = "act_ids", !.conf = conf, !.left = [t \in {d} |-> Retries]]]
    /\ UNCHANGED <<files, index>>

Pending(d, task, stage) == run[d].stage = stage /\ task \in DOMAIN run[d].left

Finish(r, task) == [r EXCEPT !.left = Restrict(@, DOMAIN @ \ {task})]

\* The default run asks the search service for a count by act that the
\* service does not have, and fails; so does an act of another domain.
ActIds(d) ==
    LET conf == run[d].conf IN
    /\ Pending(d, d, "act_ids")
    /\ conf # DefaultConf
    /\ conf.acts \subseteq ActsForDomain(d)
    /\ run' = [run EXCEPT ![d] =
                  [Finish(@, d) EXCEPT !.conf = DefaultConf,
                       !.acts = IF conf.force THEN ActsForDomain(d) ELSE conf.acts]]
    /\ UNCHANGED <<files, ingests, index>>

\* The PDF is fetched and checked to be one.
Fetching(d, act) ==
    /\ Pending(d, act, "fetching")
    /\ files' = [files EXCEPT ![act] = @ \cup {Output.fetching}]
    /\ run' = [run EXCEPT ![d] = Finish(@, act)]
    /\ UNCHANGED <<ingests, index>>

\* pdf_parsing, chunking and metadata_creating read a file and write the next.
Deriving(d, act, stage) ==
    /\ Pending(d, act, stage)
    /\ Input[stage] \in files[act]
    /\ files' = [files EXCEPT ![act] = @ \cup {Output[stage]}]
    /\ run' = [run EXCEPT ![d] = Finish(@, act)]
    /\ UNCHANGED <<ingests, index>>

IndexingAndStoring(d, act) ==
    /\ Pending(d, act, "indexing_and_storing")
    /\ Input.indexing_and_storing \in files[act]
    /\ IndexChunks(index, Chunks({act}), index')
    /\ run' = [run EXCEPT ![d] = Finish(@, act)]
    /\ UNCHANGED <<files, ingests>>

\* Mutant: one retry too many.
FailedOnceMore(r, task) ==
    IF r.left[task] >= 0 THEN [r EXCEPT !.left[task] = @ - 1]
    ELSE [Finish(r, task) EXCEPT !.failed = @ \cup {task}]

\* An attempt fails, and the last one the task.
Failed(r, task) ==
    IF r.left[task] > 0 THEN [r EXCEPT !.left[task] = @ - 1]
    ELSE [Finish(r, task) EXCEPT !.failed = @ \cup {task}]

\* A failed attempt leaves behind what it did.
TaskFails(d, task) ==
    /\ \E stage \in Range(Stages) : Pending(d, task, stage)
    /\ run' = [run EXCEPT ![d] = Failed(@, task)]
    /\ \/ UNCHANGED index
       \/ /\ run[d].stage = "act_ids" /\ run[d].conf = DefaultConf
          /\ index' = EnsureIndex(index)
       \/ /\ run[d].stage = "indexing_and_storing"
          /\ Input.indexing_and_storing \in files[task]
          /\ IndexChunksFails(index, Chunks({task}), index')
    /\ UNCHANGED <<files, ingests>>

\* Mutant: the next stage begins whatever became of this one's tasks.
NextStageRegardless(r) ==
    LET k == CHOOSE k \in DOMAIN Stages : Stages[k] = r.stage IN
    IF k = Len(Stages) THEN NoRun
    ELSE [r EXCEPT !.stage = Stages[k + 1], !.left = [a \in r.acts |-> Retries]]

\* A stage begins once every task of the one before has ended well.
NextStage(r) ==
    LET k == CHOOSE k \in DOMAIN Stages : Stages[k] = r.stage IN
    IF r.failed # {} \/ k = Len(Stages) THEN NoRun
    ELSE [r EXCEPT !.stage = Stages[k + 1], !.left = [a \in r.acts |-> Retries]]

Schedule(d) ==
    /\ run[d].stage # "none"
    /\ DOMAIN run[d].left = {}
    /\ run' = [run EXCEPT ![d] = NextStage(@)]
    /\ UNCHANGED <<files, ingests, index>>

\* The command line prepares all its acts in memory and writes them at once;
\* a dry run, like a failure on the way there, writes nothing.
DirectIngest(acts) ==
    /\ ingests > 0
    /\ ingests' = ingests - 1
    /\ \/ IndexChunks(index, Chunks(acts), index')
       \/ IndexChunksFails(index, Chunks(acts), index')
    /\ UNCHANGED <<files, run>>

\* What Airflow goes on with by itself.
RunStep(d) ==
    \/ ActIds(d)
    \/ \E act \in Acts :
        \/ Fetching(d, act)
        \/ \E stage \in DOMAIN Input : stage # "indexing_and_storing" /\ Deriving(d, act, stage)
        \/ IndexingAndStoring(d, act)
    \/ \E task \in Acts \cup {d} : TaskFails(d, task)
    \/ Schedule(d)

IngestNext ==
    \/ \E d \in Domains : RunStep(d) \/ \E conf \in Confs : Trigger(d, conf)
    \/ \E acts \in {ActsForDomain(d) : d \in Domains} \cup {{a} : a \in Acts} :
          DirectIngest(acts)

============================================================================
