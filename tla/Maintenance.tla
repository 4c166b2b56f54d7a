---------------------------- MODULE Maintenance ----------------------------
(***************************************************************************)
(* The scripts that repair an index in place: clean_index_footers,         *)
(* fix_superscript_labels, migrate_index, resplit_merged_paragraphs.  Each *)
(* scans, decides from what it scanned, and then writes one request after  *)
(* another; it can be interrupted between any two, and one of them can     *)
(* fail.  Without --apply a script only scans.                             *)
(***************************************************************************)
EXTENDS LawIndex

CONSTANTS
    Batch,      \* chunks per reindex call of the cleaning
    ScanLimit   \* hits of the unpaged search of the re-splitting; 10000

ASSUME ScansAreBounded == Batch \in Nat \ {0} /\ ScanLimit \in Nat \ {0}

VARIABLES
    script,   \* what the running script does next, "none" without one
    plan,     \* what it has yet to write, by chunk id
    doomed,   \* the chunks it has yet to delete
    todo,     \* the acts or articles it has yet to go through
    hits,     \* the scanned chunks of the articles to re-split
    target,   \* the index law-chunks-v2, unless settings name it
    live,     \* the index settings name is law-chunks-v2
    scripts   \* bound: the scripts still to come

scan == <<plan, doomed, todo, hits>>
maintenanceVars == <<script, scan, target, live, scripts>>

Phases == {"none", "cleaning", "relabelling", "copying", "patching", "resplitting"}

NothingScanned == plan = <<>> /\ doomed = {} /\ todo = {} /\ hits = <<>>

MaintenanceInit ==
    /\ script = "none"
    /\ NothingScanned
    /\ target = NoIndex

Launch(phase) ==
    /\ script = "none"
    /\ scripts > 0
    /\ scripts' = scripts - 1
    /\ script' = phase

\* A script's search client creates a missing index when it starts.
Opened == EnsureIndex(index)

\* The choices of limit members of a set, or all of them.
UpTo(limit, S) == kSubset(IF Cardinality(S) < limit THEN Cardinality(S) ELSE limit, S)

\* A script ends, or dies, and forgets what it scanned.
Leave == script' = "none" /\ plan' = <<>> /\ doomed' = {} /\ todo' = {} /\ hits' = <<>>

----------------------------------------------------------------------------
(* clean_index_footers *)

\* What cleaning does to a text.
Cleaning(text) ==
    CASE CleanText(text) = text -> "none"
      [] ~Junk(text) -> "skip_whitespace_only"
      [] Substance(CleanText(text)) -> "clean"
      [] OTHER -> "delete"

Scanned(action) == {id \in DOMAIN Opened : Cleaning(Opened[id].text) = action}

StartCleaning ==
    /\ Launch("cleaning")
    /\ index' = Opened
    /\ plan' = Restrict(Opened, Scanned("clean"))
    /\ doomed' = Scanned("delete")
    /\ UNCHANGED <<todo, hits, target, live>>

\* The text is read again, the rest comes from the scan.
CleanedRows(rows) ==
    [id \in rows |-> [plan[id] EXCEPT !.text = CleanText(index[id].text)]]

\* Mutant: a batch that failed is passed over.
CleanBatchRegardless ==
    /\ script = "cleaning"
    /\ plan # <<>>
    /\ \E rows \in UpTo(Batch, DOMAIN plan) :
        /\ rows \subseteq DOMAIN index
        /\ \/ IndexChunks(index, CleanedRows(rows), index')
           \/ IndexChunksFails(index, CleanedRows(rows), index')
        /\ plan' = Restrict(plan, DOMAIN plan \ rows)
    /\ UNCHANGED <<script, doomed, todo, hits, target, live, scripts>>

\* One batch is written and embedded anew under the ids it had.
CleanBatch ==
    /\ script = "cleaning"
    /\ plan # <<>>
    /\ \E rows \in UpTo(Batch, DOMAIN plan) :
        /\ rows \subseteq DOMAIN index
        /\ \/ /\ IndexChunks(index, CleanedRows(rows), index')
              /\ plan' = Restrict(plan, DOMAIN plan \ rows)
              /\ UNCHANGED <<script, doomed, todo, hits>>
           \/ /\ IndexChunksFails(index, CleanedRows(rows), index')
              /\ Leave
    /\ UNCHANGED <<target, live, scripts>>

CleanDelete ==
    /\ script = "cleaning"
    /\ plan = <<>>
    /\ \E id \in doomed :
        /\ index' = DeleteChunk(index, id)
        /\ doomed' = doomed \ {id}
    /\ UNCHANGED <<script, plan, todo, hits, target, live, scripts>>

\* The scan that verifies changes nothing.
CleanEnd ==
    /\ script = "cleaning"
    /\ plan = <<>> /\ doomed = {}
    /\ Leave
    /\ UNCHANGED <<index, target, live, scripts>>

----------------------------------------------------------------------------
(* fix_superscript_labels *)

Flat(label) == Label(label.num \o label.sup, <<>>, label.letter)

Number(digits) == FoldLeft(LAMBDA n, digit : 10 * n + digit, 0, digits)

\* What follows the digits of the last plain article, if anything does.
Suffix(base, num) ==
    IF base # <<>> /\ IsStrictPrefix(base, num) THEN SubSeq(num, Len(base) + 1, Len(num))
    ELSE <<>>

\* A suffix is a superscript when it goes on counting.
Advances(seen, head) ==
    LET suffix == Suffix(seen.base, head.num) IN
    /\ suffix # <<>>
    /\ suffix[1] # 0
    /\ \/ Number(suffix) > seen.last
       \/ Number(suffix) = seen.last /\ head.letter # ""

Restore(seen, head) ==
    LET suffix == Suffix(seen.base, head.num)
        as(base, last, label) == [base |-> base, last |-> last, label |-> label]
    IN  CASE head.sup # <<>> -> as(head.num, Number(head.sup), head)
          [] head.sup = <<>> /\ Advances(seen, head) ->
                 as(seen.base, Number(suffix), Label(seen.base, suffix, head.letter))
          [] OTHER -> as(head.num, 0, head)

\* The articles of a text, labelled in document order, and their paragraphs.
Occurrences(paras) ==
    LET seen[i \in 0..Len(paras)] ==
            CASE i = 0 -> [base |-> <<>>, last |-> 0, label |-> NoLabel]
              [] i \in Heads(paras) -> Restore(seen[i - 1], Header[paras[i]])
              [] OTHER -> seen[i - 1]
    IN  {[label |-> seen[h].label,
          body |-> {paras[i] : i \in {i \in DOMAIN paras : h <= i /\ h = HeadAt(paras, i)}}] :
             h \in Heads(paras)}

Articles == [act \in Acts |-> Occurrences(Source[act])]

\* A chunk is found in an article by how its text begins; furniture there
\* hides it.
FoundIn(text, body) == Substance(text) /\ ~Junk(text) /\ text.paras[1] \in body

\* Mutant: the text is not asked which of several labels it has.
AnyCandidate(act, doc) ==
    LET labels == {o.label : o \in {o \in Articles[act] : Flat(o.label) = doc.article}}
    IN  {label \in labels : label = CHOOSE first \in labels : TRUE}

\* The labels a chunk can have: those that read like its own once flattened,
\* and if they are several, those of the articles it is found in.
Candidates(act, doc) ==
    LET options == {o \in Articles[act] : Flat(o.label) = doc.article}
        labels == {o.label : o \in options}
    IN  IF Cardinality(labels) <= 1 THEN labels
        ELSE {o.label : o \in {o \in options : FoundIn(doc.text, o.body)}}

Relabelled(act) ==
    LET settled == {id \in DOMAIN Opened :
            /\ id.act = act
            /\ Cardinality(Candidates(act, Opened[id])) = 1
            /\ Opened[id].article \notin Candidates(act, Opened[id])}
    IN  [id \in settled |-> CHOOSE label \in Candidates(act, Opened[id]) : TRUE]

\* One act, from the text the ingestion left on disk.
StartRelabelling(act) ==
    /\ Launch("relabelling")
    /\ \E o \in Articles[act] : o.label.sup # <<>>
    /\ index' = Opened
    /\ plan' = Relabelled(act)
    /\ UNCHANGED <<doomed, todo, hits, target, live>>

Relabel ==
    /\ script = "relabelling"
    /\ \E id \in DOMAIN plan \cap DOMAIN index :
        /\ index' = UpdateArticle(index, id, plan[id])
        /\ plan' = Restrict(plan, DOMAIN plan \ {id})
    /\ UNCHANGED <<script, doomed, todo, hits, target, live, scripts>>

RelabelEnd ==
    /\ script = "relabelling"
    /\ plan = <<>>
    /\ Leave
    /\ UNCHANGED <<index, target, live, scripts>>

----------------------------------------------------------------------------
(* migrate_index *)

\* The target is deleted first, whatever it is.
StartMigration ==
    /\ Launch("copying")
    /\ index # NoIndex
    /\ target' = NoIndex
    /\ index' = IF live THEN NoIndex ELSE index
    /\ UNCHANGED <<scan, live>>

\* The cluster copies the source; it refuses to copy an index onto itself,
\* which by then was created anew.
Copy ==
    /\ script = "copying"
    /\ IF live THEN /\ index' = EnsureIndex(index)
                    /\ Leave
                    /\ UNCHANGED target
       ELSE /\ target' = index
            /\ script' = "patching"
            /\ todo' = {id.act : id \in DOMAIN index}
            /\ UNCHANGED <<index, plan, doomed, hits>>
    /\ UNCHANGED <<live, scripts>>

\* Text to label as the chunker finds it now, where the text has one label.
Corrected ==
    [act \in Acts |->
        LET raws == RawChunks(Source[act])
            clear == {raw \in raws : \A other \in raws :
                         other.text = raw.text => other.article = raw.article}
        IN  [text \in {raw.text : raw \in clear} |->
                (CHOOSE raw \in clear : raw.text = text).article]]

\* Labels are corrected in place, under the ids the documents had.
Patched(act) ==
    [id \in DOMAIN target |->
        IF id.act = act /\ target[id].text \in DOMAIN Corrected[act]
        THEN [target[id] EXCEPT !.article = Corrected[act][target[id].text]]
        ELSE target[id]]

Patch(act, onDisk) ==
    /\ script = "patching"
    /\ act \in todo
    /\ target' = IF onDisk THEN Patched(act) ELSE target
    /\ todo' = todo \ {act}
    /\ UNCHANGED <<index, script, plan, doomed, hits, live, scripts>>

MigrationEnd ==
    /\ script = "patching"
    /\ todo = {}
    /\ Leave
    /\ UNCHANGED <<index, target, live, scripts>>

----------------------------------------------------------------------------
(* resplit_merged_paragraphs *)

\* A text with a second paragraph inside.
Merged(text) == Len(text.paras) > 1

ArticleOf(id, doc) == <<id.act, doc.article>>

\* Of the scan only the articles with such a text are gone through.
Affected(scanned) ==
    {ArticleOf(id, scanned[id]) : id \in {id \in DOMAIN scanned : Merged(scanned[id].text)}}

StartResplitting ==
    /\ Launch("resplitting")
    /\ index' = Opened
    /\ \E ids \in UpTo(ScanLimit, DOMAIN Opened) :
        LET scanned == Restrict(Opened, ids) IN
        /\ todo' = Affected(scanned)
        /\ hits' = Restrict(scanned,
                       {id \in ids : ArticleOf(id, scanned[id]) \in Affected(scanned)})
    /\ UNCHANGED <<plan, doomed, target, live>>

Same(article) == {id \in DOMAIN hits : ArticleOf(id, hits[id]) = article}

\* By paragraph number; equal numbers stay as the search returned them.
Orders(ids) ==
    {s \in SetToSeqs(ids) : \A i, j \in DOMAIN s :
        i < j => Provision(hits[s[i]]) <= Provision(hits[s[j]])}

\* The chunks of an article joined.
Bodies(ids) ==
    {FlattenSeq([i \in DOMAIN s |-> hits[s[i]].text.paras]) : s \in Orders(ids)}

\* What the chunker makes of it now, as far as it is still this article.
Resplit(article, body) ==
    Build({raw \in RawChunks(body) : raw.article = article[2]}, article[1])

\* Mutant: the old chunks are deleted before the new ones are written.
ResplitArticleDeletingFirst ==
    /\ script = "resplitting"
    /\ \E article \in todo : \E body \in Bodies(Same(article)) :
        LET new == Resplit(article, body)
            rest == Restrict(index, DOMAIN index \ (Same(article) \ DOMAIN new))
        IN  /\ \/ /\ DOMAIN new = {}
                  /\ UNCHANGED index
               \/ /\ DOMAIN new # {}
                  /\ \/ IndexChunks(rest, new, index')
                     \/ IndexChunksFails(rest, new, index')
            /\ todo' = todo \ {article}
    /\ UNCHANGED <<script, plan, doomed, hits, target, live, scripts>>

\* The new chunks are written before the ones they replace are deleted.
ResplitArticle ==
    /\ script = "resplitting"
    /\ doomed = {}
    /\ \E article \in todo : \E body \in Bodies(Same(article)) :
        LET new == Resplit(article, body) IN
        \/ /\ DOMAIN new = {}
           /\ todo' = todo \ {article}
           /\ UNCHANGED <<index, script, plan, doomed, hits>>
        \/ /\ DOMAIN new # {}
           /\ IndexChunks(index, new, index')
           /\ todo' = todo \ {article}
           /\ doomed' = Same(article) \ DOMAIN new
           /\ UNCHANGED <<script, plan, hits>>
        \/ /\ DOMAIN new # {}
           /\ IndexChunksFails(index, new, index')
           /\ Leave
    /\ UNCHANGED <<target, live, scripts>>

ResplitDelete ==
    /\ script = "resplitting"
    /\ \E id \in doomed :
        /\ index' = DeleteChunk(index, id)
        /\ doomed' = doomed \ {id}
    /\ UNCHANGED <<script, plan, todo, hits, target, live, scripts>>

ResplitEnd ==
    /\ script = "resplitting"
    /\ todo = {} /\ doomed = {}
    /\ Leave
    /\ UNCHANGED <<index, target, live, scripts>>

----------------------------------------------------------------------------

\* A request is refused or the script is stopped.
Interrupt ==
    /\ script # "none"
    /\ Leave
    /\ UNCHANGED <<index, target, live, scripts>>

ScriptStep(onDisk) ==
    \/ CleanBatch \/ CleanDelete \/ CleanEnd
    \/ Relabel \/ RelabelEnd
    \/ Copy \/ (\E act \in Acts : Patch(act, act \in onDisk)) \/ MigrationEnd
    \/ ResplitArticle \/ ResplitDelete \/ ResplitEnd

MaintenanceNext(onDisk) ==
    \/ StartCleaning
    \/ \E act \in onDisk : StartRelabelling(act)
    \/ StartMigration
    \/ StartResplitting
    \/ ScriptStep(onDisk)
    \/ Interrupt

============================================================================
