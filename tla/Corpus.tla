------------------------------- MODULE Corpus -------------------------------
(***************************************************************************)
(* The corpus: ingestions and maintenance scripts over one index and one   *)
(* data directory, with nothing to keep them apart.  It starts empty, or   *)
(* as an older ingestion left it: a chunker that cut superscripts from     *)
(* labels, did not see footnoted paragraphs and kept page furniture.       *)
(***************************************************************************)
EXTENDS Ingestion, Maintenance

CONSTANTS
    Legacy,  \* the indexes an older ingestion can have left
    Budgets  \* bounds: how many ingestions and how many scripts there are

ASSUME BudgetsAreNatural == Budgets \subseteq Nat \X Nat

\* "Art. 1" for "Art. 1[1]".
Cut(label) == [label EXCEPT !.sup = <<>>]

\* A chunk of an act: its text is law of one article, which opens with the
\* article's header or has none inside, and whose beginning places it.
IsChunkOf(act, text) ==
    /\ act \in Acts
    /\ text.mark \in Marks
    /\ text.paras \in Seq(Range(Source[act]))
    /\ Heads(text.paras) \subseteq {1}
    /\ Substance(text) => \A o \in Articles[act] :
           text.paras[1] \in o.body => Range(text.paras) \subseteq o.body

\* The labels printed over a paragraph, with the superscript or without.
PrintedOver(act, p) ==
    LET printed == {LabelAt(Source[act], i) : i \in {i \in DOMAIN Source[act] : Source[act][i] = p}}
    IN  printed \cup {Cut(label) : label \in printed}

ASSUME LegacyWasBuilt ==
    \A store \in Legacy :
        /\ IsFiniteSet(DOMAIN store)
        /\ \A id \in DOMAIN store :
              /\ store[id] = Doc(id.article, id.text)
              /\ IsChunkOf(id.act, id.text)
              /\ id.article \in Range(Header) \cup {Cut(label) : label \in Range(Header)}
              /\ \A p \in Range(id.text.paras) : id.article \in PrintedOver(id.act, p)

\* Where an article can be read as a superscript article's base, it is one.
ASSUME BasesAreClear ==
    \A act \in Acts : \A h \in Heads(Source[act]) :
        LET base == Cut(Header[Source[act][h]]) IN
        Header[Source[act][h]].sup # <<>> /\ (\E o \in Articles[act] : Flat(o.label) = base) =>
            \E o \in Articles[act] : o.label = base

vars == <<index, ingestVars, maintenanceVars>>

Init ==
    /\ IngestInit
    /\ MaintenanceInit
    /\ \E budget \in Budgets : ingests = budget[1] /\ scripts = budget[2]
    /\ \/ index = NoIndex /\ files = [a \in Acts |-> {}] /\ live = FALSE
       \/ index \in Legacy /\ files = [a \in Acts |-> FileKinds] /\ live \in BOOLEAN

OnDisk == {a \in Acts : "txt" \in files[a]}

\* Bound: of the ingestions only the direct one overlaps a script.  What it
\* writes, and what it leaves when it fails, is what the DAG's last stage does,
\* and the stages before neither read nor write the index.
Quiet == \A d \in Domains : run[d].stage = "none"

Ingest ==
    /\ IngestNext
    /\ script = "none" \/ Quiet'
    /\ UNCHANGED maintenanceVars
Maintain == Quiet /\ MaintenanceNext(OnDisk) /\ UNCHANGED ingestVars

Next == Ingest \/ Maintain

Spec == Init /\ [][Next]_vars

============================================================================
