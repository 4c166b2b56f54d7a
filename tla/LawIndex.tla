------------------------------ MODULE LawIndex ------------------------------
(***************************************************************************)
(* The chunk index and what is written to it: how an act's text becomes    *)
(* chunks with their ids (services/chunking, services/metadata) and the    *)
(* writes of services/opensearch/client.py.                                *)
(*                                                                         *)
(* A text is the sequence of the paragraphs it holds and the page          *)
(* furniture that came with them.  A paragraph that opens an article has   *)
(* the header printed at its front, and most have a number: a later piece  *)
(* of an overlong paragraph has neither.  Vectors are a function of the    *)
(* text and chapters follow the article; both are left out.                *)
(***************************************************************************)
EXTENDS Naturals, Sequences, FiniteSets, SequencesExt

CONSTANTS
    Registry, \* the act ids, in registry order
    Domain,   \* Domain[a]: the legal domain of act a
    Source,   \* Source[a]: the paragraphs of act a, in document order
    Header,   \* Header[p]: the label printed in front of p, NoLabel if none
    Section,  \* Section[p]: the number of p, 0 if none
    NoIndex,  \* an index that does not exist
    BulkSize  \* documents in one bulk request; 500

Acts == Range(Registry)

ASSUME RegistryIsListed == Registry \in Seq(Acts)
ASSUME SourceIsText == \A a \in Acts : Source[a] \in Seq(DOMAIN Header)
ASSUME HeadersAreLabels ==
    Header \in [DOMAIN Header -> [num : Seq(Nat), sup : Seq(Nat), letter : STRING]]
ASSUME SectionsAreNumbers == Section \in [DOMAIN Header -> Nat]
ASSUME BulkSizeIsPositive == BulkSize \in Nat \ {0}

VARIABLE index  \* the index settings name: chunk ids to documents

\* "Art. 300[1]a": digits, superscript, letter.  "" for no article.
Label(num, sup, letter) == [num |-> num, sup |-> sup, letter |-> letter]
NoLabel == Label(<<>>, <<>>, "")

Text(paras, mark) == [paras |-> paras, mark |-> mark]
Plain(paras) == Text(paras, "none")
Marks == {"none", "spaces", "footer"}

CleanText(text) == Plain(text.paras)
Substance(text) == text.paras # <<>>
Junk(text) == text.mark = "footer"

----------------------------------------------------------------------------

Heads(paras) == {i \in DOMAIN paras : Header[paras[i]] # NoLabel}
HeadAt(paras, i) == Max({h \in Heads(paras) : h <= i})

\* The label of the article a paragraph stands in.
LabelAt(paras, i) ==
    IF \E h \in Heads(paras) : h <= i THEN Header[paras[HeadAt(paras, i)]] ELSE NoLabel

\* The chunker on a text without furniture: what precedes the first header is
\* dropped, unless no header is found at all.
RawChunks(paras) ==
    LET kept == IF Heads(paras) = {} THEN DOMAIN paras
                ELSE {i \in DOMAIN paras : \E h \in Heads(paras) : h <= i}
    IN  {[article |-> LabelAt(paras, i),
          position |-> Cardinality({j \in kept : j < i}),
          text |-> Plain(<<paras[i]>>)] : i \in kept}

\* The digest of a chunk's act, article, position and text names it; no two
\* digests collide.
ChunkId(act, raw) ==
    [act |-> act, article |-> raw.article, position |-> raw.position, text |-> raw.text]

\* A document's act is that of its id; nothing changes it.
Doc(article, text) == [article |-> article, text |-> text]

Build(raws, act) ==
    [id \in {ChunkId(act, raw) : raw \in raws} |-> Doc(id.article, id.text)]

\* The chunks of whole acts, as any ingestion builds them.
ChunksOf == [act \in Acts |-> Build(RawChunks(Source[act]), act)]
Chunks(acts) == [id \in UNION {DOMAIN ChunksOf[a] : a \in acts} |-> ChunksOf[id.act][id]]

\* The paragraph a chunk's provision label ends in.
Provision(doc) == IF Substance(doc.text) THEN Section[doc.text.paras[1]] ELSE 0

----------------------------------------------------------------------------

\* Created empty at startup when it is missing.
EnsureIndex(store) == IF store = NoIndex THEN <<>> ELSE store

\* Texts are embedded before the first write, and a blank one is refused.
Embeddable(chunks) ==
    \A id \in DOMAIN chunks : Substance(chunks[id].text) \/ Junk(chunks[id].text)

\* Documents are written over those of the same id.
Upsert(store, chunks) ==
    [id \in DOMAIN chunks \cup DOMAIN store |->
        IF id \in DOMAIN chunks THEN chunks[id] ELSE store[id]]

IndexChunks(store, chunks, after) ==
    /\ Embeddable(chunks)
    /\ after = Upsert(EnsureIndex(store), chunks)

Place == [act \in Acts |-> CHOOSE i \in DOMAIN Registry : Registry[i] = act]

\* The bulk request each chunk goes into: they are sent in order of acts and
\* positions.
Requests(chunks) ==
    LET before(x, y) == \/ Place[x.act] < Place[y.act]
                        \/ x.act = y.act /\ x.position < y.position
    IN  [id \in DOMAIN chunks |->
            Cardinality({x \in DOMAIN chunks : before(x, id)}) \div BulkSize]

\* Embedding fails, or a bulk request does: those before it are written, and
\* any of its own documents.
IndexChunksFails(store, chunks, after) ==
    LET requests == Requests(chunks) IN
    \E last \in Range(requests) :
        \E some \in SUBSET {id \in DOMAIN chunks : requests[id] = last} :
            LET written == some \cup {id \in DOMAIN chunks : requests[id] < last}
            IN  /\ written # {} => Embeddable(chunks)
                /\ after = Upsert(EnsureIndex(store), Restrict(chunks, written))

DeleteChunk(store, id) == Restrict(store, DOMAIN store \ {id})

\* A partial document is merged into one that must exist.
UpdateArticle(store, id, article) == [store EXCEPT ![id].article = article]

============================================================================
