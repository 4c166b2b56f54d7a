# A verification development for Law-AI

Law-AI answers questions about Polish law: a FastAPI service in front of
PostgreSQL, Redis, OpenSearch and language models. This directory holds TLA+
modules that model the parts of it that keep state, the TLC runs that check
them, and proofs checked by TLAPS. Paths below are relative to the repository.

## 1. The system

| Component | State it keeps | Operations | What makes it correct |
|---|---|---|---|
| Conversations (`src/law_ai/routers/chats.py`, `repositories/conversation_repository.py`) | rows of `conversations`: owner, title, JSONB transcript | create (with the sweep of unused chats), delete, list, read | a row is seen and changed by its owner only; the sweep takes nothing that is in use |
| Ask endpoint (`routers/ask.py`) | none of its own; one transaction, one run of the agent, one cache entry per request | append the question, serve from the cache or stream a run, append the answer, cache it, `done` | whole turns in the transcript, no lost append, memory and transcript agree, the cache holds only real answers |
| Sessions (`dependencies.py`, `database/interface/postgres.py`) | connection pool, one transaction per request | open at the first statement, commit after the response, roll back on an exception | every request ends and gives its connection and locks back |
| Answer cache (`services/cache/`) | Redis entries with a time to live | find, store | a hit answers the question that was asked, under the models in use |
| Agent graph (`services/agents/`) | a checkpointed thread per chat: messages, notes, the plan | guardian, query_rewriter, retriever, writer | each answer rests on its own question's provisions; a failed run does not spoil the thread |
| Retrieval (`services/opensearch`, `services/reranker`, `nodes/retriever.py`) | the index; a lazily loaded model | search legs, union, rerank, normalised merge, cut | no leg's best hit and no sub-query is lost |
| Language model client (`services/llm`) | none | stream, structured call with retries | bounded retries, errors normalised |
| Chunker and metadata (`services/chunking`, `services/metadata`) | none | split an act into provisions, name them | no text lost or doubled, ids distinct |
| Ingestion (`airflow/`) | files between tasks, the index | choose acts, fetch, parse, chunk, index | no stage without its input, repeats lose nothing |
| Maintenance scripts (`scripts/`) | the index | migrate, clean, relabel, re-split | no law lost and no label wrong, wherever a script is interrupted |
| Lifespan (`main.py`), lazy models | `app.state`, an exit stack | boot, degraded boot, shutdown | nothing half open is used or leaked |
| Auth (`routers/auth.py`, `security.py`) | rows of `users` | register, log in | one account per name |
| Gradio UI (`gradio_app.py`) | the page's chat id and bubbles | send, new, delete, select | shows what the API answered |
| Migrations, evaluation harness, configuration | | | not stateful at run time |

A request reaches the transcript through a session, the thread through the
agent graph, and the cache through Redis. These three are not one transaction:
that, and the language model's run of minutes between the question's UPDATE and
the answer's, is where the hard behaviour is. Coroutines of one process
interleave at every `await`; several processes behave no differently, since all
shared state is in the stores.

`PROJECT.json` lists every component with its status and, under `hazards`,
what is hard to test at the line where it bites.

## 2. Modules and plan

Four models, each with its own runs. They are separate because the state they
share is small (a chat's row, an index) and its product would not be.

| Model | Modules, in the order they extend each other |
|---|---|
| conversations | `Transcripts` (abstract), `Chats`, `ChatsProperties`, `MCChats`; `ChatsProofs`, `ChatsMemory` |
| the agent | `AgentThread`, `AgentThreadProperties`, `MCAgentThread`, `AgentThreadProofs`; `Retrieval`, `RetrievalProperties`, `RetrievalProofs` |
| the corpus | `Chunker`, `ChunkerProperties`, `ChunkerProofs`; `LawIndex`, then `Ingestion` and `Maintenance`, composed by `Corpus`, `CorpusProperties`, `MCCorpus`, `CorpusProofs` |
| the service | `LazyModel`, `Lifespan`; `AnswerCache`; `AskApi` over these; `ChatPage` over it; `Accounts`; composed by `Service`, `ServiceProperties`, `MCService`, `ServiceProofs` |

All of it is written and checked, and each model has an inductive invariant from
which its safety properties are proved:

| Model | Invariant | Proved | Left to TLC |
|---|---|---|---|
| conversations | `IInv`, `MInv` | every safety property, and the refinement | `EveryRequestEnds`, `DoneIsEventuallyWritten` |
| the agent's thread | `IInv` | every safety property | `EveryRunEnds` |
| the corpus | `CInv`, `ShapeInv`, `ReplacedInv` | every safety property | |
| the service | `SInv` | every safety property | `AsksEnd` |
| retrieval | `RInv` | every safety property | |
| the chunker | `Text`: the text is a sequence of lines | every safety property | |

What is left to TLC is liveness: it rests on fairness and ENABLED, which the prover
does not treat. What a fold over a sequence computes for every sequence would need
an induction over data, and the library's induction theorems cannot be
instantiated with the installed provers. Three ways around it are used:

- *Counting instead of scanning.* Where order and places matter, they are numbers
  of elements before an element (`Retrieval`'s sorted lists, `Chunker`'s offsets
  and positions), and the proofs are about cardinalities.
- *Sets instead of sequences.* A stretch of text is the set of its lines or
  characters (`Chunker`), an act the set of its chunks (`LawIndex`).
- *The least counterexample.* `StepByStep` (in `CorpusProofs`) gets induction up to
  a given number out of `Nat` being well-founded, for a set instead of an operator.
  With it the reading of headers in document order (`Occurrences`) and the joining
  of texts (`FlattenSeq` in `Bodies`), both functions that recur on the number
  before, are followed to their end.

## 3. The core

### Transcripts: the promise

`Transcripts.tla` is what a user may rely on, in three variables (`live`,
`owner`, `messages`) and three actions. `Ask` grows a transcript by one whole
turn, a question or a question directly followed by its answer, of a request
that wrote none before. `Close` drops a chat. `Open` makes a chat appear and may
drop chats of the same user that hold no message, never another.

### Chats: the code

`Chats.tla` makes each HTTP request a process with a program counter. The
correspondence of state:

| Variables | Code |
|---|---|
| `status`, `owner`, `title`, `messages` | the committed rows of `conversations` |
| `lock`, `work`, `doomed`, `scan`, `lost` | PostgreSQL: row locks and uncommitted versions of the open transactions |
| `pc`, `req`, `untitled`, `answer` | the locals of the coroutine; `untitled` is what `chat.title == NEW_CHAT_TITLE` saw |
| `thread` | the checkpointer's thread of a chat, as the requests whose question it holds |
| `cache` | Redis, by normalised question; the pipeline's fingerprint is fixed for a process |
| `delivered`, `faults` | what the client saw; a counter that bounds faults |

A message is the request that wrote it and its role: its id, time and text are
functions of those. An answer's text is the request whose run produced it.

| Actions | Code |
|---|---|
| `ArriveAsk`, `ArriveCreate`, `ArriveDelete` | a request comes and waits (`queued`) for a connection: `get_current_user`'s query is its first |
| `Connect`, `PoolTimeout` | the pool has a connection for it, or has none until the timeout |
| `GetChat` | `ConversationRepository.get_chat`; 404 rolls back |
| `AppendQuestion` | `add_message(user)` and the title's UPDATE, which never waits: the row is already locked |
| `LookUp`, `ServeHit` | the cache hit, whole |
| `Checkpoint`, `FinishRun`, `FailRun` | `graph.astream` |
| `PersistAnswer`, `StoreAnswer`, `SendDone` | the tail of `events()` |
| `Disconnect` | the client goes away: the generator is cancelled |
| `ScanEmpty`, `SweepRow`, `InsertChat` | `delete_empty` and `create` |
| `RemoveChat` | `delete` |
| `Commit`, `FailStatement` | leaving `_session_cm` without and with an exception |
| `LoseConnection`, `Crash`, `Expire` | the environment |

The database is modelled from how the code uses it. The engine sets no isolation
level, so a transaction is READ COMMITTED: a statement sees what was committed
when it began, and an UPDATE or DELETE that waited for a row evaluates its
condition again on the version it then finds. Assumed and not checked: two
sweeps with the same plan visit rows in the same physical order (without it they
can deadlock, as the mutant `SweepRowAnyOrder` shows: PostgreSQL would then abort
one); the
checkpointer was available at boot; no question reads `New chat`; `add_message`
never fails for another reason than its connection.

### Runs

| Run | Instance | Shows |
|---|---|---|
| `chats` | 3 requests, 2 users, 2 chats, 1 question, a pool of 2, no faults | `TurnsAreWhole`, `OneRunPerThread`, `ThreadsArePrivate`, `CacheHoldsRealAnswers`, `AskedChatsAreTitled`, and the refinement of `Transcripts` |
| `chats_faults` | two instances, below: 2 requests, 2 chats, 2 questions, 1 fault; or 3 requests over a pool of 2, a user with 2 empty chats, 2 chats to create | `CommittedTurnsStay` and `MemoryCoversTranscript`, which a lost connection or a crash could break at any point; `NoDeadlock` where sweeps meet; that every request ends, and that every `done` is written unless a fault strikes |
| `done_written` | a violation | `done` is sent before the commit |
| `empty_chats` | a violation | two concurrent creates leave two empty chats |

Why the bounds are enough: the interesting conflicts are between two requests on
one row, with a third to disturb (a sweep, a deletion, or a request that waits
for the pool). A sweep that holds one row while it waits for another needs two
live empty chats beside the one it creates, and two such sweeps need two to
create. With faults at every point that is too much for one instance, so
`chats_faults` has two, told apart by their user (`Instances` in `MCChats`):
`ConnectionsFail`, two requests of any kind and a fault, and `SweepsMeet`, which
starts with two empty chats, as two creates that did not see each other leave
them, and whose first two requests are creates. The third asks, creates or
deletes anything, at any time, and finds the pool of two exhausted when both
creates are under way: it waits, and is served or times out. States with each of
these waits are reached. In both, the first two requests arrive in order and the
first does not have the second text, since requests are interchangeable, and
texts are.
One question text makes every later ask a candidate for a hit, two
texts separate the entries; a second fault adds only a repetition of the first.
Requests are served once, so the number of requests bounds transcripts and
threads. Requests and users are symmetric in `chats`; chats are not, since their
order is the physical order of the rows.

`CHECK_DEADLOCK FALSE`: when every request has ended the system rests.

### Properties

- `TurnsAreWhole`, `CommittedTurnsStay`: no append is lost and none parts a
  question from its answer.
- `OneRunPerThread`: the row lock is what serialises runs on a thread. It holds
  for live chats and requests whose connection is alive: a run whose connection
  was lost goes on without the lock, which the property says by excluding it.
- `ThreadsArePrivate`, `MemoryCoversTranscript`: thread and transcript agree on
  whose and what they are.
- `CacheHoldsRealAnswers`: no partial, empty or foreign answer is cached.
- `AskedChatsAreTitled`: the title race never leaves a used chat untitled.
- `ImplementsTranscripts`: the refinement, under which the sweep never takes a
  chat that is being used.
- `NoDeadlock`: of any set of requests one waits for no row that another of
  the set holds, although a sweep holds the rows it has deleted while it waits for
  the next.
- `EveryRequestEnds`, `DoneIsEventuallyWritten`: liveness, under `Fairness`. A
  request that has arrived ends, also when it waits for the pool, and for rows
  behind others that wait.

`Fairness` is weak fairness of each request's own next step: the event loop
resumes every coroutine that can run, the language model's client has a timeout
(a run ends or fails), PostgreSQL hands a released lock to a waiter, and the pool
gives a waiting request a connection or its timeout. Nothing is assumed of
clients, disconnects, faults or expiry. The instances of `chats_faults` restrict
first states (`FirstStates`), arrivals and faults (the action constraint
`WithinInstances`), to which no fairness applies.

### Findings

1. `done` does not mean written. `routers/ask.py:10-12` says a client that has
   seen `done` knows the turn is fully written; the commit runs after the whole
   response. `DoneIsEventuallyWritten` is what does hold.
2. The sweep does not bound empty chats to one per user
   (`conversation_repository.py:49-50`): two concurrent creates do not see each
   other's uncommitted rows.

### Proofs

`TypeCorrect`, `OneRun`, `Implementation`, `WholeTurnsStay` and `DeadlockFree`
hold for every value of the constants, from the three assumptions of `Chats.tla` (chat ids are
naturals, the bounds are naturals, the sentinels are no members of the data
sets). They say for any number of requests, users and faults what the runs show
for two or three.

None of the properties is inductive. `OneRunPerThread`, for one, does not say
why two streams exclude each other. `IInv` (module `ChatsProofs`) does:

- `TypeInv`: the types, and which kind of request can be at which point;
- `RowInv`: a row exists exactly when it has an owner, only existing rows hold
  messages, and every author of a committed message has committed;
- `StageInv`: a row being created is reserved for one request alone; a row that
  was seen to exist is there or gone, never unborn;
- `LockInv`: a locked row exists, and its holder is alive, connected, and either
  deletes the row or is an ask past its first UPDATE;
- `HoldInv`: conversely such an ask holds its row or the row is gone, and its
  uncommitted version is the committed transcript grown by its own question, or
  question and answer;
- `DoomInv`: a row deleted but not committed is locked by its deleter, who owns
  it and, if it is a sweep, found it empty.

`ChatsProofs` proves the types with one step per action, and then that `IInv` is
inductive: most actions are one of three kinds of step
(`StillKeeps`, `QuietKeeps`, `DroppedKeeps`), the others have a lemma each with
one step per conjunct; `OneRun` follows from `HoldInv`, since both streams would
hold the same row. Its end maps each commit to `Ask`, `Open`, `Close`
or a stutter and every other step to a stutter. `TurnsAreWhole` is then proved
of the abstract specification (`Transcripts`) and carried over.

`DeadlockFree` needs one more clause, `SweepInv`: the rows a sweep holds are all
before those it has still to visit. Every other request waits before it holds any
row, so that in a circle all are sweeps; whoever waits for a sweep's row wants a
row before the one the sweep wants (`WaitersWantLaterRows`), and the one of them
that wants the last row of all waits for nobody in the circle (`NoCircle`).

`ChatsMemory` does the same for what is kept outside the row: the agent's thread,
the cache, the titles and the turns once committed. `MInv` is inductive together
with `IInv`:

- `ThreadInv`: who is in a thread passed the ownership check of that chat, and is
  there once;
- `PrivacyInv`: all who are in a thread, or may yet come into it, are one user's,
  and while the row lives its owner's. The property only speaks of the first;
- `AnswerInv`, `CacheInv`: at each point of a request, what its answer says of
  the run that gave it, and that an entry is its author's own answer;
- `TitleInv`: an ask that saw a title finds the chat titled, since nobody
  takes one away;
- `TurnInv`: the uncommitted version that is about to be committed is the
  committed transcript with this ask's turn at its end;
- `OrderInv`: committed answers of runs are in the thread in transcript order,
  and before the run that now holds the row. Without this last clause the next
  commit could put an answer after one that the thread has later.

From it follow `ThreadsArePrivate`, `CacheHoldsRealAnswers`,
`AskedChatsAreTitled`, `CommittedTurnsStay` and `MemoryCoversTranscript`, for any
number of requests and faults.

Only model-checked: the liveness properties.

## 4. The agent

### AgentThread: state and actions

`Chats` treats a run of the agent as one action that ends or fails. `AgentThread`
opens it up, for the successive turns of one chat.

| Variables | Code |
|---|---|
| `saved` | the thread's latest stored checkpoint: messages, notes, plan and the next node |
| `pending` | checkpoints handed to the background writer and not yet stored |
| `mine`, `node`, `failures`, `heard` | a run's channels in memory, where it is, failed attempts of the current call, how much of a report was streamed |
| `lost`, `crashes` | the runs whose connection, and so whose row lock, was lost; crashes so far |

| Actions | Code |
|---|---|
| `BeginRun` | `graph.astream(input)`: the thread's channels with the question appended, at the entry node |
| `Guard`, `Rewrite`, `Retrieve`, `OpenStream`, `FinishReport` | the nodes; the writer is two actions, since it can fail between its first token and its last |
| `Retry`, `Raise` | `generate_structured`'s bounded attempts; any other exception of a node |
| `EndRun` | the run returns or raises after its checkpoints were written |
| `Cancel` | the disconnect: the task is cancelled and leaves its background writes behind |
| `Flush` | a background write completes |
| `LoseConnection`, `Crash` | the environment |

The checkpointer and the graph engine are external and modelled from how
`agentic_rag.py` and `ask.py` use them, under these assumptions: an input given to a thread starts at the
entry node whatever step the last run stopped in, and keeps the channels;
checkpoints are written in the background (the default durability) and one after
another; the checkpoint with the greatest id is the thread's; a run that returns
or raises waits for its writes, a cancelled one does not. Runs on one thread
exclude each other through the row lock (`OneRunPerThread`, proved in the core)
unless a connection was lost, which is why `BeginRun` lets a second run in only
then. `MaxPending` bounds the writes in flight. A checkpoint write that fails is
not modelled.

Properties: `AnswersOwnQuestion` and `SearchesOwnPlan` (a thread full of
earlier, failed and refused turns never leaks a question or a plan into this
one), `ThreadTurnsAreWhole` (even after a fork), `RemembersWholeReports`,
`FinishedTurnsStay` (durability, with background writes), and `EveryRunEnds`
under weak fairness of each run's own step: a call to a model has a timeout, the
attempts are bounded, and the event loop runs the background writes.

### Retrieval: state and actions

`Search` forms every sub-query's candidates from the hit lists of the two legs,
`Rerank` scores one sub-query's candidates (concurrently with the others, in any
order), `Deliver` merges, caps and cuts. The hit lists and the cross-encoder's
logits are arbitrary, the fusion and the cut are settings. Fractions are pairs,
so nothing rounds, and scores are integers, which stand for floats of some common
unit; where the code's floats would round two different sums to
equal ones, the model orders them by value. The score floor is assumed
positive, as configured. A `sorted` of the code is `InOrder` of the set and of
its key, with the tie-break that a stable sort of that list gives.

Properties, none of which repeats the orders the code computes:
`LegsKeepTheirBest`, `FusionRespectsLegs`, `GenuineBestIsDelivered`,
`DeliveredHoldTheirOwn`.

### Runs

| Run | Instance | Shows |
|---|---|---|
| `agent_thread` | 2 turns, 3 attempts, 2 writes in flight, 1 crash, 1 lost connection | all properties above of `AgentThread` |
| `stale_notes` | a violation, 2 turns and no fault | the writer of the second turn is given the first turn's provisions |
| `retrieval` | 2 sub-queries, 3 chunks, 2 candidates each, 2 places | all properties above of `Retrieval` |
| `delivery_cut` | a violation | the cut takes a sub-query's only provision |

Two turns are one that may fail in any way and one that meets what it left
behind; a third meets nothing new, since the thread's plan and question come
from the last turn alone. Two attempts more than the first exercise the bound of
the retries. Three chunks and two places are the least for which a chunk is
capped, a chunk is shared and one leg finds what the other misses; scores of
3, 5 and 8 against a floor of 4 and a cut of 0.85 put a search below the floor and a
chunk on each side of the cut.

### Findings

3. Provisions accumulate. `notes` is reduced with `operator.add` and survives in
   the thread, so a turn's writer reads the provisions of all turns before it;
   `retriever.py:16-18` says the writer gets this selection.
4. The cut does not spare each sub-query. `retriever.py:90-92` says "never fewer
   than one chunk per sub-query"; the code keeps as many of the best as there
   are sub-queries.

### Proofs

`AgentThreadProofs` proves all safety properties of `AgentThread` for any turns,
labels, number of attempts, crashes and lost connections, from the assumptions
that there is at least one attempt and that the bounds are naturals. The
invariant `IInv` says:

- `CopyInv`: every copy of the channels, in the store, on its way there or in a
  run, has whole turns only and knows only turns that began and reports whose
  stream ended. A later run may start from any of them after a crash, so it has to
  hold of all, not of the stored one;
- `RunInv`: where a run is says how its copy ends and whose plan it holds;
- `PendingInv`: a checkpoint on its way is of a run that began;
- `SerialInv`: while no connection was lost one run is active, the newest
  checkpoint is its own with nothing older behind it (`Newest`), and every turn
  that is done is answered in every copy that can still become the thread's. This
  is what makes `FinishedTurnsStay` inductive over background writes.

`EveryRunEnds` is model-checked only.

`RetrievalProofs` proves all properties of `Retrieval` for any number of
sub-queries, any finite index, any settings above zero, any hit lists and any
integer scores. A sorted list invites an induction over its length, which the
provers do not have. The proofs count instead:

- *Places.* A criterion with its tie-break orders a set strictly and totally
  (`TiesAreBroken`), so an element's place is one more than the number of
  elements before it. `PlacesArrange` shows that `InOrder` is then the set, each
  element once, in that order, from two facts about cardinalities: who
  comes later has more below it, and the numbers that occur are all those up to
  the size of the set. The fused lists, the reranked lists and the merge are each
  shown to be such a list (`UnionIsArranged`, `RrfIsArranged`,
  `RerankedIsResult`, `MergedIsArranged`).
- *Fractions.* Reciprocal ranks and normalised scores are compared by
  cross-multiplication; that this is an order (`FractionsCompare`,
  `FractionsChain`) holds for positive denominators, which is where a positive
  `RrfK` and `Floor` are needed.
- *Legs.* Who is ahead of a chunk in every leg that has it survives every cut the
  chunk survives, and has the better best rank and the greater reciprocal score
  (`DominationSurvivesCuts`, `DominationCounts`): this is `FusionRespectsLegs`.
  Only the other leg's top can come before a leg's top, hence
  `LegsKeepTheirBest` with two candidates or more.
- *Delivery.* In the merged order who comes later is worth no more
  (`LaterIsWorthNoMore`), the cap takes a beginning of it and the cut only what
  is worth less than its threshold, so what is left out is worth no more than
  what is delivered (`LeftOutIsWorthNoMore`): this is `DeliveredHoldTheirOwn`.
  The bests of sub-queries that reached the floor are exactly the chunks worth 1,
  the most there is (`GenuineIsWorthOne`); as many as they are, they fill the
  first places (`GenuineComesFirst`), and no cut of at most 100 percent removes
  one.

The invariant `RInv` connects the steps: a pool is its legs' candidates until it
is reranked, when it and the legs are emptied; a result holds each chunk at most
once; and what is delivered is `Delivery` of the results. None of the four
properties speaks of all of that, and none is inductive alone: `Deliver` takes
results that an earlier step left, and the merge finds a chunk's first and best
showing because the results' places are finitely many and one chunk's each.

## 5. The chunker

`Chunker` reads a text as a sequence of lines of eight kinds (a bare article
header, one with text behind it, a numbered paragraph, a number that looks like
one, a chapter heading, plain text, a blank line, a page's footer). A stretch of
text is the set of its lines; below the line, a set of characters. A character is
a pair of its line and its place there, and is a letter or not, which is what
`has_substance` asks. An offset is the number of characters before it.
`Extract`, the only action, is the PDF extraction yielding another line; `Chunks`
is `ArticleChunker.chunk` of what there is.

| Run | Instance | Shows |
|---|---|---|
| `chunker` | all 37,449 texts of up to 5 lines, pieces of 3 characters overlapping in 1 | the properties below |
| `footers` | a violation, texts of up to 4 lines | a footer splits an article |

`LawIsKept` (the letters of all chunks are exactly those of the articles' lines,
footers and chapter titles excluded), `ParagraphsNeverMix` and `LabelsAreRight`
are stated on the lines of the text, not on bodies and offsets.
Five lines hold a preamble or chapter, a header, a prefix, a number and a break;
a paragraph of two lines exceeds three characters and is cut. An overlap of 0 or
of `max_chars - 1` is legal by the assumption `OverlapIsSmaller`; a larger one
makes the code's step 0 or negative and is configured nowhere.

Finding 5. A footer can create a paragraph boundary, which
`chunking/client.py:103-104` excludes: it leaves a line of white space, and
articles without numbered paragraphs are split at such lines.

### Proofs

`ChunkerProofs` proves the run's four properties for texts of any length, any
`MaxChars` and any smaller overlap. The invariant (`Text`) says that the text is a
sequence of lines: each property holds of every such sequence, so the work is in
the lemmas about the operators:

- *Pieces.* No two characters have the same offset (`OffsetsDiffer`), so what is
  read from one offset is no more than `MaxChars` (`PieceIsShort`); every number
  is less than `MaxChars` behind some multiple of the step (`StepsCover`, by
  `OverlapIsSmaller`), so every letter is in a piece (`PiecesCover`).
- *Paragraphs.* Whether an article is split at numbers or at blank lines, its
  paragraphs are parts of it, hold all its lines that are not blank, and go on
  into no numbered paragraph (`ParagraphsAreSplit`).
- *Articles.* The lines of an article's body are those whose last heading is its
  header (`BodyIsUnderItsHeader`, `UnderItsHeaderIsBody`), in the text as printed
  and without its footers (`HeadingsStay`).
- *Chunks.* A text has finitely many pieces (`PiecesAreFinite`), so that each has a
  position, which is a count.

## 6. The corpus

What is in the index, and who writes it: a DAG per legal domain
(`airflow/dags/ingest_domain.py`), the command line (`airflow/ingest.py`), and
four scripts that repair an index in place (`scripts/`). Nothing in the code
keeps any two of them apart.

### State and actions

A text is the sequence of the paragraphs it holds and a mark for page furniture;
a paragraph has the header printed in front of it and its number. This is the
level at which the scripts decide. `Chunker` looks below it, at lines and
characters; `LawIndex` takes whole paragraphs, where an overlong paragraph
is two, the second without header or number.

| Variables | Code |
|---|---|
| `index`, `target` | the OpenSearch index that settings name, and `law-chunks-v2`: documents by chunk id, or no index |
| `live` | whether these two are one |
| `files` | what `DATA_DIR` holds of each act |
| `run` | Airflow's state of each DAG: stage, trigger config, the tasks that are left with their retries, the failed ones |
| `script`, `plan`, `doomed`, `todo`, `hits` | the running script and its locals: what it still writes, deletes and goes through, and the hits it scanned |
| `ingests`, `scripts` | bounds |

A chunk's id is the record its digest is taken of, so two ids are equal exactly
when act, article, position and text are. A document's label may differ from that
of its id: three of the scripts correct it in place.

| Actions | Code |
|---|---|
| `Trigger`, `ActIds`, `Fetching`, `Deriving`, `IndexingAndStoring` | the tasks; `Deriving` is the three that read one file and write the next |
| `TaskFails` | any attempt that raises, times out or loses its worker, with what it did until then: the last one fails the task |
| `Schedule` | a stage begins when every task of the one before succeeded; a failed task ends the run after its stage |
| `DirectIngest` | the command line, all acts in one call of `index_chunks` |
| `StartCleaning`, `CleanBatch`, `CleanDelete`, `CleanEnd` | `clean_index_footers` |
| `StartRelabelling`, `Relabel`, `RelabelEnd` | `fix_superscript_labels`, one act |
| `StartMigration`, `Copy`, `Patch`, `MigrationEnd` | `migrate_index` |
| `StartResplitting`, `ResplitArticle`, `ResplitDelete`, `ResplitEnd` | `resplit_merged_paragraphs` |
| `Interrupt` | a request is refused, or the script is stopped, between two requests |

`IndexChunks` is the whole call: embed everything, then send requests of
`BulkSize` documents. `IndexChunksFails` is the call that raises: the requests
before the failing one are in the index, and any of that one's documents.

External and assumed: Airflow maps a stage over the results of the one before
it, and starts it when all of them are there; a bulk request is not atomic; an
update of a missing document fails and a delete of one is ignored; the cluster
refuses to reindex an index onto itself.

### Run

| Run | Instance | Shows |
|---|---|---|
| `corpus` | 2 acts in 1 domain, 5 and 3 paragraphs; an empty index, or two that an older ingestion left, live or not; 2 ingestions, 1 and a script, or 2 scripts; 1 retry, 2 documents a request, batches of 1, a scan of at most 6 hits | the properties below |

The code has a merged paragraph, an overlong one and a superscript article; the
decree has a superscript article and a plain one that read the same once
flattened, which is what `fix_superscript_labels` is about. The older index has
flattened labels, furniture and a chunk of nothing else. Two documents a
request and three in an act put a failure inside a call; a scan of six leaves
one chunk of seven out, as a limit of 10000 does in a larger index. Two actors
are what overlaps: the second of two scripts starts over what the first left
when it was interrupted, an ingestion writes between scan and write. Of the
ingestions only the direct one overlaps a script (`Quiet`): it writes, and leaves
when it fails, what the DAG's last stage does.
`CHECK_DEADLOCK FALSE`: when the budgets are spent and the scripts have ended,
nothing is left to do.

- `LawIsNeverLost`: no step takes a paragraph of an act out of the index, with
  two exceptions that are the code's and that the property names (below): a chunk
  that is out of place in what a re-splitting joins (`InPlace`), and a migration
  onto the live index.
- `LabelsStayTrue`: whatever scripts ran before, twice or in part, a chunk has one
  of the labels its beginning has in the act: the printed one, with its
  superscript or without, or the one that document order restores.
- `StagesAreWhole`: no stage starts before its input is there, for any act of the
  run.
- `CleanedForGood`: when the cleaning verifies, there is no furniture left, also
  after an interruption and an ingestion in between.
- `MigrationKeepsDocuments`, which is proved and not run: patching the copy keeps
  every id and every text, which the script's docstring says an earlier version
  did not.

No fairness: nothing makes anybody finish a script, and Airflow's scheduler is
not this code.

### Proofs

`CorpusProofs` proves every property of the run and one more, for any registry, texts, retries,
batches, scans and number of ingestions and scripts. The older index is any that
satisfies two assumptions of `Corpus`:

- `LegacyWasBuilt`: its chunks were built by an ingestion: each is law of one
  article of an act, with the header at its front or nowhere, under a label that
  is printed over all its paragraphs, with the superscript or without;
- `BasesAreClear`: if the label of an article with a superscript, once cut, is
  what some article reads as when flattened, then an article with the cut label
  exists. Polish statutes number so: Art. 11[1] is inserted behind an Art. 11.

The first third of the module is about texts. Headers are read in document order
by a function that recurs on the paragraph before; followed step by step
(`ReadingGoesThrough`), it never changes the digits of a label, only where the
superscript begins (`RestoreReads`, `ReadingKeepsDigits`). Hence the labels
`fix_superscript_labels` chooses from are those an act's articles can have, and
the one it settles on is true of the chunk (`SettledIsTrue`). `FlattenSeq` is
followed likewise (`FlattenedIsWhole`): a joined text holds the paragraphs of its
parts, each at its offset. So what a re-splitting writes is law of the act under
its own label (`ResplitIsFresh`), and a chunk that is in place comes out of it
under the article it went in for (`InPlaceIsKept`).

`CInv` is inductive:

- `DocumentInv`: a document of the index, and of a migration's copy, has the
  paragraphs its id was made of, which are law of one article, and a true label,
  whatever was done to label and furniture; there are finitely many. An index
  that may have been dropped is excepted until someone who uses it has made sure
  that it is there (`InUse`);
- `CleaningInv`: while the cleaning runs, every chunk with furniture is in its plan
  or doomed, what is doomed has no paragraph, and the labels it will write back
  are true. Ingestions in between keep it, since what any writer makes has no
  furniture (`Fresh`);
- `ScanInv`: the labels a relabelling has yet to set are true, and a re-splitting
  works on documents as they stand in an index and deletes some of them;
- `StageInv`: a run's stage has its input of every act, and its output of every
  act whose task is neither left nor failed (`Supplied`).

From it follow `StagesAreWhole`, `CleanedForGood`, `MigrationKeepsDocuments` and
`LabelsStayTrue`: the last one because every writer and every script leaves a true
label, so their order does not matter. `ShapeInv` adds what the types of runs and
scripts say, for `TypeOK`.

`LawIsNeverLost` needs `ReplacedInv` besides: while a re-splitting runs, the law of
every chunk it has yet to delete and that is in place is in another chunk of the
index, which it does not delete. An ingestion in between can only overwrite that
chunk under its id, with the same paragraphs. The theorem has one hypothesis, that
`NoIndex` is not itself an index: otherwise a write could seem to drop the index.
`LawStays` needs neither, and says a little less: law leaves only with what a
re-splitting deletes, in place or not, or a migration drops.

Nothing of this model is left to TLC alone.

### What the model shows besides

These are no runs; each is visible in the definition it names.

- The default run of every DAG fails: `act_ids` calls `chunk_counts_by_act`
  (`ingest_domain.py:84`), which no class defines (`ActIds`).
- Indexing is idempotent only over an index nobody repaired. After a relabelling,
  cleaning, re-split or migration, ids no longer match what an ingestion mints:
  it adds duplicates and, where ids do match, puts the old label or furniture
  back. An ingestion never removes a chunk (`Upsert`). `ARCHITECTURE.md:190` and
  `README.md:39-40` say that re-runs never duplicate; no property of the model says
  so, as it is true only of the index such a repair has not touched.
- Re-splitting loses law. A continuation piece of an overlong paragraph has no
  number, so it is sorted before the article's header, where the chunker drops
  it; and what is filed under the label of a neighbour is dropped as not this
  article's. Both old chunks are then deleted: they are not `InPlace`.
- In place means strictly behind the own header and before or behind any other.
  With equal numbers the order is the search's: when a chunk labelled with its
  superscript cut off opens at number 1, as the plain article's own first chunk
  does, either header may come last, and the paragraphs behind it are read as
  that article's.
- `fix_superscript_labels` takes a label with a single reading on trust
  (`fix_superscript_labels.py:118`). Were there an Art. 1[2] and an Art. 12[3] but
  no Art. 12, a chunk of the latter filed as "Art. 12" would become "Art. 1[2]";
  `BasesAreClear` says that the numbering of statutes excludes this.
- A re-split that is interrupted leaves old and new chunks side by side for good:
  the new ones no longer look merged, so a second run does not see the article
  (`Affected`). Its one unpaged search sees at most 10000 chunks.
- `migrate_index` deletes its target first, also when settings already name it
  (`migrate_index.py:109`): the second exception of `LawIsNeverLost`. It also
  puts labels back that `fix_superscript_labels` had restored, when the text on
  disk has them flattened.
- `clean_index_footers` on an empty index divides by zero (line 143).

## 7. The service

A server process from boot to shutdown, and what its clients see of it. `Chats`
looks at a request's transaction statement by statement; here it is one step,
and what `Chats` fixes varies: which parts of the process are there, which
settings it has, whether the model is loaded, and what form a reply has.

### State and actions

| Module | State | Code |
|---|---|---|
| `LazyModel` | `model`, `waiting`, `holder`, `abandoned` | the reranker's `_model` and `_lock`, and its worker threads |
| `Lifespan` | `phase`, `settings`, `app`, `opened` | where `main.lifespan` is, the attributes of `app.state` that are not None, the clients that are open |
| `AnswerCache` | `entries` | Redis; outlives the process |
| `Accounts` | `users`, `registering` | rows of `users`, and requests to register |
| `AskApi` | `chats`, `written`, `ask` | rows of `conversations`, and requests to ask |
| `ChatPage` | `token`, `value`, `choices`, `shown`; `wanted`, `reading`, `clicked`, `sending`; `queued`; `unfinished` | the page's components; the locals of its running handlers; the send Gradio has queued; a history of the answers whose bubble was left unfinished |

Every boot stage (`StartDatabase` to `BuildGraph`) succeeds or fails as the code
lets it: the database must start, the cache may be missing (it is switched off, or
its client, built before the ping, gets no answer and is dropped), the first failure
among the agent's parts leaves the service without an agent, the checkpointer
may be missing, a failed warm-up is ignored. A client counts as open (`opened`)
from its construction, also when it connects later: those of the database, the
cache, the three models (`llm`), a remote embedder, the index, the checkpointer
and the tracing. `Close` is one teardown, which may
raise and ends the process. `Kill` ends it at any point.

`AskApi` has one action per part of an ask: `Admit` (401, 404, 503), `LookUp`,
`ServeHit`, `RefuseTopic`, `Search`, `Rerank`, `Fail`, `Answer`, `Commit`,
`Cancel`. The retriever reranks once for each sub-query, all at once
(`retriever.py:59-61`); an ask here is one caller of the reranker, and several asks
give the interleavings of several callers. A reply is what an in-process client can tell apart: events that end
with `done` or an error, before or after tokens (`error`, `cut`), the same with a
line it cannot parse (`broken`), the JSON of a hit, an error status, an exception.
`ChatPage` has the handlers. A handler takes its inputs at the click and sets its
outputs when it yields or returns, so `NewChat`, `RemoveChat` and `ReadChat` have a
second action for the outputs. `send` has `Send`, the auto-create (`OpenChat`), its
first yield with the request (`ShowQuestion`), one yield for each token
(`ShowTokens`: a prefix, `part`, and the whole text, without any warning), and the
last one after `fetch_chats` (`ShowAnswer`), which alone has the warning. Every
request of a handler may raise: `GET /chats` in `new_chat` and `delete_chat` (`Fetch`)
and at the end of `send`, the auto-create, the transcript. The handler then ends
with what it has yielded, and `unfinished` remembers a `send` that did.

`ChatPage` gets a reply whole and after the commit: `httpx.ASGITransport`
collects the response until the application returns, so for the page, unlike
for a client over the network (finding 1), `done` does mean written, and the
tokens come all at once, but each is shown in a yield of its own. Gradio runs one
`send` at a time (its default concurrency limit), and other handlers beside it.
The button and the box are two events, which both may be pressed: the second waits
(`queued`), with the thread as the page shows it at that moment, and so with a part
of the first answer, which `unfinished` then also has. Other assumptions: cancelling a task that
waits for a thread frees the lock and leaves the thread; uvicorn shuts down when
its requests have ended; a unique index makes a second insert wait for the
first's transaction.

### Runs

| Run | Instance | Shows |
|---|---|---|
| `service` | 6 pipelines, 2 questions, 2 asks, 2 chats of the page, 2 people who want one name; budgets below | all properties below |

A budget is a sequence of processes and the numbers of registrations, clicks,
asks of the other client and failures: every pipeline alone with three failures
(every way to boot, degrade and stop); a second process under a re-pointed index,
another fast model, or no reranker, after answers were stored to either of two
questions; two asks with two failures, for the model's lock; three registrations;
the page with three clicks (the login included) and a failure, or beside another
client. Two asks are enough for the lock, as one waits while the other is
cancelled; the page's hazards are pairs of handlers, and its exceptions cost no
failure of the budget: states in which it shows a part that its `send` left, and
one that a second `send` took over, are reached. The page asks one question
(the action constraint `AskedOfOnePage`), since a bubble has its ask; the other client has the choice of
two. `CHECK_DEADLOCK FALSE`: when the budgets are spent the service rests.

- `ModelIsLoadedOnce`: across cancelled and failed loads.
- `HitsShareThePipeline`: a hit answers the same question, and was written under
  the same writer, embeddings, reranker and index, across restarts under other
  settings.
- `ShownAnswersAreWritten`: what the page shows as a whole answer, without a
  warning, is in a transcript, with its question. What it shows in part without one
  is still being shown, or was cut at a line separator (and is written whole), or its
  `send` raised before the last yield, or another `send` took it over: no other
  way leads to it.
- `StoppedIsClosed`: a stopped process has closed what it opened, with the
  exceptions below.
- `OneAccountPerName`: whatever overlaps.
- `AsksEnd`: every ask ends, also behind a caller that was cancelled while it
  loaded the model.

`Fairness` is weak fairness of each ask's own step while the process serves: the
event loop resumes it, model calls and stores have time limits, and a load ends.
Nothing is assumed of clients, of the operating system or of the page.

### What the model shows besides

- Shutdown is not the reverse of startup, as `main.py:3-4` and `main.py:28` say:
  the cache, opened second, is closed first (`After`). A teardown that raises
  skips the rest.
- Four clients are never closed, the exceptions of `StoppedIsClosed`: a Redis client
  whose ping failed and a search client whose `ensure_index` failed, which the boot
  drops without closing them (`StartCache`, `StartSearch`); a remote embedder's, whose
  `aclose` nothing calls; and those of the language models, for which the code has
  no handle to close (`CreateModels`).
- The fingerprint leaves out the fast and the reasoning model (`Fingerprint`),
  while `cache/client.py:35` and `cache/factory.py:33` say that everything that
  shapes an answer is in the key. `HitsShareThePipeline` is what does hold.
- The page shows an empty bubble for a cached answer and for a 404 or 503
  (`ShowAnswer`), and a part of an answer without a warning when a token contains
  a line separator such as U+2028: `json.dumps(..., ensure_ascii=False)` leaves it
  in, and `aiter_lines` splits at it.
- A part of an answer that was not written, because an `error` event ended its
  reply, stays on the page without a warning when the `GET /chats` after it raises
  (`ShowAnswer`), and in the thread of a second question sent while it is shown
  (`Send`).
- A `send` before `select_chat` has returned puts the bubbles of one chat
  under the name of another (`Send`, `ShowAnswer`); the transcripts stay right.
- The loser of two overlapping registrations gets 500, not 409 (`InsertUser`).

### Proofs

`ServiceProofs` proves every safety property of the service for any settings, number
of asks, chats, people and budgets. It assumes that the asks are finitely many and
distinct from the sentinels (`AsksAreApart`), that something is asked
(`SomethingIsAsked`), that "no send" is not one (`NoSendIsNone`), and that budgets and
settings have their types. `SInv` has a
conjunct for each part of the state:

- `LifeInv`: which clients can be open in which phase, and which of them have
  their attribute, as `Close` looks at the attribute: a cache's and an index's may
  be open without it;
- `ModelInv`: only searches that rerank wait for the lock or hold it, one at a
  time and while there is no model, and a thread loading for nobody is a cancelled
  ask's, so there are never more of them than cancelled asks;
- `AskInv`: an answer that was sent to its end is in its chat's transcript;
- `EntryInv`: an entry is under the key of its own ask and settings, and so a hit,
  which has the same key, shares them;
- `PageInv`: each bubble a handler is about to show, and each in the thread of
  `send` and of the one queued behind it, is settled: it is without an answer or
  warned, came from a transcript or from a reply that was written, or is a part that
  was left. One the page shows is settled, or the part `send` is showing
  (`ShownInv`), and `send` shows tokens only of a reply that has them
  (`SendingInv`). Handlers read and show in several steps, so the property alone
  does not say enough;
- `AccountInv`: of the requests for a name at most one has inserted, and none where
  the name is taken.

`ModelIsLoadedOnce` follows as a property of steps. Only `AsksEnd` is model-checked
only.

## 8. Not modelled

- Reading routes other than the page's, which keep no state; pydantic
  validation, tracing, token contents and hashing.
- The texts of settings, prompts, logs and error bodies.
- What the chunker's regular expressions accept within a line.
- The chapters `migrate_index` corrects beside the labels, and its analyzer.
- Schema migrations: each is one transaction, before any process serves.
  One thing to know of them: the array keeps turns in append order, and a
  downgrade followed by an upgrade rebuilds it by `created_at`, which
  `add_message` takes before its UPDATE waits for the row; two answers written
  at the same moment can therefore change places.
- The evaluation harness: offline scripts around rank metrics.
- Gradio's own queue and the browser beyond the handlers' inputs and outputs.
