------------------------------- MODULE AskApi -------------------------------
(***************************************************************************)
(* The API of a serving process as its clients see it: asks and the chats  *)
(* they are written to.  What Chats.tla takes apart, the transaction and   *)
(* the run, is here one step; what it leaves out is here: whether there is *)
(* an agent, the model its searches load, and the form of the reply.       *)
(***************************************************************************)
EXTENDS Lifespan, AnswerCache, FiniteSets

CONSTANTS
    Asks,      \* bound: the questions that are asked
    Chats,     \* chat ids of the user of the page
    Elsewhere  \* the chat of another client

ASSUME AsksAreApart ==
    /\ IsFiniteSet(Asks)
    /\ NoModel \notin Asks \cup {"warmup"}
    /\ Asks \cap {"blank", "unanswered", "part", "warned"} = {}

VARIABLES
    chats,    \* chats[c]: "unborn", "live" or "gone"
    written,  \* written[c]: the committed turns of c, each its ask and the answer's text
    ask       \* ask[a]: where the request for a is

apiVars == <<chats, written, ask>>

\* The texts of answers: the ask whose run wrote it, when it is whole.
Texts == Asks \cup {"blank", "unanswered", "part", "warned"}

Idle == [pc |-> "idle", chat |-> Elsewhere, question |-> CHOOSE q \in Questions : TRUE,
         text |-> "blank"]

ApiInit ==
    /\ chats = [c \in Chats |-> "unborn"]
    /\ written = [c \in Chats |-> <<>>]
    /\ ask = [a \in Asks |-> Idle]

Live == {c \in Chats : chats[c] = "live"}
At(a, pc) == ask[a].pc = pc
InFlight(a) ==
    ask[a].pc \notin {"idle", "done", "broken", "cut", "error", "raise", "json", "refused"}
Holding(c) == {a \in Asks : InFlight(a) /\ ~At(a, "arrived") /\ ask[a].chat = c}

Goes(a, pc, text) == ask' = [ask EXCEPT ![a].pc = pc, ![a].text = text]

Arrive(a, chat, question) ==
    /\ At(a, "idle")
    /\ ask' = [ask EXCEPT ![a] = [pc |-> "arrived", chat |-> chat,
                                  question |-> question, text |-> "blank"]]
    /\ UNCHANGED <<chats, written>>

\* 401, 404 or 503; else the question is in the transaction.
Admit(a, authorised) ==
    /\ At(a, "arrived")
    /\ IF /\ authorised
          /\ ask[a].chat \in Live \cup {Elsewhere}
          /\ "agentic_rag" \in app
       THEN Goes(a, "asked", "blank") ELSE Goes(a, "refused", "blank")
    /\ UNCHANGED <<chats, written, entries, modelVars>>

LookUp(a) ==
    /\ At(a, "asked")
    /\ \/ /\ "cache" \in app
          /\ IsCached(ask[a].question, settings)
          /\ Goes(a, "hit", Cached(ask[a].question, settings).ask)
       \/ Goes(a, "running", "blank")
    /\ UNCHANGED <<chats, written, entries, modelVars>>

\* The turn as the transcript has it, and the reply.
Write(a, text, reply) ==
    /\ Goes(a, reply, text)
    /\ written' = IF ask[a].chat \in Chats
                  THEN [written EXCEPT ![ask[a].chat] = Append(@, [ask |-> a, text |-> text])]
                  ELSE written
    /\ UNCHANGED chats

\* Nothing is written, and the exception reaches an in-process client.
RollBack(a, reply) == Goes(a, reply, "blank") /\ UNCHANGED <<chats, written>>

ServeHit(a) ==
    /\ At(a, "hit")
    /\ Write(a, ask[a].text, "json") \/ RollBack(a, "raise")
    /\ UNCHANGED <<entries, modelVars>>

\* The guardian ends the run before any token.
RefuseTopic(a) ==
    /\ At(a, "running")
    /\ Goes(a, "committing", "blank")
    /\ UNCHANGED <<chats, written, entries, modelVars>>

\* A search comes to its reranking, for which it needs the model, unless none
\* is configured or nothing was found.
Search(a) ==
    /\ At(a, "running")
    /\ \/ settings.reranker # "" /\ Want(a) /\ Goes(a, "reranking", "blank")
       \/ Goes(a, "writing", "blank") /\ UNCHANGED modelVars
    /\ UNCHANGED <<chats, written, entries>>

Rerank(a) ==
    /\ At(a, "reranking")
    /\ \/ StartLoading(a) /\ UNCHANGED ask
       \/ FindLoaded(a) /\ Goes(a, "writing", "blank")
       \/ Loaded(a) /\ Goes(a, "writing", "blank")
    /\ UNCHANGED <<chats, written, entries>>

\* A node raises: an error event, and the question is committed alone.  The
\* writer may have streamed tokens by then: the reply is "cut".
Fail(a) ==
    /\ \/ At(a, "running") /\ UNCHANGED modelVars
       \/ At(a, "writing") /\ UNCHANGED modelVars
       \/ At(a, "reranking") /\ LoadFails(a)
    /\ \/ Write(a, "unanswered", "error")
       \/ At(a, "writing") /\ Write(a, "unanswered", "cut")
       \/ RollBack(a, "raise")
    /\ UNCHANGED entries

\* The whole answer is cached before it is committed.
Answer(a) ==
    /\ At(a, "writing")
    /\ Goes(a, "committing", a)
    /\ IF "cache" \in app
       THEN StoreResponse(ask[a].question, settings, [ask |-> a, pipeline |-> settings])
       ELSE UNCHANGED entries
    /\ UNCHANGED <<chats, written, modelVars>>

\* Mutant: the session does not raise again what the commit raised.
CommitQuietly(a) ==
    /\ At(a, "committing")
    /\ \/ Write(a, ask[a].text, "done")
       \/ ask[a].text = a /\ Write(a, a, "broken")
       \/ Goes(a, "done", ask[a].text) /\ UNCHANGED <<chats, written>>
    /\ UNCHANGED <<entries, modelVars>>

\* A "broken" reply is whole, but a token in it has a line separator.
Commit(a) ==
    /\ At(a, "committing")
    /\ \/ Write(a, ask[a].text, "done")
       \/ ask[a].text = a /\ Write(a, a, "broken")
       \/ RollBack(a, "raise")
    /\ UNCHANGED <<entries, modelVars>>

\* The client has gone: the task is cancelled and its session closed.
Cancel(a) ==
    /\ InFlight(a)
    /\ Abandon(a)
    /\ RollBack(a, "raise")

AskStep(a, authorised) ==
    \/ Admit(a, authorised) \/ LookUp(a) \/ ServeHit(a) \/ RefuseTopic(a)
    \/ Search(a) \/ Rerank(a) \/ Fail(a) \/ Answer(a) \/ Commit(a)

\* The sweep of unused chats waits for those being asked in.
CreateChat(c) ==
    LET unused == {x \in Live : written[x] = <<>>} IN
    /\ chats[c] = "unborn"
    /\ \A x \in unused : Holding(x) = {}
    /\ chats' = [x \in Chats |-> IF x = c THEN "live"
                                 ELSE IF x \in unused THEN "gone" ELSE chats[x]]
    /\ UNCHANGED written

\* So does a deletion.
DeleteChat(c) ==
    /\ Holding(c) = {}
    /\ chats' = IF c \in Live THEN [chats EXCEPT ![c] = "gone"] ELSE chats
    /\ UNCHANGED written

============================================================================
