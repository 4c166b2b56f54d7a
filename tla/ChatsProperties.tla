-------------------------- MODULE ChatsProperties --------------------------
(***************************************************************************)
(* What the chats and ask endpoints guarantee, and what their comments     *)
(* claim, stated over the model of module Chats.                           *)
(***************************************************************************)
EXTENDS Chats

TypeOK ==
    /\ status \in [Chats -> {"fresh", "reserved", "live", "gone"}]
    /\ owner \in [Chats -> Users \cup {None}]
    /\ title \in [Chats -> Texts \cup {NewTitle}]
    /\ messages \in [Chats -> Seq(Message)]
    /\ lock \in [Chats -> Requests \cup {None}]
    /\ work \in [Requests -> Seq(Message)]
    /\ doomed \in [Requests -> SUBSET Chats]
    /\ scan \in [Requests -> SUBSET Chats]
    /\ lost \subseteq Requests
    /\ pc \in [Requests -> AtStatement \cup Ended
                           \cup {"idle", "queued", "lookup", "stream", "store", "done"}]
    /\ req \in [Requests -> Request \cup {None}]
    /\ \A r \in Requests : r \in Busy => req[r] \in Request
    /\ untitled \in [Requests -> BOOLEAN]
    /\ answer \in [Requests -> Requests \cup {Empty, None}]
    /\ thread \in [Chats -> Seq(Requests)]
    /\ cache \in [Texts -> Requests \cup {None}]
    /\ delivered \subseteq Requests
    /\ faults \in 0..MaxFaults

----------------------------------------------------------------------------
(* The abstract promise, read off the committed rows.                      *)

T == INSTANCE Transcripts WITH live <- {c \in Chats : status[c] = "live"}

\* Whatever requests, faults and locks interleave, the committed rows change
\* as module Transcripts says: a transcript grows by whole turns of requests
\* that wrote none before, a chat holding a message goes only by its deletion,
\* and the sweep of POST /chats takes nothing but the caller's empty chats.
ImplementsTranscripts == T!Spec

\* In a committed transcript every answer directly follows its own question
\* and nothing is there twice, although question and answer are two UPDATEs
\* (routers/ask.py) with a language model's whole run between them.
TurnsAreWhole == \A c \in Chats : T!WholeTurns(messages[c])

----------------------------------------------------------------------------

Asked(r) == pc[r] # "idle" /\ req[r] # None /\ req[r].op = "ask"

\* The last of r's messages, and the one before it, as they must be committed.
Written(r) ==
    LET c == req[r].chat
        turn == IF answer[r] = None THEN <<UserMessage(r)>>
                ELSE <<UserMessage(r), AssistantMessage(r)>>
    IN  \E k \in 0..Len(messages[c]) - Len(turn) :
            \A i \in DOMAIN turn : messages[c][k + i] = turn[i]

\* No committed turn is ever lost to a concurrent append: the hazard that
\* ConversationRepository.add_message's server-side `||` is there for.
CommittedTurnsStay ==
    \A r \in Requests :
        (Asked(r) /\ pc[r] = "committed" /\ status[req[r].chat] = "live")
            => Written(r)

Streaming(c) == {r \in Requests : Asked(r) /\ pc[r] = "stream" /\ req[r].chat = c}

\* Two runs of the agent never advance one thread at once, though neither the
\* router nor the graph serialises them: only the row lock an ask keeps while it
\* streams does.  It lasts as long as the request's connection.
OneRunPerThread ==
    \A c \in Chats : status[c] = "live" =>
        \A r, s \in Streaming(c) : {r, s} \cap lost = {} => r = s

\* The thread a conversation's owner talks into holds only that user's
\* questions: the leak get_chat's docstring warns of, chat id being thread id.
ThreadsArePrivate ==
    \A c \in Chats : \A i, j \in DOMAIN thread[c] :
        req[thread[c][i]].user = req[thread[c][j]].user

AnsweredByRun(r) == answer[r] \in {r, Empty}

\* The agent's memory covers the transcript: every committed answer its runs
\* gave in a chat was checkpointed in that chat's thread, in transcript order.
MemoryCoversTranscript ==
    \A c \in Chats : \A i, j \in DOMAIN messages[c] :
        LET m == messages[c][i]
            n == messages[c][j]
        IN  (/\ i <= j
             /\ m.role = "assistant" /\ AnsweredByRun(m.by)
             /\ n.role = "assistant" /\ AnsweredByRun(n.by))
            => \E p, q \in DOMAIN thread[c] :
                   p <= q /\ thread[c][p] = m.by /\ thread[c][q] = n.by

\* The cache serves only whole, non-empty answers to the very question they
\* were generated for, whatever run failed, was cut off or refused.
CacheHoldsRealAnswers ==
    \A t \in Texts : cache[t] # None =>
        LET s == cache[t] IN
        /\ answer[s] = s
        /\ req[s].text = t
        /\ InThread(req[s].chat, s)

\* A chat with a message has a title of its own: the sweep's docstring counts
\* on empty and untitled chats being the same for chats made by the UI.
AskedChatsAreTitled ==
    \A c \in Chats : messages[c] # <<>> => title[c] # NewTitle

\* The row whose lock r's statement asks for next: an append's or a delete's
\* own chat, the first row a sweep has yet to visit.
Wants(r, c) ==
    \/ pc[r] \in {"append", "remove"} /\ c = req[r].chat
    \/ pc[r] = "sweep" /\ c \in scan[r] /\ \A d \in scan[r] : c <= d

WaitsFor(r, s) == r \notin lost /\ \E c \in Chats : Wants(r, c) /\ lock[c] = s

\* Of any requests, one waits for no row that another of them holds: a sweep
\* waits while it holds the rows it has deleted, and two sweeps and the asks
\* and deletes between them still never wait in a circle.
NoDeadlock ==
    \A S \in SUBSET Requests :
        S # {} /\ IsFiniteSet(S) => \E r \in S : \A s \in S : ~WaitsFor(r, s)

----------------------------------------------------------------------------
(* Liveness, under FairSpec.                                               *)

\* Every request ends, releasing its connection and its row locks, however
\* many others wait for the same row.
EveryRequestEnds ==
    \A r \in Requests : r \in Busy ~> pc[r] \in Ended

\* A client that saw `done` will find its turn in the transcript, unless the
\* chat is deleted or a fault strikes.
DoneIsEventuallyWritten ==
    \A r \in Requests :
        (r \in delivered /\ faults = 0)
            ~> (\/ faults > 0
                \/ r \in delivered /\ (Written(r) \/ status[req[r].chat] = "gone"))

----------------------------------------------------------------------------
(* What the comments claim and the code does not do.                       *)

\* routers/ask.py, lines 10-13: "The accumulated answer is persisted and cached
\* before `done` is sent, so a client that has seen it knows the turn is fully
\* written."
DoneMeansWritten ==
    \A r \in delivered : Written(r) \/ status[req[r].chat] = "gone"

AtMostOneEmptyChat ==
    \A c, d \in Chats :
        (/\ status[c] = "live" /\ messages[c] = <<>>
         /\ status[d] = "live" /\ messages[d] = <<>>
         /\ owner[c] = owner[d])
        => c = d

\* conversation_repository.py, lines 49-50: "Sweeping on the next create bounds
\* these to at most one per user": no step leaves a user with a second one.
SweepBoundsEmptyChats == [][AtMostOneEmptyChat => AtMostOneEmptyChat']_vars

============================================================================
