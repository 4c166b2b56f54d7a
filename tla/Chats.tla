------------------------------- MODULE Chats -------------------------------
(***************************************************************************)
(* Conversations and the ask endpoint: routers/chats.py, routers/ask.py,   *)
(* repositories/conversation_repository.py over one PostgreSQL transaction *)
(* per HTTP request (database/interface/postgres.py, dependencies.py).     *)
(*                                                                         *)
(* A request is a process.  Its session opens a READ COMMITTED transaction *)
(* at the first statement and commits only after the response, an event    *)
(* stream included, has been sent.  An UPDATE or DELETE takes the row's    *)
(* lock and keeps it until the transaction ends: an ask holds its chat's   *)
(* row while the language model streams.  Requests interleave at every     *)
(* await.  The thread checkpoints and the answer cache live outside the    *)
(* transaction.                                                            *)
(***************************************************************************)
EXTENDS Naturals, Sequences, FiniteSets

CONSTANTS
    Users,
    Chats,      \* conversation ids; their order is the rows' physical order
    Requests,   \* HTTP requests, each served once
    Texts,      \* questions (and the titles they give), equal once normalised
    PoolSize,   \* connections the engine hands out, overflow included
    MaxFaults,  \* bound on lost connections and server crashes together
    NewTitle,   \* NEW_CHAT_TITLE; no question is this text
    Empty,      \* the answer of a run whose writer streamed no token
    None

ASSUME ChatsAreOrdered == Chats \subseteq Nat
ASSUME BoundsAreNaturals == PoolSize \in Nat \ {0} /\ MaxFaults \in Nat
ASSUME SentinelsAreDistinct ==
    /\ None \notin Users \cup Requests \cup Texts \cup {Empty, NewTitle}
    /\ Empty \notin Requests
    /\ NewTitle \notin Texts

VARIABLES
    \* committed rows of the table conversations
    status,     \* "fresh": no such id yet, "reserved": its INSERT is
                \* uncommitted, "live": the row exists, "gone": it was deleted
    owner, title, messages,
    \* row locks and the uncommitted effects of open transactions
    lock,       \* lock[c]: the request holding the row's lock
    work,       \* work[r]: r's uncommitted version of its chat's messages
    doomed,     \* doomed[r]: rows r has deleted
    scan,       \* scan[r]: rows r's sweep has yet to visit
    lost,       \* requests whose connection, hence transaction, is lost
    \* what a request's coroutine holds
    pc, req,
    untitled,   \* untitled[r]: the loaded row still had the placeholder title
    answer,     \* answer[r]: the request whose run produced the text r serves
    \* stores outside the transaction
    thread,     \* thread[c]: requests whose question the checkpointer holds
    cache,      \* cache[t]: the request whose answer Redis holds for t
    \* observed by the client
    delivered,  \* requests whose client received the `done` event
    faults

rows == <<status, owner, title, messages>>
transaction == <<lock, work, doomed, scan, lost>>
local == <<req, untitled, answer>>
stores == <<thread, cache>>
vars == <<rows, transaction, pc, local, stores, delivered, faults>>

----------------------------------------------------------------------------

UserMessage(r) == [role |-> "user", by |-> r]
AssistantMessage(r) == [role |-> "assistant", by |-> r]
Message == [role : {"user", "assistant"}, by : Requests]

Request ==
    [op : {"ask"}, user : Users, chat : Chats, text : Texts]
        \cup [op : {"create"}, user : Users, chat : Chats, text : Texts \cup {None}]
        \cup [op : {"delete"}, user : Users, chat : Chats, text : {None}]

Ended == {"committed", "failed"}

\* Requests under way, and those of them that have a connection of the pool.
Busy == {r \in Requests : pc[r] \notin {"idle"} \cup Ended}
Connected == {r \in Busy : pc[r] # "queued"}

\* Points at which the coroutine's next step is a statement on its connection.
AtStatement == {"begin", "append", "hit", "persist", "sweep", "remove", "commit"}

HoldsRow(r) == lock[req[r].chat] = r
InThread(c, r) == \E i \in DOMAIN thread[c] : thread[c][i] = r

Init ==
    /\ status \in [Chats -> {"fresh", "live"}]
    /\ owner \in [Chats -> Users \cup {None}]
    /\ \A c \in Chats : status[c] = "live" <=> owner[c] # None
    /\ title = [c \in Chats |-> NewTitle]
    /\ messages = [c \in Chats |-> <<>>]
    /\ lock = [c \in Chats |-> None]
    /\ work = [r \in Requests |-> <<>>]
    /\ doomed = [r \in Requests |-> {}]
    /\ scan = [r \in Requests |-> {}]
    /\ lost = {}
    /\ pc = [r \in Requests |-> "idle"]
    /\ req = [r \in Requests |-> None]
    /\ untitled = [r \in Requests |-> FALSE]
    /\ answer = [r \in Requests |-> None]
    /\ thread = [c \in Chats |-> <<>>]
    /\ cache = [t \in Texts |-> None]
    /\ delivered = {}
    /\ faults = 0

GoTo(r, label) == pc' = [pc EXCEPT ![r] = label]

\* The transaction of every request in R is over: row locks are released and
\* whatever was not installed is forgotten.
Release(R) ==
    /\ lock' = [c \in Chats |-> IF lock[c] \in R THEN None ELSE lock[c]]
    /\ work' = [r \in Requests |-> IF r \in R THEN <<>> ELSE work[r]]
    /\ doomed' = [r \in Requests |-> IF r \in R THEN {} ELSE doomed[r]]
    /\ scan' = [r \in Requests |-> IF r \in R THEN {} ELSE scan[r]]

\* An exception handler that forgets session.rollback().
RollbackForgotten(r) ==
    /\ GoTo(r, "failed")
    /\ UNCHANGED <<rows, transaction>>

\* An exception leaves the session context manager: session.rollback().
Rollback(r) ==
    /\ GoTo(r, "failed")
    /\ Release({r})
    /\ lost' = lost \ {r}
    /\ UNCHANGED rows

----------------------------------------------------------------------------
(* Arrival: a request waits for a connection of the pool for its first     *)
(* query, the lookup of the current user.                                  *)

Accept(r, q) ==
    /\ pc[r] = "idle"
    /\ GoTo(r, "queued")
    /\ req' = [req EXCEPT ![r] = q]
    /\ UNCHANGED <<owner, title, messages, transaction, untitled, answer,
                   stores, delivered, faults>>

ArriveAsk(r) ==
    \E u \in Users, c \in Chats, t \in Texts :
        /\ status[c] # "fresh"
        /\ Accept(r, [op |-> "ask", user |-> u, chat |-> c, text |-> t])
        /\ UNCHANGED status

\* The new row's id is a fresh UUID; its title is the payload's, by default
\* the placeholder.
ArriveCreate(r) ==
    \E u \in Users, c \in Chats, t \in Texts \cup {None} :
        /\ status[c] = "fresh"
        /\ Accept(r, [op |-> "create", user |-> u, chat |-> c, text |-> t])
        /\ status' = [status EXCEPT ![c] = "reserved"]

ArriveDelete(r) ==
    \E u \in Users, c \in Chats :
        /\ status[c] # "fresh"
        /\ Accept(r, [op |-> "delete", user |-> u, chat |-> c, text |-> None])
        /\ UNCHANGED status

Connect(r) ==
    /\ pc[r] = "queued"
    /\ Cardinality(Connected) < PoolSize
    /\ GoTo(r, "begin")
    /\ UNCHANGED <<rows, transaction, local, stores, delivered, faults>>

\* Every connection stays checked out for the pool's timeout.
PoolTimeout(r) ==
    /\ pc[r] = "queued"
    /\ Cardinality(Connected) >= PoolSize
    /\ GoTo(r, "failed")
    /\ UNCHANGED <<rows, transaction, local, stores, delivered, faults>>

----------------------------------------------------------------------------
(* The ownership gate of every per-chat route.                             *)

OwnsIgnoringUser(r) == status[req[r].chat] = "live"

Owns(r) ==
    /\ status[req[r].chat] = "live"
    /\ owner[req[r].chat] = req[r].user

GetChat(r) ==
    /\ pc[r] = "begin"
    /\ req[r].op # "create"
    /\ r \notin lost
    /\ \/ /\ Owns(r)
          /\ GoTo(r, IF req[r].op = "ask" THEN "append" ELSE "remove")
          /\ untitled' = [untitled EXCEPT ![r] = title[req[r].chat] = NewTitle]
          /\ UNCHANGED <<rows, transaction>>
       \/ /\ ~Owns(r)
          /\ Rollback(r)
          /\ UNCHANGED untitled
    /\ UNCHANGED <<req, answer, stores, delivered, faults>>

----------------------------------------------------------------------------
(* POST /chats/{c}/ask/stream                                              *)

\* What the append would be if it loaded the list and wrote it back, without
\* waiting for the row's lock.
AppendQuestionUnlocked(r) ==
    LET c == req[r].chat IN
    /\ pc[r] = "append"
    /\ r \notin lost
    /\ status[c] = "live"
    /\ lock' = [lock EXCEPT ![c] = r]
    /\ work' = [work EXCEPT ![r] = Append(messages[c], UserMessage(r))]
    /\ GoTo(r, "lookup")
    /\ UNCHANGED <<rows, doomed, scan, lost, local, stores, delivered, faults>>

\* The UPDATE waits for the row's lock, then appends to the version it finds.
\* When the row was deleted meanwhile it matches nothing, silently; the title's
\* UPDATE, issued only for an untitled chat, then fails on its row count.
AppendQuestion(r) ==
    LET c == req[r].chat IN
    /\ pc[r] = "append"
    /\ r \notin lost
    /\ \/ /\ status[c] = "live"
          /\ lock[c] = None
          /\ lock' = [lock EXCEPT ![c] = r]
          /\ work' = [work EXCEPT ![r] = Append(messages[c], UserMessage(r))]
          /\ GoTo(r, "lookup")
          /\ UNCHANGED <<rows, doomed, scan, lost>>
       \/ /\ status[c] = "gone"
          /\ ~untitled[r]
          /\ GoTo(r, "lookup")
          /\ UNCHANGED <<rows, transaction>>
       \/ /\ status[c] = "gone"
          /\ untitled[r]
          /\ Rollback(r)
    /\ UNCHANGED <<local, stores, delivered, faults>>

\* A lookup may miss whatever the cache holds: Redis errors count as misses.
LookUp(r) ==
    /\ pc[r] = "lookup"
    /\ \/ /\ cache[req[r].text] # None
          /\ answer' = [answer EXCEPT ![r] = cache[req[r].text]]
          /\ GoTo(r, "hit")
       \/ /\ GoTo(r, "stream")
          /\ UNCHANGED answer
    /\ UNCHANGED <<rows, transaction, req, untitled, stores, delivered, faults>>

\* An append that rewrites the committed list, forgetting r's own question.
AppendFromCommitted(r) ==
    /\ work' = [work EXCEPT ![r] =
                   IF HoldsRow(r)
                   THEN Append(messages[req[r].chat], AssistantMessage(r))
                   ELSE @]
    /\ UNCHANGED <<lock, doomed, scan, lost>>

\* add_message(chat_id, "assistant", ...): r already holds the row, or the row
\* is gone and the UPDATE matches nothing.
AppendAssistant(r) ==
    /\ work' = [work EXCEPT ![r] =
                   IF HoldsRow(r) THEN Append(@, AssistantMessage(r)) ELSE @]
    /\ UNCHANGED <<lock, doomed, scan, lost>>

\* The cached answer goes out whole; the session commits after the response.
ServeHit(r) ==
    /\ pc[r] = "hit"
    /\ r \notin lost
    /\ AppendAssistant(r)
    /\ GoTo(r, "commit")
    /\ UNCHANGED <<rows, local, stores, delivered, faults>>

\* The run's input checkpoint is written in the background while nodes run.
Checkpoint(r) ==
    LET c == req[r].chat IN
    /\ pc[r] = "stream"
    /\ ~InThread(c, r)
    /\ thread' = [thread EXCEPT ![c] = Append(@, r)]
    /\ UNCHANGED <<rows, transaction, pc, local, cache, delivered, faults>>

\* A run that returns without waiting for its checkpoint.
FinishRunEarly(r) ==
    /\ pc[r] = "stream"
    /\ answer' = [answer EXCEPT ![r] = r]
    /\ GoTo(r, "persist")
    /\ UNCHANGED <<rows, transaction, req, untitled, stores, delivered, faults>>

\* The run ends once its checkpoints are written.  The guardian's refusal, or
\* a writer that says nothing, leaves the answer empty.
FinishRun(r) ==
    /\ pc[r] = "stream"
    /\ InThread(req[r].chat, r)
    /\ \E a \in {r, Empty} : answer' = [answer EXCEPT ![r] = a]
    /\ GoTo(r, "persist")
    /\ UNCHANGED <<rows, transaction, req, untitled, stores, delivered, faults>>

\* A failed run whose partial answer is kept as if it were whole.
FailRunKeepingTokens(r) ==
    /\ pc[r] = "stream"
    /\ answer' = [answer EXCEPT ![r] = r]
    /\ GoTo(r, "persist")
    /\ UNCHANGED <<rows, transaction, req, untitled, stores, delivered, faults>>

\* A node raised: the client gets an `error` event, the question stays.
FailRun(r) ==
    /\ pc[r] = "stream"
    /\ GoTo(r, "commit")
    /\ UNCHANGED <<rows, transaction, local, stores, delivered, faults>>

PersistAnswer(r) ==
    /\ pc[r] = "persist"
    /\ r \notin lost
    /\ AppendAssistant(r)
    /\ GoTo(r, "store")
    /\ UNCHANGED <<rows, local, stores, delivered, faults>>

\* A store that does not look at the answer first.
StoreAnything(r) ==
    /\ pc[r] = "store"
    /\ GoTo(r, "done")
    /\ cache' = [cache EXCEPT ![req[r].text] = answer[r]]
    /\ UNCHANGED <<rows, transaction, local, thread, delivered, faults>>

\* Never an empty answer; Redis errors are swallowed.
StoreAnswer(r) ==
    /\ pc[r] = "store"
    /\ GoTo(r, "done")
    /\ \/ /\ answer[r] # Empty
          /\ cache' = [cache EXCEPT ![req[r].text] = answer[r]]
       \/ UNCHANGED cache
    /\ UNCHANGED <<rows, transaction, local, thread, delivered, faults>>

SendDone(r) ==
    /\ pc[r] = "done"
    /\ GoTo(r, "commit")
    /\ delivered' = delivered \cup {r}
    /\ UNCHANGED <<rows, transaction, local, stores, faults>>

\* The client goes away while the events are produced.  The generator is
\* cancelled and the session still commits, unless a statement was in flight:
\* cancelling that one costs the connection.
Disconnect(r) ==
    /\ \/ /\ pc[r] \in {"stream", "store", "done"}
          /\ GoTo(r, "commit")
          /\ UNCHANGED <<rows, transaction>>
       \/ /\ pc[r] = "persist"
          /\ Rollback(r)
    /\ UNCHANGED <<local, stores, delivered, faults>>

----------------------------------------------------------------------------
(* POST /chats: sweep the user's unused chats, then insert the new one.    *)

\* A sweep that trusts its snapshot after waiting for the row.
UnusedInSnapshot(r, c) == status[c] = "live" /\ owner[c] = req[r].user

\* The condition of the DELETE in delete_empty.
Unused(r, c) ==
    /\ status[c] = "live"
    /\ owner[c] = req[r].user
    /\ messages[c] = <<>>

ScanEmpty(r) ==
    /\ pc[r] = "begin"
    /\ req[r].op = "create"
    /\ r \notin lost
    /\ scan' = [scan EXCEPT ![r] = {c \in Chats : Unused(r, c)}]
    /\ GoTo(r, "sweep")
    /\ UNCHANGED <<rows, lock, work, doomed, lost, local, stores, delivered,
                   faults>>

\* A sweep that takes its rows in any order.
SweepRowAnyOrder(r) ==
    /\ pc[r] = "sweep"
    /\ r \notin lost
    /\ \E c \in scan[r] :
          /\ lock[c] = None
          /\ scan' = [scan EXCEPT ![r] = @ \ {c}]
          /\ IF Unused(r, c)
             THEN /\ lock' = [lock EXCEPT ![c] = r]
                  /\ doomed' = [doomed EXCEPT ![r] = @ \cup {c}]
             ELSE UNCHANGED <<lock, doomed>>
    /\ UNCHANGED <<rows, work, lost, pc, local, stores, delivered, faults>>

\* The DELETE visits its snapshot's rows in physical order.  It waits for each
\* one's lock and re-evaluates its condition on the version it then finds.
SweepRow(r) ==
    /\ pc[r] = "sweep"
    /\ r \notin lost
    /\ \E c \in scan[r] :
          /\ \A d \in scan[r] : c <= d
          /\ lock[c] = None
          /\ scan' = [scan EXCEPT ![r] = @ \ {c}]
          /\ IF Unused(r, c)
             THEN /\ lock' = [lock EXCEPT ![c] = r]
                  /\ doomed' = [doomed EXCEPT ![r] = @ \cup {c}]
             ELSE UNCHANGED <<lock, doomed>>
    /\ UNCHANGED <<rows, work, lost, pc, local, stores, delivered, faults>>

InsertChat(r) ==
    /\ pc[r] = "sweep"
    /\ r \notin lost
    /\ scan[r] = {}
    /\ GoTo(r, "commit")
    /\ UNCHANGED <<rows, transaction, local, stores, delivered, faults>>

----------------------------------------------------------------------------
(* DELETE /chats/{c}                                                       *)

RemoveChat(r) ==
    LET c == req[r].chat IN
    /\ pc[r] = "remove"
    /\ r \notin lost
    /\ lock[c] = None
    /\ IF status[c] = "live"
       THEN /\ lock' = [lock EXCEPT ![c] = r]
            /\ doomed' = [doomed EXCEPT ![r] = @ \cup {c}]
       ELSE UNCHANGED <<lock, doomed>>
    /\ GoTo(r, "commit")
    /\ UNCHANGED <<rows, work, scan, lost, local, stores, delivered, faults>>

----------------------------------------------------------------------------
(* The end of the transaction, after the response was sent.                *)

TitleOfNew(r) == IF req[r].text = None THEN NewTitle ELSE req[r].text

\* A title that is only given to chats which have one.
TitleAfterInverted(r, c) ==
    IF HoldsRow(r) /\ ~untitled[r] THEN req[r].text ELSE title[c]

\* The question names a chat that was untitled when r loaded it.
TitleAfterAsk(r, c) ==
    IF HoldsRow(r) /\ untitled[r] THEN req[r].text ELSE title[c]

\* A session that is closed without a commit.
CommitForgotten(r) ==
    /\ pc[r] = "commit"
    /\ r \notin lost
    /\ GoTo(r, "committed")
    /\ Release({r})
    /\ UNCHANGED <<rows, lost, local, stores, delivered, faults>>

\* session.commit(): r's versions of its rows become the committed ones.
Commit(r) ==
    LET c == req[r].chat IN
    /\ pc[r] = "commit"
    /\ r \notin lost
    /\ GoTo(r, "committed")
    /\ Release({r})
    /\ UNCHANGED lost
    /\ \/ /\ req[r].op = "ask"
          /\ messages' = [messages EXCEPT ![c] = IF HoldsRow(r) THEN work[r] ELSE @]
          /\ title' = [title EXCEPT ![c] = TitleAfterAsk(r, c)]
          /\ UNCHANGED <<status, owner>>
       \/ /\ req[r].op # "ask"
          /\ status' = [d \in Chats |->
                           IF d \in doomed[r] THEN "gone"
                           ELSE IF req[r].op = "create" /\ d = c THEN "live"
                           ELSE status[d]]
          /\ owner' = [d \in Chats |->
                          IF d \in doomed[r] THEN None
                          ELSE IF req[r].op = "create" /\ d = c THEN req[r].user
                          ELSE owner[d]]
          /\ title' = [d \in Chats |->
                          IF d \in doomed[r] THEN NewTitle
                          ELSE IF req[r].op = "create" /\ d = c THEN TitleOfNew(r)
                          ELSE title[d]]
          /\ messages' = [d \in Chats |->
                             IF d \in doomed[r] THEN <<>> ELSE messages[d]]
    /\ UNCHANGED <<local, stores, delivered, faults>>

----------------------------------------------------------------------------
(* Faults and expiry.                                                      *)

\* The connection is lost while the coroutine goes on: the server rolls the
\* transaction back at once and the row is free again.
LoseConnection(r) ==
    /\ r \in Connected \ lost
    /\ faults < MaxFaults
    /\ faults' = faults + 1
    /\ lost' = lost \cup {r}
    /\ Release({r})
    /\ UNCHANGED <<rows, pc, local, stores, delivered>>

\* The coroutine notices at its next statement.
FailStatement(r) ==
    /\ r \in lost
    /\ pc[r] \in AtStatement
    /\ Rollback(r)
    /\ UNCHANGED <<local, stores, delivered, faults>>

\* The API process dies with every request in it; Postgres, the checkpoints
\* and Redis stay.
Crash ==
    /\ Busy # {}
    /\ faults < MaxFaults
    /\ faults' = faults + 1
    /\ pc' = [r \in Requests |-> IF r \in Busy THEN "failed" ELSE pc[r]]
    /\ Release(Busy)
    /\ lost' = {}
    /\ UNCHANGED <<rows, local, stores, delivered>>

\* An entry reaches its time to live, or Redis evicts it.
Expire(t) ==
    /\ cache[t] # None
    /\ cache' = [cache EXCEPT ![t] = None]
    /\ UNCHANGED <<rows, transaction, pc, local, thread, delivered, faults>>

----------------------------------------------------------------------------

\* The steps the server takes of its own accord.
Serve(r) ==
    \/ Connect(r) \/ PoolTimeout(r)
    \/ GetChat(r)
    \/ AppendQuestion(r) \/ LookUp(r) \/ ServeHit(r)
    \/ Checkpoint(r) \/ FinishRun(r) \/ FailRun(r)
    \/ PersistAnswer(r) \/ StoreAnswer(r) \/ SendDone(r)
    \/ ScanEmpty(r) \/ SweepRow(r) \/ InsertChat(r)
    \/ RemoveChat(r)
    \/ Commit(r) \/ FailStatement(r)

Client(r) ==
    \/ ArriveAsk(r) \/ ArriveCreate(r) \/ ArriveDelete(r)
    \/ Disconnect(r)

Next ==
    \/ \E r \in Requests : Serve(r) \/ Client(r) \/ LoseConnection(r)
    \/ Crash
    \/ \E t \in Texts : Expire(t)

Spec == Init /\ [][Next]_vars

\* The event loop keeps running every coroutine that can run, the language
\* model's client gives up after a bounded time, Postgres grants a released lock
\* to a waiter, and the pool answers whoever waits for a connection.  Clients
\* and faults owe nothing.
Fairness == \A r \in Requests : WF_vars(Serve(r))

FairSpec == Spec /\ Fairness

============================================================================
