---------------------------- MODULE ChatsMemory ----------------------------
(***************************************************************************)
(* What module Chats keeps outside the row locks: the agent's thread, the  *)
(* answer cache, the titles and the committed turns.  The invariant MInv   *)
(* is inductive on top of ChatsProofs' IInv.                               *)
(***************************************************************************)
EXTENDS ChatsProofs

Early == {"idle", "queued", "begin", "append", "lookup"}
AnsweredAt == {"persist", "store", "done"}

\* An ask that passed the ownership gate and is not over.
Inside(r) == r \in Busy /\ req[r].op = "ask" /\ pc[r] \notin {"queued", "begin"}

\* All of m's places in the thread of c are before all of n's.
Before(c, m, n) ==
    \A p, q \in DOMAIN thread[c] : thread[c][p] = m /\ thread[c][q] = n => p <= q

\* Who is in a thread came through the gate of that chat, and is there once.
ThreadInv ==
    \A c \in Chats, r \in Requests : InThread(c, r) =>
        /\ pc[r] \notin Early
        /\ req[r].op = "ask" /\ req[r].chat = c
        /\ status[c] \in {"live", "gone"}
        /\ Before(c, r, r)

\* The requests that are, or may yet come, into the thread of c.
Insiders(c) ==
    {r \in Requests : InThread(c, r) \/ (Inside(r) /\ req[r].chat = c)}

\* They are one user's, the owner's while there is one.
PrivacyInv ==
    \A c \in Chats : \A r, s \in Insiders(c) :
        /\ req[r].user = req[s].user
        /\ status[c] = "live" => req[r].user = owner[c]

\* What an answer says of the run that gave it.
AnswerInv ==
    \A r \in Requests :
        /\ pc[r] \in Early \cup {"stream"} => answer[r] = None
        /\ pc[r] \in AnsweredAt => AnsweredByRun(r)
        /\ pc[r] = "hit" => answer[r] # None
        /\ AnsweredByRun(r) => req[r] \in Request /\ InThread(req[r].chat, r)

CacheInv ==
    \A t \in Texts : cache[t] # None =>
        answer[cache[t]] = cache[t] /\ req[cache[t]].text = t

\* An ask that saw a title, or will give one, leaves its chat titled.
TitleInv ==
    /\ AskedChatsAreTitled
    /\ \A r \in Requests :
          Inside(r) /\ ~untitled[r] /\ status[req[r].chat] = "live"
              => title[req[r].chat] # NewTitle

\* What r's transaction commits is its question, with its answer if any.
TurnInv ==
    /\ CommittedTurnsStay
    /\ \A r \in Requests :
          Asked(r) /\ pc[r] = "committed" => status[req[r].chat] \in {"live", "gone"}
    /\ \A r \in Busy :
          req[r].op = "ask" /\ pc[r] = "commit" /\ HoldsRow(r) =>
              IF answer[r] = None
              THEN work[r] = Append(messages[req[r].chat], UserMessage(r))
              ELSE work[r] = Append(Append(messages[req[r].chat], UserMessage(r)),
                                    AssistantMessage(r))

\* Committed answers of runs are in the thread, in transcript order, and all
\* of them before the run that holds the row.
OrderInv ==
    \A c \in Chats : \A i \in DOMAIN messages[c] :
        LET m == messages[c][i] IN
        m.role = "assistant" /\ AnsweredByRun(m.by) =>
            /\ InThread(c, m.by)
            /\ \A j \in DOMAIN messages[c] :
                  LET n == messages[c][j] IN
                  i <= j /\ n.role = "assistant" /\ AnsweredByRun(n.by)
                      => Before(c, m.by, n.by)
            /\ \A r \in Busy : req[r].op = "ask" /\ req[r].chat = c /\ lock[c] = r
                  => Before(c, m.by, r)

MInv == ThreadInv /\ PrivacyInv /\ AnswerInv /\ CacheInv /\ TitleInv /\ TurnInv /\ OrderInv

----------------------------------------------------------------------------
(* What a step may do, as far as MInv is concerned.                        *)

\* r's coroutine goes on, and what it holds stays with it.
Goes(r) ==
    /\ pc'[r] \in Early => pc[r] \in Early
    /\ pc'[r] = "stream" => pc[r] \in {"lookup", "stream"}
    /\ pc'[r] \in {"store", "done"} => pc[r] \in AnsweredAt
    /\ pc'[r] = "hit" => pc[r] \in {"lookup", "hit"}
    /\ pc'[r] = "committed" => pc[r] \in {"commit", "committed"}
    /\ pc[r] \in Ended => pc'[r] = pc[r]
    /\ pc[r] = "idle" => pc'[r] \in {"idle", "queued"}
    /\ pc[r] = "queued" => pc'[r] \in {"queued", "begin", "failed"}
    /\ pc[r] # "idle" => pc'[r] # "idle" /\ req'[r] = req[r]
    /\ pc[r] \notin {"idle", "queued", "begin"} => untitled'[r] = untitled[r]

\* The ownership gate of an ask.
Enters(r) ==
    pc[r] = "begin" /\ req[r].op = "ask" =>
        \/ pc'[r] \in {"begin"} \cup Ended
        \/ /\ Owns(r)
           /\ untitled'[r] = (title[req[r].chat] = NewTitle)
           /\ UNCHANGED <<status, owner, title>>

\* r's answer comes from the cache, or from its own run.
Answers(r) ==
    \/ answer'[r] = answer[r] /\ (pc'[r] = pc[r] \/ pc'[r] \notin {"hit", "persist"})
    \/ /\ pc[r] = "lookup" /\ pc'[r] = "hit" /\ r \in Busy
       /\ cache[req[r].text] # None
       /\ answer'[r] = cache[req[r].text]
    \/ /\ pc[r] = "stream" /\ pc'[r] = "persist" /\ r \in Busy
       /\ InThread(req[r].chat, r)
       /\ answer'[r] \in {r, Empty}

\* A thread only grows, by a run under way that it does not know yet.
Threads ==
    \/ thread' = thread
    \/ \E r \in Busy : /\ pc[r] = "stream" /\ pc'[r] = "stream"
                       /\ ~InThread(req[r].chat, r)
                       /\ thread' = [thread EXCEPT ![req[r].chat] = Append(@, r)]

\* The cache forgets, or takes the answer of the run that stores it.
Caches ==
    \A t \in Texts :
        \/ cache'[t] \in {cache[t], None}
        \/ \E r \in Busy : /\ pc[r] = "store" /\ req[r].text = t
                           /\ answer[r] # Empty
                           /\ cache'[t] = answer[r]

\* r commits its turn in c.
Commits(r, c) ==
    /\ pc[r] = "commit" /\ pc'[r] = "committed" /\ r \in Busy
    /\ req[r].op = "ask" /\ req[r].chat = c
    /\ status[c] = "live" /\ lock[c] = r
    /\ UNCHANGED <<status, owner>>
    /\ messages'[c] = work[r]
    /\ title'[c] = TitleAfterAsk(r, c)

\* A chat's row changes by the life cycle of the chat and by commits of turns.
RowMoves(c) ==
    \/ /\ status'[c] = status[c] /\ owner'[c] = owner[c]
       /\ messages'[c] = messages[c] /\ title'[c] = title[c]
    \/ /\ status[c] \in {"fresh", "reserved"}
       /\ status'[c] \in {"reserved", "live"}
       /\ messages'[c] = messages[c]
    \/ /\ status'[c] = "gone" /\ status[c] = "live"
       /\ messages'[c] = <<>>
    \/ \E r \in Busy : Commits(r, c)

\* An ask that is newly committed had its row, or its chat is gone.
Ends(r) ==
    pc'[r] = "committed" /\ pc[r] # "committed" /\ req[r].op = "ask" =>
        \/ Commits(r, req[r].chat)
        \/ status[req[r].chat] = "gone" /\ status' = status

\* An ask keeps the row its question's UPDATE gave it, and the row waits.
Keeps(r) ==
    r \in Busy' /\ req'[r].op = "ask" /\ HoldsRow(r)' =>
        /\ r \in Busy
        /\ messages'[req[r].chat] = messages[req[r].chat]
        /\ \/ pc[r] = "append" /\ pc'[r] = "lookup"
           \/ /\ HoldsRow(r)
              /\ pc'[r] = "commit" =>
                    /\ answer'[r] = answer[r]
                    /\ \/ /\ pc[r] \in {"stream", "store", "done", "commit"}
                          /\ work'[r] = work[r]
                       \/ /\ pc[r] = "hit"
                          /\ work'[r] = Append(work[r], AssistantMessage(r))

Evolves ==
    /\ \A r \in Requests : Goes(r) /\ Enters(r) /\ Answers(r) /\ Ends(r) /\ Keeps(r)
    /\ Threads /\ Caches
    /\ \A c \in Chats : RowMoves(c)

\* A request's coroutine moves as Goes, Enters and Answers say.
LEMMA CoroutineStep ==
    ASSUME TypeInv, [Next]_vars, NEW r \in Requests
    PROVE  Goes(r) /\ Enters(r) /\ Answers(r)
<1> USE DEF GoTo, Busy, Ended, AtStatement, Early, AnsweredAt
<1>1. TypeOK
  BY DEF TypeInv
<1> SUFFICES ASSUME TypeOK, [Next]_vars PROVE Goes(r) /\ Enters(r) /\ Answers(r)
  BY <1>1
<1>2. ASSUME NEW s \in Requests, ArriveAsk(s) \/ ArriveCreate(s) \/ ArriveDelete(s)
      PROVE  Goes(r) /\ Enters(r) /\ Answers(r)
  <2>1. PICK q : /\ pc[s] = "idle" /\ pc' = [pc EXCEPT ![s] = "queued"]
                 /\ req' = [req EXCEPT ![s] = q]
                 /\ UNCHANGED <<untitled, answer>>
    BY <1>2 DEF ArriveAsk, ArriveCreate, ArriveDelete, Accept
  <2>2. Goes(r) /\ Enters(r)
    BY <2>1 DEF TypeOK, Goes, Enters
  <2>3. Answers(r)
    BY <2>1 DEF TypeOK, Answers
  <2> QED
    BY <2>2, <2>3
<1>3. ASSUME NEW s \in Requests, Connect(s) \/ PoolTimeout(s) \/ FailRun(s) \/ SendDone(s)
      PROVE  Goes(r) /\ Enters(r) /\ Answers(r)
  BY <1>3 DEF TypeOK, Goes, Enters, Answers, Connect, PoolTimeout, FailRun, SendDone, local
<1>4. ASSUME NEW s \in Requests, GetChat(s)
      PROVE  Goes(r) /\ Enters(r) /\ Answers(r)
  BY <1>4 DEF TypeOK, Goes, Enters, Answers, GetChat, Rollback, rows
<1>5. ASSUME NEW s \in Requests, AppendQuestion(s)
      PROVE  Goes(r) /\ Enters(r) /\ Answers(r)
  BY <1>5 DEF TypeOK, Goes, Enters, Answers, AppendQuestion, Rollback, local
<1>6. ASSUME NEW s \in Requests, LookUp(s) \/ FinishRun(s)
      PROVE  Goes(r) /\ Enters(r) /\ Answers(r)
  BY <1>6 DEF TypeOK, Goes, Enters, Answers, LookUp, FinishRun
<1>7. ASSUME NEW s \in Requests, ServeHit(s) \/ Checkpoint(s) \/ PersistAnswer(s) \/ StoreAnswer(s)
      PROVE  Goes(r) /\ Enters(r) /\ Answers(r)
  BY <1>7 DEF TypeOK, Goes, Enters, Answers, ServeHit, Checkpoint, PersistAnswer, StoreAnswer, local
<1>8. ASSUME NEW s \in Requests, ScanEmpty(s) \/ SweepRow(s) \/ InsertChat(s) \/ RemoveChat(s)
      PROVE  Goes(r) /\ Enters(r) /\ Answers(r)
  <2>1. UNCHANGED local /\ (pc' = pc \/ (pc[s] = "begin" /\ req[s].op = "create" /\ pc' = [pc EXCEPT ![s] = "sweep"])
                                      \/ (pc[s] \in {"sweep", "remove"} /\ pc' = [pc EXCEPT ![s] = "commit"]))
    BY <1>8 DEF ScanEmpty, SweepRow, InsertChat, RemoveChat
  <2> QED
    BY <2>1 DEF TypeOK, Goes, Enters, Answers, local
<1>9. ASSUME NEW s \in Requests, Commit(s) \/ FailStatement(s) \/ Disconnect(s) \/ LoseConnection(s)
      PROVE  Goes(r) /\ Enters(r) /\ Answers(r)
  <2>1. UNCHANGED local
        /\ \/ pc' = pc
           \/ pc[s] = "commit" /\ pc' = [pc EXCEPT ![s] = "committed"]
           \/ pc[s] \in AtStatement /\ pc' = [pc EXCEPT ![s] = "failed"]
           \/ pc[s] \in {"stream", "store", "done"} /\ pc' = [pc EXCEPT ![s] = "commit"]
    BY <1>9 DEF Commit, FailStatement, Disconnect, LoseConnection, Rollback
  <2> QED
    BY <2>1 DEF TypeOK, Goes, Enters, Answers, local
<1>10. CASE Crash
  BY <1>10 DEF TypeOK, Goes, Enters, Answers, Crash, local
<1>11. CASE UNCHANGED vars \/ \E t \in Texts : Expire(t)
  BY <1>11 DEF TypeOK, Goes, Enters, Answers, Expire, vars, local
<1> QED
  BY <1>2, <1>3, <1>4, <1>5, <1>6, <1>7, <1>8, <1>9, <1>10, <1>11 DEF Next, Serve, Client

\* Threads and cache change as Threads and Caches say.
LEMMA StoresStep ==
    ASSUME TypeInv, [Next]_vars
    PROVE  Threads /\ Caches
<1> USE DEF GoTo, Busy, Ended, AtStatement
<1>1. TypeOK
  BY DEF TypeInv
<1>2. CASE UNCHANGED stores
  BY <1>2 DEF Threads, Caches, stores
<1>3. ASSUME NEW r \in Requests, Checkpoint(r)
      PROVE  Threads /\ Caches
  BY <1>1, <1>3 DEF TypeOK, Threads, Caches, Checkpoint
<1>4. ASSUME NEW r \in Requests, StoreAnswer(r)
      PROVE  Threads /\ Caches
  <2>1. r \in Busy /\ req[r].text \in Texts
    BY <1>1, <1>4, RequestType DEF StoreAnswer, TypeInv, KindInv
  <2> QED
    BY <1>1, <1>4, <2>1 DEF TypeOK, Threads, Caches, StoreAnswer
<1>5. ASSUME NEW t \in Texts, Expire(t)
      PROVE  Threads /\ Caches
  BY <1>1, <1>5 DEF TypeOK, Threads, Caches, Expire
<1>6. ASSUME NEW r \in Requests, Serve(r) \/ Client(r) \/ LoseConnection(r),
             ~Checkpoint(r), ~StoreAnswer(r)
      PROVE  UNCHANGED stores
  BY <1>6 DEF Serve, Client, LoseConnection, ArriveAsk, ArriveCreate, ArriveDelete,
              Accept, Connect, PoolTimeout, Disconnect, GetChat, AppendQuestion, LookUp, ServeHit,
              FinishRun, FailRun, PersistAnswer, SendDone, ScanEmpty, SweepRow,
              InsertChat, RemoveChat, Commit, FailStatement
<1>7. Crash \/ UNCHANGED vars => UNCHANGED stores
  BY DEF Crash, vars
<1> QED
  BY <1>2, <1>3, <1>4, <1>5, <1>6, <1>7 DEF Next, Serve

\* Rows change as RowMoves says.
LEMMA RowsStep ==
    ASSUME IInv, [Next]_vars, NEW c \in Chats
    PROVE  RowMoves(c)
<1> USE DEF GoTo, Busy, Ended, AtStatement
<1>1. TypeOK /\ Locking
  BY DEF IInv, TypeInv
<1>2. CASE UNCHANGED rows
  BY <1>2 DEF RowMoves, rows
<1>3. ASSUME NEW r \in Requests, ArriveCreate(r)
      PROVE  RowMoves(c)
  BY <1>1, <1>3 DEF TypeOK, ArriveCreate, Accept, RowMoves
<1>4. ASSUME NEW r \in Requests, ArriveAsk(r) \/ ArriveDelete(r)
      PROVE  UNCHANGED rows
  BY <1>4 DEF ArriveAsk, ArriveDelete, Accept, rows
<1>5. ASSUME NEW r \in Requests, Commit(r)
      PROVE  RowMoves(c)
  <2>1. r \in Busy /\ req[r].chat \in Chats
    BY <1>1, <1>5, RequestType DEF Commit
  <2>2. CASE req[r].op = "ask" /\ HoldsRow(r) /\ c = req[r].chat
    <3>1. status[c] = "live"
      BY <2>1, <2>2, <1>1, SentinelsAreDistinct DEF Locking, LockInv, HoldsRow
    <3>2. Commits(r, c)
      BY <1>1, <1>5, <2>1, <2>2, <3>1 DEF TypeOK, Commit, Commits, HoldsRow
    <3> QED
      BY <2>1, <3>2 DEF RowMoves
  <2>3. CASE req[r].op = "ask" /\ ~(HoldsRow(r) /\ c = req[r].chat)
    <3>1. UNCHANGED <<status, owner>> /\ messages'[c] = messages[c] /\ title'[c] = title[c]
      BY <1>1, <1>5, <2>1, <2>3 DEF TypeOK, Commit, TitleAfterAsk
    <3> QED
      BY <3>1 DEF RowMoves
  <2>4. CASE req[r].op # "ask" /\ c \in doomed[r]
    <3>1. lock[c] = r
      BY <1>1, <2>4 DEF Locking, DoomInv
    <3>2. status[c] = "live"
      BY <1>1, <3>1, SentinelsAreDistinct DEF Locking, LockInv
    <3> QED
      BY <1>5, <2>4, <3>2 DEF Commit, RowMoves
  <2>5. CASE req[r].op = "create" /\ c \notin doomed[r] /\ c = req[r].chat
    <3>1. status[c] = "reserved"
      BY <1>1, <2>1, <2>5 DEF Locking, StageInv
    <3> QED
      BY <1>5, <2>5, <3>1 DEF Commit, RowMoves
  <2>6. CASE req[r].op # "ask" /\ c \notin doomed[r] /\ ~(req[r].op = "create" /\ c = req[r].chat)
    BY <1>5, <2>6 DEF Commit, RowMoves
  <2> QED
    BY <2>2, <2>3, <2>4, <2>5, <2>6
<1>6. ASSUME NEW r \in Requests, Serve(r) \/ Client(r) \/ LoseConnection(r),
             ~ArriveCreate(r), ~ArriveAsk(r), ~ArriveDelete(r), ~Commit(r)
      PROVE  UNCHANGED rows
  BY <1>6 DEF Serve, Client, LoseConnection, Connect, PoolTimeout, Disconnect, GetChat, Rollback,
              AppendQuestion, LookUp, ServeHit, Checkpoint, FinishRun, FailRun,
              PersistAnswer, StoreAnswer, SendDone, ScanEmpty, SweepRow, InsertChat,
              RemoveChat, FailStatement
<1>7. Crash \/ UNCHANGED vars \/ (\E t \in Texts : Expire(t)) => UNCHANGED rows
  BY DEF Crash, Expire, vars
<1> QED
  BY <1>2, <1>3, <1>4, <1>5, <1>6, <1>7 DEF Next, Client

\* A newly committed ask commits its turn, or nothing as its chat is gone.
LEMMA EndsStep ==
    ASSUME IInv, [Next]_vars, NEW r \in Requests
    PROVE  Ends(r)
<1> USE DEF GoTo, Busy, Ended, AtStatement
<1>1. TypeOK /\ Locking
  BY DEF IInv, TypeInv
<1> SUFFICES ASSUME pc'[r] = "committed", pc[r] # "committed", req[r].op = "ask"
             PROVE  \/ Commits(r, req[r].chat)
                    \/ status[req[r].chat] = "gone" /\ status' = status
  BY DEF Ends
<1>2. Commit(r)
  <2>1. ASSUME NEW s \in Requests, Commit(s) PROVE s = r
    BY <1>1, <2>1 DEF TypeOK, Commit
  <2>2. CASE UNCHANGED pc
    BY <2>2
  <2>3. ASSUME NEW s \in Requests, Serve(s) \/ Client(s) \/ LoseConnection(s), ~Commit(s)
        PROVE  \/ UNCHANGED pc
               \/ \E label \in {"queued", "begin", "append", "lookup", "hit", "stream",
                                "persist", "store", "done", "sweep", "remove", "commit",
                                "failed"} :
                     pc' = [pc EXCEPT ![s] = label]
    BY <2>3 DEF Serve, Client, LoseConnection, ArriveAsk, ArriveCreate, ArriveDelete,
                Accept, Connect, PoolTimeout, Disconnect, GetChat, Rollback, AppendQuestion, LookUp,
                ServeHit, Checkpoint, FinishRun, FailRun, PersistAnswer, StoreAnswer,
                SendDone, ScanEmpty, SweepRow, InsertChat, RemoveChat, FailStatement
  <2>4. ASSUME NEW s \in Requests, Serve(s) \/ Client(s) \/ LoseConnection(s), ~Commit(s)
        PROVE  FALSE
    BY <1>1, <2>3, <2>4 DEF TypeOK
  <2>5. ~Crash
    BY <1>1 DEF Crash, TypeOK
  <2>6. ASSUME NEW t \in Texts, Expire(t) PROVE UNCHANGED pc
    BY <2>6 DEF Expire
  <2>7. CASE UNCHANGED vars
    BY <2>2, <2>7 DEF vars
  <2> QED
    BY <2>1, <2>2, <2>4, <2>5, <2>6, <2>7 DEF Next
<1>3. r \in Busy /\ req[r].chat \in Chats /\ r \notin lost
  BY <1>1, <1>2, RequestType DEF Commit
<1>4. CASE HoldsRow(r)
  <2>1. status[req[r].chat] = "live"
    BY <1>1, <1>3, <1>4, SentinelsAreDistinct DEF Locking, LockInv, HoldsRow
  <2> QED
    BY <1>1, <1>2, <1>3, <1>4, <2>1 DEF TypeOK, Commit, Commits, HoldsRow
<1>5. CASE ~HoldsRow(r)
  <2>1. status[req[r].chat] = "gone"
    BY <1>1, <1>2, <1>3, <1>5 DEF Locking, HoldInv, HoldOk, AfterAppend, Commit
  <2>2. status' = status
    BY <1>2 DEF Commit
  <2> QED
    BY <2>1, <2>2
<1> QED
  BY <1>4, <1>5

\* The row of an ask under way stays held and unchanged.
LEMMA KeepsStep ==
    ASSUME IInv, [Next]_vars, NEW r \in Requests
    PROVE  Keeps(r)
<1> USE DEF GoTo, Busy, Ended, AtStatement
<1>1. TypeOK /\ Locking /\ KindInv
  BY DEF IInv, TypeInv
<1>0. None \notin Requests
  BY SentinelsAreDistinct
<1>2. ASSUME r \in Busy, req'[r] = req[r], UNCHANGED <<messages, lock, work>>,
             pc'[r] = "commit" => /\ answer'[r] = answer[r]
                                  /\ pc[r] \in {"stream", "store", "done", "commit"}
      PROVE  Keeps(r)
  BY <1>2 DEF Keeps, HoldsRow
<1>3. ASSUME NEW s \in Requests, r # s, r \in Busy, req'[r] = req[r], pc'[r] = pc[r],
             answer'[r] = answer[r], work'[r] = work[r], lock[req[r].chat] = r,
             messages'[req[r].chat] = messages[req[r].chat]
      PROVE  Keeps(r)
  BY <1>3 DEF Keeps, HoldsRow
<1>4. ASSUME NEW s \in Requests, Rollback(s), UNCHANGED <<req, answer>>
      PROVE  Keeps(r)
  <2>1. CASE r = s
    BY <1>1, <1>4, <2>1 DEF TypeOK, Rollback, Keeps
  <2>2. CASE r # s
    <3>1. SUFFICES ASSUME r \in Busy', req'[r].op = "ask", HoldsRow(r)' PROVE Keeps(r)
      BY DEF Keeps
    <3>2. r \in Busy /\ req[r].chat \in Chats
      BY <1>1, <1>4, <2>2, <3>1, RequestType DEF TypeOK, Rollback
    <3> QED
      BY <1>0, <1>1, <1>3, <1>4, <2>2, <3>1, <3>2 DEF TypeOK, Rollback, Release, HoldsRow, rows
  <2> QED
    BY <2>1, <2>2
<1>5. ASSUME NEW s \in Requests, ArriveAsk(s) \/ ArriveCreate(s) \/ ArriveDelete(s)
      PROVE  Keeps(r)
  <2>1. PICK q : /\ pc[s] = "idle" /\ pc' = [pc EXCEPT ![s] = "queued"]
                 /\ req' = [req EXCEPT ![s] = q] /\ q.chat \in Chats
                 /\ UNCHANGED <<messages, lock, work, answer>>
    <3>1. PICK q \in [op : {"ask", "create", "delete"}, user : Users, chat : Chats,
                      text : Texts \cup {None}] : Accept(s, q)
      BY <1>5 DEF ArriveAsk, ArriveCreate, ArriveDelete
    <3> QED
      BY <3>1 DEF Accept, transaction
  <2>2. CASE r # s
    <3>1. pc'[r] = pc[r] /\ req'[r] = req[r] /\ answer'[r] = answer[r]
      BY <1>1, <2>1, <2>2 DEF TypeOK
    <3> QED
      BY <2>1, <3>1 DEF Keeps, HoldsRow, Busy
  <2>3. CASE r = s
    <3>1. req'[r].chat \in Chats /\ r \notin Busy /\ lock' = lock
      BY <1>1, <2>1, <2>3 DEF TypeOK
    <3>2. lock[req'[r].chat] # r
      BY <1>0, <1>1, <3>1 DEF Locking, LockInv
    <3> QED
      BY <3>1, <3>2 DEF Keeps, HoldsRow
  <2> QED
    BY <2>2, <2>3
<1>6. CASE \E s \in Requests : ArriveAsk(s) \/ ArriveCreate(s) \/ ArriveDelete(s)
  BY <1>5, <1>6
<1> SUFFICES ASSUME \A s \in Requests : ~ArriveAsk(s) /\ ~ArriveCreate(s) /\ ~ArriveDelete(s),
                    r \in Busy', req'[r].op = "ask", HoldsRow(r)'
             PROVE  Keeps(r)
  BY <1>6 DEF Keeps
<1>7. req' = req /\ r \in Busy /\ req[r].chat \in Chats
  <2>1. ASSUME NEW s \in Requests, Serve(s) \/ Client(s) \/ LoseConnection(s)
        PROVE  /\ UNCHANGED req
               /\ \/ UNCHANGED pc
                  \/ pc' = [pc EXCEPT ![s] = "failed"]
                  \/ s \in Busy /\ \E label : pc' = [pc EXCEPT ![s] = label]
    BY <2>1 DEF Serve, Client, LoseConnection, Connect, PoolTimeout, Disconnect, GetChat, Rollback,
                AppendQuestion, LookUp, ServeHit, Checkpoint, FinishRun, FailRun,
                PersistAnswer, StoreAnswer, SendDone, ScanEmpty, SweepRow, InsertChat,
                RemoveChat, Commit, FailStatement, local
  <2>2. ASSUME NEW s \in Requests, Serve(s) \/ Client(s) \/ LoseConnection(s)
        PROVE  r \in Busy
    <3>1. CASE r = s
      BY <1>1, <2>1, <2>2, <3>1 DEF TypeOK
    <3>2. CASE r # s
      BY <1>1, <2>1, <2>2, <3>2 DEF TypeOK
    <3> QED
      BY <3>1, <3>2
  <2>3. UNCHANGED req
    BY <2>1 DEF Next, Crash, Expire, vars, local
  <2>4. r \in Busy
    BY <1>1, <2>2 DEF TypeOK, Next, Crash, Expire, vars
  <2> QED
    BY <1>1, <2>3, <2>4, RequestType
<1> USE <1>7
<1>8. ASSUME NEW s \in Requests,
             \/ Connect(s) \/ PoolTimeout(s) \/ LookUp(s) \/ Checkpoint(s) \/ FinishRun(s)
             \/ FailRun(s) \/ StoreAnswer(s) \/ SendDone(s) \/ InsertChat(s)
      PROVE  Keeps(r)
  <2>1. UNCHANGED <<messages, lock, work>>
    BY <1>8 DEF Connect, PoolTimeout, LookUp, Checkpoint, FinishRun, FailRun, StoreAnswer, SendDone,
                InsertChat, rows, transaction
  <2>2. pc[s] = "sweep" => r # s
    BY <1>1 DEF KindInv
  <2>3. pc'[r] = "commit" => /\ answer'[r] = answer[r]
                             /\ pc[r] \in {"stream", "store", "done", "commit"}
    BY <1>1, <1>8, <2>2 DEF TypeOK, Connect, PoolTimeout, LookUp, Checkpoint, FinishRun, FailRun,
                            StoreAnswer, SendDone, InsertChat, local
  <2> QED
    BY <1>2, <2>1, <2>3
<1>9. ASSUME NEW s \in Requests, GetChat(s) \/ Disconnect(s) \/ FailStatement(s)
      PROVE  Keeps(r)
  <2>1. CASE Rollback(s)
    BY <1>4, <1>9, <2>1 DEF GetChat, Disconnect, FailStatement, local
  <2>2. CASE ~Rollback(s)
    <3>1. UNCHANGED <<messages, lock, work, answer>>
      BY <1>9, <2>2 DEF GetChat, Disconnect, FailStatement, rows, transaction, local
    <3>2. pc'[r] = "commit" => pc[r] \in {"stream", "store", "done", "commit"}
      BY <1>1, <1>9, <2>2 DEF TypeOK, GetChat, Disconnect, FailStatement
    <3> QED
      BY <1>2, <3>1, <3>2
  <2> QED
    BY <2>1, <2>2
<1>10. ASSUME NEW s \in Requests, AppendQuestion(s)
      PROVE  Keeps(r)
  <2>1. CASE Rollback(s)
    BY <1>4, <1>10, <2>1 DEF AppendQuestion, local
  <2>2. CASE ~Rollback(s) /\ r = s
    BY <1>1, <1>10, <2>2 DEF TypeOK, AppendQuestion, Keeps, rows
  <2>3. CASE ~Rollback(s) /\ r # s
    BY <1>1, <1>3, <1>10, <2>3 DEF TypeOK, AppendQuestion, HoldsRow, rows, transaction, local
  <2> QED
    BY <2>1, <2>2, <2>3
<1>11. ASSUME NEW s \in Requests, ServeHit(s) \/ PersistAnswer(s)
      PROVE  Keeps(r)
  <2>1. UNCHANGED <<messages, lock, answer>> /\ HoldsRow(r)
    BY <1>11 DEF ServeHit, PersistAnswer, AppendAssistant, rows, local, HoldsRow
  <2>2. CASE r = s
    BY <1>1, <1>11, <2>1, <2>2 DEF TypeOK, ServeHit, PersistAnswer, AppendAssistant, Keeps
  <2>3. CASE r # s
    BY <1>1, <1>3, <1>11, <2>1, <2>3
    DEF TypeOK, ServeHit, PersistAnswer, AppendAssistant, HoldsRow
  <2> QED
    BY <2>2, <2>3
<1>12. ASSUME NEW s \in Requests, ScanEmpty(s) \/ SweepRow(s) \/ RemoveChat(s)
       PROVE  Keeps(r)
  <2>1. UNCHANGED <<messages, work, answer>>
    BY <1>12 DEF ScanEmpty, SweepRow, RemoveChat, rows, local
  <2>2. s \in Busy /\ (req[s].op = "ask" => pc[s] = "begin")
    BY <1>1, <1>12 DEF ScanEmpty, SweepRow, RemoveChat, KindInv
  <2>3. r # s
    BY <1>12, <2>2 DEF ScanEmpty, SweepRow, RemoveChat
  <2>4. lock[req[r].chat] = r
    BY <1>1, <1>12, <2>3 DEF TypeOK, ScanEmpty, SweepRow, RemoveChat, HoldsRow
  <2>5. pc'[r] = pc[r]
    BY <1>1, <1>12, <2>3 DEF TypeOK, ScanEmpty, SweepRow, RemoveChat
  <2> QED
    BY <1>3, <2>1, <2>3, <2>4, <2>5
<1>13. ASSUME NEW s \in Requests, Commit(s)
       PROVE  Keeps(r)
  <2>1. r # s
    BY <1>1, <1>13 DEF TypeOK, Commit
  <2>2. lock[req[r].chat] = r /\ pc'[r] = pc[r] /\ work'[r] = work[r] /\ answer'[r] = answer[r]
    BY <1>0, <1>1, <1>13, <2>1 DEF TypeOK, Commit, Release, HoldsRow, local
  <2>3. messages'[req[r].chat] = messages[req[r].chat]
    <3>1. req[s].chat \in Chats
      BY <1>1, <1>13, RequestType DEF Commit
    <3>2. req[r].chat \notin doomed[s]
      BY <1>1, <2>1, <2>2 DEF Locking, DoomInv
    <3> QED
      BY <1>1, <1>13, <2>1, <2>2, <3>1, <3>2 DEF TypeOK, Commit, HoldsRow
  <2> QED
    BY <1>3, <2>1, <2>2, <2>3
<1>14. ASSUME NEW s \in Requests, LoseConnection(s)
       PROVE  Keeps(r)
  <2>1. r # s /\ lock[req[r].chat] = r /\ work'[r] = work[r]
        /\ UNCHANGED <<messages, pc, answer>>
    BY <1>0, <1>1, <1>14 DEF TypeOK, LoseConnection, Release, HoldsRow, rows, local
  <2> QED
    BY <1>3, <2>1
<1>15. ~Crash
  BY <1>1 DEF Crash, TypeOK
<1>16. CASE UNCHANGED vars \/ \E t \in Texts : Expire(t)
  BY <1>2, <1>16 DEF vars, Expire, rows, transaction, local
<1> QED
  BY <1>5, <1>8, <1>9, <1>10, <1>11, <1>12, <1>13, <1>14, <1>15, <1>16 DEF Next, Serve, Client

----------------------------------------------------------------------------
(* The invariant is kept.                                                  *)

\* A thread keeps whom it knows, and learns of nobody but a run under way.
LEMMA ThreadMembers ==
    ASSUME TypeOK, Threads, NEW c \in Chats, NEW r \in Requests
    PROVE  /\ InThread(c, r) => InThread(c, r)'
           /\ InThread(c, r)' =>
                 \/ InThread(c, r)
                 \/ r \in Busy /\ pc[r] = "stream" /\ pc'[r] = "stream" /\ req[r].chat = c
<1>1. CASE thread' = thread
  BY <1>1 DEF InThread
<1>2. ASSUME NEW s \in Busy, pc[s] = "stream", pc'[s] = "stream",
             thread' = [thread EXCEPT ![req[s].chat] = Append(@, s)]
      PROVE  /\ InThread(c, r) => InThread(c, r)'
             /\ InThread(c, r)' =>
                   \/ InThread(c, r)
                   \/ r \in Busy /\ pc[r] = "stream" /\ pc'[r] = "stream" /\ req[r].chat = c
  <2>1. thread \in [Chats -> Seq(Requests)] /\ s \in Requests
    BY DEF TypeOK, Busy
  <2>2. CASE c # req[s].chat
    BY <1>2, <2>1, <2>2 DEF InThread
  <2>3. CASE c = req[s].chat
    <3>1. thread'[c] = Append(thread[c], s) /\ thread[c] \in Seq(Requests)
      BY <1>2, <2>1, <2>3
    <3>2. \A i \in DOMAIN thread[c] : i \in DOMAIN thread'[c] /\ thread'[c][i] = thread[c][i]
      BY <2>1, <3>1
    <3>3. \A i \in DOMAIN thread'[c] :
             \/ i \in DOMAIN thread[c] /\ thread'[c][i] = thread[c][i]
             \/ thread'[c][i] = s
      BY <2>1, <3>1, AppendElements
    <3> QED
      BY <1>2, <2>3, <3>2, <3>3 DEF InThread
  <2> QED
    BY <2>2, <2>3
<1> QED
  BY <1>1, <1>2 DEF Threads

\* A thread's order stays, and newcomers come last.
LEMMA BeforeStays ==
    ASSUME TypeOK, Threads, NEW c \in Chats, NEW r \in Requests, NEW s \in Requests,
           Before(c, r, s), pc[r] # "stream" \/ InThread(c, r) \/ r = s
    PROVE  Before(c, r, s)'
<1>1. CASE thread' = thread
  BY <1>1 DEF Before
<1>2. ASSUME NEW n \in Busy, pc[n] = "stream", ~InThread(req[n].chat, n),
             thread' = [thread EXCEPT ![req[n].chat] = Append(@, n)]
      PROVE  Before(c, r, s)'
  <2>1. thread \in [Chats -> Seq(Requests)] /\ n \in Requests
    BY DEF TypeOK, Busy
  <2>2. CASE c # req[n].chat
    BY <1>2, <2>1, <2>2 DEF Before
  <2>3. CASE c = req[n].chat
    <3>1. PICK old \in Seq(Requests) : old = thread[c]
      BY <2>1
    <3>2. PICK new : new = thread'[c] /\ new = Append(old, n)
      BY <1>2, <2>1, <2>3, <3>1
    <3>3. /\ Len(old) \in Nat /\ DOMAIN old = 1..Len(old) /\ DOMAIN new = 1..Len(old) + 1
          /\ new[Len(old) + 1] = n
          /\ \A i \in DOMAIN old : new[i] = old[i]
      BY <3>2
    <3>4. \A i \in DOMAIN old : old[i] # n
      BY <1>2, <2>3, <3>1 DEF InThread
    <3>5. ASSUME NEW p \in DOMAIN new, NEW q \in DOMAIN new, new[p] = r, new[q] = s
          PROVE  p <= q
      <4>1. CASE p \in DOMAIN old /\ q \in DOMAIN old
        BY <3>1, <3>3, <3>5, <4>1 DEF Before
      <4>2. CASE q = Len(old) + 1
        BY <3>3, <4>2
      <4>3. CASE p = Len(old) + 1 /\ q \in DOMAIN old
        <5>1. r = n
          BY <3>3, <3>5, <4>3
        <5>2. r = s
          BY <1>2, <2>3, <5>1
        <5> QED
          BY <3>3, <3>4, <3>5, <4>3, <5>1, <5>2
      <4> QED
        BY <3>3, <4>1, <4>2, <4>3
    <3> QED
      BY <3>2, <3>5 DEF Before
  <2> QED
    BY <2>2, <2>3
<1> QED
  BY <1>1, <1>2 DEF Threads

\* Whoever is in a thread went through the gate of its chat.
LEMMA ThreadKeeps == IInv /\ MInv /\ Evolves => ThreadInv'
<1> SUFFICES ASSUME IInv, MInv, Evolves, NEW c \in Chats, NEW r \in Requests, InThread(c, r)'
             PROVE  /\ pc'[r] \notin Early
                    /\ req'[r].op = "ask" /\ req'[r].chat = c
                    /\ status'[c] \in {"live", "gone"}
                    /\ Before(c, r, r)'
  BY DEF ThreadInv
<1>1. TypeOK /\ KindInv /\ StageInv /\ Goes(r) /\ RowMoves(c) /\ Threads
  BY DEF IInv, TypeInv, Locking, Evolves
<1>2. /\ pc[r] \notin Early
      /\ req[r].op = "ask" /\ req[r].chat = c
      /\ status[c] \in {"live", "gone"}
  <2>1. CASE InThread(c, r)
    BY <2>1 DEF MInv, ThreadInv
  <2>2. CASE r \in Busy /\ pc[r] = "stream" /\ req[r].chat = c
    <3>1. req[r].op = "ask"
      BY <1>1, <2>2 DEF KindInv
    <3> QED
      BY <1>1, <2>2, <3>1 DEF StageInv, Early
  <2> QED
    BY <1>1, <2>1, <2>2, ThreadMembers
<1>3. pc[r] # "idle" /\ pc'[r] \notin Early /\ req'[r] = req[r]
  BY <1>1, <1>2 DEF Goes, Early
<1>4. status'[c] \in {"live", "gone"}
  BY <1>1, <1>2 DEF RowMoves, Commits
<1>5. Before(c, r, r)
  BY DEF MInv, ThreadInv, Before, InThread
<1>6. Before(c, r, r)'
  BY <1>1, <1>5, BeforeStays
<1> QED
  BY <1>2, <1>3, <1>4, <1>6

\* Who is inside was so before, or comes in as the owner.
LEMMA InsidersAre ==
    ASSUME IInv, MInv, Evolves, NEW c \in Chats, NEW r \in Requests, r \in Insiders(c)'
    PROVE  /\ req'[r] = req[r]
           /\ \/ r \in Insiders(c) /\ status[c] \in {"live", "gone"}
              \/ status[c] = "live" /\ owner[c] = req[r].user /\ UNCHANGED <<status, owner>>
<1>1. TypeOK /\ KindInv /\ StageInv /\ Goes(r) /\ Enters(r) /\ Threads
  BY DEF IInv, TypeInv, Locking, Evolves
<1>2. CASE InThread(c, r)'
  <2>1. CASE InThread(c, r)
    BY <1>1, <2>1 DEF MInv, ThreadInv, Goes, Early, Insiders
  <2>2. CASE r \in Busy /\ pc[r] = "stream" /\ req[r].chat = c
    <3>1. req[r].op = "ask"
      BY <1>1, <2>2 DEF KindInv
    <3> QED
      BY <1>1, <2>2, <3>1 DEF StageInv, Goes, Insiders, Inside
  <2> QED
    BY <1>1, <1>2, <2>1, <2>2, ThreadMembers
<1>3. CASE Inside(r)' /\ req'[r].chat = c
  <2>1. /\ r \in Busy /\ req'[r] = req[r] /\ req[r].op = "ask" /\ req[r].chat = c
        /\ pc[r] # "queued"
    BY <1>1, <1>3 DEF Inside, Goes, Busy, Ended
  <2>2. CASE pc[r] # "begin"
    BY <1>1, <2>1, <2>2 DEF StageInv, Insiders, Inside
  <2>3. CASE pc[r] = "begin"
    BY <1>1, <1>3, <2>1, <2>3 DEF Enters, Inside, Busy, Owns
  <2> QED
    BY <2>1, <2>2, <2>3
<1> QED
  BY <1>2, <1>3 DEF Insiders

\* A chat's thread stays one user's.
LEMMA PrivacyKeeps == IInv /\ MInv /\ Evolves => PrivacyInv'
<1> SUFFICES ASSUME IInv, MInv, Evolves, NEW c \in Chats,
                    NEW r \in Insiders(c)', NEW s \in Insiders(c)'
             PROVE  /\ req'[r].user = req'[s].user
                    /\ status'[c] = "live" => req'[r].user = owner'[c]
  BY DEF PrivacyInv
<1>1. \A q \in {r, s} :
         /\ req'[q] = req[q]
         /\ \/ q \in Insiders(c) /\ status[c] \in {"live", "gone"}
            \/ status[c] = "live" /\ owner[c] = req[q].user /\ UNCHANGED <<status, owner>>
  BY InsidersAre DEF Insiders
<1>2. PrivacyInv /\ RowMoves(c)
  BY DEF MInv, Evolves
<1>3. req[r].user = req[s].user
  BY <1>1, <1>2 DEF PrivacyInv
<1>4. status'[c] = "live" => status[c] = "live" /\ owner'[c] = owner[c]
  BY <1>1, <1>2 DEF RowMoves, Commits
<1>5. status[c] = "live" => req[r].user = owner[c]
  BY <1>1, <1>2 DEF PrivacyInv
<1> QED
  BY <1>1, <1>3, <1>4, <1>5

\* An answer goes on saying whose run gave it.
LEMMA AnswersStay == IInv /\ MInv /\ Evolves => AnswerInv'
<1> SUFFICES ASSUME IInv, MInv, Evolves, NEW r \in Requests
             PROVE  /\ pc'[r] \in Early \cup {"stream"} => answer'[r] = None
                    /\ pc'[r] \in AnsweredAt => AnsweredByRun(r)'
                    /\ pc'[r] = "hit" => answer'[r] # None
                    /\ AnsweredByRun(r)' => req'[r] \in Request /\ InThread(req[r].chat, r)'
  BY DEF AnswerInv
<1>1. TypeOK /\ Goes(r) /\ Answers(r) /\ Threads /\ AnswerInv
  BY DEF IInv, TypeInv, Evolves, MInv
<1>2. None \notin Requests \cup {Empty}
  BY SentinelsAreDistinct
<1>3. ASSUME pc[r] # "idle", req[r] \in Request, InThread(req[r].chat, r)
      PROVE  req'[r] \in Request /\ InThread(req[r].chat, r)'
  <2>1. req'[r] = req[r] /\ req[r].chat \in Chats
    BY <1>1, <1>3 DEF Goes, Request
  <2>2. PICK c \in Chats : c = req[r].chat
    BY <2>1
  <2>3. InThread(c, r)'
    BY <1>1, <1>3, <2>2, ThreadMembers
  <2> QED
    BY <1>3, <2>1, <2>2, <2>3 DEF InThread
<1>4. CASE answer'[r] = answer[r] /\ (pc'[r] = pc[r] \/ pc'[r] \notin {"hit", "persist"})
  <2>1. pc'[r] \in Early \cup {"stream"} => answer'[r] = None
    BY <1>1, <1>4 DEF Goes, Early, AnswerInv
  <2>2. pc'[r] \in AnsweredAt => AnsweredByRun(r)'
    BY <1>1, <1>4 DEF Goes, AnsweredAt, AnswerInv, AnsweredByRun
  <2>3. pc'[r] = "hit" => answer'[r] # None
    BY <1>1, <1>4 DEF AnswerInv
  <2>4. ASSUME AnsweredByRun(r)'
        PROVE  req'[r] \in Request /\ InThread(req[r].chat, r)'
    <3>1. AnsweredByRun(r)
      BY <1>4, <2>4 DEF AnsweredByRun
    <3>2. pc[r] # "idle"
      BY <1>1, <1>2, <3>1 DEF AnswerInv, AnsweredByRun, Early
    <3> QED
      BY <1>1, <1>3, <3>1, <3>2 DEF AnswerInv
  <2> QED
    BY <2>1, <2>2, <2>3, <2>4
<1>5. CASE /\ pc[r] = "lookup" /\ pc'[r] = "hit" /\ r \in Busy
           /\ cache[req[r].text] # None
           /\ answer'[r] = cache[req[r].text]
  <2>1. answer[r] = None
    BY <1>1, <1>5 DEF AnswerInv, Early
  <2>2. PICK t \in Texts : t = req[r].text
    BY <1>1, <1>5, RequestType DEF IInv, TypeInv, KindInv, Busy, Ended
  <2>3. cache[t] \in Requests /\ cache[t] # None /\ answer[cache[t]] = cache[t]
    BY <1>1, <1>5, <2>2 DEF TypeOK, MInv, CacheInv
  <2>4. answer'[r] \notin {r, Empty, None}
    BY <1>2, <1>5, <2>1, <2>2, <2>3, SentinelsAreDistinct
  <2> QED
    BY <1>5, <2>4 DEF AnsweredByRun, AnsweredAt, Early
<1>6. CASE /\ pc[r] = "stream" /\ pc'[r] = "persist" /\ r \in Busy
           /\ InThread(req[r].chat, r)
           /\ answer'[r] \in {r, Empty}
  <2>1. req[r] \in Request
    BY <1>1, <1>6 DEF TypeOK
  <2> QED
    BY <1>3, <1>6, <2>1 DEF AnsweredByRun, AnsweredAt, Early
<1> QED
  BY <1>1, <1>4, <1>5, <1>6 DEF Answers

\* The cache's answers stay real ones.
LEMMA CacheStays == IInv /\ MInv /\ Evolves => CacheInv'
<1> SUFFICES ASSUME IInv, MInv, Evolves, NEW t \in Texts, cache'[t] # None
             PROVE  answer'[cache'[t]] = cache'[t] /\ req'[cache'[t]].text = t
  BY DEF CacheInv
<1>1. TypeOK /\ Caches /\ AnswerInv /\ CacheInv
  BY DEF IInv, TypeInv, Evolves, MInv
<1>2. None \notin Requests \cup {Empty}
  BY SentinelsAreDistinct
<1>3. PICK s \in Requests : s = cache'[t] /\ answer[s] = s /\ req[s].text = t
  <2>1. CASE cache'[t] = cache[t]
    BY <1>1, <2>1 DEF TypeOK, CacheInv
  <2>2. ASSUME NEW r \in Busy, pc[r] = "store", req[r].text = t, answer[r] # Empty,
               cache'[t] = answer[r]
        PROVE  r = cache'[t] /\ answer[r] = r /\ req[r].text = t
    BY <1>1, <2>2 DEF AnswerInv, AnsweredAt, AnsweredByRun, Busy
  <2> QED
    BY <1>1, <2>1, <2>2 DEF Caches, Busy
<1>4. pc[s] \notin Early \cup {"stream"}
  BY <1>1, <1>2, <1>3 DEF AnswerInv
<1>5. answer'[s] = answer[s] /\ req'[s] = req[s]
  <2>1. Goes(s) /\ Answers(s)
    BY DEF Evolves
  <2> QED
    BY <1>4, <2>1 DEF Goes, Answers, Early
<1> QED
  BY <1>3, <1>5

\* Chats that were asked stay titled.
LEMMA TitlesStay == IInv /\ MInv /\ Evolves => TitleInv'
<1> SUFFICES ASSUME IInv, MInv, Evolves PROVE TitleInv'
  OBVIOUS
<1>1. TypeOK /\ RowInv /\ StageInv /\ TitleInv
  BY DEF IInv, TypeInv, Locking, MInv
<1>2. ASSUME NEW c \in Chats, NEW r \in Busy, Commits(r, c)
      PROVE  title'[c] # NewTitle /\ (title[c] # NewTitle => title'[c] # NewTitle)
  <2>1. r \in Requests /\ req[r].text \in Texts /\ Inside(r)
    BY <1>1, <1>2, RequestType DEF Commits, Busy, Inside
  <2>2. CASE untitled[r]
    BY <1>2, <2>1, <2>2, SentinelsAreDistinct DEF Commits, TitleAfterAsk, HoldsRow
  <2>3. CASE ~untitled[r]
    <3>1. title[c] # NewTitle
      BY <1>1, <1>2, <2>1, <2>3 DEF TitleInv, Commits
    <3> QED
      BY <1>2, <2>3, <3>1 DEF Commits, TitleAfterAsk
  <2> QED
    BY <2>2, <2>3
<1>3. ASSUME NEW c \in Chats, messages'[c] # <<>> PROVE title'[c] # NewTitle
  <2>1. RowMoves(c)
    BY DEF Evolves
  <2> QED
    BY <1>1, <1>2, <1>3, <2>1 DEF RowMoves, RowInv, TitleInv, AskedChatsAreTitled
<1>4. ASSUME NEW r \in Requests, Inside(r)', ~untitled'[r], status'[req'[r].chat] = "live"
      PROVE  title'[req'[r].chat] # NewTitle
  <2>1. Goes(r) /\ Enters(r)
    BY DEF Evolves
  <2>2. /\ r \in Busy /\ req'[r] = req[r] /\ req[r].op = "ask" /\ req[r].chat \in Chats
        /\ pc[r] # "queued"
    BY <1>1, <1>4, <2>1, RequestType DEF Goes, Inside, Busy, Ended
  <2>3. CASE pc[r] = "begin"
    BY <1>4, <2>1, <2>2, <2>3 DEF Enters, Inside, Busy
  <2>4. CASE pc[r] # "begin"
    <3>1. Inside(r) /\ untitled'[r] = untitled[r]
      BY <2>1, <2>2, <2>4 DEF Goes, Inside, Busy
    <3>2. PICK c \in Chats : c = req[r].chat
      BY <2>2
    <3>3. status[c] \in {"live", "gone"}
      BY <1>1, <2>2, <2>4, <3>2 DEF StageInv
    <3>4. RowMoves(c)
      BY DEF Evolves
    <3>5. status[c] = "live" => title[c] # NewTitle
      BY <1>1, <1>4, <3>1, <3>2 DEF TitleInv
    <3>6. status'[c] = "live"
      BY <1>4, <2>2, <3>2
    <3>7. title'[c] # NewTitle
      BY <1>2, <3>3, <3>4, <3>5, <3>6 DEF RowMoves
    <3> QED
      BY <2>2, <3>2, <3>7
  <2> QED
    BY <2>3, <2>4
<1> QED
  BY <1>3, <1>4 DEF TitleInv, AskedChatsAreTitled

\* What a request's turn looks like in a transcript.
Turn(r) == IF answer[r] = None THEN <<UserMessage(r)>>
           ELSE <<UserMessage(r), AssistantMessage(r)>>

\* A transcript with a turn more begins with the transcript it had.
LEMMA TurnAdds ==
    ASSUME NEW s \in Seq(Message), NEW r \in Requests, NEW t,
           \/ t = Append(s, UserMessage(r))
           \/ t = Append(Append(s, UserMessage(r)), AssistantMessage(r))
    PROVE  /\ t \in Seq(Message) /\ Len(s) \in Nat /\ Len(t) \in Nat
           /\ DOMAIN s = 1..Len(s) /\ DOMAIN t = 1..Len(t)
           /\ \A i \in 1..Len(s) : t[i] = s[i]
           /\ t[Len(s) + 1] = UserMessage(r)
           /\ \/ Len(t) = Len(s) + 1
              \/ Len(t) = Len(s) + 2 /\ t[Len(s) + 2] = AssistantMessage(r)
<1> DEFINE q == Append(s, UserMessage(r))
<1>1. UserMessage(r) \in Message /\ AssistantMessage(r) \in Message
  BY MessageType
<1>2. /\ q \in Seq(Message) /\ Len(s) \in Nat /\ Len(q) = Len(s) + 1
      /\ DOMAIN s = 1..Len(s) /\ DOMAIN q = 1..Len(q)
      /\ \A i \in 1..Len(s) : q[i] = s[i]
      /\ q[Len(s) + 1] = UserMessage(r)
  BY <1>1
<1> HIDE DEF q
<1>3. CASE t = q
  BY <1>2, <1>3
<1>4. CASE t = Append(q, AssistantMessage(r))
  <2>1. /\ t \in Seq(Message) /\ Len(t) = Len(q) + 1 /\ DOMAIN t = 1..Len(t)
        /\ \A i \in 1..Len(q) : t[i] = q[i]
        /\ t[Len(q) + 1] = AssistantMessage(r)
    BY <1>1, <1>2, <1>4
  <2> QED
    BY <1>2, <2>1
<1> QED
  BY <1>3, <1>4 DEF q

\* What a commit of a turn writes.
LEMMA CommitAdds ==
    ASSUME IInv, MInv, NEW c \in Chats, NEW r \in Busy, Commits(r, c)
    PROVE  IF answer[r] = None
           THEN messages'[c] = Append(messages[c], UserMessage(r))
           ELSE messages'[c] = Append(Append(messages[c], UserMessage(r)), AssistantMessage(r))
  BY DEF MInv, TurnInv, Commits, HoldsRow

\* A committed turn stays written, when nothing but turns are added.
LEMMA WrittenStays ==
    ASSUME TypeOK, NEW c \in Chats, NEW r \in Requests, Written(r), req[r].chat = c,
           req'[r] = req[r], answer'[r] = answer[r],
           \/ messages'[c] = messages[c]
           \/ \E s \in Requests :
                 \/ messages'[c] = Append(messages[c], UserMessage(s))
                 \/ messages'[c] = Append(Append(messages[c], UserMessage(s)),
                                          AssistantMessage(s))
    PROVE  Written(r)'
<1>1. PICK old \in Seq(Message) : old = messages[c]
  BY DEF TypeOK
<1>2. PICK new : new = messages'[c]
  OBVIOUS
<1>3. PICK turn : turn = Turn(r)
  OBVIOUS
<1>4. DOMAIN turn = 1..Len(turn) /\ Len(turn) \in Nat
  <2>1. CASE answer[r] = None
    BY <1>3, <2>1 DEF Turn
  <2>2. CASE answer[r] # None
    BY <1>3, <2>2 DEF Turn
  <2> QED
    BY <2>1, <2>2
<1>5. PICK k \in 0..Len(old) - Len(turn) : \A i \in DOMAIN turn : old[k + i] = turn[i]
  BY <1>1, <1>3 DEF Written, Turn
<1>6. /\ Len(old) \in Nat /\ Len(new) \in Nat /\ Len(old) <= Len(new)
      /\ \A i \in 1..Len(old) : new[i] = old[i]
  <2>1. CASE new = old
    BY <2>1
  <2>2. ASSUME NEW s \in Requests,
               \/ new = Append(old, UserMessage(s))
               \/ new = Append(Append(old, UserMessage(s)), AssistantMessage(s))
        PROVE  /\ Len(old) \in Nat /\ Len(new) \in Nat /\ Len(old) <= Len(new)
               /\ \A i \in 1..Len(old) : new[i] = old[i]
    <3>1. /\ Len(old) \in Nat /\ Len(new) \in Nat
          /\ \A i \in 1..Len(old) : new[i] = old[i]
          /\ Len(new) = Len(old) + 1 \/ Len(new) = Len(old) + 2
      BY <2>2, TurnAdds, ZenonT(30)
    <3> QED
      BY <3>1
  <2> QED
    BY <1>1, <1>2, <2>1, <2>2
<1>7. k \in 0..Len(new) - Len(turn) /\ \A i \in DOMAIN turn : new[k + i] = turn[i]
  BY <1>4, <1>5, <1>6
<1>8. Turn(r)' = turn /\ req'[r].chat = c
  BY <1>3 DEF Turn, UserMessage, AssistantMessage
<1>9. (\E n \in 0..Len(messages[req[r].chat]) - Len(Turn(r)) :
          \A i \in DOMAIN Turn(r) : messages[req[r].chat][n + i] = Turn(r)[i])'
  BY <1>2, <1>7, <1>8
<1> QED
  BY <1>9 DEF Written, Turn

\* A turn is written when it is committed.
LEMMA CommitWrites ==
    ASSUME IInv, MInv, NEW c \in Chats, NEW r \in Busy, Commits(r, c),
           req'[r] = req[r], answer'[r] = answer[r]
    PROVE  Written(r)'
<1>1. PICK old \in Seq(Message) : old = messages[c]
  BY DEF IInv, TypeInv, TypeOK
<1>2. PICK new : new = messages'[c]
  OBVIOUS
<1>3. r \in Requests /\ req'[r].chat = c
  BY DEF Busy, Commits
<1>4. CASE answer[r] = None
  <2>1. new = Append(old, UserMessage(r))
    BY <1>1, <1>2, <1>4, CommitAdds
  <2>2. Len(old) \in Nat /\ Len(new) = Len(old) + 1 /\ new[Len(old) + 1] = UserMessage(r)
    BY <2>1, MessageType, <1>3
  <2>3. \E k \in 0..Len(new) - Len(<<UserMessage(r)>>) :
           \A i \in DOMAIN <<UserMessage(r)>> : new[k + i] = <<UserMessage(r)>>[i]
    <3>1. Len(<<UserMessage(r)>>) = 1 /\ DOMAIN <<UserMessage(r)>> = {1}
          /\ <<UserMessage(r)>>[1] = UserMessage(r)
      OBVIOUS
    <3> QED
      BY <2>2, <3>1
  <2> QED
    BY <1>2, <1>3, <1>4, <2>3 DEF Written
<1>5. CASE answer[r] # None
  <2>1. new = Append(Append(old, UserMessage(r)), AssistantMessage(r))
    BY <1>1, <1>2, <1>5, CommitAdds
  <2>2. /\ Len(old) \in Nat /\ Len(new) = Len(old) + 2
        /\ new[Len(old) + 1] = UserMessage(r) /\ new[Len(old) + 2] = AssistantMessage(r)
    <3>1. PICK q : q = Append(old, UserMessage(r))
      OBVIOUS
    <3>2. /\ q \in Seq(Message) /\ Len(old) \in Nat /\ Len(q) = Len(old) + 1
          /\ q[Len(old) + 1] = UserMessage(r)
      BY <1>3, <3>1, MessageType
    <3>3. new = Append(q, AssistantMessage(r))
      BY <2>1, <3>1
    <3> QED
      BY <1>3, <3>2, <3>3, MessageType
  <2>3. \E k \in 0..Len(new) - Len(<<UserMessage(r), AssistantMessage(r)>>) :
           \A i \in DOMAIN <<UserMessage(r), AssistantMessage(r)>> :
              new[k + i] = <<UserMessage(r), AssistantMessage(r)>>[i]
    <3>1. PICK turn : turn = <<UserMessage(r), AssistantMessage(r)>>
      OBVIOUS
    <3>2. /\ Len(turn) = 2 /\ DOMAIN turn = {1, 2}
          /\ turn[1] = UserMessage(r) /\ turn[2] = AssistantMessage(r)
      BY <3>1
    <3>3. Len(old) \in 0..Len(new) - Len(turn) /\ \A i \in DOMAIN turn : new[Len(old) + i] = turn[i]
      BY <2>2, <3>2
    <3> QED
      BY <3>1, <3>3
  <2> QED
    BY <1>2, <1>3, <1>5, <2>3 DEF Written
<1> QED
  BY <1>4, <1>5

\* Committed turns stay, and what is under way is a whole turn.
LEMMA TurnsStay == IInv /\ MInv /\ Evolves => TurnInv'
<1> SUFFICES ASSUME IInv, MInv, Evolves PROVE TurnInv'
  OBVIOUS
<1>1. TypeOK /\ Locking /\ AnswerInv /\ TurnInv
  BY DEF IInv, TypeInv, MInv
<1>2. None \notin Requests \cup {Empty}
  BY SentinelsAreDistinct
<1>3. ASSUME NEW r \in Requests, Asked(r)', pc'[r] = "committed"
      PROVE  /\ status'[req'[r].chat] \in {"live", "gone"}
             /\ status'[req'[r].chat] = "live" => Written(r)'
  <2>1. Goes(r) /\ Answers(r) /\ Ends(r)
    BY DEF Evolves
  <2>2. pc[r] \in {"commit", "committed"} /\ req'[r] = req[r] /\ answer'[r] = answer[r]
    BY <1>3, <2>1 DEF Goes, Answers
  <2>3. Asked(r) /\ req[r].op = "ask" /\ req[r].chat \in Chats
    BY <1>1, <1>3, <2>2 DEF Asked, TypeOK, Request
  <2>4. PICK c \in Chats : c = req[r].chat
    BY <2>3
  <2>5. RowMoves(c)
    BY DEF Evolves
  <2>6. CASE pc[r] = "committed"
    <3>1. status[c] \in {"live", "gone"} /\ (status[c] = "live" => Written(r))
      BY <1>1, <2>3, <2>4, <2>6 DEF TurnInv, CommittedTurnsStay
    <3>2. status'[c] \in {"live", "gone"}
      BY <2>5, <3>1 DEF RowMoves, Commits
    <3>3. ASSUME status'[c] = "live"
          PROVE  Written(r)'
      <4>1. status[c] = "live"
        BY <2>5, <3>1, <3>3 DEF RowMoves, Commits
      <4>2. CASE messages'[c] = messages[c]
        BY <1>1, <2>2, <2>4, <3>1, <4>1, <4>2, WrittenStays
      <4>3. ASSUME NEW s \in Busy, Commits(s, c)
            PROVE  Written(r)'
        <5>1. s \in Requests
          BY DEF Busy
        <5>2. \/ messages'[c] = Append(messages[c], UserMessage(s))
              \/ messages'[c] = Append(Append(messages[c], UserMessage(s)),
                                       AssistantMessage(s))
          BY <4>3, CommitAdds
        <5> QED
          BY <1>1, <2>2, <2>4, <3>1, <4>1, <5>1, <5>2, WrittenStays
      <4> QED
        BY <2>5, <3>3, <4>1, <4>2, <4>3 DEF RowMoves
    <3> QED
      BY <2>2, <2>4, <3>2, <3>3
  <2>7. CASE pc[r] = "commit"
    <3>1. Commits(r, c) \/ (status[c] = "gone" /\ status' = status)
      BY <1>3, <2>1, <2>3, <2>4, <2>7 DEF Ends
    <3>2. r \in Busy
      BY <2>7 DEF Busy, Ended
    <3>3. Commits(r, c) => Written(r)' /\ status'[c] = "live"
      BY <2>2, <3>2, CommitWrites DEF Commits
    <3> QED
      BY <2>2, <2>4, <3>1, <3>3
  <2> QED
    BY <2>2, <2>6, <2>7
<1>4. ASSUME NEW r \in Busy', req'[r].op = "ask", pc'[r] = "commit", HoldsRow(r)'
      PROVE  IF answer'[r] = None
             THEN work'[r] = Append(messages'[req'[r].chat], UserMessage(r))
             ELSE work'[r] = Append(Append(messages'[req'[r].chat], UserMessage(r)),
                                    AssistantMessage(r))
  <2>1. r \in Requests /\ Keeps(r) /\ Goes(r)
    BY DEF Evolves, Busy
  <2>2. /\ r \in Busy /\ req'[r] = req[r] /\ HoldsRow(r)
        /\ messages'[req[r].chat] = messages[req[r].chat]
        /\ answer'[r] = answer[r]
        /\ \/ /\ pc[r] \in {"stream", "store", "done", "commit"}
              /\ work'[r] = work[r]
           \/ /\ pc[r] = "hit"
              /\ work'[r] = Append(work[r], AssistantMessage(r))
    BY <1>4, <2>1 DEF Keeps, Goes, Busy
  <2>3. HoldOk(r)
    BY <1>1, <1>4, <2>2 DEF Locking, HoldInv
  <2>4. CASE pc[r] = "stream"
    BY <1>1, <2>1, <2>2, <2>3, <2>4 DEF HoldOk, AnswerInv
  <2>5. CASE pc[r] \in {"store", "done"}
    <3>1. answer[r] # None
      BY <1>1, <1>2, <2>1, <2>5 DEF AnswerInv, AnsweredAt, AnsweredByRun
    <3> QED
      BY <2>2, <2>3, <2>5, <3>1 DEF HoldOk
  <2>6. CASE pc[r] = "commit"
    BY <1>1, <1>4, <2>2, <2>6 DEF TurnInv
  <2>7. CASE pc[r] = "hit"
    BY <1>1, <2>1, <2>2, <2>3, <2>7 DEF HoldOk, AnswerInv
  <2> QED
    BY <2>2, <2>4, <2>5, <2>6, <2>7
<1> QED
  <2>1. (\A r \in Requests : Asked(r) /\ pc[r] = "committed" => status[req[r].chat] \in {"live", "gone"})'
    BY <1>3
  <2>2. CommittedTurnsStay'
    BY <1>3 DEF CommittedTurnsStay
  <2> QED
    BY <1>4, <2>1, <2>2 DEF TurnInv

\* A run's committed answer was committed before, or is so now, at the end.
LEMMA AnswersAre ==
    ASSUME IInv, MInv, Evolves, NEW c \in Chats, NEW i \in DOMAIN messages'[c],
           NEW r \in Requests, r = messages'[c][i].by,
           messages'[c][i].role = "assistant", AnsweredByRun(r)'
    PROVE  /\ AnsweredByRun(r) /\ pc[r] \in {"commit", "committed"}
           /\ i \in Nat
           /\ \/ i \in DOMAIN messages[c] /\ messages[c][i] = messages'[c][i]
              \/ /\ r \in Busy /\ Commits(r, c)
                 /\ DOMAIN messages'[c] = 1..i
<1>1. TypeOK /\ RowInv /\ RowMoves(c)
  BY DEF IInv, TypeInv, Locking, Evolves
<1>2. PICK old \in Seq(Message) : old = messages[c]
  BY <1>1 DEF TypeOK
<1>3. PICK new : new = messages'[c]
  OBVIOUS
<1>4. CASE i \in DOMAIN old /\ old[i] = new[i]
  <2>1. old[i] \in Message /\ i \in Nat
    BY <1>4
  <2>2. pc[r] = "committed"
    BY <1>1, <1>2, <1>3, <1>4 DEF RowInv
  <2>3. answer'[r] = answer[r]
    BY <2>2 DEF Evolves, Answers
  <2> QED
    BY <1>2, <1>3, <1>4, <2>1, <2>2, <2>3 DEF AnsweredByRun
<1>5. CASE new = old
  BY <1>2, <1>3, <1>4, <1>5
<1>6. CASE new = <<>>
  BY <1>3, <1>6
<1>7. ASSUME NEW s \in Busy, Commits(s, c), ~(i \in DOMAIN old /\ old[i] = new[i])
      PROVE  /\ r = s /\ pc[r] = "commit" /\ AnsweredByRun(r)
             /\ i \in Nat /\ DOMAIN new = 1..i
  <2>1. s \in Requests /\ pc[s] = "commit"
    BY <1>7 DEF Busy, Commits
  <2>2. \/ new = Append(old, UserMessage(s))
        \/ new = Append(Append(old, UserMessage(s)), AssistantMessage(s))
    BY <1>2, <1>3, <1>7, CommitAdds
  <2>3. /\ Len(old) \in Nat /\ Len(new) \in Nat
        /\ DOMAIN old = 1..Len(old) /\ DOMAIN new = 1..Len(new)
        /\ \A j \in 1..Len(old) : new[j] = old[j]
        /\ new[Len(old) + 1] = UserMessage(s)
        /\ \/ Len(new) = Len(old) + 1
           \/ Len(new) = Len(old) + 2 /\ new[Len(old) + 2] = AssistantMessage(s)
    <3>1. ASSUME NEW t, \/ t = Append(old, UserMessage(s))
                        \/ t = Append(Append(old, UserMessage(s)), AssistantMessage(s))
          PROVE  /\ Len(old) \in Nat /\ Len(t) \in Nat
                 /\ DOMAIN old = 1..Len(old) /\ DOMAIN t = 1..Len(t)
                 /\ \A j \in 1..Len(old) : t[j] = old[j]
                 /\ t[Len(old) + 1] = UserMessage(s)
                 /\ \/ Len(t) = Len(old) + 1
                    \/ Len(t) = Len(old) + 2 /\ t[Len(old) + 2] = AssistantMessage(s)
      BY <2>1, <3>1, TurnAdds
    <3> QED
      BY <2>2, <3>1
  <2>4. UserMessage(s).role = "user" /\ AssistantMessage(s).by = s
    BY DEF UserMessage, AssistantMessage
  <2>5. i \in Nat /\ i = Len(new) /\ new[i] = AssistantMessage(s)
    BY <1>3, <1>7, <2>3, <2>4
  <2>6. answer'[s] = answer[s]
    BY <2>1 DEF Evolves, Answers
  <2> QED
    BY <1>3, <2>1, <2>3, <2>4, <2>5, <2>6 DEF AnsweredByRun
<1> QED
  BY <1>1, <1>2, <1>3, <1>4, <1>5, <1>6, <1>7 DEF RowMoves, RowInv

\* The thread goes on covering the transcript, in its order.
LEMMA OrderStays == IInv /\ IInv' /\ MInv /\ Evolves => OrderInv'
<1> SUFFICES ASSUME IInv, IInv', MInv, Evolves, NEW c \in Chats,
                    NEW i \in DOMAIN messages'[c], NEW r, r = messages'[c][i].by,
                    messages'[c][i].role = "assistant", AnsweredByRun(r)'
             PROVE  /\ InThread(c, r)'
                    /\ \A j \in DOMAIN messages'[c] : \A s :
                          /\ s = messages'[c][j].by
                          /\ i <= j /\ messages'[c][j].role = "assistant" /\ AnsweredByRun(s)'
                          => Before(c, r, s)'
                    /\ \A s \in Busy' : req'[s].op = "ask" /\ req'[s].chat = c /\ lock'[c] = s
                             => Before(c, r, s)'
  BY DEF OrderInv
<1>0. \A j \in DOMAIN messages'[c] : messages'[c][j].by \in Requests
  <2>1. TypeOK' => Shape'
    BY ShapeHolds, PTL
  <2> QED
    BY <2>1 DEF IInv, TypeInv, Shape
<1>1. TypeOK /\ Threads /\ ThreadInv /\ AnswerInv /\ OrderInv
  BY DEF IInv, TypeInv, Evolves, MInv
<1>2. r \in Requests
  BY <1>0
<1>3. /\ AnsweredByRun(r) /\ pc[r] # "stream" /\ i \in Nat
      /\ \/ i \in DOMAIN messages[c] /\ messages[c][i] = messages'[c][i]
         \/ r \in Busy /\ Commits(r, c) /\ DOMAIN messages'[c] = 1..i
  BY <1>2, AnswersAre
<1>4. InThread(c, r)
  BY <1>1, <1>2, <1>3 DEF OrderInv, AnswerInv, Commits
<1>5. InThread(c, r)'
  BY <1>1, <1>2, <1>4, ThreadMembers
<1>6. ASSUME NEW j \in DOMAIN messages'[c], NEW s, s = messages'[c][j].by,
             i <= j, messages'[c][j].role = "assistant", AnsweredByRun(s)'
      PROVE  Before(c, r, s)'
  <2>1. s \in Requests
    BY <1>0, <1>6
  <2>2. /\ AnsweredByRun(s) /\ j \in Nat
        /\ \/ j \in DOMAIN messages[c] /\ messages[c][j] = messages'[c][j]
           \/ s \in Busy /\ Commits(s, c) /\ DOMAIN messages'[c] = 1..j
    BY <1>6, <2>1, AnswersAre
  <2>3. Before(c, r, s)
    <3>1. CASE ~(i \in DOMAIN messages[c] /\ messages[c][i] = messages'[c][i])
      <4>1. j = i
        BY <1>3, <1>6, <2>2, <3>1
      <4>2. r = s
        BY <1>6, <4>1
      <4> QED
        BY <1>1, <1>2, <1>4, <4>2 DEF ThreadInv
    <3>2. CASE i \in DOMAIN messages[c] /\ messages[c][i] = messages'[c][i]
               /\ j \in DOMAIN messages[c] /\ messages[c][j] = messages'[c][j]
      BY <1>1, <1>2, <1>3, <1>6, <2>1, <2>2, <3>2 DEF OrderInv
    <3>3. CASE i \in DOMAIN messages[c] /\ messages[c][i] = messages'[c][i]
               /\ s \in Busy /\ Commits(s, c)
      BY <1>1, <1>2, <1>3, <3>3 DEF OrderInv, Commits
    <3> QED
      BY <1>3, <2>2, <3>1, <3>2, <3>3
  <2> QED
    BY <1>1, <1>2, <1>3, <2>1, <2>3, BeforeStays
<1>7. ASSUME NEW s \in Busy', req'[s].op = "ask", req'[s].chat = c, lock'[c] = s
      PROVE  Before(c, r, s)'
  <2>1. s \in Requests /\ Keeps(s) /\ Goes(s)
    BY DEF Evolves, Busy
  <2>2. /\ s \in Busy /\ messages'[c] = messages[c] /\ req'[s] = req[s] /\ req[s].chat = c
        /\ (pc[s] = "append" /\ pc'[s] = "lookup") \/ HoldsRow(s)
    BY <1>7, <2>1 DEF Keeps, Goes, HoldsRow, Busy
  <2>3. CASE HoldsRow(s)
    <3>1. Before(c, r, s)
      BY <1>1, <1>2, <1>3, <1>7, <2>2, <2>3 DEF OrderInv, HoldsRow
    <3> QED
      BY <1>1, <1>2, <1>3, <2>1, <3>1, BeforeStays
  <2>4. CASE pc[s] = "append"
    <3>1. ~InThread(c, s)
      BY <1>1, <2>1, <2>4 DEF ThreadInv, Early
    <3>2. ~InThread(c, s)'
      BY <1>1, <2>1, <2>4, <3>1, ThreadMembers
    <3> QED
      BY <3>2 DEF Before, InThread
  <2> QED
    BY <2>2, <2>3, <2>4
<1> QED
  BY <1>2, <1>5, <1>6, <1>7

\* A step does what Evolves says.
LEMMA EvolvesStep == IInv /\ [Next]_vars => Evolves
  BY CoroutineStep, StoresStep, RowsStep, EndsStep, KeepsStep DEF IInv, Evolves

\* Both invariants hold of every reachable state.
THEOREM Remembered == Spec => [](IInv /\ MInv)
<1>1. Init => MInv
  <2> SUFFICES ASSUME Init PROVE MInv
    OBVIOUS
  <2>1. \A c \in Chats : DOMAIN thread[c] = {} /\ messages[c] = <<>> /\ DOMAIN messages[c] = {}
    BY DEF Init
  <2>2. \A r \in Requests : pc[r] = "idle" /\ answer[r] = None /\ r \notin Busy
    BY DEF Init, Busy
  <2>3. None \notin Requests \cup {Empty}
    BY SentinelsAreDistinct
  <2>4. ThreadInv /\ PrivacyInv /\ CacheInv /\ TitleInv /\ OrderInv
    BY <2>1, <2>2 DEF Init, ThreadInv, PrivacyInv, Insiders, Inside, InThread, CacheInv,
                      TitleInv, AskedChatsAreTitled, OrderInv
  <2>5. AnswerInv /\ TurnInv
    BY <2>2, <2>3 DEF AnswerInv, AnsweredAt, AnsweredByRun, TurnInv, CommittedTurnsStay,
                      Asked, Busy
  <2> QED
    BY <2>4, <2>5 DEF MInv
<1>2. IInv /\ IInv' /\ MInv /\ [Next]_vars => MInv'
  BY EvolvesStep, ThreadKeeps, PrivacyKeeps, AnswersStay, CacheStays, TitlesStay, TurnsStay,
     OrderStays DEF MInv
<1> QED
  BY <1>1, <1>2, Inductive, PTL DEF Spec

\* The leak get_chat's docstring warns of does not happen: one thread, one user.
THEOREM PrivateThreads == Spec => []ThreadsArePrivate
<1>1. IInv /\ MInv => ThreadsArePrivate
  <2> SUFFICES ASSUME IInv, MInv, NEW c \in Chats,
                      NEW i \in DOMAIN thread[c], NEW j \in DOMAIN thread[c]
               PROVE  req[thread[c][i]].user = req[thread[c][j]].user
    BY DEF ThreadsArePrivate
  <2>1. thread[c] \in Seq(Requests)
    BY DEF IInv, TypeInv, TypeOK
  <2>2. thread[c][i] \in Insiders(c) /\ thread[c][j] \in Insiders(c)
    BY <2>1 DEF Insiders, InThread
  <2> QED
    BY <2>2 DEF MInv, PrivacyInv
<1> QED
  BY <1>1, Remembered, PTL

\* Redis holds only whole answers of runs to the question they are filed under.
THEOREM RealAnswers == Spec => []CacheHoldsRealAnswers
<1>1. IInv /\ MInv => CacheHoldsRealAnswers
  BY DEF IInv, TypeInv, TypeOK, MInv, CacheInv, AnswerInv, AnsweredByRun, CacheHoldsRealAnswers
<1> QED
  BY <1>1, Remembered, PTL

\* A chat with a message has a title of its own.
THEOREM TitledChats == Spec => []AskedChatsAreTitled
<1>1. IInv /\ MInv => AskedChatsAreTitled
  BY DEF MInv, TitleInv
<1> QED
  BY <1>1, Remembered, PTL

\* No committed turn is lost, whoever else appends, sweeps, fails or crashes.
THEOREM TurnsAreKept == Spec => []CommittedTurnsStay
<1>1. IInv /\ MInv => CommittedTurnsStay
  BY DEF MInv, TurnInv
<1> QED
  BY <1>1, Remembered, PTL

\* The agent remembers every answer the transcript shows, in its order.
THEOREM MemoryCovers == Spec => []MemoryCoversTranscript
<1>1. IInv /\ MInv => MemoryCoversTranscript
  <2> SUFFICES ASSUME IInv, MInv, NEW c \in Chats,
                      NEW i \in DOMAIN messages[c], NEW j \in DOMAIN messages[c], i <= j,
                      messages[c][i].role = "assistant", AnsweredByRun(messages[c][i].by),
                      messages[c][j].role = "assistant", AnsweredByRun(messages[c][j].by)
               PROVE  \E p, q \in DOMAIN thread[c] :
                         p <= q /\ thread[c][p] = messages[c][i].by
                                /\ thread[c][q] = messages[c][j].by
    BY DEF MemoryCoversTranscript
  <2>1. /\ InThread(c, messages[c][i].by) /\ InThread(c, messages[c][j].by)
        /\ Before(c, messages[c][i].by, messages[c][j].by)
    BY DEF MInv, OrderInv
  <2> QED
    BY <2>1 DEF InThread, Before
<1> QED
  BY <1>1, Remembered, PTL

============================================================================
