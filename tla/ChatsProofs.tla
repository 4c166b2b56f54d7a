---------------------------- MODULE ChatsProofs ----------------------------
(***************************************************************************)
(* The inductive invariant of module Chats: types first, then the row      *)
(* locks.  IInv is inductive, hence two runs of the agent never advance    *)
(* one live chat's thread at once, and the endpoints implement module      *)
(* Transcripts.                                                            *)
(***************************************************************************)
EXTENDS ChatsProperties, FiniteSetTheorems, WellFoundedInduction, TLAPS

\* An ask whose question UPDATE has been executed.
AfterAppend == {"lookup", "hit", "stream", "persist", "store", "done", "commit"}

\* The rows by themselves.
RowInv ==
    /\ \A c \in Chats : status[c] = "live" <=> owner[c] # None
    /\ \A c \in Chats : status[c] # "live" => messages[c] = <<>>
    /\ \A c \in Chats : \A i \in DOMAIN messages[c] :
          pc[messages[c][i].by] = "committed"

\* Where a request of each kind can be.
KindInv ==
    \A r \in Busy :
        /\ pc[r] \in {"append", "lookup", "hit", "stream", "persist", "store", "done"}
              => req[r].op = "ask"
        /\ pc[r] = "sweep" => req[r].op = "create"
        /\ pc[r] = "remove" => req[r].op = "delete"

TypeInv == TypeOK /\ KindInv

\* What the stage of a request says of its chat's row.
StageInv ==
    \A r \in Busy :
        /\ req[r].op = "create" => status[req[r].chat] = "reserved"
        /\ req[r].op # "create" /\ pc[r] \notin {"queued", "begin"}
              => status[req[r].chat] \in {"live", "gone"}
        /\ \A s \in Busy : /\ req[r].op = "create" /\ req[s].op = "create"
                           /\ req[r].chat = req[s].chat
                           => r = s

\* A held row is live, and its holder has a use for it.
LockInv ==
    \A c \in Chats : lock[c] # None =>
        /\ status[c] = "live"
        /\ lock[c] \in Busy \ lost
        /\ \/ c \in doomed[lock[c]]
           \/ /\ req[lock[c]].op = "ask"
              /\ req[lock[c]].chat = c
              /\ pc[lock[c]] \in AfterAppend

\* An ask past its first UPDATE keeps its row, unless the row was gone already,
\* and its uncommitted version is the committed one grown by its own turn.
HoldOk(r) ==
    /\ pc[r] \in AfterAppend /\ r \notin lost
          => status[req[r].chat] = "gone" \/ HoldsRow(r)
    /\ HoldsRow(r) =>
          \/ /\ work[r] = Append(messages[req[r].chat], UserMessage(r))
             /\ pc[r] \in {"lookup", "hit", "stream", "persist", "commit"}
          \/ /\ work[r] = Append(Append(messages[req[r].chat], UserMessage(r)),
                                 AssistantMessage(r))
             /\ pc[r] \in {"store", "done", "commit"}

HoldInv == \A r \in Busy : req[r].op = "ask" => HoldOk(r)

\* A row deleted but not committed is held by its deleter, who may delete it.
DoomInv ==
    \A r \in Requests : \A c \in doomed[r] :
        /\ r \in Busy
        /\ lock[c] = r
        /\ \/ /\ req[r].op = "create"
              /\ pc[r] \in {"sweep", "commit"}
              /\ owner[c] = req[r].user
              /\ messages[c] = <<>>
           \/ /\ req[r].op = "delete"
              /\ pc[r] = "commit"
              /\ c = req[r].chat

Locking == RowInv /\ StageInv /\ LockInv /\ HoldInv /\ DoomInv

IInv == TypeInv /\ Locking

----------------------------------------------------------------------------

\* The description of a request being served.
LEMMA RequestType ==
    ASSUME TypeOK, NEW r \in Requests, pc[r] \notin {"idle"} \cup Ended
    PROVE  /\ req[r] \in Request
           /\ req[r].chat \in Chats
           /\ req[r].user \in Users
           /\ req[r].op \in {"ask", "create", "delete"}
           /\ req[r].op = "ask" => req[r].text \in Texts
           /\ req[r].op = "create" => req[r].text \in Texts \cup {None}
  BY DEF TypeOK, Busy, Request

\* Messages are messages.
LEMMA MessageType ==
    \A r \in Requests : UserMessage(r) \in Message /\ AssistantMessage(r) \in Message
  BY DEF UserMessage, AssistantMessage, Message

\* The end of some requests' transactions leaves the locks and the
\* uncommitted effects well typed.
LEMMA ReleaseType ==
    ASSUME TypeOK, NEW R, Release(R)
    PROVE  /\ lock' \in [Chats -> Requests \cup {None}]
           /\ work' \in [Requests -> Seq(Message)]
           /\ doomed' \in [Requests -> SUBSET Chats]
           /\ scan' \in [Requests -> SUBSET Chats]
  BY DEF TypeOK, Release

\* A request that deletes a further row leaves `doomed` well typed.
LEMMA DoomMore ==
    ASSUME doomed \in [Requests -> SUBSET Chats], NEW r \in Requests, NEW c \in Chats
    PROVE  [doomed EXCEPT ![r] = @ \cup {c}] \in [Requests -> SUBSET Chats]
<1> DEFINE D == doomed[r] \cup {c}
<1>1. D \in SUBSET Chats
  OBVIOUS
<1> HIDE DEF D
<1>2. [doomed EXCEPT ![r] = D] \in [Requests -> SUBSET Chats]
  BY <1>1
<1> QED
  BY <1>2 DEF D

\* Every variable keeps its type, and requests stay where their kind may be.
LEMMA TypeStep == TypeInv /\ [Next]_vars => TypeInv'
<1> SUFFICES ASSUME TypeOK, KindInv, [Next]_vars PROVE TypeOK' /\ KindInv'
  BY DEF TypeInv
<1> USE DEF GoTo, Busy, Ended, AtStatement
<1>1. ASSUME NEW r \in Requests, ArriveAsk(r) PROVE TypeOK' /\ KindInv'
  BY <1>1 DEF TypeOK, KindInv, ArriveAsk, Accept, Request, transaction, stores
<1>2. ASSUME NEW r \in Requests, ArriveCreate(r) PROVE TypeOK' /\ KindInv'
  BY <1>2 DEF TypeOK, KindInv, ArriveCreate, Accept, Request, transaction, stores
<1>3. ASSUME NEW r \in Requests, ArriveDelete(r) PROVE TypeOK' /\ KindInv'
  BY <1>3 DEF TypeOK, KindInv, ArriveDelete, Accept, Request, transaction, stores
<1>4. ASSUME NEW r \in Requests, Connect(r) \/ PoolTimeout(r) PROVE TypeOK' /\ KindInv'
  <2>1. CASE Connect(r)
    BY <2>1 DEF TypeOK, KindInv, Connect, rows, transaction, local, stores
  <2>2. CASE PoolTimeout(r)
    BY <2>2 DEF TypeOK, KindInv, PoolTimeout, rows, transaction, local, stores
  <2> QED
    BY <1>4, <2>1, <2>2
<1>5. ASSUME NEW r \in Requests, GetChat(r) PROVE TypeOK' /\ KindInv'
  <2>1. CASE Rollback(r)
    <3>1. /\ lock' \in [Chats -> Requests \cup {None}]
          /\ work' \in [Requests -> Seq(Message)]
          /\ doomed' \in [Requests -> SUBSET Chats]
          /\ scan' \in [Requests -> SUBSET Chats]
      BY <2>1, ReleaseType DEF Rollback
    <3>2. TypeOK'
      BY <1>5, <2>1, <3>1 DEF TypeOK, GetChat, Rollback, rows, transaction, local, stores
    <3>3. KindInv'
      BY <1>5, <2>1 DEF TypeOK, KindInv, GetChat, Rollback, rows, transaction, local, stores
    <3> QED
      BY <3>2, <3>3
  <2>2. CASE ~Rollback(r)
    <3>1. req[r] \in Request /\ req[r].chat \in Chats
      BY <1>5, RequestType DEF GetChat
    <3>2. TypeOK'
      BY <1>5, <2>2, <3>1 DEF TypeOK, GetChat, rows, transaction, local, stores
    <3>3. /\ req' = req
          /\ \/ req[r].op = "ask" /\ pc' = [pc EXCEPT ![r] = "append"]
             \/ req[r].op = "delete" /\ pc' = [pc EXCEPT ![r] = "remove"]
      BY <1>5, <2>2, RequestType DEF GetChat
    <3>4. KindInv'
      BY <3>3, ZenonT(60) DEF TypeOK, KindInv
    <3> QED
      BY <3>2, <3>4
  <2> QED
    BY <2>1, <2>2
<1>6. ASSUME NEW r \in Requests, AppendQuestion(r) PROVE TypeOK' /\ KindInv'
  <2>1. CASE Rollback(r)
    <3>1. /\ lock' \in [Chats -> Requests \cup {None}]
          /\ work' \in [Requests -> Seq(Message)]
          /\ doomed' \in [Requests -> SUBSET Chats]
          /\ scan' \in [Requests -> SUBSET Chats]
      BY <2>1, ReleaseType DEF Rollback
    <3>2. TypeOK'
      BY <1>6, <2>1, <3>1 DEF TypeOK, AppendQuestion, Rollback, rows, transaction, local, stores
    <3>3. KindInv'
      BY <1>6, <2>1 DEF TypeOK, KindInv, AppendQuestion, Rollback, rows, transaction, local, stores
    <3> QED
      BY <3>2, <3>3
  <2>2. CASE ~Rollback(r)
    <3>1. req[r] \in Request /\ req[r].chat \in Chats
      BY <1>6, RequestType DEF AppendQuestion
    <3>2. /\ pc[r] = "append" /\ req' = req
          /\ pc' = [pc EXCEPT ![r] = "lookup"]
      BY <1>6, <2>2 DEF AppendQuestion, local
    <3>3. /\ lock' \in [Chats -> Requests \cup {None}]
          /\ work' \in [Requests -> Seq(Message)]
      <4>1. CASE UNCHANGED <<lock, work>>
        BY <4>1 DEF TypeOK
      <4>2. CASE /\ lock' = [lock EXCEPT ![req[r].chat] = r]
                 /\ work' = [work EXCEPT ![r] =
                               Append(messages[req[r].chat], UserMessage(r))]
        <5>1. Append(messages[req[r].chat], UserMessage(r)) \in Seq(Message)
          BY <3>1, MessageType DEF TypeOK
        <5> QED
          BY <4>2, <5>1, <3>1 DEF TypeOK
      <4> QED
        BY <1>6, <2>2, <4>1, <4>2 DEF AppendQuestion, transaction
    <3>4. TypeOK'
      BY <1>6, <2>2, <3>2, <3>3
      DEF TypeOK, AppendQuestion, rows, transaction, local, stores
    <3>5. KindInv'
      BY <3>2 DEF TypeOK, KindInv
    <3> QED
      BY <3>4, <3>5
  <2> QED
    BY <2>1, <2>2
<1>7. ASSUME NEW r \in Requests, LookUp(r) PROVE TypeOK' /\ KindInv'
  <2>1. req[r].chat \in Chats /\ (req[r].op = "ask" => req[r].text \in Texts)
    BY <1>7, RequestType DEF LookUp
  <2>2. TypeOK'
    BY <1>7, <2>1 DEF TypeOK, KindInv, LookUp, rows, transaction, stores
  <2>3. KindInv'
    BY <1>7, ZenonT(60) DEF TypeOK, KindInv, LookUp, rows, transaction, stores
  <2> QED
    BY <2>2, <2>3
<1>8. ASSUME NEW r \in Requests, ServeHit(r) PROVE TypeOK' /\ KindInv'
  BY <1>8, MessageType DEF TypeOK, KindInv, ServeHit, AppendAssistant, rows, local, stores
<1>9. ASSUME NEW r \in Requests, Checkpoint(r) PROVE TypeOK' /\ KindInv'
  <2>1. req[r].chat \in Chats /\ (req[r].op = "ask" => req[r].text \in Texts)
    BY <1>9, RequestType DEF Checkpoint
  <2>2. TypeOK'
    BY <1>9, <2>1 DEF TypeOK, KindInv, Checkpoint, rows, transaction, local
  <2>3. KindInv'
    BY <1>9 DEF TypeOK, KindInv, Checkpoint, rows, transaction, local
  <2> QED
    BY <2>2, <2>3
<1>10. ASSUME NEW r \in Requests, FinishRun(r) PROVE TypeOK' /\ KindInv'
  BY <1>10 DEF TypeOK, KindInv, FinishRun, rows, transaction, stores
<1>11. ASSUME NEW r \in Requests, FailRun(r) PROVE TypeOK' /\ KindInv'
  BY <1>11 DEF TypeOK, KindInv, FailRun, rows, transaction, local, stores
<1>12. ASSUME NEW r \in Requests, PersistAnswer(r) PROVE TypeOK' /\ KindInv'
  BY <1>12, MessageType DEF TypeOK, KindInv, PersistAnswer, AppendAssistant, rows, local, stores
<1>13. ASSUME NEW r \in Requests, StoreAnswer(r) PROVE TypeOK' /\ KindInv'
  <2>1. req[r].chat \in Chats /\ (req[r].op = "ask" => req[r].text \in Texts)
    BY <1>13, RequestType DEF StoreAnswer
  <2>2. TypeOK'
    BY <1>13, <2>1 DEF TypeOK, KindInv, StoreAnswer, rows, transaction, local
  <2>3. KindInv'
    BY <1>13 DEF TypeOK, KindInv, StoreAnswer, rows, transaction, local
  <2> QED
    BY <2>2, <2>3
<1>14. ASSUME NEW r \in Requests, SendDone(r) PROVE TypeOK' /\ KindInv'
  BY <1>14 DEF TypeOK, KindInv, SendDone, rows, transaction, local, stores
<1>15. ASSUME NEW r \in Requests, Disconnect(r) PROVE TypeOK' /\ KindInv'
  <2>1. CASE Rollback(r)
    <3>1. /\ lock' \in [Chats -> Requests \cup {None}]
          /\ work' \in [Requests -> Seq(Message)]
          /\ doomed' \in [Requests -> SUBSET Chats]
          /\ scan' \in [Requests -> SUBSET Chats]
      BY <2>1, ReleaseType DEF Rollback
    <3>2. TypeOK'
      BY <1>15, <2>1, <3>1 DEF TypeOK, Disconnect, Rollback, rows, transaction, local, stores
    <3>3. KindInv'
      BY <1>15, <2>1 DEF TypeOK, KindInv, Disconnect, Rollback, rows, transaction, local, stores
    <3> QED
      BY <3>2, <3>3
  <2>2. CASE ~Rollback(r)
    <3>1. req[r] \in Request /\ req[r].chat \in Chats
      BY <1>15, RequestType DEF Disconnect
    <3>2. TypeOK'
      BY <1>15, <2>2, <3>1 DEF TypeOK, Disconnect, rows, transaction, local, stores
    <3>3. KindInv'
      BY <1>15, <2>2 DEF TypeOK, KindInv, Disconnect, local
    <3> QED
      BY <3>2, <3>3
  <2> QED
    BY <2>1, <2>2
<1>16. ASSUME NEW r \in Requests, ScanEmpty(r) PROVE TypeOK' /\ KindInv'
  BY <1>16 DEF TypeOK, KindInv, ScanEmpty, rows, local, stores
<1>17. ASSUME NEW r \in Requests, SweepRow(r) PROVE TypeOK' /\ KindInv'
  <2>1. /\ lock' \in [Chats -> Requests \cup {None}]
        /\ doomed' \in [Requests -> SUBSET Chats]
        /\ scan' \in [Requests -> SUBSET Chats]
    <3>1. PICK c \in scan[r] :
             /\ scan' = [scan EXCEPT ![r] = @ \ {c}]
             /\ \/ /\ lock' = [lock EXCEPT ![c] = r]
                   /\ doomed' = [doomed EXCEPT ![r] = @ \cup {c}]
                \/ UNCHANGED <<lock, doomed>>
      BY <1>17 DEF SweepRow
    <3>2. c \in Chats /\ scan[r] \ {c} \subseteq Chats /\ doomed[r] \cup {c} \subseteq Chats
      BY DEF TypeOK
    <3>3. lock' \in [Chats -> Requests \cup {None}]
      BY <3>1, <3>2 DEF TypeOK
    <3>4. doomed' \in [Requests -> SUBSET Chats]
      <4>1. doomed \in [Requests -> SUBSET Chats]
        BY DEF TypeOK
      <4>2. [doomed EXCEPT ![r] = @ \cup {c}] \in [Requests -> SUBSET Chats]
        BY <3>2, <4>1, DoomMore
      <4> QED
        BY <3>1, <4>1, <4>2
    <3>5. scan' \in [Requests -> SUBSET Chats]
      BY <3>1, <3>2 DEF TypeOK
    <3> QED
      BY <3>3, <3>4, <3>5
  <2> QED
    BY <1>17, <2>1 DEF TypeOK, KindInv, SweepRow, rows, local, stores
<1>18. ASSUME NEW r \in Requests, InsertChat(r) PROVE TypeOK' /\ KindInv'
  BY <1>18 DEF TypeOK, KindInv, InsertChat, rows, transaction, local, stores
<1>19. ASSUME NEW r \in Requests, RemoveChat(r) PROVE TypeOK' /\ KindInv'
  <2>1. req[r].chat \in Chats /\ (req[r].op = "ask" => req[r].text \in Texts)
    BY <1>19, RequestType DEF RemoveChat
  <2>2. TypeOK'
    <3>1. /\ lock' \in [Chats -> Requests \cup {None}]
          /\ doomed' \in [Requests -> SUBSET Chats]
      <4>1. doomed[r] \cup {req[r].chat} \subseteq Chats
        BY <2>1 DEF TypeOK
      <4>2. \/ /\ lock' = [lock EXCEPT ![req[r].chat] = r]
               /\ doomed' = [doomed EXCEPT ![r] = @ \cup {req[r].chat}]
            \/ UNCHANGED <<lock, doomed>>
        BY <1>19 DEF RemoveChat
      <4> QED
        <5>1. lock' \in [Chats -> Requests \cup {None}]
          BY <2>1, <4>2 DEF TypeOK
        <5>2. doomed' \in [Requests -> SUBSET Chats]
          <6>1. doomed \in [Requests -> SUBSET Chats]
            BY DEF TypeOK
          <6>2. [doomed EXCEPT ![r] = @ \cup {req[r].chat}]
                   \in [Requests -> SUBSET Chats]
            BY <2>1, <6>1, DoomMore
          <6> QED
            BY <4>2, <6>1, <6>2
        <5> QED
          BY <5>1, <5>2
    <3>2. /\ pc[r] = "remove" /\ pc' = [pc EXCEPT ![r] = "commit"]
          /\ UNCHANGED <<rows, work, scan, lost, local, stores, delivered, faults>>
      BY <1>19 DEF RemoveChat
    <3> QED
      BY <3>1, <3>2 DEF TypeOK, rows, local, stores
  <2>3. KindInv'
    BY <1>19 DEF TypeOK, KindInv, RemoveChat, rows, local, stores
  <2> QED
    BY <2>2, <2>3
<1>20. ASSUME NEW r \in Requests, Commit(r) PROVE TypeOK' /\ KindInv'
  <2>1. /\ lock' \in [Chats -> Requests \cup {None}]
        /\ work' \in [Requests -> Seq(Message)]
        /\ doomed' \in [Requests -> SUBSET Chats]
        /\ scan' \in [Requests -> SUBSET Chats]
    BY <1>20, ReleaseType DEF Commit
  <2>2. /\ req[r].chat \in Chats /\ req[r].user \in Users
        /\ req[r].op = "ask" => req[r].text \in Texts
        /\ req[r].op = "create" => req[r].text \in Texts \cup {None}
    BY <1>20, RequestType DEF Commit
  <2>3. /\ status' \in [Chats -> {"fresh", "reserved", "live", "gone"}]
        /\ owner' \in [Chats -> Users \cup {None}]
    <3>1. CASE req[r].op = "ask"
      BY <1>20, <3>1 DEF TypeOK, Commit
    <3>2. CASE req[r].op # "ask"
      <4>1. /\ status' = [d \in Chats |->
                   IF d \in doomed[r] THEN "gone"
                   ELSE IF req[r].op = "create" /\ d = req[r].chat THEN "live"
                   ELSE status[d]]
            /\ owner' = [d \in Chats |->
                  IF d \in doomed[r] THEN None
                  ELSE IF req[r].op = "create" /\ d = req[r].chat THEN req[r].user
                  ELSE owner[d]]
        BY <1>20, <3>2 DEF Commit
      <4> QED
        BY <2>2, <4>1 DEF TypeOK
    <3> QED
      BY <3>1, <3>2
  <2>4. title' \in [Chats -> Texts \cup {NewTitle}]
    <3>1. CASE req[r].op = "ask"
      BY <1>20, <2>2, <3>1, ZenonT(60) DEF TypeOK, Commit, TitleAfterAsk
    <3>2. CASE req[r].op # "ask"
      <4>1. req[r].op = "create" => TitleOfNew(r) \in Texts \cup {NewTitle}
        BY <2>2 DEF TitleOfNew
      <4> QED
        BY <1>20, <3>2, <4>1 DEF TypeOK, Commit
    <3> QED
      BY <3>1, <3>2
  <2>5. messages' \in [Chats -> Seq(Message)]
    <3>1. CASE req[r].op = "ask"
      <4>1. \/ UNCHANGED messages
            \/ messages' = [messages EXCEPT ![req[r].chat] = work[r]]
        BY <1>20, <2>2, <3>1 DEF TypeOK, Commit
      <4> QED
        BY <2>2, <4>1 DEF TypeOK
    <3>2. CASE req[r].op # "ask"
      <4>1. <<>> \in Seq(Message)
        OBVIOUS
      <4> QED
        BY <1>20, <3>2, <4>1, ZenonT(60) DEF TypeOK, Commit
    <3> QED
      BY <3>1, <3>2
  <2>6. TypeOK'
    BY <1>20, <2>1, <2>3, <2>4, <2>5 DEF TypeOK, Commit, local, stores
  <2>7. KindInv'
    BY <1>20 DEF TypeOK, KindInv, Commit, local
  <2> QED
    BY <2>6, <2>7
<1>21. ASSUME NEW r \in Requests, LoseConnection(r) PROVE TypeOK' /\ KindInv'
  <2>1. /\ lock' \in [Chats -> Requests \cup {None}]
        /\ work' \in [Requests -> Seq(Message)]
        /\ doomed' \in [Requests -> SUBSET Chats]
        /\ scan' \in [Requests -> SUBSET Chats]
    BY <1>21, ReleaseType DEF LoseConnection
  <2>2. faults' \in 0..MaxFaults
    BY <1>21, BoundsAreNaturals DEF TypeOK, LoseConnection
  <2> QED
    BY <1>21, <2>1, <2>2 DEF TypeOK, KindInv, LoseConnection, rows, local, stores
<1>22. ASSUME NEW r \in Requests, FailStatement(r) PROVE TypeOK' /\ KindInv'
  <2>1. CASE Rollback(r)
    <3>1. /\ lock' \in [Chats -> Requests \cup {None}]
          /\ work' \in [Requests -> Seq(Message)]
          /\ doomed' \in [Requests -> SUBSET Chats]
          /\ scan' \in [Requests -> SUBSET Chats]
      BY <2>1, ReleaseType DEF Rollback
    <3>2. TypeOK'
      BY <1>22, <2>1, <3>1 DEF TypeOK, FailStatement, Rollback, rows, transaction, local, stores
    <3>3. KindInv'
      BY <1>22, <2>1 DEF TypeOK, KindInv, FailStatement, Rollback, rows, transaction, local, stores
    <3> QED
      BY <3>2, <3>3
  <2> QED
    BY <1>22, <2>1 DEF FailStatement
<1>23. ASSUME Crash PROVE TypeOK' /\ KindInv'
  <2>1. /\ lock' \in [Chats -> Requests \cup {None}]
        /\ work' \in [Requests -> Seq(Message)]
        /\ doomed' \in [Requests -> SUBSET Chats]
        /\ scan' \in [Requests -> SUBSET Chats]
    BY <1>23, ReleaseType DEF Crash
  <2>2. faults' \in 0..MaxFaults
    BY <1>23, BoundsAreNaturals DEF TypeOK, Crash
  <2> QED
    BY <1>23, <2>1, <2>2 DEF TypeOK, KindInv, Crash, rows, local, stores
<1>24. ASSUME NEW t \in Texts, Expire(t) PROVE TypeOK' /\ KindInv'
  BY <1>24 DEF TypeOK, KindInv, Expire, rows, transaction, local
<1>25. CASE UNCHANGED vars
  BY <1>25 DEF TypeOK, KindInv, vars, rows, transaction, local, stores
<1> QED
  BY <1>1, <1>2, <1>3, <1>4, <1>5, <1>6, <1>7, <1>8, <1>9, <1>10, <1>11, <1>12, <1>13, <1>14, <1>15, <1>16, <1>17, <1>18, <1>19, <1>20, <1>21, <1>22, <1>23, <1>24, <1>25 DEF Next, Serve, Client

\* No value of the constants and no interleaving takes a variable out of its
\* type.
THEOREM TypeCorrect == Spec => []TypeOK
<1>1. Init => TypeInv
  BY BoundsAreNaturals DEF Init, TypeInv, TypeOK, KindInv, Busy, Ended, AtStatement
<1> QED
  BY <1>1, TypeStep, PTL DEF Spec, TypeInv

-----------------------------------------------------------------------------
(* The row locks *)

\* What the steps below use of TypeOK.
Shape ==
    /\ status \in [Chats -> {"fresh", "reserved", "live", "gone"}]
    /\ owner \in [Chats -> Users \cup {None}]
    /\ messages \in [Chats -> Seq(Message)]
    /\ lock \in [Chats -> Requests \cup {None}]
    /\ work \in [Requests -> Seq(Message)]
    /\ doomed \in [Requests -> SUBSET Chats]
    /\ scan \in [Requests -> SUBSET Chats]
    /\ lost \subseteq Requests
    /\ pc \in [Requests -> AtStatement \cup Ended
                           \cup {"idle", "queued", "lookup", "stream", "store", "done"}]
    /\ req \in [Requests -> Request \cup {None}]
    /\ \A r \in Busy : /\ req[r].chat \in Chats
                       /\ req[r].user \in Users
                       /\ req[r].op \in {"ask", "create", "delete"}
    /\ \A c \in Chats : \A i \in DOMAIN messages[c] : messages[c][i].by \in Requests

\* The variables Locking speaks of.
core == <<status, owner, messages, lock, work, doomed, lost, pc, req>>

\* The moves of a request that touch no row and no lock.
Moves == {<<"queued", "begin">>, <<"queued", "failed">>,
          <<"begin", "append">>, <<"begin", "remove">>, <<"begin", "sweep">>,
          <<"lookup", "hit">>, <<"lookup", "stream">>,
          <<"stream", "persist">>, <<"stream", "commit">>, <<"store", "done">>,
          <<"store", "commit">>, <<"done", "commit">>, <<"sweep", "commit">>,
          <<"remove", "commit">>}

QuietMove(r) ==
    /\ UNCHANGED <<status, owner, messages, lock, work, doomed, lost, req>>
    /\ \E m \in Moves :
          /\ pc[r] = m[1]
          /\ pc' = [pc EXCEPT ![r] = m[2]]
          /\ m[2] \in {"append", "remove"}
                => status[req[r].chat] = "live" /\ req[r].op # "create"
          /\ m[2] = "append" => req[r].op = "ask"
          /\ m[2] = "remove" => req[r].op = "delete"
          /\ m[2] = "sweep" => req[r].op = "create"

\* The requests in R end their transactions without installing anything; each
\* fails or goes on without a connection.
Dropped(R) ==
    /\ UNCHANGED <<status, owner, messages, req>>
    /\ Release(R)
    /\ \A s \in Requests \ R : pc'[s] = pc[s]
                                /\ (s \in Busy => (s \in lost' <=> s \in lost))
    /\ \A s \in R : pc'[s] = "failed" \/ (pc'[s] = pc[s] /\ s \in lost')

----------------------------------------------------------------------------

\* The elements of a sequence grown by one.
LEMMA AppendElements ==
    ASSUME NEW S, NEW s \in Seq(S), NEW x \in S, NEW i \in DOMAIN Append(s, x)
    PROVE  \/ i \in DOMAIN s /\ Append(s, x)[i] = s[i]
           \/ Append(s, x)[i] = x
  OBVIOUS

\* TypeOK gives what Shape says.
LEMMA ShapeHolds == TypeOK => Shape
<1>1. TypeOK => \A c \in Chats : \A i \in DOMAIN messages[c] :
                   messages[c][i].by \in Requests
  <2> SUFFICES ASSUME TypeOK, NEW c \in Chats, NEW i \in DOMAIN messages[c]
               PROVE  messages[c][i].by \in Requests
    OBVIOUS
  <2>1. messages[c] \in Seq(Message)
    BY DEF TypeOK
  <2>2. messages[c][i] \in Message
    BY <2>1
  <2> QED
    BY <2>2 DEF Message
<1> QED
  BY <1>1, RequestType DEF TypeOK, Shape, Busy

\* A step that leaves the core alone keeps the locking discipline.
LEMMA StillKeeps == Locking /\ UNCHANGED core => Locking'
  BY DEF Locking, RowInv, StageInv, LockInv, HoldInv, HoldOk, DoomInv, core, Busy, HoldsRow

\* A quiet move keeps it.
LEMMA QuietKeeps ==
    ASSUME Shape, KindInv, Locking, NEW r \in Requests, QuietMove(r)
    PROVE  Locking'
<1> USE DEF QuietMove, Moves, Busy, Ended, AtStatement
<1>0. None \notin Requests
  BY SentinelsAreDistinct
<1>1. RowInv'
  BY DEF Locking, RowInv, Shape
<1>2. StageInv'
  BY DEF Locking, StageInv, Shape
<1>3. LockInv'
  <2>1. pc[r] = "queued" => \A c \in Chats : lock[c] # r
    BY <1>0 DEF Locking, LockInv, DoomInv, AfterAppend
  <2>2. pc[r] # "queued" => r \in Busy'
    BY DEF Shape
  <2>3. \A s \in Busy : s # r \/ pc[r] # "queued" => s \in Busy'
    BY <2>2 DEF Shape
  <2>4. \A s \in Requests : pc[s] \in AfterAppend => pc'[s] \in AfterAppend
    BY DEF Shape, AfterAppend
  <2> HIDE DEF QuietMove, Busy, Moves
  <2>5. UNCHANGED <<status, lock, doomed, lost, req>>
    BY DEF QuietMove
  <2>6. \A c \in Chats : lock[c] # None => lock[c] \in Requests /\ lock[c] \in Busy'
    <3> SUFFICES ASSUME NEW c \in Chats, lock[c] # None PROVE lock[c] \in Requests /\ lock[c] \in Busy'
      OBVIOUS
    <3>1. lock[c] \in Busy /\ lock[c] \in Requests
      BY DEF Locking, LockInv, Shape
    <3> QED
      BY <2>1, <2>3, <3>1
  <2> QED
    BY <2>4, <2>5, <2>6 DEF Locking, LockInv
<1>4. HoldInv'
  <2> SUFFICES ASSUME NEW s \in Busy', req'[s].op = "ask"
               PROVE  HoldOk(s)'
    BY DEF HoldInv
  <2>1. CASE s # r
    <3>1. s \in Busy /\ pc'[s] = pc[s]
      BY <2>1 DEF Shape
    <3>2. HoldOk(s)
      BY <3>1 DEF Locking, HoldInv
    <3> QED
      BY <3>1, <3>2 DEF HoldOk, HoldsRow
  <2>2. CASE s = r /\ pc[r] \in {"queued", "begin"}
    <3>1. req[r].chat \in Chats /\ r \in Busy
      BY <2>2 DEF Shape
    <3>2. ~HoldsRow(r)
      BY <2>2, <3>1, <1>0 DEF Locking, LockInv, DoomInv, AfterAppend, HoldsRow
    <3>3. pc'[r] \in {"begin", "append", "remove", "sweep"}
      <4>1. PICK m \in Moves : pc[r] = m[1] /\ pc' = [pc EXCEPT ![r] = m[2]]
        OBVIOUS
      <4>2. m[2] \in {"begin", "append", "remove", "sweep"}
        BY <2>2, <4>1 DEF Shape
      <4> QED
        BY <4>1, <4>2 DEF Shape
    <3> QED
      BY <2>2, <3>2, <3>3 DEF AfterAppend, HoldsRow, HoldOk
  <2>3. CASE s = r /\ pc[r] \notin {"queued", "begin"}
    <3>1. r \in Busy /\ req[r].op = "ask"
      BY <2>3 DEF Shape
    <3>2. pc[r] \in {"lookup", "stream", "store", "done"}
      BY <2>3, <3>1 DEF KindInv, Shape
    <3>3. /\ pc[r] \in {"lookup", "stream"}
                => pc'[r] \in {"hit", "stream", "persist", "commit"}
          /\ pc[r] \in {"store", "done"} => pc'[r] \in {"done", "commit"}
      BY <3>2 DEF Shape
    <3> QED
      BY <2>3, <3>1, <3>2, <3>3 DEF Locking, HoldInv, HoldOk, AfterAppend, HoldsRow
  <2> QED
    BY <2>1, <2>2, <2>3
<1>5. DoomInv'
  BY DEF Locking, DoomInv, KindInv, Shape
<1> QED
  BY <1>1, <1>2, <1>3, <1>4, <1>5 DEF Locking

\* The end of some requests' transactions keeps it.
LEMMA DroppedKeeps ==
    ASSUME Shape, Locking, NEW R \in SUBSET Busy, Dropped(R)
    PROVE  Locking'
<1> USE DEF Dropped, Release, Busy, Ended
<1>0. None \notin Requests
  BY SentinelsAreDistinct
<1>1. RowInv'
  BY DEF Locking, RowInv, Shape
<1>2. StageInv'
  BY DEF Locking, StageInv, Shape
<1>3. LockInv'
  BY <1>0 DEF Locking, LockInv, Shape
<1>4. HoldInv'
  <2>1. \A s \in Busy' : HoldsRow(s)' => s \notin R /\ HoldsRow(s)
    BY <1>0 DEF Shape, HoldsRow
  <2>2. \A s \in Busy' : s \in R => s \in lost'
    BY DEF Shape
  <2>3. \A s \in Busy' : s \notin R /\ HoldsRow(s) => HoldsRow(s)'
    BY DEF Shape, HoldsRow
  <2> QED
    BY <2>1, <2>2, <2>3 DEF Locking, HoldInv, HoldOk, Shape, UserMessage, AssistantMessage
<1>5. DoomInv'
  BY DEF Locking, DoomInv, Shape
<1> QED
  BY <1>1, <1>2, <1>3, <1>4, <1>5 DEF Locking

----------------------------------------------------------------------------
(* The actions that touch rows or locks.                                   *)

\* A request arrives: the row it names, if new, is reserved for it alone.
LEMMA ArrivalKeeps ==
    ASSUME Shape, KindInv, Locking, NEW r \in Requests,
           ArriveAsk(r) \/ ArriveCreate(r) \/ ArriveDelete(r)
    PROVE  Locking'
<1>0. None \notin Requests
  BY SentinelsAreDistinct
<1>1. PICK q \in Request :
         /\ q.chat \in Chats
         /\ pc[r] = "idle" /\ pc' = [pc EXCEPT ![r] = "queued"]
         /\ req' = [req EXCEPT ![r] = q]
         /\ UNCHANGED <<owner, messages, lock, work, doomed, lost>>
         /\ \/ q.op # "create" /\ status' = status
            \/ /\ q.op = "create" /\ status[q.chat] = "fresh"
               /\ status' = [status EXCEPT ![q.chat] = "reserved"]
  <2>1. CASE ArriveAsk(r)
    <3>1. PICK u \in Users, c \in Chats, t \in Texts :
             Accept(r, [op |-> "ask", user |-> u, chat |-> c, text |-> t])
      BY <2>1 DEF ArriveAsk
    <3>2. [op |-> "ask", user |-> u, chat |-> c, text |-> t] \in Request
      BY DEF Request
    <3> QED
      BY <2>1, <3>1, <3>2 DEF ArriveAsk, Accept, GoTo, transaction
  <2>2. CASE ArriveCreate(r)
    <3>1. PICK u \in Users, c \in Chats, t \in Texts \cup {None} :
             /\ status[c] = "fresh"
             /\ Accept(r, [op |-> "create", user |-> u, chat |-> c, text |-> t])
             /\ status' = [status EXCEPT ![c] = "reserved"]
      BY <2>2 DEF ArriveCreate
    <3>2. [op |-> "create", user |-> u, chat |-> c, text |-> t] \in Request
      BY DEF Request
    <3> QED
      BY <3>1, <3>2 DEF Accept, GoTo, transaction
  <2>3. CASE ArriveDelete(r)
    <3>1. PICK u \in Users, c \in Chats :
             Accept(r, [op |-> "delete", user |-> u, chat |-> c, text |-> None])
      BY <2>3 DEF ArriveDelete
    <3>2. [op |-> "delete", user |-> u, chat |-> c, text |-> None] \in Request
      BY DEF Request
    <3> QED
      BY <2>3, <3>1, <3>2 DEF ArriveDelete, Accept, GoTo, transaction
  <2> QED
    BY <2>1, <2>2, <2>3
<1> USE DEF Busy, Ended
<1>2. \A s \in Busy' \ {r} : s \in Busy /\ pc'[s] = pc[s] /\ req'[s] = req[s]
  BY <1>1 DEF Shape
<1>3. pc'[r] = "queued" /\ req'[r] = q
  BY <1>1 DEF Shape
<1>4. \A c \in Chats : status[c] # "fresh" => status'[c] = status[c]
  BY <1>1 DEF Shape
<1>5. \A c \in Chats : status'[c] = "live" <=> status[c] = "live"
  BY <1>1 DEF Shape
<1>6. RowInv'
  BY <1>1, <1>5 DEF Locking, RowInv, Shape
<1>7. StageInv'
  <2>1. \A s \in Busy : req[s].op = "create" => req[s].chat \in Chats
                                                /\ status[req[s].chat] = "reserved"
    BY DEF Locking, StageInv, Shape
  <2>2. q.op = "create" => /\ status'[q.chat] = "reserved"
                           /\ status[q.chat] = "fresh"
    BY <1>1 DEF Shape
  <2> QED
    BY <1>1, <1>2, <1>3, <1>4, <2>1, <2>2 DEF Locking, StageInv, Shape
<1>8. LockInv'
  <2>1. \A c \in Chats : lock[c] # r
    BY <1>0, <1>1 DEF Locking, LockInv
  <2> QED
    BY <1>0, <1>1, <1>5, <2>1 DEF Locking, LockInv, Shape
<1>9. HoldInv'
  <2>1. ~HoldsRow(r)'
    BY <1>0, <1>1, <1>3 DEF Locking, LockInv, HoldsRow
  <2>2. \A s \in Busy : status[req[s].chat] = "gone" => status'[req[s].chat] = "gone"
    BY <1>4 DEF Shape
  <2>3. \A s \in Busy' \ {r} : HoldsRow(s)' <=> HoldsRow(s)
    BY <1>1, <1>2 DEF HoldsRow
  <2> QED
    <3> SUFFICES ASSUME NEW s \in Busy', req'[s].op = "ask"  PROVE HoldOk(s)'
      BY DEF HoldInv
    <3>1. CASE s = r
      BY <1>3, <2>1, <3>1 DEF HoldOk, AfterAppend
    <3>2. CASE s # r
      BY <1>1, <1>2, <2>2, <2>3, <3>2 DEF Locking, HoldInv, HoldOk
    <3> QED
      BY <3>1, <3>2
<1>10. DoomInv'
  <2>1. doomed[r] = {}
    BY <1>1 DEF Locking, DoomInv, Shape
  <2> QED
    BY <1>1, <2>1 DEF Locking, DoomInv, Shape
<1> QED
  BY <1>6, <1>7, <1>8, <1>9, <1>10 DEF Locking

\* The question's append to a row that is there takes the row's lock.
LEMMA AppendKeeps ==
    ASSUME Shape, KindInv, Locking, NEW r \in Requests, AppendQuestion(r), ~Rollback(r)
    PROVE  Locking'
<1> DEFINE c == req[r].chat
<1>0. None \notin Requests
  BY SentinelsAreDistinct
<1>1. /\ r \in Busy /\ req[r].op = "ask" /\ c \in Chats /\ r \notin lost
      /\ pc[r] = "append" /\ pc' = [pc EXCEPT ![r] = "lookup"]
      /\ UNCHANGED <<status, owner, messages, doomed, lost, req>>
      /\ \/ /\ status[c] = "live" /\ lock[c] = None
            /\ lock' = [lock EXCEPT ![c] = r]
            /\ work' = [work EXCEPT ![r] = Append(messages[c], UserMessage(r))]
         \/ status[c] = "gone" /\ UNCHANGED <<lock, work>>
  BY DEF AppendQuestion, GoTo, rows, transaction, local, Shape, KindInv, Busy, Ended
<1> HIDE DEF c
<1> USE DEF Busy, Ended
<1>2. RowInv'
  BY <1>1 DEF Locking, RowInv, Shape
<1>3. StageInv'
  BY <1>1 DEF Locking, StageInv, Shape, c
<1>4. LockInv'
  BY <1>0, <1>1 DEF Locking, LockInv, Shape, AfterAppend, c
<1>5. HoldInv'
  <2>1. \A s \in Busy' \ {r} : /\ s \in Busy /\ pc'[s] = pc[s] /\ work'[s] = work[s]
                               /\ HoldsRow(s)' => HoldsRow(s)
                               /\ HoldsRow(s) => HoldsRow(s)'
    BY <1>0, <1>1 DEF Shape, HoldsRow
  <2>2. CASE status[c] = "live" /\ lock[c] = None
    <3>1. HoldsRow(r)' /\ pc'[r] = "lookup"
      BY <1>1, <2>2 DEF Shape, HoldsRow, c
    <3>2. work'[r] = Append(messages[c], UserMessage(r))
      BY <1>1, <2>2 DEF Shape
    <3> QED
      BY <1>1, <2>1, <3>1, <3>2, ZenonT(60) DEF Locking, HoldInv, HoldOk, UserMessage, AssistantMessage, c
  <2>3. CASE status[c] = "gone"
    <3>1. ~HoldsRow(r)'
      BY <1>0, <1>1, <2>3 DEF Locking, LockInv, HoldsRow, c
    <3> QED
      BY <1>1, <2>1, <2>3, <3>1, ZenonT(60) DEF Locking, HoldInv, HoldOk, UserMessage, AssistantMessage, c
  <2> QED
    BY <1>1, <2>2, <2>3
<1>6. DoomInv'
  BY <1>0, <1>1 DEF Locking, DoomInv, Shape
<1> QED
  BY <1>2, <1>3, <1>4, <1>5, <1>6 DEF Locking

\* The answer's append completes the turn in the request's own version.
LEMMA AnswerKeeps ==
    ASSUME Shape, KindInv, Locking, NEW r \in Requests, ServeHit(r) \/ PersistAnswer(r)
    PROVE  Locking'
<1>1. /\ r \in Busy /\ req[r].op = "ask" /\ r \notin lost
      /\ UNCHANGED <<status, owner, messages, lock, doomed, lost, req>>
      /\ pc[r] \in {"hit", "persist"}
      /\ \E b \in {"store", "commit"} : pc' = [pc EXCEPT ![r] = b]
      /\ work' = [work EXCEPT ![r] =
                     IF HoldsRow(r) THEN Append(@, AssistantMessage(r)) ELSE @]
  BY DEF ServeHit, PersistAnswer, AppendAssistant, GoTo, rows, local, Shape, KindInv,
         Busy, Ended
<1> USE DEF Busy, Ended
<1>2. RowInv'
  BY <1>1 DEF Locking, RowInv, Shape
<1>3. StageInv'
  BY <1>1 DEF Locking, StageInv, Shape
<1>4. LockInv'
  BY <1>1 DEF Locking, LockInv, Shape, AfterAppend
<1>5. HoldInv'
  <2>1. \A s \in Busy' : /\ s \in Busy
                         /\ s # r => pc'[s] = pc[s] /\ work'[s] = work[s]
                         /\ HoldsRow(s)' <=> HoldsRow(s)
    BY <1>1 DEF Shape, HoldsRow
  <2>2. HoldsRow(r) =>
           work'[r] = Append(Append(messages[req[r].chat], UserMessage(r)),
                             AssistantMessage(r))
    BY <1>1 DEF Locking, HoldInv, HoldOk, Shape
  <2>3. pc'[r] \in {"store", "commit"}
    BY <1>1 DEF Shape
  <2> QED
    BY <1>1, <2>1, <2>2, <2>3, ZenonT(60)
    DEF Locking, HoldInv, HoldOk, AfterAppend, UserMessage, AssistantMessage
<1>6. DoomInv'
  BY <1>1 DEF Locking, DoomInv, Shape
<1> QED
  BY <1>2, <1>3, <1>4, <1>5, <1>6 DEF Locking

\* A deletion takes the lock of the row it deletes.
LEMMA DoomKeeps ==
    ASSUME Shape, KindInv, Locking, NEW r \in Requests, NEW c \in Chats,
           r \in Busy \ lost, status[c] = "live", lock[c] = None,
           lock' = [lock EXCEPT ![c] = r],
           doomed' = [doomed EXCEPT ![r] = @ \cup {c}],
           \/ /\ pc[r] = "sweep" /\ Unused(r, c) /\ UNCHANGED pc
           \/ /\ pc[r] = "remove" /\ c = req[r].chat
              /\ pc' = [pc EXCEPT ![r] = "commit"],
           UNCHANGED <<status, owner, messages, work, lost, req>>
    PROVE  Locking'
<1> USE DEF Busy, Ended
<1>0. None \notin Requests
  BY SentinelsAreDistinct
<1>1. RowInv'
  BY DEF Locking, RowInv, Shape
<1>2. StageInv'
  <2>1. \A s \in Busy' : s \in Busy /\ (pc[s] \in {"queued", "begin"} => pc'[s] = pc[s])
    BY DEF Shape
  <2> QED
    BY <2>1 DEF Locking, StageInv
<1>3. doomed'[r] = doomed[r] \cup {c} /\ \A s \in Requests \ {r} : doomed'[s] = doomed[s]
  BY DEF Shape
<1>4. LockInv'
  BY <1>0, <1>3 DEF Locking, LockInv, Shape
<1>5. HoldInv'
  <2>1. req[r].op # "ask"
    BY DEF KindInv
  <2>2. \A s \in Busy' \ {r} : /\ s \in Busy /\ pc'[s] = pc[s]
                               /\ HoldsRow(s)' => HoldsRow(s)
                               /\ HoldsRow(s) => HoldsRow(s)'
    BY <1>0 DEF Shape, HoldsRow
  <2> QED
    BY <2>1, <2>2 DEF Locking, HoldInv, HoldOk, UserMessage, AssistantMessage
<1>6. DoomInv'
  <2> SUFFICES ASSUME NEW s \in Requests, NEW d \in doomed'[s]
               PROVE  /\ s \in Busy'
                      /\ lock'[d] = s
                      /\ \/ /\ req'[s].op = "create"
                            /\ pc'[s] \in {"sweep", "commit"}
                            /\ owner'[d] = req'[s].user
                            /\ messages'[d] = <<>>
                         \/ /\ req'[s].op = "delete"
                            /\ pc'[s] = "commit"
                            /\ d = req'[s].chat
    BY DEF DoomInv
  <2>1. CASE d \in doomed[s]
    BY <1>0, <2>1 DEF Locking, DoomInv, Shape
  <2>2. CASE s = r /\ d = c
    BY <2>2 DEF KindInv, Unused, Shape
  <2> QED
    BY <1>3, <2>1, <2>2
<1> QED
  BY <1>1, <1>2, <1>4, <1>5, <1>6 DEF Locking

\* An ask's commit installs its turn in the row it holds.
LEMMA AskCommitKeeps ==
    ASSUME Shape, KindInv, Locking, NEW r \in Requests, Commit(r), req[r].op = "ask"
    PROVE  Locking'
<1> DEFINE c == req[r].chat
<1>0. None \notin Requests
  BY SentinelsAreDistinct
<1>1. /\ pc[r] = "commit" /\ r \notin lost /\ c \in Chats /\ r \in Busy
      /\ pc' = [pc EXCEPT ![r] = "committed"]
      /\ Release({r})
      /\ messages' = [messages EXCEPT ![c] = IF HoldsRow(r) THEN work[r] ELSE @]
      /\ UNCHANGED <<status, owner, lost, req>>
  BY DEF Commit, GoTo, local, Shape, Busy, Ended
<1> HIDE DEF c
<1> USE DEF Busy, Ended, Release
<1>2. \A d \in Chats : messages'[d] # messages[d] => d = c /\ lock[c] = r
  BY <1>1 DEF Shape, HoldsRow, c
<1>3. \A s \in Busy' : s \in Busy /\ s # r /\ pc'[s] = pc[s] /\ work'[s] = work[s]
                       /\ doomed'[s] = doomed[s]
  BY <1>1 DEF Shape
<1>4. RowInv'
  <2>1. \A d \in Chats : status[d] # "live" => messages'[d] = <<>>
    BY <1>0, <1>1, <1>2 DEF Locking, RowInv, LockInv
  <2>2. ASSUME NEW d \in Chats, NEW i \in DOMAIN messages'[d]
        PROVE  pc'[messages'[d][i].by] = "committed"
    <3>1. CASE messages'[d] = messages[d]
      BY <1>1, <3>1, <2>2 DEF Locking, RowInv, Shape
    <3>2. CASE messages'[d] # messages[d]
      <4>1. d = c /\ HoldsRow(r) /\ messages'[d] = work[r]
        BY <1>1, <1>2, <3>2 DEF HoldsRow, c, Shape
      <4>2. \/ work[r] = Append(messages[c], UserMessage(r))
            \/ work[r] = Append(Append(messages[c], UserMessage(r)), AssistantMessage(r))
        BY <1>1, <4>1 DEF Locking, HoldInv, HoldOk, c
      <4>3. messages[c] \in Seq(Message)
        BY <1>1 DEF Shape
      <4>4. \/ i \in DOMAIN messages[c] /\ messages'[d][i] = messages[c][i]
            \/ messages'[d][i] \in {UserMessage(r), AssistantMessage(r)}
        <5>1. UserMessage(r) \in Message /\ AssistantMessage(r) \in Message
          BY MessageType
        <5>2. PICK m, u, a, p, w : /\ m = messages[c] /\ p = Append(m, u) /\ w = messages'[d]
                                   /\ u = UserMessage(r) /\ a = AssistantMessage(r)
          OBVIOUS
        <5>3. m \in Seq(Message) /\ p \in Seq(Message) /\ u \in Message /\ a \in Message
          BY <4>3, <5>1, <5>2
        <5>4. ASSUME i \in DOMAIN p
              PROVE  (i \in DOMAIN m /\ p[i] = m[i]) \/ p[i] = u
          BY <5>2, <5>3, <5>4, AppendElements
        <5>5. CASE w = p
          BY <2>2, <5>2, <5>4, <5>5
        <5>6. CASE w = Append(p, a)
          <6>1. (i \in DOMAIN p /\ w[i] = p[i]) \/ w[i] = a
            BY <2>2, <5>2, <5>3, <5>6, AppendElements
          <6> QED
            BY <5>2, <5>4, <6>1
        <5> QED
          BY <4>1, <4>2, <5>2, <5>5, <5>6
      <4>5. \/ messages'[d][i].by = r
            \/ /\ messages'[d][i].by \in Requests
               /\ pc[messages'[d][i].by] = "committed"
        BY <1>1, <4>4 DEF Locking, RowInv, Shape, UserMessage, AssistantMessage
      <4> QED
        BY <1>1, <4>5 DEF Shape
    <3> QED
      BY <3>1, <3>2
  <2> QED
    BY <1>1, <2>1, <2>2 DEF Locking, RowInv
<1>5. StageInv'
  BY <1>1, <1>3 DEF Locking, StageInv
<1>6. LockInv'
  BY <1>0, <1>1 DEF Locking, LockInv, Shape
<1>7. HoldInv'
  <2>1. \A s \in Busy' : HoldsRow(s)' <=> HoldsRow(s)
    BY <1>0, <1>1, <1>3 DEF Shape, HoldsRow
  <2>2. \A s \in Busy' : HoldsRow(s) => messages'[req[s].chat] = messages[req[s].chat]
    BY <1>2, <1>3 DEF Shape, HoldsRow
  <2> QED
    <3> SUFFICES ASSUME NEW s \in Busy', req'[s].op = "ask"  PROVE HoldOk(s)'
      BY DEF HoldInv
    <3>1. s \in Busy /\ HoldOk(s)
      BY <1>1, <1>3 DEF Locking, HoldInv
    <3> QED
      BY <1>1, <1>3, <2>1, <2>2, <3>1 DEF HoldOk
<1>8. DoomInv'
  BY <1>1, <1>2 DEF Locking, DoomInv, Shape
<1> QED
  BY <1>4, <1>5, <1>6, <1>7, <1>8 DEF Locking

\* The commit of a create or a delete: the rows it deleted were locked by it, and
\* the row it inserts was reserved.
LEMMA ChangeCommitKeeps ==
    ASSUME Shape, KindInv, Locking, NEW r \in Requests, Commit(r), req[r].op # "ask"
    PROVE  Locking'
<1> DEFINE c == req[r].chat
           made == req[r].op = "create"
<1>0. None \notin Requests /\ None \notin Users
  BY SentinelsAreDistinct
<1>1. /\ pc[r] = "commit" /\ r \notin lost /\ c \in Chats /\ r \in Busy
      /\ pc' = [pc EXCEPT ![r] = "committed"]
      /\ Release({r})
      /\ status' = [d \in Chats |-> IF d \in doomed[r] THEN "gone"
                                    ELSE IF made /\ d = c THEN "live" ELSE status[d]]
      /\ owner' = [d \in Chats |-> IF d \in doomed[r] THEN None
                                   ELSE IF made /\ d = c THEN req[r].user ELSE owner[d]]
      /\ messages' = [d \in Chats |-> IF d \in doomed[r] THEN <<>> ELSE messages[d]]
      /\ UNCHANGED <<lost, req>>
      /\ req[r].user \in Users
  BY DEF Commit, GoTo, local, Shape, Busy, Ended
<1>2. made => status[c] = "reserved" /\ c \notin doomed[r]
  BY <1>0, <1>1 DEF Locking, StageInv, DoomInv, LockInv
<1>3. \A d \in doomed[r] : d \in Chats /\ lock[d] = r /\ status[d] = "live"
  BY <1>0 DEF Locking, LockInv, DoomInv, Shape
<1> HIDE DEF c, made
<1> USE DEF Busy, Ended, Release
<1>4. \A s \in Busy' : s \in Busy /\ s # r /\ pc'[s] = pc[s] /\ work'[s] = work[s]
                       /\ doomed'[s] = doomed[s]
  BY <1>1 DEF Shape
<1>5. \A d \in Chats : lock[d] \notin {r, None} => /\ status'[d] = status[d]
                                                   /\ owner'[d] = owner[d]
                                                   /\ messages'[d] = messages[d]
                                                   /\ lock'[d] = lock[d]
  BY <1>1, <1>2, <1>3 DEF Locking, LockInv
<1>6. RowInv'
  <2>1. \A d \in Chats : messages'[d] \in {<<>>, messages[d]}
    BY <1>1
  <2>2. \A d \in Chats : \A i \in DOMAIN messages'[d] :
           messages'[d] = messages[d] /\ i \in DOMAIN messages[d]
    BY <2>1
  <2>3. \A d \in Chats : \A i \in DOMAIN messages'[d] :
           pc'[messages'[d][i].by] = "committed"
    BY <1>1, <2>2 DEF Locking, RowInv, Shape
  <2>4. \A d \in Chats : status'[d] = "live" <=> owner'[d] # None
    BY <1>0, <1>1, <1>3 DEF Locking, RowInv
  <2>5. \A d \in Chats : status'[d] # "live" => messages'[d] = <<>>
    BY <1>1 DEF Locking, RowInv
  <2> QED
    BY <2>3, <2>4, <2>5 DEF RowInv
<1>7. StageInv'
  <2>1. \A s \in Busy' : req[s].op = "create" => status'[req[s].chat] = "reserved"
    BY <1>1, <1>2, <1>3, <1>4, ZenonT(60) DEF Locking, StageInv, Shape, c, made
  <2>2. \A s \in Busy' : status[req[s].chat] \in {"live", "gone"}
                            => status'[req[s].chat] \in {"live", "gone"}
    BY <1>1, <1>4 DEF Shape
  <2> QED
    BY <1>1, <1>4, <2>1, <2>2 DEF Locking, StageInv
<1>8. LockInv'
  BY <1>0, <1>1, <1>4, <1>5 DEF Locking, LockInv, Shape
<1>9. HoldInv'
  <2>1. \A s \in Busy' : HoldsRow(s)' <=> HoldsRow(s)
    BY <1>0, <1>1, <1>4 DEF Shape, HoldsRow
  <2>2. \A s \in Busy' : HoldsRow(s) => messages'[req[s].chat] = messages[req[s].chat]
    BY <1>0, <1>4, <1>5 DEF Shape, HoldsRow
  <2>3. \A s \in Busy' : status[req[s].chat] = "gone" => status'[req[s].chat] = "gone"
    BY <1>1, <1>2, <1>4 DEF Shape
  <2> QED
    <3> SUFFICES ASSUME NEW s \in Busy', req'[s].op = "ask"  PROVE HoldOk(s)'
      BY DEF HoldInv
    <3>1. s \in Busy /\ HoldOk(s)
      BY <1>1, <1>4 DEF Locking, HoldInv
    <3> QED
      BY <1>1, <1>4, <2>1, <2>2, <2>3, <3>1 DEF HoldOk
<1>10. DoomInv'
  <2>1. doomed'[r] = {} /\ \A s \in Requests \ {r} : doomed'[s] = doomed[s]
    BY <1>1 DEF Shape
  <2>2. \A s \in Requests \ {r} : \A d \in doomed[s] : d \in Chats /\ lock[d] = s
    BY DEF Locking, DoomInv, Shape
  <2> QED
    BY <1>0, <1>1, <1>5, <2>1, <2>2 DEF Locking, DoomInv, Shape
<1> QED
  BY <1>6, <1>7, <1>8, <1>9, <1>10 DEF Locking

----------------------------------------------------------------------------

\* Every step keeps the locking discipline.
LEMMA LockingStep ==
    ASSUME TypeOK, KindInv, Locking, [Next]_vars
    PROVE  Locking'
<1>0. Shape
  BY ShapeHolds
<1> USE DEF GoTo
<1>1. ASSUME NEW r \in Requests, ArriveAsk(r) \/ ArriveCreate(r) \/ ArriveDelete(r)
      PROVE  Locking'
  BY <1>0, <1>1, ArrivalKeeps
<1>2. ASSUME NEW r \in Requests, QuietMove(r) PROVE Locking'
  BY <1>0, <1>2, QuietKeeps
<1>3. ASSUME NEW R \in SUBSET Busy, Dropped(R) PROVE Locking'
  BY <1>0, <1>3, DroppedKeeps
<1>4. ASSUME NEW r \in Requests, r \in Busy, Rollback(r), UNCHANGED req PROVE Locking'
  <2>1. Dropped({r})
    BY <1>0, <1>4 DEF Dropped, Rollback, Shape, rows
  <2> QED
    BY <1>3, <1>4, <2>1
<1>5. ASSUME NEW r \in Requests, Connect(r) \/ PoolTimeout(r) PROVE Locking'
  <2>1. QuietMove(r)
    BY <1>5 DEF Connect, PoolTimeout, QuietMove, Moves, rows, transaction, local
  <2> QED
    BY <1>2, <2>1
<1>6. ASSUME NEW r \in Requests, GetChat(r) PROVE Locking'
  <2>1. CASE Rollback(r)
    BY <1>4, <1>6, <2>1 DEF GetChat, Busy, Ended
  <2>2. CASE ~Rollback(r)
    <3>1. req[r].op \in {"ask", "delete"}
      BY <1>0, <1>6 DEF GetChat, Shape, Busy, Ended
    <3>2. QuietMove(r)
      BY <1>6, <2>2, <3>1 DEF GetChat, Owns, QuietMove, Moves, rows, transaction
    <3> QED
      BY <1>2, <3>2
  <2> QED
    BY <2>1, <2>2
<1>7. ASSUME NEW r \in Requests, AppendQuestion(r) PROVE Locking'
  <2>1. CASE Rollback(r)
    BY <1>4, <1>7, <2>1 DEF AppendQuestion, Busy, Ended, local
  <2>2. CASE ~Rollback(r)
    BY <1>0, <1>7, <2>2, AppendKeeps
  <2> QED
    BY <2>1, <2>2
<1>8. ASSUME NEW r \in Requests,
             LookUp(r) \/ FinishRun(r) \/ FailRun(r) \/ StoreAnswer(r) \/ SendDone(r)
      PROVE  Locking'
  <2>1. QuietMove(r)
    BY <1>8 DEF LookUp, FinishRun, FailRun, StoreAnswer, SendDone, QuietMove, Moves,
                rows, transaction, local
  <2> QED
    BY <1>2, <2>1
<1>9. ASSUME NEW r \in Requests, ServeHit(r) \/ PersistAnswer(r) PROVE Locking'
  BY <1>0, <1>9, AnswerKeeps
<1>10. ASSUME NEW r \in Requests, Checkpoint(r) PROVE Locking'
  BY <1>10, StillKeeps DEF Checkpoint, core, rows, transaction, local
<1>11. ASSUME NEW r \in Requests, Disconnect(r) PROVE Locking'
  <2>1. CASE Rollback(r)
    <3>1. pc[r] \in {"persist", "stream", "store", "done"}
      BY <1>11 DEF Disconnect
    <3> QED
      BY <1>4, <1>11, <2>1, <3>1 DEF Disconnect, Busy, Ended, local
  <2>2. CASE ~Rollback(r)
    <3>1. QuietMove(r)
      BY <1>11, <2>2 DEF Disconnect, QuietMove, Moves, rows, transaction, local
    <3> QED
      BY <1>2, <3>1
  <2> QED
    BY <2>1, <2>2
<1>12. ASSUME NEW r \in Requests, ScanEmpty(r) \/ InsertChat(r) PROVE Locking'
  <2>1. QuietMove(r)
    BY <1>12 DEF ScanEmpty, InsertChat, QuietMove, Moves, rows, transaction, local,
                 KindInv, Busy, Ended
  <2> QED
    BY <1>2, <2>1
<1>13. ASSUME NEW r \in Requests, SweepRow(r) PROVE Locking'
  <2>1. PICK c \in scan[r] :
           /\ lock[c] = None
           /\ \/ /\ Unused(r, c)
                 /\ lock' = [lock EXCEPT ![c] = r]
                 /\ doomed' = [doomed EXCEPT ![r] = @ \cup {c}]
              \/ UNCHANGED <<lock, doomed>>
    BY <1>13 DEF SweepRow
  <2>2. /\ c \in Chats /\ r \in Busy \ lost /\ pc[r] = "sweep"
        /\ UNCHANGED <<status, owner, messages, work, lost, pc, req>>
    BY <1>0, <1>13 DEF SweepRow, Shape, Busy, Ended, rows, local
  <2>3. CASE Unused(r, c) /\ ~UNCHANGED <<lock, doomed>>
    BY <1>0, <2>1, <2>2, <2>3, DoomKeeps DEF Unused
  <2>4. CASE UNCHANGED <<lock, doomed>>
    BY <2>2, <2>4, StillKeeps DEF core
  <2> QED
    BY <2>1, <2>3, <2>4
<1>14. ASSUME NEW r \in Requests, RemoveChat(r) PROVE Locking'
  <2>1. /\ req[r].chat \in Chats /\ r \in Busy \ lost /\ pc[r] = "remove"
        /\ pc' = [pc EXCEPT ![r] = "commit"]
        /\ UNCHANGED <<status, owner, messages, work, lost, req>>
        /\ lock[req[r].chat] = None
    BY <1>0, <1>14 DEF RemoveChat, Shape, Busy, Ended, rows, local
  <2>2. CASE status[req[r].chat] = "live"
    <3>1. /\ lock' = [lock EXCEPT ![req[r].chat] = r]
          /\ doomed' = [doomed EXCEPT ![r] = @ \cup {req[r].chat}]
      BY <1>14, <2>2 DEF RemoveChat
    <3> QED
      BY <1>0, <2>1, <2>2, <3>1, DoomKeeps
  <2>3. CASE status[req[r].chat] # "live"
    <3>1. QuietMove(r)
      BY <1>14, <2>1, <2>3 DEF RemoveChat, QuietMove, Moves
    <3> QED
      BY <1>2, <3>1
  <2> QED
    BY <2>2, <2>3
<1>15. ASSUME NEW r \in Requests, Commit(r) PROVE Locking'
  BY <1>0, <1>15, AskCommitKeeps, ChangeCommitKeeps
<1>16. ASSUME NEW r \in Requests, LoseConnection(r) PROVE Locking'
  <2>1. {r} \in SUBSET Busy /\ Dropped({r})
    BY <1>0, <1>16 DEF LoseConnection, Connected, Dropped, rows, local
  <2> QED
    BY <1>3, <2>1
<1>17. ASSUME NEW r \in Requests, FailStatement(r) PROVE Locking'
  BY <1>4, <1>17 DEF FailStatement, AtStatement, Busy, Ended, local
<1>18. ASSUME Crash PROVE Locking'
  <2>1. Dropped(Busy)
    BY <1>0, <1>18 DEF Crash, Dropped, rows, local, Shape, Busy
  <2> QED
    BY <1>3, <2>1
<1>19. ASSUME NEW t \in Texts, Expire(t) PROVE Locking'
  BY <1>19, StillKeeps DEF Expire, core, rows, transaction, local
<1>20. CASE UNCHANGED vars
  BY <1>20, StillKeeps DEF vars, core, rows, transaction, local
<1> QED
  BY <1>1, <1>5, <1>6, <1>7, <1>8, <1>9, <1>10, <1>11, <1>12, <1>13, <1>14, <1>15,
     <1>16, <1>17, <1>18, <1>19, <1>20 DEF Next, Serve, Client

\* The invariant every other theorem about locks and rows rests on.
THEOREM Inductive == Spec => []IInv
<1>1. Init => IInv
  BY BoundsAreNaturals
  DEF Init, IInv, TypeInv, TypeOK, KindInv, Locking, RowInv, StageInv, LockInv, HoldInv,
      DoomInv, Busy, Ended, AtStatement
<1>2. IInv /\ [Next]_vars => IInv'
  BY TypeStep, LockingStep DEF IInv, TypeInv
<1> QED
  BY <1>1, <1>2, PTL DEF Spec

\* Nothing but the row lock keeps a second run off a thread, and it does: in a
\* live chat two runs whose connections are alive are one.
THEOREM OneRun == Spec => []OneRunPerThread
<1>1. IInv => OneRunPerThread
  <2> SUFFICES ASSUME IInv, NEW c \in Chats, status[c] = "live",
                      NEW r \in Streaming(c), NEW s \in Streaming(c), {r, s} \cap lost = {}
               PROVE  r = s
    BY DEF OneRunPerThread
  <2>1. \A q \in {r, s} : /\ q \in Busy /\ req[q].op = "ask" /\ req[q].chat = c
                          /\ pc[q] \in AfterAppend /\ q \notin lost
    BY DEF Streaming, Asked, Busy, Ended, AfterAppend
  <2>2. \A q \in {r, s} : lock[c] = q
    BY <2>1 DEF IInv, Locking, HoldInv, HoldOk, HoldsRow
  <2> QED
    BY <2>2
<1> QED
  BY <1>1, Inductive, PTL

-----------------------------------------------------------------------------
(* Module Chats implements module Transcripts, and what follows from it.   *)

\* The commit of an ask is one whole turn, or nothing when the row is gone.
LEMMA AskCommitMaps ==
    ASSUME IInv, NEW r \in Requests, Commit(r), req[r].op = "ask"
    PROVE  T!Next \/ UNCHANGED T!vars
<1> DEFINE c == req[r].chat
<1>1. /\ c \in Chats /\ r \in Busy /\ pc[r] = "commit"
      /\ messages' = [messages EXCEPT ![c] = IF HoldsRow(r) THEN work[r] ELSE @]
      /\ UNCHANGED <<status, owner>>
  BY ShapeHolds DEF Commit, IInv, TypeInv, Shape, Busy, Ended
<1>2. messages \in [Chats -> Seq(Message)]
  BY DEF IInv, TypeInv, TypeOK
<1>3. CASE HoldsRow(r)
  <2>1. status[c] = "live"
    BY <1>1, <1>3, SentinelsAreDistinct DEF IInv, Locking, LockInv, HoldsRow
  <2>2. work[r] \in T!Grown(messages[c], r)
    BY <1>1, <1>3 DEF IInv, Locking, HoldInv, HoldOk, T!Grown, T!Question, T!Answer,
                      UserMessage, AssistantMessage
  <2>3. \A d \in Chats : ~T!Wrote(r, messages[d])
    BY <1>1 DEF IInv, Locking, RowInv, T!Wrote
  <2>4. T!Ask(c, r)
    BY <1>1, <1>3, <2>1, <2>2, <2>3 DEF T!Ask
  <2> QED
    BY <1>1, <2>4 DEF T!Next
<1>4. CASE ~HoldsRow(r)
  BY <1>1, <1>2, <1>4 DEF T!vars
<1> QED
  BY <1>3, <1>4

\* The commit of a create opens a chat and sweeps unused ones of its user.
LEMMA CreateCommitMaps ==
    ASSUME IInv, NEW r \in Requests, Commit(r), req[r].op = "create"
    PROVE  T!Next
<1>0. PICK c \in Chats, u \in Users, swept \in SUBSET Chats :
         c = req[r].chat /\ u = req[r].user /\ swept = doomed[r] /\ r \in Busy
  BY ShapeHolds DEF Commit, IInv, TypeInv, Shape, Busy, Ended
<1>1. /\ c \in Chats /\ u \in Users /\ r \in Busy
      /\ status' = [d \in Chats |-> IF d \in swept THEN "gone"
                                    ELSE IF d = c THEN "live" ELSE status[d]]
      /\ owner' = [d \in Chats |-> IF d \in swept THEN None
                                   ELSE IF d = c THEN u ELSE owner[d]]
      /\ messages' = [d \in Chats |-> IF d \in swept THEN <<>> ELSE messages[d]]
  BY <1>0 DEF Commit
<1>2. messages \in [Chats -> Seq(Message)]
  BY DEF IInv, TypeInv, TypeOK
<1>3. \A d \in swept : /\ d \in Chats /\ status[d] = "live"
                           /\ owner[d] = u /\ messages[d] = <<>>
  BY <1>0, SentinelsAreDistinct DEF IInv, Locking, LockInv, DoomInv, TypeInv, TypeOK
<1>4. status[c] = "reserved"
  BY <1>0 DEF IInv, Locking, StageInv
<1>5. T!Open(u, c, swept)
  <2>1. messages' = messages
    BY <1>1, <1>2, <1>3
  <2>2. {d \in Chats : status[d] = "live"}' =
           ({d \in Chats : status[d] = "live"} \ swept) \cup {c}
    BY <1>1, <1>3, <1>4
  <2>3. owner' = [d \in Chats |-> IF d = c THEN u
                                  ELSE IF d \in swept THEN None ELSE owner[d]]
    BY <1>1, <1>3, <1>4
  <2> QED
    BY <1>1, <1>3, <1>4, <2>1, <2>2, <2>3 DEF T!Open
<1> QED
  <2>1. swept \in SUBSET {d \in Chats : status[d] = "live"}
    BY <1>3
  <2>2. \E some \in SUBSET {d \in Chats : status[d] = "live"} : T!Open(u, c, some)
    BY <1>5, <2>1
  <2> QED
    BY <1>1, <2>2 DEF T!Next

\* The commit of a delete closes its chat, or finds it gone.
LEMMA DeleteCommitMaps ==
    ASSUME IInv, NEW r \in Requests, Commit(r), req[r].op = "delete"
    PROVE  T!Next \/ UNCHANGED T!vars
<1>0. PICK c \in Chats : c = req[r].chat
  BY ShapeHolds DEF Commit, IInv, TypeInv, Shape, Busy, Ended
<1>1. /\ c \in Chats
      /\ status' = [d \in Chats |-> IF d \in doomed[r] THEN "gone" ELSE status[d]]
      /\ owner' = [d \in Chats |-> IF d \in doomed[r] THEN None ELSE owner[d]]
      /\ messages' = [d \in Chats |-> IF d \in doomed[r] THEN <<>> ELSE messages[d]]
  BY <1>0 DEF Commit
<1>2. /\ messages \in [Chats -> Seq(Message)] /\ owner \in [Chats -> Users \cup {None}]
      /\ status \in [Chats -> {"fresh", "reserved", "live", "gone"}]
  BY DEF IInv, TypeInv, TypeOK
<1>3. doomed[r] \subseteq {c} /\ (doomed[r] # {} => status[c] = "live")
  <2>1. \A d \in doomed[r] : d = c /\ lock[d] = r
    BY <1>0 DEF IInv, Locking, DoomInv
  <2> QED
    BY <1>1, <2>1, SentinelsAreDistinct DEF IInv, Locking, LockInv
<1>4. CASE doomed[r] = {}
  BY <1>1, <1>2, <1>4 DEF T!vars
<1>5. CASE doomed[r] = {c}
  <2>1. {d \in Chats : status[d] = "live"}' = {d \in Chats : status[d] = "live"} \ {c}
    BY <1>1, <1>2, <1>5
  <2>2. owner' = [owner EXCEPT ![c] = None] /\ messages' = [messages EXCEPT ![c] = <<>>]
    BY <1>1, <1>2, <1>5
  <2>3. T!Close(c)
    BY <1>1, <1>3, <1>5, <2>1, <2>2 DEF T!Close
  <2> QED
    <3>1. \E d \in Chats : T!Close(d)
      BY <1>1, <2>3
    <3> QED
      BY <3>1 DEF T!Next
<1> QED
  BY <1>3, <1>4, <1>5

\* No other step touches what Transcripts speaks of.
LEMMA OtherStepsStutter ==
    ASSUME TypeOK, [Next]_vars, \A r \in Requests : ~Commit(r)
    PROVE  UNCHANGED T!vars
<1>1. CASE \E r \in Requests : ArriveCreate(r)
  <2>1. PICK r \in Requests, c \in Chats :
           /\ status[c] = "fresh" /\ status' = [status EXCEPT ![c] = "reserved"]
           /\ UNCHANGED <<owner, messages>>
    BY <1>1 DEF ArriveCreate, Accept
  <2>2. {d \in Chats : status[d] = "live"}' = {d \in Chats : status[d] = "live"}
    BY <2>1 DEF TypeOK
  <2> QED
    BY <2>1, <2>2 DEF T!vars
<1>2. CASE ~\E r \in Requests : ArriveCreate(r)
  <2>1. UNCHANGED <<status, owner, messages>>
    BY <1>2, ZenonT(60) DEF Next, Serve, Client, vars, rows, ArriveAsk, ArriveDelete, Accept,
                Connect, PoolTimeout, GetChat, AppendQuestion, LookUp, ServeHit, Checkpoint,
                FinishRun, FailRun, PersistAnswer, StoreAnswer, SendDone, Disconnect,
                ScanEmpty, SweepRow, InsertChat, RemoveChat, LoseConnection,
                FailStatement, Crash, Expire, Rollback
  <2> QED
    BY <2>1 DEF T!vars
<1> QED
  BY <1>1, <1>2

\* Every behaviour of the endpoints is one Transcripts allows: the whole protocol
\* of locks, sweeps, faults and disconnects is invisible in the committed rows.
THEOREM Implementation == Spec => ImplementsTranscripts
<1>1. Init => T!Init
  BY DEF Init, T!Init
<1>2. IInv /\ [Next]_vars => [T!Next]_(T!vars)
  <2> SUFFICES ASSUME IInv, [Next]_vars PROVE T!Next \/ UNCHANGED T!vars
    OBVIOUS
  <2>1. ASSUME NEW r \in Requests, Commit(r) PROVE T!Next \/ UNCHANGED T!vars
    <3>1. req[r].op \in {"ask", "create", "delete"}
      BY <2>1, RequestType DEF IInv, TypeInv, Commit, Ended
    <3> QED
      BY <2>1, <3>1, AskCommitMaps, CreateCommitMaps, DeleteCommitMaps
  <2> QED
    BY <2>1, OtherStepsStutter DEF IInv, TypeInv
<1> QED
  BY <1>1, <1>2, Inductive, PTL DEF Spec, T!Spec, ImplementsTranscripts

\* Question and answer are two UPDATEs with a language model's run between
\* them, and yet no transcript ever parts them or holds a message twice.
THEOREM WholeTurnsStay == Spec => []TurnsAreWhole
  BY Implementation, T!TranscriptsAreWhole, PTL
  DEF ImplementsTranscripts, TurnsAreWhole, T!TranscriptsOfWholeTurns

-----------------------------------------------------------------------------
(* Nobody waits in a circle.                                               *)

\* A sweep holds only rows that come before those it has yet to visit.
SweepInv ==
    \A r \in Requests : pc[r] = "sweep" =>
        \A c \in doomed[r], d \in scan[r] : c < d

LEMMA SweepStep ==
    ASSUME IInv, SweepInv, [Next]_vars
    PROVE  SweepInv'
<1> DEFINE Elsewhere == {"queued", "begin", "append", "lookup", "hit", "stream", "persist",
                         "store", "done", "remove", "commit", "committed", "failed"}
<1> SUFFICES ASSUME NEW r \in Requests, pc'[r] = "sweep",
                    NEW c \in doomed'[r], NEW d \in scan'[r]
             PROVE  c < d
  BY DEF SweepInv
<1>1. Shape /\ DoomInv
  BY ShapeHolds DEF IInv, TypeInv, Locking
<1> USE DEF GoTo, Busy, Ended, AtStatement
<1>2. CASE pc[r] = "sweep" /\ c \in doomed[r] /\ d \in scan[r]
  BY <1>2 DEF SweepInv
<1>3. ASSUME NEW s \in Requests, SweepRow(s)
      PROVE  c < d
  <2>1. PICK e \in scan[s] :
           /\ \A f \in scan[s] : e <= f
           /\ scan' = [scan EXCEPT ![s] = @ \ {e}]
           /\ doomed' = doomed \/ doomed' = [doomed EXCEPT ![s] = @ \cup {e}]
           /\ pc' = pc
    BY <1>3 DEF SweepRow
  <2>2. CASE c \in doomed[r]
    <3>1. d \in scan[r]
      BY <1>1, <2>1 DEF Shape
    <3> QED
      BY <1>2, <2>1, <2>2, <3>1
  <2>3. CASE c \notin doomed[r]
    <3>1. s = r /\ c = e /\ d \in scan[r] /\ d # e
      BY <1>1, <2>1, <2>3 DEF Shape
    <3>2. c <= d /\ c \in Nat /\ d \in Nat
      BY <1>1, <2>1, <3>1, ChatsAreOrdered DEF Shape
    <3> QED
      BY <3>1, <3>2
  <2> QED
    BY <2>2, <2>3
<1>4. ASSUME NEW s \in Requests, ScanEmpty(s)
      PROVE  c < d
  <2>1. pc[s] = "begin" /\ doomed' = doomed /\ pc' = [pc EXCEPT ![s] = "sweep"]
        /\ \A q \in Requests \ {s} : scan'[q] = scan[q]
    BY <1>1, <1>4 DEF ScanEmpty, Shape
  <2>2. s # r
    BY <1>1, <2>1 DEF DoomInv
  <2> QED
    BY <1>1, <1>2, <2>1, <2>2 DEF Shape
<1>5. ASSUME NEW R, Release(R)
      PROVE  r \notin R /\ doomed'[r] = doomed[r] /\ scan'[r] = scan[r]
  BY <1>5 DEF Release
<1>6. ASSUME NEW s \in Requests, Serve(s) \/ Client(s) \/ LoseConnection(s),
             ~SweepRow(s), ~ScanEmpty(s)
      PROVE  /\ pc[r] = "sweep"
             /\ \/ doomed'[r] = doomed[r] /\ scan'[r] = scan[r]
                \/ Release({s})
  <2>1. /\ \/ pc' = pc
           \/ \E label \in Elsewhere : pc' = [pc EXCEPT ![s] = label]
        /\ \/ UNCHANGED <<doomed, scan>> \/ Release({s})
           \/ /\ pc' = [pc EXCEPT ![s] = "commit"]
              /\ \E D : doomed' = [doomed EXCEPT ![s] = D]
              /\ UNCHANGED scan
    <3>1. CASE GetChat(s) \/ AppendQuestion(s) \/ Disconnect(s) \/ FailStatement(s)
      <4>1. CASE Rollback(s)
        BY <4>1 DEF Rollback
      <4>2. CASE ~Rollback(s)
        <5>1. UNCHANGED <<doomed, scan>>
          BY <3>1, <4>2 DEF GetChat, AppendQuestion, Disconnect, FailStatement, transaction
        <5>2. \E label \in {"append", "remove", "lookup", "commit"} :
                 pc' = [pc EXCEPT ![s] = label]
          BY <3>1, <4>2 DEF GetChat, AppendQuestion, Disconnect, FailStatement
        <5> QED
          BY <5>1, <5>2
      <4> QED
        BY <4>1, <4>2
    <3>2. CASE LookUp(s) \/ ServeHit(s) \/ Checkpoint(s) \/ FinishRun(s) \/ FailRun(s)
               \/ PersistAnswer(s) \/ StoreAnswer(s) \/ SendDone(s) \/ InsertChat(s)
               \/ Connect(s) \/ PoolTimeout(s)
      <4>1. UNCHANGED <<doomed, scan>>
        BY <3>2 DEF LookUp, ServeHit, Checkpoint, FinishRun, FailRun, PersistAnswer,
              StoreAnswer, SendDone, InsertChat, Connect, PoolTimeout, AppendAssistant,
              transaction
      <4>2. \/ pc' = pc
            \/ \E label \in {"begin", "failed", "hit", "stream", "commit", "persist",
                             "store", "done"} : pc' = [pc EXCEPT ![s] = label]
        BY <3>2 DEF LookUp, ServeHit, Checkpoint, FinishRun, FailRun, PersistAnswer,
              StoreAnswer, SendDone, InsertChat, Connect, PoolTimeout
      <4> QED
        BY <4>1, <4>2
    <3>3. CASE RemoveChat(s)
      <4>1. pc' = [pc EXCEPT ![s] = "commit"] /\ UNCHANGED scan
        BY <3>3 DEF RemoveChat
      <4>2. UNCHANGED doomed \/ \E D : doomed' = [doomed EXCEPT ![s] = D]
        BY <3>3 DEF RemoveChat
      <4> QED
        BY <4>1, <4>2
    <3>4. CASE Commit(s)
      BY <3>4 DEF Commit
    <3>5. CASE LoseConnection(s)
      BY <3>5 DEF LoseConnection
    <3>6. CASE ArriveAsk(s) \/ ArriveCreate(s) \/ ArriveDelete(s)
      BY <3>6 DEF ArriveAsk, ArriveCreate, ArriveDelete, Accept, transaction
    <3> QED
      BY <1>6, <3>1, <3>2, <3>3, <3>4, <3>5, <3>6 DEF Serve, Client
  <2> QED
    BY <1>1, <2>1 DEF Shape
<1>7. ASSUME NEW s \in Requests, Serve(s) \/ Client(s) \/ LoseConnection(s)
      PROVE  c < d
  BY <1>2, <1>3, <1>4, <1>5, <1>6, <1>7
<1>8. CASE Crash
  <2>1. Release(Busy)
    BY <1>8 DEF Crash
  <2>2. r \notin Busy
    BY <1>5, <2>1
  <2>3. pc'[r] = pc[r]
    BY <1>8, <2>2 DEF Crash
  <2> QED
    BY <2>2, <2>3
<1>9. CASE UNCHANGED vars \/ \E t \in Texts : Expire(t)
  BY <1>2, <1>9 DEF vars, Expire, transaction
<1> QED
  BY <1>7, <1>8, <1>9 DEF Next

\* Some numbers have a least.
LEMMA SomeIsLeast ==
    ASSUME NEW S \in SUBSET Nat, S # {}
    PROVE  \E i \in S : \A j \in S : i <= j
<1>1. PICK R : R = OpToRel(<, Nat)
  OBVIOUS
<1>2. IsWellFoundedOn(R, Nat) /\ R = {ss \in Nat \X Nat : ss[1] < ss[2]}
  BY <1>1, NatLessThanWellFounded DEF OpToRel
<1>3. PICK i \in S : \A j \in S : ~(<<j, i>> \in R)
  BY <1>2, WFMin, Zenon
<1>4. \A j \in S : ~(j < i)
  BY <1>2, <1>3
<1> QED
  BY <1>4

\* Whoever waits for a waiter wants an earlier row than that one does.
LEMMA WaitersWantLaterRows ==
    ASSUME IInv, SweepInv, NEW r \in Requests, NEW s \in Requests, NEW t \in Requests,
           WaitsFor(r, s), WaitsFor(s, t)
    PROVE  \A c, d \in Chats : Wants(r, c) /\ Wants(s, d) => c < d
<1>1. Shape /\ LockInv /\ DoomInv /\ KindInv
  BY ShapeHolds DEF IInv, TypeInv, Locking
<1>2. PICK e \in Chats : Wants(r, e) /\ lock[e] = s
  BY DEF WaitsFor
<1>3. pc[s] \in {"append", "remove", "sweep"}
  BY DEF WaitsFor, Wants
<1>4. e \in doomed[s] /\ pc[s] = "sweep"
  <2>1. e \in doomed[s]
    BY <1>1, <1>2, <1>3, SentinelsAreDistinct DEF LockInv, AfterAppend
  <2>2. \/ pc[s] = "sweep"
        \/ req[s].op = "delete" /\ pc[s] = "commit"
    BY <1>1, <1>3, <2>1 DEF DoomInv
  <2> QED
    BY <1>3, <2>1, <2>2
<1> SUFFICES ASSUME NEW c \in Chats, NEW d \in Chats, Wants(r, c), Wants(s, d)
             PROVE  c < d
  OBVIOUS
<1>5. c = e
  BY <1>2, ChatsAreOrdered DEF Wants
<1>6. d \in scan[s]
  BY <1>4 DEF Wants
<1> QED
  BY <1>4, <1>5, <1>6 DEF SweepInv

\* Among the waiters of a circle of the fewest, one wants the first row: nobody
\* waits for it, and the circle closes without it.
LEMMA NoCircle == IInv /\ SweepInv => NoDeadlock
<1> DEFINE Circle(X) == /\ X \in SUBSET Requests /\ X # {} /\ IsFiniteSet(X)
                        /\ \A r \in X : \E s \in X : WaitsFor(r, s)
           Sizes == {n \in Nat : \E X : Circle(X) /\ n = Cardinality(X)}
<1> SUFFICES ASSUME IInv, SweepInv, NEW S, Circle(S) PROVE FALSE
  BY DEF NoDeadlock
<1>1. Sizes # {}
  <2>1. Cardinality(S) \in Nat
    BY FS_CardinalityType
  <2> QED
    BY <2>1
<1>2. PICK n \in Sizes : \A m \in Sizes : n <= m
  BY <1>1, SomeIsLeast
<1>3. PICK X : Circle(X) /\ n = Cardinality(X)
  OBVIOUS
<1> DEFINE Rows == {c \in Chats : \E r \in X : Wants(r, c)}
<1> HIDE DEF Sizes
<1>4. Rows # {} /\ Rows \in SUBSET Nat
  BY <1>3, ChatsAreOrdered DEF WaitsFor
<1>5. PICK c \in Rows : \A d \in Rows : c <= d
  BY <1>4, SomeIsLeast
<1>6. PICK r \in X : Wants(r, c)
  OBVIOUS
<1>7. \A t \in X : ~WaitsFor(t, r)
  <2> SUFFICES ASSUME NEW t \in X, WaitsFor(t, r) PROVE FALSE
    OBVIOUS
  <2>1. PICK b \in Chats : Wants(t, b)
    BY DEF WaitsFor
  <2>2. PICK s \in X : WaitsFor(r, s)
    BY <1>3
  <2>3. b < c
    BY <1>3, <1>6, <2>1, <2>2, WaitersWantLaterRows
  <2>4. c <= b
    BY <1>5, <2>1
  <2> QED
    BY <1>4, <1>5, <2>1, <2>3, <2>4, ChatsAreOrdered
<1>8. Circle(X \ {r})
  <2>1. \A t \in X \ {r} : \E s \in X \ {r} : WaitsFor(t, s)
    BY <1>3, <1>7
  <2>2. X \ {r} # {}
    BY <1>3, <1>7
  <2>3. IsFiniteSet(X \ {r})
    BY <1>3, FS_RemoveElement
  <2> QED
    BY <1>3, <2>1, <2>2, <2>3
<1>9. Cardinality(X \ {r}) = n - 1 /\ n \in Nat /\ Cardinality(X \ {r}) \in Nat
  <2>1. n \in Nat
    BY <1>2 DEF Sizes
  <2>2. Cardinality(X \ {r}) = n - 1
    BY <1>3, FS_RemoveElement
  <2>3. Cardinality(X \ {r}) \in Nat
    BY <1>8, FS_CardinalityType
  <2> QED
    BY <2>1, <2>2, <2>3
<1>10. n - 1 \in Sizes
  BY <1>8, <1>9 DEF Sizes
<1> QED
  BY <1>2, <1>9, <1>10

\* Whatever sweeps, asks and deletes meet on whatever rows, Postgres never finds
\* them waiting in a circle.
THEOREM DeadlockFree == Spec => []NoDeadlock
<1>1. Init => SweepInv
  BY DEF Init, SweepInv
<1> QED
  BY <1>1, SweepStep, NoCircle, Inductive, PTL DEF Spec

=============================================================================
