---------------------------- MODULE ServiceProofs ----------------------------
(***************************************************************************)
(* The promises of the service that hold for every number of clients,      *)
(* chats, people, processes and failures.  SInv is the inductive           *)
(* invariant, one conjunct for each part of the state.                     *)
(***************************************************************************)
EXTENDS ServiceProperties, SequenceTheorems, FiniteSetTheorems, TLAPS

\* The phases in which a client has been closed.
Closing == {"close_cache", "close_search", "close_langfuse", "close_stack", "close_database"}
CacheClosed == {"close_search", "close_langfuse", "close_stack", "close_database", "stopped"}
SearchClosed == CacheClosed \ {"close_search"}
LangfuseClosed == SearchClosed \ {"close_langfuse"}
StackClosed == LangfuseClosed \ {"close_stack"}

\* The clients closed so far were opened with their attribute: the tracing
\* client's is set before it is made.  One without its attribute stays open.
LifeInv ==
    /\ phase \in Startup \cup Closing \cup {"down", "serving", "stopped"}
    /\ boots \in Seq(Pipelines)
    /\ settings \in Pipelines \cup {NoPipeline}
    /\ phase # "down" => settings \in Pipelines
    /\ app \subseteq Attributes /\ opened \subseteq Clients
    /\ opened \cap {"db", "langfuse"} \subseteq app
    /\ phase \in {"search", "reranker", "checkpointer", "graph"} => "langfuse" \in app
    /\ phase \in CacheClosed => "cache" \notin opened \cap app
    /\ phase \in SearchClosed => "search" \notin opened \cap app
    /\ phase \in LangfuseClosed => "langfuse" \notin opened
    /\ phase \in StackClosed => "checkpointer" \notin opened
    /\ phase = "stopped" => "db" \notin opened

\* The phases before the model is loaded.
Unloaded == {"down", "database", "cache", "models", "search", "reranker"}
Reranking == {a \in Asks : At(a, "reranking")}

\* Only a search that found no model loads one, and only a serving process
\* searches.  A thread that loads for nobody is a cancelled ask's.
ModelInv ==
    /\ model \in Asks \cup {"warmup", NoModel}
    /\ waiting \subseteq Reranking /\ holder \in Reranking \cup {NoModel}
    /\ holder \notin waiting
    /\ holder # NoModel => model = NoModel
    /\ phase # "serving" => \A a \in Asks : ~InFlight(a)
    /\ phase \in Unloaded => model = NoModel
    /\ abandoned \in Nat
    /\ abandoned <= Cardinality({a \in Asks : At(a, "raise")})

\* What an ask may have for an answer, and a transcript for a turn.
AskTexts == Asks \cup {"blank", "unanswered"}
Turns == [ask : Asks, text : AskTexts]
Pcs == {"idle", "arrived", "refused", "asked", "hit", "running", "reranking", "writing",
        "committing", "done", "broken", "cut", "error", "raise", "json"}
AskStates == [pc : Pcs, chat : Chats \cup {Elsewhere}, question : Questions, text : AskTexts]

IsWritten(b) == \E c \in Chats : \E j \in DOMAIN written[c] : written[c][j] = b

\* An answer that was sent to its end is written.
AskInv ==
    /\ ask \in [Asks -> AskStates]
    /\ written \in [Chats -> Seq(Turns)]
    /\ \A a \in Asks : At(a, "hit") => ask[a].text \in Asks
    /\ \A a \in Asks :
          At(a, "done") /\ ask[a].text \in Asks /\ ask[a].chat \in Chats
              => IsWritten(Bubble(a, ask[a].text))

\* An entry is under the key of its ask's question and its writer's settings.
EntryInv ==
    \A key \in DOMAIN entries :
        /\ entries[key] \in [ask : Asks, pipeline : Pipelines]
        /\ ~At(entries[key].ask, "idle")
        /\ key = Key(ask[entries[key].ask].question, entries[key].pipeline)

\* Bubbles that keep the promise ShownAnswersAreWritten whatever comes.
Settled(b) ==
    /\ b \in Bubbles
    /\ b.text \in Asks => IsWritten(b)
    /\ b.text = "part" => At(b.ask, "broken") \/ b.ask \in unfinished
AllSettled(bubbles) ==
    bubbles \in Seq(Bubbles) /\ \A i \in DOMAIN bubbles : Settled(bubbles[i])

\* The part of an answer that send has shown so far.
BeingShown(b) ==
    b.text = "part" /\ sending # NoSend /\ b.ask = sending.ask /\ ~At(b.ask, "idle")
ShownInv ==
    shown \in Seq(Bubbles) /\ \A i \in DOMAIN shown : Settled(shown[i]) \/ BeingShown(shown[i])

\* The handler asks in the chat it has for the question, and shows tokens of a
\* reply that has them.
HasTokens(a) == Whole(a) \/ At(a, "broken") \/ At(a, "cut")
SendingInv ==
    sending # NoSend =>
        /\ sending \in Sends
        /\ AllSettled(sending.thread)
        /\ ~At(sending.ask, "idle") =>
              sending.chat \in Chats /\ ask[sending.ask].chat = sending.chat
        /\ sending.seen \in Asks => IsWritten(Bubble(sending.ask, sending.seen))
        /\ sending.seen = "part" => HasTokens(sending.ask)

\* The event that waits for it has a question of its own, and bubbles that the
\* handler no longer changes.
QueuedInv ==
    queued # <<>> =>
        /\ sending # NoSend
        /\ queued[1] \in Sends /\ queued[1].seen = "blank"
        /\ AllSettled(queued[1].thread)
        /\ At(queued[1].ask, "idle") /\ queued[1].ask # sending.ask

\* Whatever a handler is about to show, it got from a transcript or from a
\* reply to an ask in a chat of the page.
PageInv ==
    /\ token \in {"none", "valid", "expired"} /\ value \in Chats \cup {NoChat}
    /\ choices \subseteq Chats
    /\ ShownInv
    /\ reading # <<>> => AllSettled(reading[1])
    /\ clicked # <<>> =>
          clicked[1].value \in Chats \cup {NoChat} /\ clicked[1].choices \subseteq Chats
    /\ SendingInv /\ QueuedInv

\* Of the requests for a free name one may be inserted.
AccountInv ==
    /\ registering \in [People -> [at : {"none", "found free", "inserted"},
                                  name : Names \cup {NoName}]]
    /\ OneAccountPerName
    /\ \A p \in People : registering[p].at = "inserted" =>
          /\ \A u \in users : u.name # registering[p].name
          /\ \A q \in People :
                registering[q].at = "inserted" /\ registering[q].name = registering[p].name
                    => p = q

SInv == LifeInv /\ ModelInv /\ AskInv /\ EntryInv /\ PageInv /\ AccountInv

-----------------------------------------------------------------------------
(* Accounts *)

\* What happens to requests and accounts in a step.
AccountSteps ==
    \/ UNCHANGED accountVars
    \/ registering' = [p \in People |-> NoRequest] /\ UNCHANGED users
    \/ \E p \in People, n \in Names :
          BeginRegister(p, n) \/ InsertUser(p, n) \/ CommitUser(p, n) \/ DropRegister(p)

\* Only a registration, and the end of a process, touch the accounts' state.
LEMMA AccountsMove ==
    ASSUME [Next]_vars
    PROVE  AccountSteps
<1>1. CASE Life
  BY <1>1 DEF Life, Forget, AccountSteps, accountVars
<1>2. CASE Fault
  BY <1>2 DEF Fault, Forget, AccountSteps, accountVars
<1>3. CASE Asking
  BY <1>3 DEF Asking, AccountSteps, accountVars
<1>4. CASE Page
  BY <1>4 DEF Page, AccountSteps, accountVars
<1>5. CASE Accounting
  BY <1>5 DEF Accounting, AccountSteps
<1>6. CASE UNCHANGED vars
  BY <1>6 DEF vars, AccountSteps, accountVars
<1> QED
  BY <1>1, <1>2, <1>3, <1>4, <1>5, <1>6 DEF Next

\* An insert waits for the transaction of another one of its name, and fails
\* when that committed: so a name has one account, or one insert and none.
LEMMA AccountsStep ==
    ASSUME AccountInv, [Next]_vars
    PROVE  AccountInv'
<1> USE DEF AccountInv, OneAccountPerName, Taken
<1>1. CASE UNCHANGED accountVars
  BY <1>1 DEF accountVars
<1>2. CASE registering' = [p \in People |-> NoRequest] /\ UNCHANGED users
  BY <1>2 DEF NoRequest
<1>3. ASSUME NEW p \in People, NEW n \in Names, BeginRegister(p, n)
      PROVE  AccountInv'
  BY <1>3 DEF BeginRegister
<1>4. ASSUME NEW p \in People, NEW n \in Names, InsertUser(p, n)
      PROVE  AccountInv'
  <2>1. CASE \E u \in users : u.name = n
    <3>1. registering' = [registering EXCEPT ![p] = NoRequest] /\ users' = users
      BY <1>4, <2>1 DEF InsertUser, EndRequest
    <3> QED
      BY <3>1 DEF NoRequest
  <2>2. CASE \A u \in users : u.name # n
    <3>1. registering' = [registering EXCEPT ![p].at = "inserted"] /\ users' = users
      BY <1>4, <2>2 DEF InsertUser
    <3>2. registering[p].name = n
      <4>1. PICK r : r = registering[p]
        OBVIOUS
      <4>2. r = [at |-> "found free", name |-> n]
        BY <1>4, <4>1, Zenon DEF InsertUser, Requests
      <4>3. r.name = n
        BY <4>2, Zenon
      <4> QED
        BY <4>1, <4>3
    <3>3. \A q \in People : ~(registering[q].at = "inserted" /\ registering[q].name = n)
      BY <1>4 DEF InsertUser, Requests
    <3>4. registering' \in [People -> [at : {"none", "found free", "inserted"},
                                       name : Names \cup {NoName}]]
      BY <3>1
    <3>5. OneAccountPerName'
      BY <3>1
    <3>6. /\ registering'[p].at = "inserted" /\ registering'[p].name = n
          /\ \A q \in People \ {p} : registering'[q] = registering[q]
      BY <3>1, <3>2
    <3>7. ASSUME NEW q \in People, registering'[q].at = "inserted"
          PROVE  /\ \A u \in users : u.name # registering'[q].name
                 /\ \A r \in People : /\ registering'[r].at = "inserted"
                                      /\ registering'[r].name = registering'[q].name
                                      => q = r
      <4>1. CASE q = p
        BY <2>2, <3>3, <3>6, <4>1
      <4>2. CASE q # p
        BY <3>3, <3>6, <3>7, <4>2, ZenonT(60)
      <4> QED
        BY <4>1, <4>2
    <3> QED
      BY <3>1, <3>4, <3>5, <3>7
  <2> QED
    BY <2>1, <2>2
<1>5. ASSUME NEW p \in People, NEW n \in Names, CommitUser(p, n)
      PROVE  AccountInv'
  <2>1. registering' = [registering EXCEPT ![p] = NoRequest]
    BY <1>5 DEF CommitUser, EndRequest
  <2>2. registering[p].at = "inserted" /\ registering[p].name = n
    <3>1. PICK r : r = registering[p]
      OBVIOUS
    <3>2. r = [at |-> "inserted", name |-> n]
      BY <1>5, <3>1, Zenon DEF CommitUser, Requests
    <3>3. r.at = "inserted" /\ r.name = n
      BY <3>2, Zenon
    <3> QED
      BY <3>1, <3>3
  <2>3. PICK u : u = Account(n, p)
    OBVIOUS
  <2>4. users' = users \cup {u} /\ u.name = n
    BY <1>5, <2>3 DEF CommitUser, Account
  <2>5. \A v \in users : v.name # n
    BY <2>2
  <2>6. OneAccountPerName'
    BY <2>4, <2>5
  <2>7. \A q \in People : q # p /\ registering[q].at = "inserted" => registering[q].name # n
    BY <2>2
  <2> QED
    BY <2>1, <2>4, <2>6, <2>7 DEF NoRequest
<1>6. ASSUME NEW p \in People, NEW n \in Names, DropRegister(p)
      PROVE  AccountInv'
  BY <1>6 DEF DropRegister, EndRequest, NoRequest
<1> QED
  BY AccountsMove, <1>1, <1>2, <1>3, <1>4, <1>5, <1>6 DEF AccountSteps

-----------------------------------------------------------------------------
(* The life of a process *)

\* What becomes of it in a step.
LifeMoves ==
    \/ UNCHANGED <<phase, settings, app, opened, boots>>
    \/ StartProcess \/ LifeStep \/ Kill
    \/ BeginShutdown(Drained)

\* Only the lifespan and a kill change the process.
LEMMA LifeGoesOn ==
    ASSUME [Next]_vars
    PROVE  LifeMoves
<1>1. CASE Life
  BY <1>1 DEF Life, LifeMoves
<1>2. CASE Fault
  BY <1>2 DEF Fault, LifeMoves
<1>3. CASE Asking
  BY <1>3 DEF Asking, LifeMoves, lifeVars
<1>4. CASE Page
  BY <1>4 DEF Page, LifeMoves, lifeVars
<1>5. CASE Accounting
  BY <1>5 DEF Accounting, LifeMoves, lifeVars
<1>6. CASE UNCHANGED vars
  BY <1>6 DEF vars, lifeVars, LifeMoves
<1> QED
  BY <1>1, <1>2, <1>3, <1>4, <1>5, <1>6 DEF Next

\* A process that is gone has nothing open.
LEMMA ExitForgets ==
    ASSUME LifeInv, Exit
    PROVE  LifeInv'
BY DEF LifeInv, Exit, Startup, CacheClosed, SearchClosed, LangfuseClosed, StackClosed

\* Startup sets an attribute with the client it opens; shutdown closes the
\* clients one by one, each by its attribute or through the exit stack.
LEMMA LifeKeepsInv ==
    ASSUME LifeInv, [Next]_vars
    PROVE  LifeInv'
<1> USE DEF Startup, Closing, CacheClosed, SearchClosed, LangfuseClosed, StackClosed
<1>1. CASE UNCHANGED <<phase, settings, app, opened, boots>>
  BY <1>1 DEF LifeInv
<1>2. CASE StartProcess
  <2>1. Head(boots) \in Pipelines /\ Tail(boots) \in Seq(Pipelines)
    BY <1>2, HeadTailProperties DEF LifeInv, StartProcess
  <2> QED
    BY <1>2, <2>1 DEF LifeInv, StartProcess
<1>3. CASE BeginShutdown(Drained)
  BY <1>3 DEF LifeInv, BeginShutdown
<1>4. CASE Kill
  BY <1>4, ExitForgets DEF Kill
<1>5. CASE LeaveProcess
  BY <1>5, ExitForgets DEF LeaveProcess
<1> USE DEF Sets, Fails, Becomes, Attributes, Llms, Clients
<1>6. CASE StartDatabase
  <2>1. CASE Exit
    BY <2>1, ExitForgets
  <2>2. CASE Sets({"db"}, {"db"}, "cache")
    BY <1>6, <2>2 DEF LifeInv, StartDatabase
  <2> QED
    BY <1>6, <2>1, <2>2 DEF StartDatabase
<1>7. CASE StartCache
  BY <1>7 DEF LifeInv, StartCache
<1>8. CASE CreateModels
  <2>1. settings.remote \subseteq {"embedder"}
    BY <1>8, PipelinesAreSettings DEF LifeInv, CreateModels, Embedders
  <2> QED
    BY <1>8, <2>1 DEF LifeInv, CreateModels
<1>9. CASE StartSearch
  BY <1>9 DEF LifeInv, StartSearch
<1>10. CASE StartReranker
  BY <1>10 DEF LifeInv, StartReranker
<1>11. CASE StartCheckpointer
  BY <1>11 DEF LifeInv, StartCheckpointer
<1>12. CASE BuildGraph
  <2>1. settings.tracing \subseteq {"langfuse"}
    BY <1>12, PipelinesAreSettings DEF LifeInv, BuildGraph, Tracers
  <2> QED
    BY <1>12, <2>1 DEF LifeInv, BuildGraph
<1>13. CASE Close
  <2>1. CASE Exit
    BY <2>1, ExitForgets
  <2>2. CASE ~Exit
    <3>1. phase \in Closing
      BY <1>13 DEF Close, Closes
    <3>2. opened' = (IF Closes[phase] \in app \cup {"checkpointer"}
                     THEN opened \ {Closes[phase]} ELSE opened)
          /\ phase' = After[phase] /\ UNCHANGED <<settings, app, boots>>
      BY <1>13, <2>2 DEF Close
    <3>3. CASE phase = "close_cache"
      BY <3>2, <3>3 DEF LifeInv, Closes, After
    <3>4. CASE phase = "close_search"
      BY <3>2, <3>4 DEF LifeInv, Closes, After
    <3>5. CASE phase = "close_langfuse"
      BY <3>2, <3>5 DEF LifeInv, Closes, After
    <3>6. CASE phase = "close_stack"
      BY <3>2, <3>6 DEF LifeInv, Closes, After
    <3>7. CASE phase = "close_database"
      BY <3>2, <3>7 DEF LifeInv, Closes, After
    <3> QED
      BY <3>1, <3>3, <3>4, <3>5, <3>6, <3>7
  <2> QED
    BY <2>1, <2>2
<1> QED
  BY LifeGoesOn, <1>1, <1>2, <1>3, <1>4, <1>5, <1>6, <1>7, <1>8, <1>9, <1>10, <1>11,
     <1>12, <1>13 DEF LifeMoves, LifeStep

-----------------------------------------------------------------------------
(* Asks and their turns *)

\* The turn of a is written with this text, if its chat is one of the page's.
Writes(a, text) ==
    written' = IF ask[a].chat \in Chats
               THEN [written EXCEPT ![ask[a].chat] = Append(@, [ask |-> a, text |-> text])]
               ELSE written

\* An ask in flight goes on; it is done when its turn is written.
GoesOn(a, pc, text) ==
    /\ InFlight(a)
    /\ Goes(a, pc, text)
    /\ pc = "hit" => text \in Asks
    /\ Writes(a, text) \/ (pc # "done" /\ written' = written)

\* An ask is sent, the page's in the chat the handler has for it.
IsSent(a, chat, question) ==
    /\ At(a, "idle")
    /\ ask' = [ask EXCEPT ![a] = [pc |-> "arrived", chat |-> chat,
                                  question |-> question, text |-> "blank"]]
    /\ OfPage(a) => /\ sending # NoSend /\ a = sending.ask
                    /\ chat = sending.chat /\ chat \in Chats
    /\ written' = written

AllLost ==
    /\ ask' = [a \in Asks |-> IF InFlight(a) THEN [ask[a] EXCEPT !.pc = "raise"] ELSE ask[a]]
    /\ written' = written

AskMoves ==
    \/ UNCHANGED <<ask, written>>
    \/ \E a \in Asks, pc \in Pcs \ {"idle"}, text \in AskTexts : GoesOn(a, pc, text)
    \/ \E a \in Asks, chat \in Chats \cup {Elsewhere}, q \in Questions : IsSent(a, chat, q)
    \/ AllLost

\* A step of the endpoint moves its own ask, and ends it with its turn.
LEMMA AskStepGoesOn ==
    ASSUME AskInv, EntryInv, NEW a \in Asks, NEW authorised \in BOOLEAN, AskStep(a, authorised)
    PROVE  \/ UNCHANGED <<ask, written>>
           \/ \E pc \in Pcs \ {"idle"}, text \in AskTexts : GoesOn(a, pc, text)
<1> USE DEF Pcs, AskTexts, GoesOn, Writes, InFlight, At
<1>0. ask[a].text \in AskTexts
  BY DEF AskInv, AskStates
<1>1. CASE Admit(a, authorised)
  BY <1>1 DEF Admit
<1>2. CASE LookUp(a)
  <2>1. CASE Goes(a, "running", "blank")
    BY <1>2, <2>1 DEF LookUp
  <2>2. CASE /\ IsCached(ask[a].question, settings)
             /\ Goes(a, "hit", Cached(ask[a].question, settings).ask)
    <3>1. Cached(ask[a].question, settings).ask \in Asks
      BY <2>2 DEF EntryInv, IsCached, Cached
    <3> QED
      BY <1>2, <2>2, <3>1 DEF LookUp
  <2> QED
    BY <1>2, <2>1, <2>2 DEF LookUp
<1>3. CASE ServeHit(a)
  BY <1>0, <1>3 DEF ServeHit, Write, RollBack
<1>4. CASE RefuseTopic(a)
  BY <1>4 DEF RefuseTopic
<1>5. CASE Search(a)
  <2>1. InFlight(a) /\ written' = written
    BY <1>5 DEF Search
  <2>2. Goes(a, "reranking", "blank") \/ Goes(a, "writing", "blank")
    BY <1>5 DEF Search
  <2> QED
    BY <2>1, <2>2
<1>6. CASE Rerank(a)
  BY <1>6 DEF Rerank
<1>7. CASE Fail(a)
  BY <1>7 DEF Fail, Write, RollBack
<1>8. CASE Answer(a)
  BY <1>8 DEF Answer
<1>9. CASE Commit(a)
  BY <1>0, <1>9 DEF Commit, Write, RollBack
<1> QED
  BY <1>1, <1>2, <1>3, <1>4, <1>5, <1>6, <1>7, <1>8, <1>9 DEF AskStep

\* Nothing else moves asks but the page, another client and the end of a process.
LEMMA AsksMove ==
    ASSUME AskInv, EntryInv, PageInv, [Next]_vars
    PROVE  AskMoves
<1>1. CASE Life
  <2>1. CASE LifeStep /\ Forget
    BY <2>1 DEF Forget, AskMoves, AllLost
  <2>2. CASE UNCHANGED apiVars
    BY <2>2 DEF apiVars, AskMoves
  <2> QED
    BY <1>1, <2>1, <2>2 DEF Life
<1>2. CASE Fault
  <2>1. CASE Kill /\ Forget
    BY <2>1 DEF Forget, AskMoves, AllLost
  <2>2. CASE UNCHANGED apiVars
    BY <2>2 DEF apiVars, AskMoves
  <2>3. ASSUME NEW a \in Asks, Cancel(a)
        PROVE  AskMoves
    <3>1. GoesOn(a, "raise", "blank")
      BY <2>3 DEF Cancel, RollBack, GoesOn
    <3>2. "raise" \in Pcs \ {"idle"} /\ "blank" \in AskTexts
      BY DEF Pcs, AskTexts
    <3> QED
      BY <3>1, <3>2 DEF AskMoves
  <2> QED
    BY <1>2, <2>1, <2>2, <2>3 DEF Fault
<1>3. CASE Asking
  <2>1. ASSUME NEW a \in Asks, AskStep(a, Authorised(a))
        PROVE  AskMoves
    <3>1. PICK authorised \in BOOLEAN : authorised = Authorised(a)
      BY DEF Authorised
    <3> QED
      BY <2>1, <3>1, AskStepGoesOn DEF AskMoves
  <2>2. ASSUME NEW a \in Asks, NEW q \in Questions, ~OfPage(a), Arrive(a, Elsewhere, q)
        PROVE  AskMoves
    <3>1. IsSent(a, Elsewhere, q)
      BY <2>2 DEF Arrive, IsSent
    <3> QED
      BY <3>1 DEF AskMoves
  <2>3. CASE UNCHANGED apiVars
    BY <2>3 DEF apiVars, AskMoves
  <2> QED
    BY <1>3, <2>1, <2>2, <2>3 DEF Asking
<1>4. CASE Page
  <2>1. CASE ShowQuestion
    <3>1. PICK s \in Sends : s = sending
      BY <2>1 DEF ShowQuestion, Starting, PageInv, SendingInv
    <3>2. s.ask \in Asks /\ s.chat \in Chats /\ s.question \in Questions
      BY <2>1, <3>1 DEF ShowQuestion, Starting, Sends
    <3>3. /\ sending # NoSend
          /\ Arrive(s.ask, s.chat, s.question)
      BY <2>1, <3>1 DEF ShowQuestion, Starting
    <3>4. IsSent(s.ask, s.chat, s.question)
      BY <3>1, <3>2, <3>3 DEF Arrive, IsSent
    <3> QED
      BY <3>2, <3>4 DEF AskMoves
  <2>2. CASE UNCHANGED <<ask, written>>
    BY <2>2 DEF AskMoves
  <2>3. PageStep \/ Click
    BY <1>4 DEF Page
  <2>4. PageStep => ShowQuestion \/ UNCHANGED <<ask, written>>
    BY DEF PageStep, ReadChat, ShowChat, ShowClicked, OpenChat, ShowTokens, ShowAnswer,
           CreateChat, apiVars
  <2>5. Click => UNCHANGED <<ask, written>>
    BY DEF Click, LogIn, ClickChat, NewChat, RemoveChat, Send, CreateChat, DeleteChat, apiVars
  <2> QED
    BY <2>1, <2>2, <2>3, <2>4, <2>5
<1>5. CASE Accounting
  BY <1>5 DEF Accounting, AskMoves, apiVars
<1>6. CASE UNCHANGED vars
  BY <1>6 DEF vars, AskMoves, apiVars
<1> QED
  BY <1>1, <1>2, <1>3, <1>4, <1>5, <1>6 DEF Next

\* What no step takes back: an ask keeps its question and its chat, once it is
\* over nothing changes it, and transcripts only grow.
AsksEvolve ==
    /\ \A a \in Asks : ~At(a, "idle") =>
          /\ ask'[a].pc # "idle"
          /\ ask'[a].chat = ask[a].chat /\ ask'[a].question = ask[a].question
    /\ \A a \in Asks : ~At(a, "idle") /\ ~InFlight(a) => ask'[a] = ask[a]
    /\ \A a \in Asks : At(a, "idle") =>
          \/ ask'[a] = ask[a]
          \/ ask'[a].pc = "arrived"
             /\ (OfPage(a) => /\ sending # NoSend /\ a = sending.ask
                              /\ ask'[a].chat = sending.chat /\ sending.chat \in Chats)
    /\ \A c \in Chats : \A j \in DOMAIN written[c] :
          j \in DOMAIN written'[c] /\ written'[c][j] = written[c][j]

\* Writing a turn appends it to the transcript of its chat.
LEMMA TurnIsAppended ==
    ASSUME AskInv, NEW a \in Asks, NEW text \in AskTexts, Writes(a, text)
    PROVE  /\ written' \in [Chats -> Seq(Turns)]
           /\ \A c \in Chats : \A j \in DOMAIN written[c] :
                 j \in DOMAIN written'[c] /\ written'[c][j] = written[c][j]
           /\ ask[a].chat \in Chats =>
                 \E j \in DOMAIN written'[ask[a].chat] :
                    written'[ask[a].chat][j] = [ask |-> a, text |-> text]
<1>1. CASE ask[a].chat \notin Chats
  BY <1>1 DEF Writes, AskInv
<1>2. CASE ask[a].chat \in Chats
  <2>1. PICK turn : turn = [ask |-> a, text |-> text]
    OBVIOUS
  <2>2. turn \in Turns
    BY <2>1 DEF Turns
  <2>3. PICK c \in Chats : c = ask[a].chat
    BY <1>2
  <2>4. PICK s \in Seq(Turns) : s = written[c]
    BY DEF AskInv
  <2>5. written' = [written EXCEPT ![c] = Append(s, turn)]
    BY <2>1, <2>3, <2>4 DEF Writes
  <2>6. /\ Append(s, turn) \in Seq(Turns)
        /\ Len(Append(s, turn)) = Len(s) + 1
        /\ \A j \in 1..Len(s) : Append(s, turn)[j] = s[j]
        /\ Append(s, turn)[Len(s) + 1] = turn
    BY <2>2, <2>4, AppendProperties
  <2>7. written' \in [Chats -> Seq(Turns)]
    BY <2>5, <2>6 DEF AskInv
  <2>8. written'[c] = Append(s, turn) /\ \A d \in Chats : d # c => written'[d] = written[d]
    BY <2>5 DEF AskInv
  <2>9. /\ DOMAIN s = 1..Len(s) /\ DOMAIN Append(s, turn) = 1..(Len(s) + 1) /\ Len(s) \in Nat
    BY <2>4, <2>6
  <2>10. \A j \in DOMAIN s : j \in DOMAIN written'[c] /\ written'[c][j] = s[j]
    BY <2>6, <2>8, <2>9
  <2>11. Len(s) + 1 \in DOMAIN written'[c] /\ written'[c][Len(s) + 1] = turn
    BY <2>6, <2>8, <2>9
  <2> QED
    BY <2>1, <2>3, <2>4, <2>7, <2>8, <2>10, <2>11
<1> QED
  BY <1>1, <1>2

\* However asks move, those that are done have written their turns.
LEMMA AskMovesKeep ==
    ASSUME AskInv, AskMoves
    PROVE  AskInv' /\ AsksEvolve
<1>1. CASE UNCHANGED <<ask, written>>
  BY <1>1 DEF AskInv, AsksEvolve, At, IsWritten
<1>2. ASSUME NEW a \in Asks, NEW pc \in Pcs \ {"idle"}, NEW text \in AskTexts,
             GoesOn(a, pc, text)
      PROVE  AskInv' /\ AsksEvolve
  <2>1. /\ ask' \in [Asks -> AskStates]
        /\ ask'[a].pc = pc /\ ask'[a].text = text
        /\ ask'[a].chat = ask[a].chat /\ ask'[a].question = ask[a].question
        /\ \A b \in Asks : b # a => ask'[b] = ask[b]
    BY <1>2 DEF AskInv, GoesOn, Goes, AskStates
  <2>2. InFlight(a)
    BY <1>2 DEF GoesOn
  <2>3. /\ written' \in [Chats -> Seq(Turns)]
        /\ \A c \in Chats : \A j \in DOMAIN written[c] :
              j \in DOMAIN written'[c] /\ written'[c][j] = written[c][j]
    BY <1>2, TurnIsAppended DEF GoesOn, AskInv
  <2>4. AsksEvolve
    BY <2>1, <2>2, <2>3 DEF AsksEvolve, At, InFlight
  <2>5. \A b \in Asks : ask'[b].pc = "hit" => ask'[b].text \in Asks
    BY <1>2, <2>1 DEF GoesOn, AskInv, At
  <2>6. ASSUME NEW b \in Asks, ask'[b].pc = "done", ask'[b].text \in Asks,
               ask'[b].chat \in Chats
        PROVE  \E c \in Chats : \E j \in DOMAIN written'[c] :
                  written'[c][j] = Bubble(b, ask'[b].text)
    <3>1. CASE b = a
      <4>1. Writes(a, text) /\ ask[a].chat \in Chats
        BY <1>2, <2>1, <2>6, <3>1 DEF GoesOn
      <4> QED
        BY <2>1, <3>1, <4>1, TurnIsAppended DEF Bubble
    <3>2. CASE b # a
      <4>1. IsWritten(Bubble(b, ask[b].text))
        BY <2>1, <2>6, <3>2 DEF AskInv, At
      <4> QED
        BY <2>1, <2>3, <3>2, <4>1 DEF IsWritten
    <3> QED
      BY <3>1, <3>2
  <2> QED
    BY <2>1, <2>3, <2>4, <2>5, <2>6 DEF AskInv, At, IsWritten
<1>3. ASSUME NEW a \in Asks, NEW chat \in Chats \cup {Elsewhere}, NEW q \in Questions,
             IsSent(a, chat, q)
      PROVE  AskInv' /\ AsksEvolve
  <2>1. /\ ask' \in [Asks -> AskStates]
        /\ ask'[a].pc = "arrived" /\ ask'[a].chat = chat
        /\ \A b \in Asks : b # a => ask'[b] = ask[b]
        /\ At(a, "idle") /\ written' = written
    BY <1>3 DEF AskInv, IsSent, AskStates, Pcs, AskTexts
  <2>2. AsksEvolve
    BY <1>3, <2>1 DEF AsksEvolve, At, InFlight, IsSent
  <2> QED
    BY <2>1, <2>2 DEF AskInv, At, IsWritten
<1>4. CASE AllLost
  <2>1. /\ ask' \in [Asks -> AskStates] /\ written' = written
        /\ \A a \in Asks :
              \/ ask'[a] = ask[a]
              \/ /\ InFlight(a)
                 /\ ask'[a].pc = "raise"
                 /\ ask'[a].chat = ask[a].chat /\ ask'[a].question = ask[a].question
    BY <1>4 DEF AllLost, AskInv, AskStates, Pcs
  <2>2. AsksEvolve
    BY <2>1 DEF AsksEvolve, At, InFlight
  <2>3. \A a \in Asks : ask'[a].pc \in {"hit", "done"} => ask'[a] = ask[a]
    BY <2>1
  <2>4. written' \in [Chats -> Seq(Turns)]
    BY <2>1 DEF AskInv
  <2>5. \A a \in Asks : ask'[a].pc = "hit" => ask'[a].text \in Asks
    BY <2>3 DEF AskInv, At
  <2>6. \A a \in Asks :
            ask'[a].pc = "done" /\ ask'[a].text \in Asks /\ ask'[a].chat \in Chats
                => \E c \in Chats : \E j \in DOMAIN written'[c] :
                      written'[c][j] = Bubble(a, ask'[a].text)
    BY <2>1, <2>3 DEF AskInv, At, IsWritten
  <2> QED
    BY <2>1, <2>2, <2>4, <2>5, <2>6 DEF AskInv, At, IsWritten
<1> QED
  BY <1>1, <1>2, <1>3, <1>4 DEF AskMoves

-----------------------------------------------------------------------------
(* The cached answers *)

EntriesMove ==
    \/ UNCHANGED entries
    \/ Expire
    \/ \E a \in Asks :
          /\ InFlight(a) /\ phase = "serving"
          /\ StoreResponse(ask[a].question, settings, [ask |-> a, pipeline |-> settings])

\* Entries are stored by an answered ask of a serving process, or expire.
LEMMA EntriesGoOn ==
    ASSUME [Next]_vars
    PROVE  EntriesMove
<1>1. CASE Life
  BY <1>1 DEF Life, Forget, EntriesMove
<1>2. CASE Fault
  BY <1>2 DEF Fault, Forget, EntriesMove
<1>3. CASE Asking
  <2>1. ASSUME NEW a \in Asks, AskStep(a, Authorised(a))
        PROVE  EntriesMove
    <3>1. CASE Answer(a)
      BY <1>3, <3>1 DEF Asking, Serving, Answer, InFlight, At, EntriesMove
    <3>2. CASE ~Answer(a)
      BY <2>1, <3>2 DEF AskStep, Admit, LookUp, ServeHit, RefuseTopic, Search, Rerank, Fail,
                        Commit, EntriesMove
    <3> QED
      BY <3>1, <3>2
  <2>2. CASE UNCHANGED entries
    BY <2>2 DEF EntriesMove
  <2> QED
    BY <1>3, <2>1, <2>2 DEF Asking
<1>4. CASE Page
  BY <1>4 DEF Page, EntriesMove
<1>5. CASE Accounting
  BY <1>5 DEF Accounting, EntriesMove
<1>6. CASE UNCHANGED vars
  BY <1>6 DEF vars, EntriesMove
<1> QED
  BY <1>1, <1>2, <1>3, <1>4, <1>5, <1>6 DEF Next

\* An ask keeps its question, so its entry stays under its key.
LEMMA EntriesKeepInv ==
    ASSUME LifeInv, AskInv, EntryInv, EntriesMove, AsksEvolve
    PROVE  EntryInv'
<1> DEFINE Sound(key, e) ==
        /\ e \in [ask : Asks, pipeline : Pipelines]
        /\ ask'[e.ask].pc # "idle"
        /\ key = Key(ask'[e.ask].question, e.pipeline)
<1>1. \A key \in DOMAIN entries : Sound(key, entries[key])
  BY DEF EntryInv, AsksEvolve, At
<1>2. SUFFICES \A key \in DOMAIN entries' : Sound(key, entries'[key])
  BY DEF EntryInv, At, Key
<1>3. CASE UNCHANGED entries
  BY <1>1, <1>3
<1>4. CASE Expire
  BY <1>1, <1>4 DEF Expire, Restrict
<1>5. ASSUME NEW a \in Asks, InFlight(a), phase = "serving",
             StoreResponse(ask[a].question, settings, [ask |-> a, pipeline |-> settings])
      PROVE  \A key \in DOMAIN entries' : Sound(key, entries'[key])
  <2>1. PICK e : e = [ask |-> a, pipeline |-> settings]
    OBVIOUS
  <2>2. PICK k : k = Key(ask[a].question, settings)
    OBVIOUS
  <2>3. settings \in Pipelines
    BY <1>5 DEF LifeInv
  <2>4. ask'[a].pc # "idle" /\ ask'[a].question = ask[a].question
    BY <1>5 DEF AsksEvolve, InFlight, At
  <2>5. e \in [ask : Asks, pipeline : Pipelines] /\ e.ask = a /\ e.pipeline = settings
    BY <2>1, <2>3
  <2>6. Sound(k, e)
    BY <2>2, <2>4, <2>5
  <2>7. CASE entries' = [j \in DOMAIN entries \cup {k} |-> IF j = k THEN e ELSE entries[j]]
    BY <1>1, <2>6, <2>7
  <2> QED
    BY <1>1, <1>5, <2>1, <2>2, <2>7 DEF StoreResponse
<1> QED
  BY <1>3, <1>4, <1>5 DEF EntriesMove

-----------------------------------------------------------------------------
(* The model *)

Raised == {a \in Asks : At(a, "raise")}

\* An ask that raised never moves again; a cancelled one is one more.
LEMMA RaisedGrow ==
    ASSUME AskInv, AsksEvolve
    PROVE  /\ IsFiniteSet(Raised) /\ IsFiniteSet(Raised')
           /\ Cardinality(Raised) \in Nat /\ Cardinality(Raised') \in Nat
           /\ Cardinality(Raised) <= Cardinality(Raised')
           /\ \A a \in Asks : InFlight(a) /\ ask'[a].pc = "raise"
                 => Cardinality(Raised) + 1 <= Cardinality(Raised')
<1>1. Raised \subseteq Asks /\ Raised' \subseteq Asks
  BY DEF Raised
<1>2. Raised \subseteq Raised'
  BY DEF Raised, AsksEvolve, At, InFlight
<1>3. IsFiniteSet(Raised) /\ IsFiniteSet(Raised')
  BY <1>1, AsksAreApart, FS_Subset
<1>4. ASSUME NEW a \in Asks, InFlight(a), ask'[a].pc = "raise"
      PROVE  Cardinality(Raised) + 1 <= Cardinality(Raised')
  <2>1. a \notin Raised /\ Raised \cup {a} \subseteq Raised'
    BY <1>2, <1>4 DEF Raised, InFlight, At
  <2>2. IsFiniteSet(Raised \cup {a}) /\ Cardinality(Raised \cup {a}) = Cardinality(Raised) + 1
    BY <1>3, <2>1, FS_AddElement
  <2> QED
    BY <1>3, <2>1, <2>2, FS_Subset
<1> QED
  BY <1>2, <1>3, <1>4, FS_Subset, FS_CardinalityType

\* What happens to asks that do not rerank leaves the lock alone.
LEMMA StillModelInv ==
    ASSUME ModelInv, AskInv, AsksEvolve, UNCHANGED modelVars, UNCHANGED phase,
           \A a \in Asks : At(a, "reranking") => ask'[a] = ask[a],
           phase = "serving" \/ UNCHANGED ask
    PROVE  ModelInv'
<1>1. Cardinality(Raised) <= Cardinality(Raised') /\ Cardinality(Raised) \in Nat
      /\ Cardinality(Raised') \in Nat
  BY RaisedGrow
<1>2. Reranking \subseteq Reranking'
  BY DEF Reranking, At
<1> QED
  BY <1>1, <1>2 DEF ModelInv, Raised, modelVars, InFlight, At

\* A search takes the lock, finds or loads the model, and gives the lock back.
LEMMA AskKeepsModelInv ==
    ASSUME ModelInv, AskInv, AsksEvolve, NEW a \in Asks, NEW authorised \in BOOLEAN,
           AskStep(a, authorised), phase = "serving", UNCHANGED phase
    PROVE  ModelInv'
<1>1. /\ Cardinality(Raised) <= Cardinality(Raised') /\ Cardinality(Raised) \in Nat
      /\ Cardinality(Raised') \in Nat
  BY RaisedGrow
<1>2. \A pc, text : Goes(a, pc, text) =>
          ask'[a].pc = pc /\ \A b \in Asks : b # a => ask'[b] = ask[b]
  BY DEF Goes, AskInv, AskStates
<1>3. CASE ~At(a, "reranking") /\ UNCHANGED modelVars
  <2>1. \A b \in Asks : b # a => ask'[b] = ask[b]
    BY <1>2, <1>3 DEF AskStep, Admit, LookUp, ServeHit, RefuseTopic, Search, Rerank, Fail,
                      Answer, Commit, Write, RollBack
  <2> QED
    BY <1>3, <2>1, StillModelInv
<1>4. CASE Search(a) /\ Want(a) /\ Goes(a, "reranking", "blank")
  <2>1. /\ ask'[a].pc = "reranking" /\ \A b \in Asks : b # a => ask'[b] = ask[b]
        /\ ~At(a, "reranking")
    BY <1>2, <1>4 DEF Search, At
  <2>2. Reranking' = Reranking \cup {a} /\ a \notin Reranking
    BY <2>1 DEF Reranking, At
  <2>3. waiting' = waiting \cup {a} /\ a # holder /\ UNCHANGED <<model, holder, abandoned>>
    BY <1>4 DEF Want
  <2>4. /\ waiting' \subseteq Reranking' /\ holder' \in Reranking' \cup {NoModel}
        /\ holder' \notin waiting'
    BY <2>2, <2>3 DEF ModelInv
  <2> QED
    BY <1>1, <2>3, <2>4 DEF ModelInv, Raised
<1>5. CASE Rerank(a) /\ StartLoading(a) /\ UNCHANGED ask
  <2>1. Reranking' = Reranking /\ Raised' = Raised
    BY <1>5 DEF Reranking, Raised, At
  <2> QED
    BY <1>5, <2>1, AsksAreApart DEF StartLoading, ModelInv, Raised
<1>6. CASE Rerank(a) /\ (FindLoaded(a) \/ Loaded(a)) /\ Goes(a, "writing", "blank")
  <2>1. Reranking' = Reranking \ {a}
    BY <1>2, <1>6 DEF Reranking, At
  <2> QED
    <3>1. CASE FindLoaded(a)
      BY <1>1, <2>1, <3>1, AsksAreApart DEF FindLoaded, ModelInv, Raised
    <3>2. CASE Loaded(a)
      <4>1. holder = a /\ model' = a /\ holder' = NoModel /\ UNCHANGED <<waiting, abandoned>>
        BY <3>2 DEF Loaded
      <4>2. waiting' \subseteq Reranking'
        BY <2>1, <4>1 DEF ModelInv
      <4>3. NoModel \notin waiting'
        BY <4>1, AsksAreApart DEF ModelInv, Reranking
      <4> QED
        BY <1>1, <4>1, <4>2, <4>3 DEF ModelInv, Raised, Unloaded
    <3> QED
      BY <1>6, <3>1, <3>2
<1>7. CASE Fail(a) /\ LoadFails(a)
  <2>0. At(a, "reranking")
    BY <1>7, AsksAreApart DEF LoadFails, ModelInv, Reranking
  <2>1. Goes(a, "error", "unanswered") \/ Goes(a, "raise", "blank")
    BY <1>7, <2>0 DEF Fail, Write, RollBack, At
  <2>2. Reranking' = Reranking \ {a}
    BY <1>2, <2>1 DEF Reranking, At
  <2> QED
    <3>1. holder = a /\ holder' = NoModel /\ UNCHANGED <<model, waiting, abandoned>>
      BY <1>7 DEF LoadFails
    <3>2. waiting' \subseteq Reranking'
      BY <2>2, <3>1 DEF ModelInv
    <3>3. NoModel \notin waiting'
      BY <3>1, AsksAreApart DEF ModelInv, Reranking
    <3> QED
      BY <1>1, <3>1, <3>2, <3>3 DEF ModelInv, Raised
<1> QED
  BY <1>3, <1>4, <1>5, <1>6, <1>7
     DEF AskStep, Admit, LookUp, ServeHit, RefuseTopic, Search, Rerank, Fail, Answer, Commit, At

\* A process that is gone has no model and no ask in flight.
LEMMA ExitForgetsModel ==
    ASSUME AskInv, AsksEvolve, Exit, Forget
    PROVE  ModelInv'
<1>1. \A a \in Asks : ~InFlight(a)'
  BY DEF Forget, InFlight, AskInv, AskStates
<1>2. Cardinality(Raised') \in Nat
  BY RaisedGrow
<1> QED
  BY <1>1, <1>2 DEF Exit, ModelInv, Raised, InFlight

\* While a process starts or stops nobody asks, and only the warm-up loads.
LEMMA LifeKeepsModelInv ==
    ASSUME ModelInv, AskInv, AsksEvolve, LifeStep, Forget
    PROVE  ModelInv'
<1>1. CASE Exit
  BY <1>1, ExitForgetsModel
<1>2. CASE ~Exit
  <2> DEFINE Loads == /\ phase = "reranker" /\ phase' = "checkpointer"
                      /\ model' \in {"warmup", model}
                      /\ UNCHANGED <<waiting, holder, abandoned>>
  <2>1. /\ phase # "serving"
        /\ phase' \in Unloaded => phase \in Unloaded
        /\ Loads \/ UNCHANGED modelVars
    <3> USE DEF Sets, Fails, Becomes, Unloaded, modelVars
    <3>1. CASE StartDatabase \/ StartCache \/ StartSearch
      BY <1>2, <3>1 DEF StartDatabase, StartCache, StartSearch
    <3>2. CASE CreateModels
      BY <3>2 DEF CreateModels
    <3>3. CASE StartReranker
      BY <3>3 DEF StartReranker
    <3>4. CASE StartCheckpointer
      BY <3>4 DEF StartCheckpointer
    <3>5. CASE BuildGraph
      BY <3>5 DEF BuildGraph
    <3>6. CASE Close
      <4>1. phase \in {"close_cache", "close_search", "close_langfuse", "close_stack",
                      "close_database"}
        BY <3>6 DEF Close, Closes
      <4>2. phase' = After[phase] /\ UNCHANGED modelVars
        BY <1>2, <3>6 DEF Close
      <4> QED
        BY <4>1, <4>2 DEF After
    <3> QED
      BY <1>2, <3>1, <3>2, <3>3, <3>4, <3>5, <3>6 DEF LifeStep, LeaveProcess
  <2>2. \A a \in Asks : ~InFlight(a)
    BY <2>1 DEF ModelInv
  <2>3. ask' = ask
    BY <2>2 DEF Forget, AskInv
  <2>4. waiting = {} /\ holder = NoModel
    BY <2>2 DEF ModelInv, Reranking, InFlight, At
  <2>5. \A a \in Asks : ~InFlight(a)'
    BY <2>2, <2>3 DEF InFlight
  <2>6. Raised' = Raised
    BY <2>3 DEF Raised, At
  <2>7. waiting' = {} /\ holder' = NoModel /\ abandoned' = abandoned
        /\ model' \in {"warmup", model}
    BY <2>1, <2>4 DEF modelVars
  <2>8. phase' \in Unloaded => model' = NoModel
    BY <2>1 DEF ModelInv, Unloaded, modelVars
  <2> QED
    BY <2>5, <2>6, <2>7, <2>8 DEF ModelInv, Raised, Unloaded, InFlight
<1> QED
  BY <1>1, <1>2

\* A cancelled search frees the lock; its thread is one ask's that raised.
LEMMA CancelKeepsModelInv ==
    ASSUME ModelInv, AskInv, AsksEvolve, NEW a \in Asks, Cancel(a), UNCHANGED phase
    PROVE  ModelInv'
<1>1. /\ InFlight(a) /\ ask'[a].pc = "raise" /\ \A b \in Asks : b # a => ask'[b] = ask[b]
  BY DEF Cancel, RollBack, Goes, AskInv, AskStates
<1>2. phase = "serving"
  BY <1>1 DEF ModelInv
<1>3. /\ Cardinality(Raised) + 1 <= Cardinality(Raised') /\ Cardinality(Raised) \in Nat
      /\ Cardinality(Raised') \in Nat
  BY <1>1, RaisedGrow
<1>4. Reranking' = Reranking \ {a}
  BY <1>1 DEF Reranking, At
<1>5. /\ waiting' = waiting \ {a} /\ model' = model
      /\ IF holder = a THEN holder' = NoModel /\ abandoned' = abandoned + 1
                       ELSE UNCHANGED <<holder, abandoned>>
  BY DEF Cancel, Abandon
<1>6. waiting' \subseteq Reranking' /\ NoModel \notin waiting'
  BY <1>4, <1>5, AsksAreApart DEF ModelInv, Reranking
<1>7. CASE holder = a
  BY <1>2, <1>3, <1>5, <1>6, <1>7 DEF ModelInv, Raised
<1>8. CASE holder # a
  BY <1>2, <1>3, <1>4, <1>5, <1>6, <1>8 DEF ModelInv, Raised
<1> QED
  BY <1>7, <1>8

\* No step of the service loads the model beside another load.
LEMMA ModelKeepsInv ==
    ASSUME ModelInv, AskInv, AsksEvolve, [Next]_vars
    PROVE  ModelInv'
<1>0. ASSUME UNCHANGED <<ask, modelVars, phase>>
      PROVE  ModelInv'
  BY <1>0, StillModelInv
<1>1. CASE Life
  <2>1. CASE LifeStep /\ Forget
    BY <2>1, LifeKeepsModelInv
  <2>2. CASE StartProcess /\ UNCHANGED apiVars
    BY <2>2 DEF StartProcess, apiVars, modelVars, ModelInv, InFlight, Reranking, At, Unloaded
  <2>3. CASE BeginShutdown(Drained) /\ UNCHANGED apiVars
    BY <2>3 DEF BeginShutdown, Drained, apiVars, modelVars, ModelInv, InFlight, Reranking, At, Unloaded
  <2> QED
    BY <1>1, <2>1, <2>2, <2>3 DEF Life
<1>2. CASE Fault
  <2>1. CASE Kill /\ Forget
    BY <2>1, ExitForgetsModel DEF Kill
  <2>2. CASE UNCHANGED <<ask, modelVars, phase>>
    BY <1>0, <2>2
  <2>3. ASSUME NEW a \in Asks, Cancel(a), UNCHANGED phase
        PROVE  ModelInv'
    BY <2>3, CancelKeepsModelInv
  <2> QED
    BY <1>2, <2>1, <2>2, <2>3 DEF Fault, apiVars
<1>3. CASE Asking
  <2>1. phase = "serving" /\ UNCHANGED phase
    BY <1>3 DEF Asking, Serving, lifeVars
  <2>2. ASSUME NEW a \in Asks, AskStep(a, Authorised(a))
        PROVE  ModelInv'
    <3>1. PICK authorised \in BOOLEAN : authorised = Authorised(a)
      BY DEF Authorised
    <3> QED
      BY <2>1, <2>2, <3>1, AskKeepsModelInv
  <2>3. ASSUME NEW a \in Asks, NEW q \in Questions, Arrive(a, Elsewhere, q), UNCHANGED modelVars
        PROVE  ModelInv'
    <3>1. \A b \in Asks : At(b, "reranking") => ask'[b] = ask[b]
      BY <2>3 DEF Arrive, AskInv, At
    <3> QED
      BY <2>1, <2>3, <3>1, StillModelInv
  <2>4. CASE ThreadEnds /\ UNCHANGED apiVars
    <3>1. /\ Cardinality(Raised') \in Nat /\ Raised' = Raised
      BY <2>4, RaisedGrow DEF apiVars, Raised, At
    <3>2. abandoned' \in Nat /\ abandoned' <= abandoned
          /\ UNCHANGED <<model, waiting, holder, ask, phase>>
      BY <2>1, <2>4 DEF ThreadEnds, ModelInv, apiVars
    <3> QED
      BY <3>1, <3>2 DEF ModelInv, Raised, Reranking, At, InFlight
  <2> QED
    BY <1>3, <2>2, <2>3, <2>4 DEF Asking
<1>4. CASE Page
  <2>1. phase = "serving" /\ UNCHANGED <<phase, modelVars>>
    BY <1>4 DEF Page, Serving, lifeVars
  <2>2. \A b \in Asks : At(b, "reranking") => ask'[b] = ask[b]
    <3>1. CASE ShowQuestion
      BY <3>1 DEF ShowQuestion, Arrive, AskInv, At
    <3>2. PageStep => ShowQuestion \/ ask' = ask
      BY DEF PageStep, ReadChat, ShowChat, ShowClicked, OpenChat, ShowTokens, ShowAnswer,
             apiVars
    <3>3. Click => ask' = ask
      BY DEF Click, LogIn, ClickChat, NewChat, RemoveChat, Send, apiVars
    <3> QED
      BY <1>4, <3>1, <3>2, <3>3 DEF Page
  <2> QED
    BY <2>1, <2>2, StillModelInv
<1>5. CASE Accounting
  BY <1>0, <1>5 DEF Accounting, apiVars, lifeVars
<1>6. CASE UNCHANGED vars
  BY <1>0, <1>6 DEF vars, apiVars, lifeVars
<1> QED
  BY <1>1, <1>2, <1>3, <1>4, <1>5, <1>6 DEF Next

-----------------------------------------------------------------------------
(* The page *)

\* What was settled stays so.
LEMMA StillSettled ==
    ASSUME AskInv, AsksEvolve, unfinished \subseteq unfinished', NEW bubbles, AllSettled(bubbles)
    PROVE  AllSettled(bubbles)'
<1>1. ASSUME NEW b \in Bubbles, Settled(b)
      PROVE  Settled(b)'
  <2>1. IsWritten(b) => IsWritten(b)'
    BY DEF IsWritten, AsksEvolve
  <2>2. b.ask \in Asks
    BY DEF Bubbles
  <2>3. At(b.ask, "broken") => At(b.ask, "broken")'
    BY <2>2 DEF AsksEvolve, At, InFlight
  <2> QED
    BY <1>1, <2>1, <2>3 DEF Settled
<1>2. bubbles \in Seq(Bubbles) /\ \A i \in DOMAIN bubbles : bubbles[i] \in Bubbles
  BY DEF AllSettled, Settled
<1> QED
  BY <1>1, <1>2 DEF AllSettled

\* What a transcript has is written, and is no part of an answer.
LEMMA TranscriptIsSettled ==
    ASSUME AskInv, NEW c \in Chats
    PROVE  AllSettled(written[c])
<1>1. PICK s \in Seq(Turns) : s = written[c]
  BY DEF AskInv
<1>2. Turns \subseteq Bubbles
  BY DEF Turns, Bubbles, AskTexts, Texts
<1>3. s \in Seq(Bubbles)
  BY <1>1, <1>2
<1>4. ASSUME NEW i \in DOMAIN s
      PROVE  Settled(s[i])
  <2>1. s[i] \in Turns
    BY <1>1, <1>4
  <2>2. IsWritten(s[i])
    BY <1>1, <1>4 DEF IsWritten
  <2>3. s[i].text # "part"
    BY <2>1, AsksAreApart DEF Turns, AskTexts
  <2> QED
    BY <1>2, <2>1, <2>2, <2>3 DEF Settled
<1> QED
  BY <1>1, <1>3, <1>4 DEF AllSettled

\* The whole reply to an ask in one of the page's chats is written.
LEMMA WholeIsWritten ==
    ASSUME AskInv, NEW a \in Asks, ask[a].chat \in Chats, Whole(a)
    PROVE  IsWritten(Bubble(a, ask[a].text))
BY DEF AskInv, Whole

\* What the last yield of send makes of a reply.
LEMMA AnswerIsSettled ==
    ASSUME AskInv, SendingInv, Replied, AllShown
    PROVE  Settled(Bubble(sending.ask, IF Warned(sending.ask) THEN "warned" ELSE sending.seen))
<1>1. PICK s \in Sends : s = sending
  BY DEF SendingInv, Replied
<1>2. PICK a \in Asks : a = s.ask
  BY <1>1 DEF Sends
<1>3. PICK text : text = IF Warned(a) THEN "warned" ELSE s.seen
  OBVIOUS
<1>4. PICK b : b = Bubble(a, text)
  OBVIOUS
<1>5. s.seen \in {"blank", "part"} \cup Asks
  BY DEF Sends
<1>6. b \in Bubbles /\ b.ask = a /\ b.text = text
  BY <1>3, <1>4, <1>5 DEF Bubble, Bubbles, Texts
<1>7. ASSUME text \in Asks
      PROVE  IsWritten(b)
  <2>1. text = s.seen
    BY <1>3, <1>7, AsksAreApart
  <2> QED
    BY <1>1, <1>2, <1>4, <1>7, <2>1 DEF SendingInv, Replied
<1>8. ASSUME text = "part"
      PROVE  At(a, "broken")
  <2>1. s.seen = "part" /\ ~Warned(a)
    BY <1>3, <1>8
  <2>2. HasTokens(a)
    BY <1>1, <1>2, <2>1 DEF SendingInv, Replied
  <2>3. ~Whole(a)
    <3>1. Whole(a) => ask[a].text = "part"
      BY <1>1, <1>2, <2>1 DEF AllShown
    <3> QED
      BY <3>1, AsksAreApart DEF Whole
  <2> QED
    BY <2>1, <2>2, <2>3 DEF HasTokens, Warned
<1> QED
  BY <1>1, <1>2, <1>3, <1>4, <1>6, <1>7, <1>8 DEF Settled

\* The bubbles of the thread at the click and one more.
LEMMA AppendIsSettled ==
    ASSUME NEW bubbles, AllSettled(bubbles), NEW b, Settled(b)
    PROVE  AllSettled(Append(bubbles, b))
<1>1. bubbles \in Seq(Bubbles) /\ b \in Bubbles
  BY DEF AllSettled, Settled
<1>2. /\ Append(bubbles, b) \in Seq(Bubbles)
      /\ Len(Append(bubbles, b)) = Len(bubbles) + 1
      /\ \A i \in 1..Len(bubbles) : Append(bubbles, b)[i] = bubbles[i]
      /\ Append(bubbles, b)[Len(bubbles) + 1] = b
  BY <1>1, AppendProperties
<1> QED
  BY <1>1, <1>2 DEF AllSettled

\* A bubble without tokens is settled whatever its ask.
LEMMA BlankIsSettled ==
    ASSUME NEW a \in Asks
    PROVE  Settled(Bubble(a, "blank"))
<1>1. PICK b : b = Bubble(a, "blank")
  OBVIOUS
<1>2. b \in Bubbles /\ b.text = "blank" /\ b.text \notin Asks
  BY <1>1, AsksAreApart DEF Bubble, Bubbles, Texts
<1> QED
  BY <1>1, <1>2 DEF Settled

\* A handler's question, its chat and the tokens of its reply stay.
LEMMA SendStays ==
    ASSUME AskInv, AsksEvolve, NEW s \in Sends,
           s.seen \in Asks => IsWritten(Bubble(s.ask, s.seen)),
           s.seen = "part" => HasTokens(s.ask)
    PROVE  /\ s.seen \in Asks => IsWritten(Bubble(s.ask, s.seen))'
           /\ s.seen = "part" => HasTokens(s.ask)'
<1>1. PICK a \in Asks : a = s.ask
  BY DEF Sends
<1>2. PICK b : b = Bubble(s.ask, s.seen)
  OBVIOUS
<1>3. IsWritten(b) => IsWritten(b)'
  BY DEF IsWritten, AsksEvolve
<1>4. HasTokens(a) => ask'[a] = ask[a]
  BY DEF HasTokens, Whole, AsksEvolve, At, InFlight
<1>5. HasTokens(a) => HasTokens(a)'
  BY <1>4 DEF HasTokens, Whole, At
<1> QED
  BY <1>1, <1>2, <1>3, <1>5

\* The handler's ask is nobody else's to send.
LEMMA SendingAloneStays ==
    ASSUME AskInv, AsksEvolve, SendingInv, UNCHANGED sending, unfinished \subseteq unfinished'
    PROVE  SendingInv'
<1>1. ASSUME sending # NoSend
      PROVE  SendingInv'
  <2>1. PICK s \in Sends : s = sending
    BY <1>1 DEF SendingInv
  <2>2. PICK a \in Asks : a = s.ask
    BY DEF Sends
  <2>3. AllSettled(s.thread)'
    BY <1>1, <2>1, StillSettled DEF SendingInv
  <2>4. OfPage(a)
    BY <1>1, <2>1, <2>2 DEF OfPage
  <2>5. ~At(a, "idle")' => s.chat \in Chats /\ ask'[a].chat = s.chat
    BY <1>1, <2>1, <2>2, <2>4 DEF SendingInv, AsksEvolve, At
  <2>6. /\ s.seen \in Asks => IsWritten(Bubble(s.ask, s.seen))'
        /\ s.seen = "part" => HasTokens(s.ask)'
    BY <1>1, <2>1, SendStays DEF SendingInv
  <2>7. sending' = s
    BY <2>1
  <2> QED
    BY <2>1, <2>2, <2>3, <2>5, <2>6, <2>7 DEF SendingInv
<1> QED
  BY <1>1 DEF SendingInv

\* Nor is that of the event that waits for it.
LEMMA SendingStays ==
    ASSUME AskInv, AsksEvolve, SendingInv, QueuedInv, UNCHANGED <<sending, queued>>,
           unfinished \subseteq unfinished'
    PROVE  SendingInv' /\ QueuedInv'
<1>1. SendingInv'
  BY SendingAloneStays
<1>2. ASSUME queued # <<>>
      PROVE  QueuedInv'
  <2>1. PICK s \in Sends : s = queued[1]
    BY <1>2 DEF QueuedInv
  <2>2. PICK a \in Asks : a = s.ask
    BY DEF Sends
  <2>3. AllSettled(s.thread)'
    BY <1>2, <2>1, StillSettled DEF QueuedInv
  <2>4. OfPage(a) /\ At(a, "idle") /\ a # sending.ask
    BY <1>2, <2>1, <2>2 DEF OfPage, QueuedInv
  <2>5. At(a, "idle")'
    BY <2>4 DEF AsksEvolve, At
  <2> QED
    BY <1>2, <2>1, <2>2, <2>3, <2>4, <2>5 DEF QueuedInv
<1> QED
  BY <1>1, <1>2 DEF QueuedInv

\* The event that waits is next.
LEMMA NextSend ==
    ASSUME AskInv, AsksEvolve, SendingInv, QueuedInv, EndSend, UNCHANGED ask,
           unfinished \subseteq unfinished'
    PROVE  SendingInv' /\ QueuedInv'
<1>1. QueuedInv'
  BY DEF EndSend, QueuedInv
<1>2. CASE queued = <<>>
  BY <1>1, <1>2 DEF EndSend, SendingInv
<1>3. CASE queued # <<>>
  <2>1. PICK s \in Sends : s = queued[1]
    BY <1>3 DEF QueuedInv
  <2>2. PICK a \in Asks : a = s.ask
    BY DEF Sends
  <2>3. AllSettled(s.thread)'
    BY <1>3, <2>1, StillSettled DEF QueuedInv
  <2>4. At(a, "idle")' /\ s.seen = "blank"
    BY <1>3, <2>1, <2>2 DEF QueuedInv, At
  <2>5. sending' = s /\ s.seen \notin Asks \cup {"part"}
    BY <1>3, <2>1, <2>4, AsksAreApart DEF EndSend
  <2> QED
    BY <1>1, <2>1, <2>2, <2>3, <2>4, <2>5 DEF SendingInv
<1> QED
  BY <1>2, <1>3

\* What the page shows stays as good as it was, if every part that was being
\* shown still is, or is left as it is.
LEMMA ShownStays ==
    ASSUME AskInv, AsksEvolve, ShownInv, UNCHANGED shown, unfinished \subseteq unfinished',
           \A a \in Asks : sending # NoSend /\ sending.ask = a /\ ~At(a, "idle") =>
              (sending' # NoSend /\ sending'.ask = a) \/ a \in unfinished'
    PROVE  ShownInv'
<1>1. ASSUME NEW b \in Bubbles, Settled(b) \/ BeingShown(b)
      PROVE  Settled(b)' \/ BeingShown(b)'
  <2>1. b.ask \in Asks
    BY DEF Bubbles
  <2>2. CASE Settled(b)
    <3>1. IsWritten(b) => IsWritten(b)'
      BY DEF IsWritten, AsksEvolve
    <3>2. At(b.ask, "broken") => At(b.ask, "broken")'
      BY <2>1 DEF AsksEvolve, At, InFlight
    <3> QED
      BY <2>2, <3>1, <3>2 DEF Settled
  <2>3. CASE BeingShown(b)
    <3>1. ~At(b.ask, "idle")'
      BY <2>1, <2>3 DEF BeingShown, AsksEvolve, At
    <3>2. b.ask \in unfinished' => Settled(b)'
      BY <2>3, AsksAreApart DEF BeingShown, Settled
    <3> QED
      BY <2>1, <2>3, <3>1, <3>2 DEF BeingShown
  <2> QED
    BY <1>1, <2>2, <2>3
<1>2. shown \in Seq(Bubbles) /\ \A i \in DOMAIN shown : shown[i] \in Bubbles
  BY DEF ShownInv
<1> QED
  BY <1>1, <1>2 DEF ShownInv

\* Settled bubbles may be shown.
LEMMA SettledIsShown ==
    ASSUME AllSettled(shown)'
    PROVE  ShownInv'
BY DEF AllSettled, ShownInv

\* When nothing is being shown, or what is has been left, every bubble is settled.
LEMMA ShownIsSettled ==
    ASSUME AskInv, AsksEvolve, ShownInv, UNCHANGED shown, unfinished \subseteq unfinished',
           sending # NoSend => At(sending.ask, "idle") \/ sending.ask \in unfinished'
    PROVE  AllSettled(shown)'
<1>1. ASSUME NEW b \in Bubbles, Settled(b) \/ BeingShown(b)
      PROVE  Settled(b)'
  <2>1. b.ask \in Asks
    BY DEF Bubbles
  <2>2. CASE Settled(b)
    <3>1. IsWritten(b) => IsWritten(b)'
      BY DEF IsWritten, AsksEvolve
    <3>2. At(b.ask, "broken") => At(b.ask, "broken")'
      BY <2>1 DEF AsksEvolve, At, InFlight
    <3> QED
      BY <2>2, <3>1, <3>2 DEF Settled
  <2>3. CASE BeingShown(b)
    BY <2>3, AsksAreApart DEF BeingShown, Settled
  <2> QED
    BY <1>1, <2>2, <2>3
<1>2. shown \in Seq(Bubbles) /\ \A i \in DOMAIN shown : shown[i] \in Bubbles
  BY DEF ShownInv
<1> QED
  BY <1>1, <1>2 DEF ShownInv, AllSettled

\* What the page is about to show stays settled.
LEMMA ReadingStays ==
    ASSUME AskInv, AsksEvolve, PageInv, UNCHANGED reading, unfinished \subseteq unfinished'
    PROVE  (reading # <<>> => AllSettled(reading[1]))'
<1>1. PICK r : r = reading
  OBVIOUS
<1>2. PICK t : t = r[1]
  OBVIOUS
<1>3. r # <<>> => AllSettled(t)'
  BY <1>1, <1>2, StillSettled DEF PageInv
<1> QED
  BY <1>1, <1>2, <1>3

\* A handler or a click does to the page what keeps it honest.
LEMMA PageActionKeepsInv ==
    ASSUME AskInv, AsksEvolve, PageInv, Page
    PROVE  PageInv'
<1>0. ShownInv /\ SendingInv /\ QueuedInv
  BY DEF PageInv
<1> DEFINE Rest == /\ token' \in {"none", "valid", "expired"} /\ value' \in Chats \cup {NoChat}
                   /\ choices' \subseteq Chats
           Offer == clicked' # <<>> => /\ clicked'[1].value \in Chats \cup {NoChat}
                                       /\ clicked'[1].choices \subseteq Chats
           Read == (reading # <<>> => AllSettled(reading[1]))'
<1>1. /\ UNCHANGED sendVars => SendingInv' /\ QueuedInv'
      /\ UNCHANGED <<shown, sendVars>> => ShownInv'
      /\ UNCHANGED <<reading, unfinished>> => Read
  BY <1>0, SendingStays, ShownStays, ReadingStays DEF sendVars
<1>2. /\ UNCHANGED <<token, value, choices>> => Rest
      /\ UNCHANGED clicked => Offer
  BY DEF PageInv
<1>3. Fetched \subseteq Chats
  BY DEF Fetched
<1>4. CASE ReadChat
  <2>1. PICK t : t = Transcript(wanted[1])
    OBVIOUS
  <2>2. AllSettled(t)
    <3>1. CASE t = <<>>
      BY <3>1 DEF AllSettled
    <3>2. CASE t # <<>>
      <4>1. PICK c \in Chats : t = written[c]
        BY <2>1, <3>2 DEF Transcript, Live
      <4> QED
        BY <4>1, TranscriptIsSettled
    <3> QED
      BY <3>1, <3>2
  <2>3. UNCHANGED <<token, value, choices, shown, clicked, sendVars>>
    BY <1>4 DEF ReadChat
  <2>4. AllSettled(t)'
    BY <2>2, <2>3, StillSettled DEF sendVars
  <2>5. reading' = <<t>> \/ reading' = <<>>
    BY <1>4, <2>1 DEF ReadChat
  <2>6. Read
    BY <2>4, <2>5
  <2> QED
    BY <1>1, <1>2, <2>3, <2>6 DEF PageInv
<1>5. CASE ShowChat
  <2>1. PICK t : t = reading[1]
    OBVIOUS
  <2>2. shown' = t /\ reading' = <<>> /\ UNCHANGED <<token, value, choices, clicked, sendVars>>
    BY <1>5, <2>1 DEF ShowChat
  <2>3. AllSettled(t)'
    BY <1>5, <2>1, <2>2, StillSettled DEF ShowChat, PageInv, sendVars
  <2>4. ShownInv'
    BY <2>2, <2>3, SettledIsShown
  <2> QED
    BY <1>1, <1>2, <2>2, <2>4 DEF PageInv
<1>6. CASE ShowClicked
  <2>1. /\ clicked # <<>> /\ value' = clicked[1].value /\ choices' = clicked[1].choices
        /\ shown' = <<>> /\ clicked' = <<>> /\ UNCHANGED <<token, reading, sendVars>>
    BY <1>6 DEF ShowClicked, Select
  <2>2. ShownInv'
    BY <2>1 DEF ShownInv
  <2>3. Read /\ Rest
    BY <1>1, <2>1 DEF PageInv, sendVars
  <2> QED
    BY <1>1, <2>1, <2>2, <2>3 DEF PageInv
<1>7. CASE OpenChat
  <2>1. /\ UNCHANGED <<token, value, choices, shown, reading, clicked, unfinished, ask>>
        /\ sending # NoSend /\ At(sending.ask, "idle")
    BY <1>7 DEF OpenChat, Starting
  <2>2. ShownInv'
    BY <1>0, <2>1, ShownIsSettled, SettledIsShown
  <2>3. CASE EndSend
    BY <1>0, <1>1, <1>2, <2>1, <2>2, <2>3, NextSend DEF PageInv
  <2>4. ASSUME NEW c \in Chats, sending' = [sending EXCEPT !.chat = c], UNCHANGED queued
        PROVE  SendingInv' /\ QueuedInv'
    <3>1. PICK s \in Sends : s = sending
      BY <1>0, <2>1 DEF SendingInv
    <3>2. PICK a \in Asks : a = s.ask
      BY DEF Sends
    <3>3. PICK r : r = [s EXCEPT !.chat = c]
      OBVIOUS
    <3>4. r \in Sends /\ r.ask = a /\ r.thread = s.thread /\ r.seen = s.seen
      BY <3>2, <3>3 DEF Sends
    <3>5. sending' = r /\ ask'[a].pc = "idle"
      BY <2>1, <2>4, <3>1, <3>2, <3>3 DEF At
    <3>6. AllSettled(s.thread)'
      BY <1>0, <2>1, <3>1, StillSettled DEF SendingInv
    <3>7. /\ s.seen \in Asks => IsWritten(Bubble(s.ask, s.seen))'
          /\ s.seen = "part" => HasTokens(s.ask)'
      BY <1>0, <2>1, <3>1, SendStays DEF SendingInv
    <3>8. SendingInv'
      BY <3>2, <3>4, <3>5, <3>6, <3>7 DEF SendingInv, At
    <3>9. ASSUME queued # <<>>
          PROVE  QueuedInv'
      <4>1. PICK q \in Sends : q = queued[1]
        BY <3>9 DEF QueuedInv, PageInv
      <4>2. AllSettled(q.thread)'
        BY <1>0, <2>1, <3>9, <4>1, StillSettled DEF QueuedInv
      <4>3. sending' # NoSend
        BY <1>0, <2>1, <2>4, <3>1, <3>3, <3>4, <3>5, <3>9, NoSendIsNone DEF QueuedInv
      <4> QED
        BY <1>0, <2>1, <2>4, <3>1, <3>2, <3>4, <3>5, <3>9, <4>1, <4>2, <4>3
           DEF QueuedInv, At
    <3> QED
      BY <2>4, <3>8, <3>9 DEF QueuedInv
  <2> QED
    BY <1>1, <1>2, <1>7, <2>1, <2>2, <2>3, <2>4 DEF OpenChat, PageInv
<1>8. CASE ShowQuestion
  <2>1. PICK s \in Sends : s = sending
    BY <1>0, <1>8 DEF ShowQuestion, Starting, SendingInv
  <2>2. PICK a \in Asks : a = s.ask
    BY DEF Sends
  <2>3. PICK b : b = Bubble(a, "blank")
    OBVIOUS
  <2>4. PICK t : t = Append(s.thread, b)
    OBVIOUS
  <2>5. AllSettled(t)
    BY <1>0, <1>8, <2>1, <2>3, <2>4, BlankIsSettled, AppendIsSettled
       DEF ShowQuestion, Starting, SendingInv
  <2>6. shown' = t /\ UNCHANGED <<token, value, choices, reading, clicked, sendVars>>
    BY <1>8, <2>1, <2>2, <2>3, <2>4 DEF ShowQuestion, Show
  <2>7. AllSettled(t)'
    BY <2>5, <2>6, StillSettled DEF sendVars
  <2>8. ShownInv'
    BY <2>6, <2>7, SettledIsShown
  <2> QED
    BY <1>1, <1>2, <2>6, <2>8 DEF PageInv, sendVars
<1>9. CASE ShowTokens
  <2>1. /\ sending # NoSend /\ ~At(sending.ask, "idle")
        /\ UNCHANGED <<token, value, choices, reading, clicked, queued, unfinished, ask, written>>
    BY <1>9 DEF ShowTokens, Replied, apiVars
  <2>2. PICK s \in Sends : s = sending
    BY <1>0, <2>1 DEF SendingInv
  <2>3. PICK a \in Asks : a = s.ask
    BY DEF Sends
  <2>4. PICK text \in {"part"} \cup Asks :
            /\ \/ text = "part" /\ HasTokens(a)
               \/ Whole(a) /\ text = ask[a].text
            /\ Show(text) /\ sending' = [sending EXCEPT !.seen = text]
    BY <1>9, <2>2, <2>3 DEF ShowTokens, HasTokens
  <2>5. PICK b : b = Bubble(a, text)
    OBVIOUS
  <2>6. b \in Bubbles /\ b.ask = a /\ b.text = text
    BY <2>5 DEF Bubble, Bubbles, Texts
  <2>7. /\ AllSettled(s.thread) /\ ask[a].chat = s.chat /\ s.chat \in Chats
        /\ At(s.ask, "idle") = FALSE
    BY <1>0, <2>1, <2>2, <2>3 DEF SendingInv
  <2>8. text \in Asks => IsWritten(b)
    BY <2>3, <2>4, <2>5, <2>7, WholeIsWritten, AsksAreApart
  <2>9. PICK r : r = [s EXCEPT !.seen = text]
    OBVIOUS
  <2>10. r \in Sends /\ r.ask = a /\ r.thread = s.thread /\ r.chat = s.chat /\ r.seen = text
    BY <2>3, <2>9 DEF Sends
  <2>11. sending' = r /\ ask'[a] = ask[a]
    BY <2>1, <2>2, <2>4, <2>9
  <2>12. AllSettled(s.thread)'
    BY <2>1, <2>7, StillSettled
  <2>13. SendingInv'
    <3>1. text = "part" => HasTokens(a)'
      BY <2>4, <2>11, AsksAreApart DEF HasTokens, Whole, At
    <3>2. text \in Asks => IsWritten(b)'
      BY <2>1, <2>8 DEF IsWritten
    <3> QED
      BY <2>5, <2>7, <2>10, <2>11, <2>12, <3>1, <3>2 DEF SendingInv
  <2>14. sending' # NoSend
    BY <2>10, <2>11, NoSendIsNone
  <2>15. QueuedInv'
    <3>1. ASSUME queued # <<>>
          PROVE  QueuedInv'
      <4>1. PICK q \in Sends : q = queued[1]
        BY <1>0, <3>1 DEF QueuedInv
      <4>2. AllSettled(q.thread)'
        BY <1>0, <2>1, <3>1, <4>1, StillSettled DEF QueuedInv
      <4> QED
        BY <1>0, <2>1, <2>2, <2>3, <2>10, <2>11, <2>14, <3>1, <4>1, <4>2 DEF QueuedInv, At
    <3> QED
      BY <2>1, <3>1 DEF QueuedInv
  <2>16. ShownInv'
    <3>1. PICK t : t = Append(s.thread, b)
      OBVIOUS
    <3>2. PICK th \in Seq(Bubbles) : th = s.thread
      BY DEF Sends
    <3>3. /\ t \in Seq(Bubbles)
          /\ DOMAIN t = 1..(Len(th) + 1) /\ Len(th) \in Nat
          /\ \A i \in 1..Len(th) : t[i] = th[i]
          /\ t[Len(th) + 1] = b
      BY <2>6, <3>1, <3>2, AppendProperties
    <3>4. Settled(b)' \/ BeingShown(b)'
      <4>1. CASE text = "part"
        BY <2>3, <2>6, <2>7, <2>10, <2>11, <2>14, <4>1 DEF BeingShown, At
      <4>2. CASE text # "part"
        <5>1. IsWritten(b)'
          BY <2>1, <2>8, <4>2 DEF IsWritten
        <5> QED
          BY <2>6, <4>2, <5>1 DEF Settled
      <4> QED
        BY <4>1, <4>2
    <3>5. \A i \in 1..Len(th) : Settled(th[i])'
      BY <2>12, <3>2 DEF AllSettled
    <3>6. \A i \in DOMAIN t : Settled(t[i])' \/ BeingShown(t[i])'
      BY <3>3, <3>4, <3>5
    <3>7. shown' = t
      BY <2>2, <2>3, <2>4, <2>5, <3>1 DEF Show
    <3> QED
      BY <3>3, <3>6, <3>7 DEF ShownInv
  <2> QED
    BY <1>1, <1>2, <2>1, <2>13, <2>15, <2>16 DEF PageInv
<1>10. CASE ShowAnswer
  <2>1. /\ sending # NoSend /\ Replied /\ AllShown /\ EndSend
        /\ UNCHANGED <<token, reading, clicked, ask, written>>
        /\ unfinished \subseteq unfinished'
    BY <1>10 DEF ShowAnswer, Replied, apiVars
  <2>2. PICK s \in Sends : s = sending
    BY <1>0, <2>1 DEF SendingInv
  <2>3. PICK a \in Asks : a = s.ask
    BY DEF Sends
  <2>4. SendingInv' /\ QueuedInv'
    BY <1>0, <2>1, NextSend
  <2>5. Read
    BY <2>1, ReadingStays
  <2>6. CASE unfinished' = unfinished \cup {sending.ask} /\ UNCHANGED <<shown, choices, value>>
    <3>1. ShownInv'
      BY <1>0, <2>1, <2>6, ShownIsSettled, SettledIsShown
    <3> QED
      BY <1>2, <2>1, <2>4, <2>5, <2>6, <3>1 DEF PageInv
  <2>7. CASE /\ Show(IF Warned(sending.ask) THEN "warned" ELSE sending.seen)
             /\ choices' = Fetched /\ Select(sending.chat)
    <3>1. PICK b : b = Bubble(sending.ask, IF Warned(sending.ask) THEN "warned" ELSE sending.seen)
      OBVIOUS
    <3>2. Settled(b)
      BY <1>0, <2>1, <3>1, AnswerIsSettled
    <3>3. PICK t : t = Append(s.thread, b)
      OBVIOUS
    <3>4. AllSettled(t)
      BY <1>0, <2>1, <2>2, <3>2, <3>3, AppendIsSettled DEF SendingInv
    <3>5. AllSettled(t)'
      BY <2>1, <3>4, StillSettled
    <3>6. shown' = t /\ value' = s.chat
      BY <2>2, <2>7, <3>1, <3>3 DEF Show, Select
    <3>7. ShownInv'
      BY <3>5, <3>6, SettledIsShown
    <3>8. s.chat \in Chats \cup {NoChat}
      BY DEF Sends
    <3> QED
      BY <1>2, <1>3, <2>1, <2>4, <2>5, <2>7, <3>6, <3>7, <3>8 DEF PageInv
  <2> QED
    BY <1>10, <2>6, <2>7 DEF ShowAnswer
<1>11. CASE LogIn \/ \E c \in Chats : ClickChat(c)
  <2>1. UNCHANGED <<shown, reading, clicked, sendVars>> /\ Rest
    BY <1>11 DEF LogIn, ClickChat, Select, PageInv
  <2> QED
    BY <1>1, <1>2, <2>1 DEF PageInv, sendVars
<1>12. CASE NewChat \/ RemoveChat
  <2>1. UNCHANGED <<token, value, choices, shown, wanted, reading, sendVars>>
    BY <1>12 DEF NewChat, RemoveChat
  <2>2. \E c \in Chats \cup {NoChat} : Fetch(c)
    BY <1>12 DEF NewChat, RemoveChat
  <2>3. Offer
    BY <1>3, <2>2 DEF Fetch
  <2> QED
    BY <1>1, <1>2, <2>1, <2>3 DEF PageInv, sendVars
<1>13. ASSUME NEW a \in Asks, NEW q \in Questions, Send(a, q)
       PROVE  PageInv'
  <2>1. PICK t : t = shown
    OBVIOUS
  <2>2. PICK s : s = [ask |-> a, question |-> q, chat |-> value, thread |-> t,
                      seen |-> "blank"]
    OBVIOUS
  <2>3. /\ s \in Sends /\ s.ask = a /\ s.thread = t /\ s.seen = "blank"
    BY <2>1, <2>2 DEF PageInv, ShownInv, Sends
  <2>4. /\ ask' = ask /\ At(a, "idle") /\ unfinished \subseteq unfinished'
        /\ UNCHANGED <<token, value, choices, shown, reading, clicked>>
        /\ \/ sending = NoSend /\ sending' = s /\ UNCHANGED <<queued, unfinished>>
           \/ /\ sending # NoSend /\ sending.ask # a /\ queued = <<>> /\ queued' = <<s>>
              /\ sending.ask \in unfinished' /\ UNCHANGED sending
    BY <1>13, <2>1, <2>2 DEF Send, apiVars
  <2>5. AllSettled(shown)'
    BY <1>0, <2>4, ShownIsSettled
  <2>6. AllSettled(t)' /\ ShownInv'
    BY <2>1, <2>4, <2>5, SettledIsShown
  <2>7. At(a, "idle")' /\ s.seen \notin Asks \cup {"part"}
    BY <2>3, <2>4, AsksAreApart DEF At
  <2>8. CASE sending = NoSend /\ sending' = s /\ UNCHANGED <<queued, unfinished>>
    <3>1. QueuedInv'
      BY <1>0, <2>8 DEF QueuedInv
    <3>2. SendingInv'
      BY <2>3, <2>6, <2>7, <2>8 DEF SendingInv
    <3> QED
      BY <1>1, <1>2, <2>4, <2>6, <2>8, <3>1, <3>2 DEF PageInv
  <2>9. CASE /\ sending # NoSend /\ sending.ask # a /\ queued = <<>> /\ queued' = <<s>>
             /\ sending.ask \in unfinished' /\ UNCHANGED sending
    <3>1. QueuedInv'
      BY <2>3, <2>6, <2>7, <2>9 DEF QueuedInv
    <3>2. SendingInv'
      BY <1>0, <2>4, <2>9, SendingAloneStays
    <3>3. Read
      BY <2>4, ReadingStays
    <3> QED
      BY <1>2, <2>4, <2>6, <3>1, <3>2, <3>3 DEF PageInv
  <2> QED
    BY <2>4, <2>8, <2>9
<1> QED
  BY <1>4, <1>5, <1>6, <1>7, <1>8, <1>9, <1>10, <1>11, <1>12, <1>13 DEF Page, PageStep, Click

\* No step of the service makes the page show what is not written.
LEMMA PageKeepsInv ==
    ASSUME AskInv, AsksEvolve, PageInv, [Next]_vars
    PROVE  PageInv'
<1>0. ShownInv /\ SendingInv /\ QueuedInv
  BY DEF PageInv
<1>1. CASE Page
  BY <1>1, PageActionKeepsInv
<1>2. CASE UNCHANGED <<value, choices, shown, reading, clicked, sendVars>>
            /\ token' \in {token, "expired"}
  <2>1. SendingInv' /\ QueuedInv' /\ ShownInv'
    BY <1>0, <1>2, SendingStays, ShownStays DEF sendVars
  <2>2. (reading # <<>> => AllSettled(reading[1]))'
    BY <1>2, ReadingStays DEF sendVars
  <2> QED
    BY <1>2, <2>1, <2>2 DEF PageInv
<1>3. CASE UNCHANGED pageVars \/ TokenExpires
  BY <1>2, <1>3 DEF pageVars, TokenExpires
<1>4. CASE PageReset
  BY <1>4 DEF PageReset, PageInv, ShownInv, SendingInv, QueuedInv
<1>5. Life => UNCHANGED pageVars \/ PageReset
  BY DEF Life, Forget
<1>6. Fault => UNCHANGED pageVars \/ PageReset \/ TokenExpires
  BY DEF Fault, Forget
<1>7. Asking => UNCHANGED pageVars
  BY DEF Asking
<1>8. Accounting => UNCHANGED pageVars
  BY DEF Accounting
<1>9. UNCHANGED vars => UNCHANGED pageVars
  BY DEF vars
<1> QED
  BY <1>1, <1>3, <1>4, <1>5, <1>6, <1>7, <1>8, <1>9 DEF Next

-----------------------------------------------------------------------------
(* The theorems *)

\* The service starts with nothing asked and nothing open.
LEMMA InitSInv ==
    ASSUME Init
    PROVE  SInv
<1>1. LifeInv
  BY BudgetsNameSettings
     DEF Init, LifeInit, LifeInv, Startup, CacheClosed, SearchClosed, LangfuseClosed,
         StackClosed
<1>0. Idle.pc = "idle"
  BY DEF Idle
<1>2. /\ \A a \in Asks : ask[a] = Idle
      /\ written = [c \in Chats |-> <<>>]
  BY DEF Init, ApiInit
<1>3. AskInv
  <2>1. Idle \in AskStates /\ Idle.pc = "idle"
    BY SomethingIsAsked DEF Idle, AskStates, Pcs, AskTexts
  <2>2. ask \in [Asks -> AskStates]
    BY <2>1 DEF Init, ApiInit
  <2>3. written \in [Chats -> Seq(Turns)]
    BY <1>2
  <2> QED
    BY <1>2, <2>1, <2>2, <2>3 DEF AskInv, At
<1>4. ModelInv
  <2>1. \A a \in Asks : ~InFlight(a)
    BY <1>0, <1>2 DEF InFlight
  <2>2. Cardinality({a \in Asks : At(a, "raise")}) \in Nat
    BY AsksAreApart, FS_Subset, FS_CardinalityType
  <2> QED
    BY <2>1, <2>2 DEF Init, LifeInit, ModelInit, ModelInv
<1>5. EntryInv
  BY DEF Init, CacheInit, EntryInv
<1>6. PageInv
  BY DEF Init, PageInit, PageInv, ShownInv, SendingInv, QueuedInv
<1>7. AccountInv
  <2>1. registering \in [People -> [at : {"none", "found free", "inserted"},
                                    name : Names \cup {NoName}]]
        /\ \A p \in People : registering[p].at = "none"
    BY DEF Init, AccountsInit, NoRequest
  <2>2. OneAccountPerName
    BY DEF Init, OneAccountPerName
  <2> QED
    BY <2>1, <2>2 DEF AccountInv
<1> QED
  BY <1>1, <1>3, <1>4, <1>5, <1>6, <1>7 DEF SInv

\* SInv is inductive.
LEMMA StepSInv ==
    ASSUME SInv, [Next]_vars
    PROVE  SInv' /\ AsksEvolve
<1>1. AskInv' /\ AsksEvolve
  BY AsksMove, AskMovesKeep DEF SInv
<1>2. LifeInv' /\ AccountInv'
  BY LifeKeepsInv, AccountsStep DEF SInv
<1>3. EntryInv'
  BY <1>1, EntriesGoOn, EntriesKeepInv DEF SInv
<1>4. ModelInv' /\ PageInv'
  BY <1>1, ModelKeepsInv, PageKeepsInv DEF SInv
<1> QED
  BY <1>1, <1>2, <1>3, <1>4 DEF SInv

\* In every reachable state every part of the service has what its handlers
\* rely on.
THEOREM Upheld == Spec => []SInv
<1>1. Init => SInv
  BY InitSInv
<1>2. SInv /\ [Next]_vars => SInv'
  BY StepSInv
<1> QED
  BY <1>1, <1>2, PTL DEF Spec

\* State has the shape the code gives it; only searches that rerank wait for
\* the model's lock or hold it.
THEOREM WellTyped == Spec => []TypeOK
<1>1. SInv => TypeOK
  <2> SUFFICES ASSUME SInv PROVE TypeOK
    OBVIOUS
  <2>1. /\ phase \in Startup \cup DOMAIN Closes \cup {"down", "serving", "stopped"}
        /\ settings \in Pipelines \cup {NoPipeline}
        /\ app \subseteq Attributes /\ opened \subseteq Clients
    BY DEF SInv, LifeInv, Closing, Closes
  <2>2. /\ model \in Asks \cup {"warmup", NoModel}
        /\ waiting \cup ({holder} \ {NoModel}) \subseteq {a \in Asks : At(a, "reranking")}
    BY DEF SInv, ModelInv, Reranking
  <2>3. abandoned \in 0..Cardinality(Asks)
    <3>1. /\ Cardinality({a \in Asks : At(a, "raise")}) <= Cardinality(Asks)
          /\ Cardinality({a \in Asks : At(a, "raise")}) \in Nat /\ Cardinality(Asks) \in Nat
      BY AsksAreApart, FS_Subset, FS_CardinalityType
    <3> QED
      BY <3>1 DEF SInv, ModelInv
  <2>4. \A key \in DOMAIN entries :
            entries[key].ask \in Asks /\ entries[key].pipeline \in Pipelines
    BY DEF SInv, EntryInv
  <2>5. \A a \in Asks : ask[a].text \in Texts /\ ask[a].chat \in Chats \cup {Elsewhere}
    BY DEF SInv, AskInv, AskStates, AskTexts, Texts
  <2>6. \A c \in Chats : \A i \in DOMAIN written[c] : written[c][i].text \in Texts
    <3>1. ASSUME NEW c \in Chats, NEW i \in DOMAIN written[c]
          PROVE  written[c][i].text \in Texts
      <4>1. AllSettled(written[c])
        BY TranscriptIsSettled DEF SInv
      <4> QED
        BY <4>1 DEF AllSettled, Settled, Bubbles
    <3> QED
      BY <3>1
  <2>7. \A i \in DOMAIN shown : shown[i].text \in Texts
    <3>1. \A i \in DOMAIN shown : shown[i] \in Bubbles
      BY DEF SInv, PageInv, ShownInv
    <3> QED
      BY <3>1 DEF Bubbles
  <2>8. token \in {"none", "valid", "expired"} /\ value \in Chats \cup {NoChat}
        /\ choices \subseteq Chats
    BY DEF SInv, PageInv
  <2> QED
    BY <2>1, <2>2, <2>3, <2>4, <2>5, <2>6, <2>7, <2>8 DEF TypeOK
<1> QED
  BY <1>1, Upheld, PTL

\* What is found in the cache answers the question, and was written with the
\* writer, embeddings, reranker and index of the process that finds it.
THEOREM SharedPipelines == Spec => []HitsShareThePipeline
<1>1. SInv => HitsShareThePipeline
  <2> SUFFICES ASSUME SInv, NEW q \in Questions, IsCached(q, settings)
               PROVE  LET hit == Cached(q, settings) IN
                      /\ Normal[ask[hit.ask].question] = Normal[q]
                      /\ \A part \in {"llm", "embedding", "reranker", "index"} :
                            hit.pipeline[part] = settings[part]
    BY DEF HitsShareThePipeline
  <2>1. PICK key : key = Key(q, settings)
    OBVIOUS
  <2>2. PICK hit : hit = entries[key]
    OBVIOUS
  <2>3. key = Key(ask[hit.ask].question, hit.pipeline)
    BY <2>1, <2>2 DEF SInv, EntryInv, IsCached
  <2>4. Normal[ask[hit.ask].question] = Normal[q]
    BY <2>1, <2>3 DEF Key
  <2>5. Fingerprint(hit.pipeline) = Fingerprint(settings)
    BY <2>1, <2>3 DEF Key
  <2>6. /\ hit.pipeline.llm = settings.llm /\ hit.pipeline.embedding = settings.embedding
        /\ hit.pipeline.reranker = settings.reranker /\ hit.pipeline.index = settings.index
    <3>1. PICK f : f = Fingerprint(hit.pipeline) /\ f = Fingerprint(settings)
      BY <2>5
    <3>2. /\ f.llm = hit.pipeline.llm /\ f.embedding = hit.pipeline.embedding
          /\ f.reranker = hit.pipeline.reranker /\ f.index = hit.pipeline.index
      BY <3>1 DEF Fingerprint
    <3>3. /\ f.llm = settings.llm /\ f.embedding = settings.embedding
          /\ f.reranker = settings.reranker /\ f.index = settings.index
      BY <3>1 DEF Fingerprint
    <3> QED
      BY <3>2, <3>3
  <2> QED
    BY <2>1, <2>2, <2>4, <2>6 DEF Cached
<1> QED
  BY <1>1, Upheld, PTL

\* An answer the page shows to its end without a warning is in a transcript, and
\* a part of one is being shown, was cut, or was left as it was.
THEOREM WrittenAnswers == Spec => []ShownAnswersAreWritten
<1>1. SInv => ShownAnswersAreWritten
  BY AsksAreApart
     DEF SInv, PageInv, ShownInv, Settled, BeingShown, IsWritten, ShownAnswersAreWritten
<1> QED
  BY <1>1, Upheld, PTL

\* A process that stopped in order has closed its clients, but for those the
\* code dropped at boot or never closes.
THEOREM ClosedWhenStopped == Spec => []StoppedIsClosed
<1>1. SInv => StoppedIsClosed
  BY DEF SInv, LifeInv, StoppedIsClosed, Clients, CacheClosed, SearchClosed, LangfuseClosed,
         StackClosed
<1> QED
  BY <1>1, Upheld, PTL

\* However registrations of one name overlap, one account has it.
THEOREM UniqueNames == Spec => []OneAccountPerName
<1>1. SInv => OneAccountPerName
  BY DEF SInv, AccountInv
<1> QED
  BY <1>1, Upheld, PTL

\* What becomes of the model in a step.
ModelMoves ==
    \/ UNCHANGED <<model, holder>>
    \/ Exit
    \/ phase = "reranker" /\ UNCHANGED holder
    \/ \E a \in Asks : StartLoading(a) \/ Loaded(a) \/ LoadFails(a) \/ Abandon(a)

\* Only the warm-up, the searches and the end of a process touch the model.
LEMMA ModelGoesOn ==
    ASSUME [Next]_vars
    PROVE  ModelMoves
<1>1. CASE Life
  <2>1. LifeStep => ModelMoves
    BY DEF LifeStep, StartDatabase, StartCache, CreateModels, StartSearch, StartReranker,
           StartCheckpointer, BuildGraph, Close, LeaveProcess, Sets, Fails, Becomes, modelVars,
           ModelMoves
  <2>2. StartProcess \/ BeginShutdown(Drained) => ModelMoves
    BY DEF StartProcess, BeginShutdown, modelVars, ModelMoves
  <2> QED
    BY <1>1, <2>1, <2>2 DEF Life
<1>2. CASE Fault
  BY <1>2 DEF Fault, Kill, Cancel, modelVars, ModelMoves
<1>3. CASE Asking
  <2>1. ASSUME NEW a \in Asks, AskStep(a, Authorised(a))
        PROVE  ModelMoves
    BY <2>1 DEF AskStep, Admit, LookUp, ServeHit, RefuseTopic, Search, Rerank, Fail, Answer,
                Commit, Want, FindLoaded, modelVars, ModelMoves
  <2>2. CASE UNCHANGED modelVars \/ ThreadEnds
    BY <2>2 DEF ThreadEnds, modelVars, ModelMoves
  <2> QED
    BY <1>3, <2>1, <2>2 DEF Asking
<1>4. CASE Page
  BY <1>4 DEF Page, modelVars, ModelMoves
<1>5. CASE Accounting
  BY <1>5 DEF Accounting, modelVars, ModelMoves
<1>6. CASE UNCHANGED vars
  BY <1>6 DEF vars, modelVars, ModelMoves
<1> QED
  BY <1>1, <1>2, <1>3, <1>4, <1>5, <1>6 DEF Next

\* While a process lives its reranker is loaded once.
THEOREM LoadedOnce == Spec => ModelIsLoadedOnce
<1> DEFINE Once == /\ model # NoModel /\ phase' # "down" => model' = model
                   /\ holder' \notin {holder, NoModel} => holder = NoModel /\ model = NoModel
<1>1. SInv /\ [Next]_vars => Once
  <2> SUFFICES ASSUME SInv, [Next]_vars PROVE Once
    OBVIOUS
  <2>1. CASE UNCHANGED <<model, holder>>
    BY <2>1
  <2>2. CASE Exit
    BY <2>2 DEF Exit
  <2>3. CASE phase = "reranker" /\ UNCHANGED holder
    BY <2>3 DEF SInv, ModelInv, Unloaded
  <2>4. ASSUME NEW a \in Asks, StartLoading(a) \/ Loaded(a) \/ LoadFails(a) \/ Abandon(a)
        PROVE  Once
    BY <2>4, AsksAreApart DEF StartLoading, Loaded, LoadFails, Abandon, SInv, ModelInv
  <2> QED
    BY <2>1, <2>2, <2>3, <2>4, ModelGoesOn DEF ModelMoves
<1> QED
  BY <1>1, Upheld, PTL DEF Spec, ModelIsLoadedOnce

============================================================================
