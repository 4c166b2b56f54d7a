---------------------------- MODULE AgentThread ----------------------------
(***************************************************************************)
(* The agent graph over the checkpointed thread of one chat:               *)
(* services/agents (guardian, query_rewriter, retriever, writer and the    *)
(* graph that chains them) and the retries of services/llm/client.py.      *)
(*                                                                         *)
(* A run loads the thread's latest checkpoint, adds its question, and      *)
(* walks through the nodes, each of which updates the run's own copy of    *)
(* the channels.  After every step the copy goes to the checkpointer and   *)
(* is written in the background.  A run ends when its writes have landed,  *)
(* but a cancelled one leaves them behind, and a crash loses them.         *)
(*                                                                         *)
(* Runs are serialised by the chat's row lock alone (module Chats): a run  *)
(* whose database connection was lost goes on without it.                  *)
(***************************************************************************)
EXTENDS Naturals, Sequences, FiniteSets

CONSTANTS
    Turns,       \* questions asked in the chat that miss the cache
    Labels,      \* what the planner may want to look up
    Attempts,    \* _STRUCTURED_ATTEMPTS
    MaxPending,  \* bound on checkpoints under way at once
    MaxLost,     \* bound on runs that lose their connection
    MaxCrashes,  \* bound on crashes of the server
    None

ASSUME AttemptsArePositive == Attempts \in Nat \ {0}
ASSUME BoundsAreNatural ==
    MaxPending \in Nat \ {0} /\ MaxLost \in Nat /\ MaxCrashes \in Nat
ASSUME NoneIsNoTurn == None \notin Turns \cup Labels

VARIABLES
    saved,    \* the thread's latest checkpoint
    pending,  \* checkpoints on their way to the database, by creation
    node,     \* node[t]: where t's run is
    mine,     \* mine[t]: the channels as t's run sees them
    failures, \* failures[t]: failed attempts of the structured call at hand
    heard,    \* heard[t]: how much of t's report the router saw as tokens
    lost,     \* runs whose request lost its connection, hence the row lock
    crashes

faulty == <<lost, crashes>>
vars == <<saved, pending, node, mine, failures, heard, faulty>>

----------------------------------------------------------------------------

Human(t) == [role |-> "human", by |-> t]
Report(t) == [role |-> "ai", by |-> t]
Refusal(t) == [role |-> "refusal", by |-> t]
Messages == [role : {"human", "ai", "refusal"}, by : Turns]

\* A search is the turn it was planned for and what it is about: a label of
\* the planner's, or (None) the question itself over the whole corpus.
Searches == [by : Turns, label : Labels \cup {None}]

Nodes == {"guardian", "query_rewriter", "retriever", "writer"}
Structured == {"guardian", "query_rewriter"}
Over == {"done", "failed", "cancelled"}
Running(t) == node[t] \notin {"idle"} \cup Over

\* The channels of AgentState that a later node reads, and the node to run.
Channels ==
    [messages : Seq(Messages), plan : SUBSET Searches, notes : Seq(Turns),
     next : Nodes \cup {"end"}]
Nothing == [messages |-> <<>>, plan |-> {}, notes |-> <<>>, next |-> "end"]

Init ==
    /\ saved = Nothing
    /\ pending = <<>>
    /\ node = [t \in Turns |-> "idle"]
    /\ mine = [t \in Turns |-> Nothing]
    /\ failures = [t \in Turns |-> 0]
    /\ heard = [t \in Turns |-> "nothing"]
    /\ lost = {}
    /\ crashes = 0

\* The oldest question of the thread.
FirstHuman(messages) ==
    LET humans == {i \in DOMAIN messages : messages[i].role = "human"}
    IN  messages[CHOOSE i \in humans : \A j \in humans : i <= j].by

\* The most recent user message: the question the graph answers.
LastHuman(messages) ==
    LET humans == {i \in DOMAIN messages : messages[i].role = "human"}
    IN  messages[CHOOSE i \in humans : \A j \in humans : j <= i].by

----------------------------------------------------------------------------

\* t's channels become c: the step is over, the copy is checkpointed in the
\* background, and c.next is the node to run.
Advance(t, c) ==
    /\ Len(pending) < MaxPending
    /\ mine' = [mine EXCEPT ![t] = c]
    /\ node' = [node EXCEPT ![t] = c.next]
    /\ failures' = [failures EXCEPT ![t] = 0]
    /\ pending' = Append(pending, [by |-> t, value |-> c])

\* New input that resumes the step an earlier run left unfinished.
EntryOrResume(c) == IF c.next = "end" THEN "guardian" ELSE c.next

\* New input always enters at START: unfinished steps are discarded.
Entry(c) == "guardian"

\* graph.astream({"messages": [HumanMessage(question)]}, thread_id = chat_id).
BeginRun(t) ==
    /\ node[t] = "idle"
    /\ \A s \in Turns : Running(s) => s \in lost
    /\ Advance(t, [saved EXCEPT !.messages = Append(@, Human(t)),
                                !.next = Entry(saved)])
    /\ UNCHANGED <<saved, heard, faulty>>

Pending(t) == {i \in DOMAIN pending : pending[i].by = t}

\* The thread is read at its greatest checkpoint id, so whatever was created
\* before the i-th pending checkpoint no longer counts once that one landed.
NewerThan(i) == SubSeq(pending, i + 1, Len(pending))

\* t's oldest checkpoint under way reaches the database; a run's writes are
\* chained, so they land in order.
Flush(t) ==
    /\ \E i \in Pending(t) :
          /\ \A j \in Pending(t) : i <= j
          /\ saved' = pending[i].value
          /\ pending' = NewerThan(i)
    /\ UNCHANGED <<node, mine, failures, heard, faulty>>

----------------------------------------------------------------------------
(* The nodes.                                                              *)

\* A refusal that does not end the graph.
GuardWithoutEnd(t) ==
    /\ node[t] = "guardian"
    /\ \/ Advance(t, [mine[t] EXCEPT !.next = "query_rewriter"])
       \/ Advance(t, [mine[t] EXCEPT !.messages = Append(@, Refusal(t)),
                                     !.next = "query_rewriter"])
    /\ UNCHANGED <<saved, heard, faulty>>

\* One structured call decides: on to planning, or to END with a refusal.
Guard(t) ==
    /\ node[t] = "guardian"
    /\ \/ Advance(t, [mine[t] EXCEPT !.next = "query_rewriter"])
       \/ Advance(t, [mine[t] EXCEPT !.messages = Append(@, Refusal(t)),
                                     !.next = "end"])
    /\ UNCHANGED <<saved, heard, faulty>>

\* The cleaned plan, or the question itself when nothing is left of it or
\* planning is switched off.
PlanFor(t, labels) ==
    LET question == LastHuman(mine[t].messages) IN
    IF labels = {} THEN {[by |-> question, label |-> None]}
    ELSE [by : {question}, label : labels]

Rewrite(t) ==
    /\ node[t] = "query_rewriter"
    /\ \E labels \in SUBSET Labels :
          Advance(t, [mine[t] EXCEPT !.plan = PlanFor(t, labels),
                                     !.next = "retriever"])
    /\ UNCHANGED <<saved, heard, faulty>>

\* The channel's reducer, operator.add.
NotesPlus(notes, t) == Append(notes, t)

\* All searches together find provisions, one block of notes, or none.
Retrieve(t) ==
    /\ node[t] = "retriever"
    /\ \/ Advance(t, [mine[t] EXCEPT !.notes = NotesPlus(@, t),
                                     !.next = "writer"])
       \/ Advance(t, [mine[t] EXCEPT !.next = "writer"])
    /\ UNCHANGED <<saved, heard, faulty>>

\* What the writer is asked, and which turns' provisions it is given.
Prompt(t) ==
    [question |-> LastHuman(mine[t].messages),
     provisions |-> {mine[t].notes[i] : i \in DOMAIN mine[t].notes}]

\* The prompt goes out; from here on tokens reach the router.
OpenStream(t) ==
    /\ node[t] = "writer"
    /\ heard[t] = "nothing"
    /\ heard' = [heard EXCEPT ![t] = "part"]
    /\ UNCHANGED <<saved, pending, node, mine, failures, faulty>>

\* A writer whose interrupted stream still makes a report.
ReportAnyway(t) ==
    /\ node[t] = "writer"
    /\ heard[t] = "part"
    /\ Advance(t, [mine[t] EXCEPT !.messages = Append(@, Report(t)),
                                  !.next = "end"])
    /\ UNCHANGED <<saved, heard, faulty>>

\* The stream is exhausted: the report is what the router heard.
FinishReport(t) ==
    /\ node[t] = "writer"
    /\ heard[t] = "part"
    /\ heard' = [heard EXCEPT ![t] = "whole"]
    /\ Advance(t, [mine[t] EXCEPT !.messages = Append(@, Report(t)),
                                  !.next = "end"])
    /\ UNCHANGED <<saved, faulty>>

----------------------------------------------------------------------------
(* Failures and the end of a run.                                          *)

\* The run is over, one way or another: its locals are gone.
Leave(t, outcome) ==
    /\ node' = [node EXCEPT ![t] = outcome]
    /\ mine' = [mine EXCEPT ![t] = Nothing]
    /\ failures' = [failures EXCEPT ![t] = 0]

\* One attempt too many.
RetryOnceMore(t) ==
    /\ node[t] \in Structured
    /\ failures[t] < Attempts
    /\ failures' = [failures EXCEPT ![t] = @ + 1]
    /\ UNCHANGED <<saved, pending, node, mine, heard, faulty>>

\* A structured call failed and is tried again after a pause.
Retry(t) ==
    /\ node[t] \in Structured
    /\ failures[t] + 1 < Attempts
    /\ failures' = [failures EXCEPT ![t] = @ + 1]
    /\ UNCHANGED <<saved, pending, node, mine, heard, faulty>>

\* The node raises: the last attempt of its structured call failed or gave no
\* object, the label bank cannot be read, a search failed, the stream broke.
Raise(t) ==
    /\ node[t] \in Nodes
    /\ node' = [node EXCEPT ![t] = "error"]
    /\ UNCHANGED <<saved, pending, mine, failures, heard, faulty>>

\* A run that does not wait for the writes of its checkpoints.
EndRunAtOnce(t) ==
    /\ node[t] \in {"end", "error"}
    /\ Leave(t, IF node[t] = "end" THEN "done" ELSE "failed")
    /\ UNCHANGED <<saved, pending, heard, faulty>>

\* An exception that ends up nowhere.
EndRunSilently(t) ==
    /\ node[t] = "end"
    /\ Pending(t) = {}
    /\ Leave(t, "done")
    /\ UNCHANGED <<saved, pending, heard, faulty>>

\* Either way the loop waits for its checkpoints before it returns or raises.
EndRun(t) ==
    /\ node[t] \in {"end", "error"}
    /\ Pending(t) = {}
    /\ Leave(t, IF node[t] = "end" THEN "done" ELSE "failed")
    /\ UNCHANGED <<saved, pending, heard, faulty>>

\* The client disconnects: the run is cancelled wherever it is, the writes
\* under way are not waited for.
Cancel(t) ==
    /\ Running(t)
    /\ Leave(t, "cancelled")
    /\ UNCHANGED <<saved, pending, heard, faulty>>

LoseConnection(t) ==
    /\ Running(t)
    /\ t \notin lost
    /\ Cardinality(lost) < MaxLost
    /\ lost' = lost \cup {t}
    /\ UNCHANGED <<saved, pending, node, mine, failures, heard, crashes>>

Crash ==
    /\ crashes < MaxCrashes
    /\ crashes' = crashes + 1
    /\ node' = [t \in Turns |-> IF Running(t) THEN "failed" ELSE node[t]]
    /\ pending' = <<>>
    /\ mine' = [t \in Turns |-> Nothing]
    /\ failures' = [t \in Turns |-> 0]
    /\ UNCHANGED <<saved, heard, lost>>

Step(t) ==
    \/ Flush(t)
    \/ Guard(t) \/ Rewrite(t) \/ Retrieve(t) \/ OpenStream(t) \/ FinishReport(t)
    \/ Retry(t) \/ Raise(t) \/ EndRun(t)

Next ==
    \/ \E t \in Turns : BeginRun(t) \/ Step(t) \/ Cancel(t) \/ LoseConnection(t)
    \/ Crash

Spec == Init /\ [][Next]_vars

\* Started runs go on and background writes land; clients and faults are free.
FairSpec == Spec /\ \A t \in Turns : WF_vars(Step(t))

============================================================================
