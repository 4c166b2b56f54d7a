----------------------- MODULE AgentThreadProperties -----------------------
(***************************************************************************)
(* What a chat's thread and the answers given in it are worth, stated over *)
(* the model of module AgentThread.                                        *)
(***************************************************************************)
EXTENDS AgentThread

TypeOK ==
    /\ saved \in Channels
    /\ pending \in Seq([by : Turns, value : Channels])
    /\ node \in [Turns -> Nodes \cup Over \cup {"idle", "end", "error"}]
    /\ mine \in [Turns -> Channels]
    /\ failures \in [Turns -> 0..Attempts - 1]
    /\ heard \in [Turns -> {"nothing", "part", "whole"}]
    /\ lost \subseteq Turns
    /\ crashes \in 0..MaxCrashes

----------------------------------------------------------------------------

\* A writer answers the question its own request asked, although the thread
\* is full of questions, answered, refused, failed and cut off.
AnswersOwnQuestion ==
    \A t \in Turns : node[t] = "writer" => Prompt(t).question = t

\* "The retriever must always have something to search" (query_rewriter.py),
\* and it is this turn's: a plan left in the thread by an earlier turn, or by
\* one that failed before it could search, is never executed again.
SearchesOwnPlan ==
    \A t \in Turns : node[t] = "retriever" =>
        /\ mine[t].plan # {}
        /\ \A search \in mine[t].plan : search.by = t

Position(messages, m) == {i \in DOMAIN messages : messages[i] = m}

\* In the thread an answer or refusal directly follows its own question, and
\* no question is there twice, even when two runs fork the thread.
ThreadTurnsAreWhole ==
    LET messages == saved.messages IN
    /\ \A i \in DOMAIN messages : messages[i].role # "human" =>
           i > 1 /\ messages[i - 1] = Human(messages[i].by)
    /\ \A t \in Turns : Cardinality(Position(messages, Human(t))) <= 1

\* The thread remembers as an answer only what was streamed to its end: the
\* part of a report that a failing writer produced is not kept.
RemembersWholeReports ==
    \A t \in Turns :
        Position(saved.messages, Report(t)) # {} => heard[t] = "whole"

\* A turn whose run ended is remembered for good, question and answer, across
\* crashes and across whatever cancelled runs still write; only a run that lost
\* its connection, and with it the row lock, may overtake another.
FinishedTurnsStay ==
    lost = {} => \A t \in Turns : node[t] = "done" =>
        Position(saved.messages, Human(t)) # {}
        /\ \/ Position(saved.messages, Report(t)) # {}
           \/ Position(saved.messages, Refusal(t)) # {}

\* Every run ends: retries are bounded and checkpoints get written.
EveryRunEnds == \A t \in Turns : Running(t) ~> ~Running(t)

----------------------------------------------------------------------------
(* What the comments claim and the code does not do.                       *)

\* nodes/retriever.py, lines 16-18: "What reaches the writer is the top
\* `max_chunks` by rerank score": this turn's selection and nothing else.
WriterReadsThisSelection ==
    \A t \in Turns : node[t] = "writer" => Prompt(t).provisions \subseteq {t}

============================================================================
