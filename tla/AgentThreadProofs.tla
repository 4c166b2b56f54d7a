------------------------- MODULE AgentThreadProofs -------------------------
(***************************************************************************)
(* The inductive invariant of module AgentThread, and the theorems about   *)
(* the thread, the plan and the answers that follow from it.               *)
(***************************************************************************)
EXTENDS AgentThreadProperties, SequenceTheorems, FiniteSetTheorems, TLAPS

----------------------------------------------------------------------------
(* The invariant.                                                          *)

Last(s) == s[Len(s)]
Holds(messages, m) == \E i \in DOMAIN messages : messages[i] = m

\* Every copy of the channels there is: stored, on its way, or in a run.
Copies ==
    {saved} \cup {pending[i].value : i \in DOMAIN pending} \cup {mine[t] : t \in Turns}

\* An answer or refusal directly follows its question, which is there once.
Whole(messages) ==
    /\ \A i \in DOMAIN messages : messages[i].role # "human" =>
           i > 1 /\ messages[i - 1] = Human(messages[i].by)
    /\ \A i, j \in DOMAIN messages :
           messages[i].role = "human" /\ messages[i] = messages[j] => i = j

\* Only turns that began left something, and only whole streams a report.
Known(messages) ==
    \A i \in DOMAIN messages :
        /\ node[messages[i].by] # "idle"
        /\ messages[i].role = "ai" => heard[messages[i].by] = "whole"

CopyInv == \A c \in Copies : Whole(c.messages) /\ Known(c.messages)

\* Where a run is says how its copy c ends, and whose plan it holds.
RunOk(t, at, c) ==
    /\ at \in Nodes => c.messages # <<>> /\ Last(c.messages) = Human(t)
    /\ at = "end" => c.messages # <<>> /\ Last(c.messages) \in {Report(t), Refusal(t)}
    /\ at = "retriever" => c.plan # {} /\ \A search \in c.plan : search.by = t

RunInv == \A t \in Turns : RunOk(t, node[t], mine[t])

\* Checkpoints under way are those of runs that began.
PendingInv == \A i \in DOMAIN pending : node[pending[i].by] # "idle"

Answered(t, messages) ==
    /\ Holds(messages, Human(t))
    /\ Holds(messages, Report(t)) \/ Holds(messages, Refusal(t))

\* t's run wrote the newest checkpoint, and nothing stale can land on it.
Newest(t) ==
    \/ pending = <<>> /\ saved = mine[t]
    \/ /\ pending # <<>>
       /\ Last(pending) = [by |-> t, value |-> mine[t]]
       /\ \A i, j \in DOMAIN pending : i <= j /\ pending[i].by = t => pending[j].by = t

\* What the row lock is worth while no connection was lost.
SerialInv ==
    lost = {} =>
        /\ \A s, t \in Turns : Running(s) /\ Running(t) => s = t
        /\ \A t \in Turns : Running(t) => Newest(t)
        /\ \A t \in Turns : node[t] = "done" =>
              /\ Answered(t, saved.messages)
              /\ \A i \in DOMAIN pending : Answered(t, pending[i].value.messages)
              /\ \A s \in Turns : Running(s) => Answered(t, mine[s].messages)

IInv == TypeOK /\ CopyInv /\ RunInv /\ PendingInv /\ SerialInv

----------------------------------------------------------------------------
(* Sequences of messages.                                                  *)

\* The elements of a sequence are of its type.
LEMMA ElementFacts ==
    ASSUME NEW S, NEW s \in Seq(S)
    PROVE  /\ Len(s) \in Nat /\ DOMAIN s = 1..Len(s)
           /\ \A i \in DOMAIN s : s[i] \in S
  OBVIOUS

\* What is in a sequence with one more element.
LEMMA AppendFacts ==
    ASSUME NEW S, NEW s \in Seq(S), NEW x \in S
    PROVE  /\ Append(s, x) \in Seq(S)
           /\ Append(s, x) # <<>>
           /\ Len(s) \in Nat
           /\ DOMAIN s = 1..Len(s)
           /\ DOMAIN Append(s, x) = 1..(Len(s) + 1)
           /\ \A i \in DOMAIN s : Append(s, x)[i] = s[i]
           /\ Append(s, x)[Len(s) + 1] = x
           /\ Last(Append(s, x)) = x
<1>1. \E q : q = Append(s, x)
  OBVIOUS
<1>2. PICK q : q = Append(s, x)
  BY <1>1
<1>3. /\ q \in Seq(S) /\ Len(s) \in Nat /\ DOMAIN s = 1..Len(s)
      /\ Len(q) = Len(s) + 1 /\ DOMAIN q = 1..Len(q)
      /\ \A i \in 1..Len(s) : q[i] = s[i]
      /\ q[Len(s) + 1] = x
  BY <1>2
<1>4. q # <<>> /\ Last(q) = x
  BY <1>3 DEF Last
<1> QED
  BY <1>2, <1>3, <1>4, Zenon

\* The messages of the model are messages.
LEMMA MessagesAre ==
    ASSUME NEW t \in Turns
    PROVE  /\ Human(t) \in Messages /\ Report(t) \in Messages /\ Refusal(t) \in Messages
           /\ Human(t).role = "human" /\ Report(t).role = "ai" /\ Refusal(t).role = "refusal"
           /\ Human(t).by = t /\ Report(t).by = t /\ Refusal(t).by = t
  BY DEF Human, Report, Refusal, Messages

\* A thread stays whole when a new question joins it, or an answer its own
\* question at the end.
LEMMA WholeAppend ==
    ASSUME NEW s \in Seq(Messages), NEW m \in Messages, Whole(s),
           m.role = "human" => ~Holds(s, m),
           m.role # "human" => s # <<>> /\ Last(s) = Human(m.by)
    PROVE  Whole(Append(s, m))
<1> DEFINE q == Append(s, m)
<1>1. /\ Len(s) \in Nat /\ DOMAIN s = 1..Len(s) /\ DOMAIN q = 1..Len(s) + 1
      /\ \A i \in DOMAIN s : q[i] = s[i]
      /\ q[Len(s) + 1] = m
  BY AppendFacts
<1>2. s # <<>> => Len(s) > 0
  BY <1>1, EmptySeq
<1> HIDE DEF q
<1>3. ASSUME NEW i \in DOMAIN q, q[i].role # "human"
      PROVE  i > 1 /\ q[i - 1] = Human(q[i].by)
  <2>1. CASE i \in DOMAIN s
    <3>1. i > 1 /\ s[i - 1] = Human(s[i].by)
      BY <1>1, <1>3, <2>1 DEF Whole
    <3>2. i - 1 \in DOMAIN s
      BY <1>1, <2>1, <3>1
    <3> QED
      BY <1>1, <2>1, <3>1, <3>2
  <2>2. CASE i = Len(s) + 1
    <3>1. s # <<>> /\ s[Len(s)] = Human(m.by)
      BY <1>1, <1>3, <2>2 DEF Last
    <3>2. Len(s) \in DOMAIN s /\ i - 1 = Len(s) /\ i > 1
      BY <1>1, <1>2, <2>2, <3>1
    <3> QED
      BY <1>1, <2>2, <3>1, <3>2
  <2> QED
    BY <1>1, <2>1, <2>2
<1>4. ASSUME NEW i \in DOMAIN q, NEW j \in DOMAIN q, q[i].role = "human", q[i] = q[j]
      PROVE  i = j
  <2>1. CASE i \in DOMAIN s /\ j \in DOMAIN s
    BY <1>1, <1>4, <2>1 DEF Whole
  <2>2. CASE i = Len(s) + 1 /\ j \in DOMAIN s
    BY <1>1, <1>4, <2>2 DEF Holds
  <2>3. CASE i \in DOMAIN s /\ j = Len(s) + 1
    BY <1>1, <1>4, <2>3 DEF Holds
  <2> QED
    BY <1>1, <2>1, <2>2, <2>3
<1> QED
  BY <1>3, <1>4 DEF Whole, q

\* The last message is what makes the question the graph answers.
LEMMA LastIsLastHuman ==
    ASSUME NEW s \in Seq(Messages), NEW t \in Turns, s # <<>>, Last(s) = Human(t)
    PROVE  LastHuman(s) = t
<1> DEFINE humans == {i \in DOMAIN s : s[i].role = "human"}
           i == CHOOSE i \in humans : \A j \in humans : j <= i
<1>1. DOMAIN s = 1..Len(s) /\ Len(s) \in Nat /\ Len(s) > 0
  BY EmptySeq
<1>2. Len(s) \in humans /\ \A j \in humans : j <= Len(s)
  BY <1>1, MessagesAre DEF Last
<1>3. i \in humans /\ \A j \in humans : j <= i
  BY <1>2
<1>4. i = Len(s)
  BY <1>1, <1>2, <1>3
<1> QED
  BY <1>4, MessagesAre DEF LastHuman, Last

----------------------------------------------------------------------------
(* What a step does to the copies.                                         *)

\* A checkpoint under way is some run's, and a copy of the channels.
LEMMA PendingAre ==
    TypeOK => \A i \in DOMAIN pending :
                 pending[i].by \in Turns /\ pending[i].value \in Channels
<1> SUFFICES ASSUME TypeOK, NEW i \in DOMAIN pending
             PROVE  pending[i].by \in Turns /\ pending[i].value \in Channels
  OBVIOUS
<1>1. pending[i] \in [by : Turns, value : Channels]
  BY ElementFacts DEF TypeOK
<1> QED
  BY <1>1

\* Every copy there is has the type of the channels.
LEMMA CopiesAreChannels == TypeOK => Copies \subseteq Channels
  BY PendingAre DEF TypeOK, Copies

\* No turn becomes unbegun, and no stream that was whole becomes less.
Onwards ==
    \A t \in Turns : /\ node'[t] = "idle" => node[t] = "idle"
                     /\ heard[t] = "whole" => heard'[t] = "whole"

\* What is known of a copy's messages stays known.
LEMMA KnownStays ==
    ASSUME NEW s \in Seq(Messages), Known(s), Onwards
    PROVE  Known(s)'
<1> SUFFICES ASSUME NEW i \in DOMAIN s
             PROVE  /\ node'[s[i].by] # "idle"
                    /\ s[i].role = "ai" => heard'[s[i].by] = "whole"
  BY DEF Known
<1>1. s[i] \in Messages
  BY ElementFacts
<1>2. s[i].by \in Turns
  BY <1>1 DEF Messages
<1> QED
  BY <1>2 DEF Known, Onwards

\* When the only copy to come is a good one, all copies stay good.
LEMMA CopiesKeep ==
    ASSUME TypeOK, CopyInv, Onwards, NEW c,
           Copies' \subseteq Copies \cup {c},
           Whole(c.messages), Known(c.messages)'
    PROVE  CopyInv'
<1> SUFFICES ASSUME NEW d \in Copies' PROVE Whole(d.messages) /\ Known(d.messages)'
  BY DEF CopyInv
<1>1. CASE d = c
  BY <1>1
<1>2. CASE d \in Copies
  <2>1. d.messages \in Seq(Messages)
    BY <1>2, CopiesAreChannels DEF Channels
  <2> QED
    BY <1>2, <2>1, KnownStays DEF CopyInv
<1> QED
  BY <1>1, <1>2

\* A run's end leaves it an empty copy, and that is a good one.
LEMMA NothingIsGood == Nothing \in Channels /\ Whole(Nothing.messages) /\ Known(Nothing.messages)'
  BY DEF Nothing, Channels, Nodes, Whole, Known

\* What a step with a new checkpoint does.
LEMMA AdvanceFacts ==
    ASSUME TypeOK, NEW t \in Turns, NEW c \in Channels, Advance(t, c)
    PROVE  /\ mine' = [mine EXCEPT ![t] = c] /\ mine' \in [Turns -> Channels]
           /\ node' = [node EXCEPT ![t] = c.next]
           /\ node' \in [Turns -> Nodes \cup Over \cup {"idle", "end", "error"}]
           /\ failures' \in [Turns -> 0..Attempts - 1]
           /\ pending' \in Seq([by : Turns, value : Channels])
           /\ pending' # <<>> /\ Last(pending') = [by |-> t, value |-> c]
           /\ Len(pending) \in Nat /\ DOMAIN pending = 1..Len(pending)
           /\ DOMAIN pending' = 1..Len(pending) + 1
           /\ \A i \in DOMAIN pending : pending'[i] = pending[i]
           /\ pending'[Len(pending) + 1] = [by |-> t, value |-> c]
<1> DEFINE S == [by : Turns, value : Channels]
           x == [by |-> t, value |-> c]
<1>1. pending \in Seq(S) /\ x \in S /\ pending' = Append(pending, x)
  BY DEF TypeOK, Advance
<1>2. c.next \in Nodes \cup {"end"}
  BY DEF Channels
<1>3. 0 \in 0..Attempts - 1
  BY AttemptsArePositive
<1> HIDE DEF S, x
<1>4. /\ pending' \in Seq(S)
      /\ pending' # <<>> /\ Last(pending') = x
      /\ Len(pending) \in Nat /\ DOMAIN pending = 1..Len(pending)
      /\ DOMAIN pending' = 1..Len(pending) + 1
      /\ \A i \in DOMAIN pending : pending'[i] = pending[i]
      /\ pending'[Len(pending) + 1] = x
  BY <1>1, AppendFacts
<1>5. /\ mine' = [mine EXCEPT ![t] = c] /\ mine' \in [Turns -> Channels]
      /\ node' = [node EXCEPT ![t] = c.next]
      /\ node' \in [Turns -> Nodes \cup Over \cup {"idle", "end", "error"}]
      /\ failures' \in [Turns -> 0..Attempts - 1]
  BY <1>2, <1>3 DEF TypeOK, Advance
<1> QED
  BY <1>4, <1>5 DEF S, x

\* A message that joins what is known leaves the rest in place.
LEMMA HoldsAppend ==
    ASSUME NEW s \in Seq(Messages), NEW x \in Messages, NEW m \in Messages
    PROVE  /\ Holds(s, m) => Holds(Append(s, x), m)
           /\ Holds(Append(s, x), x)
<1> DEFINE q == Append(s, x)
<1>1. /\ Len(s) \in Nat /\ DOMAIN s = 1..Len(s) /\ DOMAIN q = 1..Len(s) + 1
      /\ \A i \in DOMAIN s : q[i] = s[i]
      /\ q[Len(s) + 1] = x
  BY AppendFacts
<1> HIDE DEF q
<1>2. (Holds(s, m) => Holds(q, m)) /\ Holds(q, x)
  BY <1>1 DEF Holds
<1> QED
  BY <1>2 DEF q

\* What is known of a thread and of a message is known of both together.
LEMMA KnownAppend ==
    ASSUME NEW s \in Seq(Messages), NEW m \in Messages, Known(s)',
           node'[m.by] # "idle", m.role = "ai" => heard'[m.by] = "whole"
    PROVE  Known(Append(s, m))'
<1> DEFINE q == Append(s, m)
<1>1. /\ Len(s) \in Nat /\ DOMAIN s = 1..Len(s) /\ DOMAIN q = 1..Len(s) + 1
      /\ \A i \in DOMAIN s : q[i] = s[i]
      /\ q[Len(s) + 1] = m
  BY AppendFacts
<1> HIDE DEF q
<1>2. Known(q)'
  BY <1>1 DEF Known
<1> QED
  BY <1>2 DEF q

\* A checkpoint that is a good copy, says where its run is, and forgets no
\* message of the copy it was made of, keeps the invariant.
LEMMA AdvanceKeeps ==
    ASSUME IInv, NEW t \in Turns, NEW c \in Channels, Advance(t, c),
           UNCHANGED <<saved, faulty>>,
           heard' = heard \/ heard' = [heard EXCEPT ![t] = "whole"],
           node[t] \in {"idle"} \cup Nodes,
           node[t] = "idle" => \A s \in Turns : Running(s) => s \in lost,
           Whole(c.messages), Known(c.messages)', RunOk(t, c.next, c),
           NEW base \in Channels, base = IF node[t] = "idle" THEN saved ELSE mine[t],
           \A m \in Messages : Holds(base.messages, m) => Holds(c.messages, m)
    PROVE  IInv'
<1> DEFINE x == [by |-> t, value |-> c]
<1>1. /\ mine' = [mine EXCEPT ![t] = c] /\ mine' \in [Turns -> Channels]
      /\ node' = [node EXCEPT ![t] = c.next]
      /\ node' \in [Turns -> Nodes \cup Over \cup {"idle", "end", "error"}]
      /\ failures' \in [Turns -> 0..Attempts - 1]
      /\ pending' \in Seq([by : Turns, value : Channels])
      /\ pending' # <<>> /\ Last(pending') = x
      /\ Len(pending) \in Nat /\ DOMAIN pending = 1..Len(pending)
      /\ DOMAIN pending' = 1..Len(pending) + 1
      /\ \A i \in DOMAIN pending : pending'[i] = pending[i]
      /\ pending'[Len(pending) + 1] = x
  BY AdvanceFacts DEF IInv
<1>2. TypeOK
  BY DEF IInv
<1>3. c.next \in Nodes \cup {"end"} /\ x.by = t /\ x.value = c
  BY DEF Channels
<1> HIDE DEF x
<1>4. TypeOK'
  BY <1>1, <1>2 DEF TypeOK, faulty
<1>5. Onwards
  BY <1>1, <1>2, <1>3 DEF Onwards, TypeOK, Nodes
<1>6. CopyInv'
  <2>1. Copies' \subseteq Copies \cup {c}
    <3>1. \A i \in DOMAIN pending' :
             pending'[i].value \in {pending[j].value : j \in DOMAIN pending} \cup {c}
      BY <1>1, <1>3
    <3>2. \A s \in Turns : mine'[s] \in {mine[u] : u \in Turns} \cup {c}
      BY <1>1, <1>2 DEF TypeOK
    <3> QED
      BY <3>1, <3>2 DEF Copies
  <2> QED
    BY <1>2, <1>5, <2>1, CopiesKeep DEF IInv
<1>7. RunInv'
  BY <1>1, <1>2 DEF IInv, RunInv, RunOk, TypeOK
<1>8. PendingInv'
  <2> SUFFICES ASSUME NEW i \in DOMAIN pending' PROVE node'[pending'[i].by] # "idle"
    BY DEF PendingInv
  <2>1. CASE i \in DOMAIN pending
    <3>1. pending[i].by \in Turns
      BY <1>2, <2>1, PendingAre
    <3> QED
      BY <1>1, <1>5, <2>1, <3>1 DEF IInv, PendingInv, Onwards
  <2>2. CASE i = Len(pending) + 1
    BY <1>1, <1>2, <1>3, <2>2 DEF TypeOK, Nodes
  <2> QED
    BY <1>1, <2>1, <2>2
<1>9. SerialInv'
  <2> SUFFICES ASSUME lost = {} PROVE
         /\ \A s, u \in Turns : Running(s)' /\ Running(u)' => s = u
         /\ \A s \in Turns : Running(s)' => Newest(s)'
         /\ \A s \in Turns : node'[s] = "done" =>
               /\ Answered(s, saved.messages)
               /\ \A i \in DOMAIN pending' : Answered(s, pending'[i].value.messages)
               /\ \A u \in Turns : Running(u)' => Answered(s, mine'[u].messages)
    BY DEF SerialInv, faulty
  <2>1. \A s \in Turns : Running(s) => s = t
    BY DEF IInv, SerialInv, Running, Nodes, Over
  <2>2. \A s \in Turns : Running(s)' <=> s = t
    BY <1>1, <1>2, <1>3, <2>1 DEF Running, Nodes, Over, TypeOK
  <2>3. Newest(t)'
    <3>1. mine'[t] = c
      BY <1>1, <1>2 DEF TypeOK
    <3>2. ASSUME NEW i \in DOMAIN pending, pending[i].by = t,
                 NEW j \in DOMAIN pending, i <= j
          PROVE  pending[j].by = t
      <4>1. Running(t)
        BY <1>2, <3>2 DEF IInv, PendingInv, Running, Nodes, Over
      <4>2. Newest(t)
        BY <4>1 DEF IInv, SerialInv
      <4> QED
        BY <3>2, <4>2, <1>1 DEF Newest
    <3>3. ASSUME NEW i \in DOMAIN pending', NEW j \in DOMAIN pending', i <= j,
                 pending'[i].by = t
          PROVE  pending'[j].by = t
      BY <1>1, <1>3, <3>2, <3>3, SMTT(30)
    <3> QED
      BY <1>1, <3>1, <3>3 DEF Newest, x
  <2>4. ASSUME NEW s \in Turns, node'[s] = "done"
        PROVE  /\ Answered(s, saved.messages)
               /\ \A i \in DOMAIN pending' : Answered(s, pending'[i].value.messages)
               /\ \A u \in Turns : Running(u)' => Answered(s, mine'[u].messages)
    <3>1. node[s] = "done" /\ s # t
      BY <1>1, <1>2, <1>3, <2>4 DEF TypeOK, Nodes
    <3>2. /\ Answered(s, saved.messages)
          /\ \A i \in DOMAIN pending : Answered(s, pending[i].value.messages)
          /\ \A u \in Turns : Running(u) => Answered(s, mine[u].messages)
      BY <3>1 DEF IInv, SerialInv
    <3>3. Answered(s, base.messages)
      BY <3>2 DEF Running, Nodes, Over
    <3>4. Answered(s, c.messages)
      BY <3>3, MessagesAre DEF Answered
    <3>5. mine'[t] = c
      BY <1>1, <1>2 DEF TypeOK
    <3>6. ASSUME NEW i \in DOMAIN pending'
          PROVE  Answered(s, pending'[i].value.messages)
      <4>1. CASE i \in DOMAIN pending
        BY <1>1, <3>2, <4>1
      <4>2. CASE i = Len(pending) + 1
        BY <1>1, <1>3, <3>4, <4>2
      <4> QED
        BY <1>1, <4>1, <4>2
    <3> QED
      BY <2>2, <3>2, <3>4, <3>5, <3>6
  <2> QED
    BY <2>2, <2>3, <2>4
<1> QED
  BY <1>4, <1>6, <1>7, <1>8, <1>9 DEF IInv

----------------------------------------------------------------------------
(* The steps that write a checkpoint.                                      *)

\* A copy with one more message of t's, and the next node.
Extended(copy, message, next) ==
    [copy EXCEPT !.messages = Append(@, message), !.next = next]

LEMMA ExtendedFacts ==
    ASSUME NEW copy \in Channels, NEW m \in Messages, NEW next \in Nodes \cup {"end"},
           NEW c, c = Extended(copy, m, next)
    PROVE  /\ copy.messages \in Seq(Messages)
           /\ c \in Channels
           /\ c.messages = Append(copy.messages, m)
           /\ c.messages # <<>> /\ Last(c.messages) = m
           /\ c.next = next
           /\ c.plan = copy.plan
           /\ \A n \in Messages : Holds(copy.messages, n) => Holds(c.messages, n)
<1>1. copy.messages \in Seq(Messages)
  BY DEF Channels
<1>2. PICK q : q = Append(copy.messages, m)
  OBVIOUS
<1>3. q \in Seq(Messages) /\ q # <<>> /\ Last(q) = m
  BY <1>1, <1>2, AppendFacts
<1>4. \A n \in Messages : Holds(copy.messages, n) => Holds(q, n)
  BY <1>1, <1>2, HoldsAppend
<1>5. c = [copy EXCEPT !.messages = q, !.next = next]
  BY <1>2 DEF Extended
<1>6. c \in Channels /\ c.messages = q /\ c.next = next /\ c.plan = copy.plan
  BY <1>3, <1>5 DEF Channels
<1> QED
  BY <1>1, <1>2, <1>3, <1>4, <1>6

\* Such a copy is known when the one it extends was.
LEMMA ExtendedIsKnown ==
    ASSUME Onwards, NEW copy \in Channels, Known(copy.messages),
           NEW m \in Messages, NEW next \in Nodes \cup {"end"}, NEW c, c = Extended(copy, m, next),
           node'[m.by] # "idle", m.role = "ai" => heard'[m.by] = "whole"
    PROVE  Known(c.messages)'
<1>1. copy.messages \in Seq(Messages) /\ c.messages = Append(copy.messages, m)
  BY ExtendedFacts
<1>2. Known(copy.messages)'
  BY <1>1, KnownStays
<1>3. Known(Append(copy.messages, m))'
  BY <1>1, <1>2, KnownAppend
<1> QED
  BY <1>1, <1>3

\* A checkpoint begins a turn or goes on with it.
LEMMA AdvanceGoesOn ==
    ASSUME TypeOK, NEW t \in Turns, NEW c \in Channels, Advance(t, c),
           heard' = heard \/ heard' = [heard EXCEPT ![t] = "whole"]
    PROVE  Onwards /\ node'[t] # "idle"
<1>1. node' = [node EXCEPT ![t] = c.next]
  BY AdvanceFacts
<1>2. c.next # "idle"
  BY DEF Channels, Nodes
<1> QED
  BY <1>1, <1>2 DEF TypeOK, Onwards

\* A run that begins asks a question the thread does not hold yet.
LEMMA BeginKeeps ==
    ASSUME IInv, NEW t \in Turns, BeginRun(t)
    PROVE  IInv'
<1>1. PICK copy \in Channels : copy = saved
  BY DEF IInv, TypeOK
<1>2. PICK c : c = Extended(copy, Human(t), "guardian")
  OBVIOUS
<1>3. Human(t) \in Messages /\ Human(t).by = t /\ Human(t).role = "human"
  BY MessagesAre
<1>4. "guardian" \in Nodes
  BY DEF Nodes
<1>5. /\ copy.messages \in Seq(Messages)
      /\ c \in Channels
      /\ c.messages = Append(copy.messages, Human(t))
      /\ c.messages # <<>> /\ Last(c.messages) = Human(t)
      /\ c.next = "guardian"
      /\ \A n \in Messages : Holds(copy.messages, n) => Holds(c.messages, n)
  BY <1>2, <1>3, <1>4, ExtendedFacts
<1>6. /\ node[t] = "idle" /\ \A s \in Turns : Running(s) => s \in lost
      /\ Advance(t, c) /\ UNCHANGED <<saved, faulty>> /\ heard' = heard
  BY <1>1, <1>2 DEF BeginRun, Entry, Extended
<1>7. node'[t] # "idle" /\ Onwards
  BY <1>5, <1>6, AdvanceGoesOn DEF IInv
<1>8. Whole(copy.messages) /\ Known(copy.messages)
  BY <1>1 DEF IInv, CopyInv, Copies
<1>9. ~Holds(copy.messages, Human(t))
  BY <1>3, <1>6, <1>8 DEF Known, Holds
<1>10. Whole(c.messages)
  BY <1>3, <1>5, <1>8, <1>9, WholeAppend
<1>11. Known(c.messages)'
  BY <1>2, <1>3, <1>4, <1>7, <1>8, ExtendedIsKnown
<1>12. RunOk(t, c.next, c)
  BY <1>5 DEF RunOk
<1> QED
  BY <1>1, <1>5, <1>6, <1>10, <1>11, <1>12, AdvanceKeeps

\* A node that adds no message.
LEMMA PassKeeps ==
    ASSUME IInv, NEW t \in Turns, node[t] \in Nodes, NEW c \in Channels, Advance(t, c),
           UNCHANGED <<saved, heard, faulty>>, c.messages = mine[t].messages,
           RunOk(t, c.next, c)
    PROVE  IInv'
<1>1. PICK copy \in Channels : copy = mine[t]
  BY DEF IInv, TypeOK
<1>2. Whole(c.messages) /\ Known(c.messages) /\ c.messages \in Seq(Messages)
  BY <1>1 DEF IInv, CopyInv, Copies, Channels
<1>3. Known(c.messages)'
  BY <1>2, AdvanceGoesOn, KnownStays DEF IInv
<1>4. node[t] # "idle"
  BY DEF Nodes
<1> QED
  BY <1>1, <1>2, <1>3, <1>4, AdvanceKeeps

\* A node that ends the run with an answer or a refusal.
LEMMA ReplyKeeps ==
    ASSUME IInv, NEW t \in Turns, node[t] \in Nodes,
           NEW m \in {Report(t), Refusal(t)}, Advance(t, Extended(mine[t], m, "end")),
           UNCHANGED <<saved, faulty>>,
           heard' = heard \/ heard' = [heard EXCEPT ![t] = "whole"],
           m = Report(t) => heard'[t] = "whole"
    PROVE  IInv'
<1>1. PICK copy \in Channels : copy = mine[t]
  BY DEF IInv, TypeOK
<1>2. PICK c : c = Extended(copy, m, "end")
  OBVIOUS
<1>3. m \in Messages /\ m.by = t /\ m.role # "human" /\ (m.role = "ai" => m = Report(t))
  BY MessagesAre
<1>4. /\ copy.messages \in Seq(Messages)
      /\ c \in Channels
      /\ c.messages = Append(copy.messages, m)
      /\ c.messages # <<>> /\ Last(c.messages) = m
      /\ c.next = "end"
      /\ \A n \in Messages : Holds(copy.messages, n) => Holds(c.messages, n)
  BY <1>2, <1>3, ExtendedFacts
<1>5. Advance(t, c)
  BY <1>1, <1>2
<1>6. node'[t] # "idle" /\ Onwards
  BY <1>4, <1>5, AdvanceGoesOn DEF IInv
<1>7. Whole(copy.messages) /\ Known(copy.messages)
  BY <1>1 DEF IInv, CopyInv, Copies
<1>8. Whole(c.messages)
  BY <1>1, <1>3, <1>4, <1>7, WholeAppend DEF IInv, RunInv, RunOk
<1>9. Known(c.messages)'
  BY <1>2, <1>3, <1>6, <1>7, ExtendedIsKnown
<1>10. RunOk(t, c.next, c)
  BY <1>4 DEF RunOk, Nodes
<1>11. node[t] # "idle"
  BY DEF Nodes
<1> QED
  BY <1>1, <1>4, <1>5, <1>8, <1>9, <1>10, <1>11, AdvanceKeeps

\* The guardian passes the question on, or answers it with a refusal.
LEMMA GuardKeeps ==
    ASSUME IInv, NEW t \in Turns, Guard(t)
    PROVE  IInv'
<1>1. node[t] \in Nodes /\ mine[t] \in Channels /\ UNCHANGED <<saved, heard, faulty>>
  BY DEF Guard, Nodes, IInv, TypeOK
<1>2. CASE Advance(t, [mine[t] EXCEPT !.next = "query_rewriter"])
  <2>1. PICK c : c = [mine[t] EXCEPT !.next = "query_rewriter"]
    OBVIOUS
  <2>2. /\ c \in Channels /\ c.messages = mine[t].messages
        /\ c.next = "query_rewriter"
    BY <1>1, <2>1 DEF Channels, Nodes
  <2>3. RunOk(t, c.next, c)
    BY <1>1, <2>2 DEF IInv, RunInv, RunOk
  <2> QED
    BY <1>1, <1>2, <2>1, <2>2, <2>3, PassKeeps
<1>3. CASE Advance(t, [mine[t] EXCEPT !.messages = Append(@, Refusal(t)), !.next = "end"])
  <2>1. Refusal(t) # Report(t)
    BY MessagesAre
  <2> QED
    BY <1>1, <1>3, <2>1, ReplyKeeps DEF Extended
<1> QED
  BY <1>2, <1>3 DEF Guard

\* The plan is made for the turn whose question is the last of the thread.
LEMMA RewriteKeeps ==
    ASSUME IInv, NEW t \in Turns, Rewrite(t)
    PROVE  IInv'
<1>1. node[t] \in Nodes /\ mine[t] \in Channels /\ UNCHANGED <<saved, heard, faulty>>
  BY DEF Rewrite, Nodes, IInv, TypeOK
<1>2. PICK labels \in SUBSET Labels :
         Advance(t, [mine[t] EXCEPT !.plan = PlanFor(t, labels), !.next = "retriever"])
  BY DEF Rewrite
<1>3. mine[t].messages # <<>> /\ Last(mine[t].messages) = Human(t)
  BY <1>1 DEF IInv, RunInv, RunOk
<1>4. LastHuman(mine[t].messages) = t
  BY <1>1, <1>3, LastIsLastHuman DEF Channels
<1>5. PICK plan : plan = PlanFor(t, labels)
  OBVIOUS
<1>6. plan \in SUBSET Searches /\ plan # {} /\ \A search \in plan : search.by = t
  <2>1. CASE labels = {}
    BY <1>4, <1>5, <2>1 DEF PlanFor, Searches
  <2>2. CASE labels # {}
    <3>1. plan = [by : {t}, label : labels]
      BY <1>4, <1>5, <2>2 DEF PlanFor
    <3>2. PICK label \in labels : TRUE
      BY <2>2
    <3>3. [by |-> t, label |-> label] \in plan
      BY <3>1, <3>2
    <3> QED
      BY <3>1, <3>3 DEF Searches
  <2> QED
    BY <2>1, <2>2
<1>7. PICK c : c = [mine[t] EXCEPT !.plan = plan, !.next = "retriever"]
  OBVIOUS
<1>8. /\ c \in Channels /\ c.messages = mine[t].messages
      /\ c.next = "retriever" /\ c.plan = plan
  BY <1>1, <1>6, <1>7 DEF Channels, Nodes
<1>9. RunOk(t, c.next, c)
  BY <1>3, <1>6, <1>8 DEF RunOk
<1> QED
  BY <1>1, <1>2, <1>5, <1>7, <1>8, <1>9, PassKeeps

\* The retriever adds notes or none, and messages never.
LEMMA RetrieveKeeps ==
    ASSUME IInv, NEW t \in Turns, Retrieve(t)
    PROVE  IInv'
<1>1. node[t] \in Nodes /\ mine[t] \in Channels /\ UNCHANGED <<saved, heard, faulty>>
  BY DEF Retrieve, Nodes, IInv, TypeOK
<1>2. PICK notes \in Seq(Turns) :
         Advance(t, [mine[t] EXCEPT !.notes = notes, !.next = "writer"])
  <2>1. mine[t].notes \in Seq(Turns)
    BY <1>1 DEF Channels
  <2>2. Append(mine[t].notes, t) \in Seq(Turns)
    BY <2>1, AppendFacts
  <2>3. [mine[t] EXCEPT !.next = "writer"]
           = [mine[t] EXCEPT !.notes = mine[t].notes, !.next = "writer"]
    BY <1>1 DEF Channels
  <2> QED
    BY <2>1, <2>2, <2>3 DEF Retrieve, NotesPlus
<1>3. PICK c : c = [mine[t] EXCEPT !.notes = notes, !.next = "writer"]
  OBVIOUS
<1>4. c \in Channels /\ c.messages = mine[t].messages /\ c.next = "writer"
  BY <1>1, <1>3 DEF Channels, Nodes
<1>5. RunOk(t, c.next, c)
  BY <1>1, <1>4 DEF IInv, RunInv, RunOk
<1> QED
  BY <1>1, <1>2, <1>3, <1>4, <1>5, PassKeeps

\* A report joins the thread when the router has heard all of it.
LEMMA FinishReportKeeps ==
    ASSUME IInv, NEW t \in Turns, FinishReport(t)
    PROVE  IInv'
<1>1. /\ node[t] \in Nodes /\ UNCHANGED <<saved, faulty>>
      /\ heard' = [heard EXCEPT ![t] = "whole"] /\ heard'[t] = "whole"
      /\ Advance(t, Extended(mine[t], Report(t), "end"))
  BY DEF FinishReport, Nodes, IInv, TypeOK, Extended
<1> QED
  BY <1>1, ReplyKeeps

----------------------------------------------------------------------------
(* The steps that write none.                                              *)

\* A step that leaves every copy and every run where it is.
LEMMA StillKeeps ==
    ASSUME IInv, TypeOK', UNCHANGED <<saved, pending, node, mine>>,
           \A t \in Turns : heard[t] = "whole" => heard'[t] = "whole",
           lost' = {} => lost = {}
    PROVE  IInv'
<1>1. Onwards /\ TypeOK
  BY DEF Onwards, IInv
<1>2. CopyInv'
  <2>1. Copies' \subseteq Copies \cup {Nothing}
    BY DEF Copies
  <2> QED
    BY <1>1, <2>1, NothingIsGood, CopiesKeep DEF IInv
<1>3. RunInv' /\ PendingInv'
  BY DEF IInv, RunInv, PendingInv, RunOk
<1>4. SerialInv'
  BY DEF IInv, SerialInv, Newest, Running
<1> QED
  BY <1>2, <1>3, <1>4 DEF IInv

\* A run that raised or is over keeps nothing, and no run begins.
LEMMA RunsOverKeep ==
    ASSUME IInv, TypeOK', UNCHANGED <<saved, pending, heard, lost>>,
           NEW t \in Turns, NEW label \in {"error"} \cup Over,
           node[t] # "idle", node' = [node EXCEPT ![t] = label],
           \/ label = "error" /\ Running(t) /\ mine' = mine
           \/ label \in Over /\ mine' = [mine EXCEPT ![t] = Nothing],
           label = "done" => node[t] = "end" /\ Pending(t) = {}
    PROVE  IInv'
<1>1. TypeOK /\ Onwards
  BY DEF IInv, TypeOK, Onwards, Over
<1>2. CopyInv'
  <2>1. Copies' \subseteq Copies \cup {Nothing}
    BY <1>1 DEF Copies, TypeOK
  <2> QED
    BY <1>1, <2>1, NothingIsGood, CopiesKeep DEF IInv
<1>3. RunInv'
  BY <1>1, SMTT(30) DEF IInv, RunInv, RunOk, TypeOK, Nodes, Over
<1>4. PendingInv'
  <2> SUFFICES ASSUME NEW i \in DOMAIN pending PROVE node'[pending[i].by] # "idle"
    BY DEF PendingInv
  <2>1. pending[i].by \in Turns
    BY <1>1, PendingAre
  <2> QED
    BY <1>1, <2>1 DEF IInv, PendingInv, Onwards
<1>5. SerialInv'
  <2> SUFFICES ASSUME lost = {} PROVE
         /\ \A s, u \in Turns : Running(s)' /\ Running(u)' => s = u
         /\ \A s \in Turns : Running(s)' => Newest(s)'
         /\ \A s \in Turns : node'[s] = "done" =>
               /\ Answered(s, saved.messages)
               /\ \A i \in DOMAIN pending : Answered(s, pending[i].value.messages)
               /\ \A u \in Turns : Running(u)' => Answered(s, mine'[u].messages)
    BY DEF SerialInv
  <2>1. \A s \in Turns : Running(s)' => Running(s) /\ mine'[s] = mine[s]
    BY <1>1 DEF TypeOK, Running, Over
  <2>2. \A s \in Turns : Running(s)' => Newest(s)'
    BY <2>1 DEF IInv, SerialInv, Newest
  <2>3. ASSUME NEW s \in Turns, node'[s] = "done"
        PROVE  /\ Answered(s, saved.messages)
               /\ \A i \in DOMAIN pending : Answered(s, pending[i].value.messages)
               /\ \A u \in Turns : Running(u)' => Answered(s, mine'[u].messages)
    <3>1. CASE node[s] = "done"
      BY <2>1, <3>1 DEF IInv, SerialInv
    <3>2. CASE node[s] # "done"
      <4>1. s = t /\ node[t] = "end" /\ Pending(t) = {} /\ Running(t)
        BY <1>1, <2>3, <3>2 DEF TypeOK, Running, Over
      <4>2. Newest(t)
        BY <4>1 DEF IInv, SerialInv
      <4>3. pending = <<>> /\ saved = mine[t]
        <5>1. CASE pending # <<>>
          <6>1. Len(pending) \in DOMAIN pending
            BY <1>1, <5>1, ElementFacts, EmptySeq DEF TypeOK
          <6>2. pending[Len(pending)].by = t
            BY <4>2, <5>1 DEF Newest, Last
          <6> QED
            BY <4>1, <6>1, <6>2 DEF Pending
        <5> QED
          BY <4>2, <5>1 DEF Newest
      <4>4. Answered(t, mine[t].messages)
        <5>1. PICK s1 \in Seq(Messages) : s1 = mine[t].messages
          BY <1>1 DEF TypeOK, Channels
        <5>2. s1 # <<>> /\ Last(s1) \in {Report(t), Refusal(t)} /\ Whole(s1)
          BY <4>1, <5>1 DEF IInv, RunInv, RunOk, CopyInv, Copies
        <5>3. Len(s1) \in Nat /\ DOMAIN s1 = 1..Len(s1) /\ Len(s1) \in DOMAIN s1
          BY <5>1, <5>2, ElementFacts, EmptySeq
        <5>4. Len(s1) > 1 /\ s1[Len(s1) - 1] = Human(t)
          BY <5>2, <5>3, MessagesAre DEF Whole, Last
        <5>5. Len(s1) - 1 \in DOMAIN s1
          BY <5>3, <5>4
        <5> QED
          BY <5>1, <5>2, <5>3, <5>4, <5>5 DEF Answered, Holds, Last
      <4>5. DOMAIN pending = {}
        BY <4>3
      <4>6. \A u \in Turns : ~Running(u)'
        BY <1>1, <2>1, <2>3, <4>1 DEF IInv, SerialInv, Running, Over
      <4> QED
        BY <4>1, <4>3, <4>4, <4>5, <4>6
    <3> QED
      BY <3>1, <3>2
  <2> QED
    BY <2>1, <2>2, <2>3 DEF IInv, SerialInv
<1> QED
  BY <1>2, <1>3, <1>4, <1>5 DEF IInv

\* What stays under way when the i-th checkpoint landed.
LEMMA NewerFacts ==
    ASSUME TypeOK, NEW i \in DOMAIN pending
    PROVE  /\ NewerThan(i) \in Seq([by : Turns, value : Channels])
           /\ i \in Nat /\ Len(pending) \in Nat
           /\ DOMAIN pending = 1..Len(pending)
           /\ Len(NewerThan(i)) = Len(pending) - i
           /\ DOMAIN NewerThan(i) = 1..Len(pending) - i
           /\ \A j \in DOMAIN NewerThan(i) :
                 i + j \in DOMAIN pending /\ NewerThan(i)[j] = pending[i + j]
<1> DEFINE S == [by : Turns, value : Channels]
<1>1. pending \in Seq(S)
  BY DEF TypeOK
<1> HIDE DEF S
<1>2. PICK q : q = SubSeq(pending, i + 1, Len(pending))
  OBVIOUS
<1>3. /\ Len(pending) \in Nat /\ DOMAIN pending = 1..Len(pending) /\ i \in Nat
      /\ \A j \in DOMAIN pending : pending[j] \in S
  BY <1>1, ElementFacts
<1>4. i + 1 \in Int /\ Len(pending) \in Int /\ \A j \in i + 1..Len(pending) : pending[j] \in S
  BY <1>3
<1>5. /\ q \in Seq(S)
      /\ Len(q) = IF i + 1 <= Len(pending) THEN Len(pending) - (i + 1) + 1 ELSE 0
      /\ \A j \in 1..Len(pending) - (i + 1) + 1 : q[j] = pending[i + 1 + j - 1]
  BY <1>2, <1>4, SubSeqProperties
<1>6. DOMAIN q = 1..Len(q)
  BY <1>5, ElementFacts
<1>7. Len(q) = Len(pending) - i
  BY <1>3, <1>5
<1>8. \A j \in DOMAIN q : i + j \in DOMAIN pending /\ q[j] = pending[i + j]
  BY <1>3, <1>5, <1>6, <1>7
<1> QED
  BY <1>2, <1>3, <1>5, <1>6, <1>7, <1>8 DEF NewerThan, S

\* A checkpoint that lands was a good copy, and discards only older ones.
LEMMA FlushKeeps ==
    ASSUME IInv, NEW t \in Turns, Flush(t)
    PROVE  IInv'
<1>1. PICK i \in DOMAIN pending :
         /\ pending[i].by = t
         /\ \A j \in DOMAIN pending : pending[j].by = t => i <= j
         /\ saved' = pending[i].value
         /\ pending' = NewerThan(i)
         /\ UNCHANGED <<node, mine, failures, heard, faulty>>
  BY DEF Flush, Pending
<1>2. TypeOK
  BY DEF IInv
<1>3. /\ pending' \in Seq([by : Turns, value : Channels])
      /\ i \in Nat /\ Len(pending) \in Nat
      /\ DOMAIN pending = 1..Len(pending)
      /\ Len(pending') = Len(pending) - i
      /\ DOMAIN pending' = 1..Len(pending) - i
      /\ \A j \in DOMAIN pending' :
            i + j \in DOMAIN pending /\ pending'[j] = pending[i + j]
  BY <1>1, <1>2, NewerFacts
<1>4. TypeOK'
  BY <1>1, <1>2, <1>3, PendingAre DEF TypeOK, faulty
<1>5. Onwards
  BY <1>1 DEF Onwards
<1>6. CopyInv'
  <2>1. Copies' \subseteq Copies \cup {Nothing}
    BY <1>1, <1>3 DEF Copies
  <2> QED
    BY <1>2, <1>5, <2>1, NothingIsGood, CopiesKeep DEF IInv
<1>7. RunInv'
  BY <1>1 DEF IInv, RunInv, RunOk
<1>8. PendingInv'
  BY <1>1, <1>3 DEF IInv, PendingInv
<1>9. SerialInv'
  <2> SUFFICES ASSUME lost = {} PROVE
         /\ \A s, u \in Turns : Running(s) /\ Running(u) => s = u
         /\ \A s \in Turns : Running(s) => Newest(s)'
         /\ \A s \in Turns : node[s] = "done" =>
               /\ Answered(s, saved'.messages)
               /\ \A j \in DOMAIN pending' : Answered(s, pending'[j].value.messages)
               /\ \A u \in Turns : Running(u) => Answered(s, mine[u].messages)
    BY <1>1 DEF SerialInv, Running, faulty
  <2>1. ASSUME NEW s \in Turns, Running(s) PROVE Newest(s)'
    <3>1. /\ pending[Len(pending)] = [by |-> s, value |-> mine[s]]
          /\ \A j, k \in DOMAIN pending : j <= k /\ pending[j].by = s => pending[k].by = s
      BY <1>3, <2>1 DEF IInv, SerialInv, Newest, Last
    <3>2. CASE i = Len(pending)
      <4>1. pending' = <<>>
        BY <1>3, <3>2, EmptySeq
      <4>2. saved' = mine'[s]
        BY <1>1, <3>1, <3>2
      <4> QED
        BY <4>1, <4>2 DEF Newest
    <3>3. CASE i # Len(pending)
      <4>1. Len(pending') > 0 /\ Len(pending') \in DOMAIN pending'
        BY <1>3, <3>3
      <4>2. pending' # <<>> /\ pending'[Len(pending')] = [by |-> s, value |-> mine'[s]]
        BY <1>1, <1>3, <3>1, <4>1
      <4>3. \A j, k \in DOMAIN pending' :
               j <= k /\ pending'[j].by = s => pending'[k].by = s
        BY <1>3, <3>1
      <4> QED
        BY <4>2, <4>3 DEF Newest, Last
    <3> QED
      BY <3>2, <3>3
  <2>2. ASSUME NEW s \in Turns, node[s] = "done"
        PROVE  /\ Answered(s, saved'.messages)
               /\ \A j \in DOMAIN pending' : Answered(s, pending'[j].value.messages)
               /\ \A u \in Turns : Running(u) => Answered(s, mine[u].messages)
    BY <1>1, <1>3, <2>2 DEF IInv, SerialInv
  <2> QED
    BY <2>1, <2>2 DEF IInv, SerialInv
<1> QED
  BY <1>4, <1>6, <1>7, <1>8, <1>9 DEF IInv

\* A crash leaves the stored thread and nothing else.
LEMMA CrashKeeps ==
    ASSUME IInv, Crash
    PROVE  IInv'
<1> USE DEF Crash
<1>1. TypeOK /\ Nothing \in Channels
  BY NothingIsGood DEF IInv
<1>2. DOMAIN pending' = {} /\ pending' \in Seq([by : Turns, value : Channels])
  OBVIOUS
<1>3. \A t \in Turns : /\ mine'[t] = Nothing
                       /\ node'[t] = IF Running(t) THEN "failed" ELSE node[t]
  OBVIOUS
<1>4. TypeOK'
  <2>1. 0 \in 0..Attempts - 1
    BY AttemptsArePositive
  <2>2. crashes' \in 0..MaxCrashes
    BY <1>1, BoundsAreNatural DEF TypeOK
  <2> QED
    BY <1>1, <1>2, <2>1, <2>2 DEF TypeOK, Over
<1>5. Onwards
  BY <1>3 DEF Onwards, Running
<1>6. CopyInv'
  <2>1. Copies' \subseteq Copies \cup {Nothing}
    BY <1>2, <1>3 DEF Copies
  <2> QED
    BY <1>1, <1>5, <2>1, NothingIsGood, CopiesKeep DEF IInv
<1>7. \A t \in Turns : ~Running(t)' /\ node'[t] \notin Nodes \cup {"end"}
  BY <1>1, <1>3 DEF TypeOK, Running, Over, Nodes
<1>8. RunInv'
  BY <1>7 DEF RunInv, RunOk, Nodes
<1>9. PendingInv'
  BY <1>2 DEF PendingInv
<1>10. SerialInv'
  BY <1>2, <1>3, <1>7 DEF IInv, SerialInv
<1> QED
  BY <1>4, <1>6, <1>8, <1>9, <1>10 DEF IInv

----------------------------------------------------------------------------
(* The theorems.                                                           *)

\* Every step keeps the invariant.
LEMMA StepKeeps ==
    ASSUME IInv, [Next]_vars
    PROVE  IInv'
<1>1. TypeOK
  BY DEF IInv
<1>2. CASE UNCHANGED vars
  <2>1. TypeOK'
    BY <1>1, <1>2 DEF TypeOK, vars, faulty
  <2> QED
    BY <1>2, <2>1, StillKeeps DEF vars, faulty
<1>3. CASE Crash
  BY <1>3, CrashKeeps
<1>4. ASSUME NEW t \in Turns, BeginRun(t) \/ Step(t) \/ Cancel(t) \/ LoseConnection(t)
      PROVE  IInv'
  <2>1. CASE BeginRun(t)
    BY <2>1, BeginKeeps
  <2>2. CASE Flush(t)
    BY <2>2, FlushKeeps
  <2>3. CASE Guard(t) \/ Rewrite(t) \/ Retrieve(t) \/ FinishReport(t)
    BY <2>3, GuardKeeps, RewriteKeeps, RetrieveKeeps, FinishReportKeeps
  <2>4. CASE OpenStream(t)
    <3>1. TypeOK'
      BY <1>1, <2>4 DEF OpenStream, TypeOK, faulty
    <3>2. \A s \in Turns : heard[s] = "whole" => heard'[s] = "whole"
      BY <1>1, <2>4 DEF OpenStream, TypeOK
    <3> QED
      BY <2>4, <3>1, <3>2, StillKeeps DEF OpenStream, faulty
  <2>5. CASE Retry(t)
    <3>1. failures[t] + 1 \in 0..Attempts - 1
      BY <1>1, <2>5, AttemptsArePositive DEF Retry, TypeOK
    <3>2. TypeOK'
      BY <1>1, <2>5, <3>1 DEF Retry, TypeOK, faulty
    <3> QED
      BY <2>5, <3>2, StillKeeps DEF Retry, faulty
  <2>6. CASE Raise(t)
    <3>1. TypeOK'
      BY <1>1, <2>6 DEF Raise, TypeOK, faulty
    <3>2. Running(t) /\ node[t] # "idle"
      BY <2>6 DEF Raise, Running, Nodes, Over
    <3> QED
      BY <2>6, <3>1, <3>2, RunsOverKeep DEF Raise, faulty
  <2>7. CASE EndRun(t)
    <3> DEFINE label == IF node[t] = "end" THEN "done" ELSE "failed"
    <3>1. TypeOK'
      BY <1>1, <2>7, NothingIsGood, AttemptsArePositive
         DEF EndRun, Leave, TypeOK, faulty, Over
    <3>2. label \in Over /\ node[t] # "idle" /\ (label = "done" => node[t] = "end")
      BY <2>7 DEF EndRun, Over
    <3>3. node' = [node EXCEPT ![t] = label] /\ mine' = [mine EXCEPT ![t] = Nothing]
          /\ Pending(t) = {} /\ UNCHANGED <<saved, pending, heard, lost>>
      BY <2>7 DEF EndRun, Leave, faulty
    <3> HIDE DEF label
    <3> QED
      BY <3>1, <3>2, <3>3, RunsOverKeep
  <2>8. CASE Cancel(t)
    <3>1. TypeOK'
      BY <1>1, <2>8, NothingIsGood, AttemptsArePositive
         DEF Cancel, Leave, TypeOK, faulty, Over
    <3>2. "cancelled" \in Over /\ node[t] # "idle"
      BY <2>8 DEF Cancel, Running, Over
    <3> QED
      BY <2>8, <3>1, <3>2, RunsOverKeep DEF Cancel, Leave, faulty
  <2>9. CASE LoseConnection(t)
    <3>1. TypeOK'
      BY <1>1, <2>9 DEF LoseConnection, TypeOK
    <3> QED
      BY <2>9, <3>1, StillKeeps DEF LoseConnection
  <2> QED
    BY <1>4, <2>1, <2>2, <2>3, <2>4, <2>5, <2>6, <2>7, <2>8, <2>9 DEF Step
<1> QED
  BY <1>2, <1>3, <1>4 DEF Next

\* The invariant holds of every reachable state.
THEOREM Inductive == Spec => []IInv
<1>1. Init => IInv
  <2> SUFFICES ASSUME Init PROVE IInv
    OBVIOUS
  <2> USE DEF Init
  <2>1. Nothing \in Channels /\ Nothing.messages = <<>>
    BY NothingIsGood DEF Nothing
  <2>2. 0 \in 0..Attempts - 1 /\ 0 \in 0..MaxCrashes
    BY AttemptsArePositive, BoundsAreNatural
  <2>3. TypeOK
    BY <2>1, <2>2 DEF TypeOK
  <2>4. CopyInv
    BY <2>1 DEF CopyInv, Copies, Whole, Known
  <2>5. RunInv /\ PendingInv /\ SerialInv
    BY DEF RunInv, RunOk, PendingInv, SerialInv, Running, Nodes
  <2> QED
    BY <2>3, <2>4, <2>5 DEF IInv
<1> QED
  BY <1>1, StepKeeps, PTL DEF Spec

\* The variables keep their types for any turns, labels and bounds.
THEOREM TypeCorrect == Spec => []TypeOK
<1>1. IInv => TypeOK
  BY DEF IInv
<1> QED
  BY <1>1, Inductive, PTL

\* However many turns are refused, fail, are cut off or fork the thread, the
\* writer is asked its own request's question.
THEOREM OwnQuestion == Spec => []AnswersOwnQuestion
<1>1. IInv => AnswersOwnQuestion
  <2> SUFFICES ASSUME IInv, NEW t \in Turns, node[t] = "writer"
               PROVE  LastHuman(mine[t].messages) = t
    BY DEF AnswersOwnQuestion, Prompt
  <2>1. mine[t].messages # <<>> /\ Last(mine[t].messages) = Human(t)
    BY DEF IInv, RunInv, RunOk, Nodes
  <2>2. mine[t].messages \in Seq(Messages)
    BY DEF IInv, TypeOK, Channels
  <2> QED
    BY <2>1, <2>2, LastIsLastHuman
<1> QED
  BY <1>1, Inductive, PTL

\* A retriever searches for something, and only what this turn planned.
THEOREM OwnPlan == Spec => []SearchesOwnPlan
<1>1. IInv => SearchesOwnPlan
  BY DEF IInv, RunInv, RunOk, SearchesOwnPlan
<1> QED
  BY <1>1, Inductive, PTL

\* In the stored thread no question is there twice, and every answer and
\* refusal follows its own question.
THEOREM WholeTurns == Spec => []ThreadTurnsAreWhole
<1>1. IInv => ThreadTurnsAreWhole
  <2> SUFFICES ASSUME IInv PROVE ThreadTurnsAreWhole
    OBVIOUS
  <2> DEFINE messages == saved.messages
  <2>1. Whole(messages)
    BY DEF IInv, CopyInv, Copies
  <2>2. ASSUME NEW t \in Turns
        PROVE  Cardinality(Position(messages, Human(t))) <= 1
    <3>1. CASE Position(messages, Human(t)) = {}
      BY <3>1, FS_EmptySet
    <3>2. CASE Position(messages, Human(t)) # {}
      <4>1. PICK i \in DOMAIN messages : messages[i] = Human(t)
        BY <3>2 DEF Position
      <4>2. Position(messages, Human(t)) = {i}
        BY <2>1, <4>1, MessagesAre DEF Whole, Position
      <4>3. Cardinality({i}) = 1
        BY FS_Singleton
      <4> QED
        BY <4>2, <4>3
    <3> QED
      BY <3>1, <3>2
  <2> QED
    BY <2>1, <2>2 DEF Whole, ThreadTurnsAreWhole
<1> QED
  BY <1>1, Inductive, PTL

\* The stored thread holds no report that the client did not see to its end.
THEOREM WholeReports == Spec => []RemembersWholeReports
<1>1. IInv => RemembersWholeReports
  BY MessagesAre DEF IInv, CopyInv, Copies, Known, RemembersWholeReports, Position
<1> QED
  BY <1>1, Inductive, PTL

\* While no run lost its connection, a turn that ended stays in the thread,
\* with its question and its answer or refusal.
THEOREM FinishedStay == Spec => []FinishedTurnsStay
<1>1. IInv => FinishedTurnsStay
  BY DEF IInv, SerialInv, Answered, Holds, FinishedTurnsStay, Position
<1> QED
  BY <1>1, Inductive, PTL

============================================================================
