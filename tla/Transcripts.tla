---------------------------- MODULE Transcripts ----------------------------
(***************************************************************************)
(* What the conversation store promises its users, whatever the            *)
(* interleaving of requests, faults and locks behind it: chats appear and  *)
(* disappear, and a transcript grows by one whole turn at a time.          *)
(*                                                                         *)
(* A turn is the user's question alone (the answer failed or was cut off)  *)
(* or the question directly followed by the assistant's answer to it.  A   *)
(* chat that holds a message is dropped only by its owner's explicit       *)
(* deletion, never by the sweep of unused chats.                           *)
(***************************************************************************)
EXTENDS Naturals, Sequences, TLAPS

CONSTANTS
    Users,
    Chats,      \* conversation ids
    Requests,   \* HTTP requests, each of which authors at most one turn
    None        \* no owner: the conversation row does not exist

VARIABLES
    live,       \* the conversations whose row exists
    owner,      \* owner[c]: whose conversation c is
    messages    \* messages[c]: the committed transcript, oldest first

vars == <<live, owner, messages>>

\* One entry of the JSONB list Conversation.messages.  Its id, time and text
\* are those of the request that wrote it.
Question(r) == [role |-> "user", by |-> r]
Answer(r) == [role |-> "assistant", by |-> r]
Message == [role : {"user", "assistant"}, by : Requests]

\* Transcript s grown by a whole turn of r, unanswered or answered.
Grown(s, r) == {Append(s, Question(r)),
                Append(Append(s, Question(r)), Answer(r))}

Wrote(r, s) == \E i \in DOMAIN s : s[i].by = r

Init ==
    /\ live \subseteq Chats
    /\ owner \in [Chats -> Users \cup {None}]
    /\ \A c \in Chats : c \in live <=> owner[c] # None
    /\ messages = [c \in Chats |-> <<>>]

\* POST /chats: the user's unused chats in `swept` go, chat c appears.
Open(u, c, swept) ==
    /\ c \notin live
    /\ \A d \in swept : owner[d] = u /\ messages[d] = <<>>
    /\ live' = (live \ swept) \cup {c}
    /\ owner' = [d \in Chats |-> IF d = c THEN u
                                 ELSE IF d \in swept THEN None ELSE owner[d]]
    /\ UNCHANGED messages

\* DELETE /chats/{c}: the row goes with everything in it.
Close(c) ==
    /\ c \in live
    /\ live' = live \ {c}
    /\ owner' = [owner EXCEPT ![c] = None]
    /\ messages' = [messages EXCEPT ![c] = <<>>]

\* POST /chats/{c}/ask/stream: one whole turn of a request that wrote none yet.
Ask(c, r) ==
    /\ c \in live
    /\ \A d \in Chats : ~Wrote(r, messages[d])
    /\ \E s \in Grown(messages[c], r) : messages' = [messages EXCEPT ![c] = s]
    /\ UNCHANGED <<live, owner>>

Next ==
    \/ \E u \in Users, c \in Chats, swept \in SUBSET live : Open(u, c, swept)
    \/ \E c \in Chats : Close(c)
    \/ \E c \in Chats, r \in Requests : Ask(c, r)

Spec == Init /\ [][Next]_vars

----------------------------------------------------------------------------

\* Every answer directly follows the question it answers, and nothing is
\* written twice.
WholeTurns(s) ==
    /\ \A i \in DOMAIN s :
          s[i].role = "assistant" => i > 1 /\ s[i - 1] = Question(s[i].by)
    /\ \A i, j \in DOMAIN s : s[i] = s[j] => i = j

\* Transcripts are made of whole turns: what every interleaving of requests in
\* routers/ask.py must leave in the JSONB list.
TranscriptsOfWholeTurns == \A c \in Chats : WholeTurns(messages[c])

----------------------------------------------------------------------------

\* A whole turn of a newcomer leaves a transcript of whole turns.
LEMMA GrownIsWhole ==
    ASSUME NEW s \in Seq(Message), NEW r \in Requests, WholeTurns(s), ~Wrote(r, s),
           NEW t \in Grown(s, r)
    PROVE  WholeTurns(t) /\ t \in Seq(Message)
<1> DEFINE q == Append(s, Question(r))
<1>1. Question(r) \in Message /\ Answer(r) \in Message
  BY DEF Question, Answer, Message
<1>2. /\ q \in Seq(Message) /\ Len(q) = Len(s) + 1 /\ q[Len(q)] = Question(r)
      /\ \A i \in 1..Len(s) : q[i] = s[i]
  BY <1>1
<1>3. \A i \in 1..Len(s) : s[i] # Question(r) /\ s[i] # Answer(r)
  BY DEF Wrote, Question, Answer
<1>4. WholeTurns(q)
  BY <1>1, <1>2, <1>3 DEF WholeTurns, Question
<1> HIDE DEF q
<1>5. CASE t = q
  BY <1>2, <1>4, <1>5
<1>6. CASE t = Append(q, Answer(r))
  <2>1. /\ t \in Seq(Message) /\ Len(t) = Len(q) + 1 /\ t[Len(t)] = Answer(r)
        /\ \A i \in 1..Len(q) : t[i] = q[i]
    BY <1>1, <1>2, <1>6
  <2>2. \A i \in 1..Len(q) : q[i] # Answer(r)
    BY <1>2, <1>3 DEF Question, Answer
  <2>3. t[Len(t) - 1] = Question(t[Len(t)].by) /\ Len(t) > 1
    BY <1>2, <2>1 DEF Answer
  <2> QED
    <3>1. \A i \in DOMAIN t : t[i].role = "assistant"
                               => i > 1 /\ t[i - 1] = Question(t[i].by)
      <4> SUFFICES ASSUME NEW i \in DOMAIN t, t[i].role = "assistant"
                   PROVE  i > 1 /\ t[i - 1] = Question(t[i].by)
        OBVIOUS
      <4>1. CASE i = Len(t)
        BY <2>3, <4>1
      <4>2. CASE i \in 1..Len(q)
        <5>1. i > 1 /\ q[i - 1] = Question(q[i].by)
          BY <1>2, <1>4, <2>1, <4>2 DEF WholeTurns
        <5> QED
          BY <1>2, <2>1, <4>2, <5>1
      <4> QED
        BY <1>2, <2>1, <4>1, <4>2
    <3>2. \A i, j \in DOMAIN t : t[i] = t[j] => i = j
      <4> SUFFICES ASSUME NEW i \in DOMAIN t, NEW j \in DOMAIN t, t[i] = t[j]
                   PROVE  i = j
        OBVIOUS
      <4>1. i \in 1..Len(q) \cup {Len(t)} /\ j \in 1..Len(q) \cup {Len(t)}
        BY <1>2, <2>1
      <4>2. CASE i \in 1..Len(q) /\ j \in 1..Len(q)
        BY <1>2, <1>4, <2>1, <4>2 DEF WholeTurns
      <4>3. CASE i = Len(t) \/ j = Len(t)
        BY <2>1, <2>2, <4>1, <4>3
      <4> QED
        BY <4>1, <4>2, <4>3
    <3> QED
      BY <2>1, <3>1, <3>2 DEF WholeTurns
<1> QED
  BY <1>5, <1>6 DEF Grown, q

\* Every transcript this specification allows is made of whole turns.
THEOREM TranscriptsAreWhole == Spec => []TranscriptsOfWholeTurns
<1> DEFINE Inv == messages \in [Chats -> Seq(Message)] /\ TranscriptsOfWholeTurns
<1>1. Init => Inv
  BY DEF Init, TranscriptsOfWholeTurns, WholeTurns
<1>2. Inv /\ [Next]_vars => Inv'
  <2> SUFFICES ASSUME Inv, [Next]_vars PROVE Inv'
    OBVIOUS
  <2>1. ASSUME NEW c \in Chats, NEW r \in Requests, Ask(c, r) PROVE Inv'
    <3>1. PICK t \in Grown(messages[c], r) : messages' = [messages EXCEPT ![c] = t]
      BY <2>1 DEF Ask
    <3>2. WholeTurns(t) /\ t \in Seq(Message)
      BY <2>1, GrownIsWhole DEF Ask, TranscriptsOfWholeTurns
    <3> QED
      BY <3>1, <3>2 DEF TranscriptsOfWholeTurns
  <2>2. ASSUME NEW c \in Chats, Close(c) PROVE Inv'
    BY <2>2 DEF Close, TranscriptsOfWholeTurns, WholeTurns
  <2>3. CASE UNCHANGED messages
    BY <2>3 DEF TranscriptsOfWholeTurns
  <2> QED
    BY <2>1, <2>2, <2>3 DEF Next, Open, vars
<1> QED
  BY <1>1, <1>2, PTL DEF Spec

============================================================================
