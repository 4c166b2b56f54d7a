------------------------------ MODULE MCChats ------------------------------
(***************************************************************************)
(* Instances of ChatsProperties for TLC.                                   *)
(***************************************************************************)
EXTENDS ChatsProperties, TLC

CONSTANTS r1, r2, r3, u1, u2, q1, q2

ThreeRequests == {r1, r2, r3}
TwoRequests == {r1, r2}
OneUser == {u1}
TwoUsers == {u1, u2}
OneText == {q1}
TwoTexts == {q1, q2}

\* Requests are interchangeable, and so are users; chats are ordered.
Symmetry == Permutations(ThreeRequests) \cup Permutations(TwoUsers)

\* Two instances in one run, each a choice of the first state and of what may
\* arrive or fail.  Fairness is of the server's steps only, none of which is held
\* back.
Only(u) ==
    /\ \A c \in Chats : owner[c] \in {u, None}
    /\ \A r \in Requests : req[r] # None => req[r].user = u

\* Two requests over two chats, with a fault.
ConnectionsFail ==
    /\ Only(u1)
    /\ \A c \in {3, 4} : status[c] = "fresh"
    /\ req[r3] = None

\* Two creates of a user who had two empty chats, each meant to sweep both,
\* while a third request does anything.
SweepsMeet ==
    /\ Only(u2)
    /\ Cardinality({c \in Chats : status[c] # "fresh"}) >= 2
    /\ \A r \in {r1, r2} : req[r] # None => req[r].op = "create" /\ req[r].text = None
    /\ req[r3] # None => req[r3].text # q2
    /\ faults = 0

\* Requests are interchangeable, and so are texts: the first two requests arrive
\* in this order, and the first does not have the second text.
Instances ==
    /\ req[r2] # None => req[r1] # None
    /\ req[r1] # None => req[r1].text # q2
    /\ ConnectionsFail \/ SweepsMeet

\* Every step is of one of them.
WithinInstances == Instances'

FirstStates ==
    /\ Init
    /\ Instances
    /\ Cardinality({c \in Chats : status[c] = "live"}) <= 2

InstanceSpec == FirstStates /\ [][Next]_vars /\ Fairness

============================================================================
