------------------------------ MODULE ChatPage ------------------------------
(***************************************************************************)
(* The chat page of one browser: gradio_app.py.  Its handlers call the API *)
(* in-process and get each reply whole, after the request's transaction    *)
(* has ended, or the exception it ended in: then the handler ends, and of  *)
(* its outputs only those it has yielded are set.  A handler takes its     *)
(* inputs when the event happens; handlers of different events overlap,    *)
(* but for the two events that send: Gradio queues the second.  Of a       *)
(* changed selection the last is read.                                     *)
(***************************************************************************)
EXTENDS AskApi

CONSTANTS NoChat, NoSend

Bubbles == [ask : Asks, text : Texts]
Sends == [ask : Asks, question : Questions, chat : Chats \cup {NoChat},
          thread : Seq(Bubbles), seen : {"blank", "part"} \cup Asks]

ASSUME NoSendIsNone == NoSend \notin Sends

VARIABLES
    token,    \* "none" before the login, then "valid" until it is "expired"
    value,    \* the selected chat
    choices,  \* the chats listed
    shown,    \* the bubbles: asks and the texts of their answers
    wanted,   \* the selection still to be read, as a sequence of at most one
    reading,  \* the transcript select_chat is about to show, likewise
    clicked,  \* what new_chat or delete_chat is about to show, likewise
    sending,  \* what send works on, and what it has shown of the answer
    queued,   \* the send that waits for it: a sequence of at most one
    \* history: the asks whose bubble was left, or taken over, as it was
    unfinished

sendVars == <<sending, queued, unfinished>>
pageVars == <<token, value, choices, shown, wanted, reading, clicked, sendVars>>

PageInit ==
    /\ token = "none" /\ value = NoChat /\ choices = {} /\ shown = <<>>
    /\ wanted = <<>> /\ reading = <<>> /\ clicked = <<>>
    /\ sending = NoSend /\ queued = <<>> /\ unfinished = {}

\* The page is loaded anew.
PageReset ==
    /\ token' = "none" /\ value' = NoChat /\ choices' = {} /\ shown' = <<>>
    /\ wanted' = <<>> /\ reading' = <<>> /\ clicked' = <<>>
    /\ sending' = NoSend /\ queued' = <<>> /\ unfinished' = {}

PageAtRest ==
    wanted = <<>> /\ reading = <<>> /\ clicked = <<>> /\ sending = NoSend /\ queued = <<>>

\* GET /chats, which the page reads as empty when it is refused.
Fetched == IF token = "valid" THEN {c \in Chats : chats'[c] = "live"} ELSE {}

\* A selection that changes, by whichever hand, is read.
Select(c) ==
    /\ value' = c
    /\ wanted' = IF c # value THEN <<c>> ELSE wanted

LogIn ==
    /\ token = "none"
    /\ token' = "valid"
    /\ choices' = {c \in Chats : chats[c] = "live"}
    /\ UNCHANGED <<value, shown, wanted, reading, clicked, sendVars, apiVars>>

TokenExpires ==
    /\ token = "valid"
    /\ token' = "expired"
    /\ UNCHANGED <<value, choices, shown, wanted, reading, clicked, sendVars>>

ClickChat(c) ==
    /\ c \in choices
    /\ Select(c)
    /\ UNCHANGED <<token, choices, shown, reading, clicked, sendVars, apiVars>>

\* What select_chat reads.
Transcript(c) == IF token = "valid" /\ c \in Live THEN written[c] ELSE <<>>

\* When the request raises, the bubbles of the last chat stay.
ReadChat ==
    /\ wanted # <<>> /\ reading = <<>>
    /\ reading' \in {<<Transcript(wanted[1])>>, <<>>}
    /\ wanted' = <<>>
    /\ UNCHANGED <<token, value, choices, shown, clicked, sendVars, apiVars>>

ShowChat ==
    /\ reading # <<>>
    /\ shown' = reading[1]
    /\ reading' = <<>>
    /\ UNCHANGED <<token, value, choices, wanted, clicked, sendVars, apiVars>>

\* What a click is about to show, unless GET /chats raises.
Fetch(c) == clicked' \in {<<[value |-> c, choices |-> Fetched]>>, <<>>}

\* With an expired token the reply has no id, and the handler fails.
NewChat ==
    /\ token = "valid" /\ clicked = <<>>
    /\ \E c \in Chats : CreateChat(c) /\ Fetch(c)
    /\ UNCHANGED <<token, value, choices, shown, wanted, reading, sendVars, ask>>

RemoveChat ==
    /\ token # "none" /\ clicked = <<>>
    /\ IF token = "valid" /\ value # NoChat THEN DeleteChat(value)
       ELSE UNCHANGED <<chats, written>>
    /\ Fetch(NoChat)
    /\ UNCHANGED <<token, value, choices, shown, wanted, reading, sendVars, ask>>

ShowClicked ==
    /\ clicked # <<>>
    /\ Select(clicked[1].value)
    /\ choices' = clicked[1].choices
    /\ shown' = <<>>
    /\ clicked' = <<>>
    /\ UNCHANGED <<token, reading, sendVars, apiVars>>

----------------------------------------------------------------------------
(* send *)

Bubble(a, text) == [ask |-> a, text |-> text]

\* A blank question changes nothing.  The button and the box are two events of
\* one handler: the second waits, with the thread as it is when it happens.
Send(a, question) ==
    LET next == [ask |-> a, question |-> question, chat |-> value, thread |-> shown,
                 seen |-> "blank"]
    IN  /\ token # "none" /\ At(a, "idle")
        /\ \/ /\ sending = NoSend
              /\ sending' = next
              /\ UNCHANGED <<queued, unfinished>>
           \/ /\ sending # NoSend /\ sending.ask # a /\ queued = <<>>
              /\ queued' = <<next>>
              /\ unfinished' = unfinished \cup {sending.ask}
              /\ UNCHANGED sending
        /\ UNCHANGED <<token, value, choices, shown, wanted, reading, clicked, apiVars>>

\* The handler is over; the event that waits is next.
EndSend ==
    /\ sending' = IF queued = <<>> THEN NoSend ELSE queued[1]
    /\ queued' = <<>>

Starting == sending # NoSend /\ At(sending.ask, "idle")

\* Without a chat's id in the reply, or with an exception, the handler fails.
OpenChat ==
    /\ Starting /\ sending.chat = NoChat
    /\ \/ /\ token = "valid"
          /\ \E c \in Chats : CreateChat(c) /\ sending' = [sending EXCEPT !.chat = c]
          /\ UNCHANGED queued
       \/ EndSend /\ UNCHANGED <<chats, written>>
    /\ UNCHANGED <<token, value, choices, shown, wanted, reading, clicked, unfinished, ask>>

\* The bubbles are those of the thread at the click and this one.
Show(text) == shown' = Append(sending.thread, Bubble(sending.ask, text))

ShowQuestion ==
    /\ Starting /\ sending.chat # NoChat
    /\ Show("blank")
    /\ Arrive(sending.ask, sending.chat, sending.question)
    /\ UNCHANGED <<token, value, choices, wanted, reading, clicked, sendVars>>

\* The handler reads events, and finds none in the JSON of a cached answer or
\* of an error status; a line it cannot parse ends the answer.
Replied == sending # NoSend /\ ~At(sending.ask, "idle") /\ ~InFlight(sending.ask)
Whole(a) == At(a, "done") /\ ask[a].text \in Asks

\* Each token is shown with those before it, and nothing says what is to come.
ShowTokens ==
    /\ Replied
    /\ \E text \in {"part"} \cup Asks :
        /\ \/ /\ text = "part" /\ sending.seen = "blank"
              /\ Whole(sending.ask) \/ At(sending.ask, "broken") \/ At(sending.ask, "cut")
           \/ /\ Whole(sending.ask)
              /\ text = ask[sending.ask].text /\ sending.seen # text
        /\ Show(text)
        /\ sending' = [sending EXCEPT !.seen = text]
    /\ UNCHANGED <<token, value, choices, wanted, reading, clicked, queued, unfinished,
                   apiVars>>

AllShown ==
    /\ Whole(sending.ask) => sending.seen = ask[sending.ask].text
    /\ At(sending.ask, "cut") => sending.seen = "part"

\* A warning comes with the last yield only: an error event, an exception, or a
\* first token that cannot be parsed.
Warned(a) ==
    \/ At(a, "cut") \/ At(a, "error") \/ At(a, "raise")
    \/ At(a, "broken") /\ sending.seen = "blank"

\* And that comes after GET /chats, which may raise.
ShowAnswer ==
    /\ Replied /\ AllShown
    /\ UNCHANGED apiVars
    /\ \/ /\ Show(IF Warned(sending.ask) THEN "warned" ELSE sending.seen)
          /\ choices' = Fetched
          /\ Select(sending.chat)
          /\ UNCHANGED unfinished
       \/ /\ unfinished' = unfinished \cup {sending.ask}
          /\ UNCHANGED <<shown, choices, value, wanted>>
    /\ EndSend
    /\ UNCHANGED <<token, reading, clicked>>

PageStep ==
    \/ ReadChat \/ ShowChat \/ ShowClicked
    \/ OpenChat \/ ShowQuestion \/ ShowTokens \/ ShowAnswer

Click ==
    \/ LogIn
    \/ \E c \in Chats : ClickChat(c)
    \/ NewChat \/ RemoveChat
    \/ \E a \in Asks, q \in Questions : Send(a, q)

============================================================================
