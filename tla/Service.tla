------------------------------- MODULE Service -------------------------------
(***************************************************************************)
(* The service from boot to shutdown, over several processes: a chat page, *)
(* another client of the API, people who register, and the answers in      *)
(* Redis and the rows in PostgreSQL that outlive a process.                *)
(***************************************************************************)
EXTENDS ChatPage, Accounts

CONSTANTS
    Owner,   \* who uses the page, and the name of the account
    Name,
    Budgets  \* bounds: processes, registrations, clicks, calls and failures to come

ASSUME BudgetsNameSettings == \A budget \in Budgets : budget.boots \in Seq(Pipelines)

VARIABLES
    clicks,  \* bound: the clicks still to come
    calls    \* bound: the asks of the other client

vars == <<lifeVars, modelVars, entries, apiVars, pageVars, accountVars, clicks, calls>>

Init ==
    /\ LifeInit /\ CacheInit /\ ApiInit /\ PageInit /\ AccountsInit
    /\ \E budget \in Budgets :
        /\ boots = budget.boots
        /\ registrations = budget.registrations
        /\ clicks = budget.clicks
        /\ calls = budget.calls
        /\ faults = budget.faults
        /\ users = IF budget.registrations > 0 THEN {} ELSE {Account(Name, Owner)}

Serving == phase = "serving"

\* What a process that ends takes with it.  An ask that was in flight has
\* written nothing.
Forget ==
    /\ PageReset
    /\ registering' = [p \in People |-> NoRequest]
    /\ ask' = [a \in Asks |-> IF InFlight(a) THEN [ask[a] EXCEPT !.pc = "raise"] ELSE ask[a]]
    /\ UNCHANGED <<entries, chats, written, users, registrations, clicks, calls>>

Drained ==
    /\ PageAtRest
    /\ \A a \in Asks : ~InFlight(a)
    /\ \A p \in People : registering[p] = NoRequest

Life ==
    \/ /\ StartProcess
       /\ UNCHANGED <<entries, apiVars, pageVars, accountVars, clicks, calls>>
    \/ /\ LifeStep
       /\ Forget
    \/ /\ BeginShutdown(Drained)
       /\ UNCHANGED <<entries, apiVars, pageVars, accountVars, clicks, calls>>

OfPage(a) ==
    \/ sending # NoSend /\ a = sending.ask
    \/ queued # <<>> /\ a = queued[1].ask

Fault ==
    \/ Kill /\ Forget
    \/ /\ AFault
       /\ UNCHANGED <<phase, settings, app, opened, boots, accountVars, clicks, calls>>
       /\ \/ Expire /\ UNCHANGED <<modelVars, apiVars, pageVars>>
          \/ TokenExpires /\ UNCHANGED <<modelVars, entries, apiVars>>
          \* The other client disconnects, or the browser leaves the page.
          \/ /\ \E a \in Asks :
                   /\ Cancel(a)
                   /\ IF OfPage(a) THEN PageReset ELSE UNCHANGED pageVars
             /\ UNCHANGED entries

\* An ask of the page carries its token.
Authorised(a) == OfPage(a) => token = "valid"

Asking ==
    /\ Serving
    /\ \/ /\ \E a \in Asks : AskStep(a, Authorised(a))
          /\ UNCHANGED calls
       \/ /\ calls > 0 /\ calls' = calls - 1
          /\ \E a \in Asks, q \in Questions : ~OfPage(a) /\ Arrive(a, Elsewhere, q)
          /\ UNCHANGED <<entries, modelVars>>
       \/ ThreadEnds /\ UNCHANGED <<entries, apiVars, calls>>
    /\ UNCHANGED <<lifeVars, pageVars, accountVars, clicks>>

Page ==
    /\ Serving
    /\ \/ PageStep /\ UNCHANGED clicks
       \/ /\ clicks > 0 /\ clicks' = clicks - 1
          /\ Click
          /\ token = "none" => MayLogIn(Owner, Name)
    /\ UNCHANGED <<lifeVars, modelVars, entries, accountVars, calls>>

Accounting ==
    /\ Serving
    /\ \E p \in People, n \in Names :
        \/ BeginRegister(p, n) \/ InsertUser(p, n) \/ CommitUser(p, n) \/ DropRegister(p)
    /\ UNCHANGED <<lifeVars, modelVars, entries, apiVars, pageVars, clicks, calls>>

Next == Life \/ Fault \/ Asking \/ Page \/ Accounting

\* The event loop goes on with every request and handler; calls to models and
\* to the stores have time limits, and a load of a model ends.
Fairness ==
    /\ \A a \in Asks : WF_vars(Serving /\ AskStep(a, Authorised(a))
                               /\ UNCHANGED <<lifeVars, pageVars, accountVars, clicks, calls>>)

Spec == Init /\ [][Next]_vars /\ Fairness

============================================================================
