------------------------------ MODULE Accounts ------------------------------
(***************************************************************************)
(* Registration and login: routers/auth.py over UserRepository.  The name  *)
(* is looked up in what is committed; the unique index makes a second      *)
(* insert wait for the first one's transaction, and then fail.             *)
(***************************************************************************)
EXTENDS Naturals, FiniteSets

CONSTANTS
    People,  \* those who register, each with a password of their own
    Names,   \* the names they want
    NoName

VARIABLES
    users,         \* the committed accounts
    registering,   \* registering[p]: the request of p, if any
    registrations  \* bound: the registrations still to come

accountVars == <<users, registering, registrations>>

NoRequest == [at |-> "none", name |-> NoName]

AccountsInit == registering = [p \in People |-> NoRequest]

Account(name, person) == [name |-> name, password |-> person]

Requests(at, name) == {p \in People : registering[p] = [at |-> at, name |-> name]}

EndRequest(p) == registering' = [registering EXCEPT ![p] = NoRequest]

Taken(name) == \E u \in users : u.name = name

\* The name is taken, or free as far as this request can see.
BeginRegister(p, name) ==
    /\ registrations > 0
    /\ registrations' = registrations - 1
    /\ registering[p] = NoRequest
    /\ ~Taken(name)
    /\ registering' = [registering EXCEPT ![p] = [at |-> "found free", name |-> name]]
    /\ UNCHANGED users

\* Mutant: nothing but the lookup keeps names apart.
InsertUserUnchecked(p, name) ==
    /\ p \in Requests("found free", name)
    /\ registering' = [registering EXCEPT ![p].at = "inserted"]
    /\ UNCHANGED <<users, registrations>>

\* By now the name may be taken, which the index tells and nobody handles.
InsertUser(p, name) ==
    /\ p \in Requests("found free", name)
    /\ Requests("inserted", name) = {}
    /\ IF Taken(name) THEN EndRequest(p)
       ELSE registering' = [registering EXCEPT ![p].at = "inserted"]
    /\ UNCHANGED <<users, registrations>>

CommitUser(p, name) ==
    /\ p \in Requests("inserted", name)
    /\ users' = users \cup {Account(name, p)}
    /\ EndRequest(p)
    /\ UNCHANGED registrations

\* The connection is lost, or the process.
DropRegister(p) ==
    /\ registering[p] # NoRequest
    /\ EndRequest(p)
    /\ UNCHANGED <<users, registrations>>

\* Any name and password that belong together give a token for the account.
MayLogIn(person, name) == Account(name, person) \in users

============================================================================
