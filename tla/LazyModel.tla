----------------------------- MODULE LazyModel -----------------------------
(***************************************************************************)
(* A model that is loaded when it is first needed, once for all callers:   *)
(* CrossEncoderReranker._ensure_model, and LocalEmbedder's, which is the   *)
(* same.  A caller that finds no model takes the lock, looks again and     *)
(* loads in a worker thread.  Cancelling it frees the lock at once, while  *)
(* the thread goes on and what it loads is thrown away.                    *)
(***************************************************************************)
EXTENDS Naturals

CONSTANT NoModel

VARIABLES
    model,     \* who loaded the model in use, NoModel before
    waiting,   \* the callers that wait for the lock
    holder,    \* the caller that holds it and loads, NoModel if none
    abandoned  \* threads that load for nobody

modelVars == <<model, waiting, holder, abandoned>>

ModelInit == model = NoModel /\ waiting = {} /\ holder = NoModel /\ abandoned = 0

\* A caller that finds the model does not ask for the lock.
Want(c) ==
    /\ model = NoModel
    /\ c \notin waiting \cup {holder}
    /\ waiting' = waiting \cup {c}
    /\ UNCHANGED <<model, holder, abandoned>>

\* Mutant: the model is not looked for again under the lock.
StartLoadingAnyway(c) ==
    /\ c \in waiting /\ holder = NoModel
    /\ waiting' = waiting \ {c}
    /\ holder' = c
    /\ UNCHANGED <<model, abandoned>>

StartLoading(c) ==
    /\ c \in waiting /\ holder = NoModel
    /\ model = NoModel
    /\ waiting' = waiting \ {c}
    /\ holder' = c
    /\ UNCHANGED <<model, abandoned>>

\* Another caller has loaded it meanwhile.
FindLoaded(c) ==
    /\ c \in waiting /\ holder = NoModel
    /\ model # NoModel
    /\ waiting' = waiting \ {c}
    /\ UNCHANGED <<model, holder, abandoned>>

Loaded(c) ==
    /\ holder = c
    /\ model' = c
    /\ holder' = NoModel
    /\ UNCHANGED <<waiting, abandoned>>

\* The caller gets the exception; the next one tries again.
LoadFails(c) ==
    /\ holder = c
    /\ holder' = NoModel
    /\ UNCHANGED <<model, waiting, abandoned>>

\* Mutant: a cancelled caller keeps the lock.
AbandonLocked(c) ==
    /\ waiting' = waiting \ {c}
    /\ abandoned' = IF holder = c THEN abandoned + 1 ELSE abandoned
    /\ UNCHANGED <<holder, model>>

Abandon(c) ==
    /\ waiting' = waiting \ {c}
    /\ IF holder = c THEN holder' = NoModel /\ abandoned' = abandoned + 1
                     ELSE UNCHANGED <<holder, abandoned>>
    /\ UNCHANGED model

ThreadEnds ==
    /\ abandoned > 0
    /\ abandoned' = abandoned - 1
    /\ UNCHANGED <<model, waiting, holder>>

============================================================================
