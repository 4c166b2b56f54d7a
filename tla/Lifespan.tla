------------------------------ MODULE Lifespan ------------------------------
(***************************************************************************)
(* The life of a server process: main.lifespan, with the clients it opens. *)
(* The database must start.  The cache is optional, and so is everything   *)
(* the agent needs: the first thing that fails there leaves the service    *)
(* without an agent, and leaves in place what was made before.             *)
(***************************************************************************)
EXTENDS LazyModel, Sequences

CONSTANTS
    Pipelines,  \* settings, as far as they shape a process and its answers
    NoPipeline

Embedders == SUBSET {"embedder"}
Tracers == SUBSET {"langfuse"}

\* remote is the embedder's client, if it has one; tracing likewise.
ASSUME PipelinesAreSettings ==
    \A p \in Pipelines : p.remote \in Embedders /\ p.tracing \in Tracers

VARIABLES
    phase,     \* what the lifespan does next; "serving" while it has yielded
    settings,  \* the settings of the process
    app,       \* the attributes of app.state that are not None
    opened,    \* the clients that are open
    boots,     \* bound: the settings of the processes still to come
    faults     \* bound: the failures of a process and its clients still to come

lifeVars == <<phase, settings, app, opened, boots, faults>>

AFault == faults > 0 /\ faults' = faults - 1

Startup == {"database", "cache", "models", "search", "reranker", "checkpointer", "graph"}

\* The client each step of the shutdown closes, and the step after it.
Closes == [close_cache |-> "cache", close_search |-> "search",
           close_langfuse |-> "langfuse", close_stack |-> "checkpointer",
           close_database |-> "db"]
After == [close_cache |-> "close_search", close_search |-> "close_langfuse",
          close_langfuse |-> "close_stack", close_stack |-> "close_database",
          close_database |-> "stopped"]

Llms == {"llm", "fast_llm", "reasoning_llm"}
Attributes == {"db", "cache", "langfuse", "search", "reranker", "checkpointer", "agentic_rag"}
                  \cup Llms
\* A client counts as open from its construction on; "llm" stands for those of
\* the three models.
Clients == {"db", "cache", "llm", "search", "langfuse", "checkpointer", "embedder"}

LifeInit ==
    /\ phase = "down" /\ settings = NoPipeline
    /\ app = {} /\ opened = {}
    /\ ModelInit

Becomes(attributes, clients, next) ==
    /\ app' = app \cup attributes
    /\ opened' = opened \cup clients
    /\ phase' = next
    /\ UNCHANGED <<settings, boots, modelVars>>

Sets(attributes, clients, next) == Becomes(attributes, clients, next) /\ UNCHANGED faults
Fails(clients, next) == Becomes({}, clients, next) /\ AFault

\* The process is gone, and with it all it had.
Exit ==
    /\ phase' = "down" /\ settings' = NoPipeline
    /\ app' = {} /\ opened' = {}
    /\ model' = NoModel /\ waiting' = {} /\ holder' = NoModel /\ abandoned' = 0
    /\ UNCHANGED boots

StartProcess ==
    /\ phase = "down"
    /\ boots # <<>>
    /\ settings' = Head(boots)
    /\ boots' = Tail(boots)
    /\ phase' = "database"
    /\ UNCHANGED <<app, opened, faults, modelVars>>

StartDatabase ==
    /\ phase = "database"
    /\ Sets({"db"}, {"db"}, "cache") \/ (Exit /\ AFault)

\* Without Redis in the settings there is no client; one that gets no answer to
\* its ping is not kept in app.state.
StartCache ==
    /\ phase = "cache"
    /\ \/ Sets({"cache"}, {"cache"}, "models")
       \/ \E clients \in SUBSET {"cache"} : Fails(clients, "models")

\* The fast and the reasoning model fall back on the writer's.
HasLlm == settings.llm # ""
HasEmbedder == settings.embedding # ""

\* A model that is not configured ends it.  The client of a remote embedder is
\* there from now on; a local one has none.
CreateModels ==
    /\ phase = "models"
    /\ \/ ~HasLlm /\ Sets({}, {}, "serving")
       \/ HasLlm /\ ~HasEmbedder /\ Sets(Llms, {"llm"}, "serving")
       \/ /\ HasLlm /\ HasEmbedder
          /\ Sets(Llms \cup {"langfuse"}, {"llm"} \cup settings.remote, "search")

\* The search client is kept in app.state only when the index is there.
StartSearch ==
    /\ phase = "search"
    /\ Sets({"search"}, {"search"}, "reranker") \/ Fails({"search"}, "serving")

\* A failed warm-up is ignored; without a model there is none.
StartReranker ==
    /\ phase = "reranker"
    /\ phase' = "checkpointer"
    /\ app' = app \cup {"reranker"}
    /\ IF settings.reranker = "" THEN UNCHANGED <<model, faults>>
       ELSE \/ model' = "warmup" /\ UNCHANGED faults
            \/ AFault /\ UNCHANGED model
    /\ UNCHANGED <<settings, opened, boots, waiting, holder, abandoned>>

\* The exit stack keeps a checkpointer whose setup fails.
StartCheckpointer ==
    /\ phase = "checkpointer"
    /\ \/ Sets({"checkpointer"}, {"checkpointer"}, "graph")
       \/ \E clients \in SUBSET {"checkpointer"} : Fails(clients, "graph")

\* Building the graph makes the tracing client, if tracing is enabled.
BuildGraph ==
    /\ phase = "graph"
    /\ Sets({"agentic_rag"}, settings.tracing, "serving") \/ Fails(settings.tracing, "serving")

\* The server stops when its requests are done.
BeginShutdown(idle) ==
    /\ phase = "serving" /\ idle
    /\ phase' = "close_cache"
    /\ UNCHANGED <<settings, app, opened, boots, faults, modelVars>>

\* Mutant: a checkpointer is closed only when it was handed out.
CloseHandedOut ==
    /\ phase \in DOMAIN Closes
    /\ \/ /\ opened' = IF Closes[phase] \in app THEN opened \ {Closes[phase]} ELSE opened
          /\ phase' = After[phase]
          /\ UNCHANGED <<settings, app, boots, faults, modelVars>>
       \/ Closes[phase] \in opened /\ Exit /\ AFault

\* A teardown that raises ends the shutdown.
Close ==
    /\ phase \in DOMAIN Closes
    /\ \/ /\ opened' = IF Closes[phase] \in app \cup {"checkpointer"}
                       THEN opened \ {Closes[phase]} ELSE opened
          /\ phase' = After[phase]
          /\ UNCHANGED <<settings, app, boots, faults, modelVars>>
       \/ Closes[phase] \in opened /\ Exit /\ AFault

LeaveProcess == phase = "stopped" /\ Exit /\ UNCHANGED faults

\* The process is killed, or runs out of memory.
Kill == phase # "down" /\ Exit /\ AFault

LifeStep ==
    \/ StartDatabase \/ StartCache \/ CreateModels \/ StartSearch
    \/ StartReranker \/ StartCheckpointer \/ BuildGraph
    \/ Close \/ LeaveProcess

============================================================================
