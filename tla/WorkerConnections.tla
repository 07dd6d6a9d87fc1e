-------------------------- MODULE WorkerConnections --------------------------
(***************************************************************************)
(* One worker process (app/workers/tasks.py, app/core/container.py).       *)
(*                                                                         *)
(* Every task runs in an event loop of its own, but the container outlives *)
(* them: its database pool, its Redis client, its LLM provider and its     *)
(* embedding provider are handed from task to task.  A connection belongs  *)
(* to the loop it was opened in.  The clients open theirs on first use; the *)
(* finally of each task takes them away again, one await after the other.  *)
(* Loops are numbered in the order the process runs them; 0 is no loop.    *)
(***************************************************************************)
EXTENDS Naturals

CONSTANTS
    Clients,    \* what the container hands out: "db", "redis", "llm", "embeddings"
    MaxTasks    \* bound: the tasks the worker is handed

ASSUME ClientsAssumption == Clients = {"db", "redis", "llm", "embeddings"}
ASSUME MaxTasksAssumption == MaxTasks \in Nat \ {0}

VARIABLES
    provider,   \* settings.embedding_provider: "bge" or "openai"
    providers,  \* the cached properties of the container: those built so far
    bound,      \* client -> the loop its open connection belongs to, or 0
    loop,       \* the number of loops run, the present one included
    task,       \* what the process runs: "none", "research", "document"
    phase,      \* where its body is
    foreign,    \* the clients this task found bound to a loop that is closed
    kept,       \* the clients the last release of this process did not get to
    loads       \* how often this process has built the embedding provider

vars == <<provider, providers, bound, loop, task, phase, foreign, kept, loads>>

Lazy == {"llm", "embeddings"}
Phases == {"idle", "opening", "marking", "building", "working", "recording",
           "announcing", "disposing", "closing", "dropping"}

\* build_container: pools and clients without a connection; the providers are
\* built by the task that first asks for them.
Unbound == [c \in Clients |-> 0]

Init ==
    /\ provider \in {"bge", "openai"}
    /\ providers = {}
    /\ bound = Unbound
    /\ loop = 0
    /\ task = "none"
    /\ phase = "idle"
    /\ foreign = {}
    /\ kept = {}
    /\ loads = 0

-----------------------------------------------------------------------------
\* The local model runs in a thread of the process: it opens no connection.
Connects(c) == c = "embeddings" => provider = "openai"

\* A call finds the client unbound, bound to the task's own loop, or bound to
\* a closed one.  In the last case the call may raise, or the client may
\* discard that connection and open another.
Stale(c) == Connects(c) /\ bound[c] \notin {0, loop}

Opens(c) ==
    /\ bound' = IF Connects(c) THEN [bound EXCEPT ![c] = loop] ELSE bound
    /\ foreign' = IF Stale(c) THEN foreign \union {c} ELSE foreign
    /\ UNCHANGED <<provider, providers, loop, task, kept, loads>>

Breaks(c) ==
    /\ bound' = [bound EXCEPT ![c] = IF Stale(c) THEN @ ELSE 0]
    /\ foreign' = IF Stale(c) THEN foreign \union {c} ELSE foreign
    /\ UNCHANGED <<provider, providers, loop, task, kept, loads>>

\* asyncio.run of a task's body, with _get_container.
TakesTask(kind) ==
    /\ phase = "idle"
    /\ loop < MaxTasks
    /\ loop' = loop + 1
    /\ task' = kind
    /\ phase' = IF kind = "research" THEN "opening" ELSE "building"
    /\ foreign' = {}
    /\ UNCHANGED <<provider, providers, bound, kept, loads>>

\* A research task loads its row first; without one it returns.
LoadsRow ==
    /\ phase = "opening"
    /\ Opens("db")
    /\ phase' \in {"marking", "disposing"}

\* status = "running" has been committed; publish_event announces it.
AnnouncesRun ==
    /\ phase = "marking"
    /\ Opens("redis")
    /\ phase' = "building"

\* The arguments of build_research_graph, or of KnowledgeBaseService, are
\* what asks for the providers.  Both are cached_property.
Asked == IF task = "research" THEN Lazy ELSE {"embeddings"}

\* A provider that was built already is handed out again.
AsksForProviders ==
    /\ phase = "building"
    /\ providers' = providers \union Asked
    /\ loads' = IF "embeddings" \in providers THEN loads ELSE loads + 1
    /\ phase' = "working"
    /\ UNCHANGED <<provider, bound, loop, task, foreign, kept>>

\* get_llm_provider or get_embedding_provider raises: an unknown name in the
\* settings, a package that the image does not have.  Only what was built
\* before it stays cached; the research task records the failure.
ProviderMissing ==
    /\ phase = "building"
    /\ phase' = IF task = "research" THEN "recording" ELSE "disposing"
    /\ \E built \in {{}} \union (IF task = "research" THEN {{"llm"}} ELSE {}) :
          providers' = providers \union built
    /\ UNCHANGED <<provider, bound, loop, task, foreign, kept, loads>>

\* The body: nodes, rows and events of a run, or the steps of a document.
Needs == IF task = "research" THEN Clients ELSE {"db", "embeddings"}

Calls(c) ==
    /\ phase = "working"
    /\ c \in Needs
    /\ Opens(c)
    /\ UNCHANGED phase

BodyEnds ==
    /\ phase = "working"
    /\ phase' = "disposing"
    /\ UNCHANGED <<provider, providers, bound, loop, task, foreign, kept, loads>>

\* A call raises, for a reason of its own or of a closed loop's.  Within the
\* inner try that leads to the handler, which for a research task records and
\* announces the failure and for a document's looks its row up again; before
\* it, after it and in the handler itself it leads to the finally.
Calling ==
    CASE phase = "working" -> Needs
      [] phase = "marking" -> {"db", "redis"}
      [] phase \in {"opening", "recording"} -> {"db"}
      [] phase = "announcing" -> {"redis"}
      [] OTHER -> {}

CallRaises(c) ==
    /\ c \in Calling
    /\ Breaks(c)
    /\ \/ phase = "working" /\ phase' = "recording"
       \/ (phase = "working" => task = "research") /\ phase' = "disposing"

RecordsFailure ==
    /\ phase = "recording"
    /\ Opens("db")
    /\ phase' = IF task = "research" THEN "announcing" ELSE "disposing"

AnnouncesFailure ==
    /\ phase = "announcing"
    /\ Opens("redis")
    /\ phase' = "disposing"

\* _release_event_loop_bound_connections, await by await.  dispose and aclose
\* close what their pools hold, of whatever loop; the SDK's client cannot be
\* reopened, so its provider is dropped with it.
Disposes ==
    /\ phase = "disposing"
    /\ bound' = [bound EXCEPT !["db"] = 0]
    /\ phase' = "closing"
    /\ UNCHANGED <<provider, providers, loop, task, foreign, kept, loads>>

\* Mutant: the Redis client is left as it is.
KeepsRedis ==
    /\ phase = "closing"
    /\ phase' = "dropping"
    /\ UNCHANGED <<provider, providers, bound, loop, task, foreign, kept, loads>>

Closes ==
    /\ phase = "closing"
    /\ bound' = [bound EXCEPT !["redis"] = 0]
    /\ phase' = "dropping"
    /\ UNCHANGED <<provider, providers, loop, task, foreign, kept, loads>>

\* Mutant: every cached provider is dropped.
DropsAllProviders ==
    /\ phase = "dropping"
    /\ providers' = {}
    /\ bound' = [bound EXCEPT !["llm"] = 0, !["embeddings"] = 0]
    /\ phase' = "idle"
    /\ task' = "none"
    /\ kept' = {}
    /\ foreign' = {}
    /\ UNCHANGED <<provider, loop, loads>>

DropsProvider ==
    /\ phase = "dropping"
    /\ providers' = providers \ {"llm"}
    /\ bound' = [bound EXCEPT !["llm"] = 0]
    /\ phase' = "idle"
    /\ task' = "none"
    /\ kept' = {}
    /\ foreign' = {}
    /\ UNCHANGED <<provider, loop, loads>>

\* An await of the release raises: what comes after it is not released.
ReleaseRaises ==
    /\ phase \in {"disposing", "closing"}
    /\ phase' = "idle"
    /\ task' = "none"
    /\ kept' = {"redis", "llm"} \union (IF phase = "disposing" THEN {"db"} ELSE {})
    /\ foreign' = {}
    /\ UNCHANGED <<provider, providers, bound, loop, loads>>

\* The process is killed; Celery starts another, whose container is fresh.
Killed ==
    /\ phase /= "idle"
    /\ providers' = {}
    /\ bound' = Unbound
    /\ phase' = "idle"
    /\ task' = "none"
    /\ foreign' = {}
    /\ kept' = {}
    /\ loads' = 0
    /\ UNCHANGED <<provider, loop>>

Next ==
    \/ \E kind \in {"research", "document"} : TakesTask(kind)
    \/ LoadsRow
    \/ AnnouncesRun
    \/ AsksForProviders
    \/ ProviderMissing
    \/ \E c \in Clients : Calls(c) \/ CallRaises(c)
    \/ BodyEnds
    \/ RecordsFailure
    \/ AnnouncesFailure
    \/ Disposes
    \/ Closes
    \/ DropsProvider
    \/ ReleaseRaises
    \/ Killed

Spec == Init /\ [][Next]_vars

-----------------------------------------------------------------------------
\* A type invariant: what each variable holds.
TypeOK ==
    /\ provider \in {"bge", "openai"}
    /\ providers \subseteq Lazy
    /\ bound \in [Clients -> 0..MaxTasks]
    /\ loop \in 0..MaxTasks
    /\ task \in {"none", "research", "document"}
    /\ phase \in Phases
    /\ foreign \subseteq Clients
    /\ kept \subseteq Clients
    /\ loads \in 0..MaxTasks

\* A task calls no client whose connection belongs to the loop of an earlier
\* task, which is what _release_event_loop_bound_connections is for, but for
\* two: a client the last release did not get to, because an await of it raised
\* first, and OpenAI's embedding client, which no release closes (tasks.py:90).
NoForeignLoop ==
    foreign \subseteq
        kept \union (IF provider = "openai" THEN {"embeddings"} ELSE {})

\* However many tasks a process runs, of either kind and with whatever
\* outcome, it loads the embedding model at most once (tasks.py:93-96).
ModelLoadedOnce == loads <= 1
=============================================================================
