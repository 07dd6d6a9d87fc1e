# Deep Research AI: a TLA+ verification project

This directory holds TLA+ models of the research platform in the repository it
belongs to, the TLC configurations that check them on small instances, and
proofs that TLAPS checks for every value of the constants. `PROJECT.json` says
which lines of the source each definition stands for.

    tlc -workers 2 -config MCResearchGraph.cfg MCResearchGraph.tla
    tlapm ResearchGraphProofs.tla

## 1. The system

A user posts a question; the API stores a *session* and hands it to a Celery
worker; the worker runs a LangGraph graph of ten agents, stores what each agent
did, publishes progress on a Redis channel, and stores a report. The browser
follows the channel through a WebSocket relay. Beside that, a project has a
knowledge base of documents which workers chunk, embed and index, and which the
graph and the user search.

| Component | State it keeps | Operations | Modules |
|---|---|---|---|
| Research graph (`ai/graph`, `ai/agents`) | `ResearchState`, a dictionary with appended and overwritten keys | ten nodes, two gates that loop back, a shared revision counter | `ResearchGraph` |
| Evaluation harness (`ai/evaluation`) | none | metrics of a final state, comparison of two scripted agents | `Evaluation` |
| Pipeline task (`workers/tasks.py`) | the session row, `agent_runs`, `messages`, `reports`, `analytics_events`; its ORM object | load, mark running, stream, record failure, persist, publish | `PipelineRuns`, `SessionLifecycle` |
| Sessions API (`api/v1/sessions.py`) | the session row | create then `send_task`; reads with owner check | `PipelineRuns`, `Workspaces` |
| Analytics (`services/analytics_service.py`) | none, it reads | overview and activity | `Analytics` |
| Live events (`core/pubsub.py`, `api/ws.py`, `use-session-events.ts`) | subscriptions, sockets, the hook's view | publish; choose, fetch, subscribe, relay, close | `SessionEvents` |
| Knowledge base (`services/knowledge_base_service.py`) | document rows, chunk rows, stored files, the page's list | upload, import, ingest, process, delete, poll, search | `KnowledgeBase`, `DocumentLifecycle`, `Workspaces` |
| Chunking (`ai/chunking.py`) | none, an algorithm | `chunk_text` | `Chunking` |
| Projects and users (`api/v1/projects.py`) | rows and their owners | create, list, get, everything below a project | `Workspaces` |
| Authentication (`services/auth_service.py`) | users, refresh tokens | register, log in, provider callback, refresh, log out | `TokenRotation` |
| API client (`frontend/lib/api-client.ts`) | the pair in local storage, one shared refresh per tab | request, refresh, retry, give up | `ApiClient` |
| Worker connections (`tasks.py`, `core/container.py`) | clients bound to an event loop, cached providers | use in a task, release after it | `WorkerConnections` |

Search tools, LLM and embedding providers, document loaders and object storage
appear in these modules as the outcomes they can have; section 6 lists what is
left out.

**Interaction.** The API and the workers share PostgreSQL and meet nowhere else
than in the broker's queue and the Redis channel. The worker runs the graph in
its own process and sees one update per node. API and workers commit at points
of their own choosing; between two commits anything may happen. Tabs share the
browser's local storage and nothing else; the tasks of a worker share a container.

**What is hard.** The graph has cycles whose end depends on two agents, two
edges and one counter that all of them must treat alike. The worker keeps a
second copy of LangGraph's state with reducers of its own. A run, and the
processing of a document, is a sequence of commits and publishes, any of which
can fail, in a process that can be killed, for a task that the broker may deliver
again. Ownership is a column that every handler and query has to respect, with
other requests in between. Refresh tokens are rotated by statements that are not
one transaction, for tabs that do not know of each other. Connections belong to
event loops that end before the objects that hold them. Each hazard is listed at
its line in `PROJECT.json`.

**What makes it correct**

- *Graph*: a run ends, within a bound; the gates are overruled only when the
  budget is used up; drafts, citations and verdicts refer to the same evidence;
  what is published was reviewed; the persisted state is LangGraph's.
- *Evaluation*: the metrics of a run say what happened in it; the improved agent
  beats the baseline on the dataset, and where it could not otherwise.
- *Runs and API*: a status moves forward once; a report appears with `completed`;
  the feed announces what the database already says; no session stays `running`
  without a worker, and one handed to the broker settles, as long as database,
  Redis and the worker process do not fail.
- *Analytics*: the numbers of one overview agree up to what was committed meanwhile, and
  with the activity list up to what its limit cut off.
- *Live events*: a page never shows more than the row says, nor one session's
  outcome for another; a subscriber hears the terminal status.
- *Knowledge base*: a document's chunks are searchable exactly when it is `indexed`;
  it settles; the page that shows it learns of that and then stops polling.
- *Workspaces*: an answer tells a client of its own user's things only; a deleted
  document stays away from later answers and sessions.
- *Chunking*: every character is in a chunk, no chunk is too long, neighbours
  overlap by the length asked for, a short passage is whole in some chunk.
- *Tokens*: an address has one account, and a provider callback that brings it leads to
  no other; a refresh is refused only for a reason; the stored token is of use; no call
  waits for ever.
- *Connections*: a client that the release of the last task got to is not used on another
  event loop than its own (no release gets to OpenAI's embedding client, which is); the
  model is loaded once per process.

## 2. Modules

### ResearchGraph

One run of the graph. A state is a function from the keys written so far to their
values, because `ResearchState` is a `TypedDict(total=False)` and the agents read
it with `dict.get`; `Get` is that call. `Merge(appended, state, update)` is the
reducer, used twice per step: with `AnnotatedFields` for LangGraph's own channels
and with `AccumulatingFields` for the worker's `final_state`.

There is one action per node (`Planner` ... `Memory`), made of the node's update
(`PlannerUpdate` ..., the dictionary the agent returns), `Runs`, which applies it,
and the edge that follows. `FactChecker` and `Reviewer` have one disjunct per
branch; their edges are `RouteAfterFactCheck` and `RouteAfterReview`.
`NodeRaises` and `RecursionLimitReached` are the other two ways a run ends.

A text the LLM writes is represented by what its prompt held. A summary is the
evidence it compresses; a draft has a number, its numbered sources, its summary
and the feedback it was asked to address; feedback is named by the draft it
criticises. Any text may be empty, as providers answer `content or ""`
(`openai_provider.py:38`); where that matters, for plan and draft, the node chooses from
`LLMTexts`. That is what the properties need to tell apart. `judged` is history:
what the gates looked at last.

Left out: `session_id`, `project_id`, `query` and the token usage keys, which no
step reads. `errors` is kept, though no agent ever writes it. LangGraph's entry and
exit steps are folded into `RecursionLimit`.

### Evaluation

`metrics.py` as operators (`CitationPrecision`, `CitationRecall`,
`RetrievalRelevance`, `HallucinationRate`, `CompletionRate`), applied to the states
that runs of `ResearchGraph` end in, and `harness.py`'s two scripted agents over any
benchmark item. A text is its words, of which only citation markers matter; scores
are integers in ten-thousandths, rounded as `round(x, 4)` does (half a unit either
way decides no comparison here). `MissingStages` tests what `metrics.py:102-106` test:
the value of plan and draft, not their keys, the length of findings and citations, and
whether there is a score.

### SessionLifecycle and PipelineRuns

`SessionLifecycle` is the abstract specification: what a client of the API may rely
on. A session goes `absent`, `queued`, `running`, `completed` or `failed`; the report
appears in the same step as `completed`; a status event announces the status the row
has at that moment, and each only once. It promises no progress, so a task lost on
the way to the broker is allowed.

`PipelineRuns` has the API handler, the broker and the workers, with one variable per
column or table. Each action ends at a commit, a publish or a send, the points where
another process can see a change or the task can die; `place[w]` is where worker
`w` is between two of them:

| Action | Code |
|---|---|
| `CreateSession`, `SendTask`, `SendFails` | `create_session`: one commit, then `send_task` |
| `RowRemoved`, `SessionGone` | the row deleted between enqueue and pickup |
| `Redelivered` | Redis delivers a reserved task again after its visibility timeout |
| `LoadSession`, `MarkRunning`, `PublishRunning` | the head of `_run_pipeline_async` |
| `StepNode`, `PublishNode` | one round of the loop of `_stream_graph` |
| `NodeRaises`, `RecordFailure`, `PublishFailed` | the `except` branch |
| `StoreReport`, `PublishCompleted` | `_persist_report` and the last commit; the last event |
| `DatabaseFails`, `PublishRaises`, `Killed` | a statement, a publish or the process fails |

`Faults` chooses which failures an instance has, `Repeated` the sessions whose task the
broker may deliver again; `Once` are the others, which the properties that need one
delivery speak of. Three details matter:

- A failed statement leaves the transaction unusable, so the handler's own
  statements fail in turn; a database error ends the task wherever it happens
  (`DatabaseFails`). A publish that raises ends it too, except the one after a
  node, which is inside the inner `try` (`PublishRaises`).
- The ORM object outlives commits (`expire_on_commit=False`) and an UPDATE carries
  only the attributes that differ from what it holds. `seenStatus` and `seenCount`
  are that object, `Flushed` is the UPDATE. With two runs of one session this
  decides what the row holds.
- The task is acknowledged when it starts (Celery's default): taking it from the
  queue and losing the worker loses it.

What the graph computes is abstracted to the number of nodes (`RunLengths`) and
the revisions it adds (`Revisions`). `ResearchGraph` justifies both:
`RunLengthBound` and `EventuallyReported` for the first, `RevisionCountBound` for
the second.

### Analytics

`get_overview` on top of `PipelineRuns`: four statements under READ COMMITTED
(`CountSessions`, `AverageCompletion`, `CountOutcomes`, `SessionsOverTime`), with
any steps of handlers and workers between them. `get_recent_activity` answers with the
newest `ActivityLimit` rows (20 unless the caller says otherwise). They are ordered by
the start of their transactions, not by their commits, so `RecentActivity` is every list
of that length if there are more rows.

### SessionEvents

Pages that follow sessions, composed with `PipelineRuns`: every step of that module
is a step here that leaves the pages alone. Redis delivers a message to whoever is
subscribed when it is published and keeps nothing, so a subscription is a position
in `published`: `joined` is where it began, `cursor` where it is.

| Action | Code |
|---|---|
| `SelectSession` | a query is submitted or a session of the list clicked (`page.tsx`); `Asks` is `useSession`, `OpensFeed` the effect of `useSessionEvents` |
| `DeselectSession` | another project is chosen; the effect's cleanup |
| `FetchAnswers` | `GET /sessions/{id}` fills the query cache; 404 leaves it |
| `Subscribes`, `Refuses` | `session_events` in `ws.py`, up to the subscription |
| `Relays` | one turn of its loop, with the hook's `onmessage` (`Hears`) |
| `Drops` | the connection, the API or the token ends first |

`Shown` is `events.status ?? activeSession.status`. A cached row is stale after 30
seconds, so a second look may or may not fetch. A render and the effects after it are
one step, as are the relay's reading of the row and its subscription: events only
matter to the second. The cache keeps rows for as long as the model runs.

### DocumentLifecycle and KnowledgeBase

`DocumentLifecycle` is what browser and retriever may rely on: `absent`, `pending`,
`processing`, `indexed` or `failed`, chunks that become searchable in the same instant
as `indexed`, a deletion that changes nothing else, and the one outcome recorded in
analytics.

`KnowledgeBase` implements it with handlers, object storage, broker, workers and page:

| Action | Code |
|---|---|
| `BeginUpload`, `CreateBucket`, `PutObject`, `StorageFails` | `ObjectStorage.upload` with its bucket check, each on a thread of its own |
| `CommitDocument`, `ImportUrl`, `CommitFails` | the row and its event, in one commit |
| `SendTask`, `SendFails` | `send_task`, and the page's mutation |
| `IngestText` | `ingest_text`, one transaction without a task |
| `DeleteDocument`, `Redelivered` | `soft_delete`; the broker |
| `LoadDocument`, `MarkProcessing` | the head of `process_document` |
| `ChunkAndIndex` | `_chunk_and_index`: chunk rows, status and event in one commit |
| `RecordRejection` | the `LoaderError` clause of `process_document` |
| `MarkFailed` | the handler of `_process_document_async`, which compares the ORM object's status |
| `DatabaseFails`, `Killed` | what nothing records |
| `Fetch` | `useDocuments`, which polls while something it shows is active |

A text is the number of chunks it makes, which `Chunking` justifies; an embedding row
is counted in the batch `create_many` wrote. `Faults` is per document, so that one can
meet every failure while another is delivered twice.

### Workspaces

Projects, documents and sessions of several users, the clients' requests for them and
the worker's retrieval. A request is `Asks`, then the statement that looks for the
object in its path (`Finds` or `NotFound`, with `Check`), then the query or commit and
the answer, with other requests in between. The id in a path is any id. The action
names are the handlers' (`CreateProject`, `AddDocument`, `Search`, `DeleteDocument`,
`CreateSession`; the reads of a kind share one action). `SimilaritySearch` answers
with any few of the project's candidates, as the index is approximate and its
conditions filter what it yields; `VectorStore` is the worker's use of it. `before`
and `since` are history: what was deleted when a request or session began.

### Chunking

`chunk_text`, with one action per branch of its loop (`Join`, `Overflow`, `HardCut`,
`Finish`). Whatever the loop holds is a piece of one string, so a chunk is the pair of
its first and last position, and a text is the lengths of its paragraphs, met one by
one. No string is put together.

### TokenRotation and ApiClient

`TokenRotation` has the endpoints of `api/v1/auth.py` for one person with one address,
each cut at its commits and at the last read before one: `RegisterChecks` and
`RegisterInserts`; `OAuthFails`, `OAuthFinds`, `OAuthMisses`, `OAuthLinks`,
`OAuthMissesEmail` and `OAuthCreates`; `Authenticate`; `RefreshLoads`, `RefreshFindsExpired` and
`RefreshRevokes`; `LogoutLoads` and `LogoutRevokes`; `IssueTokenPair`, which ends
three of them; `GetCurrentUser` for any other endpoint. A pair is a number. An access
token passes until it is refused, as its few minutes may be over at any time.
`AnswerFails` is the rate limit, an error, a restart or a lost answer.

A GitHub profile may come without a primary address; `str(None)` then goes on as the
address `"None"` (`auth.py:163`). `noEmail` has the callbacks it happened to, `strays` the
row at that address, which is nobody's own, and `WithEmail` is the lookup by the address a
callback brought. `StrangerSignsIn` is the callback of somebody else without an address,
who takes that row over or creates it.

`ApiClient` composes it with the tabs of one browser: `Send`, `TryRefresh`,
`RefreshSettles`, `Succeeds`, `RegisterThenLogin`, `GivesUp` and `CloseTab`. An action
is a stretch of a tab's event loop with the continuations it triggers. `stored` is the
local storage that tabs share, `refreshInFlight` the promise that they do not.

### WorkerConnections

One worker process and the tasks it runs after each other, each in an event loop of its
own. `bound[c]` is the loop an open connection of client `c` belongs to. The body of a
task is cut where `tasks.py` can raise into different handlers; `Disposes`, `Closes`
and `DropsProvider` are the awaits of `_release_event_loop_bound_connections`. A call
that finds a connection of a closed loop may raise or reconnect; that it happened at
all is what `foreign` records. An await of the release may raise and end it
(`ReleaseRaises`); `kept` has the clients it then did not get to.

### Proof and MC modules

Each `...Proofs` module extends its component and holds its theorems. The `MC...`
modules extend theirs and give values that a `.cfg` cannot write; `MCAnalytics` and
`MCResearchGraph` take in `Analytics` and `Evaluation`. In the components some operators
are marked as a *mutant* of the definition that follows them: the same definition with
a plausible bug. Nothing refers to them; put in place of the definition, each makes the
property that `PROJECT.json` names fail, which shows that the property depends on it.

## 3. Runs

| Configuration | Question | Result |
|---|---|---|
| `MCResearchGraph.cfg` | Does one run keep evidence, drafts, verdicts and both copies of the state together, end in time, and get metrics that say what happened? | holds, 209 258 states |
| `MCAnalytics.cfg` | Do handler, broker and workers implement the lifecycle of a session delivered once, beside one delivered twice, and do the numbers of an overview read meanwhile agree, among themselves and with the activity list? | holds, 975 354 states up to symmetry |
| `MCPipelineRedelivery.cfg` | What is left of the feed when a task is delivered up to three times, with every failure? | holds, 601 769 states |
| `MCSessionEvents.cfg` | Does a page that switches sessions while they run show what the rows say, and learn how a run ends? Does every session settle? | holds, 350 727 states |
| `MCKnowledgeBase.cfg` | Do uploads, workers and deletion implement the document lifecycle, do documents settle, and does the page learn of it? | holds, 93 351 states |
| `MCWorkspaces.cfg` | Are answers and reports their owner's, and is deletion lasting? | holds, 1 813 902 states up to symmetry |
| `MCChunking.cfg` | Is every text cut into chunks as documented? | holds, 9 589 states |
| `MCApiClient.cfg` | Do tabs, refreshes, logouts, callbacks and failures leave one account per address, useful tokens and no waiting call? | holds, 630 536 states |
| `MCWorkerConnections.cfg` | Does a task call a client of an earlier loop that the last release got to, and is the model loaded once? | no, and yes, 27 601 states |
| `MCSocketCloses.cfg` | Does a socket close once its session has settled? | violated with no fault at all |
| `MCDocumentStuck.cfg` | Does a document in processing always have a worker on it? | violated after a database error |
| `MCTokenReuse.cfg` | Is a refresh token single-use? | violated by two tabs |

**Bounds.** *Graph*: two findings and one chunk, each search returning at most one, so
that passes can find nothing, the same source twice, or different ones. A cap of 5
makes the longest run one node longer than the limit of 25, so both ends occur; the
shipped cap is 2 (a cap of M allows M - 1 loops from a new session). `StartCounts` has a
new session and runs again with the budget partly or wholly used. Score replies are one
without a number, one in range and one above it. A plan or draft is a text or empty. The
code passes no limit of its own, so the real one belongs to the LangGraph release; it
counts supersteps, which for this graph are its nodes. Texts for the metrics have two
words, items three findings and assertions: the metrics compare a marker with a list,
and two markers can differ in every way.

*Runs*: one or two nodes that add no revision or two, so that a node can be the last or
not, and versions differ. Two sessions and two workers let runs interleave, the one
delivered once and the other twice. There a run has one node and adds two revisions
(`MCShortRuns`, `MCOneRevision`), and what fails is a node, a publish, the process and
the row: a statement and a send that fail leave behind what a killed task does, and the
theorems cover them. In the run for redelivery alone one session on two workers is what
matters, under every failure, and two extra copies (`MaxDuplicates`) let a rerun start
both during and after another. One overview is read, at any pace. The activity limit is
four: a session delivered once makes two rows at most and the other three, so there are
complete lists and cut ones.

*Live events*: one page, two sessions and one worker. Pages do not affect each other,
two sessions are needed for a page to confuse them, and one worker runs them in either
order. Runs have up to two nodes, so that a lost update shows. Its faults are a node that
raises and a row that is removed, those under which sessions settle.

*Knowledge base*: two documents share bucket, workers and page. The one meets every
failure but a second delivery, the other a second delivery and a provider that raises;
nothing else of one document depends on another. Chunk counts other than zero differ in
nothing a property sees.

*Workspaces*: two users with a tab each, two projects and two documents, one session.
A violation needs two owners and one thing of each; a search returns one chunk at most.
The users may own everything in any distribution, so two tabs of one user add nothing.

*Chunking*: size 7 and overlap 3, with paragraphs below, at and above the size, shorter
than the overlap, and long enough for two cuts; four of them reach every case twice.
Theorems cover all others.

*Tokens*: two calls of one tab share a refresh, and one of them may instead be a
registration or a provider callback; the third, in the other tab, does any operation with
any failure, and the user may close that tab. So two registrations or callbacks race, one
of them with or without an address. The first pair may age. The stranger signs in once
the person uses the provider: before that nobody looks at the row the stranger has.

*Connections*: one task leaves a connection, a second would use it, a third follows a
release that was cut short, and a fourth what comes after that.

**Symmetry** is used in `MCWorkspaces` (documents, projects, and the exchange of the
users together with their tabs) and in `MCAnalytics` (the workers); neither has a
liveness property. **Deadlock** is
checked but in `MCWorkspaces`, where ids run out, and `MCWorkerConnections`, where
tasks do. The other modules state their end as a stuttering step with a guard.

**Fairness.** In the graph, the worker keeps pulling the stream, so the next node
runs or raises. In `PipelineRuns` and `KnowledgeBase`, a handler goes on to `send_task`,
idle workers poll the broker, a task that is not killed goes on, and the page's timer
fires while it polls. Nothing is assumed of any failure: `SessionsSettle`,
`DocumentsSettle` and `PageSettles` must hold whether or not failures happen. Fairness
of `Step` includes `StoreReport` and excludes an endless stream since `StepNode` is
bounded by `RunLengths`, which `ResearchGraph` justifies. In `SessionEvents` the relay
forwards what it has received; users, fetches and the network owe nothing. In
`ApiClient` the server and the event loops do not all stand still while one of them
has something to do; `CallsSettle` holds because calls, retries and refreshes are
finitely many, so no fairness between them is needed.

**What the runs show.** Delivered once, a session keeps its lifecycle whatever else
fails, up to sessions that stay `running` after a database error, a Redis error or
a kill. Delivered more than once, it loses the order of the feed and the agreement
of row and report: a completed session goes back to `running`, gets a second report,
and may end with the `revision_count` of one run beside the `graph_state` of another.
What remains is that the feed never runs ahead of the database.

A page shows only what the row has reached, whichever of fetch, cache and feed it
learned it from, and a subscription made before the run began hears every node and
the outcome. A subscription made too late hears nothing.

A document delivered once is searchable exactly when it is `indexed`. Delivered twice it
has its chunks twice, and never without the event that says so (`BatchesMatchEvents`).
One that the broker holds settles and the page learns of it, unless a database error, a
kill or a broker that is down takes its task (`abandoned`).

Ownership holds although check and query are separate statements, because an owner once
written is never rewritten and no project is deleted. A refresh is refused only because
another tab presented the token too, the user logged out or it was too old. The stored
refresh token is dead only while its successor or a logout is under way, or when a tab
was closed in that moment.

**Findings** (details and traces' meaning in `PROJECT.json`). A socket opened around the
end of a run stays open and the page keeps the status it had; a database error leaves a
document in processing; two tabs exchange one refresh token for two pairs.

**Observations** that follow from the models and have no run of their own:

- After a database error a session stays `running`, as a document stays in processing:
  `tasks.py:149` has the shape of `tasks.py:309`. A killed run stays `running` for ever.
  So does a `running` announcement that raises, which is outside the inner `try`
  (`tasks.py:139`).
- If the broker is down, `create_session` answers 500 and the row stays `queued`
  (`api/v1/sessions.py:40`); likewise an uploaded document stays `pending`.
- `graph_state` is written at the end only, though `docs/roadmap.md:23` speaks of a
  checkpoint after every node.
- `reports.version` counts rejections, those of the fact checker and those the cap
  overruled among them, while `models/report.py:34` and `docs/database-schema.md:208`
  speak of Reviewer-triggered revisions. The history they promise is not kept: drafts
  live in the graph's state, the next overwrites the last, and one row is inserted when
  the run ends (`tasks.py:276`), so a run leaves no earlier version to compare with.
- A GitHub callback without an address misses the account its person registered and
  creates a second one, or signs in to the one that another such person left
  (`auth.py:163` against the comment at `auth_service.py:104`). Whoever comes after takes
  that row over. `OnePersonOneAccount` names the case: once a callback came without an
  address it says no more than that each address has one row.
- A refresh whose answer is lost after the revocation logs the user out
  (`auth_service.py:89`), and a tab that loses the race for a refresh clears the pair the
  other tab stored (`api-client.ts:29`). Both are behaviours of `MCApiClient.cfg`;
  `StoredTokenIsLive` is about a token that is still stored, so neither violates it.
- With OpenAI embeddings a worker hands one client from loop to loop (`tasks.py:90`), so
  the second task that embeds calls it on a closed one.
- `chunk_text` with an overlap of 0 carries over all of the chunk before instead of
  nothing, as `current[-0:]` is all of `current` (`chunking.py:48`). No caller passes 0.
- A document delivered twice is indexed twice (`knowledge_base_service.py:119`);
  `BatchesMatchEvents` says only that both indexings are recorded.
- The shortcut for "no evidence" (`fact_checker.py:25`) looks at the web findings only:
  a draft that rests on the knowledge base alone is not checked.
- Chunk rows stay after a soft deletion (`docs/api-design.md:107`), and reports written
  before it keep what they drew from the document.

## 4. Proofs

All theorems hold for every value of the constants that satisfies the named assumptions,
which TLC evaluates too.

**ResearchGraph.** `IInv` is inductive. The properties are not so by themselves:
that a draft rests on checked evidence needs to know which keys exist at which node
(`EvidenceInv`, `DraftInv`, `CitationInv`), and the bound on a run's length needs
the variant `BudgetInv`: the nodes run so far, plus the distance to the end, plus
four or two nodes for each loop the counter still allows, never exceed the bound.
Every step takes one from the distance, and a loop back is paid for by the counter.
The proof has one lemma per node and part. From `IInv` follow the nine theorems of
`ResearchGraphProofs`.

**Evaluation.** The metrics are operators on the state, so what is to be shown of a run is
which stages it has left behind at which node (`StageInv`, preserved because no step
removes a key) and, from `IInv`, that at its end citations, sources of the draft and
findings are one list. A stage whose key is there is missing only if its text or list is
empty. Then precision is a share of the markers, and `MetricsCorrect`
says when it is one. It assumes `MaxWords < 2 * Whole`: scores are rounded to four
places, so in a text of 20 000 markers one that resolves to nothing no longer shows.
`ComparisonCorrect` needs no state: the scores of either agent on an item are computed
case by case (no finding, one, more), those of the dataset are averages of three, and a
share is monotone in its part.

**PipelineRuns.** `SingleDeliveryInv` says, per session, where its task can be
(`OneDelivery`: at the handler, in the queue or at one worker), what the worker's
place says of the row and the feed (`TaskMatchesRow`), and the properties
themselves. It speaks of the sessions in `Once` and is inductive whatever happens to the
others, since no step of one session reads or writes another's row, feed or task. So
`SingleDelivery`, `FeedCorrect`, `ReportCorrect` and `ImplementsLifecycle` assume
nothing of the faults. The last is the refinement: every step is
a step of `SessionLifecycle` under the mapping of `Lifecycle`, or leaves its
variables unchanged. `TypeCorrect` holds under every fault, and `NeverStuck` under
any number of redeliveries when database, Redis and process do not fail.
`FeedNeverAhead` assumes nothing of the faults: a worker that serves a session commits
a node before it publishes it, so the rows of a session cover its published nodes and
those its workers have pending (`FollowInv`), however many workers serve it at once.

**Analytics.** The dashboard writes no variable of the runs (`ReaderDoesNotInterfere`). A
step moves the row of one session at most, and only forwards, and the commit that
completes a row records it (`RowsMove`). `OverviewInv` names, for each number already
answered, the set of sessions it counted (`Counts`). Those counted as completed have
their event for ever, and those in `Once` stay completed, so no later statement counts
fewer of them; completed and failed are disjoint, and all of them still have a row when
the chart counts rows. Only a repeated task takes a completed session up again between
two statements, which is the term `OwnRecentSessions \cap Repeated` of `OverviewAgrees`.
A completion that a list does not show has its row among those cut off
(`CompletionsListed`, by a map from the rows cut off onto the sessions not shown).
`OverviewCorrect` holds for any number of sessions, workers and deliveries.

**SessionEvents.** Pages only read what the runs write (`PagesDoNotInterfere`), so the
theorems of the runs hold beside them. The status a page holds
of a session, fetched or heard, is one its row has reached (`Backed`, in `ShownInv`),
which rows that settle once keep true; `ShownIsReached` follows for the sessions in
`Once`. Without Redis failures the published nodes are counted by the rows
(`NodesCounted`), and a page that joined before the first event has the nodes up to
its cursor (`TraceInv`): `EveryNodeIsHeard`.

**KnowledgeBase.** `BatchesCorrect` holds under every fault and any number of deliveries:
an outcome appended to the events adds an indexing exactly if a batch of chunks is
appended with it. `LifecycleInv` is the invariant for the documents whose task is
delivered once (`Once`), beside others that are not: where the task is (`OneDelivery`),
what the worker's place and ORM object say of the row (`TaskMatchesRow`; this is where
the comparison in `MarkFailed` is seen to succeed), and that a row that is not settled
has neither chunks nor events and that what the page shows as settled is the row
(`RowMatchesRest`). `ImplementsLifecycle` and `ShownStatusIsFinal` follow.

**Workspaces.** `IInv` ties every row to the project it hangs from and a request that has
passed its check to what it was checked against (`RequestsHold`); both survive other
requests' steps since owners are written once. `AnswersStayOwn` and the action property
`DeletionIsLasting` follow, for any number of users, clients and rows.

**Chunking.** The chunks form a chain in which each is allowed to follow the one before
(`Follows`), and what is held continues it. `KeepsWhole` up to the end of the last chunk
is what a new chunk extends, as it starts no later than `ChunkOverlap` characters before
that end. All four properties are theorems for every size, overlap and text.

**WorkerConnections.** At the start of a task every client that the last release got to is
unbound (`OwnLoop`, `ReleaseProgress`: what each await of it has done so far), and the
count of loads is one exactly while the provider is cached (`LoadedIsCached`).
`ConnectionsStayInTheirLoop` and `ModelIsLoadedOnce` follow. The former says nothing of
clients that a raising await kept the last release from, nor of OpenAI's embedding
client, and it excepts no other.

**TokenRotation with ApiClient.** A pair is known to nobody until its answer is taken, and
is stored at most once (`PairInv`); a call starts one refresh at most, and what a tab has
exchanged is not the stored token again unless that tab was closed (`RefreshInv`). Who
revoked a token is read off the requests (`RevokedInv`), and a logout that is over has
left its token stored no more (`LogoutInv`). From these follow
`OnePersonHasOneAccount`, `RefusalsAreJustified` and `StoredTokenStaysLive`, for any
tabs, calls, purposes and faults. For the accounts the invariant says of each address that
all its rows are one, and that the person's identity stays on the row of the person's
address while `noEmail` is empty (`AccountInv`).

**Only model-checked**: liveness under fairness is beyond the prover
(`EventuallyReported`, `SessionsSettle`, `SubscriberLearns`, `DocumentsSettle`,
`PageSettles`, `CallsSettle`). Every other property of a passing run is a theorem. Averages
are proved for the three items of the dataset: the sum of any number would take an
induction over data.

## 5. How the parts were ordered, and what is next

The graph and the runs came first, as everything else shows or serves them; then the
live events on top of the runs; then the knowledge base, workspaces, chunking, tokens
with the client, connections, analytics and evaluation; then their proofs. Still worth
doing: what the polling of the list of sessions repairs after a late subscription.

## 6. Not modelled

- *HTTP shell*: application, dependencies, error mapping, rate limit, logging and OAuth
  client are framework configuration. The limiter's counters belong to slowapi; its
  refusal is part of `AnswerFails`.
- *Frontend pages and components*: rendering. The state they depend on is that of
  `SessionEvents`, `KnowledgeBase` and `ApiClient`.
- *Deployment*: Compose files, images, CI and monitoring have no behaviour of their own;
  restarts are `Killed`.
- *Schema, migrations, seed data*: declarations. The columns the code reads and writes
  are variables.
- *Search tools, LLM and embedding providers, loaders*: pure I/O. Their outcomes, any
  result or an exception, are inputs of `ResearchGraph` and `KnowledgeBase`.
- *Object storage*: deletion and health checks, which no service calls.
- *Analytics*: rejection rates and token usage per agent are sums over `agent_runs` and
  depend on no order.
- *Live events*: the list of sessions and its polling.
