---------------------------- MODULE PipelineRuns ----------------------------
(***************************************************************************)
(* Research sessions between the POST that creates one and the rows its    *)
(* run leaves behind: the API handler that commits the row and hands the   *)
(* session to the broker, the broker's queue, and the Celery workers that  *)
(* run the graph, commit after every node, publish what they committed and *)
(* store the report (backend/app/workers/tasks.py).                        *)
(*                                                                         *)
(* Each action ends at a commit, a publish or a send: the points where     *)
(* another process can see the change or the task can die.  What the graph *)
(* computes is in ResearchGraph; here a run is a number of nodes and the   *)
(* revisions it adds.                                                      *)
(***************************************************************************)
EXTENDS Integers, Sequences, SequencesExt

CONSTANTS
  Session, Worker,
  RunLengths,      \* numbers of nodes a complete run can have
  Revisions,       \* revisions one run can add to revision_count
  Repeated,        \* sessions whose task the broker may deliver again
  MaxDuplicates,   \* bound on the copies of a task the broker makes
  Faults           \* what may go wrong: a subset of AllFaults

AllFaults == {"node", "database", "redis", "send", "kill", "delete"}

ASSUME PipelineAssumption ==
  /\ RunLengths \subseteq Nat \ {0}
  /\ Revisions \subseteq Nat
  /\ Repeated \subseteq Session
  /\ MaxDuplicates \in Nat
  /\ Faults \subseteq AllFaults

VARIABLES
  status, revision_count, graph_state,   \* columns of research_sessions
  agentRuns,   \* number of agent_runs rows of a session
  reports,     \* versions of its reports rows, in commit order
  analytics,   \* names of its analytics_events rows, in commit order
  created,     \* sessions whose handler has committed but not called send_task
  queue,       \* copies of the session's task waiting at the broker
  copies,      \* history: copies the broker has made
  place,       \* where each worker is in _run_pipeline_async
  serves,      \* the session it works on, as a set of at most one
  seenStatus, seenCount,   \* its ORM object, kept over a commit (expire_on_commit=False)
  nodes,       \* nodes its run has streamed
  published    \* history: types of the events published on the session's channel

row      == <<status, revision_count, graph_state>>
database == <<row, agentRuns, reports, analytics>>
broker   == <<created, queue, copies>>
object   == <<seenStatus, seenCount>>
task     == <<place, serves, object, nodes>>
vars     == <<database, broker, task, published>>

Settled == {"completed", "failed"}
-----------------------------------------------------------------------------

\* graph_state is 0 when NULL and n + 1 when it holds a state with revision_count n.
Init ==
  /\ status = [s \in Session |-> "absent"]
  /\ revision_count = [s \in Session |-> 0]
  /\ graph_state = [s \in Session |-> 0]
  /\ agentRuns = [s \in Session |-> 0]
  /\ reports = [s \in Session |-> <<>>]
  /\ analytics = [s \in Session |-> <<>>]
  /\ created = {}
  /\ queue = [s \in Session |-> 0]
  /\ copies = [s \in Session |-> 0]
  /\ place = [w \in Worker |-> "idle"]
  /\ serves = [w \in Worker |-> {}]
  /\ seenStatus = [w \in Worker |-> "absent"]
  /\ seenCount = [w \in Worker |-> 0]
  /\ nodes = [w \in Worker |-> 0]
  /\ published = [s \in Session |-> <<>>]

(* The API handler: one commit for the row and its event, then send_task.  *)

Records(s, event) == analytics' = [analytics EXCEPT ![s] = Append(@, event)]

CreateSession(s) ==
  /\ status[s] = "absent"
  /\ status' = [status EXCEPT ![s] = "queued"]
  /\ Records(s, "session.created")
  /\ created' = created \cup {s}
  /\ UNCHANGED <<revision_count, graph_state, agentRuns, reports, queue, copies,
                 task, published>>

SendTask(s) ==
  /\ s \in created
  /\ created' = created \ {s}
  /\ queue' = [queue EXCEPT ![s] = @ + 1]
  /\ UNCHANGED <<database, copies, task, published>>

\* The broker is down or the API process dies: the caller gets an error, the
\* row stays.
SendFails(s) ==
  /\ "send" \in Faults
  /\ s \in created
  /\ created' = created \ {s}
  /\ UNCHANGED <<database, queue, copies, task, published>>

Works(w, s) == s \in serves[w]

\* The row is gone before a worker picks the task up; no endpoint does this,
\* but a deleted project or user cascades to it.
RowRemoved(s) ==
  /\ "delete" \in Faults
  /\ status[s] = "queued"
  /\ s \notin created
  /\ \A w \in Worker : ~Works(w, s)
  /\ status' = [status EXCEPT ![s] = "deleted"]
  /\ UNCHANGED <<revision_count, graph_state, agentRuns, reports, analytics,
                 broker, task, published>>

\* A copy reserved by a worker but not yet acknowledged outlives the broker's
\* visibility timeout: it is delivered again.
Redelivered(s) ==
  /\ s \in Repeated
  /\ queue[s] > 0
  /\ copies[s] < MaxDuplicates
  /\ queue' = [queue EXCEPT ![s] = @ + 1]
  /\ copies' = [copies EXCEPT ![s] = @ + 1]
  /\ UNCHANGED <<database, created, task, published>>

-----------------------------------------------------------------------------
(* _run_pipeline_async.                                                    *)

\* Mutant: acks_late, with the task left at the broker while it runs.
TakesUnacknowledged(w, s) ==
  /\ place[w] = "idle"
  /\ queue[s] > 0
  /\ UNCHANGED <<database, broker, published>>

\* The worker takes a task, which acknowledges it, and reads the row.
Takes(w, s) ==
  /\ place[w] = "idle"
  /\ queue[s] > 0
  /\ queue' = [queue EXCEPT ![s] = @ - 1]
  /\ UNCHANGED <<database, created, copies, published>>

LoadSession(w, s) ==
  /\ Takes(w, s)
  /\ status[s] # "deleted"
  /\ place' = [place EXCEPT ![w] = "loaded"]
  /\ serves' = [serves EXCEPT ![w] = {s}]
  /\ seenStatus' = [seenStatus EXCEPT ![w] = status[s]]
  /\ seenCount' = [seenCount EXCEPT ![w] = revision_count[s]]
  /\ UNCHANGED nodes

SessionGone(w, s) == Takes(w, s) /\ status[s] = "deleted" /\ UNCHANGED task

LoadFails(w, s) == "database" \in Faults /\ Takes(w, s) /\ UNCHANGED task

\* Worker w, at one place with session s, goes on to another.
Goes(w, s, from, to) ==
  /\ place[w] = from
  /\ Works(w, s)
  /\ place' = [place EXCEPT ![w] = to]

\* The task function returned or raised.
Leaves(w) ==
  /\ place' = [place EXCEPT ![w] = "idle"]
  /\ serves' = [serves EXCEPT ![w] = {}]
  /\ seenStatus' = [seenStatus EXCEPT ![w] = "absent"]
  /\ seenCount' = [seenCount EXCEPT ![w] = 0]
  /\ nodes' = [nodes EXCEPT ![w] = 0]

\* An UPDATE carries only the attributes that differ from what the ORM holds.
Flushed(column, held, new) == IF new # held THEN new ELSE column

\* Mutant: the attribute is assigned, the commit forgotten.
SetsStatusUncommitted(w, s, new) ==
  /\ seenStatus' = [seenStatus EXCEPT ![w] = new]
  /\ UNCHANGED status

\* The commit of a new value of the attribute status.
SetsStatus(w, s, new) ==
  /\ status' = [status EXCEPT ![s] = Flushed(@, seenStatus[w], new)]
  /\ seenStatus' = [seenStatus EXCEPT ![w] = new]

Publishes(s, event) == published' = [published EXCEPT ![s] = Append(@, event)]

MarkRunning(w, s) ==
  /\ Goes(w, s, "loaded", "marked")
  /\ SetsStatus(w, s, "running")
  /\ UNCHANGED <<revision_count, graph_state, agentRuns, reports, analytics, broker,
                 serves, seenCount, nodes, published>>

PublishRunning(w, s) ==
  /\ Goes(w, s, "marked", "streaming")
  /\ Publishes(s, "running")
  /\ UNCHANGED <<database, broker, serves, object, nodes>>

\* Mutant: the update is published before its rows are committed.
StepNodeUncommitted(w, s) ==
  /\ Goes(w, s, "streaming", "stepped")
  /\ \E n \in RunLengths : nodes[w] < n
  /\ nodes' = [nodes EXCEPT ![w] = @ + 1]
  /\ UNCHANGED <<database, broker, serves, object, published>>

\* A node's update arrives from the stream; its AgentRun and Message rows are
\* committed before it is published.
StepNode(w, s) ==
  /\ Goes(w, s, "streaming", "stepped")
  /\ \E n \in RunLengths : nodes[w] < n
  /\ agentRuns' = [agentRuns EXCEPT ![s] = @ + 1]
  /\ nodes' = [nodes EXCEPT ![w] = @ + 1]
  /\ UNCHANGED <<row, reports, analytics, broker, serves, object, published>>

PublishNode(w, s) ==
  /\ Goes(w, s, "stepped", "streaming")
  /\ Publishes(s, "node_update")
  /\ UNCHANGED <<database, broker, serves, object, nodes>>

\* Mutant: the stream runs outside the inner try.
NodeRaisesOut(w, s) ==
  /\ "node" \in Faults
  /\ Goes(w, s, "streaming", "idle")
  /\ Leaves(w)
  /\ UNCHANGED <<database, broker, published>>

\* The graph raises, or an agents row is missing.
NodeRaises(w, s) ==
  /\ "node" \in Faults
  /\ Goes(w, s, "streaming", "failing")
  /\ UNCHANGED <<database, broker, serves, object, nodes, published>>

RecordFailure(w, s) ==
  /\ Goes(w, s, "failing", "failed")
  /\ SetsStatus(w, s, "failed")
  /\ Records(s, "session.failed")
  /\ UNCHANGED <<revision_count, graph_state, agentRuns, reports, broker,
                 serves, seenCount, nodes, published>>

\* Mutant: the handler does not raise again, so the run goes on to its report.
FailsWithoutRaise(w, s) ==
  /\ Goes(w, s, "failed", "streaming")
  /\ Publishes(s, "failed")
  /\ UNCHANGED <<database, broker, serves, object, nodes>>

\* Mutant: the exception leaves before the failed event is published.
FailsSilently(w, s) ==
  /\ place[w] = "failed" /\ Works(w, s)
  /\ Leaves(w)
  /\ UNCHANGED <<database, broker, published>>

PublishFailed(w, s) ==
  /\ place[w] = "failed" /\ Works(w, s)
  /\ Publishes(s, "failed")
  /\ Leaves(w)
  /\ UNCHANGED <<database, broker>>

\* A report's version for a session with that many revisions.
ReportVersion(count) == count + 1

\* Mutant: the report gets a commit of its own, before the row's.
StoreReportAlone(w, s) ==
  /\ Goes(w, s, "streaming", "stored")
  /\ nodes[w] \in RunLengths
  /\ \E revisions \in Revisions :
       reports' = [reports EXCEPT ![s] = Append(@, ReportVersion(seenCount[w] + revisions))]
  /\ UNCHANGED <<row, agentRuns, analytics, broker, serves, object, nodes, published>>

\* The stream ended: report, citations, row and event in one commit.
StoreReport(w, s) ==
  /\ Goes(w, s, "streaming", "stored")
  /\ nodes[w] \in RunLengths
  /\ \E revisions \in Revisions :
       LET count == seenCount[w] + revisions IN
         /\ reports' = [reports EXCEPT ![s] = Append(@, ReportVersion(count))]
         /\ revision_count' = [revision_count EXCEPT ![s] = Flushed(@, seenCount[w], count)]
         /\ seenCount' = [seenCount EXCEPT ![w] = count]
         /\ graph_state' = [graph_state EXCEPT ![s] = count + 1]
  /\ SetsStatus(w, s, "completed")
  /\ Records(s, "session.completed")
  /\ UNCHANGED <<agentRuns, broker, serves, nodes, published>>

PublishCompleted(w, s) ==
  /\ place[w] = "stored" /\ Works(w, s)
  /\ Publishes(s, "completed")
  /\ Leaves(w)
  /\ UNCHANGED <<database, broker>>

-----------------------------------------------------------------------------
(* Failures of a running task.                                             *)

\* A failed statement leaves the transaction unusable.  Outside the inner try
\* the task ends; inside it the handler's own statements fail in turn.
DatabaseFails(w) ==
  /\ "database" \in Faults
  /\ place[w] \in {"loaded", "streaming", "failing"}
  /\ Leaves(w)
  /\ UNCHANGED <<database, broker, published>>

\* A publish raises: only the one after a node is inside the inner try.
PublishRaises(w) ==
  /\ "redis" \in Faults
  /\ \/ /\ place[w] \in {"marked", "failed", "stored"}
        /\ Leaves(w)
     \/ /\ place[w] = "stepped"
        /\ place' = [place EXCEPT ![w] = "failing"]
        /\ UNCHANGED <<serves, object, nodes>>
  /\ UNCHANGED <<database, broker, published>>

\* task_time_limit kills the process, as do a deployment or the OOM killer; the
\* task was acknowledged when it started.
Killed(w) ==
  /\ "kill" \in Faults
  /\ place[w] # "idle"
  /\ Leaves(w)
  /\ UNCHANGED <<database, broker, published>>

Handler(s) == CreateSession(s) \/ SendTask(s) \/ SendFails(s)

Pickup(w, s) == LoadSession(w, s) \/ SessionGone(w, s) \/ LoadFails(w, s)

Step(w, s) ==
  \/ MarkRunning(w, s) \/ PublishRunning(w, s) \/ StepNode(w, s) \/ PublishNode(w, s)
  \/ RecordFailure(w, s) \/ PublishFailed(w, s)
  \/ StoreReport(w, s) \/ PublishCompleted(w, s)

Done ==
  /\ \A s \in Session : status[s] # "absent" /\ s \notin created /\ queue[s] = 0
  /\ \A w \in Worker : place[w] = "idle"
  /\ UNCHANGED vars

Next ==
  \/ \E s \in Session : Handler(s) \/ RowRemoved(s) \/ Redelivered(s)
  \/ \E w \in Worker, s \in Session : Pickup(w, s) \/ Step(w, s) \/ NodeRaises(w, s)
  \/ \E w \in Worker : DatabaseFails(w) \/ PublishRaises(w) \/ Killed(w)
  \/ Done

\* The handler runs on, idle workers poll the broker, and a task runs on: a
\* run's nodes end (ResearchGraph!EventuallyReported).
Fairness ==
  /\ \A s \in Session : WF_vars(SendTask(s))
  /\ WF_vars(\E w \in Worker, s \in Session : Pickup(w, s))
  /\ \A w \in Worker : WF_vars(\E s \in Session : Step(w, s))

Spec == Init /\ [][Next]_vars /\ Fairness
-----------------------------------------------------------------------------
(* Properties.                                                             *)

Places == {"idle", "loaded", "marked", "streaming", "stepped", "failing", "failed", "stored"}
Events == {"running", "node_update", "completed", "failed"}

TypeOK ==
  /\ status \in [Session -> {"absent", "queued", "running", "deleted"} \cup Settled]
  /\ revision_count \in [Session -> Nat]
  /\ graph_state \in [Session -> Nat]
  /\ agentRuns \in [Session -> Nat]
  /\ reports \in [Session -> Seq(Nat \ {0})]
  /\ analytics \in [Session -> Seq({"session.created", "session.completed", "session.failed"})]
  /\ created \subseteq Session
  /\ queue \in [Session -> Nat]
  /\ copies \in [Session -> 0..MaxDuplicates]
  /\ place \in [Worker -> Places]
  /\ serves \in [Worker -> SUBSET Session]
  /\ seenStatus \in [Worker -> {"absent", "queued", "running"} \cup Settled]
  /\ seenCount \in [Worker -> Nat]
  /\ nodes \in [Worker -> Nat]
  /\ published \in [Session -> Seq(Events)]

\* The sessions whose task is delivered once, with others beside them.
Once == Session \ Repeated

\* They follow the lifecycle the API promises, whatever fails and whatever
\* repeated runs of other sessions do meanwhile.
Lifecycle == INSTANCE SessionLifecycle WITH
  Session   <- Once,
  status    <- [s \in Once |-> status[s]],
  reported  <- [s \in Once |-> reports[s] # <<>>],
  announced <- [s \in Once |-> ToSet(published[s]) \ {"node_update"}]

RefinesLifecycle == Lifecycle!Spec

\* The live feed of a session tells the story of one run: running first and
\* once, node updates, and a terminal status last, the one the row has.
FeedTells(s) ==
  \A i \in 1..Len(published[s]) :
    /\ published[s][i] = "running" <=> i = 1
    /\ published[s][i] \in Settled => i = Len(published[s]) /\ published[s][i] = status[s]

FeedTellsTheRun == \A s \in Once : FeedTells(s)

\* The report endpoint, the row and the state kept with it agree on how many
\* revisions the session took, and they exist exactly when it is completed.
ReportMatches(s) ==
  /\ status[s] = "completed" <=> reports[s] # <<>>
  /\ reports[s] # <<>> =>
       reports[s] = <<revision_count[s] + 1>> /\ graph_state[s] = revision_count[s] + 1

ReportMatchesRow == \A s \in Once : ReportMatches(s)

NodeUpdates(feed) == {i \in 1..Len(feed) : feed[i] = "node_update"}

\* What a client hears on the live feed it can also read: a completed run has
\* its report, a failed one its analytics event, a node its agent_runs row, even
\* when several deliveries of one task interleave.
FeedFollowsDatabase ==
  \A s \in Session :
    /\ "completed" \in ToSet(published[s]) => reports[s] # <<>>
    /\ "failed" \in ToSet(published[s]) => "session.failed" \in ToSet(analytics[s])
    /\ Cardinality(NodeUpdates(published[s])) <= agentRuns[s]

\* A session shown as running is being worked on: whatever raises in a run,
\* "a whole session just gets marked failed" (analytics_service.py).
NoSessionStuck ==
  \A s \in Session : status[s] = "running" => \E w \in Worker : Works(w, s)

\* A session that reached the broker ends completed or failed, and the feed says
\* so, unless its row is removed.
SessionsSettle ==
  \A s \in Session :
    queue[s] > 0 ~>
      \/ status[s] \in Settled /\ ToSet(published[s]) \cap Settled # {}
      \/ status[s] = "deleted"

-----------------------------------------------------------------------------
(* The inductive invariants of the proofs, checked by TLC as well.         *)

\* Where a task delivered once can be, and what the row and the feed say then.
StatusAt(at) ==
  CASE at = "loaded" -> "queued"
    [] at \in {"marked", "streaming", "stepped", "failing"} -> "running"
    [] at = "failed" -> "failed"
    [] at = "stored" -> "completed"
    [] OTHER -> "absent"

OneDelivery(s) ==
  /\ queue[s] \in {0, 1} /\ copies[s] = 0
  /\ s \in created => status[s] = "queued" /\ queue[s] = 0
  /\ queue[s] = 1 => status[s] \in {"queued", "deleted"}
  /\ s \in created \/ queue[s] = 1 => \A w \in Worker : ~Works(w, s)
  /\ \A v, w \in Worker : Works(v, s) /\ Works(w, s) => v = w

TaskMatchesRow(w, s) ==
  Works(w, s) =>
    /\ serves[w] = {s} /\ place[w] # "idle"
    /\ status[s] = StatusAt(place[w])
    /\ seenStatus[w] = status[s]
    /\ place[w] \in {"loaded", "marked"} => published[s] = <<>>
    /\ place[w] \in {"streaming", "stepped", "failing"} => published[s] # <<>>
    /\ place[w] \in {"failed", "stored"} =>
         published[s] # <<>> /\ ToSet(published[s]) \cap Settled = {}
    /\ seenCount[w] = revision_count[s]

RowMatchesFeed(s) ==
  /\ status[s] = "absent" => revision_count[s] = 0 /\ graph_state[s] = 0
  /\ status[s] \in {"absent", "queued", "deleted"} => published[s] = <<>>
  /\ status[s] = "running" => ToSet(published[s]) \cap Settled = {}

SessionInv(s) ==
  /\ OneDelivery(s)
  /\ RowMatchesFeed(s)
  /\ FeedTells(s)
  /\ ReportMatches(s)
  /\ \A w \in Worker : TaskMatchesRow(w, s)

\* A worker serves one session, and none when idle.
ServesOne(w) ==
  /\ place[w] = "idle" => serves[w] = {}
  /\ place[w] # "idle" => \E s \in Session : serves[w] = {s}

SingleDeliveryInv ==
  /\ TypeOK
  /\ \A w \in Worker : ServesOne(w)
  /\ \A s \in Once : SessionInv(s)
=============================================================================
