------------------------- MODULE PipelineRunsProofs -------------------------
(***************************************************************************)
(* Proofs about PipelineRuns and the overview of Analytics, for every set  *)
(* of sessions and workers: the type invariant; that no session is left    *)
(* running when only nodes raise; that the feed follows the database       *)
(* whatever happens; that for each session whose task is delivered once    *)
(* the feed, the row and the report agree and the system implements        *)
(* SessionLifecycle, whatever fails and whatever is repeated beside it;    *)
(* and that the numbers of an overview agree.                              *)
(***************************************************************************)
EXTENDS Analytics, FiniteSetTheorems, TLAPS

-----------------------------------------------------------------------------
(* Types.                                                                  *)

\* A worker that leaves its task keeps the types of the worker variables.
LEMMA LeavesType ==
  ASSUME TypeOK, NEW w \in Worker, Leaves(w)
  PROVE  /\ place' \in [Worker -> Places] /\ serves' \in [Worker -> SUBSET Session]
         /\ seenStatus' \in [Worker -> {"absent", "queued", "running"} \cup Settled]
         /\ seenCount' \in [Worker -> Nat] /\ nodes' \in [Worker -> Nat]
  BY DEF TypeOK, Leaves, Places

\* So does one that goes to another place.
LEMMA GoesType ==
  ASSUME TypeOK, NEW w \in Worker, NEW s \in Session, NEW from, NEW to \in Places,
         Goes(w, s, from, to)
  PROVE  place' \in [Worker -> Places]
  BY DEF TypeOK, Goes

\* A status commit keeps the types of the column and of the ORM object.
LEMMA SetsStatusType ==
  ASSUME TypeOK, NEW w \in Worker, NEW s \in Session,
         NEW new \in {"running"} \cup Settled, SetsStatus(w, s, new)
  PROVE  /\ status' \in [Session -> {"absent", "queued", "running", "deleted"} \cup Settled]
         /\ seenStatus' \in [Worker -> {"absent", "queued", "running"} \cup Settled]
  BY DEF TypeOK, SetsStatus, Flushed

\* Appending an element of T to one sequence of a family over T.
LEMMA AppendFamily ==
  ASSUME NEW T, NEW f \in [Session -> Seq(T)], NEW s \in Session, NEW e \in T
  PROVE  [f EXCEPT ![s] = Append(@, e)] \in [Session -> Seq(T)]
  <1>1. Append(f[s], e) \in Seq(T) OBVIOUS
  <1>2. QED BY <1>1

\* An event appended to the feed or to the analytics keeps its type.
LEMMA AppendType ==
  ASSUME TypeOK, NEW s \in Session
  PROVE  /\ \A e \in Events : Publishes(s, e) => published' \in [Session -> Seq(Events)]
         /\ \A e \in {"session.created", "session.completed", "session.failed"} :
              Records(s, e) => analytics' \in
                [Session -> Seq({"session.created", "session.completed", "session.failed"})]
  <1>1. /\ published \in [Session -> Seq(Events)]
        /\ analytics \in
             [Session -> Seq({"session.created", "session.completed", "session.failed"})]
    BY DEF TypeOK
  <1>2. ASSUME NEW e \in Events, Publishes(s, e) PROVE published' \in [Session -> Seq(Events)]
    BY <1>1, <1>2, AppendFamily DEF Publishes
  <1> DEFINE Names == {"session.created", "session.completed", "session.failed"}
  <1>3. ASSUME NEW e \in Names, Records(s, e) PROVE analytics' \in [Session -> Seq(Names)]
    <2>1. analytics \in [Session -> Seq(Names)] BY <1>1
    <2> HIDE DEF Names
    <2>2. QED BY <2>1, <1>3, AppendFamily DEF Records
  <1>4. QED BY <1>2, <1>3

\* The API handler, the broker and the removal of a row preserve the types.
LEMMA HandlerType ==
  ASSUME TypeOK, NEW s \in Session, Handler(s) \/ RowRemoved(s) \/ Redelivered(s)
  PROVE  TypeOK'
  <1> USE DEF TypeOK, row, object, task, database, broker
  <1>1. CASE CreateSession(s)
    <2>1. analytics' \in
            [Session -> Seq({"session.created", "session.completed", "session.failed"})]
      BY <1>1, AppendType DEF CreateSession
    <2>2. status' \in [Session -> {"absent", "queued", "running", "deleted"} \cup Settled]
      BY <1>1 DEF CreateSession
    <2>3. QED BY <1>1, <2>1, <2>2 DEF CreateSession
  <1>2. CASE SendTask(s) BY <1>2 DEF SendTask
  <1>3. CASE SendFails(s) BY <1>3 DEF SendFails
  <1>4. CASE RowRemoved(s) BY <1>4 DEF RowRemoved
  <1>5. CASE Redelivered(s)
    <2>1. queue' \in [Session -> Nat] BY <1>5 DEF Redelivered
    <2>2. copies[s] + 1 \in 0..MaxDuplicates BY <1>5, PipelineAssumption DEF Redelivered
    <2>3. copies' \in [Session -> 0..MaxDuplicates] BY <1>5, <2>2 DEF Redelivered
    <2>4. QED BY <1>5, <2>1, <2>3 DEF Redelivered
  <1>6. QED BY <1>1, <1>2, <1>3, <1>4, <1>5 DEF Handler

\* Taking a task preserves the types.
LEMMA PickupType ==
  ASSUME TypeOK, NEW w \in Worker, NEW s \in Session, Pickup(w, s)
  PROVE  TypeOK'
  <1> USE DEF TypeOK, row, object, task, database, broker
  <1>1. Takes(w, s) BY DEF Pickup, LoadSession, SessionGone, LoadFails
  <1>2. queue' \in [Session -> Nat] BY <1>1 DEF Takes
  <1>3. CASE LoadSession(w, s) BY <1>1, <1>2, <1>3 DEF LoadSession, Takes, Places
  <1>4. CASE UNCHANGED task BY <1>1, <1>2, <1>4 DEF Takes
  <1>5. QED BY <1>3, <1>4 DEF Pickup, SessionGone, LoadFails

\* A step of a running task preserves the types.
LEMMA StepType ==
  ASSUME TypeOK, NEW w \in Worker, NEW s \in Session, Step(w, s) \/ NodeRaises(w, s)
  PROVE  TypeOK'
  <1> USE DEF TypeOK, row, object, task, database, broker
  <1>p. /\ Places = {"idle", "loaded", "marked", "streaming", "stepped", "failing",
                     "failed", "stored"}
        /\ Events = {"running", "node_update", "completed", "failed"}
        /\ Settled = {"completed", "failed"}
    BY DEF Places, Events, Settled
  <1>1. CASE MarkRunning(w, s)
    <2>1. Goes(w, s, "loaded", "marked") /\ SetsStatus(w, s, "running")
      BY <1>1 DEF MarkRunning
    <2>2. QED BY <1>1, <1>p, <2>1, GoesType, SetsStatusType DEF MarkRunning
  <1>2. CASE PublishRunning(w, s)
    <2>1. Goes(w, s, "marked", "streaming") /\ Publishes(s, "running")
      BY <1>2 DEF PublishRunning
    <2>2. QED BY <1>2, <1>p, <2>1, GoesType, AppendType DEF PublishRunning
  <1>3. CASE StepNode(w, s)
    <2>1. Goes(w, s, "streaming", "stepped")
      BY <1>3 DEF StepNode
    <2>2. agentRuns' \in [Session -> Nat] /\ nodes' \in [Worker -> Nat]
      BY <1>3 DEF StepNode
    <2>3. QED BY <1>3, <1>p, <2>1, <2>2, GoesType DEF StepNode
  <1>4. CASE PublishNode(w, s)
    <2>1. Goes(w, s, "stepped", "streaming") /\ Publishes(s, "node_update")
      BY <1>4 DEF PublishNode
    <2>2. QED BY <1>4, <1>p, <2>1, GoesType, AppendType DEF PublishNode
  <1>5. CASE NodeRaises(w, s)
    <2>1. Goes(w, s, "streaming", "failing")
      BY <1>5 DEF NodeRaises
    <2>2. QED BY <1>5, <1>p, <2>1, GoesType DEF NodeRaises
  <1>6. CASE RecordFailure(w, s)
    <2>1. /\ Goes(w, s, "failing", "failed") /\ SetsStatus(w, s, "failed")
          /\ Records(s, "session.failed")
      BY <1>6 DEF RecordFailure
    <2>2. QED BY <1>6, <1>p, <2>1, GoesType, SetsStatusType, AppendType DEF RecordFailure
  <1>7. CASE PublishFailed(w, s)
    <2>1. Publishes(s, "failed") /\ Leaves(w)
      BY <1>7 DEF PublishFailed
    <2>2. QED BY <1>7, <1>p, <2>1, LeavesType, AppendType DEF PublishFailed
  <1>8. CASE StoreReport(w, s)
    <2>1. PICK revisions \in Revisions :
            LET count == seenCount[w] + revisions IN
              /\ reports' = [reports EXCEPT ![s] = Append(@, count + 1)]
              /\ revision_count' = [revision_count EXCEPT ![s] = Flushed(@, seenCount[w], count)]
              /\ seenCount' = [seenCount EXCEPT ![w] = count]
              /\ graph_state' = [graph_state EXCEPT ![s] = count + 1]
      BY <1>8 DEF StoreReport, ReportVersion
    <2>2. seenCount[w] + revisions \in Nat /\ seenCount[w] + revisions + 1 \in Nat \ {0}
      BY PipelineAssumption
    <2>3. /\ reports' \in [Session -> Seq(Nat \ {0})] /\ graph_state' \in [Session -> Nat]
          /\ revision_count' \in [Session -> Nat] /\ seenCount' \in [Worker -> Nat]
      BY <2>1, <2>2 DEF Flushed
    <2>4. /\ Goes(w, s, "streaming", "stored") /\ SetsStatus(w, s, "completed")
          /\ Records(s, "session.completed")
      BY <1>8 DEF StoreReport
    <2>5. QED BY <1>8, <1>p, <2>3, <2>4, GoesType, SetsStatusType, AppendType DEF StoreReport
  <1>9. CASE PublishCompleted(w, s)
    <2>1. Publishes(s, "completed") /\ Leaves(w)
      BY <1>9 DEF PublishCompleted
    <2>2. QED BY <1>9, <1>p, <2>1, LeavesType, AppendType DEF PublishCompleted
  <1>10. QED BY <1>1, <1>2, <1>3, <1>4, <1>5, <1>6, <1>7, <1>8, <1>9 DEF Step

\* A task that dies preserves the types.
LEMMA FailureType ==
  ASSUME TypeOK, NEW w \in Worker, DatabaseFails(w) \/ PublishRaises(w) \/ Killed(w)
  PROVE  TypeOK'
  <1> USE LeavesType DEF TypeOK, row, object, task, database, broker
  <1>1. CASE DatabaseFails(w) BY <1>1 DEF DatabaseFails
  <1>2. CASE PublishRaises(w) BY <1>2 DEF PublishRaises, Places
  <1>3. CASE Killed(w) BY <1>3 DEF Killed
  <1>4. QED BY <1>1, <1>2, <1>3

\* Every step preserves the types.
LEMMA TypeStep == TypeOK /\ [Next]_vars => TypeOK'
  <1> SUFFICES ASSUME TypeOK, [Next]_vars PROVE TypeOK'
    OBVIOUS
  <1>1. ASSUME NEW s \in Session, Handler(s) \/ RowRemoved(s) \/ Redelivered(s) PROVE TypeOK'
    BY <1>1, HandlerType
  <1>2. ASSUME NEW w \in Worker, NEW s \in Session, Pickup(w, s) PROVE TypeOK'
    BY <1>2, PickupType
  <1>3. ASSUME NEW w \in Worker, NEW s \in Session, Step(w, s) \/ NodeRaises(w, s) PROVE TypeOK'
    BY <1>3, StepType
  <1>4. ASSUME NEW w \in Worker, DatabaseFails(w) \/ PublishRaises(w) \/ Killed(w) PROVE TypeOK'
    BY <1>4, FailureType
  <1>5. CASE Done \/ UNCHANGED vars
    BY <1>5 DEF Done, vars, row, object, task, database, broker, TypeOK
  <1>6. QED BY <1>1, <1>2, <1>3, <1>4, <1>5 DEF Next

\* The initial state is typed.
LEMMA TypeInit == Init => TypeOK
  BY PipelineAssumption DEF Init, TypeOK, Places, Settled

\* TypeOK is an invariant whatever fails.
THEOREM TypeCorrect == Spec => []TypeOK
  BY TypeInit, TypeStep, PTL DEF Spec

-----------------------------------------------------------------------------
(* No session is left running as long as only nodes raise.                 *)

\* Where a task can be while its session is to be shown as running.
Running == {"marked", "streaming", "stepped", "failing"}

\* A worker serves one session, and none when idle; between the two status
\* commits of a run the ORM object reads running.
WorkerInv(w) ==
  /\ place[w] = "idle" => serves[w] = {}
  /\ place[w] # "idle" => \E s \in Session : serves[w] = {s}
  /\ place[w] \in Running => seenStatus[w] = "running"

\* A running row has a worker that will yet set its status.
RunningInv(s) ==
  status[s] = "running" => \E w \in Worker : s \in serves[w] /\ place[w] \in Running

NotStuckInv ==
  /\ TypeOK
  /\ \A w \in Worker : WorkerInv(w)
  /\ \A s \in Session : RunningInv(s)

\* A step that leaves rows and workers alone keeps the invariant.
LEMMA NotStuckFrame ==
  ASSUME NotStuckInv, TypeOK', UNCHANGED <<place, serves, seenStatus>>,
         \A s \in Session : status'[s] = "running" => status[s] = "running"
  PROVE  NotStuckInv'
  BY DEF NotStuckInv, WorkerInv, RunningInv

\* A worker that stays with its session and keeps it running.
LEMMA NotStuckStays ==
  ASSUME NotStuckInv, TypeOK', NEW w \in Worker, NEW s \in Session, Works(w, s),
         NEW to \in Running, place' = [place EXCEPT ![w] = to], serves' = serves,
         seenStatus' = [seenStatus EXCEPT ![w] = "running"],
         \A r \in Session \ {s} : status'[r] = status[r]
  PROVE  NotStuckInv'
  <1>0. TypeOK BY DEF NotStuckInv
  <1>1. place[w] # "idle" /\ serves[w] = {s}
    BY DEF NotStuckInv, WorkerInv, Works
  <1>2. \A v \in Worker : WorkerInv(v)'
    BY <1>0, <1>1 DEF NotStuckInv, WorkerInv, TypeOK, Running
  <1>3. RunningInv(s)'
    BY <1>0, <1>1 DEF RunningInv, TypeOK
  <1>4. ASSUME NEW r \in Session \ {s} PROVE RunningInv(r)'
    BY <1>0, <1>1 DEF NotStuckInv, RunningInv, TypeOK
  <1>5. QED BY <1>2, <1>3, <1>4 DEF NotStuckInv

\* A worker that settled its session, or leaves it settled.
LEMMA NotStuckSettles ==
  ASSUME NotStuckInv, TypeOK', NEW w \in Worker, NEW s \in Session, Works(w, s),
         NEW to \in {"idle", "failed", "stored"}, place' = [place EXCEPT ![w] = to],
         serves' = [serves EXCEPT ![w] = IF to = "idle" THEN {} ELSE {s}],
         \A v \in Worker \ {w} : seenStatus'[v] = seenStatus[v],
         place[w] \in Running => status'[s] # "running",
         \A r \in Session : status'[r] = "running" => status[r] = "running"
  PROVE  NotStuckInv'
  <1>0. TypeOK BY DEF NotStuckInv
  <1>1. place[w] # "idle" /\ serves[w] = {s}
    BY DEF NotStuckInv, WorkerInv, Works
  <1>2. \A v \in Worker : WorkerInv(v)'
    BY <1>0, <1>1 DEF NotStuckInv, WorkerInv, TypeOK, Running
  <1>3. ASSUME NEW r \in Session, status'[r] = "running" PROVE RunningInv(r)'
    <2>1. PICK v \in Worker : r \in serves[v] /\ place[v] \in Running
      BY <1>3 DEF NotStuckInv, RunningInv
    <2>2. v # w
      BY <1>1, <1>3, <2>1
    <2>3. QED BY <1>0, <2>1, <2>2 DEF RunningInv, TypeOK
  <1>4. QED BY <1>2, <1>3 DEF NotStuckInv, RunningInv

\* Every step but a database error, a publish that raises and a kill.
LEMMA NotStuckStep ==
  ASSUME Faults \cap {"database", "redis", "kill"} = {}, NotStuckInv, [Next]_vars
  PROVE  NotStuckInv'
  <1>0. TypeOK /\ TypeOK' BY TypeStep DEF NotStuckInv
  <1> USE DEF row, object, task, database, broker
  <1>1. ASSUME NEW s \in Session, Handler(s) \/ RowRemoved(s) \/ Redelivered(s)
        PROVE  NotStuckInv'
    <2>1. UNCHANGED <<place, serves, seenStatus>>
      BY <1>1 DEF Handler, CreateSession, SendTask, SendFails, RowRemoved, Redelivered
    <2>2. \A r \in Session : status'[r] = "running" => status[r] = "running"
      BY <1>0, <1>1
      DEF Handler, CreateSession, SendTask, SendFails, RowRemoved, Redelivered, TypeOK
    <2>3. QED BY <1>0, <2>1, <2>2, NotStuckFrame
  <1>2. ASSUME NEW w \in Worker, NEW s \in Session, Pickup(w, s) PROVE NotStuckInv'
    <2>1. CASE LoadSession(w, s)
      <3>1. \A v \in Worker : WorkerInv(v)'
        BY <1>0, <2>1 DEF NotStuckInv, LoadSession, Takes, WorkerInv, TypeOK, Running
      <3>2. ASSUME NEW r \in Session, status[r] = "running"
            PROVE  \E v \in Worker : r \in serves'[v] /\ place'[v] \in Running
        <4>1. PICK v \in Worker : r \in serves[v] /\ place[v] \in Running
          BY <3>2 DEF NotStuckInv, RunningInv
        <4>2. v # w BY <2>1, <4>1 DEF LoadSession, Takes, Running
        <4>3. QED BY <1>0, <2>1, <4>1, <4>2 DEF LoadSession, TypeOK
      <3>3. QED BY <1>0, <2>1, <3>1, <3>2 DEF NotStuckInv, RunningInv, LoadSession, Takes
    <2>2. CASE UNCHANGED task /\ Takes(w, s)
      BY <1>0, <2>2, NotStuckFrame DEF Takes
    <2>3. QED BY <1>2, <2>1, <2>2 DEF Pickup, SessionGone, LoadFails
  <1>3. ASSUME NEW w \in Worker, NEW s \in Session, Step(w, s) \/ NodeRaises(w, s)
        PROVE  NotStuckInv'
    <2>0. Works(w, s)
      BY <1>3 DEF Step, NodeRaises, MarkRunning, PublishRunning, StepNode, PublishNode,
                  RecordFailure, PublishFailed, StoreReport, PublishCompleted, Goes
    <2>1. CASE MarkRunning(w, s)
      BY <1>0, <2>0, <2>1, NotStuckStays DEF MarkRunning, Goes, SetsStatus, Running, TypeOK
    <2>2. CASE PublishRunning(w, s) \/ StepNode(w, s) \/ PublishNode(w, s) \/ NodeRaises(w, s)
      <3>1. PICK to \in Running : place' = [place EXCEPT ![w] = to] /\ place[w] \in Running
        BY <2>2 DEF PublishRunning, StepNode, PublishNode, NodeRaises, Goes, Running
      <3>2. UNCHANGED <<serves, seenStatus, status>>
        BY <2>2 DEF PublishRunning, StepNode, PublishNode, NodeRaises
      <3>3. seenStatus' = [seenStatus EXCEPT ![w] = "running"]
        BY <1>0, <3>1, <3>2 DEF NotStuckInv, WorkerInv, TypeOK
      <3>4. QED BY <1>0, <2>0, <3>1, <3>2, <3>3, NotStuckStays
    <2>3. CASE RecordFailure(w, s) \/ StoreReport(w, s)
      <3>1. PICK to \in {"failed", "stored"}, new \in {"failed", "completed"} :
              place' = [place EXCEPT ![w] = to] /\ place[w] \in Running /\ SetsStatus(w, s, new)
        BY <2>3 DEF RecordFailure, StoreReport, Goes, Running
      <3>2. serves' = serves /\ serves[w] = {s} /\ seenStatus[w] = "running"
        BY <2>0, <2>3, <3>1
        DEF RecordFailure, StoreReport, NotStuckInv, WorkerInv, Works, Running
      <3>3. status' = [status EXCEPT ![s] = new]
        BY <3>1, <3>2 DEF SetsStatus, Flushed
      <3>4. /\ \A v \in Worker \ {w} : seenStatus'[v] = seenStatus[v]
            /\ status'[s] # "running"
            /\ \A r \in Session : status'[r] = "running" => status[r] = "running"
            /\ serves' = [serves EXCEPT ![w] = {s}]
        BY <1>0, <3>1, <3>2, <3>3 DEF SetsStatus, TypeOK
      <3>5. QED BY <1>0, <2>0, <3>1, <3>4, NotStuckSettles
    <2>4. CASE PublishFailed(w, s) \/ PublishCompleted(w, s)
      <3>1. /\ place[w] \notin Running /\ Leaves(w) /\ UNCHANGED status
        BY <2>4 DEF PublishFailed, PublishCompleted, Running
      <3>2. \A v \in Worker \ {w} : seenStatus'[v] = seenStatus[v]
        BY <1>0, <3>1 DEF Leaves, TypeOK
      <3>3. QED BY <1>0, <2>0, <3>1, <3>2, NotStuckSettles DEF Leaves
    <2>5. QED BY <1>3, <2>1, <2>2, <2>3, <2>4 DEF Step
  <1>4. ASSUME NEW w \in Worker, DatabaseFails(w) \/ PublishRaises(w) \/ Killed(w)
        PROVE  NotStuckInv'
    BY <1>4 DEF DatabaseFails, PublishRaises, Killed
  <1>5. CASE Done \/ UNCHANGED vars
    <2>1. UNCHANGED <<place, serves, seenStatus, status>> BY <1>5 DEF Done, vars
    <2>2. QED BY <1>0, <2>1, NotStuckFrame
  <1>6. QED BY <1>1, <1>2, <1>3, <1>4, <1>5 DEF Next

\* Whatever the nodes raise, and however often the broker repeats a task, a
\* session shown as running is being worked on.
THEOREM NeverStuck ==
  ASSUME Faults \cap {"database", "redis", "kill"} = {}
  PROVE  Spec => []NoSessionStuck
  <1>1. Init => NotStuckInv
    BY TypeInit DEF Init, NotStuckInv, WorkerInv, RunningInv, Running
  <1>2. NotStuckInv /\ [Next]_vars => NotStuckInv'
    BY NotStuckStep
  <1>3. NotStuckInv => NoSessionStuck
    BY DEF NotStuckInv, RunningInv, NoSessionStuck, Works
  <1>4. QED BY <1>1, <1>2, <1>3, PTL DEF Spec

-----------------------------------------------------------------------------
(* A task delivered once, beside others that may be delivered again.       *)

\* The workers keep serving one session each.
LEMMA ServesOneStep ==
  ASSUME TypeOK, \A w \in Worker : ServesOne(w), [Next]_vars
  PROVE  \A w \in Worker : ServesOne(w)'
  <1> USE DEF ServesOne, TypeOK, row, object, task, database, broker
  <1>1. ASSUME NEW w \in Worker, NEW s \in Session, Goes(w, s, place[w], place'[w]),
               place'[w] # "idle", place[w] # "idle", serves' = serves
        PROVE  \A v \in Worker : ServesOne(v)'
    BY <1>1 DEF Goes
  <1>2. ASSUME NEW w \in Worker, Leaves(w) PROVE \A v \in Worker : ServesOne(v)'
    BY <1>2 DEF Leaves
  <1>3. ASSUME NEW s \in Session, Handler(s) \/ RowRemoved(s) \/ Redelivered(s)
        PROVE  UNCHANGED <<place, serves>>
    BY <1>3 DEF Handler, CreateSession, SendTask, SendFails, RowRemoved, Redelivered
  <1>4. ASSUME NEW w \in Worker, NEW s \in Session, Pickup(w, s)
        PROVE  \A v \in Worker : ServesOne(v)'
    BY <1>4 DEF Pickup, LoadSession, SessionGone, LoadFails
  <1>5. ASSUME NEW w \in Worker, NEW s \in Session, Step(w, s) \/ NodeRaises(w, s)
        PROVE  \A v \in Worker : ServesOne(v)'
    <2>1. CASE PublishFailed(w, s) \/ PublishCompleted(w, s)
      BY <1>2, <2>1 DEF PublishFailed, PublishCompleted
    <2>2. CASE ~(PublishFailed(w, s) \/ PublishCompleted(w, s))
      <3>1. PICK from \in Places \ {"idle"}, to \in Places \ {"idle"} : Goes(w, s, from, to)
        BY <1>5, <2>2 DEF Step, NodeRaises, MarkRunning, PublishRunning, StepNode, PublishNode,
                          RecordFailure, StoreReport, Goes, Places
      <3>2. serves' = serves
        BY <1>5, <2>2 DEF Step, NodeRaises, MarkRunning, PublishRunning, StepNode, PublishNode,
                          RecordFailure, StoreReport
      <3> QED BY <3>1, <3>2 DEF Goes
    <2> QED BY <2>1, <2>2
  <1>6. ASSUME NEW w \in Worker, DatabaseFails(w) \/ PublishRaises(w) \/ Killed(w)
        PROVE  \A v \in Worker : ServesOne(v)'
    <2>1. Leaves(w) \/ (serves' = serves /\ place' = [place EXCEPT ![w] = "failing"] /\ place[w] = "stepped")
      BY <1>6 DEF DatabaseFails, PublishRaises, Killed
    <2> QED BY <1>2, <2>1
  <1>7. CASE Done \/ UNCHANGED vars
    BY <1>7 DEF Done, vars
  <1> QED BY <1>3, <1>4, <1>5, <1>6, <1>7 DEF Next

\* Nothing the invariant says of session r changes.
SameSession(r) ==
  /\ status'[r] = status[r] /\ revision_count'[r] = revision_count[r]
  /\ graph_state'[r] = graph_state[r] /\ reports'[r] = reports[r]
  /\ queue'[r] = queue[r] /\ copies'[r] = copies[r] /\ published'[r] = published[r]
  /\ r \in created' <=> r \in created
  /\ \A v \in Worker :
       /\ Works(v, r)' <=> Works(v, r)
       /\ Works(v, r) =>
            /\ place'[v] = place[v] /\ serves'[v] = serves[v]
            /\ seenStatus'[v] = seenStatus[v] /\ seenCount'[v] = seenCount[v]

\* And so the invariant keeps what it says of r.
LEMMA SameSessionInv ==
  ASSUME NEW r \in Session, SessionInv(r), SameSession(r)
  PROVE  SessionInv(r)'
  <1> USE DEF SessionInv, SameSession
  <1>1. OneDelivery(r)' BY DEF OneDelivery
  <1>2. RowMatchesFeed(r)' BY DEF RowMatchesFeed
  <1>3. FeedTells(r)' BY DEF FeedTells
  <1>4. ReportMatches(r)' BY DEF ReportMatches
  <1>5. ASSUME NEW v \in Worker PROVE TaskMatchesRow(v, r)' BY DEF TaskMatchesRow
  <1>6. QED BY <1>1, <1>2, <1>3, <1>4, <1>5

\* What an event adds to a feed.
LEMMA FeedGrows ==
  ASSUME TypeOK, NEW s \in Session, NEW e \in Events, Publishes(s, e)
  PROVE  /\ published'[s] = Append(published[s], e)
         /\ published'[s] # <<>>
         /\ ToSet(published'[s]) = ToSet(published[s]) \cup {e}
         /\ Len(published'[s]) = Len(published[s]) + 1
         /\ Len(published[s]) \in Nat
         /\ \A i \in 1..Len(published[s]) : published'[s][i] = published[s][i]
         /\ published'[s][Len(published[s]) + 1] = e
         /\ \A r \in Session \ {s} : published'[r] = published[r]
  <1>1. published[s] \in Seq(Events) /\ published'[s] = Append(published[s], e)
    BY DEF TypeOK, Publishes
  <1>2. /\ published'[s] \in Seq(Events) /\ Len(published'[s]) = Len(published[s]) + 1
        /\ Len(published[s]) \in Nat
        /\ \A i \in 1..Len(published[s]) : published'[s][i] = published[s][i]
        /\ published'[s][Len(published[s]) + 1] = e
    BY <1>1
  <1>3. DOMAIN published'[s] = DOMAIN published[s] \cup {Len(published[s]) + 1}
    BY <1>1, <1>2
  <1>4. DOMAIN published[s] = 1..Len(published[s])
    BY <1>1
  <1>5. ToSet(published'[s]) = ToSet(published[s]) \cup {e}
    BY <1>2, <1>3, <1>4 DEF ToSet
  <1>6. published'[s] # <<>>
    BY <1>2
  <1>7. QED BY <1>1, <1>2, <1>5, <1>6 DEF TypeOK, Publishes

\* The places of a task and the status of its row.
LEMMA StatusAtPlace ==
  /\ StatusAt("idle") = "absent" /\ StatusAt("loaded") = "queued"
  /\ StatusAt("marked") = "running" /\ StatusAt("streaming") = "running"
  /\ StatusAt("stepped") = "running" /\ StatusAt("failing") = "running"
  /\ StatusAt("failed") = "failed" /\ StatusAt("stored") = "completed"
  BY DEF StatusAt

\* A feed without a terminal event.
LEMMA OpenFeed ==
  ASSUME TypeOK, NEW s \in Session, ToSet(published[s]) \cap Settled = {}
  PROVE  \A i \in 1..Len(published[s]) : published[s][i] \notin Settled
  BY DEF ToSet, TypeOK

\* The handler, the removal of a row, and a broker that makes no copies of this task.
LEMMA HandlerSingle ==
  ASSUME SingleDeliveryInv, NEW s \in Once, Handler(s) \/ RowRemoved(s) \/ Redelivered(s)
  PROVE  SessionInv(s)'
  <1> USE DEF row, object, task, database, broker
  <1>0. TypeOK /\ SessionInv(s) /\ s \in Session /\ s \notin Repeated
    BY DEF SingleDeliveryInv, Once
  <1>1. CASE CreateSession(s)
    <2>2. \A v \in Worker : ~Works(v, s)
      BY <1>0, <1>1, StatusAtPlace
      DEF CreateSession, SessionInv, TaskMatchesRow, TypeOK, Places
    <2>3. OneDelivery(s)'
      BY <1>0, <1>1, <2>2 DEF CreateSession, SessionInv, OneDelivery, TypeOK, Works
    <2>4. RowMatchesFeed(s)' /\ FeedTells(s)' /\ ReportMatches(s)'
      BY <1>0, <1>1
      DEF CreateSession, SessionInv, RowMatchesFeed, FeedTells, ReportMatches, TypeOK
    <2>5. \A v \in Worker : TaskMatchesRow(v, s)'
      BY <1>1, <2>2 DEF CreateSession, TaskMatchesRow, Works
    <2>6. QED BY <2>3, <2>4, <2>5 DEF SessionInv
  <1>2. CASE SendTask(s) \/ SendFails(s)
    BY <1>0, <1>2
    DEF SendTask, SendFails, SessionInv, OneDelivery, RowMatchesFeed, FeedTells,
        ReportMatches, TaskMatchesRow, TypeOK, Works
  <1>3. CASE RowRemoved(s)
    BY <1>0, <1>3
    DEF RowRemoved, SessionInv, OneDelivery, RowMatchesFeed, FeedTells, ReportMatches,
        TaskMatchesRow, TypeOK, Works
  <1>4. QED BY <1>0, <1>1, <1>2, <1>3 DEF Handler, Redelivered

\* A worker takes the only copy of a task.
LEMMA PickupSingle ==
  ASSUME SingleDeliveryInv, NEW w \in Worker, NEW s \in Once, Pickup(w, s)
  PROVE  SessionInv(s)'
  <1> USE DEF row, object, task, database, broker
  <1>0. TypeOK /\ SessionInv(s) /\ s \in Session
    BY DEF SingleDeliveryInv, Once
  <1>2. queue[s] = 1 /\ queue'[s] = 0 /\ \A v \in Worker : ~Works(v, s)
    BY <1>0 DEF SessionInv, OneDelivery, Pickup, LoadSession, SessionGone, LoadFails, Takes, TypeOK
  <1>4. CASE LoadSession(w, s)
    <2>1. status[s] = "queued" /\ s \notin created
      BY <1>0, <1>2, <1>4 DEF SessionInv, OneDelivery, LoadSession
    <2>2. OneDelivery(s)'
      BY <1>0, <1>2, <1>4, <2>1 DEF SessionInv, OneDelivery, LoadSession, Takes, TypeOK, Works
    <2>3. \A v \in Worker : TaskMatchesRow(v, s)'
      BY <1>0, <1>2, <1>4, <2>1, StatusAtPlace
      DEF SessionInv, RowMatchesFeed, TaskMatchesRow, LoadSession, Takes, TypeOK, Works
    <2>4. QED
      BY <1>0, <1>4, <2>2, <2>3
      DEF SessionInv, RowMatchesFeed, FeedTells, ReportMatches, LoadSession, Takes
  <1>5. CASE UNCHANGED task
    BY <1>0, <1>2, <1>5
    DEF Pickup, LoadSession, SessionGone, LoadFails, Takes, SessionInv, OneDelivery,
        RowMatchesFeed, FeedTells, ReportMatches, TaskMatchesRow, TypeOK, Works
  <1>6. QED BY <1>4, <1>5 DEF Pickup, SessionGone, LoadFails

\* A worker that leaves its task, whatever it leaves undone.
LEMMA LeavesSingle ==
  ASSUME SingleDeliveryInv, NEW w \in Worker, Leaves(w), UNCHANGED <<database, broker, published>>
  PROVE  \A r \in Once : SessionInv(r)'
  <1> USE DEF row, object, task, database, broker
  <1>0. TypeOK /\ \A r \in Once : SessionInv(r) BY DEF SingleDeliveryInv
  <1>1. ASSUME NEW r \in Once PROVE SessionInv(r)'
    BY <1>0
    DEF Once, Leaves, SessionInv, OneDelivery, RowMatchesFeed, FeedTells, ReportMatches,
        TaskMatchesRow, TypeOK, Works
  <1>2. QED BY <1>1

\* What the steps of one session leave alone: the other sessions.
LEMMA HandlerElsewhere ==
  ASSUME TypeOK, NEW s \in Session, Handler(s) \/ RowRemoved(s) \/ Redelivered(s),
         NEW r \in Session \ {s}
  PROVE  SameSession(r)
  BY DEF Handler, CreateSession, SendTask, SendFails, RowRemoved, Redelivered, SameSession,
         TypeOK, Works, row, object, task, database, broker

LEMMA PickupElsewhere ==
  ASSUME TypeOK, NEW w \in Worker, ServesOne(w), NEW s \in Session, Pickup(w, s),
         NEW r \in Session \ {s}
  PROVE  SameSession(r)
  BY DEF ServesOne, Pickup, LoadSession, SessionGone, LoadFails, Takes, SameSession, TypeOK,
         Works, row, object, task, database, broker

LEMMA StepElsewhere ==
  ASSUME TypeOK, NEW w \in Worker, ServesOne(w), NEW s \in Session, Works(w, s),
         Step(w, s) \/ NodeRaises(w, s), NEW r \in Session \ {s}
  PROVE  SameSession(r)
  <1> USE DEF row, object, task, database, broker, SameSession, TypeOK, Works
  <1>0. TypeOK /\ serves[w] = {s} BY DEF ServesOne
  <1>1. CASE MarkRunning(w, s) BY <1>0, <1>1 DEF MarkRunning, Goes, SetsStatus
  <1>2. CASE PublishRunning(w, s) BY <1>0, <1>2 DEF PublishRunning, Goes, Publishes
  <1>3. CASE StepNode(w, s) BY <1>0, <1>3 DEF StepNode, Goes
  <1>4. CASE PublishNode(w, s) BY <1>0, <1>4 DEF PublishNode, Goes, Publishes
  <1>5. CASE NodeRaises(w, s) BY <1>0, <1>5 DEF NodeRaises, Goes
  <1>6. CASE RecordFailure(w, s) BY <1>0, <1>6 DEF RecordFailure, Goes, SetsStatus
  <1>7. CASE PublishFailed(w, s) BY <1>0, <1>7 DEF PublishFailed, Publishes, Leaves
  <1>8. CASE StoreReport(w, s) BY <1>0, <1>8 DEF StoreReport, Goes, SetsStatus
  <1>9. CASE PublishCompleted(w, s) BY <1>0, <1>9 DEF PublishCompleted, Publishes, Leaves
  <1>10. QED BY <1>1, <1>2, <1>3, <1>4, <1>5, <1>6, <1>7, <1>8, <1>9 DEF Step

\* The session a worker serves is served by no other, and waits nowhere.
LEMMA ServedOnce ==
  ASSUME SingleDeliveryInv, NEW w \in Worker, NEW s \in Once, Works(w, s)
  PROVE  /\ TypeOK /\ SessionInv(s) /\ s \in Session
         /\ s \notin created /\ queue[s] = 0 /\ copies[s] = 0
         /\ \A v \in Worker \ {w} : ~Works(v, s)
         /\ serves[w] = {s} /\ place[w] \in Places \ {"idle"}
         /\ status[s] = StatusAt(place[w]) /\ seenStatus[w] = status[s]
         /\ seenCount[w] = revision_count[s]
  BY DEF SingleDeliveryInv, SessionInv, OneDelivery, TaskMatchesRow, TypeOK, Once

\* A worker that stays with the session: what remains to be shown.
LEMMA StaysSingle ==
  ASSUME SingleDeliveryInv, NEW w \in Worker, NEW s \in Once, Works(w, s),
         NEW to \in Places \ {"idle"}, place' = [place EXCEPT ![w] = to], serves' = serves,
         queue' = queue, copies' = copies, created' = created,
         status'[s] = StatusAt(to), seenStatus'[w] = status'[s],
         seenCount'[w] = revision_count'[s],
         to \in {"marked"} => published'[s] = <<>>,
         to \in {"streaming", "stepped", "failing", "failed", "stored"} =>
           published'[s] # <<>>,
         ToSet(published'[s]) \cap Settled = {},
         to # "loaded", FeedTells(s)', ReportMatches(s)'
  PROVE  SessionInv(s)'
  <1> USE ServedOnce
  <1>1. OneDelivery(s)' BY DEF OneDelivery, Works, SessionInv
  <1>2. RowMatchesFeed(s)' BY StatusAtPlace DEF RowMatchesFeed, Places
  <1>3. ASSUME NEW v \in Worker PROVE TaskMatchesRow(v, s)'
    BY <1>3 DEF TaskMatchesRow, Works, TypeOK, Places
  <1>4. QED BY <1>1, <1>2, <1>3 DEF SessionInv

\* A feed that has begun and not ended goes on, or ends with the row's status.
LEMMA FeedGoesOn ==
  ASSUME TypeOK, NEW s \in Session, FeedTells(s), published[s] # <<>>,
         ToSet(published[s]) \cap Settled = {}, NEW e \in Events \ {"running"},
         Publishes(s, e), e \in Settled => e = status'[s]
  PROVE  FeedTells(s)'
  <1>1. Len(published[s]) \in Nat \ {0} BY DEF TypeOK
  <1>2. \A i \in 1..Len(published[s]) : published[s][i] \notin Settled BY OpenFeed
  <1>3. /\ Len(published'[s]) = Len(published[s]) + 1
        /\ \A i \in 1..Len(published[s]) : published'[s][i] = published[s][i]
        /\ published'[s][Len(published[s]) + 1] = e
    BY FeedGrows
  <1>4. ASSUME NEW i \in 1..Len(published'[s])
        PROVE  /\ published'[s][i] = "running" <=> i = 1
               /\ published'[s][i] \in Settled =>
                    i = Len(published'[s]) /\ published'[s][i] = status'[s]
    <2>1. CASE i \in 1..Len(published[s])
      BY <1>2, <1>3, <2>1 DEF FeedTells
    <2>2. CASE i = Len(published[s]) + 1
      BY <1>1, <1>3, <2>2
    <2>3. QED BY <1>1, <1>3, <2>1, <2>2
  <1>5. QED BY <1>4 DEF FeedTells

\* A worker that published the terminal event and leaves.
LEMMA FinishSingle ==
  ASSUME SingleDeliveryInv, NEW w \in Worker, NEW s \in Once, Works(w, s),
         place[w] \in {"failed", "stored"}, NEW e \in Settled, e = status[s],
         Publishes(s, e), Leaves(w), UNCHANGED <<database, broker>>
  PROVE  SessionInv(s)'
  <1> USE ServedOnce DEF row, object, task, database, broker
  <1>0. TypeOK /\ e \in Events /\ Settled = {"completed", "failed"}
    BY DEF Events, Settled
  <1>1. OneDelivery(s)' BY DEF OneDelivery, Works, SessionInv, Leaves, TypeOK
  <1>2. RowMatchesFeed(s)' BY <1>0 DEF RowMatchesFeed
  <1>3. ReportMatches(s)' BY DEF SessionInv, ReportMatches
  <1>4. ASSUME NEW v \in Worker PROVE TaskMatchesRow(v, s)'
    BY <1>4 DEF TaskMatchesRow, Works, TypeOK, Leaves
  <1>5. published[s] # <<>> /\ ToSet(published[s]) \cap Settled = {}
    BY DEF SessionInv, TaskMatchesRow
  <1>6. FeedTells(s)'
    BY <1>0, <1>5, FeedGoesOn DEF SessionInv
  <1>7. QED BY <1>1, <1>2, <1>3, <1>4, <1>6 DEF SessionInv

\* A step of a running task, seen from its own session.
LEMMA StepSingle ==
  ASSUME SingleDeliveryInv, NEW w \in Worker, NEW s \in Once, Works(w, s),
         Step(w, s) \/ NodeRaises(w, s)
  PROVE  SessionInv(s)'
  <1> USE DEF row, object, task, database, broker
  <1>0. /\ TypeOK /\ SessionInv(s) /\ s \in Session
        /\ status[s] = StatusAt(place[w]) /\ seenStatus[w] = status[s]
        /\ seenCount[w] = revision_count[s]
    BY ServedOnce
  <1>1. CASE MarkRunning(w, s)
    <2>1. /\ place[w] = "loaded" /\ status[s] = "queued" /\ published'[s] = <<>>
          /\ status'[s] = "running" /\ seenStatus'[w] = "running"
          /\ ToSet(published'[s]) \cap Settled = {}
      BY <1>0, <1>1, StatusAtPlace
      DEF MarkRunning, Goes, SetsStatus, Flushed, TypeOK, SessionInv, TaskMatchesRow, ToSet
    <2>2. FeedTells(s)' /\ ReportMatches(s)'
      BY <1>0, <1>1, <2>1 DEF MarkRunning, FeedTells, ReportMatches, SessionInv
    <2>3. QED BY <1>0, <1>1, <2>1, <2>2, StaysSingle, StatusAtPlace
              DEF MarkRunning, Goes, Places
  <1>2. CASE PublishRunning(w, s)
    <2>1. /\ place[w] = "marked" /\ status[s] = "running" /\ published[s] = <<>>
          /\ Publishes(s, "running") /\ "running" \in Events \ Settled
      BY <1>0, <1>2, StatusAtPlace
      DEF PublishRunning, Goes, SessionInv, TaskMatchesRow, Events, Settled
    <2>2. published'[s] # <<>> /\ ToSet(published'[s]) \cap Settled = {}
      BY <1>0, <2>1, FeedGrows DEF ToSet
    <2>3. FeedTells(s)' /\ ReportMatches(s)'
      BY <1>0, <1>2, <2>1, FeedGrows DEF PublishRunning, FeedTells, ReportMatches, SessionInv
    <2>4. QED BY <1>0, <1>2, <2>1, <2>2, <2>3, StaysSingle, StatusAtPlace
              DEF PublishRunning, Goes, Places
  <1>3. CASE StepNode(w, s) \/ NodeRaises(w, s)
    <2>1. PICK to \in {"stepped", "failing"} : place' = [place EXCEPT ![w] = to]
      BY <1>3 DEF StepNode, NodeRaises, Goes
    <2>2. /\ place[w] = "streaming" /\ status[s] = "running"
          /\ UNCHANGED <<row, reports, broker, serves, object, published>>
      BY <1>0, <1>3, StatusAtPlace DEF StepNode, NodeRaises, Goes
    <2>3. published[s] # <<>> /\ ToSet(published[s]) \cap Settled = {}
      BY <1>0, <2>2 DEF SessionInv, RowMatchesFeed, TaskMatchesRow
    <2>4. FeedTells(s)' /\ ReportMatches(s)'
      BY <1>0, <2>2 DEF FeedTells, ReportMatches, SessionInv
    <2>5. QED BY <1>0, <2>1, <2>2, <2>3, <2>4, StaysSingle, StatusAtPlace DEF Places
  <1>4. CASE PublishNode(w, s)
    <2>1. /\ place[w] = "stepped" /\ status[s] = "running" /\ Publishes(s, "node_update")
          /\ "node_update" \in Events \ (Settled \cup {"running"})
          /\ published[s] # <<>> /\ ToSet(published[s]) \cap Settled = {}
      BY <1>0, <1>4, StatusAtPlace
      DEF PublishNode, Goes, SessionInv, TaskMatchesRow, RowMatchesFeed, Events, Settled
    <2>2. published'[s] # <<>> /\ ToSet(published'[s]) \cap Settled = {}
      BY <1>0, <2>1, FeedGrows
    <2>3. FeedTells(s)'
      BY <1>0, <1>4, <2>1, FeedGoesOn DEF PublishNode, SessionInv
    <2>4. ReportMatches(s)'
      BY <1>0, <1>4 DEF PublishNode, ReportMatches, SessionInv
    <2>5. QED BY <1>0, <1>4, <2>1, <2>2, <2>3, <2>4, StaysSingle, StatusAtPlace
              DEF PublishNode, Goes, Places
  <1>5. CASE RecordFailure(w, s)
    <2>1. /\ place[w] = "failing" /\ status[s] = "running"
          /\ status'[s] = "failed" /\ seenStatus'[w] = "failed"
          /\ UNCHANGED <<published, reports, revision_count, graph_state>>
      BY <1>0, <1>5, StatusAtPlace DEF RecordFailure, Goes, SetsStatus, Flushed, TypeOK
    <2>2. published[s] # <<>> /\ ToSet(published[s]) \cap Settled = {}
      BY <1>0, <2>1 DEF SessionInv, RowMatchesFeed, TaskMatchesRow
    <2>3. FeedTells(s)' /\ ReportMatches(s)'
      BY <1>0, <2>1, <2>2, OpenFeed DEF FeedTells, ReportMatches, SessionInv
    <2>4. QED BY <1>0, <1>5, <2>1, <2>2, <2>3, StaysSingle, StatusAtPlace
              DEF RecordFailure, Goes, Places
  <1>6. CASE StoreReport(w, s)
    <2>1. /\ place[w] = "streaming" /\ status[s] = "running"
          /\ status'[s] = "completed" /\ seenStatus'[w] = "completed" /\ published' = published
      BY <1>0, <1>6, StatusAtPlace DEF StoreReport, Goes, SetsStatus, Flushed, TypeOK
    <2>2. published[s] # <<>> /\ ToSet(published[s]) \cap Settled = {}
      BY <1>0, <2>1 DEF SessionInv, RowMatchesFeed, TaskMatchesRow
    <2>3. reports[s] = <<>>
      BY <1>0, <2>1 DEF SessionInv, ReportMatches
    <2>4. PICK revisions \in Revisions :
            LET count == seenCount[w] + revisions IN
              /\ reports' = [reports EXCEPT ![s] = Append(@, count + 1)]
              /\ revision_count' = [revision_count EXCEPT ![s] = Flushed(@, seenCount[w], count)]
              /\ seenCount' = [seenCount EXCEPT ![w] = count]
              /\ graph_state' = [graph_state EXCEPT ![s] = count + 1]
      BY <1>6 DEF StoreReport, ReportVersion
    <2>5. /\ revision_count'[s] = seenCount[w] + revisions
          /\ seenCount'[w] = revision_count'[s]
          /\ reports'[s] = <<revision_count'[s] + 1>>
          /\ graph_state'[s] = revision_count'[s] + 1
      BY <1>0, <2>3, <2>4 DEF Flushed, TypeOK
    <2>6. ReportMatches(s)'
      BY <2>1, <2>5 DEF ReportMatches
    <2>7. FeedTells(s)'
      BY <1>0, <2>1, <2>2, OpenFeed DEF FeedTells, SessionInv
    <2>8. /\ place' = [place EXCEPT ![w] = "stored"]
          /\ UNCHANGED <<serves, queue, copies, created>>
          /\ ToSet(published'[s]) \cap Settled = {}
      BY <1>6, <2>1, <2>2 DEF StoreReport, Goes
    <2>9. "stored" \in Places \ {"idle"} BY DEF Places
    <2>10. QED BY <2>1, <2>2, <2>5, <2>6, <2>7, <2>8, <2>9, StaysSingle, StatusAtPlace
  <1>7. CASE PublishFailed(w, s) \/ PublishCompleted(w, s)
    BY <1>0, <1>7, FinishSingle, StatusAtPlace
    DEF PublishFailed, PublishCompleted, Settled
  <1>8. QED BY <1>1, <1>2, <1>3, <1>4, <1>5, <1>6, <1>7 DEF Step

\* A publish that raises after a node: the failure is handled.
LEMMA PublishRaisesSingle ==
  ASSUME SingleDeliveryInv, NEW w \in Worker, place[w] = "stepped",
         place' = [place EXCEPT ![w] = "failing"], UNCHANGED <<serves, object, nodes>>,
         UNCHANGED <<database, broker, published>>, NEW r \in Once
  PROVE  SessionInv(r)'
  <1> USE DEF row, object, task, database, broker
  <1>0. TypeOK /\ SessionInv(r) /\ r \in Session BY DEF SingleDeliveryInv, Once
  <1>1. CASE Works(w, r)
    <2>1. /\ status[r] = "running" /\ seenStatus[w] = status[r]
          /\ seenCount[w] = revision_count[r]
      BY <1>1, ServedOnce, StatusAtPlace
    <2>2. published[r] # <<>> /\ ToSet(published[r]) \cap Settled = {}
      BY <1>0, <1>1, <2>1 DEF SessionInv, RowMatchesFeed, TaskMatchesRow
    <2>3. FeedTells(r)' /\ ReportMatches(r)'
      BY <1>0 DEF FeedTells, ReportMatches, SessionInv
    <2>4. "failing" \in Places \ {"idle"} BY DEF Places
    <2>5. QED BY <1>1, <2>1, <2>2, <2>3, <2>4, StaysSingle, StatusAtPlace
  <1>2. CASE ~Works(w, r)
    <2>1. SameSession(r) BY <1>0, <1>2 DEF SameSession, Works, TypeOK
    <2>2. QED BY <1>0, <2>1, SameSessionInv
  <1>3. QED BY <1>1, <1>2

\* Every step.
LEMMA SingleStep ==
  ASSUME SingleDeliveryInv, [Next]_vars
  PROVE  SingleDeliveryInv'
  <1>0. /\ TypeOK /\ Once \subseteq Session /\ \A w \in Worker : ServesOne(w)
        /\ TypeOK' /\ \A w \in Worker : ServesOne(w)'
    BY TypeStep, ServesOneStep DEF SingleDeliveryInv, Once
  <1>1. ASSUME NEW s \in Session, Handler(s) \/ RowRemoved(s) \/ Redelivered(s)
        PROVE  SingleDeliveryInv'
    <2>1. \A r \in Once \ {s} : SessionInv(r)'
      BY <1>0, <1>1, HandlerElsewhere, SameSessionInv DEF SingleDeliveryInv
    <2>2. QED BY <1>0, <1>1, <2>1, HandlerSingle DEF SingleDeliveryInv
  <1>2. ASSUME NEW w \in Worker, NEW s \in Session, Pickup(w, s) PROVE SingleDeliveryInv'
    <2>1. \A r \in Once \ {s} : SessionInv(r)'
      BY <1>0, <1>2, PickupElsewhere, SameSessionInv DEF SingleDeliveryInv
    <2>2. QED BY <1>0, <1>2, <2>1, PickupSingle DEF SingleDeliveryInv
  <1>3. ASSUME NEW w \in Worker, NEW s \in Session, Step(w, s) \/ NodeRaises(w, s)
        PROVE  SingleDeliveryInv'
    <2>1. Works(w, s)
      BY <1>3 DEF Step, NodeRaises, MarkRunning, PublishRunning, StepNode, PublishNode,
                  RecordFailure, PublishFailed, StoreReport, PublishCompleted, Goes
    <2>2. \A r \in Once \ {s} : SessionInv(r)'
      BY <1>0, <1>3, <2>1, StepElsewhere, SameSessionInv DEF SingleDeliveryInv
    <2>3. QED BY <1>0, <1>3, <2>1, <2>2, StepSingle DEF SingleDeliveryInv
  <1>4. ASSUME NEW w \in Worker, DatabaseFails(w) \/ PublishRaises(w) \/ Killed(w)
        PROVE  SingleDeliveryInv'
    <2>1. CASE Leaves(w)
      BY <1>0, <1>4, <2>1, LeavesSingle
      DEF DatabaseFails, PublishRaises, Killed, SingleDeliveryInv
    <2>2. CASE ~Leaves(w)
      <3>1. /\ place[w] = "stepped" /\ place' = [place EXCEPT ![w] = "failing"]
            /\ UNCHANGED <<serves, object, nodes>> /\ UNCHANGED <<database, broker, published>>
        BY <1>4, <2>2 DEF DatabaseFails, PublishRaises, Killed
      <3>2. QED BY <1>0, <3>1, PublishRaisesSingle DEF SingleDeliveryInv
    <2>3. QED BY <2>1, <2>2
  <1>5. CASE Done \/ UNCHANGED vars
    <2>1. \A r \in Once : SameSession(r)
      BY <1>5 DEF Done, vars, row, object, task, database, broker, SameSession, Works
    <2>2. QED BY <1>0, <2>1, SameSessionInv DEF SingleDeliveryInv
  <1>6. QED BY <1>1, <1>2, <1>3, <1>4, <1>5 DEF Next

\* The initial state satisfies the invariant.
LEMMA SingleInit == Init => SingleDeliveryInv
  <1> SUFFICES ASSUME Init PROVE SingleDeliveryInv
    OBVIOUS
  <1>1. ASSUME NEW s \in Once PROVE SessionInv(s)
    BY DEF Once, Init, SessionInv, OneDelivery, RowMatchesFeed, FeedTells, ReportMatches,
           TaskMatchesRow, Works
  <1>2. \A w \in Worker : ServesOne(w)
    BY DEF Init, ServesOne
  <1>3. QED BY <1>1, <1>2, TypeInit DEF SingleDeliveryInv

\* The invariant of all the parts, for each session delivered once.
THEOREM SingleDelivery == Spec => []SingleDeliveryInv
  <1>1. SingleDeliveryInv /\ [Next]_vars => SingleDeliveryInv'
    BY SingleStep
  <1>2. QED BY <1>1, SingleInit, PTL DEF Spec

\* The feed of a session delivered once tells the story of one run, whatever
\* repeated runs of other sessions do beside it.
THEOREM FeedCorrect == Spec => []FeedTellsTheRun
  <1>1. SingleDeliveryInv => FeedTellsTheRun
    BY DEF SingleDeliveryInv, SessionInv, FeedTellsTheRun
  <1>2. QED BY <1>1, SingleDelivery, PTL

\* Its report, its row and its graph_state agree.
THEOREM ReportCorrect == Spec => []ReportMatchesRow
  <1>1. SingleDeliveryInv => ReportMatchesRow
    BY DEF SingleDeliveryInv, SessionInv, ReportMatchesRow
  <1>2. QED BY <1>1, SingleDelivery, PTL

-----------------------------------------------------------------------------
(* The feed follows the database, however often a task is delivered.       *)

\* Workers that committed a node of the session and have not published it yet.
Pending(s) == {w \in Worker : Works(w, s) /\ place[w] = "stepped"}

\* The committed nodes cover the published and the pending ones, and whoever is
\* about to publish an outcome has committed what it announces.
FollowInv(s) ==
  /\ "completed" \in ToSet(published[s]) => reports[s] # <<>>
  /\ "failed" \in ToSet(published[s]) => "session.failed" \in ToSet(analytics[s])
  /\ IsFiniteSet(Pending(s))
  /\ Cardinality(NodeUpdates(published[s])) + Cardinality(Pending(s)) <= agentRuns[s]
  /\ \A w \in Worker : Works(w, s) =>
       /\ place[w] = "stored" => reports[s] # <<>>
       /\ place[w] = "failed" => "session.failed" \in ToSet(analytics[s])

FeedInv ==
  /\ TypeOK
  /\ \A w \in Worker : ServesOne(w)
  /\ \A s \in Session : FollowInv(s)

\* Nodes are counted in finitely many positions of a feed.
LEMMA NodeUpdatesFinite ==
  ASSUME NEW feed \in Seq(Events)
  PROVE  IsFiniteSet(NodeUpdates(feed)) /\ Cardinality(NodeUpdates(feed)) \in Nat
  <1>1. IsFiniteSet(1..Len(feed))
    <2>1. Len(feed) \in Int
      OBVIOUS
    <2> QED BY <2>1, FS_Interval
  <1>2. NodeUpdates(feed) \subseteq 1..Len(feed)
    BY DEF NodeUpdates
  <1>3. IsFiniteSet(NodeUpdates(feed))
    BY <1>1, <1>2, FS_Subset
  <1> QED BY <1>3, FS_CardinalityType

\* An event appended to a feed is one node more exactly if it is a node's.
LEMMA NodeUpdatesAppend ==
  ASSUME NEW feed \in Seq(Events), NEW e \in Events
  PROVE  Cardinality(NodeUpdates(Append(feed, e))) =
           Cardinality(NodeUpdates(feed)) + IF e = "node_update" THEN 1 ELSE 0
  <1> DEFINE n == Len(feed)  new == Append(feed, e)
  <1>1. n \in Nat /\ Len(new) = n + 1 /\ new[n + 1] = e
        /\ \A i \in 1..n : new[i] = feed[i]
    OBVIOUS
  <1>2. n + 1 \notin NodeUpdates(feed)
    BY <1>1 DEF NodeUpdates
  <1>3. CASE e = "node_update"
    <2>1. NodeUpdates(new) = NodeUpdates(feed) \cup {n + 1}
      BY <1>1, <1>3 DEF NodeUpdates
    <2> HIDE DEF new, n
    <2>2. Cardinality(NodeUpdates(feed) \cup {n + 1}) = Cardinality(NodeUpdates(feed)) + 1
      BY <1>2, NodeUpdatesFinite, FS_AddElement
    <2> QED BY <1>3, <2>1, <2>2 DEF new
  <1>4. CASE e # "node_update"
    <2>1. NodeUpdates(new) = NodeUpdates(feed)
      BY <1>1, <1>4 DEF NodeUpdates
    <2> QED BY <1>4, <2>1, NodeUpdatesFinite
  <1> QED BY <1>3, <1>4

\* What the feed and the rows of a session say is not lost by a step that adds
\* nothing to the feed and makes nobody pending.
LEMMA FollowStays ==
  ASSUME TypeOK, NEW s \in Session, FollowInv(s),
         published'[s] = published[s], agentRuns'[s] = agentRuns[s],
         reports[s] # <<>> => reports'[s] # <<>>,
         ToSet(analytics[s]) \subseteq ToSet(analytics'[s]),
         \A v \in Worker : Works(v, s)' =>
           /\ place'[v] = "stepped" => Works(v, s) /\ place[v] = "stepped"
           /\ place'[v] = "stored" => reports'[s] # <<>>
           /\ place'[v] = "failed" => "session.failed" \in ToSet(analytics'[s])
  PROVE  FollowInv(s)'
  <1>1. Pending(s)' \subseteq Pending(s)
    BY DEF Pending
  <1>2. /\ IsFiniteSet(Pending(s)') /\ Cardinality(Pending(s)') <= Cardinality(Pending(s))
        /\ Cardinality(Pending(s)') \in Nat /\ Cardinality(Pending(s)) \in Nat
    <2>1. IsFiniteSet(Pending(s))
      BY DEF FollowInv
    <2> QED BY <1>1, <2>1, FS_Subset, FS_CardinalityType
  <1>3. Cardinality(NodeUpdates(published[s])) \in Nat /\ agentRuns[s] \in Nat
    BY NodeUpdatesFinite DEF TypeOK
  <1>4. Cardinality(NodeUpdates(published[s]))' + Cardinality(Pending(s)') <= agentRuns'[s]
    BY <1>2, <1>3 DEF FollowInv
  <1> QED BY <1>2, <1>4 DEF FollowInv

\* Nor by a publish: what it announces is committed, and a worker that publishes
\* its node is no longer pending.
LEMMA FollowPublishes ==
  ASSUME TypeOK, NEW w \in Worker, NEW s \in Session, FollowInv(s), Works(w, s),
         NEW e \in Events, Publishes(s, e), UNCHANGED database,
         e = "node_update" => place[w] = "stepped",
         e = "completed" => place[w] = "stored",
         e = "failed" => place[w] = "failed",
         NEW to \in {"idle", "streaming"}, place' = [place EXCEPT ![w] = to],
         \A v \in Worker \ {w} : serves'[v] = serves[v]
  PROVE  FollowInv(s)'
  <1> USE DEF database
  <1>1. /\ published'[s] = Append(published[s], e)
        /\ ToSet(published'[s]) = ToSet(published[s]) \cup {e}
    BY FeedGrows
  <1>2. /\ place'[w] = to /\ place'[w] \notin {"stepped", "stored", "failed"}
        /\ \A v \in Worker \ {w} : place'[v] = place[v]
    BY DEF TypeOK
  <1>3. Pending(s)' = Pending(s) \ {w}
    BY <1>2 DEF Pending, Works
  <1>4. IsFiniteSet(Pending(s)) /\ Cardinality(Pending(s)) \in Nat
    BY FS_CardinalityType DEF FollowInv
  <1>5. /\ IsFiniteSet(Pending(s) \ {w})
        /\ Cardinality(Pending(s) \ {w}) =
             IF w \in Pending(s) THEN Cardinality(Pending(s)) - 1 ELSE Cardinality(Pending(s))
    BY <1>4, FS_RemoveElement
  <1>6. e = "node_update" => w \in Pending(s)
    BY DEF Pending
  <1>7. /\ Cardinality(NodeUpdates(published'[s])) =
             Cardinality(NodeUpdates(published[s])) + IF e = "node_update" THEN 1 ELSE 0
        /\ Cardinality(NodeUpdates(published[s])) \in Nat /\ agentRuns[s] \in Nat
    BY <1>1, NodeUpdatesAppend, NodeUpdatesFinite DEF TypeOK
  <1>8. Cardinality(NodeUpdates(published'[s])) + Cardinality(Pending(s) \ {w}) <= agentRuns'[s]
    BY <1>4, <1>5, <1>6, <1>7 DEF FollowInv
  <1>9. /\ "completed" \in ToSet(published'[s]) => reports'[s] # <<>>
        /\ "failed" \in ToSet(published'[s]) => "session.failed" \in ToSet(analytics'[s])
    BY <1>1 DEF FollowInv
  <1>10. \A v \in Worker : Works(v, s)' =>
           /\ place'[v] = "stored" => reports'[s] # <<>>
           /\ place'[v] = "failed" => "session.failed" \in ToSet(analytics'[s])
    <2>1. ASSUME NEW v \in Worker, v # w, Works(v, s)'
          PROVE  Works(v, s) /\ place'[v] = place[v]
      BY <1>2, <2>1 DEF Works
    <2> QED BY <1>2, <2>1 DEF FollowInv
  <1> QED BY <1>3, <1>5, <1>8, <1>9, <1>10 DEF FollowInv

\* The worker that commits a node becomes pending.
LEMMA FollowNode ==
  ASSUME TypeOK, NEW w \in Worker, NEW s \in Session, FollowInv(s), StepNode(w, s)
  PROVE  FollowInv(s)'
  <1> USE DEF row, object
  <1>1. /\ place[w] = "streaming" /\ Works(w, s) /\ place' = [place EXCEPT ![w] = "stepped"]
        /\ agentRuns'[s] = agentRuns[s] + 1 /\ agentRuns[s] \in Nat
        /\ UNCHANGED <<reports, analytics, published, serves>>
    BY DEF StepNode, Goes, TypeOK
  <1>2. /\ place'[w] = "stepped" /\ \A v \in Worker \ {w} : place'[v] = place[v]
    BY <1>1 DEF TypeOK
  <1>3. Pending(s)' = Pending(s) \cup {w} /\ w \notin Pending(s)
    BY <1>1, <1>2 DEF Pending, Works
  <1>4. IsFiniteSet(Pending(s)) /\ Cardinality(Pending(s)) \in Nat
    BY FS_CardinalityType DEF FollowInv
  <1>5. /\ IsFiniteSet(Pending(s) \cup {w})
        /\ Cardinality(Pending(s) \cup {w}) = Cardinality(Pending(s)) + 1
    BY <1>3, <1>4, FS_AddElement
  <1>6. Cardinality(NodeUpdates(published[s])) \in Nat
    BY NodeUpdatesFinite DEF TypeOK
  <1>7. Cardinality(NodeUpdates(published'[s])) + Cardinality(Pending(s) \cup {w}) <= agentRuns'[s]
    BY <1>1, <1>4, <1>5, <1>6 DEF FollowInv
  <1> QED BY <1>1, <1>2, <1>3, <1>5, <1>7 DEF FollowInv, Works

\* Every step, under every fault.
LEMMA FollowStep == FeedInv /\ [Next]_vars => FeedInv'
  <1> SUFFICES ASSUME FeedInv, [Next]_vars PROVE FeedInv'
    OBVIOUS
  <1> USE DEF row, object, task, database, broker
  <1>0. /\ TypeOK /\ TypeOK' /\ \A w \in Worker : ServesOne(w)' /\ ServesOne(w)
        /\ \A s \in Session : FollowInv(s)
    BY TypeStep, ServesOneStep DEF FeedInv
  <1>a. \A s \in Session :
          /\ \A v \in Worker : Works(v, s) =>
               /\ place[v] = "stored" => reports[s] # <<>>
               /\ place[v] = "failed" => "session.failed" \in ToSet(analytics[s])
    BY <1>0 DEF FollowInv
  <1>b. ASSUME NEW s \in Session, NEW e, e \in {"session.created", "session.completed", "session.failed"},
               Records(s, e)
        PROVE  /\ ToSet(analytics'[s]) = ToSet(analytics[s]) \cup {e}
               /\ \A r \in Session \ {s} : analytics'[r] = analytics[r]
    <2>1. /\ analytics[s] \in Seq({"session.created", "session.completed", "session.failed"})
          /\ analytics'[s] = Append(analytics[s], e)
          /\ \A r \in Session \ {s} : analytics'[r] = analytics[r]
      BY <1>0, <1>b DEF Records, TypeOK
    <2>2. ToSet(Append(analytics[s], e)) = ToSet(analytics[s]) \cup {e}
      BY <1>b, <2>1 DEF ToSet
    <2> QED BY <2>1, <2>2
  <1>1. ASSUME NEW s \in Session, Handler(s) \/ RowRemoved(s) \/ Redelivered(s)
        PROVE  \A r \in Session : FollowInv(r)'
    <2>1. /\ UNCHANGED <<published, agentRuns, reports, place, serves>>
          /\ UNCHANGED analytics \/ Records(s, "session.created")
      BY <1>1 DEF Handler, CreateSession, SendTask, SendFails, RowRemoved, Redelivered
    <2>2. \A r \in Session : ToSet(analytics[r]) \subseteq ToSet(analytics'[r])
      BY <1>b, <2>1
    <2>3. ASSUME NEW r \in Session PROVE FollowInv(r)'
      <3>1. \A v \in Worker : (Works(v, r)' <=> Works(v, r)) /\ place'[v] = place[v]
        BY <2>1 DEF Works
      <3> QED BY <1>0, <1>a, <2>1, <2>2, <3>1, FollowStays
    <2> QED BY <2>3
  <1>2. ASSUME NEW w \in Worker, NEW s \in Session, Pickup(w, s)
        PROVE  \A r \in Session : FollowInv(r)'
    <2>1. /\ UNCHANGED <<published, agentRuns, reports, analytics>>
          /\ \A v \in Worker \ {w} : place'[v] = place[v] /\ serves'[v] = serves[v]
          /\ place'[w] \in {"idle", "loaded"}
      BY <1>0, <1>2 DEF Pickup, LoadSession, SessionGone, LoadFails, Takes, TypeOK
    <2>2. ASSUME NEW r \in Session PROVE FollowInv(r)'
      <3>1. \A v \in Worker \ {w} : (Works(v, r)' <=> Works(v, r)) /\ place'[v] = place[v]
        BY <2>1 DEF Works
      <3> QED BY <1>0, <1>a, <2>1, <3>1, FollowStays
    <2> QED BY <2>2
  <1>3. ASSUME NEW w \in Worker, Leaves(w), UNCHANGED <<database, published>>
        PROVE  \A r \in Session : FollowInv(r)'
    <2>1. /\ \A v \in Worker \ {w} : place'[v] = place[v] /\ serves'[v] = serves[v]
          /\ place'[w] = "idle"
      BY <1>0, <1>3 DEF Leaves, TypeOK
    <2>2. ASSUME NEW r \in Session PROVE FollowInv(r)'
      <3>1. \A v \in Worker \ {w} : (Works(v, r)' <=> Works(v, r)) /\ place'[v] = place[v]
        BY <2>1 DEF Works
      <3> QED BY <1>0, <1>3, <1>a, <2>1, <3>1, FollowStays
    <2> QED BY <2>2
  <1>4. ASSUME NEW w \in Worker, DatabaseFails(w) \/ PublishRaises(w) \/ Killed(w)
        PROVE  \A r \in Session : FollowInv(r)'
    <2>1. CASE place' = [place EXCEPT ![w] = "failing"] /\ UNCHANGED serves
      <3>1. /\ \A v \in Worker \ {w} : place'[v] = place[v]
            /\ place'[w] = "failing"
        BY <1>0, <2>1 DEF TypeOK
      <3>2. ASSUME NEW r \in Session PROVE FollowInv(r)'
        <4>1. \A v \in Worker : Works(v, r)' <=> Works(v, r)
          BY <2>1 DEF Works
        <4>2. UNCHANGED <<published, agentRuns, reports, analytics>>
          BY <1>4 DEF DatabaseFails, PublishRaises, Killed
        <4> QED BY <1>0, <1>a, <3>1, <4>1, <4>2, FollowStays
      <3> QED BY <3>2
    <2>2. CASE Leaves(w)
      <3>1. UNCHANGED <<database, published>>
        BY <1>4 DEF DatabaseFails, PublishRaises, Killed
      <3> QED BY <1>3, <2>2, <3>1
    <2> QED BY <1>4, <2>1, <2>2 DEF DatabaseFails, PublishRaises, Killed
  <1>5. ASSUME NEW w \in Worker, NEW s \in Session, Step(w, s) \/ NodeRaises(w, s)
        PROVE  \A r \in Session : FollowInv(r)'
    <2>0. /\ Works(w, s) /\ place[w] # "idle" /\ serves[w] = {s}
          /\ \A v \in Worker \ {w} : place'[v] = place[v] /\ serves'[v] = serves[v]
          /\ serves'[w] \in {{}, {s}}
      <3>1. Works(w, s) /\ place[w] # "idle"
        BY <1>5 DEF Step, NodeRaises, MarkRunning, PublishRunning, StepNode, PublishNode,
                    RecordFailure, PublishFailed, StoreReport, PublishCompleted, Goes
      <3>2. serves[w] = {s}
        BY <1>0, <3>1 DEF ServesOne, Works
      <3>3. /\ \A v \in Worker \ {w} : place'[v] = place[v] /\ serves'[v] = serves[v]
            /\ serves'[w] \in {{}, {s}}
        BY <1>0, <1>5, <3>2
        DEF Step, NodeRaises, MarkRunning, PublishRunning, StepNode, PublishNode,
            RecordFailure, PublishFailed, StoreReport, PublishCompleted, Goes, Leaves, TypeOK
      <3> QED BY <3>1, <3>2, <3>3
    <2>1. ASSUME NEW r \in Session \ {s} PROVE FollowInv(r)'
      <3>1. /\ published'[r] = published[r] /\ agentRuns'[r] = agentRuns[r]
            /\ reports'[r] = reports[r] /\ analytics'[r] = analytics[r]
        BY <1>0, <1>5
        DEF Step, NodeRaises, MarkRunning, PublishRunning, StepNode, PublishNode, RecordFailure,
            PublishFailed, StoreReport, PublishCompleted, Publishes, Records, TypeOK
      <3>2. \A v \in Worker : (Works(v, r)' <=> Works(v, r)) /\ (Works(v, r) => place'[v] = place[v])
        BY <2>0 DEF Works
      <3> QED BY <1>0, <1>a, <3>1, <3>2, FollowStays
    <2>2. CASE MarkRunning(w, s) \/ NodeRaises(w, s)
      <3>1. /\ place'[w] \in {"marked", "failing"}
            /\ UNCHANGED <<published, agentRuns, reports, analytics, serves>>
        BY <1>0, <2>2 DEF MarkRunning, NodeRaises, Goes, TypeOK
      <3>2. \A v \in Worker : Works(v, s)' <=> Works(v, s)
        BY <3>1 DEF Works
      <3>3. FollowInv(s)'
        BY <1>0, <1>a, <2>0, <3>1, <3>2, FollowStays
      <3> QED BY <2>1, <3>3
    <2>3. CASE PublishRunning(w, s) \/ PublishNode(w, s)
      <3>1. PICK e \in {"running", "node_update"} :
              /\ Publishes(s, e)
              /\ e = "node_update" => place[w] = "stepped"
              /\ place' = [place EXCEPT ![w] = "streaming"]
        BY <2>3 DEF PublishRunning, PublishNode, Goes
      <3>2. UNCHANGED database /\ e \in Events
        BY <2>3 DEF PublishRunning, PublishNode, Events
      <3>3. FollowInv(s)'
        BY <1>0, <2>0, <3>1, <3>2, FollowPublishes
      <3> QED BY <2>1, <3>3
    <2>4. CASE StepNode(w, s)
      BY <1>0, <2>1, <2>4, FollowNode
    <2>5. CASE RecordFailure(w, s)
      <3>1. /\ place'[w] = "failed" /\ Records(s, "session.failed")
            /\ UNCHANGED <<published, agentRuns, reports, serves>>
        BY <1>0, <2>5 DEF RecordFailure, Goes, TypeOK
      <3>2. \A v \in Worker : Works(v, s)' <=> Works(v, s)
        BY <3>1 DEF Works
      <3>3. ToSet(analytics'[s]) = ToSet(analytics[s]) \cup {"session.failed"}
        BY <1>b, <3>1
      <3>4. FollowInv(s)'
        BY <1>0, <1>a, <2>0, <3>1, <3>2, <3>3, FollowStays
      <3> QED BY <2>1, <3>4
    <2>6. CASE StoreReport(w, s)
      <3>1. /\ place'[w] = "stored" /\ Records(s, "session.completed")
            /\ UNCHANGED <<published, agentRuns, serves>>
        BY <1>0, <2>6 DEF StoreReport, Goes, TypeOK
      <3>2. \A v \in Worker : Works(v, s)' <=> Works(v, s)
        BY <3>1 DEF Works
      <3>3. ToSet(analytics[s]) \subseteq ToSet(analytics'[s])
        BY <1>b, <3>1
      <3>4. reports'[s] # <<>>
        <4>1. PICK revisions \in Revisions :
                reports' = [reports EXCEPT ![s] = Append(@, seenCount[w] + revisions + 1)]
          BY <2>6 DEF StoreReport, ReportVersion
        <4>2. seenCount[w] + revisions + 1 \in Nat \ {0}
          <5>1. seenCount[w] \in Nat /\ revisions \in Nat
            BY <1>0, PipelineAssumption DEF TypeOK
          <5> QED BY <5>1
        <4>3. Len(reports'[s]) = Len(reports[s]) + 1 /\ Len(reports[s]) \in Nat
          BY <1>0, <4>1, <4>2 DEF TypeOK
        <4>4. Len(reports'[s]) # 0 /\ Len(<<>>) = 0
          BY <4>3
        <4> QED BY <4>4, Zenon
      <3>5. FollowInv(s)'
        BY <1>0, <1>a, <2>0, <3>1, <3>2, <3>3, <3>4, FollowStays
      <3> QED BY <2>1, <3>5
    <2>7. CASE PublishFailed(w, s) \/ PublishCompleted(w, s)
      <3>1. PICK e \in Settled :
              /\ Publishes(s, e) /\ Leaves(w) /\ UNCHANGED database
              /\ e = "completed" => place[w] = "stored"
              /\ e = "failed" => place[w] = "failed"
        BY <2>7 DEF PublishFailed, PublishCompleted, Settled
      <3>2. e \in Events /\ e # "node_update" /\ place' = [place EXCEPT ![w] = "idle"]
        BY <3>1 DEF Events, Settled, Leaves
      <3>3. FollowInv(s)'
        BY <1>0, <2>0, <3>1, <3>2, FollowPublishes
      <3> QED BY <2>1, <3>3
    <2> QED BY <1>5, <2>2, <2>3, <2>4, <2>5, <2>6, <2>7 DEF Step
  <1>6. ASSUME Done \/ UNCHANGED vars PROVE \A r \in Session : FollowInv(r)'
    <2>1. UNCHANGED <<published, agentRuns, reports, analytics, place, serves>>
      BY <1>6 DEF Done, vars
    <2>2. ASSUME NEW r \in Session PROVE FollowInv(r)'
      <3>1. \A v \in Worker : (Works(v, r)' <=> Works(v, r)) /\ place'[v] = place[v]
        BY <2>1 DEF Works
      <3>2. /\ published'[r] = published[r] /\ agentRuns'[r] = agentRuns[r]
            /\ reports'[r] = reports[r] /\ analytics'[r] = analytics[r]
        BY <2>1
      <3> QED BY <1>0, <1>a, <3>1, <3>2, FollowStays
    <2> QED BY <2>2
  <1>7. \A r \in Session : FollowInv(r)'
    BY <1>1, <1>2, <1>4, <1>5, <1>6 DEF Next
  <1> QED BY <1>0, <1>7 DEF FeedInv

\* At first there is neither feed nor work.
LEMMA FollowInit == Init => FeedInv
  <1> SUFFICES ASSUME Init PROVE FeedInv
    OBVIOUS
  <1>1. ASSUME NEW s \in Session PROVE FollowInv(s)
    <2>1. /\ published[s] = <<>> /\ agentRuns[s] = 0
          /\ \A w \in Worker : ~Works(w, s)
      BY DEF Init, Works
    <2>2. Pending(s) = {} /\ NodeUpdates(published[s]) = {} /\ ToSet(published[s]) = {}
      BY <2>1 DEF Pending, NodeUpdates, ToSet
    <2>3. IsFiniteSet({}) /\ Cardinality({}) = 0
      BY FS_EmptySet
    <2>4. Cardinality(NodeUpdates(published[s])) + Cardinality(Pending(s)) <= agentRuns[s]
      <3>1. Cardinality(NodeUpdates(published[s])) = 0 /\ Cardinality(Pending(s)) = 0
        BY <2>2, <2>3
      <3> QED BY <2>1, <3>1
    <2>5. IsFiniteSet(Pending(s)) /\ "completed" \notin ToSet(published[s])
          /\ "failed" \notin ToSet(published[s])
      BY <2>2, <2>3
    <2> QED BY <2>1, <2>4, <2>5 DEF FollowInv
  <1>2. \A w \in Worker : ServesOne(w)
    BY DEF Init, ServesOne
  <1> QED BY <1>1, <1>2, TypeInit DEF FeedInv

\* However often the broker delivers a task and whatever fails, a client can
\* read whatever the live feed of a session tells it.
THEOREM FeedNeverAhead == Spec => []FeedFollowsDatabase
  <1>1. FeedInv => FeedFollowsDatabase
    <2> SUFFICES ASSUME FeedInv, NEW s \in Session
                 PROVE  /\ "completed" \in ToSet(published[s]) => reports[s] # <<>>
                        /\ "failed" \in ToSet(published[s]) => "session.failed" \in ToSet(analytics[s])
                        /\ Cardinality(NodeUpdates(published[s])) <= agentRuns[s]
      BY DEF FeedFollowsDatabase
    <2>1. FollowInv(s) /\ agentRuns[s] \in Nat /\ published[s] \in Seq(Events)
      BY DEF FeedInv, TypeOK
    <2>2. Cardinality(NodeUpdates(published[s])) \in Nat /\ Cardinality(Pending(s)) \in Nat
      BY <2>1, NodeUpdatesFinite, FS_CardinalityType DEF FollowInv
    <2> QED BY <2>1, <2>2 DEF FollowInv
  <1> QED BY <1>1, FollowInit, FollowStep, PTL DEF Spec

-----------------------------------------------------------------------------
(* The refinement.                                                         *)

\* The initial state maps to the initial state of the lifecycle.
LEMMA LifecycleInit == Init => Lifecycle!Init
  <1> SUFFICES ASSUME Init PROVE Lifecycle!Init
    OBVIOUS
  <1>1. \A s \in Once : status[s] = "absent" /\ reports[s] = <<>> /\ published[s] = <<>>
    BY DEF Init, Once
  <1>2. \A s \in Once : ToSet(published[s]) \ {"node_update"} = {}
    BY <1>1 DEF ToSet
  <1>3. \A s \in Once : (reports[s] # <<>>) = FALSE
    BY <1>1, Zenon
  <1>4. [s \in Once |-> reports[s] # <<>>] = [s \in Once |-> FALSE]
    BY <1>3, Zenon
  <1>5. [s \in Once |-> status[s]] = [s \in Once |-> "absent"]
    BY <1>1
  <1>6. QED BY <1>2, <1>4, <1>5 DEF Lifecycle!Init

\* The announced statuses after an event on the feed of s.
LEMMA Announced ==
  ASSUME TypeOK, NEW s \in Once, NEW e \in Events, Publishes(s, e)
  PROVE  [r \in Once |-> ToSet(published'[r]) \ {"node_update"}] =
           [[r \in Once |-> ToSet(published[r]) \ {"node_update"}]
              EXCEPT ![s] = @ \cup ({e} \ {"node_update"})]
  <1> DEFINE Seen(feed) == ToSet(feed) \ {"node_update"}
  <1>0. Once \subseteq Session
    BY DEF Once
  <1>1. Seen(published'[s]) = Seen(published[s]) \cup ({e} \ {"node_update"})
    BY <1>0, FeedGrows
  <1>2. \A r \in Once \ {s} : Seen(published'[r]) = Seen(published[r])
    BY <1>0, FeedGrows
  <1> HIDE DEF Seen
  <1>3. [r \in Once |-> Seen(published'[r])] =
          [[r \in Once |-> Seen(published[r])] EXCEPT ![s] = @ \cup ({e} \ {"node_update"})]
    BY <1>1, <1>2
  <1>4. QED BY <1>3 DEF Seen

\* Whether the report endpoint answers, after the report of s is stored.
LEMMA Reported ==
  ASSUME TypeOK, NEW s \in Once, NEW n \in Nat,
         reports' = [reports EXCEPT ![s] = Append(@, n)]
  PROVE  [r \in Once |-> reports'[r] # <<>>] =
           [[r \in Once |-> reports[r] # <<>>] EXCEPT ![s] = TRUE]
  <1> DEFINE Has(rows) == [r \in Once |-> rows[r] # <<>>]
  <1>0. Once \subseteq Session
    BY DEF Once
  <1>1. reports[s] \in Seq(Nat) /\ reports'[s] = Append(reports[s], n)
    BY <1>0 DEF TypeOK
  <1>2. reports'[s] # <<>>
    <2>1. Len(reports'[s]) = Len(reports[s]) + 1 /\ Len(reports[s]) \in Nat
      BY <1>1
    <2>2. Len(reports'[s]) # 0 /\ Len(<<>>) = 0
      BY <2>1
    <2>3. QED BY <2>2, Zenon
  <1>3. \A r \in Once \ {s} : reports'[r] = reports[r]
    BY <1>0 DEF TypeOK
  <1>4. ASSUME NEW r \in Once
        PROVE  (reports'[r] # <<>>) = [Has(reports) EXCEPT ![s] = TRUE][r]
    <2>1. CASE r = s BY <1>2, <2>1, Zenon
    <2>2. CASE r # s BY <1>3, <2>2, Zenon
    <2>3. QED BY <2>1, <2>2
  <1>5. QED BY <1>4, Zenon

\* A move of the row of s is a move of the lifecycle.
LEMMA StatusMoved ==
  ASSUME TypeOK, NEW s \in Once, NEW new, status' = [status EXCEPT ![s] = new]
  PROVE  Lifecycle!Moves(s, status[s], new)
  <1>1. Once \subseteq Session
    BY DEF Once
  <1>2. [r \in Once |-> status'[r]] = [[r \in Once |-> status[r]] EXCEPT ![s] = new]
    BY <1>1 DEF TypeOK
  <1> QED BY <1>2 DEF Lifecycle!Moves

\* What a step of another session is to the lifecycle: nothing.
LEMMA LifecycleElsewhere ==
  ASSUME \A r \in Once : SameSession(r)
  PROVE  UNCHANGED Lifecycle!vars
  <1>1. [r \in Once |-> status[r]]' = [r \in Once |-> status[r]]
    BY DEF SameSession
  <1>2. [r \in Once |-> reports[r] # <<>>]' = [r \in Once |-> reports[r] # <<>>]
    BY Zenon DEF SameSession
  <1>3. [r \in Once |-> ToSet(published[r]) \ {"node_update"}]'
          = [r \in Once |-> ToSet(published[r]) \ {"node_update"}]
    BY DEF SameSession
  <1> QED BY <1>1, <1>2, <1>3 DEF Lifecycle!vars

\* A step of a worker that runs the task of s.
LEMMA LifecycleTask ==
  ASSUME SingleDeliveryInv, NEW w \in Worker, NEW s \in Once, Works(w, s),
         Step(w, s) \/ NodeRaises(w, s)
  PROVE  [Lifecycle!Next]_(Lifecycle!vars)
  <1> USE DEF row, object, task, database, broker
  <1>0. /\ TypeOK /\ s \in Session /\ SessionInv(s) /\ TaskMatchesRow(w, s)
        /\ status[s] = StatusAt(place[w]) /\ seenStatus[w] = status[s]
    BY ServedOnce DEF SessionInv
  <1>1. CASE MarkRunning(w, s)
    <2>1. status[s] = "queued" /\ status' = [status EXCEPT ![s] = "running"]
      BY <1>0, <1>1, StatusAtPlace DEF MarkRunning, Goes, SetsStatus, Flushed
    <2>2. Lifecycle!Start(s)
      BY <1>0, <1>1, <2>1, StatusMoved DEF MarkRunning, Lifecycle!Start
    <2> QED BY <2>2 DEF Lifecycle!Next
  <1>2. CASE StepNode(w, s) \/ NodeRaises(w, s)
    BY <1>2 DEF StepNode, NodeRaises, Lifecycle!vars
  <1>3. CASE PublishNode(w, s)
    <2>1. Publishes(s, "node_update") /\ UNCHANGED <<status, reports>>
      BY <1>3 DEF PublishNode
    <2>2. [r \in Once |-> ToSet(published'[r]) \ {"node_update"}] =
            [r \in Once |-> ToSet(published[r]) \ {"node_update"}]
      BY <1>0, <2>1, Announced DEF Events
    <2> QED BY <2>1, <2>2 DEF Lifecycle!vars
  <1>4. CASE RecordFailure(w, s)
    <2>1. status[s] = "running" /\ status' = [status EXCEPT ![s] = "failed"]
      BY <1>0, <1>4, StatusAtPlace DEF RecordFailure, Goes, SetsStatus, Flushed
    <2>2. Lifecycle!Fail(s)
      BY <1>0, <1>4, <2>1, StatusMoved DEF RecordFailure, Lifecycle!Fail
    <2> QED BY <2>2 DEF Lifecycle!Next
  <1>5. CASE StoreReport(w, s)
    <2>1. status[s] = "running" /\ status' = [status EXCEPT ![s] = "completed"]
      BY <1>0, <1>5, StatusAtPlace DEF StoreReport, Goes, SetsStatus, Flushed
    <2>2. PICK n \in Nat : reports' = [reports EXCEPT ![s] = Append(@, n)]
      <3>1. PICK revisions \in Revisions :
              reports' = [reports EXCEPT ![s] = Append(@, seenCount[w] + revisions + 1)]
        BY <1>5 DEF StoreReport, ReportVersion
      <3>2. seenCount[w] + revisions + 1 \in Nat
        BY <1>0, PipelineAssumption DEF TypeOK
      <3> QED BY <3>1, <3>2
    <2>3. [r \in Once |-> reports[r] # <<>>]' =
            [[r \in Once |-> reports[r] # <<>>] EXCEPT ![s] = TRUE]
      BY <1>0, <2>2, Reported
    <2>4. Lifecycle!Moves(s, "running", "completed")
      BY <1>0, <2>1, StatusMoved
    <2>5. UNCHANGED [r \in Once |-> ToSet(published[r]) \ {"node_update"}]
      BY <1>5 DEF StoreReport
    <2>6. Lifecycle!Complete(s)
      BY <2>3, <2>4, <2>5, Zenon DEF Lifecycle!Complete
    <2> QED BY <2>6 DEF Lifecycle!Next
  <1>6. CASE PublishRunning(w, s) \/ PublishFailed(w, s) \/ PublishCompleted(w, s)
    <2>1. /\ status[s] \in Events \ {"node_update"} /\ Publishes(s, status[s])
          /\ status[s] \in {"running", "completed", "failed"}
          /\ UNCHANGED <<status, reports>>
      BY <1>0, <1>6, StatusAtPlace
      DEF PublishRunning, PublishFailed, PublishCompleted, Goes, Events
    <2>2. status[s] \notin ToSet(published[s])
      BY <1>0, <1>6, <2>1, StatusAtPlace
      DEF PublishRunning, PublishFailed, PublishCompleted, Goes, TaskMatchesRow, ToSet, Settled
    <2>3. Lifecycle!Announce(s)
      BY <1>0, <2>1, <2>2, Announced DEF Lifecycle!Announce
    <2> QED BY <2>3 DEF Lifecycle!Next
  <1> QED BY <1>1, <1>2, <1>3, <1>4, <1>5, <1>6 DEF Step

\* Every step is a step of the lifecycle or leaves it unchanged.
LEMMA LifecycleStep ==
  ASSUME SingleDeliveryInv, [Next]_vars
  PROVE  [Lifecycle!Next]_(Lifecycle!vars)
  <1> USE DEF row, object, task, database, broker
  <1>0. TypeOK /\ Once \subseteq Session /\ \A w \in Worker : ServesOne(w)
    BY DEF SingleDeliveryInv, Once
  <1>1. ASSUME NEW s \in Session, Handler(s) \/ RowRemoved(s) \/ Redelivered(s)
        PROVE  [Lifecycle!Next]_(Lifecycle!vars)
    <2>1. CASE s \notin Once
      BY <1>0, <1>1, <2>1, HandlerElsewhere, LifecycleElsewhere
    <2>2. CASE s \in Once /\ CreateSession(s)
      <3>1. Lifecycle!Create(s)
        BY <1>0, <2>2, StatusMoved DEF CreateSession, Lifecycle!Create
      <3> QED BY <2>2, <3>1 DEF Lifecycle!Next
    <2>3. CASE s \in Once /\ RowRemoved(s)
      <3>1. Lifecycle!Remove(s)
        BY <1>0, <2>3, StatusMoved DEF RowRemoved, Lifecycle!Remove
      <3> QED BY <2>3, <3>1 DEF Lifecycle!Next
    <2>4. CASE SendTask(s) \/ SendFails(s) \/ Redelivered(s)
      BY <2>4 DEF SendTask, SendFails, Redelivered, Lifecycle!vars
    <2> QED BY <1>1, <2>1, <2>2, <2>3, <2>4 DEF Handler
  <1>2. ASSUME NEW w \in Worker, NEW s \in Session, Pickup(w, s)
        PROVE  [Lifecycle!Next]_(Lifecycle!vars)
    BY <1>2 DEF Pickup, LoadSession, SessionGone, LoadFails, Takes, Lifecycle!vars
  <1>3. ASSUME NEW w \in Worker, NEW s \in Session, Step(w, s) \/ NodeRaises(w, s)
        PROVE  [Lifecycle!Next]_(Lifecycle!vars)
    <2>1. Works(w, s)
      BY <1>3 DEF Step, NodeRaises, MarkRunning, PublishRunning, StepNode, PublishNode,
                  RecordFailure, PublishFailed, StoreReport, PublishCompleted, Goes
    <2>2. CASE s \notin Once
      BY <1>0, <1>3, <2>1, <2>2, StepElsewhere, LifecycleElsewhere
    <2>3. CASE s \in Once
      BY <1>3, <2>1, <2>3, LifecycleTask
    <2> QED BY <2>2, <2>3
  <1>4. ASSUME NEW w \in Worker, DatabaseFails(w) \/ PublishRaises(w) \/ Killed(w)
        PROVE  [Lifecycle!Next]_(Lifecycle!vars)
    BY <1>4 DEF DatabaseFails, PublishRaises, Killed, Lifecycle!vars
  <1>5. CASE Done \/ UNCHANGED vars
    BY <1>5 DEF Done, vars, Lifecycle!vars
  <1>6. QED BY <1>1, <1>2, <1>3, <1>4, <1>5 DEF Next

\* For the sessions whose task is delivered once, the handler, the broker and the
\* workers implement the lifecycle the API promises, whatever else fails and
\* however often the tasks of other sessions are repeated.
THEOREM ImplementsLifecycle == Spec => RefinesLifecycle
  <1>1. SingleDeliveryInv /\ [Next]_vars => [Lifecycle!Next]_(Lifecycle!vars)
    BY LifecycleStep
  <1>2. QED BY <1>1, LifecycleInit, SingleDelivery, PTL
            DEF Spec, RefinesLifecycle, Lifecycle!Spec

\* With one delivery a row settles once, and until then goes from queued to
\* running only.
LEMMA StatusMoves ==
  ASSUME SingleDeliveryInv, [Next]_vars, NEW s \in Once
  PROVE  /\ status[s] = "running" => status'[s] \in {"running"} \cup Settled
         /\ status[s] \in Settled => status'[s] = status[s]
  <1> DEFINE rows == [r \in Once |-> status[r]]
  <1>1. [Lifecycle!Next]_(Lifecycle!vars)
    BY LifecycleStep
  <1>2. rows[s] = status[s] /\ rows'[s] = status'[s]
    OBVIOUS
  <1>3. CASE Lifecycle!Next
    <2>1. rows' = rows \/
            \E r \in Once, move \in {<<"absent", "queued">>, <<"queued", "deleted">>,
                                    <<"queued", "running">>, <<"running", "failed">>,
                                    <<"running", "completed">>} :
              rows[r] = move[1] /\ rows' = [rows EXCEPT ![r] = move[2]]
      BY <1>3 DEF Lifecycle!Next, Lifecycle!Create, Lifecycle!Start, Lifecycle!Complete,
         Lifecycle!Fail, Lifecycle!Remove, Lifecycle!Announce, Lifecycle!Moves
    <2> HIDE DEF rows
    <2>2. /\ rows[s] = "running" => rows'[s] \in {"running"} \cup Settled
          /\ rows[s] \in Settled => rows'[s] = rows[s]
      <3>1. \A later : \A r \in Once \ {s} :
               rows' = [rows EXCEPT ![r] = later] => rows'[s] = rows[s]
        OBVIOUS
      <3>2. DOMAIN rows = Once
        BY DEF rows
      <3> QED BY <2>1, <3>1, <3>2 DEF Settled
    <2> QED BY <1>2, <2>2
  <1>4. CASE UNCHANGED Lifecycle!vars
    BY <1>2, <1>4 DEF Lifecycle!vars
  <1> QED BY <1>1, <1>3, <1>4

-----------------------------------------------------------------------------
(* The overview, read while runs go on.                                    *)

\* What a step does to a row and to its events: both only move forward, and the
\* commit that completes a row records it.
Moved(s) ==
  /\ \/ status'[s] \in {status[s], "running"} \cup Settled
     \/ status[s] = "absent" /\ status'[s] = "queued"
     \/ status[s] = "queued" /\ status'[s] = "deleted"
  /\ ToSet(analytics[s]) \subseteq ToSet(analytics'[s])
  /\ status'[s] = "completed" =>
       status[s] = "completed" \/ "session.completed" \in ToSet(analytics'[s])

\* An event committed to the analytics of s.
LEMMA EventRecorded ==
  ASSUME TypeOK, NEW s \in Session,
         NEW e \in {"session.created", "session.completed", "session.failed"}, Records(s, e)
  PROVE  /\ ToSet(analytics'[s]) = ToSet(analytics[s]) \cup {e}
         /\ \A r \in Session \ {s} : analytics'[r] = analytics[r]
  <1>1. /\ analytics[s] \in Seq({"session.created", "session.completed", "session.failed"})
        /\ analytics'[s] = Append(analytics[s], e)
        /\ \A r \in Session \ {s} : analytics'[r] = analytics[r]
    BY DEF Records, TypeOK
  <1>2. ToSet(Append(analytics[s], e)) = ToSet(analytics[s]) \cup {e}
    BY <1>1 DEF ToSet
  <1> QED BY <1>1, <1>2

\* A step moves the row and the events of one session at most.
LEMMA RowsMove ==
  ASSUME TypeOK, [Next]_vars
  PROVE  /\ \A s \in Session : Moved(s)
         /\ \/ UNCHANGED <<status, analytics>>
            \/ \E s \in Session : \A r \in Session \ {s} :
                 status'[r] = status[r] /\ analytics'[r] = analytics[r]
  <1> DEFINE One(s) == \A r \in Session \ {s} :
                         status'[r] = status[r] /\ analytics'[r] = analytics[r]
  <1> USE DEF row, object, task, database, broker
  <1>0. ASSUME UNCHANGED <<status, analytics>> PROVE \A s \in Session : Moved(s)
    BY <1>0 DEF Moved
  <1>s. ASSUME NEW s \in Session, One(s), Moved(s) PROVE \A r \in Session : Moved(r)
    BY <1>s DEF Moved
  <1>1. ASSUME NEW s \in Session, Handler(s) \/ RowRemoved(s) \/ Redelivered(s)
        PROVE  UNCHANGED <<status, analytics>> \/ (One(s) /\ Moved(s))
    <2>1. CASE CreateSession(s)
      <3>1. status[s] = "absent" /\ status' = [status EXCEPT ![s] = "queued"]
            /\ Records(s, "session.created")
        BY <2>1 DEF CreateSession
      <3>2. /\ status'[s] = "queued" /\ \A r \in Session \ {s} : status'[r] = status[r]
        BY <3>1 DEF TypeOK
      <3> QED BY <3>1, <3>2, EventRecorded DEF Moved
    <2>2. CASE RowRemoved(s)
      <3>1. /\ status[s] = "queued" /\ status' = [status EXCEPT ![s] = "deleted"]
            /\ analytics' = analytics
        BY <2>2 DEF RowRemoved
      <3>2. status'[s] = "deleted" /\ \A r \in Session \ {s} : status'[r] = status[r]
        BY <3>1 DEF TypeOK
      <3> QED BY <3>1, <3>2 DEF Moved
    <2>3. CASE SendTask(s) \/ SendFails(s) \/ Redelivered(s)
      BY <2>3 DEF SendTask, SendFails, Redelivered
    <2> QED BY <1>1, <2>1, <2>2, <2>3 DEF Handler
  <1>2. ASSUME NEW w \in Worker, NEW s \in Session, Pickup(w, s)
        PROVE  UNCHANGED <<status, analytics>>
    BY <1>2 DEF Pickup, LoadSession, SessionGone, LoadFails, Takes
  <1>3. ASSUME NEW w \in Worker, NEW s \in Session, Step(w, s) \/ NodeRaises(w, s)
        PROVE  UNCHANGED <<status, analytics>> \/ (One(s) /\ Moved(s))
    <2>1. ASSUME NEW new \in {"running"} \cup Settled, SetsStatus(w, s, new)
          PROVE  /\ status'[s] \in {status[s], new}
                 /\ \A r \in Session \ {s} : status'[r] = status[r]
      BY <2>1 DEF SetsStatus, Flushed, TypeOK
    <2>2. CASE MarkRunning(w, s)
      <3>1. SetsStatus(w, s, "running") /\ analytics' = analytics
        BY <2>2 DEF MarkRunning
      <3> QED BY <2>1, <3>1 DEF Moved, Settled
    <2>3. CASE RecordFailure(w, s)
      <3>1. SetsStatus(w, s, "failed") /\ Records(s, "session.failed")
        BY <2>3 DEF RecordFailure
      <3> QED BY <2>1, <3>1, EventRecorded DEF Moved, Settled
    <2>4. CASE StoreReport(w, s)
      <3>1. SetsStatus(w, s, "completed") /\ Records(s, "session.completed")
        BY <2>4 DEF StoreReport
      <3>2. /\ status'[s] \in {status[s], "completed"}
            /\ \A r \in Session \ {s} : status'[r] = status[r]
        BY <2>1, <3>1 DEF Settled
      <3>3. ToSet(analytics'[s]) = ToSet(analytics[s]) \cup {"session.completed"}
            /\ \A r \in Session \ {s} : analytics'[r] = analytics[r]
        BY <3>1, EventRecorded
      <3> QED BY <3>2, <3>3 DEF Moved, Settled
    <2>5. CASE \/ PublishRunning(w, s) \/ StepNode(w, s) \/ PublishNode(w, s)
               \/ PublishFailed(w, s) \/ PublishCompleted(w, s) \/ NodeRaises(w, s)
      BY <2>5 DEF PublishRunning, StepNode, PublishNode, PublishFailed, PublishCompleted, NodeRaises
    <2> QED BY <1>3, <2>2, <2>3, <2>4, <2>5 DEF Step
  <1>4. ASSUME NEW w \in Worker, DatabaseFails(w) \/ PublishRaises(w) \/ Killed(w)
        PROVE  UNCHANGED <<status, analytics>>
    BY <1>4 DEF DatabaseFails, PublishRaises, Killed
  <1>5. CASE Done \/ UNCHANGED vars
    BY <1>0, <1>5 DEF Done, vars
  <1>6. \/ UNCHANGED <<status, analytics>>
        \/ \E s \in Session : One(s) /\ Moved(s)
    BY <1>1, <1>2, <1>3, <1>4, <1>5 DEF Next
  <1> QED BY <1>0, <1>s, <1>6

\* Sessions with a row or an event.
Known == {s \in Session : status[s] # "absent" \/ analytics[s] # <<>>}

Started == {s \in Session : status[s] \in {"running"} \cup Settled}
Completed == {s \in Session : status[s] = "completed"}
Recorded == {s \in Session : "session.completed" \in ToSet(analytics[s])}

\* Each number of the overview is that of a set of sessions, of which those
\* delivered once are still what they were counted as.
Counts(averaged, completed, failed) ==
  /\ overview.averaged = Cardinality(averaged)
  /\ overview.completed = Cardinality(completed)
  /\ overview.failed = Cardinality(failed)
  /\ averaged \cup completed \subseteq Recorded
  /\ averaged \cap Once \subseteq Completed
  /\ completed \cap failed = {}
  /\ statement < 3 => completed = {} /\ failed = {}
  /\ statement >= 3 => averaged \cap Once \subseteq completed
  /\ statement = 4 => Cardinality(completed \cup failed) <= overview.over_time

OverviewInv ==
  /\ SingleDeliveryInv
  /\ IsFiniteSet(Known)
  /\ Completed \subseteq Recorded
  /\ statement \in 0..4
  /\ overview \in [{"sessions_run", "averaged", "completed", "failed", "over_time"} -> Nat]
  /\ \E averaged, completed, failed \in SUBSET Started : Counts(averaged, completed, failed)

\* What the statements count is finite.
LEMMA CountsFinite ==
  ASSUME TypeOK, IsFiniteSet(Known)
  PROVE  /\ \A S \in SUBSET Started : IsFiniteSet(S) /\ Cardinality(S) \in Nat
         /\ \A S \in SUBSET OwnRecentSessions : IsFiniteSet(S) /\ Cardinality(S) \in Nat
         /\ IsFiniteSet(Recorded) /\ Cardinality(Recorded) \in Nat
  <1>1. Started \subseteq Known
    BY DEF Started, Known, Settled
  <1>2. OwnRecentSessions \subseteq Known
    BY DEF OwnRecentSessions, HasRow, Known
  <1>3. Recorded \subseteq Known
    BY DEF Recorded, Known, ToSet
  <1>4. \A S \in SUBSET Known : IsFiniteSet(S) /\ Cardinality(S) \in Nat
    BY FS_Subset, FS_CardinalityType
  <1> QED BY <1>1, <1>2, <1>3, <1>4

\* So are the rows of the activity, and whatever completion a list lacks has a row
\* that the limit cut off.
LEMMA CompletionsListed ==
  ASSUME TypeOK, IsFiniteSet(Known), NEW list \in SUBSET EventRows
  PROVE  LET shown == ShownIn(list, "session.completed")
             cut   == EventRows \ list
         IN  /\ Cardinality(shown) \in Nat /\ Cardinality(cut) \in Nat
             /\ Cardinality(Recorded) <= Cardinality(shown) + Cardinality(cut)
  <1> DEFINE shown == ShownIn(list, "session.completed")
             cut   == EventRows \ list
             Rows(s) == {<<s, i>> : i \in DOMAIN analytics[s]}
             lost  == {p \in cut : p[1] \in Recorded \ shown}
  <1>1. \A s \in Session : DOMAIN analytics[s] = 1..Len(analytics[s]) /\ Len(analytics[s]) \in Nat
    BY DEF TypeOK
  <1>2. \A s \in Known : IsFiniteSet(Rows(s))
    <2> SUFFICES ASSUME NEW s \in Known PROVE IsFiniteSet(Rows(s))
      OBVIOUS
    <2>1. IsFiniteSet(DOMAIN analytics[s])
      BY <1>1, FS_Interval DEF Known
    <2>2. [i \in DOMAIN analytics[s] |-> <<s, i>>] \in Surjection(DOMAIN analytics[s], Rows(s))
      BY DEF Surjection
    <2> QED BY <2>1, <2>2, FS_Surjection
  <1>3. IsFiniteSet(EventRows)
    <2>1. [s \in Known |-> Rows(s)] \in Surjection(Known, {Rows(s) : s \in Known})
      BY DEF Surjection
    <2>2. IsFiniteSet({Rows(s) : s \in Known})
      BY <2>1, FS_Surjection
    <2>3. IsFiniteSet(UNION {Rows(s) : s \in Known})
      BY <1>2, <2>2, FS_UNION
    <2>4. EventRows = UNION {Rows(s) : s \in Known}
      BY DEF EventRows, Known
    <2> QED BY <2>3, <2>4
  <1>4. IsFiniteSet(cut) /\ IsFiniteSet(lost) /\ Cardinality(cut) \in Nat
        /\ Cardinality(lost) \in Nat /\ Cardinality(lost) <= Cardinality(cut)
    BY <1>3, FS_Subset, FS_CardinalityType
  <1>5. IsFiniteSet(shown) /\ IsFiniteSet(Recorded) /\ Cardinality(shown) \in Nat
        /\ Cardinality(Recorded) \in Nat
    <2>1. shown \subseteq Recorded
      BY <1>1 DEF ShownIn, Recorded, ToSet
    <2> QED BY <2>1, CountsFinite, FS_Subset, FS_CardinalityType
  <1>6. IsFiniteSet(Recorded \ shown) /\ Cardinality(Recorded \ shown) <= Cardinality(lost)
        /\ Cardinality(Recorded \ shown) \in Nat
    <2>1. \A s \in Recorded \ shown : \E p \in lost : p[1] = s
      <3> SUFFICES ASSUME NEW s \in Recorded \ shown PROVE \E p \in lost : p[1] = s
        OBVIOUS
      <3>1. PICK i \in DOMAIN analytics[s] : analytics[s][i] = "session.completed"
        BY <1>1 DEF Recorded, ToSet
      <3>2. <<s, i>> \in EventRows
        BY DEF EventRows, Recorded
      <3>3. <<s, i>> \notin list
        BY <3>1 DEF ShownIn, Recorded
      <3> QED BY <3>2, <3>3
    <2>2. [p \in lost |-> p[1]] \in Surjection(lost, Recorded \ shown)
      BY <2>1 DEF Surjection
    <2> QED BY <1>4, <2>2, FS_Surjection, FS_CardinalityType
  <1>7. Cardinality(Recorded) <= Cardinality(shown) + Cardinality(Recorded \ shown)
    <2>1. /\ IsFiniteSet(shown \cup (Recorded \ shown))
          /\ Cardinality(shown \cup (Recorded \ shown)) =
               Cardinality(shown) + Cardinality(Recorded \ shown)
                 - Cardinality(shown \cap (Recorded \ shown))
      BY <1>5, <1>6, FS_Union
    <2>2. Cardinality(shown \cap (Recorded \ shown)) = 0
      BY FS_EmptySet
    <2>3. Cardinality(Recorded) <= Cardinality(shown \cup (Recorded \ shown))
      BY <2>1, FS_Subset
    <2> QED BY <1>5, <1>6, <2>1, <2>2, <2>3
  <1> QED BY <1>4, <1>5, <1>6, <1>7

\* A step of the runs leaves the numbers about what they were counted from.
LEMMA OverviewRuns ==
  ASSUME OverviewInv, [Next]_vars, UNCHANGED dashboard
  PROVE  OverviewInv'
  <1>0. /\ TypeOK /\ SingleDeliveryInv /\ SingleDeliveryInv' /\ IsFiniteSet(Known)
        /\ Completed \subseteq Recorded /\ Once \subseteq Session
    BY SingleStep DEF OverviewInv, SingleDeliveryInv, Once
  <1>m. \A s \in Session : Moved(s)
    BY <1>0, RowsMove
  <1>1. Started \subseteq Started'
    BY <1>m DEF Moved, Started, Settled
  <1>2. Recorded \subseteq Recorded'
    BY <1>m DEF Moved, Recorded
  <1>3. Completed' \subseteq Recorded'
    BY <1>0, <1>2, <1>m DEF Moved, Completed, Recorded
  <1>4. Completed \cap Once \subseteq Completed'
    BY <1>0, StatusMoves DEF Completed, Settled
  <1>5. IsFiniteSet(Known')
    <2>1. CASE UNCHANGED <<status, analytics>>
      BY <1>0, <2>1 DEF Known
    <2>2. ASSUME NEW s \in Session,
                 \A r \in Session \ {s} : status'[r] = status[r] /\ analytics'[r] = analytics[r]
          PROVE  IsFiniteSet(Known')
      <3>1. Known' \subseteq Known \cup {s}
        BY <2>2 DEF Known
      <3>2. IsFiniteSet(Known \cup {s})
        BY <1>0, FS_AddElement
      <3> QED BY <3>1, <3>2, FS_Subset
    <2> QED BY <1>0, <2>1, <2>2, RowsMove
  <1>6. UNCHANGED <<statement, overview>>
    BY DEF dashboard
  <1>7. \E averaged, completed, failed \in SUBSET Started' : Counts(averaged, completed, failed)'
    <2>1. PICK averaged, completed, failed \in SUBSET Started : Counts(averaged, completed, failed)
      BY DEF OverviewInv
    <2>2. Counts(averaged, completed, failed)'
      BY <1>2, <1>4, <1>6, <2>1 DEF Counts
    <2> QED BY <1>1, <2>1, <2>2
  <1> QED BY <1>0, <1>3, <1>5, <1>6, <1>7 DEF OverviewInv

\* Each statement counts what is committed when it runs.
LEMMA OverviewReads ==
  ASSUME OverviewInv, GetOverview
  PROVE  OverviewInv'
  <1>0. /\ TypeOK /\ UNCHANGED vars /\ statement' = statement + 1 /\ statement' \in 1..4
    BY DEF GetOverview, CountSessions, AverageCompletion, CountOutcomes, SessionsOverTime,
           Executes, OverviewInv, SingleDeliveryInv
  <1>1. UNCHANGED <<status, analytics>>
    BY <1>0 DEF vars, database, row
  <1>2. /\ SingleDeliveryInv' /\ IsFiniteSet(Known)' /\ Completed' \subseteq Recorded'
        /\ Started' = Started /\ Recorded' = Recorded /\ Completed' = Completed
    <2>1. SingleDeliveryInv' /\ IsFiniteSet(Known)'
      BY <1>0, <1>1, SingleStep DEF OverviewInv, Known
    <2> QED BY <1>1, <2>1 DEF OverviewInv, Completed, Recorded, Started
  <1>3. /\ \A S \in SUBSET Started : IsFiniteSet(S) /\ Cardinality(S) \in Nat
        /\ Cardinality(OwnRecentSessions) \in Nat
    BY <1>0, CountsFinite DEF OverviewInv
  <1>4. \A wanted \in Settled : /\ {s \in OwnRecentSessions : status[s] = wanted} \subseteq Started
                               /\ Having(wanted) \in Nat
    <2>1. \A wanted \in Settled : {s \in OwnRecentSessions : status[s] = wanted} \subseteq Started
      BY DEF OwnRecentSessions, Started
    <2> QED BY <1>3, <2>1 DEF Having
  <1>5. overview' \in [{"sessions_run", "averaged", "completed", "failed", "over_time"} -> Nat]
    BY <1>3, <1>4
    DEF GetOverview, CountSessions, AverageCompletion, CountOutcomes, SessionsOverTime, Executes,
        OverviewInv, Settled
  <1>6. PICK averaged, completed, failed \in SUBSET Started : Counts(averaged, completed, failed)
    BY DEF OverviewInv
  <1>7. \E a, c, f \in SUBSET Started : Counts(a, c, f)'
    <2>1. CASE CountSessions
      <3>1. /\ overview'.averaged = overview.averaged /\ overview'.completed = overview.completed
            /\ overview'.failed = overview.failed /\ statement = 0 /\ statement' = 1
        BY <1>0, <2>1 DEF CountSessions, Executes, OverviewInv
      <3>2. Counts(averaged, completed, failed)'
        BY <1>2, <1>6, <3>1 DEF Counts
      <3> QED BY <1>6, <3>2
    <2>2. CASE AverageCompletion
      <3>1. /\ overview'.averaged = Having("completed") /\ overview'.completed = overview.completed
            /\ overview'.failed = overview.failed /\ statement = 1 /\ statement' = 2
        BY <1>0, <2>2 DEF AverageCompletion, Executes, OverviewInv
      <3>2. Having("completed") = Cardinality(Completed) /\ Completed \subseteq Started
        <4>1. {s \in OwnRecentSessions : status[s] = "completed"} = Completed
          BY DEF OwnRecentSessions, HasRow, Completed
        <4> QED BY <4>1 DEF Having, Completed, Started, Settled
      <3>3. PICK done \in SUBSET Started : done = Completed
        BY <3>2
      <3>4. Counts(done, completed, failed)'
        BY <1>2, <1>6, <3>1, <3>2, <3>3 DEF Counts, OverviewInv
      <3> QED BY <1>6, <3>4
    <2>3. CASE CountOutcomes
      <3> DEFINE Failed == {s \in Session : status[s] = "failed"}
      <3>1. /\ overview'.averaged = overview.averaged /\ overview'.completed = Having("completed")
            /\ overview'.failed = Having("failed") /\ statement = 2 /\ statement' = 3
        BY <1>0, <2>3 DEF CountOutcomes, Executes, OverviewInv
      <3>2. /\ Having("completed") = Cardinality(Completed) /\ Completed \subseteq Started
            /\ Having("failed") = Cardinality(Failed) /\ Failed \subseteq Started
        <4>1. /\ {s \in OwnRecentSessions : status[s] = "completed"} = Completed
              /\ {s \in OwnRecentSessions : status[s] = "failed"} = Failed
          BY DEF OwnRecentSessions, HasRow, Completed
        <4> QED BY <4>1 DEF Having, Completed, Started, Settled
      <3>3. Completed \cap Failed = {}
        BY DEF Completed
      <3>4. PICK done, lost \in SUBSET Started : done = Completed /\ lost = Failed
        BY <3>2
      <3> HIDE DEF Failed
      <3>5. Counts(averaged, done, lost)'
        BY <1>2, <1>6, <3>1, <3>2, <3>3, <3>4 DEF Counts, OverviewInv
      <3> QED BY <1>6, <3>5
    <2>4. CASE SessionsOverTime
      <3>1. /\ overview'.averaged = overview.averaged /\ overview'.completed = overview.completed
            /\ overview'.failed = overview.failed /\ statement = 3 /\ statement' = 4
            /\ overview'.over_time = Cardinality(OwnRecentSessions)
        BY <1>0, <2>4 DEF SessionsOverTime, Executes, OverviewInv
      <3>2. Cardinality(completed \cup failed) <= Cardinality(OwnRecentSessions)
        <4>1. completed \cup failed \subseteq OwnRecentSessions
          BY <1>6 DEF Started, OwnRecentSessions, HasRow, Settled
        <4>2. IsFiniteSet(OwnRecentSessions)
          BY <1>0, CountsFinite DEF OverviewInv
        <4> QED BY <4>1, <4>2, FS_Subset
      <3>3. Counts(averaged, completed, failed)'
        BY <1>2, <1>6, <3>1, <3>2 DEF Counts
      <3> QED BY <1>6, <3>3
    <2> QED BY <2>1, <2>2, <2>3, <2>4 DEF GetOverview
  <1> QED BY <1>0, <1>2, <1>5, <1>7 DEF OverviewInv

\* The reader takes nothing from the runs.
THEOREM ReaderDoesNotInterfere == DashboardSpec => Spec
  <1>1. [DashboardNext]_<<vars, dashboard>> => [Next]_vars
    BY DEF DashboardNext, GetOverview, CountSessions, AverageCompletion, CountOutcomes,
           SessionsOverTime, Executes
  <1> QED BY <1>1, PTL DEF DashboardSpec, DashboardInit, Spec

\* However the four statements of the overview fall between the commits of the
\* runs, its numbers agree.
THEOREM OverviewCorrect == DashboardSpec => []OverviewAgrees
  <1>1. DashboardInit => OverviewInv
    <2> SUFFICES ASSUME DashboardInit PROVE OverviewInv
      OBVIOUS
    <2>1. Known = {} /\ Completed = {} /\ SingleDeliveryInv
      BY SingleInit DEF DashboardInit, Init, Known, Completed
    <2>2. IsFiniteSet({}) /\ Cardinality({}) = 0
      BY FS_EmptySet
    <2>3. Counts({}, {}, {})
      BY <2>2 DEF Counts, DashboardInit
    <2> QED BY <2>1, <2>2, <2>3 DEF OverviewInv, DashboardInit
  <1>2. OverviewInv /\ [DashboardNext]_<<vars, dashboard>> => OverviewInv'
    <2> SUFFICES ASSUME OverviewInv, [DashboardNext]_<<vars, dashboard>> PROVE OverviewInv'
      OBVIOUS
    <2>1. CASE Next /\ UNCHANGED dashboard
      BY <2>1, OverviewRuns
    <2>2. CASE UNCHANGED <<vars, dashboard>>
      BY <2>2, OverviewRuns
    <2> QED BY <2>1, <2>2, OverviewReads DEF DashboardNext
  <1>3. OverviewInv => OverviewAgrees
    <2> SUFFICES ASSUME OverviewInv PROVE OverviewAgrees
      OBVIOUS
    <2>0. TypeOK /\ IsFiniteSet(Known)
      BY DEF OverviewInv, SingleDeliveryInv
    <2>1. PICK averaged, completed, failed \in SUBSET Started : Counts(averaged, completed, failed)
      BY DEF OverviewInv
    <2>2. /\ IsFiniteSet(averaged) /\ IsFiniteSet(completed) /\ IsFiniteSet(failed)
          /\ Cardinality(completed) \in Nat /\ Cardinality(failed) \in Nat
      BY <2>0, <2>1, CountsFinite
    <2>3. /\ Cardinality(averaged) <= Cardinality(Recorded)
          /\ Cardinality(completed) <= Cardinality(Recorded)
      BY <2>0, <2>1, CountsFinite, FS_Subset DEF Counts
    <2>4. statement >= 3 => Cardinality(averaged) <=
                              Cardinality(completed) + Cardinality(OwnRecentSessions \cap Repeated)
      <3> SUFFICES ASSUME statement >= 3
                   PROVE  Cardinality(averaged) <=
                            Cardinality(completed) + Cardinality(OwnRecentSessions \cap Repeated)
        OBVIOUS
      <3> DEFINE again == OwnRecentSessions \cap Repeated
      <3>1. averaged \subseteq completed \cup again
        BY <2>1 DEF Counts, Once, Started, Settled, OwnRecentSessions, HasRow
      <3>2. IsFiniteSet(again) /\ Cardinality(again) \in Nat
        BY <2>0, CountsFinite
      <3>3. /\ IsFiniteSet(completed \cup again) /\ Cardinality(completed \cap again) \in Nat
            /\ Cardinality(completed \cup again) = Cardinality(completed) + Cardinality(again)
                                                     - Cardinality(completed \cap again)
        BY <2>2, <3>2, FS_Union, FS_Intersection, FS_CardinalityType
      <3>4. /\ Cardinality(averaged) <= Cardinality(completed \cup again)
            /\ Cardinality(averaged) \in Nat
        BY <2>2, <3>1, <3>3, FS_Subset, FS_CardinalityType
      <3> QED BY <2>2, <3>2, <3>3, <3>4
    <2>5. Cardinality(completed \cup failed) = Cardinality(completed) + Cardinality(failed)
      <3>1. Cardinality(completed \cap failed) = 0
        BY <2>1, FS_EmptySet DEF Counts
      <3>2. Cardinality(completed \cup failed) =
              Cardinality(completed) + Cardinality(failed) - Cardinality(completed \cap failed)
        BY <2>2, FS_Union
      <3> QED BY <2>2, <3>1, <3>2
    <2>6. ASSUME NEW list \in RecentActivity
          PROVE  LET most == Cardinality(ShownIn(list, "session.completed"))
                               + Cardinality(EventRows \ list)
                 IN  most \in Nat /\ Cardinality(Recorded) <= most
      <3>1. list \in SUBSET EventRows
        BY DEF RecentActivity, kSubset
      <3> QED BY <2>0, <3>1, CompletionsListed
    <2>7. /\ Cardinality(averaged) \in Nat /\ Cardinality(Recorded) \in Nat
      BY <2>0, <2>2, CountsFinite
    <2>8. ASSUME NEW list \in RecentActivity
          PROVE  LET most == Cardinality(ShownIn(list, "session.completed"))
                               + Cardinality(EventRows \ list)
                 IN  overview.averaged <= most /\ overview.completed <= most
      BY <2>1, <2>2, <2>3, <2>6, <2>7 DEF Counts
    <2> QED BY <2>1, <2>4, <2>5, <2>8 DEF Counts, OverviewAgrees
  <1> QED BY <1>1, <1>2, <1>3, PTL DEF DashboardSpec
=============================================================================
