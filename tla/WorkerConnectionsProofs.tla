----------------------- MODULE WorkerConnectionsProofs -----------------------
(***************************************************************************)
(* Proofs about WorkerConnections for any number of tasks: the clients a   *)
(* task finds bound to an earlier loop are those the last release missed,  *)
(* or OpenAI's embedding client, and a process loads the model once.       *)
(***************************************************************************)
EXTENDS WorkerConnections, TLAPS

\* What the release is for: each of these is closed in every task's finally.
Released == {"db", "redis", "llm"}

\* Only the vendor's embedding provider has connections.
LocalModelOffline == provider = "bge" => bound["embeddings"] = 0

\* A client the last release closed is bound to the loop of the task that runs, or
\* to none; between tasks to none.
OwnLoop ==
    \A c \in Released \ kept : bound[c] = 0 \/ (phase /= "idle" /\ bound[c] = loop)

\* How far the release has come.
ReleaseProgress ==
    /\ phase \in {"closing", "dropping"} => bound["db"] = 0
    /\ phase = "dropping" => bound["redis"] = 0

\* The provider is cached as soon as it is loaded, and as long as the process lives.
LoadedIsCached == loads = IF "embeddings" \in providers THEN 1 ELSE 0

IInv ==
    /\ TypeOK
    /\ LocalModelOffline
    /\ OwnLoop
    /\ ReleaseProgress
    /\ LoadedIsCached
    /\ NoForeignLoop

-----------------------------------------------------------------------------
\* Opening a connection in the task's own loop keeps every client where it may be.
LEMMA OpensKeeps ==
    ASSUME IInv, NEW c \in Clients, Opens(c), phase \notin {"idle", "closing", "dropping"},
           phase' \in Phases \ {"idle", "closing", "dropping"}
    PROVE  IInv'
  <1> USE ClientsAssumption, MaxTasksAssumption DEF Opens
  <1>1. TypeOK'
    BY DEF IInv, TypeOK
  <1>2. /\ \A d \in Clients : d /= c => bound'[d] = bound[d]
        /\ bound'[c] = IF Connects(c) THEN loop ELSE bound[c]
    BY DEF IInv, TypeOK
  <1>3. LocalModelOffline' /\ OwnLoop' /\ ReleaseProgress'
    BY <1>2 DEF IInv, LocalModelOffline, OwnLoop, ReleaseProgress, Released, Connects
  <1>4. LoadedIsCached'
    BY DEF IInv, LoadedIsCached
  <1>5. NoForeignLoop'
    BY DEF IInv, NoForeignLoop, OwnLoop, Released, Stale, Connects, TypeOK
  <1> QED BY <1>1, <1>3, <1>4, <1>5 DEF IInv

\* So does a call that raises.
LEMMA BreaksKeeps ==
    ASSUME IInv, NEW c \in Clients, Breaks(c), phase \notin {"idle", "closing", "dropping"},
           phase' \in Phases \ {"idle", "closing", "dropping"}
    PROVE  IInv'
  <1> USE ClientsAssumption, MaxTasksAssumption DEF Breaks
  <1>1. TypeOK'
    BY DEF IInv, TypeOK
  <1>2. /\ \A d \in Clients : d /= c => bound'[d] = bound[d]
        /\ bound'[c] \in {0, bound[c]}
    BY DEF IInv, TypeOK
  <1>3. LocalModelOffline' /\ OwnLoop' /\ ReleaseProgress'
    BY <1>2 DEF IInv, LocalModelOffline, OwnLoop, ReleaseProgress, Released
  <1>4. LoadedIsCached'
    BY DEF IInv, LoadedIsCached
  <1>5. NoForeignLoop'
    BY DEF IInv, NoForeignLoop, OwnLoop, Released, Stale, Connects, TypeOK
  <1> QED BY <1>1, <1>3, <1>4, <1>5 DEF IInv

\* Nothing has been opened yet.
LEMMA InitHolds == Init => IInv
  <1> SUFFICES ASSUME Init PROVE IInv
    OBVIOUS
  <1> USE DEF Init, Unbound
  <1>1. TypeOK
    BY MaxTasksAssumption DEF TypeOK, Phases, Lazy
  <1>2. LocalModelOffline /\ OwnLoop /\ ReleaseProgress
    BY ClientsAssumption DEF LocalModelOffline, OwnLoop, ReleaseProgress, Released
  <1>3. LoadedIsCached /\ NoForeignLoop
    BY DEF LoadedIsCached, NoForeignLoop
  <1> QED BY <1>1, <1>2, <1>3 DEF IInv

\* One step per action.
LEMMA StepPreserves == IInv /\ [Next]_vars => IInv'
  <1> SUFFICES ASSUME IInv, [Next]_vars PROVE IInv'
    OBVIOUS
  <1>0. bound \in [Clients -> 0..MaxTasks] /\ "db" \in Clients /\ "redis" \in Clients
        /\ "llm" \in Clients /\ "embeddings" \in Clients
    BY ClientsAssumption DEF IInv, TypeOK
  <1> USE MaxTasksAssumption
  <1> DEFINE Parts == LocalModelOffline /\ OwnLoop /\ ReleaseProgress /\ LoadedIsCached
  <1>1. ASSUME NEW kind \in {"research", "document"}, TakesTask(kind) PROVE IInv'
    <2>1. TypeOK'
      BY <1>1 DEF TakesTask, IInv, TypeOK, Phases
    <2>2. Parts' /\ NoForeignLoop'
      BY <1>0, <1>1 DEF TakesTask, IInv, TypeOK, LocalModelOffline, OwnLoop, ReleaseProgress,
                  LoadedIsCached, NoForeignLoop, Released
    <2> QED BY <2>1, <2>2 DEF IInv
  <1>2. CASE LoadsRow \/ AnnouncesRun \/ RecordsFailure \/ AnnouncesFailure
    BY <1>0, <1>2, OpensKeeps DEF LoadsRow, AnnouncesRun, RecordsFailure, AnnouncesFailure, Phases
  <1>3. ASSUME NEW c \in Clients, Calls(c) PROVE IInv'
    BY <1>3, OpensKeeps DEF Calls, Phases
  <1>4. ASSUME NEW c \in Clients, CallRaises(c) PROVE IInv'
    BY <1>4, BreaksKeeps DEF CallRaises, Calling, Phases
  <1>5. CASE AsksForProviders
    <2>1. TypeOK' /\ LoadedIsCached'
      BY <1>5 DEF AsksForProviders, Asked, Lazy, IInv, TypeOK, Phases, LoadedIsCached
    <2>2. LocalModelOffline' /\ OwnLoop' /\ ReleaseProgress' /\ NoForeignLoop'
      BY <1>5 DEF AsksForProviders, IInv, LocalModelOffline, OwnLoop, ReleaseProgress, NoForeignLoop
    <2> QED BY <2>1, <2>2 DEF IInv
  <1>6. CASE ProviderMissing
    <2>1. TypeOK' /\ LoadedIsCached'
      BY <1>6 DEF ProviderMissing, Lazy, IInv, TypeOK, Phases, LoadedIsCached
    <2>2. LocalModelOffline' /\ OwnLoop' /\ ReleaseProgress' /\ NoForeignLoop'
      BY <1>6 DEF ProviderMissing, IInv, LocalModelOffline, OwnLoop, ReleaseProgress, NoForeignLoop
    <2> QED BY <2>1, <2>2 DEF IInv
  <1>7. CASE BodyEnds
    <2>1. TypeOK'
      BY <1>7 DEF BodyEnds, IInv, TypeOK, Phases
    <2>2. Parts' /\ NoForeignLoop'
      BY <1>7 DEF BodyEnds, IInv, LocalModelOffline, OwnLoop, ReleaseProgress, LoadedIsCached,
                  NoForeignLoop
    <2> QED BY <2>1, <2>2 DEF IInv
  <1>8. CASE Disposes \/ Closes
    <2>1. TypeOK'
      BY <1>8 DEF Disposes, Closes, IInv, TypeOK, Phases
    <2>2. \A c \in Clients : bound'[c] \in {0, bound[c]}
      BY <1>0, <1>8 DEF Disposes, Closes
    <2>3. LocalModelOffline' /\ OwnLoop'
      BY <1>0, <1>8, <2>2 DEF Disposes, Closes, IInv, LocalModelOffline, OwnLoop, Released
    <2>4. ReleaseProgress'
      BY <1>0, <1>8 DEF Disposes, Closes, IInv, ReleaseProgress
    <2>5. LoadedIsCached' /\ NoForeignLoop'
      <3>1. UNCHANGED <<provider, providers, loads, foreign, kept>>
        BY <1>8 DEF Disposes, Closes
      <3> QED BY <3>1 DEF IInv, LoadedIsCached, NoForeignLoop
    <2> QED BY <2>1, <2>3, <2>4, <2>5 DEF IInv
  <1>9. CASE DropsProvider
    <2> USE <1>9 DEF DropsProvider
    <2>1. TypeOK'
      <3>1. bound' \in [Clients -> 0..MaxTasks]
        BY <1>0
      <3> QED BY <3>1 DEF IInv, TypeOK, Phases
    <2>2. /\ \A c \in Released : bound'[c] = 0
          /\ bound'["embeddings"] = bound["embeddings"]
      BY <1>0 DEF IInv, ReleaseProgress, Released
    <2>3. LocalModelOffline' /\ OwnLoop' /\ ReleaseProgress'
      BY <2>2 DEF IInv, LocalModelOffline, OwnLoop, ReleaseProgress
    <2>4. LoadedIsCached' /\ NoForeignLoop'
      BY DEF IInv, LoadedIsCached, NoForeignLoop
    <2> QED BY <2>1, <2>3, <2>4 DEF IInv
  <1>10. CASE ReleaseRaises
    <2>1. /\ phase \in {"disposing", "closing"} /\ phase' = "idle" /\ task' = "none"
          /\ foreign' = {} /\ UNCHANGED <<provider, providers, bound, loop, loads>>
      BY <1>10 DEF ReleaseRaises
    <2>2. /\ kept' \subseteq {"db", "redis", "llm"}
          /\ \A c \in Released \ kept' : c = "db" /\ phase = "closing"
      BY <1>10, <2>1 DEF ReleaseRaises, Released
    <2>3. TypeOK'
      BY <1>0, <2>1, <2>2 DEF IInv, TypeOK, Phases
    <2>4. LocalModelOffline' /\ ReleaseProgress' /\ LoadedIsCached' /\ NoForeignLoop'
      BY <2>1 DEF IInv, LocalModelOffline, ReleaseProgress, LoadedIsCached, NoForeignLoop
    <2>5. OwnLoop'
      BY <2>1, <2>2 DEF IInv, ReleaseProgress, OwnLoop
    <2> QED BY <2>3, <2>4, <2>5 DEF IInv
  <1>11. CASE Killed
    <2>1. TypeOK'
      BY <1>0, <1>11 DEF Killed, Unbound, IInv, TypeOK, Phases
    <2>2. \A c \in Clients : bound'[c] = 0
      BY <1>11 DEF Killed, Unbound
    <2>3. LocalModelOffline' /\ OwnLoop' /\ ReleaseProgress'
      BY <1>0, <1>11, <2>2 DEF Killed, LocalModelOffline, OwnLoop, ReleaseProgress, Released
    <2>4. LoadedIsCached' /\ NoForeignLoop'
      BY <1>11 DEF Killed, LoadedIsCached, NoForeignLoop
    <2> QED BY <2>1, <2>3, <2>4 DEF IInv
  <1>12. CASE UNCHANGED vars
    BY <1>12 DEF vars, IInv, TypeOK, LocalModelOffline, OwnLoop, ReleaseProgress, LoadedIsCached,
                 NoForeignLoop
  <1> QED BY <1>1, <1>2, <1>3, <1>4, <1>5, <1>6, <1>7, <1>8, <1>9, <1>10, <1>11, <1>12 DEF Next

\* The invariant the two theorems rest on.
THEOREM Invariance == Spec => []IInv
  BY InitHolds, StepPreserves, PTL DEF Spec

\* A task meets a connection of an earlier task's loop only at a client that the
\* release before it did not get to, or at OpenAI's embedding client, which the
\* release leaves alone (_release_event_loop_bound_connections).
THEOREM ConnectionsStayInTheirLoop == Spec => []NoForeignLoop
  <1>1. IInv => NoForeignLoop
    BY DEF IInv
  <1> QED BY <1>1, Invariance, PTL

\* A process loads the embedding model once, however many tasks it runs and
\* however they end.
THEOREM ModelIsLoadedOnce == Spec => []ModelLoadedOnce
  <1>1. IInv => ModelLoadedOnce
    BY DEF IInv, LoadedIsCached, ModelLoadedOnce
  <1> QED BY <1>1, Invariance, PTL
=============================================================================
