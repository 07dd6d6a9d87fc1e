------------------------- MODULE KnowledgeBaseProofs -------------------------
(***************************************************************************)
(* Proofs about KnowledgeBase, for every set of documents and workers and  *)
(* every choice of faults: its type invariant, that chunk rows and events  *)
(* agree however often a task is delivered, and that documents whose task  *)
(* is delivered once follow DocumentLifecycle, on the page as well.        *)
(***************************************************************************)
EXTENDS KnowledgeBase, FiniteSetTheorems, TLAPS

-----------------------------------------------------------------------------
(* Types.                                                                  *)

\* A worker that leaves its task keeps the types of the worker variables.
LEMMA LeavesType ==
  ASSUME TypeOK, NEW w \in Worker, Leaves(w)
  PROVE  /\ place' \in [Worker -> Places] /\ serves' \in [Worker -> SUBSET Document]
         /\ seenStatus' \in [Worker -> {"absent"} \cup Active \cup Settled]
  BY DEF TypeOK, Leaves, Places

\* A handler that advances is at a stage.
LEMMA AdvancesType ==
  ASSUME TypeOK, NEW d \in Document, NEW from, NEW to \in Stages, Advances(d, from, to)
  PROVE  request' \in [Document -> Stages]
  BY DEF TypeOK, Advances

\* The commit of _chunk_and_index writes rows, a status and an event of their types.
LEMMA IndexesType ==
  ASSUME TypeOK, NEW d \in Document, NEW chunks \in ChunkCounts \cup {0}, Indexes(d, chunks)
  PROVE  /\ embeddings' \in [Document -> Seq(ChunkCounts)]
         /\ status' \in [Document -> {"absent"} \cup Active \cup Settled]
         /\ events' \in [Document -> Seq(Settled)]
         /\ UNCHANGED deleted
  <1> USE DEF Indexes
  <1> DEFINE outcome == IF chunks > 0 THEN "indexed" ELSE "failed"
  <1>1. outcome \in Settled
    BY DEF Settled
  <1>2. status' \in [Document -> {"absent"} \cup Active \cup Settled]
    BY <1>1 DEF TypeOK
  <1>3. events' \in [Document -> Seq(Settled)]
    <2>1. Append(events[d], outcome) \in Seq(Settled)
      BY <1>1 DEF TypeOK
    <2> QED BY <2>1 DEF TypeOK
  <1>4. embeddings' \in [Document -> Seq(ChunkCounts)]
    <2>1. CASE chunks > 0
      <3>1. chunks \in ChunkCounts
        BY <2>1
      <3>2. Append(embeddings[d], chunks) \in Seq(ChunkCounts)
        BY <3>1 DEF TypeOK
      <3> QED BY <2>1, <3>2 DEF TypeOK
    <2>2. CASE ~(chunks > 0)
      BY <2>2 DEF TypeOK
    <2> QED BY <2>1, <2>2
  <1> QED BY <1>2, <1>3, <1>4

\* Every step of a handler or of the user keeps the types.
LEMMA RequestType ==
  ASSUME TypeOK, NEW d \in Document, Handler(d) \/ Request(d)
  PROVE  TypeOK'
  <1> USE DEF rows, storage, broker, task, page, TypeOK
  <1>1. CASE BeginUpload(d) \/ CreateBucket(d) \/ PutObject(d)
    BY <1>1 DEF BeginUpload, CreateBucket, PutObject, Advances, Stages
  <1>2. CASE CommitDocument(d) \/ ImportUrl(d)
    BY <1>2 DEF CommitDocument, ImportUrl, Advances, Stages, PendingRow, Active
  <1>3. CASE StorageFails(d) \/ CommitFails(d) \/ SendFails(d)
    BY <1>3 DEF StorageFails, CommitFails, SendFails, Advances, Stages
  <1>4. CASE SendTask(d)
    BY <1>4 DEF SendTask, Advances, Stages
  <1>5. CASE IngestText(d)
    <2>1. PICK chunks \in ChunkCounts \cup {0} : Indexes(d, chunks)
      BY <1>5 DEF IngestText
    <2> QED BY <1>5, <2>1, IndexesType DEF IngestText, Advances, Stages
  <1>6. CASE DeleteDocument(d)
    BY <1>6 DEF DeleteDocument
  <1>7. CASE Redelivered(d)
    BY <1>7, KnowledgeBaseAssumption DEF Redelivered
  <1> QED BY <1>1, <1>2, <1>3, <1>4, <1>5, <1>6, <1>7 DEF Handler, Request

\* So does every step of a worker.
LEMMA WorkerType ==
  ASSUME TypeOK, NEW w \in Worker, NEW d \in Document, LoadDocument(w, d) \/ Step(w, d)
  PROVE  TypeOK'
  <1> USE DEF rows, storage, broker, task, page
  <1>1. CASE LoadDocument(w, d)
    BY <1>1 DEF LoadDocument, TypeOK, Places
  <1>2. CASE MarkProcessing(w, d)
    BY <1>2 DEF MarkProcessing, TypeOK, Places, Active
  <1>3. CASE ChunkAndIndex(w, d)
    <2>1. PICK chunks \in ChunkCounts : Indexes(d, chunks)
      BY <1>3 DEF ChunkAndIndex
    <2> QED BY <1>3, <2>1, IndexesType, LeavesType DEF ChunkAndIndex, TypeOK
  <1>4. CASE RecordRejection(w, d)
    <2>1. Append(events[d], "failed") \in Seq(Settled)
      BY DEF TypeOK, Settled
    <2>2. events' \in [Document -> Seq(Settled)]
      BY <1>4, <2>1 DEF RecordRejection, TypeOK
    <2> QED BY <1>4, <2>2, LeavesType DEF RecordRejection, Fails, TypeOK, Settled
  <1>5. CASE MarkFailed(w, d)
    BY <1>5, LeavesType DEF MarkFailed, Fails, TypeOK, Settled
  <1> QED BY <1>1, <1>2, <1>3, <1>4, <1>5 DEF Step

\* Every step keeps the types.
LEMMA TypeStep == TypeOK /\ [Next]_vars => TypeOK'
  <1> SUFFICES ASSUME TypeOK, [Next]_vars PROVE TypeOK'
    OBVIOUS
  <1> USE DEF rows, storage, broker, task, page
  <1>1. ASSUME NEW w \in Worker, DatabaseFails(w) \/ Killed(w) PROVE TypeOK'
    BY <1>1, LeavesType DEF DatabaseFails, Killed, TypeOK
  <1>2. CASE Fetch
    BY <1>2 DEF Fetch, Listed, TypeOK
  <1>3. CASE UNCHANGED vars
    BY <1>3 DEF vars, TypeOK
  <1> QED BY <1>1, <1>2, <1>3, RequestType, WorkerType DEF Next, Done

\* Nothing is there yet.
LEMMA TypeInit == Init => TypeOK
  <1> SUFFICES ASSUME Init PROVE TypeOK
    OBVIOUS
  <1>1. bucket \in BOOLEAN /\ invalidated \in BOOLEAN
    BY Zenon DEF Init
  <1>2. \A S : <<>> \in Seq(S)
    OBVIOUS
  <1>3. /\ embeddings \in [Document -> Seq(ChunkCounts)]
        /\ events \in [Document -> Seq(Settled)]
    BY <1>2 DEF Init
  <1>4. copies \in [Document -> 0..MaxDuplicates]
    BY KnowledgeBaseAssumption DEF Init
  <1> QED BY <1>1, <1>3, <1>4 DEF Init, TypeOK, Places, Stages

\* Every variable has its type.
THEOREM TypeCorrect == Spec => []TypeOK
  BY TypeInit, TypeStep, PTL DEF Spec

-----------------------------------------------------------------------------
(* Chunk rows and events.                                                  *)

\* An outcome appended to a log adds an indexing exactly if it is one.
LEMMA IndexingsAppend ==
  ASSUME NEW log \in Seq(Settled), NEW outcome \in Settled
  PROVE  Cardinality(Indexings(Append(log, outcome))) =
           Cardinality(Indexings(log)) + IF outcome = "indexed" THEN 1 ELSE 0
  <1> DEFINE n == Len(log)  new == Append(log, outcome)
  <1>1. n \in Nat /\ Len(new) = n + 1 /\ new[n + 1] = outcome
        /\ \A i \in 1..n : new[i] = log[i]
    OBVIOUS
  <1>2. IsFiniteSet(Indexings(log)) /\ n + 1 \notin Indexings(log)
    <2>1. IsFiniteSet(1..n)
      BY <1>1, FS_Interval
    <2>2. Indexings(log) \in SUBSET (1..n)
      BY DEF Indexings
    <2>3. n + 1 \notin 1..n
      BY <1>1
    <2> QED BY <2>1, <2>2, <2>3, FS_Subset
  <1>3. Cardinality(Indexings(log)) \in Nat
    BY <1>2, FS_CardinalityType
  <1>4. CASE outcome = "indexed"
    <2>1. Indexings(new) = Indexings(log) \cup {n + 1}
      BY <1>1, <1>4 DEF Indexings
    <2> HIDE DEF new, n
    <2>2. Cardinality(Indexings(log) \cup {n + 1}) = Cardinality(Indexings(log)) + 1
      BY <1>2, FS_AddElement
    <2> QED BY <1>4, <2>1, <2>2 DEF new
  <1>5. CASE outcome # "indexed"
    <2>1. Indexings(new) = Indexings(log)
      BY <1>1, <1>5 DEF Indexings
    <2> QED BY <1>3, <1>5, <2>1
  <1> QED BY <1>4, <1>5

\* The commit of _chunk_and_index keeps batches and events in step.
LEMMA IndexesBatches ==
  ASSUME TypeOK, BatchesMatchEvents, NEW d \in Document, NEW chunks \in ChunkCounts \cup {0},
         Indexes(d, chunks)
  PROVE  BatchesMatchEvents'
  <1> DEFINE outcome == IF chunks > 0 THEN "indexed" ELSE "failed"
  <1>1. /\ outcome \in Settled /\ events[d] \in Seq(Settled)
        /\ embeddings[d] \in Seq(ChunkCounts) /\ chunks \in Nat
    BY KnowledgeBaseAssumption DEF TypeOK, Settled
  <1>2. /\ events'[d] = Append(events[d], outcome)
        /\ embeddings'[d] = IF chunks > 0 THEN Append(embeddings[d], chunks) ELSE embeddings[d]
        /\ \A e \in Document \ {d} : events'[e] = events[e] /\ embeddings'[e] = embeddings[e]
    BY DEF Indexes, TypeOK
  <1>3. Cardinality(Indexings(events'[d])) =
          Cardinality(Indexings(events[d])) + IF outcome = "indexed" THEN 1 ELSE 0
    BY <1>1, <1>2, IndexingsAppend
  <1>4. Len(embeddings'[d]) = Len(embeddings[d]) + IF chunks > 0 THEN 1 ELSE 0
    <2>1. CASE chunks > 0
      <3>1. chunks \in ChunkCounts
        BY <2>1
      <3>2. Len(Append(embeddings[d], chunks)) = Len(embeddings[d]) + 1
        BY <1>1, <3>1
      <3> QED BY <1>2, <2>1, <3>2
    <2>2. CASE ~(chunks > 0)
      <3>1. Len(embeddings[d]) \in Nat
        BY <1>1
      <3> QED BY <1>2, <2>2, <3>1
    <2> QED BY <2>1, <2>2
  <1>5. Len(embeddings'[d]) = Cardinality(Indexings(events'[d]))
    <2>1. Len(embeddings[d]) = Cardinality(Indexings(events[d]))
      BY DEF BatchesMatchEvents
    <2>2. (IF outcome = "indexed" THEN 1 ELSE 0) = (IF chunks > 0 THEN 1 ELSE 0)
      OBVIOUS
    <2> QED BY <1>3, <1>4, <2>1, <2>2
  <1> QED BY <1>2, <1>5 DEF BatchesMatchEvents

\* Every step keeps batches and events in step.
LEMMA BatchesStep == TypeOK /\ BatchesMatchEvents /\ [Next]_vars => BatchesMatchEvents'
  <1> SUFFICES ASSUME TypeOK, BatchesMatchEvents, [Next]_vars PROVE BatchesMatchEvents'
    OBVIOUS
  <1>1. ASSUME UNCHANGED <<embeddings, events>> PROVE BatchesMatchEvents'
    BY <1>1 DEF BatchesMatchEvents
  <1> USE DEF rows
  <1>2. ASSUME NEW d \in Document, Handler(d) \/ Request(d) PROVE BatchesMatchEvents'
    <2>1. CASE IngestText(d)
      <3>1. PICK chunks \in ChunkCounts \cup {0} : Indexes(d, chunks)
        BY <2>1 DEF IngestText
      <3> QED BY <3>1, IndexesBatches
    <2>2. CASE ~IngestText(d)
      BY <1>1, <1>2, <2>2 DEF Handler, Request, BeginUpload, CreateBucket, PutObject, CommitDocument,
        ImportUrl, StorageFails, CommitFails, SendTask, SendFails, DeleteDocument, Redelivered
    <2> QED BY <2>1, <2>2
  <1>3. ASSUME NEW w \in Worker, NEW d \in Document, LoadDocument(w, d) \/ Step(w, d)
        PROVE  BatchesMatchEvents'
    <2>1. CASE ChunkAndIndex(w, d)
      <3>1. PICK chunks \in ChunkCounts : Indexes(d, chunks)
        BY <2>1 DEF ChunkAndIndex
      <3> QED BY <3>1, IndexesBatches
    <2>2. CASE RecordRejection(w, d)
      <3>1. events[d] \in Seq(Settled) /\ "failed" \in Settled
        BY DEF TypeOK, Settled
      <3>2. /\ events'[d] = Append(events[d], "failed") /\ embeddings' = embeddings
            /\ \A e \in Document \ {d} : events'[e] = events[e]
        BY <2>2 DEF RecordRejection, TypeOK
      <3>3. Cardinality(Indexings(events'[d])) = Cardinality(Indexings(events[d])) + 0
        BY <3>1, <3>2, IndexingsAppend
      <3>4. Len(embeddings[d]) = Cardinality(Indexings(events[d])) /\ Len(embeddings[d]) \in Nat
        BY DEF BatchesMatchEvents, TypeOK
      <3>5. Len(embeddings'[d]) = Cardinality(Indexings(events'[d]))
        BY <3>2, <3>3, <3>4
      <3>6. \A e \in Document \ {d} : Len(embeddings'[e]) = Cardinality(Indexings(events'[e]))
        BY <3>2 DEF BatchesMatchEvents
      <3> QED BY <3>5, <3>6 DEF BatchesMatchEvents
    <2>3. CASE LoadDocument(w, d) \/ MarkProcessing(w, d) \/ MarkFailed(w, d)
      BY <1>1, <2>3 DEF LoadDocument, MarkProcessing, MarkFailed
    <2> QED BY <1>3, <2>1, <2>2, <2>3 DEF Step
  <1>4. ASSUME NEW w \in Worker, DatabaseFails(w) \/ Killed(w) PROVE BatchesMatchEvents'
    BY <1>1, <1>4 DEF DatabaseFails, Killed
  <1>5. CASE Fetch \/ UNCHANGED vars
    BY <1>1, <1>5 DEF Fetch, vars
  <1> QED BY <1>2, <1>3, <1>4, <1>5 DEF Next, Done

\* However often its task is delivered, a document has one batch of chunk rows
\* for every indexing that analytics recorded (_chunk_and_index is one commit).
THEOREM BatchesCorrect == Spec => []BatchesMatchEvents
  <1>1. Init => BatchesMatchEvents
    <2>1. Indexings(<<>>) = {}
      BY DEF Indexings
    <2>2. Cardinality(Indexings(<<>>)) = 0
      BY <2>1, FS_EmptySet
    <2> QED BY <2>2 DEF Init, BatchesMatchEvents
  <1> QED BY <1>1, BatchesStep, TypeCorrect, PTL DEF Spec

-----------------------------------------------------------------------------
(* Documents whose task is delivered once.                                 *)

\* Where the task of d can be: with the handler, in the queue, at one worker.
OneDelivery(d) ==
  /\ request[d] \in {"none", "create", "put", "stored"} => status[d] = "absent"
  /\ request[d] = "committed" => status[d] = "pending"
  /\ request[d] # "sent" => queue[d] = 0
  /\ queue[d] \in {0, 1}
  /\ queue[d] = 1 => status[d] = "pending"
  /\ \A w \in Worker : Works(w, d) => request[d] = "sent" /\ queue[d] = 0
  /\ \A v, w \in Worker : Works(v, d) /\ Works(w, d) => v = w

\* What the worker's place says of the row.
TaskMatchesRow(d) ==
  \A w \in Worker : Works(w, d) =>
    /\ status[d] = IF place[w] = "loaded" THEN "pending" ELSE "processing"
    /\ seenStatus[w] = status[d]

\* What the row says of the chunks, and the page's list of the row.
RowMatchesRest(d) ==
  /\ status[d] \notin Settled => embeddings[d] = <<>> /\ events[d] = <<>>
  /\ shown[d] # "absent" => status[d] # "absent"
  /\ shown[d] \in Settled => status[d] = shown[d]

DocumentInv(d) == OneDelivery(d) /\ TaskMatchesRow(d) /\ RowMatchesRest(d)

\* A worker serves one document.
OneDocument == \A w \in Worker : \A d, e \in serves[w] : d = e

LifecycleInv ==
  /\ TypeOK
  /\ OneDocument
  /\ \A d \in Once : DocumentInv(d)

\* What a step does not touch of a document keeps its invariant, and so does a
\* worker that leaves it.
LEMMA Untouched ==
  ASSUME NEW e \in Once, DocumentInv(e),
         status'[e] = status[e], embeddings'[e] = embeddings[e], events'[e] = events[e],
         request'[e] = request[e], queue'[e] = queue[e], shown'[e] = shown[e],
         \A w \in Worker : e \in serves'[w] =>
           e \in serves[w] /\ place'[w] = place[w] /\ seenStatus'[w] = seenStatus[w]
  PROVE  DocumentInv(e)'
  BY DEF DocumentInv, OneDelivery, TaskMatchesRow, RowMatchesRest, Works

\* A handler's or user's step.
LEMMA RequestKeeps ==
  ASSUME LifecycleInv, NEW d \in Document, Handler(d) \/ Request(d)
  PROVE  OneDocument' /\ \A e \in Once : DocumentInv(e)'
  <1> USE DEF rows, storage, broker, task, page
  <1>1. UNCHANGED task
    BY DEF Handler, Request, BeginUpload, CreateBucket, PutObject, CommitDocument, ImportUrl,
       StorageFails, CommitFails, SendTask, SendFails, IngestText, DeleteDocument, Redelivered
  <1>2. OneDocument'
    BY <1>1 DEF LifecycleInv, OneDocument
  <1>3. ASSUME NEW e \in Once, e # d PROVE DocumentInv(e)'
    <2>1. /\ status'[e] = status[e] /\ embeddings'[e] = embeddings[e] /\ events'[e] = events[e]
          /\ request'[e] = request[e] /\ queue'[e] = queue[e] /\ shown'[e] = shown[e]
      <3>1. TypeOK /\ e \in Document
        BY DEF LifecycleInv, Once
      <3>2. CASE IngestText(d)
        BY <1>3, <3>1, <3>2 DEF IngestText, Advances, Indexes, TypeOK
      <3>3. CASE ~IngestText(d)
        BY <1>3, <3>1, <3>3 DEF Handler, Request, BeginUpload, CreateBucket, PutObject,
           CommitDocument, ImportUrl, StorageFails, CommitFails, SendTask, SendFails,
           DeleteDocument, Redelivered, Advances, PendingRow, TypeOK
      <3> QED BY <3>2, <3>3
    <2> QED BY <1>1, <2>1, Untouched DEF LifecycleInv
  <1>4. ASSUME d \in Once PROVE DocumentInv(d)'
    <2>0. /\ TypeOK /\ DocumentInv(d) /\ "duplicate" \notin Faults[d]
          /\ \A w \in Worker : Works(w, d)' <=> Works(w, d)
      BY <1>1, <1>4 DEF LifecycleInv, Once, Works
    <2> USE <1>1, <2>0
    <2>1. CASE BeginUpload(d) \/ CreateBucket(d) \/ PutObject(d)
      BY <2>1 DEF BeginUpload, CreateBucket, PutObject, Advances, TypeOK,
         DocumentInv, OneDelivery, TaskMatchesRow, RowMatchesRest
    <2>2. CASE StorageFails(d) \/ CommitFails(d) \/ SendFails(d)
      BY <2>2 DEF StorageFails, CommitFails, SendFails, Advances, TypeOK,
         DocumentInv, OneDelivery, TaskMatchesRow, RowMatchesRest
    <2>3. CASE CommitDocument(d) \/ ImportUrl(d)
      BY <2>3 DEF CommitDocument, ImportUrl, Advances, PendingRow, Settled, TypeOK,
         DocumentInv, OneDelivery, TaskMatchesRow, RowMatchesRest
    <2>4. CASE SendTask(d)
      BY <2>4 DEF SendTask, Advances, TypeOK,
         DocumentInv, OneDelivery, TaskMatchesRow, RowMatchesRest
    <2>5. CASE IngestText(d)
      <3>1. PICK chunks \in ChunkCounts \cup {0} : Indexes(d, chunks)
        BY <2>5 DEF IngestText
      <3>2. status'[d] \in Settled /\ shown[d] = "absent" /\ status[d] = "absent"
            /\ shown' = shown
        BY <2>5, <3>1 DEF IngestText, Indexes, Advances, Settled, TypeOK, DocumentInv, OneDelivery,
           RowMatchesRest
      <3> QED BY <2>5, <3>2 DEF IngestText, Advances, Settled, TypeOK,
           DocumentInv, OneDelivery, TaskMatchesRow, RowMatchesRest
    <2>6. CASE DeleteDocument(d)
      BY <2>6 DEF DeleteDocument, DocumentInv, OneDelivery, TaskMatchesRow, RowMatchesRest
    <2>7. CASE Redelivered(d)
      BY <2>7 DEF Redelivered
    <2> QED BY <2>1, <2>2, <2>3, <2>4, <2>5, <2>6, <2>7 DEF Handler, Request
  <1> QED BY <1>2, <1>3, <1>4

\* A step of worker w with document d.
LEMMA WorkerKeeps ==
  ASSUME LifecycleInv, NEW w \in Worker, NEW d \in Document, LoadDocument(w, d) \/ Step(w, d)
  PROVE  OneDocument' /\ \A e \in Once : DocumentInv(e)'
  <1> USE DEF rows, storage, broker, task, page
  <1>0. TypeOK /\ OneDocument
    BY DEF LifecycleInv
  <1>1. /\ \A v \in Worker \ {w} :
             serves'[v] = serves[v] /\ place'[v] = place[v] /\ seenStatus'[v] = seenStatus[v]
        /\ serves'[w] \in {{}, {d}, serves[w]}
        /\ UNCHANGED <<request, shown>>
    BY <1>0 DEF LoadDocument, Step, MarkProcessing, ChunkAndIndex, RecordRejection, MarkFailed, Leaves,
       TypeOK
  <1>2. OneDocument'
    BY <1>0, <1>1 DEF OneDocument
  <1>3. ASSUME NEW e \in Once, e # d PROVE DocumentInv(e)'
    <2>1. /\ status'[e] = status[e] /\ embeddings'[e] = embeddings[e] /\ events'[e] = events[e]
          /\ queue'[e] = queue[e]
      <3>1. e \in Document
        BY DEF Once
      <3>2. CASE ChunkAndIndex(w, d)
        BY <1>0, <1>3, <3>1, <3>2 DEF ChunkAndIndex, Indexes, TypeOK
      <3>3. CASE ~ChunkAndIndex(w, d)
        BY <1>0, <1>3, <3>1, <3>3 DEF LoadDocument, Step, MarkProcessing, RecordRejection, MarkFailed,
           Fails, TypeOK
      <3> QED BY <3>2, <3>3
    <2>2. e \notin serves'[w]
      <3>1. CASE LoadDocument(w, d)
        BY <1>0, <1>3, <3>1 DEF LoadDocument, TypeOK
      <3>2. CASE Step(w, d)
        <4>1. d \in serves[w] /\ e \notin serves[w]
          BY <1>0, <1>3, <3>2 DEF Step, MarkProcessing, ChunkAndIndex, RecordRejection, MarkFailed,
             Processes, Works, OneDocument
        <4> QED BY <1>1, <1>3, <4>1
      <3> QED BY <3>1, <3>2
    <2> QED BY <1>1, <2>1, <2>2, Untouched DEF LifecycleInv
  <1>4. ASSUME d \in Once PROVE DocumentInv(d)'
    <2>0. DocumentInv(d)
      BY <1>4 DEF LifecycleInv
    <2>1. CASE LoadDocument(w, d)
      BY <1>0, <1>1, <2>0, <2>1 DEF LoadDocument, TypeOK, Works,
         DocumentInv, OneDelivery, TaskMatchesRow, RowMatchesRest
    <2>2. CASE MarkProcessing(w, d)
      BY <1>0, <1>1, <2>0, <2>2 DEF MarkProcessing, TypeOK, Works, Settled,
         DocumentInv, OneDelivery, TaskMatchesRow, RowMatchesRest
    <2>3. ASSUME Processes(w, d), Leaves(w), status'[d] \in Settled, queue' = queue
          PROVE  DocumentInv(d)'
      <3>1. \A v \in Worker : ~Works(v, d)'
        BY <1>0, <1>1, <2>0, <2>3 DEF Processes, Leaves, Works, TypeOK, DocumentInv, OneDelivery
      <3>2. status[d] = "processing" /\ request[d] = "sent" /\ queue[d] = 0
        BY <2>0, <2>3 DEF Processes, Works, DocumentInv, OneDelivery, TaskMatchesRow
      <3>3. shown[d] \notin Settled
        BY <2>0, <3>2 DEF DocumentInv, RowMatchesRest, Settled
      <3> QED BY <1>1, <2>0, <2>3, <3>1, <3>2, <3>3
           DEF Settled, DocumentInv, OneDelivery, TaskMatchesRow, RowMatchesRest
    <2>4. CASE ChunkAndIndex(w, d)
      <3>1. PICK chunks \in ChunkCounts : Indexes(d, chunks)
        BY <2>4 DEF ChunkAndIndex
      <3>2. status'[d] \in Settled
        BY <1>0, <3>1 DEF Indexes, Settled, TypeOK
      <3> QED BY <2>3, <2>4, <3>2 DEF ChunkAndIndex
    <2>5. CASE RecordRejection(w, d)
      BY <1>0, <2>3, <2>5 DEF RecordRejection, Fails, Settled, TypeOK
    <2>6. CASE MarkFailed(w, d)
      <3>1. seenStatus[w] = "processing"
        BY <2>0, <2>6 DEF MarkFailed, Processes, Works, DocumentInv, TaskMatchesRow
      <3> QED BY <1>0, <2>3, <2>6, <3>1 DEF MarkFailed, Fails, Settled, TypeOK
    <2> QED BY <2>1, <2>2, <2>4, <2>5, <2>6 DEF Step
  <1> QED BY <1>2, <1>3, <1>4

\* Every step keeps the invariant of the documents delivered once.
LEMMA LifecycleStep == LifecycleInv /\ [Next]_vars => LifecycleInv'
  <1> SUFFICES ASSUME LifecycleInv, [Next]_vars PROVE LifecycleInv'
    OBVIOUS
  <1> USE DEF rows, storage, broker, task, page
  <1>0. TypeOK /\ TypeOK'
    BY TypeStep DEF LifecycleInv
  <1>1. ASSUME NEW w \in Worker, DatabaseFails(w) \/ Killed(w)
        PROVE  OneDocument' /\ \A e \in Once : DocumentInv(e)'
    <2>1. /\ serves'[w] = {}
          /\ \A v \in Worker \ {w} :
               serves'[v] = serves[v] /\ place'[v] = place[v] /\ seenStatus'[v] = seenStatus[v]
      BY <1>0, <1>1 DEF DatabaseFails, Killed, Leaves, TypeOK
    <2>2. UNCHANGED <<status, embeddings, events, request, queue, shown>>
      BY <1>1 DEF DatabaseFails, Killed
    <2> QED BY <2>1, <2>2, Untouched DEF LifecycleInv, OneDocument
  <1>2. CASE Fetch
    <2>1. \A e \in Once : shown'[e] \in {"absent", status[e]}
      BY <1>2 DEF Fetch, Listed, Once
    <2>2. UNCHANGED <<status, embeddings, events, request, queue, task>>
      BY <1>2 DEF Fetch
    <2>3. \A e \in Once : DocumentInv(e)'
      BY <2>1, <2>2 DEF LifecycleInv, DocumentInv, OneDelivery, TaskMatchesRow, RowMatchesRest, Works,
         Settled
    <2> QED BY <1>0, <2>2, <2>3 DEF LifecycleInv, OneDocument
  <1>3. CASE UNCHANGED vars
    BY <1>0, <1>3, Untouched DEF vars, LifecycleInv, OneDocument
  <1> QED BY <1>0, <1>1, <1>2, <1>3, RequestKeeps, WorkerKeeps DEF Next, Done, LifecycleInv

\* It holds before any document is there.
LEMMA LifecycleInit == Init => LifecycleInv
  <1> SUFFICES ASSUME Init PROVE LifecycleInv
    OBVIOUS
  <1>1. OneDocument
    BY DEF Init, OneDocument
  <1>2. \A d \in Once : DocumentInv(d)
    BY DEF Init, Once, DocumentInv, OneDelivery, TaskMatchesRow, RowMatchesRest, Works, Settled
  <1> QED BY <1>1, <1>2, TypeInit DEF LifecycleInv

\* The invariant the two theorems rest on.
THEOREM DocumentsDeliveredOnce == Spec => []LifecycleInv
  BY LifecycleInit, LifecycleStep, PTL DEF Spec

\* A settled status the page shows is final (useDocuments stops polling then).
THEOREM ShownStatusIsFinal == Spec => []ShownIsFinal
  <1>1. LifecycleInv => ShownIsFinal
    BY DEF LifecycleInv, ShownIsFinal, DocumentInv, RowMatchesRest
  <1> QED BY <1>1, DocumentsDeliveredOnce, PTL

-----------------------------------------------------------------------------
(* The refinement.                                                         *)

\* The initial state maps to the initial state of the lifecycle.
LEMMA RefinesInit == Init => Lifecycle!Init
  <1> SUFFICES ASSUME Init PROVE Lifecycle!Init
    OBVIOUS
  <1>1. \A d \in Once : status[d] = "absent" /\ embeddings[d] = <<>> /\ events[d] = <<>>
    BY DEF Init, Once
  <1>2. ToSet(<<>>) = {}
    BY DEF ToSet
  <1>3. [d \in Once |-> ToSet(events[d])] = [d \in Once |-> {}]
    BY <1>1, <1>2
  <1>4. {d \in Once : embeddings[d] # <<>>} = {}
    BY <1>1
  <1>5. deleted \cap Once = {}
    BY DEF Init
  <1>6. [d \in Once |-> status[d]] = [d \in Once |-> "absent"]
    BY <1>1
  <1> QED BY <1>3, <1>4, <1>5, <1>6 DEF Lifecycle!Init

\* A step that changes neither rows nor deletions of these documents.
LEMMA Stutters ==
  ASSUME \A e \in Once : /\ status'[e] = status[e] /\ embeddings'[e] = embeddings[e]
                         /\ events'[e] = events[e] /\ (e \in deleted' <=> e \in deleted)
  PROVE  UNCHANGED Lifecycle!vars
  <1>1. [e \in Once |-> status[e]]' = [e \in Once |-> status[e]]
    BY DEF Once
  <1>2. {e \in Once : embeddings[e] # <<>>}' = {e \in Once : embeddings[e] # <<>>}
    BY DEF Once
  <1>3. (deleted \cap Once)' = deleted \cap Once
    BY DEF Once
  <1>4. [e \in Once |-> ToSet(events[e])]' = [e \in Once |-> ToSet(events[e])]
    BY DEF Once
  <1> QED BY <1>1, <1>2, <1>3, <1>4 DEF Lifecycle!vars

\* A status written to the row of d moves the mapped row.
LEMMA MovesRow ==
  ASSUME TypeOK, NEW d \in Once, NEW to, status' = [status EXCEPT ![d] = to]
  PROVE  Lifecycle!Moves(d, status[d], to)
  <1>1. [e \in Once |-> status[e]]' = [[e \in Once |-> status[e]] EXCEPT ![d] = to]
    BY DEF Once, TypeOK
  <1> QED BY <1>1 DEF Lifecycle!Moves

\* The first event of d is the outcome recorded for it.
LEMMA RecordsOutcome ==
  ASSUME TypeOK, NEW d \in Once, NEW outcome \in Settled, events[d] = <<>>,
         events' = [events EXCEPT ![d] = Append(@, outcome)]
  PROVE  [e \in Once |-> ToSet(events[e])]' =
           [[e \in Once |-> ToSet(events[e])] EXCEPT ![d] = {outcome}]
  <1>1. d \in Document /\ events \in [Document -> Seq(Settled)]
    BY DEF Once, TypeOK
  <1>2. events'[d] = Append(<<>>, outcome) /\ \A e \in Once \ {d} : events'[e] = events[e]
    BY <1>1 DEF Once
  <1>3. Append(<<>>, outcome) = <<outcome>>
    OBVIOUS
  <1>4. ToSet(<<outcome>>) = {outcome}
    BY DEF ToSet
  <1>5. ToSet(events'[d]) = {outcome}
    BY <1>2, <1>3, <1>4
  <1>6. \A e \in Once \ {d} : ToSet(events'[e]) = ToSet(events[e])
    BY <1>2
  <1>7. [e \in Once |-> ToSet(events'[e])] =
          [[e \in Once |-> ToSet(events[e])] EXCEPT ![d] = {outcome}]
    BY <1>5, <1>6
  <1> QED BY <1>7 DEF Once

\* Chunks of d written by _chunk_and_index make it searchable.
LEMMA MakesSearchable ==
  ASSUME TypeOK, NEW d \in Once, NEW chunks \in ChunkCounts,
         embeddings' = [embeddings EXCEPT ![d] = Append(@, chunks)]
  PROVE  {e \in Once : embeddings[e] # <<>>}' = {e \in Once : embeddings[e] # <<>>} \cup {d}
  <1>1. d \in Document /\ embeddings[d] \in Seq(ChunkCounts)
    BY DEF Once, TypeOK
  <1>2. embeddings'[d] = Append(embeddings[d], chunks)
        /\ \A e \in Once \ {d} : embeddings'[e] = embeddings[e]
    BY <1>1 DEF TypeOK, Once
  <1>3. Append(embeddings[d], chunks) # <<>>
    <2>1. Len(Append(embeddings[d], chunks)) = Len(embeddings[d]) + 1 /\ Len(embeddings[d]) \in Nat
      BY <1>1
    <2>2. Len(Append(embeddings[d], chunks)) # 0 /\ Len(<<>>) = 0
      BY <2>1
    <2> QED BY <2>2, Zenon
  <1>4. {e \in Once : embeddings'[e] # <<>>} = {e \in Once : embeddings[e] # <<>>} \cup {d}
    BY <1>2, <1>3
  <1> QED BY <1>4 DEF Once

\* The commit of _chunk_and_index on a document in processing or just handed over.
LEMMA IndexesRefines ==
  ASSUME LifecycleInv, NEW d \in Once, NEW chunks \in ChunkCounts \cup {0}, Indexes(d, chunks),
         status[d] \in {"absent", "processing"}
  PROVE  Lifecycle!Next
  <1>0. /\ TypeOK /\ d \in Document /\ events[d] = <<>>
        /\ chunks \in Nat /\ (chunks > 0 => chunks \in ChunkCounts)
    BY KnowledgeBaseAssumption DEF LifecycleInv, DocumentInv, RowMatchesRest, Once, Settled
  <1>1. (deleted \cap Once)' = deleted \cap Once
    BY DEF Indexes, Once
  <1>2. CASE chunks > 0
    <2>1. /\ status' = [status EXCEPT ![d] = "indexed"]
          /\ events' = [events EXCEPT ![d] = Append(@, "indexed")]
          /\ embeddings' = [embeddings EXCEPT ![d] = Append(@, chunks)]
      BY <1>2 DEF Indexes
    <2>2. Lifecycle!Moves(d, status[d], "indexed")
      BY <1>0, <2>1, MovesRow
    <2>3. [e \in Once |-> ToSet(events[e])]' =
            [[e \in Once |-> ToSet(events[e])] EXCEPT ![d] = {"indexed"}]
      BY <1>0, <2>1, RecordsOutcome DEF Settled
    <2>4. {e \in Once : embeddings[e] # <<>>}' = {e \in Once : embeddings[e] # <<>>} \cup {d}
      BY <1>0, <1>2, <2>1, MakesSearchable
    <2>5. Lifecycle!Index(d)
      BY <1>1, <2>2, <2>3, <2>4 DEF Lifecycle!Index
    <2> QED BY <2>5 DEF Lifecycle!Next
  <1>3. CASE ~(chunks > 0)
    <2>1. /\ status' = [status EXCEPT ![d] = "failed"]
          /\ events' = [events EXCEPT ![d] = Append(@, "failed")]
          /\ embeddings' = embeddings
      BY <1>3 DEF Indexes
    <2>2. Lifecycle!Moves(d, status[d], "failed")
      BY <1>0, <2>1, MovesRow
    <2>3. [e \in Once |-> ToSet(events[e])]' =
            [[e \in Once |-> ToSet(events[e])] EXCEPT ![d] = {"failed"}]
      BY <1>0, <2>1, RecordsOutcome DEF Settled
    <2>4. {e \in Once : embeddings[e] # <<>>}' = {e \in Once : embeddings[e] # <<>>}
      BY <2>1 DEF Once
    <2>5. Lifecycle!Fail(d)
      BY <1>1, <2>2, <2>3, <2>4 DEF Lifecycle!Fail
    <2> QED BY <2>5 DEF Lifecycle!Next
  <1> QED BY <1>2, <1>3

\* A status the row alone records.
LEMMA RowRefines ==
  ASSUME LifecycleInv, NEW d \in Once, NEW to, status' = [status EXCEPT ![d] = to],
         UNCHANGED <<deleted, embeddings, events>>
  PROVE  /\ Lifecycle!Moves(d, status[d], to)
         /\ (deleted \cap Once)' = deleted \cap Once
         /\ {e \in Once : embeddings[e] # <<>>}' = {e \in Once : embeddings[e] # <<>>}
         /\ [e \in Once |-> ToSet(events[e])]' = [e \in Once |-> ToSet(events[e])]
  BY MovesRow DEF LifecycleInv, Once

\* A handler's or user's step.
LEMMA RequestRefines ==
  ASSUME LifecycleInv, NEW d \in Document, Handler(d) \/ Request(d)
  PROVE  [Lifecycle!Next]_(Lifecycle!vars)
  <1> USE DEF rows, storage, broker, task, page
  <1>0. TypeOK /\ (d \in Once => DocumentInv(d))
    BY DEF LifecycleInv
  <1>1. CASE d \notin Once
    <2>1. CASE IngestText(d)
      BY <1>0, <1>1, <2>1, Stutters DEF IngestText, Indexes, TypeOK, Once
    <2>2. CASE ~IngestText(d)
      BY <1>0, <1>1, <2>2, Stutters DEF Handler, Request, BeginUpload, CreateBucket, PutObject,
         CommitDocument, ImportUrl, StorageFails, CommitFails, SendTask, SendFails,
         DeleteDocument, Redelivered, PendingRow, TypeOK, Once
    <2> QED BY <2>1, <2>2
  <1>2. CASE d \in Once /\ (CommitDocument(d) \/ ImportUrl(d))
    <2>1. status[d] = "absent"
      BY <1>0, <1>2 DEF CommitDocument, ImportUrl, Advances, DocumentInv, OneDelivery
    <2>2. status' = [status EXCEPT ![d] = "pending"] /\ UNCHANGED <<deleted, embeddings, events>>
      BY <1>2 DEF CommitDocument, ImportUrl, PendingRow
    <2>3. Lifecycle!Moves(d, "absent", "pending")
      BY <1>0, <1>2, <2>1, <2>2, RowRefines
    <2>4. Lifecycle!Create(d)
      BY <1>0, <1>2, <2>2, <2>3, RowRefines DEF Lifecycle!Create
    <2> QED BY <1>2, <2>4 DEF Lifecycle!Next
  <1>3. CASE d \in Once /\ IngestText(d)
    <2>1. status[d] = "absent"
      BY <1>0, <1>3 DEF IngestText, Advances, DocumentInv, OneDelivery
    <2>2. PICK chunks \in ChunkCounts \cup {0} : Indexes(d, chunks)
      BY <1>3 DEF IngestText
    <2> QED BY <1>3, <2>1, <2>2, IndexesRefines
  <1>4. CASE d \in Once /\ DeleteDocument(d)
    <2>1. status[d] # "absent" /\ d \notin deleted
      BY <1>0, <1>4 DEF DeleteDocument, DocumentInv, RowMatchesRest
    <2>2. /\ UNCHANGED <<status, embeddings, events>>
          /\ deleted' = deleted \cup {d}
      BY <1>4 DEF DeleteDocument
    <2>3. (deleted \cap Once)' = (deleted \cap Once) \cup {d}
      BY <1>4, <2>2 DEF Once
    <2>4. Lifecycle!Delete(d)
      BY <1>4, <2>1, <2>2, <2>3 DEF Lifecycle!Delete, Once
    <2> QED BY <1>4, <2>4 DEF Lifecycle!Next
  <1>5. CASE \/ BeginUpload(d) \/ CreateBucket(d) \/ PutObject(d) \/ StorageFails(d)
             \/ CommitFails(d) \/ SendTask(d) \/ SendFails(d) \/ Redelivered(d)
    BY <1>5, Stutters DEF BeginUpload, CreateBucket, PutObject, StorageFails, CommitFails,
       SendTask, SendFails, Redelivered
  <1> QED BY <1>1, <1>2, <1>3, <1>4, <1>5 DEF Handler, Request

\* A step of worker w with document d.
LEMMA WorkerRefines ==
  ASSUME LifecycleInv, NEW w \in Worker, NEW d \in Document, LoadDocument(w, d) \/ Step(w, d)
  PROVE  [Lifecycle!Next]_(Lifecycle!vars)
  <1> USE DEF rows, storage, broker, task, page
  <1>0. TypeOK /\ (d \in Once => DocumentInv(d))
    BY DEF LifecycleInv
  <1>1. CASE d \notin Once
    <2>1. CASE ChunkAndIndex(w, d)
      BY <1>0, <1>1, <2>1, Stutters DEF ChunkAndIndex, Indexes, TypeOK, Once
    <2>2. CASE ~ChunkAndIndex(w, d)
      BY <1>0, <1>1, <2>2, Stutters DEF LoadDocument, Step, MarkProcessing, RecordRejection,
         MarkFailed, Fails, TypeOK, Once
    <2> QED BY <2>1, <2>2
  <1>2. CASE LoadDocument(w, d)
    BY <1>2, Stutters DEF LoadDocument
  <1>3. CASE d \in Once /\ MarkProcessing(w, d)
    <2>1. status[d] = "pending" /\ status' = [status EXCEPT ![d] = "processing"]
      BY <1>0, <1>3 DEF MarkProcessing, DocumentInv, TaskMatchesRow
    <2>2. Lifecycle!Start(d)
      BY <1>3, <2>1, RowRefines DEF MarkProcessing, Lifecycle!Start
    <2> QED BY <1>3, <2>2 DEF Lifecycle!Next
  <1>4. ASSUME d \in Once, Processes(w, d)
        PROVE  status[d] = "processing" /\ seenStatus[w] = "processing" /\ events[d] = <<>>
    BY <1>0, <1>4 DEF Processes, DocumentInv, TaskMatchesRow, RowMatchesRest, Settled
  <1>5. CASE d \in Once /\ ChunkAndIndex(w, d)
    <2>1. PICK chunks \in ChunkCounts : Indexes(d, chunks)
      BY <1>5 DEF ChunkAndIndex
    <2> QED BY <1>4, <1>5, <2>1, IndexesRefines DEF ChunkAndIndex
  <1>6. CASE d \in Once /\ RecordRejection(w, d)
    <2>1. /\ status[d] = "processing" /\ events[d] = <<>>
          /\ status' = [status EXCEPT ![d] = "failed"]
          /\ events' = [events EXCEPT ![d] = Append(@, "failed")]
          /\ UNCHANGED <<deleted, embeddings>>
      BY <1>4, <1>6 DEF RecordRejection, Fails
    <2>2. Lifecycle!Moves(d, status[d], "failed")
      BY <1>0, <1>6, <2>1, MovesRow
    <2>3. [e \in Once |-> ToSet(events[e])]' =
            [[e \in Once |-> ToSet(events[e])] EXCEPT ![d] = {"failed"}]
      BY <1>0, <1>6, <2>1, RecordsOutcome DEF Settled
    <2>4. /\ (deleted \cap Once)' = deleted \cap Once
          /\ {e \in Once : embeddings[e] # <<>>}' = {e \in Once : embeddings[e] # <<>>}
      BY <2>1 DEF Once
    <2>5. Lifecycle!Fail(d)
      BY <2>1, <2>2, <2>3, <2>4 DEF Lifecycle!Fail
    <2> QED BY <1>6, <2>5 DEF Lifecycle!Next
  <1>7. CASE d \in Once /\ MarkFailed(w, d)
    <2>1. /\ status[d] = "processing" /\ status' = [status EXCEPT ![d] = "failed"]
          /\ UNCHANGED <<deleted, embeddings, events>>
      BY <1>4, <1>7 DEF MarkFailed, Fails
    <2>2. Lifecycle!Fail(d)
      BY <1>7, <2>1, RowRefines DEF Lifecycle!Fail
    <2> QED BY <1>7, <2>2 DEF Lifecycle!Next
  <1> QED BY <1>1, <1>2, <1>3, <1>5, <1>6, <1>7 DEF Step

\* Every step is a step of the lifecycle or leaves it unchanged.
LEMMA RefinesStep ==
  ASSUME LifecycleInv, [Next]_vars
  PROVE  [Lifecycle!Next]_(Lifecycle!vars)
  <1> USE DEF rows
  <1>1. ASSUME NEW w \in Worker, DatabaseFails(w) \/ Killed(w)
        PROVE  UNCHANGED Lifecycle!vars
    BY <1>1, Stutters DEF DatabaseFails, Killed
  <1>2. CASE Fetch \/ UNCHANGED vars
    BY <1>2, Stutters DEF Fetch, vars
  <1> QED BY <1>1, <1>2, RequestRefines, WorkerRefines DEF Next, Done

\* The upload and import handlers, the worker, its failures and deletion implement
\* the lifecycle that the page and the search rely on, for every document whose
\* task is delivered once.
THEOREM ImplementsLifecycle == Spec => RefinesDocumentLifecycle
  <1>1. LifecycleInv /\ [Next]_vars => [Lifecycle!Next]_(Lifecycle!vars)
    BY RefinesStep
  <1> QED BY <1>1, RefinesInit, DocumentsDeliveredOnce, PTL
       DEF Spec, RefinesDocumentLifecycle, Lifecycle!Spec
=============================================================================
