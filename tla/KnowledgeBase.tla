---------------------------- MODULE KnowledgeBase ----------------------------
(***************************************************************************)
(* The documents of one project's knowledge base: the upload and import    *)
(* handlers (api/v1/documents.py) over object storage and the documents    *)
(* table, the Celery task that extracts, chunks, embeds and indexes a      *)
(* document (KnowledgeBaseService.process_document), deletion, and the     *)
(* browser page that polls the list until everything has settled.          *)
(*                                                                         *)
(* Each action ends at a commit, an object storage call or a send.  A text *)
(* is the number of chunks it makes (Chunking); a search answers with the  *)
(* chunk rows of the project's documents that are not deleted.             *)
(***************************************************************************)
EXTENDS Integers, Sequences, SequencesExt

CONSTANTS
  Document, Worker,
  ChunkCounts,    \* numbers of chunks a loaded text can make
  MaxDuplicates,  \* bound on the copies it makes of one task
  Faults          \* what may go wrong with each document: subsets of AllFaults

AllFaults == {"loader", "provider", "database", "storage", "send", "kill", "duplicate"}

ASSUME KnowledgeBaseAssumption ==
  /\ ChunkCounts \subseteq Nat \ {0}
  /\ MaxDuplicates \in Nat
  /\ Faults \in [Document -> SUBSET AllFaults]

VARIABLES
  source_type,  \* where a document comes from: "file", "url" or a "text" in hand
  status,       \* documents.status, "absent" while there is no row
  deleted,      \* documents whose deleted_at is set
  embeddings,   \* chunk rows of a document: the size of each batch create_many wrote
  events,       \* outcomes among its analytics_events rows, in commit order
  bucket,       \* the documents bucket exists in object storage
  objects,      \* documents whose bytes are in the bucket
  request,      \* where the handler of a document's upload or import is
  queue,        \* copies of the document's task waiting at the broker
  copies,       \* history: copies the broker has made
  place,        \* where each worker is in _process_document_async
  serves,       \* the document it works on, as a set of at most one
  seenStatus,   \* status of its ORM object, kept over a commit
  abandoned,    \* history: documents a fault took a task or a commit from
  shown,        \* the page's list: status of each document, "absent" if not listed
  invalidated   \* a mutation of the page succeeded since its last fetch

rows    == <<source_type, status, deleted, embeddings, events>>
storage == <<bucket, objects>>
broker  == <<queue, copies>>
task    == <<place, serves, seenStatus>>
page    == <<shown, invalidated>>
vars    == <<rows, storage, request, broker, task, abandoned, page>>

Active  == {"pending", "processing"}   \* ACTIVE_STATUSES of the page
Settled == {"indexed", "failed"}
-----------------------------------------------------------------------------

Init ==
  /\ source_type = [d \in Document |-> "none"]
  /\ status = [d \in Document |-> "absent"]
  /\ deleted = {}
  /\ embeddings = [d \in Document |-> <<>>]
  /\ events = [d \in Document |-> <<>>]
  /\ bucket = FALSE
  /\ objects = {}
  /\ request = [d \in Document |-> "none"]
  /\ queue = [d \in Document |-> 0]
  /\ copies = [d \in Document |-> 0]
  /\ place = [w \in Worker |-> "idle"]
  /\ serves = [w \in Worker |-> {}]
  /\ seenStatus = [w \in Worker |-> "absent"]
  /\ abandoned = {}
  /\ shown = [d \in Document |-> "absent"]
  /\ invalidated = FALSE

(* The handlers: bytes into the bucket, then the row, then the task.       *)

Advances(d, from, to) ==
  /\ request[d] = from
  /\ request' = [request EXCEPT ![d] = to]

\* ObjectStorage._ensure_bucket_sync on a thread of its own: head_bucket, which
\* an earlier call of the process makes unnecessary.
BeginUpload(d) ==
  /\ Advances(d, "none", IF bucket THEN "put" ELSE "create")
  /\ source_type' = [source_type EXCEPT ![d] = "file"]
  /\ UNCHANGED <<status, deleted, embeddings, events, storage, broker, task, abandoned, page>>

\* create_bucket raises when another upload's call has come first.
CreateBucket(d) ==
  /\ Advances(d, "create", IF bucket THEN "refused" ELSE "put")
  /\ bucket' = TRUE
  /\ UNCHANGED <<rows, objects, broker, task, abandoned, page>>

PutObject(d) ==
  /\ Advances(d, "put", "stored")
  /\ objects' = objects \cup {d}
  /\ UNCHANGED <<rows, bucket, broker, task, abandoned, page>>

StorageFails(d) ==
  /\ "storage" \in Faults[d]
  /\ \E from \in {"none", "create", "put"} : Advances(d, from, "refused")
  /\ UNCHANGED <<rows, storage, broker, task, abandoned, page>>

PendingRow(d) == status' = [status EXCEPT ![d] = "pending"]

\* upload_document ends in one commit: the row and its event.
CommitDocument(d) ==
  /\ Advances(d, "stored", "committed")
  /\ PendingRow(d)
  /\ UNCHANGED <<source_type, deleted, embeddings, events, storage, broker, task, abandoned, page>>

\* import_url is that commit alone: storage_path is the URL.
ImportUrl(d) ==
  /\ Advances(d, "none", "committed")
  /\ PendingRow(d)
  /\ source_type' = [source_type EXCEPT ![d] = "url"]
  /\ UNCHANGED <<deleted, embeddings, events, storage, broker, task, abandoned, page>>

\* The commit fails: an uploaded file stays in the bucket without a row.
CommitFails(d) ==
  /\ "database" \in Faults[d]
  /\ \E from \in {"none", "stored"} : Advances(d, from, "refused")
  /\ UNCHANGED <<rows, storage, broker, task, abandoned, page>>

\* The task is sent and the answer reaches the page's mutation.
SendTask(d) ==
  /\ Advances(d, "committed", "sent")
  /\ queue' = [queue EXCEPT ![d] = @ + 1]
  /\ invalidated' = TRUE
  /\ UNCHANGED <<rows, storage, copies, task, abandoned, shown>>

\* The broker is down: a 500 for the caller, and a row no task will process.
SendFails(d) ==
  /\ "send" \in Faults[d]
  /\ Advances(d, "committed", "refused")
  /\ abandoned' = abandoned \cup {d}
  /\ UNCHANGED <<rows, storage, broker, task, page>>

\* What _chunk_and_index commits for a text of that many chunks.
Indexes(d, chunks) ==
  LET outcome == IF chunks > 0 THEN "indexed" ELSE "failed" IN
    /\ embeddings' = IF chunks > 0
                       THEN [embeddings EXCEPT ![d] = Append(@, chunks)]
                       ELSE embeddings
    /\ status' = [status EXCEPT ![d] = outcome]
    /\ events' = [events EXCEPT ![d] = Append(@, outcome)]
    /\ UNCHANGED deleted

\* KnowledgeBaseService.ingest_text: row, chunks and outcome in one transaction.
IngestText(d) ==
  /\ Advances(d, "none", "sent")
  /\ source_type' = [source_type EXCEPT ![d] = "text"]
  /\ \E chunks \in ChunkCounts \cup {0} : Indexes(d, chunks)
  /\ UNCHANGED <<storage, broker, task, abandoned, page>>

\* The user deletes a document the page lists; soft_delete writes deleted_at and
\* nothing else.
DeleteDocument(d) ==
  /\ shown[d] # "absent"
  /\ d \notin deleted
  /\ deleted' = deleted \cup {d}
  /\ invalidated' = TRUE
  /\ UNCHANGED <<source_type, status, embeddings, events, storage, request, broker, task,
                 abandoned, shown>>

\* A copy that outlives the broker's visibility timeout is delivered again.
Redelivered(d) ==
  /\ "duplicate" \in Faults[d]
  /\ queue[d] > 0
  /\ copies[d] < MaxDuplicates
  /\ queue' = [queue EXCEPT ![d] = @ + 1]
  /\ copies' = [copies EXCEPT ![d] = @ + 1]
  /\ UNCHANGED <<rows, storage, request, task, abandoned, page>>

-----------------------------------------------------------------------------
(* process_document, inside _process_document_async.                       *)

Works(w, d) == d \in serves[w]

\* The worker takes a task, which acknowledges it, and reads the row; neither
\* the status nor deleted_at is looked at.
LoadDocument(w, d) ==
  /\ place[w] = "idle"
  /\ queue[d] > 0
  /\ queue' = [queue EXCEPT ![d] = @ - 1]
  /\ place' = [place EXCEPT ![w] = "loaded"]
  /\ serves' = [serves EXCEPT ![w] = {d}]
  /\ seenStatus' = [seenStatus EXCEPT ![w] = status[d]]
  /\ UNCHANGED <<rows, storage, request, copies, abandoned, page>>

\* The task function returned or raised.
Leaves(w) ==
  /\ place' = [place EXCEPT ![w] = "idle"]
  /\ serves' = [serves EXCEPT ![w] = {}]
  /\ seenStatus' = [seenStatus EXCEPT ![w] = "absent"]

\* An UPDATE carries the status only if it differs from what the ORM holds.
MarkProcessing(w, d) ==
  /\ place[w] = "loaded" /\ Works(w, d)
  /\ place' = [place EXCEPT ![w] = "processing"]
  /\ status' = [status EXCEPT ![d] = IF seenStatus[w] = "processing" THEN @ ELSE "processing"]
  /\ seenStatus' = [seenStatus EXCEPT ![w] = "processing"]
  /\ UNCHANGED <<source_type, deleted, embeddings, events, storage, request, broker, serves,
                 abandoned, page>>

\* Worker w is between its two commits: it downloads, loads, chunks and embeds.
Processes(w, d) == place[w] = "processing" /\ Works(w, d)

\* Uploaded bytes come from the bucket, a page from its URL.
Readable(d) == source_type[d] = "file" => d \in objects

\* Mutant: create_many has a commit of its own and a row of it fails the task.
StoreChunksFirst(w, d) ==
  /\ Processes(w, d)
  /\ embeddings' = [embeddings EXCEPT ![d] = Append(@, 1)]
  /\ Leaves(w)
  /\ UNCHANGED <<source_type, status, deleted, events, storage, request, broker,
                 abandoned, page>>

\* The loader returns a text that is not blank; _chunk_and_index puts the chunk
\* rows, the status and the event in one commit.
ChunkAndIndex(w, d) ==
  /\ Processes(w, d)
  /\ Readable(d)
  /\ \E chunks \in ChunkCounts : Indexes(d, chunks)
  /\ Leaves(w)
  /\ UNCHANGED <<source_type, storage, request, broker, abandoned, page>>

Fails(d) == status' = [status EXCEPT ![d] = "failed"]

\* Mutant: the failure is recorded, the exception swallowed.
RecordsRejectionAndGoesOn(w, d) ==
  /\ "loader" \in Faults[d]
  /\ Processes(w, d)
  /\ Fails(d)
  /\ events' = [events EXCEPT ![d] = <<"failed">>]
  /\ UNCHANGED <<source_type, deleted, embeddings, storage, request, broker, task,
                 abandoned, page>>

\* The loader raises LoaderError, and the except clause of process_document marks
\* the document; the handler outside finds it failed already.
RecordRejection(w, d) ==
  /\ "loader" \in Faults[d]
  /\ Processes(w, d)
  /\ Fails(d)
  /\ events' = [events EXCEPT ![d] = Append(@, "failed")]
  /\ Leaves(w)
  /\ UNCHANGED <<source_type, deleted, embeddings, storage, request, broker, abandoned, page>>

\* Storage is down or the object missing, a loader lets its library's error
\* through, or the embedding provider fails.
Raises(d) == Faults[d] \cap {"storage", "loader", "provider"} # {} \/ ~Readable(d)

\* Mutant: the handler expects the status the row was created with.
MarkPendingFailed(w, d) ==
  /\ Raises(d)
  /\ Processes(w, d)
  /\ IF seenStatus[w] = "pending" THEN Fails(d) ELSE UNCHANGED status
  /\ Leaves(w)
  /\ UNCHANGED <<source_type, deleted, embeddings, events, storage, request, broker,
                 abandoned, page>>

\* Any other exception, and the handler of _process_document_async: get_by_id
\* answers from the identity map, so the status compared is the one this task
\* wrote.
MarkFailed(w, d) ==
  /\ Raises(d)
  /\ Processes(w, d)
  /\ IF seenStatus[w] = "processing" THEN Fails(d) ELSE UNCHANGED status
  /\ Leaves(w)
  /\ UNCHANGED <<source_type, deleted, embeddings, events, storage, request, broker,
                 abandoned, page>>

\* A statement fails.  The session then refuses the handler's statements too, so
\* nothing marks the document.
DatabaseFails(w) ==
  /\ \E d \in serves[w] : "database" \in Faults[d]
  /\ abandoned' = abandoned \cup serves[w]
  /\ Leaves(w)
  /\ UNCHANGED <<rows, storage, request, broker, page>>

\* task_time_limit, a deployment or the OOM killer; the task was acknowledged.
Killed(w) ==
  /\ \E d \in serves[w] : "kill" \in Faults[d]
  /\ abandoned' = abandoned \cup serves[w]
  /\ Leaves(w)
  /\ UNCHANGED <<rows, storage, request, broker, page>>

-----------------------------------------------------------------------------
(* The page: useDocuments.                                                 *)

Listed == [d \in Document |-> IF d \in deleted THEN "absent" ELSE status[d]]

\* Mutant: only documents no worker has taken yet count as active.
PollsPending == invalidated \/ \E d \in Document : shown[d] = "pending"

\* A mutation invalidated the list, or something in it is still active.
Polls == invalidated \/ \E d \in Document : shown[d] \in Active

Fetch ==
  /\ Polls
  /\ shown' = Listed
  /\ invalidated' = FALSE
  /\ UNCHANGED <<rows, storage, request, broker, task, abandoned>>

-----------------------------------------------------------------------------

Handler(d) == CreateBucket(d) \/ PutObject(d) \/ CommitDocument(d) \/ SendTask(d)

Request(d) ==
  \/ BeginUpload(d) \/ ImportUrl(d) \/ IngestText(d) \/ DeleteDocument(d)
  \/ StorageFails(d) \/ CommitFails(d) \/ SendFails(d) \/ Redelivered(d)

Step(w, d) ==
  \/ MarkProcessing(w, d) \/ ChunkAndIndex(w, d)
  \/ RecordRejection(w, d) \/ MarkFailed(w, d)

Done ==
  /\ \A d \in Document : request[d] \in {"sent", "refused"} /\ queue[d] = 0
  /\ \A w \in Worker : place[w] = "idle"
  /\ ~invalidated
  /\ UNCHANGED vars

Next ==
  \/ \E d \in Document : Handler(d) \/ Request(d)
  \/ \E w \in Worker, d \in Document : LoadDocument(w, d) \/ Step(w, d)
  \/ \E w \in Worker : DatabaseFails(w) \/ Killed(w)
  \/ Fetch
  \/ Done

\* A handler that has begun runs on, idle workers poll the broker, a task runs
\* on, and the page's timer fires every two seconds while it polls.
Fairness ==
  /\ \A d \in Document : WF_vars(Handler(d))
  /\ WF_vars(\E w \in Worker, d \in Document : LoadDocument(w, d))
  /\ \A w \in Worker : WF_vars(\E d \in Document : Step(w, d))
  /\ WF_vars(Fetch)

Spec == Init /\ [][Next]_vars /\ Fairness
-----------------------------------------------------------------------------
(* Properties.                                                             *)

Places == {"idle", "loaded", "processing"}
Stages == {"none", "create", "put", "stored", "committed", "sent", "refused"}

\* Every variable has its type; a batch of chunk rows is never empty.
TypeOK ==
  /\ source_type \in [Document -> {"none", "file", "url", "text"}]
  /\ status \in [Document -> {"absent"} \cup Active \cup Settled]
  /\ deleted \subseteq Document
  /\ embeddings \in [Document -> Seq(ChunkCounts)]
  /\ events \in [Document -> Seq(Settled)]
  /\ bucket \in BOOLEAN
  /\ objects \subseteq Document
  /\ request \in [Document -> Stages]
  /\ queue \in [Document -> Nat]
  /\ copies \in [Document -> 0..MaxDuplicates]
  /\ place \in [Worker -> Places]
  /\ serves \in [Worker -> SUBSET Document]
  /\ seenStatus \in [Worker -> {"absent"} \cup Active \cup Settled]
  /\ abandoned \subseteq Document
  /\ shown \in [Document -> {"absent"} \cup Active \cup Settled]
  /\ invalidated \in BOOLEAN

Once == {d \in Document : "duplicate" \notin Faults[d]}

\* The documents whose task is delivered once follow DocumentLifecycle, whatever
\* fails: their chunks are searchable exactly when the row says indexed.
Lifecycle == INSTANCE DocumentLifecycle WITH
  Document   <- Once,
  status     <- [d \in Once |-> status[d]],
  searchable <- {d \in Once : embeddings[d] # <<>>},
  deleted    <- deleted \cap Once,
  recorded   <- [d \in Once |-> ToSet(events[d])]

RefinesDocumentLifecycle == Lifecycle!Spec

Indexings(log) == {i \in 1..Len(log) : log[i] = "indexed"}

\* However often a task is delivered, a document has one batch of chunk rows for
\* every indexing that analytics recorded, no more and no less.
BatchesMatchEvents ==
  \A d \in Document : Len(embeddings[d]) = Cardinality(Indexings(events[d]))

\* "ensure the document never gets stuck processing" (tasks.py:306): a document
\* in processing has a worker on it.
NoDocumentStuck ==
  \A d \in Document : status[d] = "processing" => \E w \in Worker : Works(w, d)

\* A settled status the page shows is final: it stops polling then, and would
\* not learn of another.
ShownIsFinal == \A d \in Once : shown[d] \in Settled => status[d] = shown[d]

\* A document that reached the broker is indexed or failed in the end.
DocumentsSettle ==
  \A d \in Document : queue[d] > 0 ~> status[d] \in Settled \/ d \in abandoned

\* A page that shows a document as active does not do so for ever.
PageSettles ==
  \A d \in Document : shown[d] \in Active ~> shown[d] \notin Active \/ d \in abandoned
=============================================================================
