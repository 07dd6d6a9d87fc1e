----------------------------- MODULE Workspaces -----------------------------
(***************************************************************************)
(* Projects and what belongs to them.  Requests of several signed-in       *)
(* clients and the research worker's retrieval read and write one          *)
(* database, where ownership is a foreign key of each row and not a        *)
(* partition: an answer is its reader's own only if every handler checks   *)
(* (ProjectService.get_project, ResearchSessionService.get_session,        *)
(* KnowledgeBaseService.get_document) and every query after the check      *)
(* keeps to what was checked.                                              *)
(*                                                                         *)
(* Check and query are two statements, with other requests in between.     *)
(* Ids are free for a client to choose: its own, another's, or unknown.    *)
(* How a document comes to be indexed is KnowledgeBase's subject; here any *)
(* document with a row may be.  No code deletes a project or a session.    *)
(***************************************************************************)
EXTENDS Integers, FiniteSets, FiniteSetsExt

CONSTANTS
  User, Project, Document, Session,
  Client,   \* browsers and tabs: each makes one request at a time
  account,  \* whose access token a client sends (get_current_user)
  TopK      \* documents a search returns chunks of, at most

ASSUME WorkspacesAssumption ==
  /\ account \in [Client -> User]
  /\ TopK \in Nat \ {0}
  /\ Project \cap Document = {} /\ Session \cap Document = {}   \* uuids

VARIABLES
  owners,     \* projects.owner_id, a set of at most one: empty while no row
  home,       \* documents.project_id, likewise
  indexed,    \* documents with chunk rows
  deleted,    \* documents with a deleted_at
  submitter,  \* research_sessions.user_id, likewise a set of at most one
  workplace,  \* research_sessions.project_id
  evidence,   \* documents whose chunks the session's retriever was given
  stage,      \* where the worker is with a session
  since,      \* history: documents deleted when the session was created
  request,    \* the request a client waits for: its handler, the id in its path
  phase,      \* how far the handler is: none, asked or found
  before,     \* history: documents deleted when the request was made
  answer      \* what the last answer told the client of: projects, documents, sessions

documents == <<home, indexed, deleted>>
sessions  == <<submitter, workplace, evidence, stage, since>>
requests  == <<request, phase, before, answer>>
vars      == <<owners, documents, sessions, requests>>

ProjectScoped  == {"get_project", "list_sessions", "create_session",
                   "list_documents", "upload_document", "search"}
SessionScoped  == {"get_session", "list_session_messages", "get_session_report"}
DocumentScoped == {"get_document", "delete_document"}
Unscoped       == {"create_project", "list_projects"}

Requested == [handler : ProjectScoped, id : Project]
  \cup [handler : SessionScoped, id : Session]
  \cup [handler : DocumentScoped, id : Document]
  \cup [handler : Unscoped, id : {"none"}]

Nothing == [handler |-> "none", id |-> "none"]

Init ==
  /\ owners = [p \in Project |-> {}]
  /\ home = [d \in Document |-> {}]
  /\ indexed = {}
  /\ deleted = {}
  /\ submitter = [s \in Session |-> {}]
  /\ workplace = [s \in Session |-> {}]
  /\ evidence = [s \in Session |-> {}]
  /\ stage = [s \in Session |-> "absent"]
  /\ since = [s \in Session |-> {}]
  /\ request = [c \in Client |-> Nothing]
  /\ phase = [c \in Client |-> "none"]
  /\ before = [c \in Client |-> {}]
  /\ answer = [c \in Client |-> {}]
-----------------------------------------------------------------------------
(* The checks and the queries.                                             *)

\* ProjectService.get_project finds the project: it exists and is the user's.
GetProject(p, u) == u \in owners[p]

\* KnowledgeBaseService.get_document: not deleted, in a project of the user's.
GetDocument(d, u) == d \notin deleted /\ \E p \in home[d] : GetProject(p, u)

\* ResearchSessionService.get_session asks for the user who submitted it, and so
\* does the WebSocket.
GetSession(s, u) == u \in submitter[s]

ListForOwner(u) == {p \in Project : u \in owners[p]}

ListSessions(p) == {s \in Session : p \in workplace[s]}

ListDocuments(p) == {d \in Document \ deleted : p \in home[d]}

\* Mutant: the project of the documents is left to the caller.
SearchesAllProjects(p) == {D \in SUBSET (indexed \ deleted) : Cardinality(D) <= TopK}

\* Mutant: no condition on deleted_at, as the chunk rows are still there.
SearchesDeleted(p) ==
  {D \in SUBSET {d \in indexed : p \in home[d]} : Cardinality(D) <= TopK}

\* EmbeddingRepository.similarity_search: whichever chunks of the project's
\* undeleted documents are closest.  The index is approximate and the conditions
\* filter what it yields, so there may be fewer than there are candidates.
SimilaritySearch(p) ==
  LET candidates == {d \in indexed \ deleted : p \in home[d]}
  IN  {D \in SUBSET candidates : Cardinality(D) <= TopK}

\* The latest report of a session: it was written from its evidence.
GetLatestReport(s) == IF stage[s] = "completed" THEN {s} \cup evidence[s] ELSE {}
-----------------------------------------------------------------------------
(* A request: its check, then its query or commit, then its answer.        *)

Asks(c, r) ==
  /\ phase[c] = "none"
  /\ request' = [request EXCEPT ![c] = r]
  /\ phase' = [phase EXCEPT ![c] = "asked"]
  /\ before' = [before EXCEPT ![c] = deleted]
  /\ answer' = [answer EXCEPT ![c] = {}]
  /\ UNCHANGED <<owners, documents, sessions>>

\* The statement that looks for the object of the path, under the caller's id.
\* An object it found is in hand, whatever happens to its row after.
Check(c) ==
  LET r == request[c]  u == account[c]
  IN  /\ r.handler \in ProjectScoped => GetProject(r.id, u)
      /\ r.handler \in SessionScoped => GetSession(r.id, u)
      /\ r.handler \in DocumentScoped => GetDocument(r.id, u)

Finds(c) ==
  /\ phase[c] = "asked"
  /\ Check(c)
  /\ phase' = [phase EXCEPT ![c] = "found"]
  /\ UNCHANGED <<owners, documents, sessions, request, before, answer>>

\* The client of c learns of the objects in A.
Tells(c, A) ==
  /\ request' = [request EXCEPT ![c] = Nothing]
  /\ phase' = [phase EXCEPT ![c] = "none"]
  /\ before' = [before EXCEPT ![c] = {}]
  /\ answer' = [answer EXCEPT ![c] = A]

\* Every *NotFoundError becomes a 404 that says no more than that.
NotFound(c) ==
  /\ phase[c] = "asked"
  /\ ~Check(c)
  /\ Tells(c, {})
  /\ UNCHANGED <<owners, documents, sessions>>

\* The handler of c, its check passed, answers with what is in A.
Answers(c, handler, A) ==
  /\ phase[c] = "found"
  /\ request[c].handler = handler
  /\ Tells(c, A)

\* The id of a new row is a fresh uuid4.
CreateProject(c, p) ==
  /\ Answers(c, "create_project", {p})
  /\ owners[p] = {}
  /\ owners' = [owners EXCEPT ![p] = {account[c]}]
  /\ UNCHANGED <<documents, sessions>>

ReadsProjects(c) ==
  /\ \/ Answers(c, "list_projects", ListForOwner(account[c]))
     \/ Answers(c, "get_project", {request[c].id})
  /\ UNCHANGED <<owners, documents, sessions>>

\* upload_document and import_url: the row, under the project that was checked.
AddDocument(c, d) ==
  /\ Answers(c, "upload_document", {d})
  /\ home[d] = {}
  /\ home' = [home EXCEPT ![d] = {request[c].id}]
  /\ UNCHANGED <<owners, indexed, deleted, sessions>>

ReadsDocuments(c) ==
  /\ \/ Answers(c, "list_documents", ListDocuments(request[c].id))
     \/ Answers(c, "get_document", {request[c].id})
  /\ UNCHANGED <<owners, documents, sessions>>

Search(c) ==
  /\ \E found \in SimilaritySearch(request[c].id) : Answers(c, "search", found)
  /\ UNCHANGED <<owners, documents, sessions>>

\* soft_delete of the object in hand; the chunk rows stay.
DeleteDocument(c) ==
  /\ Answers(c, "delete_document", {})
  /\ deleted' = deleted \cup {request[c].id}
  /\ UNCHANGED <<owners, home, indexed, sessions>>

CreateSession(c, s) ==
  /\ Answers(c, "create_session", {s})
  /\ stage[s] = "absent"
  /\ submitter' = [submitter EXCEPT ![s] = {account[c]}]
  /\ workplace' = [workplace EXCEPT ![s] = {request[c].id}]
  /\ stage' = [stage EXCEPT ![s] = "queued"]
  /\ since' = [since EXCEPT ![s] = deleted]
  /\ UNCHANGED <<owners, documents, evidence>>

ReadsSessions(c) ==
  /\ \/ Answers(c, "list_sessions", ListSessions(request[c].id))
     \/ Answers(c, "get_session", {request[c].id})
     \/ Answers(c, "list_session_messages", {request[c].id})
     \/ Answers(c, "get_session_report", GetLatestReport(request[c].id))
  /\ UNCHANGED <<owners, documents, sessions>>
-----------------------------------------------------------------------------
(* The workers.                                                            *)

\* process_document, which does not look at deleted_at.
IndexDocument(d) ==
  /\ home[d] # {}
  /\ d \notin indexed
  /\ indexed' = indexed \cup {d}
  /\ UNCHANGED <<owners, home, deleted, sessions, requests>>

\* PgVectorStore searches the project of the session's row, on nobody's behalf.
VectorStore(s) == UNION {SimilaritySearch(p) : p \in workplace[s]}

\* The loops of the graph bring the retriever back, and what it finds accumulates.
Retrieve(s) ==
  /\ stage[s] \in {"queued", "retrieved"}
  /\ \E found \in VectorStore(s) : evidence' = [evidence EXCEPT ![s] = @ \cup found]
  /\ stage' = [stage EXCEPT ![s] = "retrieved"]
  /\ UNCHANGED <<owners, documents, submitter, workplace, since, requests>>

PersistReport(s) ==
  /\ stage[s] = "retrieved"
  /\ stage' = [stage EXCEPT ![s] = "completed"]
  /\ UNCHANGED <<owners, documents, submitter, workplace, evidence, since, requests>>

-----------------------------------------------------------------------------

ServesProjects(c) == (\E p \in Project : CreateProject(c, p)) \/ ReadsProjects(c)

ServesDocuments(c) ==
  \/ \E d \in Document : AddDocument(c, d)
  \/ ReadsDocuments(c) \/ Search(c) \/ DeleteDocument(c)

ServesSessions(c) == (\E s \in Session : CreateSession(c, s)) \/ ReadsSessions(c)

Next ==
  \/ \E c \in Client : (\E r \in Requested : Asks(c, r)) \/ Finds(c) \/ NotFound(c)
  \/ \E c \in Client : ServesProjects(c) \/ ServesDocuments(c) \/ ServesSessions(c)
  \/ \E d \in Document : IndexDocument(d)
  \/ \E s \in Session : Retrieve(s) \/ PersistReport(s)

Spec == Init /\ [][Next]_vars
-----------------------------------------------------------------------------
(* Properties.                                                             *)

TypeOK ==
  /\ owners \in [Project -> SUBSET User]
  /\ home \in [Document -> SUBSET Project]
  /\ indexed \subseteq Document
  /\ deleted \subseteq Document
  /\ submitter \in [Session -> SUBSET User]
  /\ workplace \in [Session -> SUBSET Project]
  /\ evidence \in [Session -> SUBSET Document]
  /\ stage \in [Session -> {"absent", "queued", "retrieved", "completed"}]
  /\ since \in [Session -> SUBSET Document]
  /\ request \in [Client -> Requested \cup {Nothing}]
  /\ phase \in [Client -> {"none", "asked", "found"}]
  /\ before \in [Client -> SUBSET Document]
  /\ answer \in [Client -> SUBSET (Project \cup Document \cup Session)]

\* What is a user's: by a project's owner, at one remove for a document, and by
\* the submitter of a session.
OwnDocuments(u) == {d \in Document : home[d] # {} /\ \A p \in home[d] : u \in owners[p]}
Own(u) == ListForOwner(u) \cup OwnDocuments(u) \cup {s \in Session : u \in submitter[s]}

\* No answer tells a client of a project, document or session that is not its
\* user's, nor does a report, through what the worker retrieved for it.
AnswersAreOwn == \A c \in Client : answer[c] \subseteq Own(account[c])

\* After a deletion was committed no request made later is told of the document,
\* and no session created later draws on it, though its chunk rows stay where they
\* were.  (A report drawn from it before stays readable: reports are left out.)
DeletedStaysAway ==
  [][/\ \A c \in Client :
          phase[c] = "found" /\ phase'[c] = "none" /\ request[c].handler # "get_session_report"
            => answer'[c] \cap before[c] = {}
     /\ \A s \in Session : evidence'[s] \cap since'[s] = {}]_vars
=============================================================================
