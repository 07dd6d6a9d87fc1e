--------------------------- MODULE WorkspacesProofs ---------------------------
(***************************************************************************)
(* For any users, clients, projects, documents and sessions: answers stay  *)
(* their owners' and deletion is lasting.                                  *)
(*                                                                         *)
(* The invariant ties every row to the project it hangs from, and a request *)
(* that has passed its check to the row it was checked against; each part  *)
(* survives the steps of other requests because an owner, once written,    *)
(* is never rewritten.                                                     *)
(***************************************************************************)
EXTENDS Workspaces, TLAPS

\* A document is in one project, which has an owner; only a document that has a
\* project is deleted.
DocumentRows ==
  /\ \A d \in Document : \A p, q \in home[d] : p = q
  /\ \A d \in Document : \A p \in home[d] : owners[p] # {}
  /\ \A d \in deleted : home[d] # {}

\* A project has one owner, and a session's submitter is the owner of its project.
SessionRows ==
  /\ \A p \in Project : \A u, v \in owners[p] : u = v
  /\ \A s \in Session : \A p \in workplace[s] : submitter[s] = owners[p] /\ owners[p] # {}
  /\ \A s \in Session : stage[s] = "absent" => submitter[s] = {} /\ workplace[s] = {}

\* The retriever's chunks are of the session's own project.
EvidenceRows ==
  \A s \in Session : \A d \in evidence[s] : \E p \in workplace[s] : p \in home[d]

\* What a request found is still its user's.
Scoped(c) ==
  /\ request[c].handler \in ProjectScoped => account[c] \in owners[request[c].id]
  /\ request[c].handler \in SessionScoped => account[c] \in submitter[request[c].id]
  /\ request[c].handler \in DocumentScoped =>
       /\ request[c].id \notin before[c]
       /\ \E p \in home[request[c].id] : account[c] \in owners[p]
RequestsHold == \A c \in Client : phase[c] = "found" => Scoped(c)

\* What a request or a session must not be told of was deleted before.
DeletedBefore ==
  /\ \A c \in Client : before[c] \subseteq deleted
  /\ \A s \in Session : since[s] \subseteq deleted
  /\ \A s \in Session : evidence[s] \cap since[s] = {}

IInv ==
  /\ TypeOK
  /\ DocumentRows
  /\ SessionRows
  /\ EvidenceRows
  /\ RequestsHold
  /\ DeletedBefore
  /\ AnswersAreOwn

-----------------------------------------------------------------------------
(* The requests' records.                                                  *)

\* A request names an object of the kind its handler is about.
LEMMA RequestTyped ==
  ASSUME NEW r \in Requested \cup {Nothing}
  PROVE  /\ r.handler \in ProjectScoped => r.id \in Project
         /\ r.handler \in SessionScoped => r.id \in Session
         /\ r.handler \in DocumentScoped => r.id \in Document
BY DEF Requested, Nothing, ProjectScoped, SessionScoped, DocumentScoped, Unscoped

\* The kinds of handlers, by name.
LEMMA HandlerKinds ==
  /\ {"get_project", "list_sessions", "create_session", "list_documents",
      "upload_document", "search"} \subseteq ProjectScoped
  /\ {"get_session", "list_session_messages", "get_session_report"} \subseteq SessionScoped
  /\ {"get_document", "delete_document"} \subseteq DocumentScoped
BY DEF ProjectScoped, SessionScoped, DocumentScoped

-----------------------------------------------------------------------------
(* What a user owns is never taken away.                                   *)

\* An owner is written once, and so are the rows' foreign keys.
Grows ==
  /\ \A p \in Project : owners[p] # {} => owners'[p] = owners[p]
  /\ \A d \in Document : home[d] # {} => home'[d] = home[d]
  /\ \A s \in Session : submitter[s] # {} => submitter'[s] = submitter[s]

\* Then everything that was a user's still is.
LEMMA OwnGrows ==
  ASSUME TypeOK, DocumentRows, Grows, NEW u \in User
  PROVE  Own(u) \subseteq Own(u)'
BY DEF TypeOK, DocumentRows, Grows, Own, ListForOwner, OwnDocuments

\* And every check that was passed would be passed again.
LEMMA ScopedGrows ==
  ASSUME TypeOK, Grows, NEW c \in Client, Scoped(c),
         request'[c] = request[c], before'[c] = before[c]
  PROVE  Scoped(c)'
<1>1. request[c] \in Requested \cup {Nothing} /\ account[c] \in User
  BY WorkspacesAssumption DEF TypeOK
<1>2. /\ request[c].handler \in ProjectScoped => request[c].id \in Project
      /\ request[c].handler \in SessionScoped => request[c].id \in Session
      /\ request[c].handler \in DocumentScoped => request[c].id \in Document
  BY <1>1, RequestTyped
<1>3. CASE request[c].handler \in ProjectScoped
  BY <1>2, <1>3 DEF Scoped, Grows, ProjectScoped, SessionScoped, DocumentScoped
<1>4. CASE request[c].handler \in SessionScoped
  BY <1>2, <1>4 DEF Scoped, Grows, ProjectScoped, SessionScoped, DocumentScoped
<1>5. CASE request[c].handler \in DocumentScoped
  <2>1. PICK p \in home[request[c].id] : account[c] \in owners[p]
    BY <1>5 DEF Scoped
  <2>2. p \in Project /\ p \in home'[request[c].id] /\ account[c] \in owners'[p]
    BY <1>2, <1>5, <2>1 DEF TypeOK, Grows
  <2> QED BY <1>5, <2>2 DEF Scoped, ProjectScoped, SessionScoped, DocumentScoped
<1> QED BY <1>3, <1>4, <1>5 DEF Scoped

-----------------------------------------------------------------------------
(* The steps.                                                              *)

Rows == <<owners, documents, sessions>>

\* The invariant's parts about rows alone.
RowsInv ==
  /\ DocumentRows /\ SessionRows /\ EvidenceRows
  /\ \A s \in Session : since[s] \subseteq deleted /\ evidence[s] \cap since[s] = {}

\* A step that reads answers one client with what is its user's.
LEMMA ReadPreserves ==
  ASSUME IInv, NEW c \in Client, NEW A \in SUBSET Own(account[c]),
         Tells(c, A), UNCHANGED Rows
  PROVE  IInv'
<1> USE DEF Rows, documents, sessions
<1>1. A \subseteq Project \cup Document \cup Session
  BY DEF Own, ListForOwner, OwnDocuments
<1>2. TypeOK'
  BY <1>1 DEF IInv, TypeOK, Tells
<1>3. DocumentRows' /\ SessionRows' /\ EvidenceRows'
  BY DEF IInv, DocumentRows, SessionRows, EvidenceRows
<1>4. RequestsHold'
  <2> SUFFICES ASSUME NEW e \in Client, phase'[e] = "found" PROVE Scoped(e)'
    BY DEF RequestsHold
  <2>1. e # c /\ phase[e] = "found" /\ request'[e] = request[e] /\ before'[e] = before[e]
    BY DEF Tells, IInv, TypeOK
  <2>2. Grows
    BY DEF Grows
  <2> QED BY <2>1, <2>2, ScopedGrows DEF IInv, RequestsHold
<1>5. DeletedBefore'
  BY DEF IInv, TypeOK, DeletedBefore, Tells
<1>6. AnswersAreOwn'
  BY DEF IInv, TypeOK, AnswersAreOwn, Tells, Own, ListForOwner, OwnDocuments
<1> QED BY <1>2, <1>3, <1>4, <1>5, <1>6 DEF IInv

\* A step that writes answers one client with what is its user's then.
LEMMA WritePreserves ==
  ASSUME IInv, NEW c \in Client, NEW A \in SUBSET (Project \cup Document \cup Session),
         Tells(c, A), A \subseteq Own(account[c])',
         Grows, TypeOK', RowsInv', deleted \subseteq deleted'
  PROVE  IInv'
<1>1. RequestsHold'
  <2> SUFFICES ASSUME NEW e \in Client, phase'[e] = "found" PROVE Scoped(e)'
    BY DEF RequestsHold
  <2>1. e # c /\ phase[e] = "found" /\ request'[e] = request[e] /\ before'[e] = before[e]
    BY DEF Tells, IInv, TypeOK
  <2> QED BY <2>1, ScopedGrows DEF IInv, RequestsHold
<1>2. DeletedBefore'
  BY DEF IInv, TypeOK, RowsInv, DeletedBefore, Tells
<1>3. AnswersAreOwn'
  <2> SUFFICES ASSUME NEW e \in Client PROVE answer'[e] \subseteq Own(account[e])'
    BY DEF AnswersAreOwn
  <2>1. CASE e = c
    BY <2>1 DEF IInv, TypeOK, Tells
  <2>2. CASE e # c
    <3>1. answer'[e] = answer[e] /\ account[e] \in User
      BY <2>2, WorkspacesAssumption DEF IInv, TypeOK, Tells
    <3> QED BY <3>1, OwnGrows DEF IInv, AnswersAreOwn
  <2> QED BY <2>1, <2>2
<1> QED BY <1>1, <1>2, <1>3 DEF IInv, RowsInv

\* What the object of a request is to its handler, once the check has passed.
LEMMA Checked ==
  ASSUME IInv, NEW c \in Client, phase[c] = "found"
  PROVE  /\ request[c].handler \in ProjectScoped =>
              request[c].id \in Project /\ account[c] \in owners[request[c].id]
         /\ request[c].handler \in SessionScoped =>
              request[c].id \in Session /\ account[c] \in submitter[request[c].id]
         /\ request[c].handler \in DocumentScoped =>
              /\ request[c].id \in Document /\ request[c].id \notin before[c]
              /\ \E p \in home[request[c].id] : account[c] \in owners[p]
<1>1. request[c] \in Requested \cup {Nothing} /\ Scoped(c)
  BY DEF IInv, TypeOK, RequestsHold
<1> QED BY <1>1, RequestTyped DEF Scoped

\* A document of a user's project is the user's.
LEMMA OwnProjectsDocument ==
  ASSUME IInv, NEW u \in User, NEW d \in Document, NEW p \in home[d], u \in owners[p]
  PROVE  d \in Own(u)
BY DEF IInv, DocumentRows, Own, OwnDocuments

\* A request taken up holds nothing yet.
LEMMA AskPreserves ==
  ASSUME IInv, NEW c \in Client, NEW r \in Requested, Asks(c, r)
  PROVE  IInv'
<1> USE DEF documents, sessions, Asks
<1>1. TypeOK'
  BY DEF IInv, TypeOK
<1>2. DocumentRows' /\ SessionRows' /\ EvidenceRows'
  BY DEF IInv, DocumentRows, SessionRows, EvidenceRows
<1>3. RequestsHold'
  <2> SUFFICES ASSUME NEW e \in Client, phase'[e] = "found" PROVE Scoped(e)'
    BY DEF RequestsHold
  <2>1. e # c /\ phase[e] = "found" /\ request'[e] = request[e] /\ before'[e] = before[e]
    BY DEF IInv, TypeOK
  <2>2. Grows
    BY DEF Grows
  <2> QED BY <2>1, <2>2, ScopedGrows DEF IInv, RequestsHold
<1>4. DeletedBefore'
  BY DEF IInv, TypeOK, DeletedBefore
<1>5. AnswersAreOwn'
  BY DEF IInv, TypeOK, AnswersAreOwn, Own, ListForOwner, OwnDocuments
<1> QED BY <1>1, <1>2, <1>3, <1>4, <1>5 DEF IInv

\* What a check passes is its user's, and remembered as such.
LEMMA FindPreserves ==
  ASSUME IInv, NEW c \in Client, Finds(c)
  PROVE  IInv'
<1> USE DEF documents, sessions, Finds
<1>1. TypeOK'
  BY DEF IInv, TypeOK
<1>2. DocumentRows' /\ SessionRows' /\ EvidenceRows'
  BY DEF IInv, DocumentRows, SessionRows, EvidenceRows
<1>3. RequestsHold'
  <2> SUFFICES ASSUME NEW e \in Client, phase'[e] = "found" PROVE Scoped(e)'
    BY DEF RequestsHold
  <2>1. Scoped(e)
    <3>1. CASE e = c
      BY <3>1 DEF Check, GetProject, GetSession, GetDocument, Scoped, IInv, DeletedBefore
    <3>2. CASE e # c
      BY <3>2 DEF IInv, TypeOK, RequestsHold
    <3> QED BY <3>1, <3>2
  <2>2. Grows
    BY DEF Grows
  <2> QED BY <2>1, <2>2, ScopedGrows DEF IInv
<1>4. DeletedBefore'
  BY DEF IInv, DeletedBefore
<1>5. AnswersAreOwn'
  BY DEF IInv, AnswersAreOwn, Own, ListForOwner, OwnDocuments
<1> QED BY <1>1, <1>2, <1>3, <1>4, <1>5 DEF IInv

\* Every answer of a read is its client's own, whatever it reads.
LEMMA ReadsPreserve ==
  ASSUME IInv, NEW c \in Client,
         NotFound(c) \/ ReadsProjects(c) \/ ReadsDocuments(c) \/ Search(c) \/ ReadsSessions(c)
  PROVE  IInv'
<1>0. account[c] \in User
  BY WorkspacesAssumption
<1>1. CASE NotFound(c)
  BY <1>1, ReadPreserves DEF NotFound, Rows
<1>2. SUFFICES ASSUME ~NotFound(c)
      PROVE \E A \in SUBSET Own(account[c]) : Tells(c, A) /\ UNCHANGED Rows
  BY <1>1, <1>2, ReadPreserves
<1> USE DEF Answers, Rows
<1>3. CASE ReadsProjects(c)
  <2>1. CASE Answers(c, "list_projects", ListForOwner(account[c]))
    BY <1>3, <2>1 DEF ReadsProjects, Own
  <2>2. CASE Answers(c, "get_project", {request[c].id})
    BY <1>3, <2>2, Checked, HandlerKinds DEF ReadsProjects, Own, ListForOwner
  <2> QED BY <1>3, <2>1, <2>2 DEF ReadsProjects
<1>4. CASE ReadsDocuments(c)
  <2>1. CASE Answers(c, "list_documents", ListDocuments(request[c].id))
    <3>1. account[c] \in owners[request[c].id]
      BY <2>1, Checked, HandlerKinds
    <3>2. ListDocuments(request[c].id) \subseteq Own(account[c])
      BY <1>0, <3>1, OwnProjectsDocument DEF ListDocuments
    <3> QED BY <1>4, <2>1, <3>2 DEF ReadsDocuments
  <2>2. CASE Answers(c, "get_document", {request[c].id})
    <3>1. request[c].id \in Document /\ \E p \in home[request[c].id] : account[c] \in owners[p]
      BY <2>2, Checked, HandlerKinds
    <3>2. request[c].id \in Own(account[c])
      BY <1>0, <3>1, OwnProjectsDocument
    <3> QED BY <1>4, <2>2, <3>2 DEF ReadsDocuments
  <2> QED BY <1>4, <2>1, <2>2 DEF ReadsDocuments
<1>5. CASE Search(c)
  <2>1. PICK found \in SimilaritySearch(request[c].id) : Answers(c, "search", found)
    BY <1>5 DEF Search
  <2>2. account[c] \in owners[request[c].id]
    BY <2>1, Checked, HandlerKinds
  <2>3. \A d \in found : d \in Document /\ request[c].id \in home[d]
    BY <2>1 DEF SimilaritySearch, IInv, TypeOK
  <2>4. found \subseteq Own(account[c])
    BY <1>0, <2>2, <2>3, OwnProjectsDocument
  <2> QED BY <1>5, <2>1, <2>4 DEF Search
<1>6. CASE ReadsSessions(c)
  <2>1. CASE Answers(c, "list_sessions", ListSessions(request[c].id))
    <3>1. account[c] \in owners[request[c].id]
      BY <2>1, Checked, HandlerKinds
    <3>2. ListSessions(request[c].id) \subseteq Own(account[c])
      BY <3>1 DEF IInv, SessionRows, ListSessions, Own
    <3> QED BY <1>6, <2>1, <3>2 DEF ReadsSessions
  <2>2. CASE \/ Answers(c, "get_session", {request[c].id})
             \/ Answers(c, "list_session_messages", {request[c].id})
    <3>1. request[c].id \in Own(account[c])
      BY <2>2, Checked, HandlerKinds DEF Own
    <3> QED BY <1>6, <2>2, <3>1 DEF ReadsSessions
  <2>3. CASE Answers(c, "get_session_report", GetLatestReport(request[c].id))
    <3> DEFINE s == request[c].id
    <3>1. s \in Session /\ account[c] \in submitter[s]
      BY <2>3, Checked, HandlerKinds
    <3>2. \A d \in evidence[s] : d \in Own(account[c])
      <4> SUFFICES ASSUME NEW d \in evidence[s] PROVE d \in Own(account[c])
        OBVIOUS
      <4>1. PICK p \in workplace[s] : p \in home[d]
        BY <3>1 DEF IInv, EvidenceRows
      <4>2. account[c] \in owners[p] /\ d \in Document
        BY <3>1, <4>1 DEF IInv, SessionRows, TypeOK
      <4> QED BY <1>0, <4>1, <4>2, OwnProjectsDocument
    <3>3. GetLatestReport(s) \subseteq Own(account[c])
      BY <3>1, <3>2 DEF GetLatestReport, Own
    <3> QED BY <1>6, <2>3, <3>3 DEF ReadsSessions
  <2> QED BY <1>6, <2>1, <2>2, <2>3 DEF ReadsSessions
<1> QED BY <1>2, <1>3, <1>4, <1>5, <1>6

\* A new project has its creator for owner.
LEMMA CreateProjectPreserves ==
  ASSUME IInv, NEW c \in Client, NEW p \in Project, CreateProject(c, p)
  PROVE  IInv'
<1> USE DEF CreateProject, Answers, documents, sessions
<1>0. account[c] \in User
  BY WorkspacesAssumption
<1>1. Grows
  BY DEF IInv, TypeOK, Grows
<1>2. TypeOK'
  BY <1>0 DEF IInv, TypeOK, Tells
<1>3. DocumentRows' /\ SessionRows' /\ EvidenceRows'
  BY DEF IInv, TypeOK, DocumentRows, SessionRows, EvidenceRows
<1>4. RowsInv'
  BY <1>3 DEF IInv, DeletedBefore, RowsInv
<1>5. {p} \subseteq Own(account[c])'
  BY <1>0 DEF IInv, TypeOK, Own, ListForOwner
<1> QED BY <1>1, <1>2, <1>4, <1>5, WritePreserves

\* A new document belongs to the owner of the project that was checked.
LEMMA AddDocumentPreserves ==
  ASSUME IInv, NEW c \in Client, NEW d \in Document, AddDocument(c, d)
  PROVE  IInv'
<1> USE DEF AddDocument, Answers, sessions
<1> DEFINE p == request[c].id
<1>0. p \in Project /\ account[c] \in owners[p] /\ account[c] \in User
  BY Checked, HandlerKinds, WorkspacesAssumption
<1>1. Grows
  BY DEF IInv, TypeOK, Grows
<1>2. TypeOK'
  BY <1>0 DEF IInv, TypeOK, Tells
<1>3. DocumentRows' /\ SessionRows'
  BY <1>0 DEF IInv, TypeOK, DocumentRows, SessionRows
<1>4. EvidenceRows'
  BY DEF IInv, TypeOK, EvidenceRows
<1>5. RowsInv'
  BY <1>3, <1>4 DEF IInv, DeletedBefore, RowsInv
<1>6. {d} \subseteq Own(account[c])'
  BY <1>0 DEF IInv, TypeOK, Own, OwnDocuments
<1> QED BY <1>1, <1>2, <1>5, <1>6, WritePreserves

\* A deletion adds a document that has a project to the deleted ones.
LEMMA DeleteDocumentPreserves ==
  ASSUME IInv, NEW c \in Client, DeleteDocument(c)
  PROVE  IInv'
<1> USE DEF DeleteDocument, Answers, sessions
<1>0. request[c].id \in Document /\ home[request[c].id] # {}
  BY Checked, HandlerKinds
<1>1. Grows
  BY DEF Grows
<1>2. TypeOK'
  BY <1>0 DEF IInv, TypeOK, Tells
<1>3. DocumentRows' /\ SessionRows' /\ EvidenceRows'
  BY <1>0 DEF IInv, DocumentRows, SessionRows, EvidenceRows
<1>4. RowsInv'
  BY <1>3 DEF IInv, DeletedBefore, RowsInv
<1> QED BY <1>1, <1>2, <1>4, WritePreserves

\* A new session's submitter owns the project it works in.
LEMMA CreateSessionPreserves ==
  ASSUME IInv, NEW c \in Client, NEW s \in Session, CreateSession(c, s)
  PROVE  IInv'
<1> USE DEF CreateSession, Answers, documents
<1> DEFINE p == request[c].id
<1>0. p \in Project /\ account[c] \in owners[p] /\ account[c] \in User
  BY Checked, HandlerKinds, WorkspacesAssumption
<1>1. submitter[s] = {} /\ workplace[s] = {} /\ evidence[s] = {}
  BY DEF IInv, SessionRows, EvidenceRows
<1>2. Grows
  BY <1>1 DEF IInv, TypeOK, Grows
<1>3. TypeOK'
  BY <1>0 DEF IInv, TypeOK, Tells
<1>4. DocumentRows' /\ EvidenceRows'
  BY <1>1 DEF IInv, TypeOK, DocumentRows, EvidenceRows
<1>5. SessionRows'
  <2>1. owners[p] = {account[c]}
    BY <1>0 DEF IInv, SessionRows
  <2>2. UNCHANGED owners
    OBVIOUS
  <2>3. /\ submitter' = [submitter EXCEPT ![s] = {account[c]}]
        /\ workplace' = [workplace EXCEPT ![s] = {p}]
        /\ stage' = [stage EXCEPT ![s] = "queued"]
    OBVIOUS
  <2>4. /\ submitter'[s] = {account[c]} /\ workplace'[s] = {p} /\ stage'[s] = "queued"
        /\ \A r \in Session \ {s} :
             submitter'[r] = submitter[r] /\ workplace'[r] = workplace[r] /\ stage'[r] = stage[r]
    BY <2>3 DEF IInv, TypeOK
  <2>5. SessionRows
    BY DEF IInv
  <2> HIDE DEF CreateSession, p
  <2>6. ASSUME NEW r \in Session, NEW q \in workplace'[r]
        PROVE  submitter'[r] = owners[q] /\ owners[q] # {}
    <3>1. CASE r = s
      BY <2>1, <2>4, <3>1
    <3>2. CASE r # s
      BY <2>4, <2>5, <3>2 DEF SessionRows
    <3> QED BY <3>1, <3>2
  <2>7. ASSUME NEW r \in Session, stage'[r] = "absent"
        PROVE  submitter'[r] = {} /\ workplace'[r] = {}
    <3>1. r # s
      BY <2>4, <2>7
    <3> QED BY <2>4, <2>5, <2>7, <3>1 DEF SessionRows
  <2> QED BY <2>2, <2>5, <2>6, <2>7 DEF SessionRows
<1>6. \A r \in Session : since'[r] \subseteq deleted /\ evidence[r] \cap since'[r] = {}
  BY <1>1 DEF IInv, TypeOK, DeletedBefore
<1>7. RowsInv'
  <2>1. UNCHANGED <<deleted, evidence>>
    OBVIOUS
  <2> QED BY <1>4, <1>5, <1>6, <2>1 DEF RowsInv
<1>8. {s} \subseteq Own(account[c])'
  BY <1>0 DEF IInv, TypeOK, Own
<1> QED BY <1>2, <1>3, <1>7, <1>8, WritePreserves

\* The workers change nothing of what the requests hold, and what a retrieval
\* brings is in the session's own project.
LEMMA WorkersPreserve ==
  ASSUME IInv,
         \/ \E d \in Document : IndexDocument(d)
         \/ \E s \in Session : Retrieve(s) \/ PersistReport(s)
  PROVE  IInv'
<1>1. ASSUME UNCHANGED <<owners, home, deleted, submitter, workplace, since, requests>>,
             TypeOK', SessionRows', EvidenceRows',
             \A s \in Session : evidence'[s] \cap since[s] = {}
      PROVE  IInv'
  <2> USE <1>1 DEF requests
  <2>1. DocumentRows'
    BY DEF IInv, DocumentRows
  <2>2. Grows
    BY DEF Grows
  <2>3. RequestsHold'
    BY <2>2, ScopedGrows DEF IInv, RequestsHold
  <2>4. DeletedBefore'
    BY DEF IInv, DeletedBefore
  <2>5. AnswersAreOwn'
    BY DEF IInv, AnswersAreOwn, Own, ListForOwner, OwnDocuments
  <2> QED BY <2>1, <2>3, <2>4, <2>5 DEF IInv
<1>2. ASSUME NEW d \in Document, IndexDocument(d) PROVE IInv'
  <2> USE <1>2 DEF IndexDocument, sessions, requests
  <2>1. TypeOK'
    BY DEF IInv, TypeOK
  <2>2. SessionRows' /\ EvidenceRows'
    BY DEF IInv, SessionRows, EvidenceRows
  <2> QED BY <1>1, <2>1, <2>2 DEF IInv, DeletedBefore
<1>3. ASSUME NEW s \in Session, Retrieve(s) PROVE IInv'
  <2> USE <1>3 DEF Retrieve, documents, requests
  <2>1. PICK found \in VectorStore(s) : evidence' = [evidence EXCEPT ![s] = @ \cup found]
    OBVIOUS
  <2>2. PICK p \in workplace[s] : found \in SimilaritySearch(p)
    BY <2>1 DEF VectorStore
  <2>3. \A d \in found : d \in Document /\ p \in home[d] /\ d \notin deleted
    BY <2>2 DEF SimilaritySearch, IInv, TypeOK
  <2>4. TypeOK'
    BY <2>1, <2>3 DEF IInv, TypeOK
  <2>5. SessionRows'
    BY DEF IInv, TypeOK, SessionRows
  <2>6. /\ evidence'[s] = evidence[s] \cup found
        /\ \A r \in Session \ {s} : evidence'[r] = evidence[r]
    BY <2>1 DEF IInv, TypeOK
  <2>7. EvidenceRows'
    BY <2>2, <2>3, <2>6 DEF IInv, EvidenceRows
  <2>8. \A r \in Session : evidence'[r] \cap since[r] = {}
    BY <2>3, <2>6 DEF IInv, DeletedBefore
  <2> QED BY <1>1, <2>4, <2>5, <2>7, <2>8
<1>4. ASSUME NEW s \in Session, PersistReport(s) PROVE IInv'
  <2> USE <1>4 DEF PersistReport, documents, requests
  <2>1. TypeOK'
    BY DEF IInv, TypeOK
  <2>2. SessionRows' /\ EvidenceRows'
    BY DEF IInv, TypeOK, SessionRows, EvidenceRows
  <2> QED BY <1>1, <2>1, <2>2 DEF IInv, DeletedBefore
<1> QED BY <1>2, <1>3, <1>4

\* Without rows and requests there is nothing to violate.
LEMMA InitHolds == Init => IInv
BY DEF Init, IInv, TypeOK, DocumentRows, SessionRows, EvidenceRows, RequestsHold, DeletedBefore,
       AnswersAreOwn

\* One step per kind of step.
LEMMA StepPreserves == IInv /\ [Next]_vars => IInv'
<1> SUFFICES ASSUME IInv, [Next]_vars PROVE IInv'
  OBVIOUS
<1>1. ASSUME NEW c \in Client, (\E r \in Requested : Asks(c, r)) \/ Finds(c) \/ NotFound(c)
      PROVE  IInv'
  BY <1>1, AskPreserves, FindPreserves, ReadsPreserve
<1>2. ASSUME NEW c \in Client, ServesProjects(c) PROVE IInv'
  BY <1>2, CreateProjectPreserves, ReadsPreserve DEF ServesProjects
<1>3. ASSUME NEW c \in Client, ServesDocuments(c) PROVE IInv'
  BY <1>3, AddDocumentPreserves, DeleteDocumentPreserves, ReadsPreserve DEF ServesDocuments
<1>4. ASSUME NEW c \in Client, ServesSessions(c) PROVE IInv'
  BY <1>4, CreateSessionPreserves, ReadsPreserve DEF ServesSessions
<1>5. CASE UNCHANGED vars
  <2> USE <1>5 DEF vars, documents, sessions, requests
  <2>1. TypeOK' /\ DocumentRows' /\ SessionRows' /\ EvidenceRows'
    BY DEF IInv, TypeOK, DocumentRows, SessionRows, EvidenceRows
  <2>2. RequestsHold' /\ DeletedBefore' /\ AnswersAreOwn'
    BY DEF IInv, RequestsHold, Scoped, DeletedBefore, AnswersAreOwn, Own, ListForOwner,
           OwnDocuments
  <2> QED BY <2>1, <2>2 DEF IInv
<1> QED BY <1>1, <1>2, <1>3, <1>4, <1>5, WorkersPreserve DEF Next

\* The invariant the two theorems rest on.
THEOREM Invariance == Spec => []IInv
BY InitHolds, StepPreserves, PTL DEF Spec

-----------------------------------------------------------------------------
(* The theorems.                                                           *)

\* No answer tells a client of a project, document or session that is not its
\* user's, nor does a report, through what the worker retrieved for it.
THEOREM AnswersStayOwn == Spec => []AnswersAreOwn
<1>1. IInv => AnswersAreOwn
  BY DEF IInv
<1> QED BY <1>1, Invariance, PTL

\* What the answer to a request that passed its check holds of documents was not
\* deleted when the request was made.
LEMMA AnswersAfterDeletion ==
  ASSUME IInv, NEW c \in Client, phase[c] = "found", phase'[c] = "none",
         request[c].handler # "get_session_report",
         ServesProjects(c) \/ ServesDocuments(c) \/ ServesSessions(c)
  PROVE  answer'[c] \cap before[c] = {}
<1>1. before[c] \subseteq deleted /\ before[c] \subseteq Document
  BY DEF IInv, TypeOK, DeletedBefore
<1>2. SUFFICES \E A : Tells(c, A) /\ A \cap before[c] = {}
  BY DEF Tells, IInv, TypeOK
<1> USE DEF Answers
<1>3. CASE ServesProjects(c)
  <2>1. PICK A \in SUBSET Project : Tells(c, A)
    BY <1>3, Checked, HandlerKinds DEF ServesProjects, CreateProject, ReadsProjects, ListForOwner
  <2> QED BY <1>1, <2>1, WorkspacesAssumption
<1>4. CASE ServesSessions(c)
  <2>1. PICK A \in SUBSET Session : Tells(c, A)
    BY <1>4, Checked, HandlerKinds DEF ServesSessions, CreateSession, ReadsSessions, ListSessions
  <2> QED BY <1>1, <2>1, WorkspacesAssumption
<1>5. CASE ServesDocuments(c)
  <2>1. ASSUME NEW d \in Document, AddDocument(c, d)
        PROVE  Tells(c, {d}) /\ {d} \cap before[c] = {}
    BY <1>1, <2>1 DEF AddDocument, IInv, DocumentRows
  <2>2. CASE ReadsDocuments(c)
    BY <1>1, <2>2, Checked, HandlerKinds DEF ReadsDocuments, ListDocuments
  <2>3. CASE Search(c)
    BY <1>1, <2>3 DEF Search, SimilaritySearch
  <2>4. CASE DeleteDocument(c)
    BY <2>4 DEF DeleteDocument
  <2> QED BY <1>5, <2>1, <2>2, <2>3, <2>4 DEF ServesDocuments
<1> QED BY <1>3, <1>4, <1>5

\* After a deletion was committed no request made later is told of the document,
\* and no session created later draws on it (soft_delete, similarity_search).
THEOREM DeletionIsLasting == Spec => DeletedStaysAway
<1> DEFINE Told(c) ==
      phase[c] = "found" /\ phase'[c] = "none" /\ request[c].handler # "get_session_report"
        => answer'[c] \cap before[c] = {}
<1>1. IInv /\ IInv' /\ [Next]_vars =>
        [/\ \A c \in Client : Told(c)
         /\ \A s \in Session : evidence'[s] \cap since'[s] = {}]_vars
  <2> SUFFICES ASSUME IInv, IInv', Next, NEW c \in Client,
                      phase[c] = "found", phase'[c] = "none",
                      request[c].handler # "get_session_report"
               PROVE  answer'[c] \cap before[c] = {}
    BY DEF IInv, DeletedBefore
  <2>1. ServesProjects(c) \/ ServesDocuments(c) \/ ServesSessions(c)
    <3>1. CASE \E e \in Client :
                 (\E r \in Requested : Asks(e, r)) \/ Finds(e) \/ NotFound(e)
      BY <3>1 DEF Asks, Finds, NotFound, Tells, IInv, TypeOK
    <3>2. CASE \E d \in Document : IndexDocument(d)
      BY <3>2 DEF IndexDocument, requests
    <3>3. CASE \E s \in Session : Retrieve(s) \/ PersistReport(s)
      BY <3>3 DEF Retrieve, PersistReport, requests
    <3>4. ASSUME NEW e \in Client, ServesProjects(e) \/ ServesDocuments(e) \/ ServesSessions(e)
          PROVE  e = c
      <4>1. \E A : Tells(e, A)
        BY <3>4 DEF ServesProjects, ServesDocuments, ServesSessions, CreateProject, ReadsProjects,
             AddDocument, ReadsDocuments, Search, DeleteDocument, CreateSession, ReadsSessions,
             Answers
      <4> QED BY <4>1 DEF Tells, IInv, TypeOK
    <3> QED BY <3>1, <3>2, <3>3, <3>4 DEF Next
  <2> QED BY <2>1, AnswersAfterDeletion
<1> QED BY <1>1, Invariance, PTL DEF Spec, DeletedStaysAway
=============================================================================
