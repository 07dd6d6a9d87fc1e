-------------------------- MODULE DocumentLifecycle --------------------------
(***************************************************************************)
(* What the browser and the retriever may rely on about documents of a     *)
(* knowledge base: the status moves forward once, the chunks become        *)
(* searchable in the same instant as the status indexed and never come     *)
(* without it, and the outcome that analytics records is the row's.        *)
(***************************************************************************)
CONSTANT Document

VARIABLES
  status,      \* what GET /documents/{id} answers
  searchable,  \* documents with chunk rows
  deleted,     \* documents hidden from the list and the search
  recorded     \* outcomes among its analytics events

vars == <<status, searchable, deleted, recorded>>

Init ==
  /\ status = [d \in Document |-> "absent"]
  /\ searchable = {}
  /\ deleted = {}
  /\ recorded = [d \in Document |-> {}]

Moves(d, from, to) ==
  /\ status[d] = from
  /\ status' = [status EXCEPT ![d] = to]

Create(d) == Moves(d, "absent", "pending") /\ UNCHANGED <<searchable, deleted, recorded>>

Start(d) == Moves(d, "pending", "processing") /\ UNCHANGED <<searchable, deleted, recorded>>

\* Text handed over is indexed at once; a file or page after its processing.
Index(d) ==
  /\ Moves(d, "processing", "indexed") \/ Moves(d, "absent", "indexed")
  /\ searchable' = searchable \cup {d}
  /\ recorded' = [recorded EXCEPT ![d] = {"indexed"}]
  /\ UNCHANGED deleted

\* A failure the loader did not report leaves no analytics event.
Fail(d) ==
  /\ Moves(d, "processing", "failed") \/ Moves(d, "absent", "failed")
  /\ recorded' = [recorded EXCEPT ![d] = {"failed"}] \/ UNCHANGED recorded
  /\ UNCHANGED <<searchable, deleted>>

Delete(d) ==
  /\ status[d] # "absent"
  /\ d \notin deleted
  /\ deleted' = deleted \cup {d}
  /\ UNCHANGED <<status, searchable, recorded>>

Next == \E d \in Document : Create(d) \/ Start(d) \/ Index(d) \/ Fail(d) \/ Delete(d)

Spec == Init /\ [][Next]_vars
=============================================================================
