---------------------------- MODULE ResearchGraph ----------------------------
(***************************************************************************)
(* One run of the research pipeline: the LangGraph state machine that      *)
(* ai/graph/build.py compiles from the ten agents of ai/agents/, and the   *)
(* copy of its state that the worker accumulates from the update stream.   *)
(*                                                                         *)
(* ResearchState is a TypedDict with total=False, so a state is a function *)
(* whose domain is the set of keys written so far, and Get is dict.get.    *)
(* session_id, project_id, query and the LLM usage keys never influence a  *)
(* step and are left out.  A text produced by the LLM is represented by    *)
(* what its prompt held: a summary by the evidence it compresses, a draft  *)
(* by the sources, the summary and the feedback it was written from.       *)
(***************************************************************************)
EXTENDS Integers, Sequences, SequencesExt

CONSTANTS
  Finding,            \* search-tool hits
  Chunk,              \* knowledge-base chunks
  MaxFindings,        \* most hits one research pass aggregates over its tools
  MaxChunks,          \* top_k of the similarity search
  ScoreReplies,       \* scores the LLM may answer, in tenths; negative: no number
  MaxRevisionLoops,   \* Settings.max_revision_loops
  StartCounts,        \* revision_count of the session row when the run starts
  RecursionLimit      \* LangGraph's limit on the steps of one run

ASSUME BoundsAssumption ==
  /\ MaxFindings \in Nat
  /\ MaxChunks \in Nat
  /\ ScoreReplies \subseteq Int
  /\ MaxRevisionLoops \in Nat
  /\ StartCounts \subseteq Nat
  /\ RecursionLimit \in Nat

VARIABLES
  next,       \* the node LangGraph runs next, or how the run ended
  channels,   \* the state as LangGraph's reducers hold it
  merged,     \* final_state of _stream_graph, built from the update stream
  steps,      \* nodes run so far
  start,      \* revision_count the run started from
  judged      \* history: what the two gates looked at last

vars == <<next, channels, merged, steps, start, judged>>

Agents == {"planner", "research", "retriever", "summarizer", "fact_checker",
           "writer", "reviewer", "citation", "evaluation", "memory"}

\* How a run ends: at END, by an exception of a node, by GraphRecursionError.
Endings == {"END", "raised", "out_of_steps"}

-----------------------------------------------------------------------------
(* The state dictionary and its two reducers.                              *)

Get(state, key, default) == IF key \in DOMAIN state THEN state[key] ELSE default

\* Applies one node's partial update: the keys of appended are concatenated,
\* every other key the node returned is overwritten.
Merge(appended, state, update) ==
  [key \in DOMAIN state \cup DOMAIN update |->
     IF key \notin DOMAIN update THEN state[key]
     ELSE IF key \in appended THEN Get(state, key, <<>>) \o update[key]
     ELSE update[key]]

\* The Annotated[list, operator.add] keys of ResearchState.
AnnotatedFields == {"research_findings", "retrieved_context", "messages", "errors"}

\* Mutant: the list as it was before retrieved_context became a list.
StaleAccumulatingFields == {"messages", "errors", "research_findings"}

\* The worker's own list of the keys to append.
AccumulatingFields == {"messages", "errors", "research_findings", "retrieved_context"}

Findings(state) == Get(state, "research_findings", <<>>)
Context(state)  == Get(state, "retrieved_context", <<>>)
Count(state)    == Get(state, "revision_count", 0)

Evidence(findings, chunks) == [findings |-> findings, chunks |-> chunks]

\* The empty summary the summarizer returns without calling the LLM.
EmptySummary == Evidence(<<>>, <<>>)

\* Identity of a draft: drafts of one run are numbered in the order written.
DraftNumber(state) ==
  IF "draft_report" \in DOMAIN state THEN state["draft_report"].number ELSE 0

-----------------------------------------------------------------------------
(* The routing predicates of the two conditional edges.                    *)

\* Mutant: one loop too many.
LateCapRoute(state) ==
  IF /\ Get(state, "fact_check_verdict", "missing") = "unverified"
     /\ Count(state) <= MaxRevisionLoops
  THEN "research" ELSE "writer"

RouteAfterFactCheck(state) ==
  IF /\ Get(state, "fact_check_verdict", "missing") = "unverified"
     /\ Count(state) < MaxRevisionLoops
  THEN "research" ELSE "writer"

\* Mutant: one loop too few.
EarlyCapRoute(state) ==
  IF /\ ~Get(state, "review_approved", TRUE)
     /\ Count(state) + 1 < MaxRevisionLoops
  THEN "writer" ELSE "citation"

RouteAfterReview(state) ==
  IF /\ ~Get(state, "review_approved", TRUE)
     /\ Count(state) < MaxRevisionLoops
  THEN "writer" ELSE "citation"

-----------------------------------------------------------------------------

InitialState(count) == [revision_count |-> count]

\* LangGraph's list channels exist, empty, before any node writes them; the
\* worker's dictionary holds only the keys of initial_state.
Init ==
  /\ start \in StartCounts
  /\ next = "planner"
  /\ channels = Merge({}, InitialState(start), [f \in AnnotatedFields |-> <<>>])
  /\ merged = InitialState(start)
  /\ steps = 0
  /\ judged = [evidence |-> EmptySummary, draft |-> 0]

\* One step of LangGraph's loop: the node's update goes through the reducers,
\* and the same update, yielded by astream, through the worker's _merge_state.
Runs(node, update) ==
  /\ next = node
  /\ steps < RecursionLimit
  /\ channels' = Merge(AnnotatedFields, channels, update)
  /\ merged' = Merge(AccumulatingFields, merged, update)
  /\ steps' = steps + 1
  /\ UNCHANGED start

\* A reply of the LLM: the providers return message.content or "".
LLMTexts == {"text", ""}

PlannerUpdate(text) ==
  [plan |-> text, current_node |-> "planner", messages |-> <<"planner">>]

Planner ==
  /\ \E text \in LLMTexts : Runs("planner", PlannerUpdate(text))
  /\ next' = "research"
  /\ UNCHANGED judged

\* Every tool's hits are concatenated; a tool that errors contributes none.
ResearchUpdate(found) ==
  [research_findings |-> found, current_node |-> "research",
   messages |-> <<"research">>]

Research ==
  /\ \E found \in BoundedSeq(Finding, MaxFindings) :
       Runs("research", ResearchUpdate(found))
  /\ next' = "retriever"
  /\ UNCHANGED judged

RetrieverUpdate(hits) ==
  [retrieved_context |-> hits, current_node |-> "retriever",
   messages |-> <<"retriever">>]

Retriever ==
  /\ \E hits \in BoundedSeq(Chunk, MaxChunks) :
       Runs("retriever", RetrieverUpdate(hits))
  /\ next' = "summarizer"
  /\ UNCHANGED judged

\* Mutant: the summary of the first pass is kept when a loop comes back.
CachedSummaryUpdate ==
  [summary |-> Get(channels, "summary", Evidence(Findings(channels), Context(channels))),
   current_node |-> "summarizer", messages |-> <<"summarizer">>]

SummarizerUpdate ==
  [summary |-> Evidence(Findings(channels), Context(channels)),
   current_node |-> "summarizer", messages |-> <<"summarizer">>]

Summarizer ==
  /\ Runs("summarizer", SummarizerUpdate)
  /\ next' = "fact_checker"
  /\ UNCHANGED judged

VerifiedUpdate ==
  [fact_check_verdict |-> "verified", fact_check_notes |-> "text",
   current_node |-> "fact_checker", messages |-> <<"fact_checker">>]

\* Mutant: the gate rejects without counting, as it did before the counter.
UncountedUpdate(notes) ==
  [fact_check_verdict |-> "unverified", fact_check_notes |-> notes,
   current_node |-> "fact_checker", messages |-> <<"fact_checker">>]

UnverifiedUpdate(notes) ==
  [fact_check_verdict |-> "unverified", fact_check_notes |-> notes,
   revision_count |-> Count(channels) + 1,
   current_node |-> "fact_checker", messages |-> <<"fact_checker">>]

SeenByFactChecker ==
  [evidence |-> Get(channels, "summary", EmptySummary), draft |-> judged.draft]

\* Mutant: only the early return forgets to count.
UncountedNoFindings ==
  /\ Findings(channels) = <<>>
  /\ Runs("fact_checker", UncountedUpdate("no research findings gathered yet"))
  /\ next' = RouteAfterFactCheck(channels')
  /\ UNCHANGED judged

\* No findings: unverified without asking the LLM.
NoFindingsToCheck ==
  /\ Findings(channels) = <<>>
  /\ Runs("fact_checker", UnverifiedUpdate("no research findings gathered yet"))
  /\ next' = RouteAfterFactCheck(channels')
  /\ UNCHANGED judged

FactsVerified ==
  /\ Findings(channels) # <<>>
  /\ Runs("fact_checker", VerifiedUpdate)
  /\ next' = RouteAfterFactCheck(channels')
  /\ judged' = SeenByFactChecker

FactsUnverified ==
  /\ Findings(channels) # <<>>
  /\ Runs("fact_checker", UnverifiedUpdate("text"))
  /\ next' = RouteAfterFactCheck(channels')
  /\ judged' = SeenByFactChecker

FactChecker == NoFindingsToCheck \/ FactsVerified \/ FactsUnverified

\* An empty reply is stored as the draft like any other.
WriterUpdate(text) ==
  [draft_report |-> [number    |-> DraftNumber(channels) + 1,
                     text      |-> text,
                     sources   |-> Findings(channels),
                     summary   |-> Get(channels, "summary", EmptySummary),
                     addresses |-> Get(channels, "review_feedback", 0)],
   current_node |-> "writer", messages |-> <<"writer">>]

\* Mutant: a rewritten draft goes out without a second review.
WriterSkippingReview ==
  /\ \E text \in LLMTexts : Runs("writer", WriterUpdate(text))
  /\ next' = IF judged.draft > 0 THEN "citation" ELSE "reviewer"
  /\ UNCHANGED judged

Writer ==
  /\ \E text \in LLMTexts : Runs("writer", WriterUpdate(text))
  /\ next' = "reviewer"
  /\ UNCHANGED judged

\* Feedback is named by the draft it criticises; 0 is the empty text, which an
\* approval stores and a blank reply of the LLM amounts to.
ApprovalUpdate ==
  [review_approved |-> TRUE, review_feedback |-> 0,
   current_node |-> "reviewer", messages |-> <<"reviewer">>]

\* Mutant: the reviewer's rejection does not count.
UncountedRevisionUpdate(feedback) ==
  [review_approved |-> FALSE, review_feedback |-> feedback,
   current_node |-> "reviewer", messages |-> <<"reviewer">>]

RevisionUpdate(feedback) ==
  [review_approved |-> FALSE, review_feedback |-> feedback,
   revision_count |-> Count(channels) + 1,
   current_node |-> "reviewer", messages |-> <<"reviewer">>]

SeenByReviewer == [evidence |-> judged.evidence, draft |-> DraftNumber(channels)]

Approves ==
  /\ Runs("reviewer", ApprovalUpdate)
  /\ next' = RouteAfterReview(channels')
  /\ judged' = SeenByReviewer

RequestsRevision ==
  /\ \E feedback \in {0, DraftNumber(channels)} :
       Runs("reviewer", RevisionUpdate(feedback))
  /\ next' = RouteAfterReview(channels')
  /\ judged' = SeenByReviewer

Reviewer == Approves \/ RequestsRevision

\* Mutant: a source found twice is cited once, which shifts later markers.
DistinctCitationUpdate ==
  [citations |-> SetToSeq(ToSet(Findings(channels))),
   current_node |-> "citation", messages |-> <<"citation">>]

CitationUpdate ==
  [citations |-> Findings(channels),
   current_node |-> "citation", messages |-> <<"citation">>]

Citation ==
  /\ Runs("citation", CitationUpdate)
  /\ next' = "evaluation"
  /\ UNCHANGED judged

\* Mutant: a score on a scale of 100 gets through.
ParseScoreUnclamped(reply) == IF reply < 0 THEN 0 ELSE reply

\* _parse_score clamps the first number of the reply to 0.0 .. 1.0.
ParseScore(reply) == IF reply < 0 THEN 0 ELSE IF reply > 10 THEN 10 ELSE reply

EvaluationUpdate(reply) ==
  [quality_score |-> ParseScore(reply),
   current_node |-> "evaluation", messages |-> <<"evaluation">>]

Evaluation ==
  /\ \E reply \in ScoreReplies : Runs("evaluation", EvaluationUpdate(reply))
  /\ next' = "memory"
  /\ UNCHANGED judged

MemoryUpdate == [current_node |-> "memory", messages |-> <<"memory">>]

Memory ==
  /\ Runs("memory", MemoryUpdate)
  /\ next' = "END"
  /\ UNCHANGED judged

\* A node raises when it calls out: to the LLM, to a tool (an error outside
\* the tool's own error class), to the embedding provider or to the database.
CallsOut ==
  \/ next \in {"planner", "research", "retriever", "writer", "reviewer", "evaluation"}
  \/ next = "summarizer" /\ (Findings(channels) # <<>> \/ Context(channels) # <<>>)
  \/ next = "fact_checker" /\ Findings(channels) # <<>>

NodeRaises ==
  /\ steps < RecursionLimit
  /\ CallsOut
  /\ next' = "raised"
  /\ UNCHANGED <<channels, merged, steps, start, judged>>

\* GraphRecursionError: the limit is used up and a node is still due.  The
\* framework's own entry and exit steps are folded into RecursionLimit.
RecursionLimitReached ==
  /\ next \in Agents
  /\ steps = RecursionLimit
  /\ next' = "out_of_steps"
  /\ UNCHANGED <<channels, merged, steps, start, judged>>

Terminated ==
  /\ next \in Endings
  /\ UNCHANGED vars

RunNode ==
  \/ Planner \/ Research \/ Retriever \/ Summarizer \/ FactChecker
  \/ Writer \/ Reviewer \/ Citation \/ Evaluation \/ Memory

Next == RunNode \/ NodeRaises \/ RecursionLimitReached \/ Terminated

\* The worker keeps pulling the stream until it ends or raises.
Fairness == WF_vars(RunNode \/ NodeRaises \/ RecursionLimitReached)

Spec == Init /\ [][Next]_vars /\ Fairness
-----------------------------------------------------------------------------
(* The report _persist_report stores from the final state.                 *)

Report(state) ==
  [version   |-> Count(state) + 1,
   status    |-> IF Get(state, "review_approved", FALSE) THEN "approved" ELSE "draft",
   content   |-> Get(state, "draft_report", [number |-> 0, text |-> ""]),
   citations |-> Get(state, "citations", <<>>)]

-----------------------------------------------------------------------------
(* Properties.                                                             *)

Max2(a, b) == IF a >= b THEN a ELSE b

AfterFactCheck == {"writer", "reviewer", "citation", "evaluation", "memory", "END"}
AfterReview    == {"citation", "evaluation", "memory", "END"}

StateTypeOK(state) ==
  /\ "revision_count" \in DOMAIN state /\ state["revision_count"] \in Nat
  /\ Findings(state) \in Seq(Finding)
  /\ Context(state) \in Seq(Chunk)
  /\ Get(state, "messages", <<>>) \in Seq(Agents)
  /\ Get(state, "errors", <<>>) = <<>>
  /\ Get(state, "fact_check_verdict", "verified") \in {"verified", "unverified"}
  /\ Get(state, "review_approved", TRUE) \in BOOLEAN
  /\ Get(state, "review_feedback", 0) \in Nat
  /\ Get(state, "quality_score", 0) \in 0..10
  /\ Get(state, "current_node", "planner") \in Agents
  /\ DraftNumber(state) \in Nat

TypeOK ==
  /\ next \in Agents \cup Endings
  /\ StateTypeOK(channels)
  /\ StateTypeOK(merged)
  /\ steps \in 0..RecursionLimit
  /\ start \in StartCounts

\* The dictionary the worker persists as graph_state reads, key by key, as the
\* state LangGraph itself holds, however often a loop re-entered a node: the
\* promise of the comment above _ACCUMULATING_FIELDS.
MergedStateMatchesGraph ==
  /\ DOMAIN merged \subseteq DOMAIN channels
  /\ DOMAIN channels \subseteq DOMAIN merged \cup AnnotatedFields
  /\ \A key \in DOMAIN channels : Get(merged, key, <<>>) = channels[key]

\* Citation i names the source the draft's marker [i] was numbered from, though
\* the findings are read again, one to five nodes later, by another agent.
CitationsMatchDraft ==
  "citations" \in DOMAIN channels =>
    channels["citations"] = channels["draft_report"].sources

\* Every draft was written from a summary of all evidence the run gathered,
\* including what the last fact-check loop added, and if the fact checker asked
\* the LLM at all, it judged that very summary.
DraftRestsOnCheckedEvidence ==
  "draft_report" \in DOMAIN channels =>
    LET draft == channels["draft_report"] IN
      /\ draft.sources = Findings(channels)
      /\ draft.summary = Evidence(Findings(channels), Context(channels))
      /\ Findings(channels) # <<>> => judged.evidence = draft.summary

\* What leaves the review loop is the draft the reviewer judged last, never one
\* rewritten after the verdict; and a rewrite answers the feedback on the draft
\* just before it, never older feedback.
PublishedDraftWasReviewed ==
  /\ next \in AfterReview => judged.draft = DraftNumber(channels)
  /\ "draft_report" \in DOMAIN channels =>
       LET draft == channels["draft_report"] IN
         draft.addresses \in {0, draft.number - 1}

\* A gate's rejection is overruled only when the shared revision budget is
\* used up: writing from unverified facts, or storing a report as a draft.
GatesOverruledOnlyAtCap ==
  /\ next \in AfterFactCheck /\ channels["fact_check_verdict"] = "unverified"
       => Count(channels) >= MaxRevisionLoops
  /\ next = "END" /\ Report(merged).status = "draft"
       => Report(merged).version > MaxRevisionLoops

\* Both gates bump one counter, each at most once past the cap, so the count a
\* run stores is at most two above the last count that still allowed a loop.
RevisionCountBound ==
  Count(channels) <= Max2(MaxRevisionLoops - 1, start) + 2

\* Loops left when the count is c: the rejection that reaches the cap does not
\* loop back, so a cap of M allows M - 1 loops.
LoopsLeft(c) == Max2(MaxRevisionLoops - 1 - c, 0)

\* A run executes at most ten nodes and four more per loop left at its start;
\* before both gates bumped the counter a run could loop for ever.
RunLengthBound == steps <= 10 + 4 * LoopsLeft(start)

\* The cap asks for more nodes than LangGraph runs.
OverBudget == \E count \in {start} : RecursionLimit < 10 + 4 * LoopsLeft(count)

\* A run in which no node raises reaches the end of the graph: neither gate can
\* keep it looping, and LangGraph's recursion limit is not what stops it unless
\* the cap asks for more nodes than the limit allows.
EventuallyReported ==
  <>(next \in {"END", "raised"} \/ OverBudget)

\* LangGraph's recursion limit ends a run only if the cap allows more loops than
\* the limit has room for, never because a loop fails to count itself.
OutOfStepsOnlyOverBudget ==
  next = "out_of_steps" => RecursionLimit < 10 + 4 * LoopsLeft(start)

-----------------------------------------------------------------------------
(* The inductive invariant of the proofs.                                  *)

BeforeDraft == {"planner", "research", "retriever", "summarizer", "fact_checker"}
Has(key) == key \in DOMAIN channels

\* Which keys exist at which node, and what they agree with.
EvidenceInv ==
  /\ next \in {"fact_checker"} \cup AfterFactCheck =>
       /\ Has("summary")
       /\ channels["summary"] = Evidence(Findings(channels), Context(channels))
  /\ next \in AfterFactCheck =>
       /\ Has("fact_check_verdict")
       /\ Findings(channels) # <<>> => judged.evidence = channels["summary"]
       /\ channels["fact_check_verdict"] = "unverified"
            => Count(channels) >= MaxRevisionLoops

DraftInv ==
  /\ next \in BeforeDraft => ~Has("draft_report")
  /\ next \in AfterFactCheck \ {"writer"} => Has("draft_report")
  /\ next \in BeforeDraft \cup {"writer"} =>
       Get(channels, "review_feedback", 0) \in {0, DraftNumber(channels)}
  /\ next \in AfterReview =>
       /\ Has("review_approved")
       /\ channels["review_approved"] \/ Count(channels) >= MaxRevisionLoops
       /\ judged.draft = DraftNumber(channels)

CitationInv ==
  next \in BeforeDraft \cup {"writer", "reviewer", "citation"} => ~Has("citations")

\* Nodes from node to END when no gate rejects.
Distance ==
  [planner |-> 10, research |-> 9, retriever |-> 8, summarizer |-> 7,
   fact_checker |-> 6, writer |-> 5, reviewer |-> 4, citation |-> 3,
   evaluation |-> 2, memory |-> 1, END |-> 0, raised |-> 0, out_of_steps |-> 0]

\* Nodes the loops ahead of node may add: a fact-check loop runs four nodes, a
\* review loop two.
LoopNodes(node, c) ==
  IF node \in BeforeDraft THEN 4 * LoopsLeft(c)
  ELSE IF node \in {"writer", "reviewer"} THEN 2 * LoopsLeft(c) ELSE 0

BudgetInv ==
  /\ steps + Distance[next] + LoopNodes(next, Count(channels)) <= 10 + 4 * LoopsLeft(start)
  /\ next \in BeforeDraft => Count(channels) <= Max2(MaxRevisionLoops - 1, start)
  /\ next \in {"writer", "reviewer"} =>
       Count(channels) <= Max2(MaxRevisionLoops - 1, start) + 1

IInv ==
  /\ TypeOK
  /\ MergedStateMatchesGraph
  /\ EvidenceInv /\ DraftRestsOnCheckedEvidence
  /\ DraftInv /\ PublishedDraftWasReviewed
  /\ CitationInv /\ CitationsMatchDraft
  /\ BudgetInv /\ RevisionCountBound /\ OutOfStepsOnlyOverBudget
=============================================================================
