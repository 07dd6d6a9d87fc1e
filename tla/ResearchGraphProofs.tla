------------------------- MODULE ResearchGraphProofs -------------------------
(***************************************************************************)
(* Proofs about ResearchGraph, for every set of findings and chunks, every *)
(* revision cap, every starting count and every recursion limit: the type  *)
(* invariant, that the worker's merged state reads as LangGraph's own, that*)
(* drafts rest on checked evidence and citations match them, and the       *)
(* bounds on the revision count and on the length of a run.  Then about    *)
(* Evaluation, for every benchmark item and every text: what the metrics   *)
(* say of a finished run, and what the comparison of the agents is worth.  *)
(***************************************************************************)
EXTENDS Evaluation, FiniteSetTheorems, TLAPS

-----------------------------------------------------------------------------
(* What one step of the graph does to the state dictionary.                *)

\* The step leaves key as it was, present or absent.
Same(key) ==
  /\ Has(key)' <=> Has(key)
  /\ Has(key) => channels'[key] = channels[key]

\* A merge has the keys of both.
LEMMA MergeDomain ==
  ASSUME NEW appended, NEW state, NEW update
  PROVE  DOMAIN Merge(appended, state, update) = DOMAIN state \cup DOMAIN update
  BY DEF Merge

\* A key the node did not return keeps its value.
LEMMA MergeKept ==
  ASSUME NEW appended, NEW state, NEW update, NEW key, key \notin DOMAIN update
  PROVE  /\ key \in DOMAIN Merge(appended, state, update) <=> key \in DOMAIN state
         /\ key \in DOMAIN state => Merge(appended, state, update)[key] = state[key]
  BY MergeDomain DEF Merge, Get

\* A key outside the appended ones takes the value the node returned.
LEMMA MergeOverwritten ==
  ASSUME NEW appended, NEW state, NEW update, NEW key,
         key \in DOMAIN update, key \notin appended
  PROVE  /\ key \in DOMAIN Merge(appended, state, update)
         /\ Merge(appended, state, update)[key] = update[key]
  BY MergeDomain DEF Merge, Get

\* A step writes the keys of its update and no other.
LEMMA RunsEffect ==
  ASSUME NEW node, NEW update, Runs(node, update)
  PROVE  /\ next = node /\ steps < RecursionLimit
         /\ steps' = steps + 1 /\ start' = start
         /\ \A key : key \notin DOMAIN update => Same(key)
         /\ \A key \in DOMAIN update \ AnnotatedFields :
              Has(key)' /\ channels'[key] = update[key]
  <1>1. channels' = Merge(AnnotatedFields, channels, update)
    BY DEF Runs
  <1>2. ASSUME NEW key, key \notin DOMAIN update PROVE Same(key)
    BY <1>1, <1>2, MergeKept DEF Same, Has
  <1>3. ASSUME NEW key \in DOMAIN update \ AnnotatedFields
        PROVE  Has(key)' /\ channels'[key] = update[key]
    BY <1>1, <1>3, MergeOverwritten DEF Has
  <1>4. QED BY <1>2, <1>3 DEF Runs

\* The readers of the state depend on one key each.
LEMMA SameReads ==
  /\ Same("research_findings") => Findings(channels') = Findings(channels)
  /\ Same("retrieved_context") => Context(channels') = Context(channels)
  /\ Same("revision_count") => Count(channels') = Count(channels)
  /\ Same("draft_report") => DraftNumber(channels') = DraftNumber(channels)
  /\ \A key, default :
       Same(key) => Get(channels', key, default) = Get(channels, key, default)
  /\ Has("revision_count")' => Count(channels') = channels'["revision_count"]
  BY DEF Same, Has, Findings, Context, Count, DraftNumber, Get

-----------------------------------------------------------------------------
(* One lemma per agent: the keys it writes, and that no other key the      *)
(* invariant reads changes.                                                *)

Tracked == {"research_findings", "retrieved_context", "summary", "fact_check_verdict",
            "revision_count", "draft_report", "review_feedback", "review_approved",
            "citations"}

\* A step of node that writes none of the tracked keys but the given ones.
Touches(node, keys) ==
  /\ next = node /\ steps < RecursionLimit
  /\ steps' = steps + 1 /\ start' = start
  /\ \A key \in Tracked \ keys : Same(key)

\* The planner writes nothing the invariant reads.
LEMMA PlannerEffect ==
  ASSUME Planner
  PROVE  /\ Touches("planner", {})
         /\ next' = "research"
         /\ judged' = judged
  <1>1. PICK text \in LLMTexts : Runs("planner", PlannerUpdate(text))
    BY DEF Planner
  <1>2. DOMAIN PlannerUpdate(text) =
          {"plan", "current_node", "messages"}
    BY DEF PlannerUpdate
  <1>3. Touches("planner", {})
    BY <1>1, <1>2, RunsEffect DEF Touches, Tracked
  <1> QED
    BY <1>3 DEF Planner

\* Research touches the findings only.
LEMMA ResearchEffect ==
  ASSUME Research
  PROVE  /\ Touches("research", {"research_findings"})
         /\ next' = "retriever"
         /\ judged' = judged
  <1>1. PICK found \in BoundedSeq(Finding, MaxFindings) :
          Runs("research", ResearchUpdate(found))
    BY DEF Research
  <1>2. DOMAIN ResearchUpdate(found) =
          {"research_findings", "current_node", "messages"}
    BY DEF ResearchUpdate
  <1>3. Touches("research", {"research_findings"})
    BY <1>1, <1>2, RunsEffect DEF Touches, Tracked
  <1> QED
    BY <1>3 DEF Research

\* The retriever touches the retrieved context only.
LEMMA RetrieverEffect ==
  ASSUME Retriever
  PROVE  /\ Touches("retriever", {"retrieved_context"})
         /\ next' = "summarizer"
         /\ judged' = judged
  <1>1. PICK hits \in BoundedSeq(Chunk, MaxChunks) :
          Runs("retriever", RetrieverUpdate(hits))
    BY DEF Retriever
  <1>2. DOMAIN RetrieverUpdate(hits) =
          {"retrieved_context", "current_node", "messages"}
    BY DEF RetrieverUpdate
  <1>3. Touches("retriever", {"retrieved_context"})
    BY <1>1, <1>2, RunsEffect DEF Touches, Tracked
  <1> QED
    BY <1>3 DEF Retriever

\* The summarizer leaves a summary of all the evidence at hand.
LEMMA SummarizerEffect ==
  ASSUME Summarizer
  PROVE  /\ Touches("summarizer", {"summary"})
         /\ next' = "fact_checker"
         /\ judged' = judged
         /\ Has("summary")'
         /\ channels'["summary"] = Evidence(Findings(channels), Context(channels))
  <1>1. Runs("summarizer", SummarizerUpdate)
    BY DEF Summarizer
  <1>2. DOMAIN SummarizerUpdate =
          {"summary", "current_node", "messages"}
    BY DEF SummarizerUpdate
  <1>3. Touches("summarizer", {"summary"})
    BY <1>1, <1>2, RunsEffect DEF Touches, Tracked
  <1>4. \A key \in DOMAIN SummarizerUpdate \ AnnotatedFields :
          Has(key)' /\ channels'[key] = SummarizerUpdate[key]
    BY <1>1, RunsEffect
  <1> QED
    BY <1>1, <1>2, <1>3, <1>4 DEF Summarizer, SummarizerUpdate, AnnotatedFields

\* Without findings the checker rejects and bumps the count.
LEMMA NoFindingsToCheckEffect ==
  ASSUME NoFindingsToCheck
  PROVE  /\ Touches("fact_checker", {"fact_check_verdict", "revision_count"})
         /\ next' = RouteAfterFactCheck(channels')
         /\ judged' = judged
         /\ Has("fact_check_verdict")' /\ channels'["fact_check_verdict"] = "unverified"
         /\ Has("revision_count")' /\ channels'["revision_count"] = Count(channels) + 1
  <1>1. Runs("fact_checker", UnverifiedUpdate("no research findings gathered yet"))
    BY DEF NoFindingsToCheck
  <1>2. DOMAIN UnverifiedUpdate("no research findings gathered yet") =
          {"fact_check_verdict", "fact_check_notes", "revision_count",
           "current_node", "messages"}
    BY DEF UnverifiedUpdate
  <1>3. Touches("fact_checker", {"fact_check_verdict", "revision_count"})
    BY <1>1, <1>2, RunsEffect DEF Touches, Tracked
  <1>4. \A key \in DOMAIN UnverifiedUpdate("no research findings gathered yet") \ AnnotatedFields :
          Has(key)' /\ channels'[key] = UnverifiedUpdate("no research findings gathered yet")[key]
    BY <1>1, RunsEffect
  <1> QED
    BY <1>1, <1>2, <1>3, <1>4 DEF NoFindingsToCheck, UnverifiedUpdate, AnnotatedFields

\* A verified verdict leaves the count alone.
LEMMA FactsVerifiedEffect ==
  ASSUME FactsVerified
  PROVE  /\ Touches("fact_checker", {"fact_check_verdict"})
         /\ next' = RouteAfterFactCheck(channels')
         /\ judged' = SeenByFactChecker
         /\ Has("fact_check_verdict")' /\ channels'["fact_check_verdict"] = "verified"
  <1>1. Runs("fact_checker", VerifiedUpdate)
    BY DEF FactsVerified
  <1>2. DOMAIN VerifiedUpdate =
          {"fact_check_verdict", "fact_check_notes", "current_node", "messages"}
    BY DEF VerifiedUpdate
  <1>3. Touches("fact_checker", {"fact_check_verdict"})
    BY <1>1, <1>2, RunsEffect DEF SeenByFactChecker, Touches, Tracked
  <1>4. \A key \in DOMAIN VerifiedUpdate \ AnnotatedFields :
          Has(key)' /\ channels'[key] = VerifiedUpdate[key]
    BY <1>1, RunsEffect
  <1> QED
    BY <1>1, <1>2, <1>3, <1>4 DEF FactsVerified, VerifiedUpdate, AnnotatedFields

\* An unverified verdict bumps the count.
LEMMA FactsUnverifiedEffect ==
  ASSUME FactsUnverified
  PROVE  /\ Touches("fact_checker", {"fact_check_verdict", "revision_count"})
         /\ next' = RouteAfterFactCheck(channels')
         /\ judged' = SeenByFactChecker
         /\ Has("fact_check_verdict")' /\ channels'["fact_check_verdict"] = "unverified"
         /\ Has("revision_count")' /\ channels'["revision_count"] = Count(channels) + 1
  <1>1. Runs("fact_checker", UnverifiedUpdate("text"))
    BY DEF FactsUnverified
  <1>2. DOMAIN UnverifiedUpdate("text") =
          {"fact_check_verdict", "fact_check_notes", "revision_count",
           "current_node", "messages"}
    BY DEF UnverifiedUpdate
  <1>3. Touches("fact_checker", {"fact_check_verdict", "revision_count"})
    BY <1>1, <1>2, RunsEffect DEF SeenByFactChecker, Touches, Tracked
  <1>4. \A key \in DOMAIN UnverifiedUpdate("text") \ AnnotatedFields :
          Has(key)' /\ channels'[key] = UnverifiedUpdate("text")[key]
    BY <1>1, RunsEffect
  <1> QED
    BY <1>1, <1>2, <1>3, <1>4 DEF FactsUnverified, UnverifiedUpdate, AnnotatedFields

\* The writer numbers its sources from the findings of that moment.
LEMMA WriterEffect ==
  ASSUME Writer
  PROVE  /\ Touches("writer", {"draft_report"})
         /\ next' = "reviewer"
         /\ judged' = judged
         /\ Has("draft_report")'
         /\ \E text \in LLMTexts :
              channels'["draft_report"] =
                [number    |-> DraftNumber(channels) + 1,
                 text      |-> text,
                 sources   |-> Findings(channels),
                 summary   |-> Get(channels, "summary", EmptySummary),
                 addresses |-> Get(channels, "review_feedback", 0)]
  <1>1. PICK text \in LLMTexts : Runs("writer", WriterUpdate(text))
    BY DEF Writer
  <1>2. DOMAIN WriterUpdate(text) =
          {"draft_report", "current_node", "messages"}
    BY DEF WriterUpdate
  <1>3. Touches("writer", {"draft_report"})
    BY <1>1, <1>2, RunsEffect DEF Touches, Tracked
  <1>4. \A key \in DOMAIN WriterUpdate(text) \ AnnotatedFields :
          Has(key)' /\ channels'[key] = WriterUpdate(text)[key]
    BY <1>1, RunsEffect
  <1> QED
    BY <1>1, <1>2, <1>3, <1>4 DEF Writer, WriterUpdate, AnnotatedFields

\* An approval clears the feedback.
LEMMA ApprovesEffect ==
  ASSUME Approves
  PROVE  /\ Touches("reviewer", {"review_approved", "review_feedback"})
         /\ next' = RouteAfterReview(channels')
         /\ judged' = SeenByReviewer
         /\ Has("review_approved")' /\ channels'["review_approved"] = TRUE
         /\ Has("review_feedback")' /\ channels'["review_feedback"] = 0
  <1>1. Runs("reviewer", ApprovalUpdate)
    BY DEF Approves
  <1>2. DOMAIN ApprovalUpdate =
          {"review_approved", "review_feedback", "current_node", "messages"}
    BY DEF ApprovalUpdate
  <1>3. Touches("reviewer", {"review_approved", "review_feedback"})
    BY <1>1, <1>2, RunsEffect DEF Touches, Tracked
  <1>4. \A key \in DOMAIN ApprovalUpdate \ AnnotatedFields :
          Has(key)' /\ channels'[key] = ApprovalUpdate[key]
    BY <1>1, RunsEffect
  <1> QED
    BY <1>1, <1>2, <1>3, <1>4 DEF Approves, ApprovalUpdate, AnnotatedFields

\* A rejection stores feedback on the current draft and bumps the count.
LEMMA RequestsRevisionEffect ==
  ASSUME RequestsRevision
  PROVE  /\ Touches("reviewer", {"review_approved", "review_feedback", "revision_count"})
         /\ next' = RouteAfterReview(channels')
         /\ judged' = SeenByReviewer
         /\ Has("review_approved")' /\ channels'["review_approved"] = FALSE
         /\ Has("review_feedback")'
         /\ channels'["review_feedback"] \in {0, DraftNumber(channels)}
         /\ Has("revision_count")' /\ channels'["revision_count"] = Count(channels) + 1
  <1>1. PICK feedback \in {0, DraftNumber(channels)} :
          Runs("reviewer", RevisionUpdate(feedback))
    BY DEF RequestsRevision
  <1>2. DOMAIN RevisionUpdate(feedback) =
          {"review_approved", "review_feedback", "revision_count",
           "current_node", "messages"}
    BY DEF RevisionUpdate
  <1>3. Touches("reviewer", {"review_approved", "review_feedback", "revision_count"})
    BY <1>1, <1>2, RunsEffect DEF Touches, Tracked
  <1>4. \A key \in DOMAIN RevisionUpdate(feedback) \ AnnotatedFields :
          Has(key)' /\ channels'[key] = RevisionUpdate(feedback)[key]
    BY <1>1, RunsEffect
  <1> QED
    BY <1>1, <1>2, <1>3, <1>4 DEF RequestsRevision, RevisionUpdate, AnnotatedFields

\* The citations are the findings of that moment.
LEMMA CitationEffect ==
  ASSUME Citation
  PROVE  /\ Touches("citation", {"citations"})
         /\ next' = "evaluation"
         /\ judged' = judged
         /\ Has("citations")' /\ channels'["citations"] = Findings(channels)
  <1>1. Runs("citation", CitationUpdate)
    BY DEF Citation
  <1>2. DOMAIN CitationUpdate =
          {"citations", "current_node", "messages"}
    BY DEF CitationUpdate
  <1>3. Touches("citation", {"citations"})
    BY <1>1, <1>2, RunsEffect DEF Touches, Tracked
  <1>4. \A key \in DOMAIN CitationUpdate \ AnnotatedFields :
          Has(key)' /\ channels'[key] = CitationUpdate[key]
    BY <1>1, RunsEffect
  <1> QED
    BY <1>1, <1>2, <1>3, <1>4 DEF Citation, CitationUpdate, AnnotatedFields

\* The evaluation writes nothing the invariant reads.
LEMMA EvaluationEffect ==
  ASSUME Evaluation
  PROVE  /\ Touches("evaluation", {})
         /\ next' = "memory"
         /\ judged' = judged
  <1>1. PICK reply \in ScoreReplies :
          Runs("evaluation", EvaluationUpdate(reply))
    BY DEF Evaluation
  <1>2. DOMAIN EvaluationUpdate(reply) =
          {"quality_score", "current_node", "messages"}
    BY DEF EvaluationUpdate
  <1>3. Touches("evaluation", {})
    BY <1>1, <1>2, RunsEffect DEF Touches, Tracked
  <1> QED
    BY <1>3 DEF Evaluation

\* The memory agent is a stub: it writes nothing the invariant reads.
LEMMA MemoryEffect ==
  ASSUME Memory
  PROVE  /\ Touches("memory", {})
         /\ next' = "END"
         /\ judged' = judged
  <1>1. Runs("memory", MemoryUpdate)
    BY DEF Memory
  <1>2. DOMAIN MemoryUpdate =
          {"current_node", "messages"}
    BY DEF MemoryUpdate
  <1>3. Touches("memory", {})
    BY <1>1, <1>2, RunsEffect DEF Touches, Tracked
  <1> QED
    BY <1>3 DEF Memory

-----------------------------------------------------------------------------
(* Types, and the two copies of the state.                                 *)

UpdateTypeOK(u) ==
  /\ "revision_count" \in DOMAIN u => u["revision_count"] \in Nat
  /\ "research_findings" \in DOMAIN u => u["research_findings"] \in Seq(Finding)
  /\ "retrieved_context" \in DOMAIN u => u["retrieved_context"] \in Seq(Chunk)
  /\ "messages" \in DOMAIN u => u["messages"] \in Seq(Agents)
  /\ "errors" \notin DOMAIN u
  /\ "fact_check_verdict" \in DOMAIN u => u["fact_check_verdict"] \in {"verified", "unverified"}
  /\ "review_approved" \in DOMAIN u => u["review_approved"] \in BOOLEAN
  /\ "review_feedback" \in DOMAIN u => u["review_feedback"] \in Nat
  /\ "quality_score" \in DOMAIN u => u["quality_score"] \in 0..10
  /\ "current_node" \in DOMAIN u => u["current_node"] \in Agents
  /\ "draft_report" \in DOMAIN u => u["draft_report"].number \in Nat

\* The two lists of accumulating keys, kept in two files, are the same set.
LEMMA SameFields == AccumulatingFields = AnnotatedFields
  BY DEF AccumulatingFields, AnnotatedFields

\* What a merge leaves under one key, by the kind of the key.
LEMMA TypedAppend ==
  ASSUME NEW s, NEW u, NEW key \in AnnotatedFields, NEW S,
         Get(s, key, <<>>) \in Seq(S), key \in DOMAIN u => u[key] \in Seq(S)
  PROVE  Get(Merge(AnnotatedFields, s, u), key, <<>>) \in Seq(S)
  BY DEF Merge, Get

\* The same for a key that is overwritten.
LEMMA TypedOverwrite ==
  ASSUME NEW s, NEW u, NEW key, key \notin AnnotatedFields, NEW S, NEW default,
         Get(s, key, default) \in S, key \in DOMAIN u => u[key] \in S
  PROVE  Get(Merge(AnnotatedFields, s, u), key, default) \in S
  BY DEF Merge, Get

\* A well-typed update keeps a state well typed.
LEMMA MergeTyped ==
  ASSUME NEW s, NEW u, StateTypeOK(s), UpdateTypeOK(u)
  PROVE  StateTypeOK(Merge(AnnotatedFields, s, u))
  <1> DEFINE t == Merge(AnnotatedFields, s, u)
  <1>1. "revision_count" \in DOMAIN t /\ t["revision_count"] \in Nat
    <2>1. "revision_count" \in DOMAIN s /\ s["revision_count"] \in Nat
      BY DEF StateTypeOK
    <2>2. "revision_count" \in DOMAIN u => u["revision_count"] \in Nat
      BY DEF UpdateTypeOK
    <2>3. QED BY <2>1, <2>2 DEF Merge, AnnotatedFields
  <1>2. Findings(t) \in Seq(Finding)
    <2>1. Get(s, "research_findings", <<>>) \in Seq(Finding)
      BY DEF StateTypeOK, Findings
    <2>2. "research_findings" \in DOMAIN u => u["research_findings"] \in Seq(Finding)
      BY DEF UpdateTypeOK
    <2>3. QED BY <2>1, <2>2, TypedAppend DEF AnnotatedFields, Findings
  <1>3. Context(t) \in Seq(Chunk)
    <2>1. Get(s, "retrieved_context", <<>>) \in Seq(Chunk)
      BY DEF StateTypeOK, Context
    <2>2. "retrieved_context" \in DOMAIN u => u["retrieved_context"] \in Seq(Chunk)
      BY DEF UpdateTypeOK
    <2>3. QED BY <2>1, <2>2, TypedAppend DEF AnnotatedFields, Context
  <1>4. Get(t, "messages", <<>>) \in Seq(Agents)
    <2>1. Get(s, "messages", <<>>) \in Seq(Agents)
      BY DEF StateTypeOK
    <2>2. "messages" \in DOMAIN u => u["messages"] \in Seq(Agents)
      BY DEF UpdateTypeOK
    <2>3. QED BY <2>1, <2>2, TypedAppend DEF AnnotatedFields
  <1>5. Get(t, "errors", <<>>) = <<>>
    <2>1. Get(s, "errors", <<>>) = <<>>
      BY DEF StateTypeOK
    <2>2. "errors" \notin DOMAIN u BY DEF UpdateTypeOK
    <2>3. QED BY <2>1, <2>2 DEF Merge, Get
  <1>6. Get(t, "fact_check_verdict", "verified") \in {"verified", "unverified"}
    <2>1. Get(s, "fact_check_verdict", "verified") \in {"verified", "unverified"}
      BY DEF StateTypeOK
    <2>2. "fact_check_verdict" \in DOMAIN u => u["fact_check_verdict"] \in {"verified", "unverified"}
      BY DEF UpdateTypeOK
    <2>3. "fact_check_verdict" \notin AnnotatedFields BY DEF AnnotatedFields
    <2>4. QED BY <2>1, <2>2, <2>3, TypedOverwrite
  <1>7. Get(t, "review_approved", TRUE) \in BOOLEAN
    <2>1. Get(s, "review_approved", TRUE) \in BOOLEAN
      BY DEF StateTypeOK
    <2>2. "review_approved" \in DOMAIN u => u["review_approved"] \in BOOLEAN
      BY DEF UpdateTypeOK
    <2>3. "review_approved" \notin AnnotatedFields BY DEF AnnotatedFields
    <2>4. QED BY <2>1, <2>2, <2>3, TypedOverwrite
  <1>8. Get(t, "review_feedback", 0) \in Nat
    <2>1. Get(s, "review_feedback", 0) \in Nat
      BY DEF StateTypeOK
    <2>2. "review_feedback" \in DOMAIN u => u["review_feedback"] \in Nat
      BY DEF UpdateTypeOK
    <2>3. "review_feedback" \notin AnnotatedFields BY DEF AnnotatedFields
    <2>4. QED BY <2>1, <2>2, <2>3, TypedOverwrite
  <1>9. Get(t, "quality_score", 0) \in 0..10
    <2>1. Get(s, "quality_score", 0) \in 0..10
      BY DEF StateTypeOK
    <2>2. "quality_score" \in DOMAIN u => u["quality_score"] \in 0..10
      BY DEF UpdateTypeOK
    <2>3. "quality_score" \notin AnnotatedFields BY DEF AnnotatedFields
    <2>4. QED BY <2>1, <2>2, <2>3, TypedOverwrite
  <1>10. Get(t, "current_node", "planner") \in Agents
    <2>1. Get(s, "current_node", "planner") \in Agents
      BY DEF StateTypeOK
    <2>2. "current_node" \in DOMAIN u => u["current_node"] \in Agents
      BY DEF UpdateTypeOK
    <2>3. "current_node" \notin AnnotatedFields BY DEF AnnotatedFields
    <2>4. QED BY <2>1, <2>2, <2>3, TypedOverwrite
  <1>11. DraftNumber(t) \in Nat
    <2>1. DraftNumber(s) \in Nat BY DEF StateTypeOK
    <2>2. "draft_report" \in DOMAIN u => u["draft_report"].number \in Nat
      BY DEF UpdateTypeOK
    <2>3. CASE "draft_report" \in DOMAIN u
      BY <2>2, <2>3, MergeOverwritten DEF DraftNumber, AnnotatedFields
    <2>4. CASE "draft_report" \notin DOMAIN u
      BY <2>1, <2>4, MergeKept DEF DraftNumber
    <2>5. QED BY <2>3, <2>4
  <1> QED
    BY <1>1, <1>2, <1>3, <1>4, <1>5, <1>6, <1>7, <1>8, <1>9, <1>10, <1>11
    DEF StateTypeOK

\* Two states that read alike still do after the same update.
LEMMA MergeAgrees ==
  ASSUME NEW appended, NEW c, NEW m, NEW u, DOMAIN m \subseteq DOMAIN c,
         DOMAIN c \subseteq DOMAIN m \cup appended,
         \A key \in DOMAIN c : Get(m, key, <<>>) = c[key]
  PROVE  /\ DOMAIN Merge(appended, m, u) \subseteq DOMAIN Merge(appended, c, u)
         /\ DOMAIN Merge(appended, c, u) \subseteq DOMAIN Merge(appended, m, u)
              \cup appended
         /\ \A key \in DOMAIN Merge(appended, c, u) :
              Get(Merge(appended, m, u), key, <<>>) = Merge(appended, c, u)[key]
  <1>1. /\ DOMAIN Merge(appended, m, u) \subseteq DOMAIN Merge(appended, c, u)
        /\ DOMAIN Merge(appended, c, u) \subseteq DOMAIN Merge(appended, m, u)
              \cup appended
    BY DEF Merge
  <1>2. ASSUME NEW key \in DOMAIN Merge(appended, c, u)
        PROVE  Get(Merge(appended, m, u), key, <<>>) = Merge(appended, c, u)[key]
    <2>1. CASE key \notin DOMAIN u
      BY <2>1 DEF Merge, Get
    <2>2. CASE key \in DOMAIN u /\ key \notin appended
      BY <2>2 DEF Merge, Get
    <2>3. CASE key \in DOMAIN u /\ key \in appended
      <3>1. Get(m, key, <<>>) = Get(c, key, <<>>)
        BY DEF Get
      <3>2. QED BY <2>3, <3>1 DEF Merge, Get
    <2>4. QED BY <2>1, <2>2, <2>3
  <1>3. QED BY <1>1, <1>2

\* A bounded sequence is a sequence.
LEMMA BoundedSeqTyped ==
  ASSUME NEW S, NEW n \in Nat, NEW q \in BoundedSeq(S, n)
  PROVE  q \in Seq(S)
  BY DEF BoundedSeq, SeqOf

\* The counters of a well-typed state are numbers.
LEMMA CountTyped ==
  TypeOK => Count(channels) \in Nat /\ DraftNumber(channels) \in Nat
  BY DEF TypeOK, Count, Get, StateTypeOK

\* A step with a well-typed update keeps both copies well typed and equal.
LEMMA RunsTyped ==
  ASSUME TypeOK, MergedStateMatchesGraph, NEW node, NEW update,
         Runs(node, update), UpdateTypeOK(update), next' \in Agents \cup Endings
  PROVE  TypeOK' /\ MergedStateMatchesGraph'
  <1>1. /\ channels' = Merge(AnnotatedFields, channels, update)
        /\ merged' = Merge(AnnotatedFields, merged, update)
    BY SameFields DEF Runs
  <1>2. StateTypeOK(channels') /\ StateTypeOK(merged')
    BY <1>1, MergeTyped DEF TypeOK
  <1>3. steps' \in 0..RecursionLimit /\ start' \in StartCounts
    BY BoundsAssumption DEF Runs, TypeOK
  <1>4. /\ DOMAIN merged' \subseteq DOMAIN channels'
        /\ DOMAIN channels' \subseteq DOMAIN merged' \cup AnnotatedFields
        /\ \A key \in DOMAIN channels' : Get(merged', key, <<>>) = channels'[key]
    BY <1>1, MergeAgrees DEF MergedStateMatchesGraph
  <1>5. QED BY <1>2, <1>3, <1>4 DEF TypeOK, MergedStateMatchesGraph

\* Every action returns a well-typed update.
LEMMA TypeStep ==
  ASSUME TypeOK, MergedStateMatchesGraph, [Next]_vars
  PROVE  TypeOK' /\ MergedStateMatchesGraph'
  <1>1. CASE Planner
    <2>1. PICK text \in LLMTexts : Runs("planner", PlannerUpdate(text))
      BY <1>1 DEF Planner
    <2>2. UpdateTypeOK(PlannerUpdate(text))
      BY DEF UpdateTypeOK, Agents, PlannerUpdate
    <2>3. next' \in Agents \cup Endings
      BY <1>1 DEF Planner, Agents, Endings
    <2> QED
      BY <2>1, <2>2, <2>3, RunsTyped
  <1>2. CASE Research
    <2>1. PICK found \in BoundedSeq(Finding, MaxFindings) :
            Runs("research", ResearchUpdate(found))
      BY <1>2 DEF Research
    <2>2. UpdateTypeOK(ResearchUpdate(found))
      BY BoundedSeqTyped, BoundsAssumption DEF UpdateTypeOK, Agents, ResearchUpdate
    <2>3. next' \in Agents \cup Endings
      BY <1>2 DEF Research, Agents, Endings
    <2> QED
      BY <2>1, <2>2, <2>3, RunsTyped
  <1>3. CASE Retriever
    <2>1. PICK hits \in BoundedSeq(Chunk, MaxChunks) :
            Runs("retriever", RetrieverUpdate(hits))
      BY <1>3 DEF Retriever
    <2>2. UpdateTypeOK(RetrieverUpdate(hits))
      BY BoundedSeqTyped, BoundsAssumption DEF UpdateTypeOK, Agents, RetrieverUpdate
    <2>3. next' \in Agents \cup Endings
      BY <1>3 DEF Retriever, Agents, Endings
    <2> QED
      BY <2>1, <2>2, <2>3, RunsTyped
  <1>4. CASE Summarizer
    <2>1. Runs("summarizer", SummarizerUpdate)
      BY <1>4 DEF Summarizer
    <2>2. UpdateTypeOK(SummarizerUpdate)
      BY DEF UpdateTypeOK, Agents, SummarizerUpdate
    <2>3. next' \in Agents \cup Endings
      BY <1>4 DEF Summarizer, Agents, Endings
    <2> QED
      BY <2>1, <2>2, <2>3, RunsTyped
  <1>5. CASE NoFindingsToCheck
    <2>1. Runs("fact_checker", UnverifiedUpdate("no research findings gathered yet"))
      BY <1>5 DEF NoFindingsToCheck
    <2>2. UpdateTypeOK(UnverifiedUpdate("no research findings gathered yet"))
      BY CountTyped DEF UpdateTypeOK, Agents, UnverifiedUpdate
    <2>3. next' \in Agents \cup Endings
      BY <1>5 DEF NoFindingsToCheck, Agents, Endings, RouteAfterFactCheck
    <2> QED
      BY <2>1, <2>2, <2>3, RunsTyped
  <1>6. CASE FactsVerified
    <2>1. Runs("fact_checker", VerifiedUpdate)
      BY <1>6 DEF FactsVerified
    <2>2. UpdateTypeOK(VerifiedUpdate)
      BY DEF UpdateTypeOK, Agents, VerifiedUpdate
    <2>3. next' \in Agents \cup Endings
      BY <1>6 DEF FactsVerified, Agents, Endings, RouteAfterFactCheck
    <2> QED
      BY <2>1, <2>2, <2>3, RunsTyped
  <1>7. CASE FactsUnverified
    <2>1. Runs("fact_checker", UnverifiedUpdate("text"))
      BY <1>7 DEF FactsUnverified
    <2>2. UpdateTypeOK(UnverifiedUpdate("text"))
      BY CountTyped DEF UpdateTypeOK, Agents, UnverifiedUpdate
    <2>3. next' \in Agents \cup Endings
      BY <1>7 DEF FactsUnverified, Agents, Endings, RouteAfterFactCheck
    <2> QED
      BY <2>1, <2>2, <2>3, RunsTyped
  <1>8. CASE Writer
    <2>1. PICK text \in LLMTexts : Runs("writer", WriterUpdate(text))
      BY <1>8 DEF Writer
    <2>2. UpdateTypeOK(WriterUpdate(text))
      BY CountTyped DEF UpdateTypeOK, Agents, WriterUpdate
    <2>3. next' \in Agents \cup Endings
      BY <1>8 DEF Writer, Agents, Endings
    <2> QED
      BY <2>1, <2>2, <2>3, RunsTyped
  <1>9. CASE Approves
    <2>1. Runs("reviewer", ApprovalUpdate)
      BY <1>9 DEF Approves
    <2>2. UpdateTypeOK(ApprovalUpdate)
      BY DEF UpdateTypeOK, Agents, ApprovalUpdate
    <2>3. next' \in Agents \cup Endings
      BY <1>9 DEF Approves, Agents, Endings, RouteAfterReview
    <2> QED
      BY <2>1, <2>2, <2>3, RunsTyped
  <1>10. CASE RequestsRevision
    <2>1. PICK feedback \in {0, DraftNumber(channels)} :
            Runs("reviewer", RevisionUpdate(feedback))
      BY <1>10 DEF RequestsRevision
    <2>2. UpdateTypeOK(RevisionUpdate(feedback))
      BY CountTyped DEF UpdateTypeOK, Agents, RevisionUpdate
    <2>3. next' \in Agents \cup Endings
      BY <1>10 DEF RequestsRevision, Agents, Endings, RouteAfterReview
    <2> QED
      BY <2>1, <2>2, <2>3, RunsTyped
  <1>11. CASE Citation
    <2>1. Runs("citation", CitationUpdate)
      BY <1>11 DEF Citation
    <2>2. UpdateTypeOK(CitationUpdate)
      BY DEF UpdateTypeOK, Agents, CitationUpdate
    <2>3. next' \in Agents \cup Endings
      BY <1>11 DEF Citation, Agents, Endings
    <2> QED
      BY <2>1, <2>2, <2>3, RunsTyped
  <1>12. CASE Evaluation
    <2>1. PICK reply \in ScoreReplies :
            Runs("evaluation", EvaluationUpdate(reply))
      BY <1>12 DEF Evaluation
    <2>2. UpdateTypeOK(EvaluationUpdate(reply))
      BY BoundsAssumption DEF UpdateTypeOK, Agents, EvaluationUpdate, ParseScore
    <2>3. next' \in Agents \cup Endings
      BY <1>12 DEF Evaluation, Agents, Endings
    <2> QED
      BY <2>1, <2>2, <2>3, RunsTyped
  <1>13. CASE Memory
    <2>1. Runs("memory", MemoryUpdate)
      BY <1>13 DEF Memory
    <2>2. UpdateTypeOK(MemoryUpdate)
      BY DEF UpdateTypeOK, Agents, MemoryUpdate
    <2>3. next' \in Agents \cup Endings
      BY <1>13 DEF Memory, Agents, Endings
    <2> QED
      BY <2>1, <2>2, <2>3, RunsTyped
  <1>14. CASE NodeRaises \/ RecursionLimitReached
    BY <1>14
    DEF NodeRaises, RecursionLimitReached, TypeOK, MergedStateMatchesGraph, Endings,
        StateTypeOK
  <1>15. CASE Terminated \/ UNCHANGED vars
    BY <1>15 DEF Terminated, vars, TypeOK, MergedStateMatchesGraph, StateTypeOK
  <1>16. QED
    BY <1>1, <1>2, <1>3, <1>4, <1>5, <1>6, <1>7, <1>8, <1>9, <1>10, <1>11, <1>12, <1>13,
       <1>14, <1>15 DEF Next, RunNode, FactChecker, Reviewer
-----------------------------------------------------------------------------
(* The other parts of the invariant, one lemma each.                       *)

\* What the gates' routing decides, by the count they leave.
LEMMA FactRoute ==
  /\ RouteAfterFactCheck(channels') \in {"research", "writer"}
  /\ Has("fact_check_verdict")' =>
       (RouteAfterFactCheck(channels') = "research"
          <=> /\ channels'["fact_check_verdict"] = "unverified"
              /\ Count(channels') < MaxRevisionLoops)
  BY DEF RouteAfterFactCheck, Get, Has

\* The same for the reviewer.
LEMMA ReviewRoute ==
  /\ RouteAfterReview(channels') \in {"writer", "citation"}
  /\ Has("review_approved")' =>
       (RouteAfterReview(channels') = "writer"
          <=> ~channels'["review_approved"] /\ Count(channels') < MaxRevisionLoops)
  BY DEF RouteAfterReview, Get, Has

\* The summary covers the evidence, the checker saw that summary, and only the
\* cap lets an unverified verdict through.
LEMMA EvidenceStep ==
  ASSUME TypeOK, EvidenceInv, DraftRestsOnCheckedEvidence, DraftInv, [Next]_vars
  PROVE  EvidenceInv' /\ DraftRestsOnCheckedEvidence'
  <1>1. CASE Planner
    BY <1>1, PlannerEffect, SameReads
    DEF Touches, Tracked, EvidenceInv, DraftInv, DraftRestsOnCheckedEvidence,
        AfterFactCheck, BeforeDraft, Same, Has, Get
  <1>2. CASE Research
    BY <1>2, ResearchEffect, SameReads
    DEF Touches, Tracked, EvidenceInv, DraftInv, DraftRestsOnCheckedEvidence,
        AfterFactCheck, BeforeDraft, Same, Has, Get
  <1>3. CASE Retriever
    BY <1>3, RetrieverEffect, SameReads
    DEF Touches, Tracked, EvidenceInv, DraftInv, DraftRestsOnCheckedEvidence,
        AfterFactCheck, BeforeDraft, Same, Has, Get
  <1>4. CASE Summarizer
    BY <1>4, SummarizerEffect, SameReads
    DEF Touches, Tracked, EvidenceInv, DraftInv, DraftRestsOnCheckedEvidence,
        AfterFactCheck, BeforeDraft, Same, Has, Get
  <1>5. CASE NoFindingsToCheck
    <2>1. /\ Touches("fact_checker", {"fact_check_verdict", "revision_count"})
          /\ next' = RouteAfterFactCheck(channels')
          /\ Has("fact_check_verdict")' /\ channels'["fact_check_verdict"] = "unverified"
          /\ Count(channels') \in Nat
      BY <1>5, NoFindingsToCheckEffect, CountTyped, SameReads
    <2>2. Findings(channels') = <<>> /\ Context(channels') = Context(channels)
          /\ Findings(channels) = <<>>
      BY <1>5, <2>1, SameReads DEF NoFindingsToCheck, Touches, Tracked
    <2>3. next' = "research" \/ (next' = "writer" /\ Count(channels') >= MaxRevisionLoops)
      BY <2>1, FactRoute, BoundsAssumption
    <2>4. /\ Has("summary")'

         /\ channels'["summary"] = Evidence(Findings(channels'), Context(channels'))
      BY <2>1, <2>2 DEF EvidenceInv, Touches, Tracked, Same
    <2>5. ~Has("draft_report")'
      BY <2>1 DEF DraftInv, BeforeDraft, Touches, Tracked, Same
    <2>6. EvidenceInv'
      BY <2>1, <2>2, <2>3, <2>4 DEF EvidenceInv, AfterFactCheck, Has
    <2>7. DraftRestsOnCheckedEvidence'
      BY <2>5 DEF DraftRestsOnCheckedEvidence, Has
    <2>8. QED BY <2>6, <2>7
  <1>6. CASE FactsVerified
    BY <1>6, FactsVerifiedEffect, SameReads, FactRoute, CountTyped, BoundsAssumption
    DEF SeenByFactChecker, Touches, Tracked, EvidenceInv, DraftInv,
        DraftRestsOnCheckedEvidence, AfterFactCheck, BeforeDraft, Same, Has, Get
  <1>7. CASE FactsUnverified
    BY <1>7, FactsUnverifiedEffect, SameReads, FactRoute, CountTyped, BoundsAssumption
    DEF SeenByFactChecker, Touches, Tracked, EvidenceInv, DraftInv,
        DraftRestsOnCheckedEvidence, AfterFactCheck, BeforeDraft, Same, Has, Get
  <1>8. CASE Writer
    BY <1>8, WriterEffect, SameReads
    DEF Touches, Tracked, EvidenceInv, DraftInv, DraftRestsOnCheckedEvidence,
        AfterFactCheck, BeforeDraft, Same, Has, Get
  <1>9. CASE Approves
    BY <1>9, ApprovesEffect, SameReads, ReviewRoute, CountTyped, BoundsAssumption
    DEF SeenByReviewer, Touches, Tracked, EvidenceInv, DraftInv,
        DraftRestsOnCheckedEvidence, AfterFactCheck, BeforeDraft, Same, Has, Get
  <1>10. CASE RequestsRevision
    BY <1>10, RequestsRevisionEffect, SameReads, ReviewRoute, CountTyped,
       BoundsAssumption
    DEF SeenByReviewer, Touches, Tracked, EvidenceInv, DraftInv,
        DraftRestsOnCheckedEvidence, AfterFactCheck, BeforeDraft, Same, Has, Get
  <1>11. CASE Citation
    BY <1>11, CitationEffect, SameReads
    DEF Touches, Tracked, EvidenceInv, DraftInv, DraftRestsOnCheckedEvidence,
        AfterFactCheck, BeforeDraft, Same, Has, Get
  <1>12. CASE Evaluation
    BY <1>12, EvaluationEffect, SameReads
    DEF Touches, Tracked, EvidenceInv, DraftInv, DraftRestsOnCheckedEvidence,
        AfterFactCheck, BeforeDraft, Same, Has, Get
  <1>13. CASE Memory
    BY <1>13, MemoryEffect, SameReads
    DEF Touches, Tracked, EvidenceInv, DraftInv, DraftRestsOnCheckedEvidence,
        AfterFactCheck, BeforeDraft, Same, Has, Get
  <1>14. CASE NodeRaises \/ RecursionLimitReached
    BY <1>14
    DEF NodeRaises, RecursionLimitReached, EvidenceInv, DraftRestsOnCheckedEvidence,
        Has, AfterFactCheck
  <1>15. CASE Terminated \/ UNCHANGED vars
    BY <1>15
    DEF Terminated, vars, EvidenceInv, DraftRestsOnCheckedEvidence, Has, AfterFactCheck
  <1>16. QED
    BY <1>1, <1>2, <1>3, <1>4, <1>5, <1>6, <1>7, <1>8, <1>9, <1>10, <1>11, <1>12, <1>13,
       <1>14, <1>15 DEF Next, RunNode, FactChecker, Reviewer

\* A draft exists exactly from the writer on, its feedback is the last one, and
\* what leaves the review is the draft the reviewer judged.
LEMMA DraftStep ==
  ASSUME TypeOK, DraftInv, PublishedDraftWasReviewed, [Next]_vars
  PROVE  DraftInv' /\ PublishedDraftWasReviewed'
  <1>1. CASE Planner
    BY <1>1, PlannerEffect, SameReads, CountTyped
    DEF Touches, Tracked, DraftInv, PublishedDraftWasReviewed, AfterFactCheck,
        AfterReview, BeforeDraft, DraftNumber, Same, Has, Get
  <1>2. CASE Research
    BY <1>2, ResearchEffect, SameReads, CountTyped
    DEF Touches, Tracked, DraftInv, PublishedDraftWasReviewed, AfterFactCheck,
        AfterReview, BeforeDraft, DraftNumber, Same, Has, Get
  <1>3. CASE Retriever
    BY <1>3, RetrieverEffect, SameReads, CountTyped
    DEF Touches, Tracked, DraftInv, PublishedDraftWasReviewed, AfterFactCheck,
        AfterReview, BeforeDraft, DraftNumber, Same, Has, Get
  <1>4. CASE Summarizer
    BY <1>4, SummarizerEffect, SameReads, CountTyped
    DEF Touches, Tracked, DraftInv, PublishedDraftWasReviewed, AfterFactCheck,
        AfterReview, BeforeDraft, DraftNumber, Same, Has, Get
  <1>5. CASE NoFindingsToCheck
    BY <1>5, NoFindingsToCheckEffect, SameReads, FactRoute, CountTyped, BoundsAssumption
    DEF Touches, Tracked, DraftInv, PublishedDraftWasReviewed, AfterFactCheck,
        AfterReview, BeforeDraft, DraftNumber, Same, Has, Get
  <1>6. CASE FactsVerified
    BY <1>6, FactsVerifiedEffect, SameReads, FactRoute, CountTyped, BoundsAssumption
    DEF SeenByFactChecker, Touches, Tracked, DraftInv, PublishedDraftWasReviewed,
        AfterFactCheck, AfterReview, BeforeDraft, DraftNumber, Same, Has, Get
  <1>7. CASE FactsUnverified
    BY <1>7, FactsUnverifiedEffect, SameReads, FactRoute, CountTyped, BoundsAssumption
    DEF SeenByFactChecker, Touches, Tracked, DraftInv, PublishedDraftWasReviewed,
        AfterFactCheck, AfterReview, BeforeDraft, DraftNumber, Same, Has, Get
  <1>8. CASE Writer
    BY <1>8, WriterEffect, SameReads, CountTyped
    DEF Touches, Tracked, DraftInv, PublishedDraftWasReviewed, AfterFactCheck,
        AfterReview, BeforeDraft, DraftNumber, Same, Has, Get
  <1>9. CASE Approves
    BY <1>9, ApprovesEffect, SameReads, ReviewRoute, CountTyped, BoundsAssumption
    DEF SeenByReviewer, Touches, Tracked, DraftInv, PublishedDraftWasReviewed,
        AfterFactCheck, AfterReview, BeforeDraft, Same, Has, Get
  <1>10. CASE RequestsRevision
    BY <1>10, RequestsRevisionEffect, SameReads, ReviewRoute, CountTyped,
       BoundsAssumption
    DEF SeenByReviewer, Touches, Tracked, DraftInv, PublishedDraftWasReviewed,
        AfterFactCheck, AfterReview, BeforeDraft, Same, Has, Get
  <1>11. CASE Citation
    BY <1>11, CitationEffect, SameReads, CountTyped
    DEF Touches, Tracked, DraftInv, PublishedDraftWasReviewed, AfterFactCheck,
        AfterReview, BeforeDraft, DraftNumber, Same, Has, Get
  <1>12. CASE Evaluation
    BY <1>12, EvaluationEffect, SameReads, CountTyped
    DEF Touches, Tracked, DraftInv, PublishedDraftWasReviewed, AfterFactCheck,
        AfterReview, BeforeDraft, DraftNumber, Same, Has, Get
  <1>13. CASE Memory
    BY <1>13, MemoryEffect, SameReads, CountTyped
    DEF Touches, Tracked, DraftInv, PublishedDraftWasReviewed, AfterFactCheck,
        AfterReview, BeforeDraft, DraftNumber, Same, Has, Get
  <1>14. CASE NodeRaises \/ RecursionLimitReached
    BY <1>14
    DEF NodeRaises, RecursionLimitReached, DraftInv, PublishedDraftWasReviewed, Has,
        AfterFactCheck, AfterReview, BeforeDraft
  <1>15. CASE Terminated \/ UNCHANGED vars
    BY <1>15
    DEF Terminated, vars, DraftInv, PublishedDraftWasReviewed, Has, AfterFactCheck,
        AfterReview, BeforeDraft
  <1>16. QED
    BY <1>1, <1>2, <1>3, <1>4, <1>5, <1>6, <1>7, <1>8, <1>9, <1>10, <1>11, <1>12, <1>13,
       <1>14, <1>15 DEF Next, RunNode, FactChecker, Reviewer

\* Citations are written once, after the last draft, from the draft's sources.
LEMMA CitationStep ==
  ASSUME TypeOK, CitationInv, CitationsMatchDraft, DraftInv, DraftRestsOnCheckedEvidence,
         [Next]_vars
  PROVE  CitationInv' /\ CitationsMatchDraft'
  <1>1. CASE Planner
    BY <1>1, PlannerEffect, SameReads
    DEF Touches, Tracked, CitationInv, CitationsMatchDraft, DraftInv,
        DraftRestsOnCheckedEvidence, AfterFactCheck, BeforeDraft, Same, Has
  <1>2. CASE Research
    BY <1>2, ResearchEffect, SameReads
    DEF Touches, Tracked, CitationInv, CitationsMatchDraft, DraftInv,
        DraftRestsOnCheckedEvidence, AfterFactCheck, BeforeDraft, Same, Has
  <1>3. CASE Retriever
    BY <1>3, RetrieverEffect, SameReads
    DEF Touches, Tracked, CitationInv, CitationsMatchDraft, DraftInv,
        DraftRestsOnCheckedEvidence, AfterFactCheck, BeforeDraft, Same, Has
  <1>4. CASE Summarizer
    BY <1>4, SummarizerEffect, SameReads
    DEF Touches, Tracked, CitationInv, CitationsMatchDraft, DraftInv,
        DraftRestsOnCheckedEvidence, AfterFactCheck, BeforeDraft, Same, Has
  <1>5. CASE NoFindingsToCheck
    BY <1>5, NoFindingsToCheckEffect, SameReads, FactRoute
    DEF Touches, Tracked, CitationInv, CitationsMatchDraft, DraftInv,
        DraftRestsOnCheckedEvidence, AfterFactCheck, BeforeDraft, Same, Has
  <1>6. CASE FactsVerified
    BY <1>6, FactsVerifiedEffect, SameReads, FactRoute
    DEF SeenByFactChecker, Touches, Tracked, CitationInv, CitationsMatchDraft, DraftInv,
        DraftRestsOnCheckedEvidence, AfterFactCheck, BeforeDraft, Same, Has
  <1>7. CASE FactsUnverified
    BY <1>7, FactsUnverifiedEffect, SameReads, FactRoute
    DEF SeenByFactChecker, Touches, Tracked, CitationInv, CitationsMatchDraft, DraftInv,
        DraftRestsOnCheckedEvidence, AfterFactCheck, BeforeDraft, Same, Has
  <1>8. CASE Writer
    BY <1>8, WriterEffect, SameReads
    DEF Touches, Tracked, CitationInv, CitationsMatchDraft, DraftInv,
        DraftRestsOnCheckedEvidence, AfterFactCheck, BeforeDraft, Same, Has
  <1>9. CASE Approves
    BY <1>9, ApprovesEffect, SameReads, ReviewRoute
    DEF SeenByReviewer, Touches, Tracked, CitationInv, CitationsMatchDraft, DraftInv,
        DraftRestsOnCheckedEvidence, AfterFactCheck, BeforeDraft, Same, Has
  <1>10. CASE RequestsRevision
    BY <1>10, RequestsRevisionEffect, SameReads, ReviewRoute
    DEF SeenByReviewer, Touches, Tracked, CitationInv, CitationsMatchDraft, DraftInv,
        DraftRestsOnCheckedEvidence, AfterFactCheck, BeforeDraft, Same, Has
  <1>11. CASE Citation
    BY <1>11, CitationEffect, SameReads
    DEF Touches, Tracked, CitationInv, CitationsMatchDraft, DraftInv,
        DraftRestsOnCheckedEvidence, AfterFactCheck, BeforeDraft, Same, Has
  <1>12. CASE Evaluation
    BY <1>12, EvaluationEffect, SameReads
    DEF Touches, Tracked, CitationInv, CitationsMatchDraft, DraftInv,
        DraftRestsOnCheckedEvidence, AfterFactCheck, BeforeDraft, Same, Has
  <1>13. CASE Memory
    BY <1>13, MemoryEffect, SameReads
    DEF Touches, Tracked, CitationInv, CitationsMatchDraft, DraftInv,
        DraftRestsOnCheckedEvidence, AfterFactCheck, BeforeDraft, Same, Has
  <1>14. CASE NodeRaises \/ RecursionLimitReached
    BY <1>14
    DEF NodeRaises, RecursionLimitReached, CitationInv, CitationsMatchDraft, Has,
        BeforeDraft
  <1>15. CASE Terminated \/ UNCHANGED vars
    BY <1>15 DEF Terminated, vars, CitationInv, CitationsMatchDraft, Has, BeforeDraft
  <1>16. QED
    BY <1>1, <1>2, <1>3, <1>4, <1>5, <1>6, <1>7, <1>8, <1>9, <1>10, <1>11, <1>12, <1>13,
       <1>14, <1>15 DEF Next, RunNode, FactChecker, Reviewer

\* Arithmetic of the revision budget.
LEMMA LoopsLeftTyped ==
  ASSUME NEW c \in Nat
  PROVE  /\ LoopsLeft(c) \in Nat
         /\ LoopsLeft(c + 1) <= LoopsLeft(c)
         /\ c + 1 < MaxRevisionLoops => LoopsLeft(c + 1) = LoopsLeft(c) - 1
  BY BoundsAssumption DEF LoopsLeft, Max2

\* The bounds of the budget are numbers, and a count below the cap is within them.
LEMMA CapTyped ==
  ASSUME TypeOK
  PROVE  /\ Max2(MaxRevisionLoops - 1, start) \in Nat
         /\ \A c \in Nat : c < MaxRevisionLoops => c <= Max2(MaxRevisionLoops - 1, start)
         /\ LoopsLeft(start) \in Nat /\ steps \in Nat /\ RecursionLimit \in Nat
  BY BoundsAssumption DEF TypeOK, LoopsLeft, Max2

\* Every step uses up at least one node of the run's budget.
LEMMA BudgetStep ==
  ASSUME TypeOK, BudgetInv, RevisionCountBound, OutOfStepsOnlyOverBudget, [Next]_vars
  PROVE  BudgetInv' /\ RevisionCountBound' /\ OutOfStepsOnlyOverBudget'
  <1>1. CASE Planner
    BY <1>1, PlannerEffect, SameReads, CountTyped, CapTyped, LoopsLeftTyped
    DEF Touches, Tracked, BudgetInv, RevisionCountBound, OutOfStepsOnlyOverBudget,
        LoopNodes, Distance, BeforeDraft
  <1>2. CASE Research
    BY <1>2, ResearchEffect, SameReads, CountTyped, CapTyped, LoopsLeftTyped
    DEF Touches, Tracked, BudgetInv, RevisionCountBound, OutOfStepsOnlyOverBudget,
        LoopNodes, Distance, BeforeDraft
  <1>3. CASE Retriever
    BY <1>3, RetrieverEffect, SameReads, CountTyped, CapTyped, LoopsLeftTyped
    DEF Touches, Tracked, BudgetInv, RevisionCountBound, OutOfStepsOnlyOverBudget,
        LoopNodes, Distance, BeforeDraft
  <1>4. CASE Summarizer
    BY <1>4, SummarizerEffect, SameReads, CountTyped, CapTyped, LoopsLeftTyped
    DEF Touches, Tracked, BudgetInv, RevisionCountBound, OutOfStepsOnlyOverBudget,
        LoopNodes, Distance, BeforeDraft
  <1>5. CASE NoFindingsToCheck
    BY <1>5, NoFindingsToCheckEffect, SameReads, FactRoute, CountTyped, CapTyped,
       LoopsLeftTyped
    DEF Touches, Tracked, BudgetInv, RevisionCountBound, OutOfStepsOnlyOverBudget,
        LoopNodes, Distance, BeforeDraft
  <1>6. CASE FactsVerified
    BY <1>6, FactsVerifiedEffect, SameReads, FactRoute, CountTyped, CapTyped,
       LoopsLeftTyped
    DEF SeenByFactChecker, Touches, Tracked, BudgetInv, RevisionCountBound,
        OutOfStepsOnlyOverBudget, LoopNodes, Distance, BeforeDraft
  <1>7. CASE FactsUnverified
    BY <1>7, FactsUnverifiedEffect, SameReads, FactRoute, CountTyped, CapTyped,
       LoopsLeftTyped
    DEF SeenByFactChecker, Touches, Tracked, BudgetInv, RevisionCountBound,
        OutOfStepsOnlyOverBudget, LoopNodes, Distance, BeforeDraft
  <1>8. CASE Writer
    BY <1>8, WriterEffect, SameReads, CountTyped, CapTyped, LoopsLeftTyped
    DEF Touches, Tracked, BudgetInv, RevisionCountBound, OutOfStepsOnlyOverBudget,
        LoopNodes, Distance, BeforeDraft
  <1>9. CASE Approves
    <2>1. next' = "citation" /\ Count(channels') = Count(channels)
      BY <1>9, ApprovesEffect, ReviewRoute, SameReads
      DEF SeenByReviewer, Touches, Tracked
    <2>2. QED
      BY <1>9, <2>1, ApprovesEffect, CountTyped, CapTyped, LoopsLeftTyped
      DEF Touches, Tracked, BudgetInv, RevisionCountBound, OutOfStepsOnlyOverBudget,
          LoopNodes, Distance, BeforeDraft
  <1>10. CASE RequestsRevision
    BY <1>10, RequestsRevisionEffect, SameReads, ReviewRoute, CountTyped, CapTyped,
       LoopsLeftTyped
    DEF SeenByReviewer, Touches, Tracked, BudgetInv, RevisionCountBound,
        OutOfStepsOnlyOverBudget, LoopNodes, Distance, BeforeDraft
  <1>11. CASE Citation
    BY <1>11, CitationEffect, SameReads, CountTyped, CapTyped, LoopsLeftTyped
    DEF Touches, Tracked, BudgetInv, RevisionCountBound, OutOfStepsOnlyOverBudget,
        LoopNodes, Distance, BeforeDraft
  <1>12. CASE Evaluation
    BY <1>12, EvaluationEffect, SameReads, CountTyped, CapTyped, LoopsLeftTyped
    DEF Touches, Tracked, BudgetInv, RevisionCountBound, OutOfStepsOnlyOverBudget,
        LoopNodes, Distance, BeforeDraft
  <1>13. CASE Memory
    BY <1>13, MemoryEffect, SameReads, CountTyped, CapTyped, LoopsLeftTyped
    DEF Touches, Tracked, BudgetInv, RevisionCountBound, OutOfStepsOnlyOverBudget,
        LoopNodes, Distance, BeforeDraft
  <1>14. CASE NodeRaises \/ RecursionLimitReached
    <2>1. /\ next \in Agents /\ next' \in {"raised", "out_of_steps"}
          /\ channels' = channels /\ steps' = steps /\ start' = start
          /\ next' = "out_of_steps" => steps = RecursionLimit
      BY <1>14 DEF NodeRaises, RecursionLimitReached, CallsOut, Agents
    <2>2. Distance[next] >= 1 /\ LoopNodes(next, Count(channels)) \in Nat
          /\ Distance[next] \in Nat
      BY <2>1, CountTyped, LoopsLeftTyped DEF Agents, Distance, LoopNodes, BeforeDraft
    <2>3. Distance[next'] = 0 /\ LoopNodes(next', Count(channels')) = 0
      BY <2>1 DEF Distance, LoopNodes, BeforeDraft
    <2>4. BudgetInv'
      BY <2>1, <2>2, <2>3, CapTyped DEF BudgetInv, BeforeDraft
    <2>5. QED
      BY <2>1, <2>2, <2>4, CapTyped
      DEF BudgetInv, RevisionCountBound, OutOfStepsOnlyOverBudget
  <1>15. CASE Terminated \/ UNCHANGED vars
    BY <1>15
    DEF Terminated, vars, BudgetInv, RevisionCountBound, OutOfStepsOnlyOverBudget
  <1>16. QED
    BY <1>1, <1>2, <1>3, <1>4, <1>5, <1>6, <1>7, <1>8, <1>9, <1>10, <1>11, <1>12, <1>13,
       <1>14, <1>15 DEF Next, RunNode, FactChecker, Reviewer

-----------------------------------------------------------------------------
(* The inductive invariant, and what it implies.                           *)

\* The invariant holds when a run starts.
LEMMA InitInv == Init => IInv
  <1> SUFFICES ASSUME Init PROVE IInv
    OBVIOUS
  <1> DEFINE lists == [f \in AnnotatedFields |-> <<>>]
  <1>1. channels = Merge({}, InitialState(start), lists) /\ merged = InitialState(start)
    BY DEF Init
  <1>2. DOMAIN channels = {"revision_count"} \cup AnnotatedFields
    <2> DEFINE i == InitialState(start)
    <2>1. DOMAIN i = {"revision_count"} /\ DOMAIN lists = AnnotatedFields
      BY DEF InitialState
    <2> HIDE DEF i, lists
    <2>2. channels = Merge({}, i, lists)
      BY <1>1 DEF i
    <2>3. QED BY <2>1, <2>2 DEF Merge
  <1>3. /\ channels["revision_count"] = start
        /\ \A f \in AnnotatedFields : channels[f] = <<>>
    <2>1. /\ "revision_count" \in DOMAIN InitialState(start)
          /\ InitialState(start)["revision_count"] = start
      BY DEF InitialState
    <2>2. DOMAIN lists = AnnotatedFields /\ \A f \in AnnotatedFields : lists[f] = <<>>
      OBVIOUS
    <2>3. "revision_count" \notin AnnotatedFields
      BY DEF AnnotatedFields
    <2> HIDE DEF lists
    <2>4. channels["revision_count"] = start
      BY <1>1, <2>1, <2>2, <2>3, MergeKept
    <2>5. ASSUME NEW f \in AnnotatedFields PROVE channels[f] = <<>>
      BY <1>1, <2>2, MergeOverwritten
    <2>6. QED BY <2>4, <2>5
  <1>4. DOMAIN merged = {"revision_count"} /\ merged["revision_count"] = start
    BY <1>1 DEF InitialState
  <1>5. start \in Nat
    BY BoundsAssumption DEF Init
  <1>6. StateTypeOK(channels) /\ StateTypeOK(merged)
    <2>1. StateTypeOK(merged)
      BY <1>4, <1>5 DEF StateTypeOK, Findings, Context, DraftNumber, Get, Agents
    <2>2. StateTypeOK(channels)
      <3>1. "revision_count" \in DOMAIN channels /\ channels["revision_count"] \in Nat
        BY <1>2, <1>3, <1>5
      <3>2. \A f \in AnnotatedFields : Get(channels, f, <<>>) = <<>>
        BY <1>2, <1>3 DEF Get
      <3>3. Findings(channels) = <<>> /\ Context(channels) = <<>>
        BY <3>2 DEF Findings, Context, AnnotatedFields
      <3>4. Get(channels, "messages", <<>>) = <<>> /\ Get(channels, "errors", <<>>) = <<>>
        BY <3>2 DEF AnnotatedFields
      <3>5. /\ Get(channels, "fact_check_verdict", "verified") \in {"verified", "unverified"}
            /\ Get(channels, "review_approved", TRUE) \in BOOLEAN
            /\ Get(channels, "review_feedback", 0) \in Nat
            /\ Get(channels, "quality_score", 0) \in 0..10
            /\ Get(channels, "current_node", "planner") \in Agents
        BY <1>2 DEF Get, AnnotatedFields, Agents
      <3>6. DraftNumber(channels) \in Nat
        BY <1>2 DEF DraftNumber, AnnotatedFields
      <3>7. <<>> \in Seq(Finding) /\ <<>> \in Seq(Chunk) /\ <<>> \in Seq(Agents)
        OBVIOUS
      <3>8. QED
        BY <3>1, <3>3, <3>4, <3>5, <3>6, <3>7, Zenon DEF StateTypeOK
    <2>3. QED BY <2>1, <2>2
  <1>7. TypeOK
    BY <1>6, BoundsAssumption DEF TypeOK, Init, Agents
  <1>8. MergedStateMatchesGraph
    BY <1>2, <1>3, <1>4 DEF MergedStateMatchesGraph, Get, AnnotatedFields
  <1>9. /\ ~Has("draft_report") /\ ~Has("citations") /\ ~Has("review_feedback")
        /\ Count(channels) = start
    BY <1>2, <1>3 DEF Has, AnnotatedFields, Count, Get
  <1>10. EvidenceInv /\ DraftRestsOnCheckedEvidence
    BY <1>9 DEF Init, EvidenceInv, DraftRestsOnCheckedEvidence, AfterFactCheck, Has
  <1>11. DraftInv /\ PublishedDraftWasReviewed
    BY <1>9
    DEF Init, DraftInv, PublishedDraftWasReviewed, AfterFactCheck, AfterReview,
        BeforeDraft, Has, Get
  <1>12. CitationInv /\ CitationsMatchDraft
    BY <1>9 DEF CitationInv, CitationsMatchDraft, Has
  <1>13. BudgetInv /\ RevisionCountBound /\ OutOfStepsOnlyOverBudget
    <2>1. steps = 0 /\ next = "planner"
      BY DEF Init
    <2>2. Max2(MaxRevisionLoops - 1, start) >= start /\ LoopsLeft(start) \in Nat
          /\ Max2(MaxRevisionLoops - 1, start) \in Int
      BY <1>5, BoundsAssumption DEF Max2, LoopsLeft
    <2>3. Distance[next] = 10 /\ LoopNodes(next, Count(channels)) = 4 * LoopsLeft(start)
      BY <1>9, <2>1 DEF Distance, LoopNodes, BeforeDraft
    <2>4. QED
      BY <1>5, <1>9, <2>1, <2>2, <2>3
      DEF BudgetInv, RevisionCountBound, OutOfStepsOnlyOverBudget
  <1>14. QED
    BY <1>7, <1>8, <1>10, <1>11, <1>12, <1>13 DEF IInv

\* The invariant is preserved by every step.
LEMMA NextInv == IInv /\ [Next]_vars => IInv'
  BY TypeStep, EvidenceStep, DraftStep, CitationStep, BudgetStep DEF IInv

\* The invariant holds throughout every run.
LEMMA Invariance == Spec => []IInv
  BY InitInv, NextInv, PTL DEF Spec

\* The types of the state, at every step of every run.
THEOREM TypeCorrect == Spec => []TypeOK
  <1>1. IInv => TypeOK BY DEF IInv
  <1>2. QED BY Invariance, <1>1, PTL

\* What the worker persists as graph_state is what ainvoke() would return.
THEOREM MergedStateCorrect == Spec => []MergedStateMatchesGraph
  <1>1. IInv => MergedStateMatchesGraph BY DEF IInv
  <1>2. QED BY Invariance, <1>1, PTL

\* Citations line up with the markers of the draft that is stored.
THEOREM CitationsCorrect == Spec => []CitationsMatchDraft
  <1>1. IInv => CitationsMatchDraft BY DEF IInv
  <1>2. QED BY Invariance, <1>1, PTL

\* No draft is written from evidence that was not summarised and checked.
THEOREM EvidenceCorrect == Spec => []DraftRestsOnCheckedEvidence
  <1>1. IInv => DraftRestsOnCheckedEvidence BY DEF IInv
  <1>2. QED BY Invariance, <1>1, PTL

\* The draft that is stored is the one the reviewer judged last.
THEOREM ReviewCorrect == Spec => []PublishedDraftWasReviewed
  <1>1. IInv => PublishedDraftWasReviewed BY DEF IInv
  <1>2. QED BY Invariance, <1>1, PTL

\* A gate is overruled only once the revision budget is used up.
THEOREM GatesCorrect == Spec => []GatesOverruledOnlyAtCap
  <1>1. IInv => GatesOverruledOnlyAtCap
    <2> SUFFICES ASSUME IInv PROVE GatesOverruledOnlyAtCap
      OBVIOUS
    <2>1. next \in AfterFactCheck /\ channels["fact_check_verdict"] = "unverified"
            => Count(channels) >= MaxRevisionLoops
      BY DEF IInv, EvidenceInv
    <2>2. ASSUME next = "END", Report(merged).status = "draft"
          PROVE  Report(merged).version > MaxRevisionLoops
      <3>1. Has("review_approved") /\ "review_approved" \in DOMAIN merged
        BY <2>2
        DEF IInv, DraftInv, AfterReview, MergedStateMatchesGraph, AnnotatedFields, Has
      <3>2. merged["review_approved"] = channels["review_approved"]
        BY <3>1 DEF IInv, MergedStateMatchesGraph, Get, Has
      <3>3. channels["review_approved"] \in BOOLEAN
        BY <3>1 DEF IInv, TypeOK, StateTypeOK, Get, Has
      <3>4. ~channels["review_approved"]
        BY <2>2, <3>1, <3>2, <3>3 DEF Report, Get
      <3>5. Count(channels) >= MaxRevisionLoops
        BY <2>2, <3>4 DEF IInv, DraftInv, AfterReview
      <3>6. Count(merged) = Count(channels)
        BY DEF IInv, TypeOK, StateTypeOK, MergedStateMatchesGraph, Count, Get
      <3>7. Count(channels) \in Nat
        BY CountTyped DEF IInv
      <3>8. QED
        BY <3>5, <3>6, <3>7, BoundsAssumption DEF Report
    <2>3. QED BY <2>1, <2>2 DEF GatesOverruledOnlyAtCap
  <1>2. QED BY Invariance, <1>1, PTL

\* The stored revision count exceeds the cap by at most one, or the count the
\* run started from by two.
THEOREM RevisionCountCorrect == Spec => []RevisionCountBound
  <1>1. IInv => RevisionCountBound BY DEF IInv
  <1>2. QED BY Invariance, <1>1, PTL

\* A run executes at most 10 + 4 * LoopsLeft(start) nodes, whatever the LLM says.
THEOREM RunLengthCorrect == Spec => []RunLengthBound
  <1>1. IInv => RunLengthBound
    <2> SUFFICES ASSUME IInv PROVE RunLengthBound
      OBVIOUS
    <2>1. Count(channels) \in Nat /\ next \in Agents \cup Endings
      BY CountTyped DEF IInv, TypeOK
    <2>2. Distance[next] \in Nat /\ LoopNodes(next, Count(channels)) \in Nat
      BY <2>1, LoopsLeftTyped DEF Agents, Endings, Distance, LoopNodes, BeforeDraft
    <2>3. QED
      BY <2>2, CapTyped DEF IInv, BudgetInv, RunLengthBound
  <1>2. QED BY Invariance, <1>1, PTL

\* LangGraph's recursion limit can only end a run that the cap made too long.
THEOREM RecursionLimitCorrect == Spec => []OutOfStepsOnlyOverBudget
  <1>1. IInv => OutOfStepsOnlyOverBudget BY DEF IInv
  <1>2. QED BY Invariance, <1>1, PTL

-----------------------------------------------------------------------------
(* Which stages a run has left behind.                                     *)

\* No step removes a key from the state.
LEMMA KeysStay ==
  ASSUME [Next]_vars, NEW key, Has(key)
  PROVE  Has(key)'
  <1>1. ASSUME NEW node, NEW update, Runs(node, update) PROVE Has(key)'
    <2>1. channels' = Merge(AnnotatedFields, channels, update)
      BY <1>1 DEF Runs
    <2>2. DOMAIN channels' = DOMAIN channels \cup DOMAIN update
      BY <2>1, MergeDomain
    <2>3. QED BY <2>2 DEF Has
  <1>2. CASE NodeRaises \/ RecursionLimitReached \/ Terminated \/ UNCHANGED vars
    BY <1>2 DEF NodeRaises, RecursionLimitReached, Terminated, vars, Has
  <1>3. CASE RunNode
    <2>1. \E node, update : Runs(node, update)
      BY <1>3
      DEF RunNode, Planner, Research, Retriever, Summarizer, FactChecker, NoFindingsToCheck,
          FactsVerified, FactsUnverified, Writer, Reviewer, Approves, RequestsRevision,
          Citation, Evaluation, Memory
    <2>2. QED BY <1>1, <2>1
  <1>4. QED BY <1>2, <1>3 DEF Next

\* A step of node writes the keys of its update.
LEMMA KeyWritten ==
  ASSUME NEW node, NEW update, Runs(node, update), NEW key, key \in DOMAIN update
  PROVE  Has(key)'
  <1>1. channels' = Merge(AnnotatedFields, channels, update)
    BY DEF Runs
  <1>2. key \in DOMAIN Merge(AnnotatedFields, channels, update)
    BY Zenon DEF Merge
  <1>3. QED BY <1>1, <1>2 DEF Has

\* Every node that follows one of these stages finds what the stage wrote.
LEMMA StageStep == StageInv /\ [Next]_vars => StageInv'
  <1> SUFFICES ASSUME StageInv, [Next]_vars PROVE StageInv'
    OBVIOUS
  <1>1. \A key \in Stages : Has(key) => Has(key)'
    BY KeysStay
  <1>2. CASE Planner
    <2>1. PICK text \in LLMTexts : Runs("planner", PlannerUpdate(text))
      BY <1>2 DEF Planner
    <2>2. Has("plan")' /\ next' = "research"
      BY <1>2, <2>1, KeyWritten DEF Planner, PlannerUpdate
    <2>3. QED BY <2>2 DEF StageInv
  <1>3. CASE Research \/ Retriever \/ Summarizer \/ FactChecker \/ Writer \/ Reviewer
    <2>1. /\ next \in {"research", "retriever", "summarizer", "fact_checker", "writer",
                       "reviewer"}
          /\ next' \in {"research", "retriever", "summarizer", "fact_checker", "writer",
                        "reviewer", "citation"}
      BY <1>3
      DEF Research, Retriever, Summarizer, FactChecker, NoFindingsToCheck, FactsVerified,
          FactsUnverified, Writer, Reviewer, Approves, RequestsRevision, Runs,
          RouteAfterFactCheck, RouteAfterReview
    <2>2. QED BY <1>1, <2>1 DEF StageInv, Agents, Stages
  <1>4. CASE Citation
    <2>1. Has("citations")' /\ next = "citation" /\ next' = "evaluation"
      BY <1>4, KeyWritten, RunsEffect DEF Citation, CitationUpdate
    <2>2. QED BY <1>1, <2>1 DEF StageInv, Agents, Stages
  <1>5. CASE Evaluation
    <2>1. PICK reply \in ScoreReplies : Runs("evaluation", EvaluationUpdate(reply))
      BY <1>5 DEF Evaluation
    <2>2. Has("quality_score")' /\ next = "evaluation" /\ next' = "memory"
      BY <1>5, <2>1, KeyWritten, RunsEffect DEF Evaluation, EvaluationUpdate
    <2>3. QED BY <1>1, <2>2 DEF StageInv, Agents, Stages
  <1>6. CASE Memory
    <2>1. next = "memory" /\ next' = "END"
      BY <1>6 DEF Memory, Runs
    <2>2. QED BY <1>1, <2>1 DEF StageInv, Agents, Stages
  <1>7. CASE NodeRaises \/ RecursionLimitReached
    BY <1>7 DEF NodeRaises, RecursionLimitReached, StageInv, Agents
  <1>8. CASE Terminated \/ UNCHANGED vars
    BY <1>8 DEF Terminated, vars, StageInv, Has
  <1>9. QED
    BY <1>2, <1>3, <1>4, <1>5, <1>6, <1>7, <1>8 DEF Next, RunNode

\* The stages are left behind throughout every run.
LEMMA StageInvariance == Spec => []StageInv
  <1>1. Init => StageInv
    BY DEF Init, StageInv, Agents
  <1>2. QED BY <1>1, StageStep, PTL DEF Spec

-----------------------------------------------------------------------------
(* The metrics.                                                            *)

\* A share rounds to the whole only if it is the whole, as long as it is a
\* share of fewer than twice the precision.
LEMMA RatioWhole ==
  ASSUME NEW b \in Nat \ {0}, NEW a \in 0..b, b < 2 * Whole
  PROVE  Ratio(a, b) = Whole <=> a = b
  BY SMT DEF Ratio, Whole

\* The first n numbers are n.
LEMMA FirstFinite ==
  ASSUME NEW n \in Nat
  PROVE  IsFiniteSet(1..n) /\ Cardinality(1..n) = n
  <1>1. n \in Int /\ 1 \in Int
    OBVIOUS
  <1>2. Cardinality(1..n) = IF 1 > n THEN 0 ELSE n - 1 + 1
    BY <1>1, FS_Interval
  <1>3. QED BY <1>1, <1>2, FS_Interval

\* The markers of a text are finitely many.
LEMMA MarkersFinite ==
  ASSUME NEW text, Len(text) \in Nat
  PROVE  /\ IsFiniteSet(ExtractInlineCitationIndices(text))
         /\ Cardinality(ExtractInlineCitationIndices(text)) \in 0..Len(text)
         /\ Cardinality(ExtractInlineCitationIndices(text)) = 0
              <=> ExtractInlineCitationIndices(text) = {}
  <1> DEFINE markers == ExtractInlineCitationIndices(text)
  <1>1. markers \subseteq 1..Len(text)
    BY DEF ExtractInlineCitationIndices
  <1>2. IsFiniteSet(1..Len(text)) /\ Cardinality(1..Len(text)) = Len(text)
    BY FirstFinite
  <1>3. IsFiniteSet(markers) /\ Cardinality(markers) <= Len(text)
    BY <1>1, <1>2, FS_Subset
  <1>4. Cardinality(markers) \in Nat /\ (Cardinality(markers) = 0 <=> markers = {})
    BY <1>3, FS_CardinalityType, FS_EmptySet
  <1> HIDE DEF markers
  <1>5. IsFiniteSet(markers) /\ Cardinality(markers) \in 0..Len(text)
    BY <1>3, <1>4
  <1>6. QED BY <1>4, <1>5 DEF markers

\* Precision is one exactly when every marker resolves.
LEMMA PrecisionWhole ==
  ASSUME NEW text, Len(text) \in 0..MaxWords, MaxWords \in Nat, MaxWords < 2 * Whole,
         NEW citations, NEW valid, ExtractInlineCitationIndices(text) # {}
  PROVE  CitationPrecision(text, citations, valid) = Whole
           <=> \A at \in ExtractInlineCitationIndices(text) :
                 Resolves(text[at], citations, valid)
  <1> DEFINE markers == ExtractInlineCitationIndices(text)
             good == {at \in markers : Resolves(text[at], citations, valid)}
  <1>1. /\ IsFiniteSet(markers) /\ Cardinality(markers) \in 0..Len(text)
        /\ Cardinality(markers) # 0
    BY MarkersFinite
  <1>2. /\ Cardinality(good) \in 0..Cardinality(markers)
        /\ Cardinality(good) = Cardinality(markers) <=> good = markers
    <2>1. good \subseteq markers
      OBVIOUS
    <2> HIDE DEF good, markers
    <2>2. QED BY <1>1, <2>1, FS_Subset, FS_CardinalityType
  <1>3. Cardinality(markers) \in Nat \ {0} /\ Cardinality(markers) < 2 * Whole
    BY <1>1 DEF Whole
  <1>4. CitationPrecision(text, citations, valid) = Ratio(Cardinality(good), Cardinality(markers))
    BY DEF CitationPrecision
  <1>5. CitationPrecision(text, citations, valid) = Whole <=> good = markers
    <2> HIDE DEF good, markers
    <2>1. QED BY <1>2, <1>3, <1>4, RatioWhole
  <1>6. good = markers <=> \A at \in markers : Resolves(text[at], citations, valid)
    OBVIOUS
  <1>7. QED BY <1>5, <1>6

\* Without reference URLs, what resolves is what names an entry with a URL.
LEMMA ResolvesAll ==
  ASSUME NEW text, NEW citations
  PROVE  (\A at \in ExtractInlineCitationIndices(text) : Resolves(text[at], citations, {}))
           <=> Cited(text) \subseteq {i \in 1..Len(citations) : citations[i] \in Linked}
  BY DEF Cited, Resolves

\* At the end of a run the citations are the sources of the stored draft, which
\* are the findings of either copy of the state, and both copies hold the same
\* plan and draft.
LEMMA EndedCitations ==
  ASSUME IInv, StageInv, next = "END"
  PROVE  /\ channels["citations"] = channels["draft_report"].sources
         /\ Stages \ {"research_findings"} \subseteq DOMAIN merged
         /\ merged["citations"] = Findings(merged)
         /\ Findings(merged) = Findings(channels)
         /\ merged["plan"] = channels["plan"]
         /\ merged["draft_report"] = channels["draft_report"]
  <1>1. Has("plan") /\ Has("citations") /\ Has("quality_score") /\ Has("draft_report")
    BY DEF IInv, StageInv, DraftInv, AfterFactCheck
  <1>2. Stages \ {"research_findings"} \subseteq DOMAIN merged
    BY <1>1 DEF IInv, MergedStateMatchesGraph, AnnotatedFields, Stages, Has
  <1>3. /\ channels["citations"] = channels["draft_report"].sources
        /\ channels["citations"] = Findings(channels)
    BY <1>1 DEF IInv, CitationsMatchDraft, DraftRestsOnCheckedEvidence, Has
  <1>4. merged["citations"] = channels["citations"]
    BY <1>1, <1>2 DEF IInv, MergedStateMatchesGraph, Get, Has, Stages
  <1>5. Findings(merged) = Findings(channels)
    BY DEF IInv, MergedStateMatchesGraph, Findings, Get
  <1>6. /\ merged["plan"] = channels["plan"]
        /\ merged["draft_report"] = channels["draft_report"]
    BY <1>1, <1>2 DEF IInv, MergedStateMatchesGraph, Get, Has, Stages
  <1>7. QED BY <1>2, <1>3, <1>4, <1>5, <1>6

\* The metrics of a finished run: complete but for what an empty reply or an
\* empty search leaves empty, and of precision one exactly when each marker names a source with a
\* URL that the writer was shown.  Scores are rounded to ten-thousandths, so the
\* second half needs a text with fewer than twice as many markers: with more,
\* one marker that resolves to nothing no longer shows.
THEOREM MetricsCorrect ==
  ASSUME MaxWords < 2 * Whole
  PROVE  Spec => []MetricsTellTheRun
  <1>1. IInv /\ StageInv => MetricsTellTheRun
    <2> SUFFICES ASSUME IInv, StageInv, next = "END"
                 PROVE  /\ \A stage \in Stages :
                             stage \in MissingStages(merged) <=>
                               CASE stage = "plan"         -> channels["plan"] = ""
                                 [] stage = "draft_report" ->
                                      channels["draft_report"].text = ""
                                 [] stage \in {"research_findings", "citations"} ->
                                      Findings(channels) = <<>>
                                 [] OTHER                  -> FALSE
                        /\ \A text \in BoundedSeq(TextWords, MaxWords) :
                             LET shown == channels["draft_report"].sources IN
                             Cited(text) # {} =>
                               (CitationPrecision(text, channels["citations"], {}) = Whole
                                  <=> Cited(text) \subseteq
                                        {i \in 1..Len(shown) : shown[i] \in Linked})
      BY DEF MetricsTellTheRun
    <2>1. /\ Get(merged, "plan", "") = channels["plan"]
          /\ DraftText(merged) = channels["draft_report"].text
          /\ Get(merged, "research_findings", <<>>) = Findings(channels)
          /\ Get(merged, "citations", <<>>) = Findings(channels)
          /\ "quality_score" \in DOMAIN merged
      BY EndedCitations DEF DraftText, Findings, Get, Stages
    <2>2. \A stage \in Stages :
            stage \in MissingStages(merged) <=>
              CASE stage = "plan"         -> channels["plan"] = ""
                [] stage = "draft_report" -> channels["draft_report"].text = ""
                [] stage \in {"research_findings", "citations"} -> Findings(channels) = <<>>
                [] OTHER                  -> FALSE
      BY <2>1 DEF MissingStages, Stages
    <2>3. ASSUME NEW text \in BoundedSeq(TextWords, MaxWords), Cited(text) # {}
          PROVE  CitationPrecision(text, channels["citations"], {}) = Whole
                   <=> Cited(text) \subseteq
                         {i \in 1..Len(channels["draft_report"].sources) :
                            channels["draft_report"].sources[i] \in Linked}
      <3>1. Len(text) \in 0..MaxWords /\ MaxWords \in Nat
        BY EvaluationAssumption DEF BoundedSeq, SeqOf
      <3>2. ExtractInlineCitationIndices(text) # {}
        BY <2>3 DEF Cited
      <3>3. QED
        BY <3>1, <3>2, PrecisionWhole, ResolvesAll, EndedCitations
    <2>4. QED BY <2>2, <2>3
  <1>2. QED BY Invariance, StageInvariance, <1>1, PTL

-----------------------------------------------------------------------------
(* The comparison of the two agents: the arithmetic of the scores.         *)

\* The average over three results is that of their sum.
LEMMA AverageOfThree ==
  ASSUME NEW results, Len(results) = 3, results # <<>>, NEW key,
         results[1][key] \in Nat, results[2][key] \in Nat, results[3][key] \in Nat
  PROVE  Average(results, key) =
           Ratio(results[1][key] + results[2][key] + results[3][key], Whole * 3)
  <1> DEFINE a == results[1][key]
             b == results[2][key]
             c == results[3][key]
             Sums(f) == f = [n \in 0..Len(results) |->
                               IF n = 0 THEN 0 ELSE results[n][key] + f[n - 1]]
             g == [n \in 0..3 |-> IF n = 0 THEN 0 ELSE IF n = 1 THEN a
                                  ELSE IF n = 2 THEN b + a ELSE c + (b + a)]
  <1>1. Sums(g)
    OBVIOUS
  <1>2. ASSUME NEW f, Sums(f) PROVE f[3] = a + b + c
    <2>1. \A n \in 0..3 : f[n] = IF n = 0 THEN 0 ELSE results[n][key] + f[n - 1]
      BY <1>2
    <2>2. f[0] = 0 /\ f[1] = a + f[0] /\ f[2] = b + f[1] /\ f[3] = c + f[2]
      <3> HIDE DEF Sums
      <3>1. 0 \in 0..3 /\ 1 \in 0..3 /\ 2 \in 0..3 /\ 3 \in 0..3
        OBVIOUS
      <3>2. 1 - 1 = 0 /\ 2 - 1 = 1 /\ 3 - 1 = 2
        OBVIOUS
      <3>3. QED BY <2>1, <3>1, <3>2
    <2>3. QED BY <2>2
  <1>3. (CHOOSE f : Sums(f))[3] = a + b + c
    <2> HIDE DEF Sums, g, a, b, c
    <2>1. Sums(CHOOSE f : Sums(f))
      BY <1>1
    <2>2. QED BY <1>2, <2>1
  <1>4. QED
    BY <1>3 DEF Average

\* A share is monotone in its part.
LEMMA RatioMonotone ==
  ASSUME NEW b \in Nat \ {0}, NEW p \in Nat, NEW q \in Nat, p <= q
  PROVE  Ratio(p, b) \in Nat /\ Ratio(p, b) <= Ratio(q, b)
  BY SMT DEF Ratio, Whole

\* No part is nothing, and the shares the comparison on the dataset comes to.
LEMMA RatioValues ==
  /\ \A b \in Nat \ {0} : Ratio(0, b) = 0
  /\ Ratio(1, 1) = Whole /\ Ratio(2, 2) = Whole /\ Ratio(5, 5) = Whole
  /\ Ratio(1, 2) = 5000 /\ Ratio(3, 5) = 6000
  BY SMT DEF Ratio, Whole

\* A higher score on each of three items is a higher average.
LEMMA AverageMonotone ==
  ASSUME NEW low, NEW high, NEW key,
         Len(low) = 3, low # <<>>, Len(high) = 3, high # <<>>,
         \A i \in 1..3 : /\ low[i][key] \in Nat /\ high[i][key] \in Nat
                         /\ low[i][key] <= high[i][key]
  PROVE  Average(low, key) <= Average(high, key)
  <1>1. /\ low[1][key] \in Nat /\ low[2][key] \in Nat /\ low[3][key] \in Nat
        /\ high[1][key] \in Nat /\ high[2][key] \in Nat /\ high[3][key] \in Nat
        /\ low[1][key] <= high[1][key] /\ low[2][key] <= high[2][key]
        /\ low[3][key] <= high[3][key]
    OBVIOUS
  <1> DEFINE p == low[1][key] + low[2][key] + low[3][key]
             q == high[1][key] + high[2][key] + high[3][key]
  <1>2. p \in Nat /\ q \in Nat /\ p <= q
    <2>1. \A a, b, c, d, e, f \in Nat :
            a <= d /\ b <= e /\ c <= f => a + b + c \in Nat /\ d + e + f \in Nat
                                         /\ a + b + c <= d + e + f
      OBVIOUS
    <2>2. QED BY <1>1, <2>1
  <1>3. Average(low, key) = Ratio(p, Whole * 3) /\ Average(high, key) = Ratio(q, Whole * 3)
    BY <1>1, AverageOfThree
  <1>4. Whole * 3 \in Nat \ {0}
    BY DEF Whole
  <1> HIDE DEF p, q
  <1>5. QED BY <1>2, <1>3, <1>4, RatioMonotone

\* The smaller and the larger of two numbers.
LEMMA MinMaxOfTwo ==
  ASSUME NEW a \in Int, NEW b \in Int
  PROVE  /\ Min({a, b}) = IF a <= b THEN a ELSE b
         /\ Max({a, b}) = IF a <= b THEN b ELSE a
  <1>1. CASE a <= b
    <2>1. \A x \in {a, b} : (\A y \in {a, b} : x =< y) <=> x = a
      BY <1>1
    <2>2. \A x \in {a, b} : (\A y \in {a, b} : x >= y) <=> x = b
      BY <1>1
    <2>3. QED BY <1>1, <2>1, <2>2 DEF Min, Max
  <1>2. CASE ~(a <= b)
    <2>1. \A x \in {a, b} : (\A y \in {a, b} : x =< y) <=> x = b
      BY <1>2
    <2>2. \A x \in {a, b} : (\A y \in {a, b} : x >= y) <=> x = a
      BY <1>2
    <2>3. QED BY <1>2, <2>1, <2>2 DEF Min, Max
  <1>3. QED BY <1>1, <1>2

\* Hallucination rates are numbers; making nothing up is a rate of zero.
LEMMA HallucinationValues ==
  /\ \A issues, claims \in Nat : HallucinationRate(issues, claims) \in Nat
  /\ \A claims \in Nat : HallucinationRate(0, claims) = 0
  /\ HallucinationRate(1, 2) = 5000
  <1>1. Whole \in Nat /\ Whole = 10000
    BY DEF Whole
  <1>2. ASSUME NEW issues \in Nat, NEW claims \in Nat
        PROVE  HallucinationRate(issues, claims) \in Nat
    <2>1. claims > 0 => Ratio(issues, claims) \in Nat
      BY RatioMonotone
    <2>2. claims > 0 => Min({Whole, Ratio(issues, claims)}) \in Nat
      BY <1>1, <2>1, MinMaxOfTwo
    <2>3. QED BY <2>2 DEF HallucinationRate
  <1>3. ASSUME NEW claims \in Nat
        PROVE  HallucinationRate(0, claims) = 0
    <2>1. claims > 0 => Ratio(0, claims) = 0
      BY RatioValues
    <2>2. Min({Whole, 0}) = 0
      BY <1>1, MinMaxOfTwo
    <2>3. QED BY <2>1, <2>2 DEF HallucinationRate
  <1>4. HallucinationRate(1, 2) = 5000
    <2>1. Min({Whole, 5000}) = 5000
      BY <1>1, MinMaxOfTwo
    <2>2. QED BY <2>1, RatioValues DEF HallucinationRate
  <1>5. QED BY <1>2, <1>3, <1>4

\* Two different elements are two.
LEMMA PairFinite ==
  ASSUME NEW x, NEW y, x # y
  PROVE  IsFiniteSet({x, y}) /\ Cardinality({x, y}) = 2
  <1>1. {x, y} = {x} \cup {y}
    OBVIOUS
  <1>2. IsFiniteSet({x}) /\ Cardinality({x}) = 1
    BY FS_Singleton
  <1>3. QED BY <1>1, <1>2, FS_AddElement

\* Completion is the same for any two runs that found something, or nothing.
LEMMA CompletionValues ==
  ASSUME NEW findings
  PROVE  CompletionRate(FinalState(findings)) = IF findings = <<>> THEN 6000 ELSE Whole
  <1>1. Cardinality(Stages) = 5
    <2>1. IsFiniteSet({"plan", "research_findings"}) /\ Cardinality({"plan", "research_findings"}) = 2
      BY PairFinite
    <2>2. /\ IsFiniteSet({"plan", "research_findings"} \cup {"draft_report"})
          /\ Cardinality({"plan", "research_findings"} \cup {"draft_report"}) = 3
      BY <2>1, FS_AddElement
    <2>3. /\ IsFiniteSet({"plan", "research_findings"} \cup {"draft_report"} \cup {"citations"})
          /\ Cardinality({"plan", "research_findings"} \cup {"draft_report"} \cup {"citations"}) = 4
      BY <2>2, FS_AddElement
    <2>4. Cardinality({"plan", "research_findings"} \cup {"draft_report"} \cup {"citations"}
                        \cup {"quality_score"}) = 5
      BY <2>3, FS_AddElement
    <2>5. Stages = {"plan", "research_findings"} \cup {"draft_report"} \cup {"citations"}
                     \cup {"quality_score"}
      BY DEF Stages
    <2>6. QED BY <2>4, <2>5
  <1>2. /\ DOMAIN FinalState(findings) = Stages
        /\ FinalState(findings)["research_findings"] = findings
        /\ FinalState(findings)["citations"] = findings
        /\ Get(FinalState(findings), "plan", "") = "text"
        /\ DraftText(FinalState(findings)) = "text"
    BY DEF FinalState, Stages, Get, DraftText
  <1>3. \A stage \in {"research_findings", "citations"} :
          Get(FinalState(findings), stage, <<>>) = findings
    BY <1>2 DEF Get, Stages
  <1>4. CASE findings = <<>>
    <2>1. MissingStages(FinalState(findings)) = {"research_findings", "citations"}
      BY <1>2, <1>3, <1>4 DEF MissingStages, Stages
    <2>2. Cardinality(MissingStages(FinalState(findings))) = 2
      BY <2>1, PairFinite
    <2>3. QED BY <1>1, <1>4, <2>2, RatioValues DEF CompletionRate
  <1>5. CASE findings # <<>>
    <2>1. MissingStages(FinalState(findings)) = {}
      BY <1>2, <1>3, <1>5 DEF MissingStages, Stages
    <2>2. Cardinality(MissingStages(FinalState(findings))) = 0
      BY <2>1, FS_EmptySet
    <2>3. QED BY <1>1, <1>5, <2>2, RatioValues DEF CompletionRate
  <1>6. QED BY <1>4, <1>5

-----------------------------------------------------------------------------
(* The scores of the two agents on any item.                               *)

\* The texts the two agents write, and the markers in them.
LEMMA ScriptedMarkers ==
  /\ ExtractInlineCitationIndices(<<Word>>) = {} /\ Cited(<<Word>>) = {}
  /\ ExtractInlineCitationIndices(<<Word, 1>>) = {2} /\ Cited(<<Word, 1>>) = {1}
  /\ ExtractInlineCitationIndices(<<1, Word, 2>>) = {1, 3} /\ Cited(<<1, Word, 2>>) = {1, 2}
  <1>1. ExtractInlineCitationIndices(<<Word>>) = {}
    BY DEF ExtractInlineCitationIndices
  <1>2. ExtractInlineCitationIndices(<<Word, 1>>) = {2}
    BY DEF ExtractInlineCitationIndices, Word
  <1>3. ExtractInlineCitationIndices(<<1, Word, 2>>) = {1, 3}
    BY DEF ExtractInlineCitationIndices, Word
  <1>4. QED BY <1>1, <1>2, <1>3 DEF Cited

\* The precision of a text with no marker, with one and with two.
LEMMA ScriptedPrecision ==
  ASSUME NEW citations, NEW valid
  PROVE  /\ CitationPrecision(<<Word>>, citations, valid) = 0
         /\ CitationPrecision(<<Word, 1>>, citations, valid) =
              IF Resolves(1, citations, valid) THEN Whole ELSE 0
         /\ CitationPrecision(<<1, Word, 2>>, citations, valid) \in Nat
         /\ Resolves(1, citations, valid) /\ Resolves(2, citations, valid) =>
              CitationPrecision(<<1, Word, 2>>, citations, valid) = Whole
  <1>1. CitationPrecision(<<Word>>, citations, valid) = 0
    BY ScriptedMarkers DEF CitationPrecision
  <1>2. CitationPrecision(<<Word, 1>>, citations, valid) =
          IF Resolves(1, citations, valid) THEN Whole ELSE 0
    <2> DEFINE good == {at \in {2} : Resolves(<<Word, 1>>[at], citations, valid)}
    <2>1. good = IF Resolves(1, citations, valid) THEN {2} ELSE {}
      OBVIOUS
    <2>2. CitationPrecision(<<Word, 1>>, citations, valid) = Ratio(Cardinality(good), Cardinality({2}))
      BY ScriptedMarkers DEF CitationPrecision
    <2>3. Cardinality({2}) = 1 /\ Cardinality({}) = 0
      BY FS_Singleton, FS_EmptySet
    <2> HIDE DEF good
    <2>4. QED BY <2>1, <2>2, <2>3, RatioValues
  <1>3. /\ CitationPrecision(<<1, Word, 2>>, citations, valid) \in Nat
        /\ Resolves(1, citations, valid) /\ Resolves(2, citations, valid) =>
             CitationPrecision(<<1, Word, 2>>, citations, valid) = Whole
    <2> DEFINE good == {at \in {1, 3} : Resolves(<<1, Word, 2>>[at], citations, valid)}
    <2>1. /\ good \in SUBSET {1, 3}
          /\ Resolves(1, citations, valid) /\ Resolves(2, citations, valid) => good = {1, 3}
      OBVIOUS
    <2>2. CitationPrecision(<<1, Word, 2>>, citations, valid) =
            Ratio(Cardinality(good), Cardinality({1, 3}))
      BY ScriptedMarkers DEF CitationPrecision
    <2>3. IsFiniteSet({1, 3}) /\ Cardinality({1, 3}) = 2
      <3>1. 1 # 3
        OBVIOUS
      <3>2. QED BY <3>1, PairFinite
    <2> HIDE DEF good
    <2>4. Cardinality(good) \in Nat
      BY <2>1, <2>3, FS_Subset, FS_CardinalityType
    <2>5. Ratio(Cardinality(good), 2) \in Nat
      BY <2>4, RatioMonotone
    <2>6. QED BY <2>1, <2>2, <2>3, <2>5, RatioValues
  <1>4. QED BY <1>1, <1>2, <1>3

\* Their recall.
LEMMA ScriptedRecall ==
  /\ \A text : CitationRecall(text, 0) = 0
  /\ \A total \in Nat \ {0} : CitationRecall(<<Word, 1>>, total) = Ratio(1, total)
  /\ \A total \in Nat \ {0, 1} : CitationRecall(<<1, Word, 2>>, total) = Ratio(2, total)
  <1>1. \A text : CitationRecall(text, 0) = 0
    BY DEF CitationRecall
  <1>2. ASSUME NEW total \in Nat \ {0}
        PROVE  CitationRecall(<<Word, 1>>, total) = Ratio(1, total)
    <2>1. Cited(<<Word, 1>>) \cap 1..total = {1}
      BY ScriptedMarkers
    <2>2. QED BY <2>1, FS_Singleton DEF CitationRecall
  <1>3. ASSUME NEW total \in Nat \ {0, 1}
        PROVE  CitationRecall(<<1, Word, 2>>, total) = Ratio(2, total)
    <2>1. Cited(<<1, Word, 2>>) \cap 1..total = {1, 2}
      BY ScriptedMarkers
    <2>2. Cardinality({1, 2}) = 2
      BY PairFinite
    <2>3. QED BY <2>1, <2>2 DEF CitationRecall
  <1>4. QED BY <1>1, <1>2, <1>3

\* The scores of either agent on an item, one by one.
LEMMA Scores ==
  ASSUME NEW item
  PROVE  /\ Baseline(item).relevance = RetrievalRelevance(BaselineFindings(item), TRUE, item.matching)
         /\ Baseline(item).precision =
              CitationPrecision(BaselineText(item), BaselineFindings(item), item.references)
         /\ Baseline(item).recall = CitationRecall(BaselineText(item), Len(item.mock_findings))
         /\ Baseline(item).hallucination =
              HallucinationRate(Max({1, item.assertions \div 2}), item.assertions)
         /\ Baseline(item).completion = CompletionRate(FinalState(BaselineFindings(item)))
         /\ Improved(item).relevance = RetrievalRelevance(item.mock_findings, TRUE, item.matching)
         /\ Improved(item).precision =
              CitationPrecision(ImprovedText(item), item.mock_findings, item.references)
         /\ Improved(item).recall = CitationRecall(ImprovedText(item), Len(item.mock_findings))
         /\ Improved(item).hallucination = HallucinationRate(0, item.assertions)
         /\ Improved(item).completion = CompletionRate(FinalState(item.mock_findings))
  BY Zenon DEF Baseline, Improved, Result

\* What holds of the two agents on any item.
LEMMA AnyItem ==
  ASSUME NEW item \in Items
  PROVE  /\ item.mock_findings = <<>> =>
              /\ {Baseline(item).precision, Baseline(item).recall, Baseline(item).relevance} = {0}
              /\ {Improved(item).precision, Improved(item).recall, Improved(item).relevance} = {0}
         /\ Baseline(item).recall <= Improved(item).recall
         /\ Baseline(item).hallucination >= Improved(item).hallucination
         /\ Baseline(item).completion = Improved(item).completion
         /\ Improved(item).precision < Baseline(item).precision =>
              \E i \in 2..Len(item.mock_findings) :
                \/ item.mock_findings[i] \notin Linked
                \/ item.references # {} /\ item.mock_findings[i] \notin item.references
  <1> DEFINE mf == item.mock_findings
             refs == item.references
             a == item.assertions
             n == Len(mf)
             base == Baseline(item)
             impr == Improved(item)
  <1>1. n \in Nat /\ DOMAIN mf = 1..n /\ a \in Nat /\ (mf = <<>> <=> n = 0)
    BY BoundedSeqTyped, EvaluationAssumption DEF Items
  <1>2. /\ base.precision = CitationPrecision(BaselineText(item), BaselineFindings(item), refs)
        /\ impr.precision = CitationPrecision(ImprovedText(item), mf, refs)
    BY Scores
  <1>3. /\ base.recall = CitationRecall(BaselineText(item), n)
        /\ impr.recall = CitationRecall(ImprovedText(item), n)
    BY Scores
  <1>4. /\ base.relevance = RetrievalRelevance(BaselineFindings(item), TRUE, item.matching)
        /\ impr.relevance = RetrievalRelevance(mf, TRUE, item.matching)
    BY Scores
  <1>5. /\ base.hallucination = HallucinationRate(Max({1, a \div 2}), a)
        /\ impr.hallucination = HallucinationRate(0, a)
    BY Scores
  <1>6. /\ base.completion = CompletionRate(FinalState(BaselineFindings(item)))
        /\ impr.completion = CompletionRate(FinalState(mf))
    BY Scores
  <1>7. /\ BaselineFindings(item) = IF mf = <<>> THEN <<>> ELSE <<mf[1]>>
        /\ BaselineText(item) = IF n = 0 THEN <<Word>> ELSE <<Word, 1>>
        /\ ImprovedText(item) = IF n >= 2 THEN <<1, Word, 2>> ELSE <<Word, 1>>
    BY <1>1 DEF BaselineFindings, BaselineText, ImprovedText
  <1> HIDE DEF mf, refs, a, n, base, impr
  <1>8. ASSUME n = 0
        PROVE  /\ base.precision = 0 /\ base.recall = 0 /\ base.relevance = 0
               /\ impr.precision = 0 /\ impr.recall = 0 /\ impr.relevance = 0
    <2>1. /\ BaselineFindings(item) = <<>> /\ BaselineText(item) = <<Word>>
          /\ ImprovedText(item) = <<Word, 1>> /\ mf = <<>>
      BY <1>1, <1>7, <1>8
    <2>2. ~Resolves(1, <<>>, refs)
      BY DEF Resolves
    <2>3. /\ CitationPrecision(<<Word>>, <<>>, refs) = 0
          /\ CitationPrecision(<<Word, 1>>, <<>>, refs) = 0
      BY <2>2, ScriptedPrecision
    <2>4. base.precision = 0 /\ impr.precision = 0
      BY <1>2, <2>1, <2>3
    <2>5. base.recall = 0 /\ impr.recall = 0
      BY <1>3, <1>8, ScriptedRecall
    <2>6. base.relevance = 0 /\ impr.relevance = 0
      BY <1>4, <2>1 DEF RetrievalRelevance
    <2>7. QED BY <2>4, <2>5, <2>6
  <1>9. base.recall <= impr.recall
    <2>1. CASE n = 0
      BY <1>8, <2>1
    <2>2. CASE n = 1
      <3>1. base.recall = Ratio(1, n) /\ impr.recall = Ratio(1, n)
        BY <1>3, <1>7, <2>2, ScriptedRecall
      <3>2. QED BY <2>2, <3>1, RatioMonotone
    <2>3. CASE n \notin {0, 1}
      <3>1. n \in Nat \ {0, 1} /\ n \in Nat \ {0} /\ n >= 2
        BY <1>1, <2>3
      <3>2. base.recall = Ratio(1, n)
        BY <1>3, <1>7, <3>1, ScriptedRecall
      <3>3. impr.recall = Ratio(2, n)
        BY <1>3, <1>7, <3>1, ScriptedRecall
      <3>4. QED BY <3>1, <3>2, <3>3, RatioMonotone
    <2>4. QED BY <2>1, <2>2, <2>3
  <1>10. base.hallucination >= impr.hallucination
    <2>1. a \div 2 \in Nat
      BY <1>1
    <2> DEFINE half == a \div 2
    <2>2. Max({1, half}) \in Nat
      <3> HIDE DEF half
      <3>1. half \in Int /\ half \in Nat
        BY <2>1 DEF half
      <3>2. Max({1, half}) = IF 1 <= half THEN half ELSE 1
        BY <3>1, MinMaxOfTwo
      <3>3. QED BY <3>1, <3>2
    <2>3. QED BY <1>1, <1>5, <2>2, HallucinationValues
  <1>11. base.completion = impr.completion
    <2>1. BaselineFindings(item) = <<>> <=> mf = <<>>
      BY <1>7
    <2>2. CompletionRate(FinalState(BaselineFindings(item))) = CompletionRate(FinalState(mf))
      BY <2>1, CompletionValues
    <2>3. QED BY <1>6, <2>2
  <1>12. ASSUME \A i \in 2..n : mf[i] \in Linked /\ (refs # {} => mf[i] \in refs)
         PROVE  ~(impr.precision < base.precision)
    <2> DEFINE first == Resolves(1, mf, refs)
    <2>1. CASE n = 0
      BY <1>8, <2>1
    <2>2. ASSUME n # 0
          PROVE  base.precision = IF first THEN Whole ELSE 0
      <3>1. BaselineText(item) = <<Word, 1>> /\ BaselineFindings(item) = <<mf[1]>>
        BY <1>1, <1>7, <2>2
      <3>2. Resolves(1, <<mf[1]>>, refs) <=> first
        BY <1>1, <2>2 DEF Resolves
      <3>3. CitationPrecision(<<Word, 1>>, <<mf[1]>>, refs) = IF first THEN Whole ELSE 0
        BY <3>2, ScriptedPrecision
      <3>4. QED BY <1>2, <3>1, <3>3
    <2>3. CASE n = 1
      <3>1. impr.precision = IF first THEN Whole ELSE 0
        BY <1>2, <1>7, <2>3, ScriptedPrecision
      <3>2. QED BY <2>2, <2>3, <3>1 DEF Whole
    <2>4. CASE n \notin {0, 1}
      <3>1. ImprovedText(item) = <<1, Word, 2>> /\ 2 \in 2..n /\ Len(mf) = n
        BY <1>1, <1>7, <2>4 DEF n
      <3>2. Resolves(2, mf, refs)
        BY <1>12, <3>1 DEF Resolves
      <3>3. impr.precision \in Nat /\ (first => impr.precision = Whole)
        BY <1>2, <3>1, <3>2, ScriptedPrecision
      <3>4. QED BY <2>2, <2>4, <3>3 DEF Whole
    <2>5. QED BY <2>1, <2>3, <2>4
  <1>13. QED BY <1>1, <1>8, <1>9, <1>10, <1>11, <1>12 DEF mf, refs, n, base, impr

-----------------------------------------------------------------------------
(* The dataset, and the theorem.                                           *)

\* What the two agents score on an item of the dataset.
LEMMA DatasetItem ==
  ASSUME NEW f \in Linked, NEW n \in {1, 2}
  PROVE  LET base == Baseline(ItemOf(f, n))
             impr == Improved(ItemOf(f, n)) IN
           /\ base.precision = Whole /\ base.recall = Ratio(1, n) /\ base.relevance = Whole
           /\ base.hallucination = 5000 /\ base.completion = Whole
           /\ impr.precision = Whole /\ impr.recall = Whole /\ impr.relevance = Whole
           /\ impr.hallucination = 0 /\ impr.completion = Whole
  <1> DEFINE item == ItemOf(f, n)
             mf == [i \in 1..n |-> f]
             base == Baseline(item)
             impr == Improved(item)
  <1>1. /\ item.mock_findings = mf /\ item.references = {f}
        /\ item.matching = {f} /\ item.assertions = 2
    BY DEF ItemOf
  <1>2. n \in Nat /\ Len(mf) = n /\ mf # <<>> /\ mf[1] = f /\ (n = 2 => mf[2] = f)
    OBVIOUS
  <1>3. /\ BaselineFindings(item) = <<f>> /\ BaselineText(item) = <<Word, 1>>
        /\ ImprovedText(item) = IF n = 2 THEN <<1, Word, 2>> ELSE <<Word, 1>>
    BY <1>1, <1>2 DEF BaselineFindings, BaselineText, ImprovedText
  <1>4. \A i \in 1..n : mf[i] = f
    OBVIOUS
  <1>5. /\ base.precision = CitationPrecision(<<Word, 1>>, <<f>>, {f})
        /\ impr.precision = CitationPrecision(ImprovedText(item), mf, {f})
        /\ base.recall = CitationRecall(<<Word, 1>>, n)
        /\ impr.recall = CitationRecall(ImprovedText(item), n)
        /\ base.relevance = RetrievalRelevance(<<f>>, TRUE, {f})
        /\ impr.relevance = RetrievalRelevance(mf, TRUE, {f})
        /\ base.hallucination = HallucinationRate(Max({1, 2 \div 2}), 2)
        /\ impr.hallucination = HallucinationRate(0, 2)
        /\ base.completion = CompletionRate(FinalState(<<f>>))
        /\ impr.completion = CompletionRate(FinalState(mf))
    <2> HIDE DEF item, mf, base, impr
    <2>1. QED BY <1>1, <1>2, <1>3, Scores DEF base, impr
  <1> HIDE DEF item, mf, base, impr
  <1>6. base.precision = Whole
    <2>1. Resolves(1, <<f>>, {f})
      BY DEF Resolves
    <2>2. QED BY <1>5, <2>1, ScriptedPrecision
  <1>7. impr.precision = Whole
    <2>1. Resolves(1, mf, {f}) /\ (n = 2 => Resolves(2, mf, {f}))
      BY <1>2 DEF Resolves
    <2>2. QED BY <1>3, <1>5, <2>1, ScriptedPrecision
  <1>8. base.recall = Ratio(1, n) /\ impr.recall = Whole
    <2>1. CitationRecall(<<Word, 1>>, n) = Ratio(1, n)
      BY <1>2, ScriptedRecall
    <2>2. n = 2 => CitationRecall(<<1, Word, 2>>, n) = Ratio(2, 2)
      BY ScriptedRecall
    <2>3. n = 1 => CitationRecall(<<Word, 1>>, n) = Ratio(1, 1)
      BY <2>1
    <2>4. QED BY <1>3, <1>5, <2>1, <2>2, <2>3, RatioValues
  <1>9. base.relevance = Whole /\ impr.relevance = Whole
    <2>1. {i \in 1..Len(<<f>>) : <<f>>[i] \in {f}} = 1..1 /\ Len(<<f>>) = 1 /\ <<f>> # <<>>
      OBVIOUS
    <2>2. {i \in 1..Len(mf) : mf[i] \in {f}} = 1..n
      BY <1>2, <1>4
    <2>3. Cardinality(1..1) = 1 /\ Cardinality(1..n) = n
      BY <1>2, FirstFinite
    <2>4. RetrievalRelevance(<<f>>, TRUE, {f}) = Ratio(1, 1)
      BY <2>1, <2>3 DEF RetrievalRelevance
    <2>5. RetrievalRelevance(mf, TRUE, {f}) = Ratio(n, n)
      BY <1>2, <2>2, <2>3 DEF RetrievalRelevance
    <2>6. Ratio(n, n) = Whole /\ Ratio(1, 1) = Whole
      <3>1. Ratio(1, 1) = Whole /\ Ratio(2, 2) = Whole
        BY RatioValues
      <3>2. QED BY <3>1
    <2>7. base.relevance = Whole
      BY <1>5, <2>4, <2>6, Zenon
    <2>8. impr.relevance = Whole
      BY <1>5, <2>5, <2>6, Zenon
    <2>9. QED BY <2>7, <2>8
  <1>10. base.hallucination = 5000 /\ impr.hallucination = 0
    <2>1. 2 \div 2 = 1
      OBVIOUS
    <2>2. Max({1, 1}) = 1
      BY MinMaxOfTwo
    <2>3. QED BY <1>5, <2>1, <2>2, HallucinationValues
  <1>11. base.completion = Whole /\ impr.completion = Whole
    <2>1. <<f>> # <<>>
      OBVIOUS
    <2>2. CompletionRate(FinalState(<<f>>)) = Whole
      BY <2>1, CompletionValues
    <2>3. CompletionRate(FinalState(mf)) = Whole
      BY <1>2, CompletionValues
    <2>4. QED BY <1>5, <2>2, <2>3, Zenon
  <1>12. QED
    BY <1>6, <1>7, <1>8, <1>9, <1>10, <1>11 DEF base, impr, item

\* On the dataset the improved agent is nowhere behind.
LEMMA DatasetCompared ==
  ASSUME NEW f \in Linked
  PROVE  LET run == ComparativeExperiment(BenchmarkDataset(f)) IN
           /\ \A key \in {"precision", "recall", "relevance", "completion"} :
                Average(run.baseline, key) <= Average(run.improved, key)
           /\ Average(run.baseline, "hallucination") >= Average(run.improved, "hallucination")
  <1> DEFINE run == ComparativeExperiment(BenchmarkDataset(f))
             base == run.baseline
             impr == run.improved
             size(i) == IF i = 1 THEN 2 ELSE 1
  <1>1. /\ DOMAIN BenchmarkDataset(f) = 1..3
        /\ \A i \in 1..3 : BenchmarkDataset(f)[i] = ItemOf(f, size(i))
    BY DEF BenchmarkDataset
  <1>2. /\ base = [i \in 1..3 |-> Baseline(BenchmarkDataset(f)[i])]
        /\ impr = [i \in 1..3 |-> Improved(BenchmarkDataset(f)[i])]
    BY <1>1 DEF ComparativeExperiment
  <1>3. /\ Len(base) = 3 /\ base # <<>>
        /\ Len(impr) = 3 /\ impr # <<>>
    <2> HIDE DEF base, impr
    <2>1. QED BY <1>2
  <1>4. \A i \in 1..3 : /\ base[i] = Baseline(ItemOf(f, size(i)))
                        /\ impr[i] = Improved(ItemOf(f, size(i)))
    <2> HIDE DEF base, impr, size
    <2>1. QED BY <1>1, <1>2
  <1>5. \A i \in 1..3 : size(i) \in {1, 2}
    OBVIOUS
  <1> HIDE DEF base, impr, run, size
  <1>6. /\ Ratio(1, 1) = Whole /\ Ratio(1, 2) = 5000 /\ Whole = 10000
    BY RatioValues DEF Whole
  <1>7. \A i \in 1..3 :
          /\ base[i].precision = Whole /\ base[i].recall \in {Whole, 5000}
          /\ base[i].relevance = Whole
          /\ base[i].hallucination = 5000 /\ base[i].completion = Whole
          /\ impr[i].precision = Whole /\ impr[i].recall = Whole /\ impr[i].relevance = Whole
          /\ impr[i].hallucination = 0 /\ impr[i].completion = Whole
    <2> TAKE i \in 1..3
    <2>1. size(i) \in {1, 2} /\ Ratio(1, size(i)) \in {Whole, 5000}
      BY <1>5, <1>6
    <2>2. QED BY <1>4, <2>1, DatasetItem
  <1>8. ASSUME NEW key \in {"precision", "recall", "relevance", "completion"}
        PROVE  Average(base, key) <= Average(impr, key)
    <2>1. \A i \in 1..3 : base[i][key] \in Nat /\ impr[i][key] \in Nat
                          /\ base[i][key] <= impr[i][key]
      BY <1>6, <1>7, <1>8
    <2>2. QED BY <1>3, <2>1, AverageMonotone
  <1>9. Average(impr, "hallucination") <= Average(base, "hallucination")
    <2>1. \A i \in 1..3 :
            /\ base[i]["hallucination"] \in Nat /\ impr[i]["hallucination"] \in Nat
            /\ impr[i]["hallucination"] <= base[i]["hallucination"]
      BY <1>7
    <2>2. QED BY <1>3, <2>1, AverageMonotone
  <1>10. QED BY <1>8, <1>9 DEF base, impr, run

\* What the comparison of the two agents is worth, on the dataset and on any
\* other item.
THEOREM ComparisonCorrect == Spec => []ComparisonIsSound
  <1>1. ComparisonIsSound
    BY DatasetCompared, AnyItem DEF ComparisonIsSound
  <1>2. QED BY <1>1, PTL
=============================================================================
