----------------------------- MODULE Evaluation -----------------------------
(***************************************************************************)
(* The metrics of ai/evaluation/metrics.py, applied to the state a run of  *)
(* the research graph ends in, and the offline harness that compares two   *)
(* scripted agents with them (ai/evaluation/harness.py).                   *)
(*                                                                         *)
(* A text is the sequence of its words, of which only the citation markers *)
(* matter; a source is a finding, and Linked are those with a URL.  Scores *)
(* are in ten-thousandths, the precision the code rounds to.               *)
(***************************************************************************)
EXTENDS ResearchGraph, FiniteSetsExt

CONSTANTS
  Linked,          \* findings whose url is not empty
  TextWords,       \* words of a text: the number of a marker, or Word
  MaxWords,        \* bound on the words of a text
  MaxItemFindings, \* bound on the mock findings of a benchmark item
  MaxAssertions    \* bound on its key assertions

Word == -1
Whole == 10000

ASSUME EvaluationAssumption ==
  /\ Linked \subseteq Finding
  /\ TextWords \subseteq Nat \cup {Word}
  /\ {MaxWords, MaxItemFindings, MaxAssertions} \subseteq Nat

-----------------------------------------------------------------------------
(* The metrics.                                                            *)

\* round(part / total, 4).
Ratio(part, total) == (2 * Whole * part + total) \div (2 * total)

\* The places of the markers in a text; the marker at one is text[at].
ExtractInlineCitationIndices(text) == {at \in 1..Len(text) : text[at] # Word}

\* The numbers the markers name, each once.
Cited(text) == {text[at] : at \in ExtractInlineCitationIndices(text)}

\* Mutant: a marker counts without an entry for it.
ResolvesUnlisted(index, citations, valid) ==
  index \in 1..Len(citations) => citations[index] \in Linked

\* A marker resolves if the list has that entry, with a URL, and the URL is one
\* of the reference URLs when there are any.
Resolves(index, citations, valid) ==
  /\ index \in 1..Len(citations)
  /\ citations[index] \in Linked
  /\ valid # {} => citations[index] \in valid

CitationPrecision(text, citations, valid) ==
  LET indices == ExtractInlineCitationIndices(text) IN
    IF indices = {} THEN 0
    ELSE Ratio(Cardinality({at \in indices : Resolves(text[at], citations, valid)}),
               Cardinality(indices))

CitationRecall(text, total) ==
  IF total <= 0 THEN 0
  ELSE Ratio(Cardinality(Cited(text) \cap 1..total), total)

\* matching are the findings whose snippet holds one of the keywords; without a
\* keyword everything is relevant.
RetrievalRelevance(findings, keywords, matching) ==
  IF findings = <<>> THEN 0
  ELSE IF ~keywords THEN Whole
  ELSE Ratio(Cardinality({i \in 1..Len(findings) : findings[i] \in matching}), Len(findings))

HallucinationRate(issues, claims) ==
  IF claims <= 0 THEN 0 ELSE Min({Whole, Ratio(issues, claims)})

Stages == {"plan", "research_findings", "draft_report", "citations", "quality_score"}

\* Mutant: the stage is complete once its agent has run.
MissingKeys(state) == Stages \ DOMAIN state

DraftText(state) == Get(state, "draft_report", [text |-> ""]).text

\* bool() of the two texts, the length of the two lists, "is not None" of the
\* score: a stage also counts as missing if its agent ran and left nothing.
MissingStages(state) ==
  {stage \in {"plan"} : Get(state, "plan", "") = ""}
    \cup {stage \in {"research_findings", "citations"} : Get(state, stage, <<>>) = <<>>}
    \cup {stage \in {"draft_report"} : DraftText(state) = ""}
    \cup ({"quality_score"} \ DOMAIN state)

CompletionRate(state) ==
  Ratio(Cardinality(Stages) - Cardinality(MissingStages(state)), Cardinality(Stages))

-----------------------------------------------------------------------------
(* The harness: two scripted agents on one benchmark item.                 *)

Items ==
  [mock_findings : BoundedSeq(Finding, MaxItemFindings), references : SUBSET Finding,
   matching : SUBSET Finding, assertions : 0..MaxAssertions]

\* Baseline: the first finding, one marker if there is one.
BaselineFindings(item) ==
  IF item.mock_findings = <<>> THEN <<>> ELSE <<item.mock_findings[1]>>

BaselineText(item) == IF item.mock_findings = <<>> THEN <<Word>> ELSE <<Word, 1>>

\* Improved: all findings, two markers if there are two, else one.
ImprovedText(item) == IF Len(item.mock_findings) >= 2 THEN <<1, Word, 2>> ELSE <<Word, 1>>

\* The state either agent leaves for the completion metric.
FinalState(findings) ==
  [plan |-> "text", research_findings |-> findings, draft_report |-> [text |-> "text"],
   citations |-> findings, quality_score |-> 0]

\* The scores of one variant, given what it retrieved, wrote and made up.
Result(item, findings, text, hallucinations) ==
  [relevance     |-> RetrievalRelevance(findings, TRUE, item.matching),
   precision     |-> CitationPrecision(text, findings, item.references),
   recall        |-> CitationRecall(text, Len(item.mock_findings)),
   hallucination |-> HallucinationRate(hallucinations, item.assertions),
   completion    |-> CompletionRate(FinalState(findings))]

Baseline(item) ==
  Result(item, BaselineFindings(item), BaselineText(item), Max({1, item.assertions \div 2}))

Improved(item) == Result(item, item.mock_findings, ImprovedText(item), 0)

\* The average of one score over the items of an experiment.
Average(results, key) ==
  LET sum[n \in 0..Len(results)] == IF n = 0 THEN 0 ELSE results[n][key] + sum[n - 1] IN
    IF results = <<>> THEN 0 ELSE Ratio(sum[Len(results)], Whole * Len(results))

\* An item whose findings all are references, with a URL and a keyword in the
\* snippet, as those of the dataset are: one finding stands for all of them.
ItemOf(f, n) ==
  [mock_findings |-> [i \in 1..n |-> f], references |-> {f}, matching |-> {f}, assertions |-> 2]

BenchmarkDataset(f) == <<ItemOf(f, 2), ItemOf(f, 1), ItemOf(f, 1)>>

\* Both variants over the dataset, in its order.
ComparativeExperiment(dataset) ==
  [baseline |-> [i \in DOMAIN dataset |-> Baseline(dataset[i])],
   improved |-> [i \in DOMAIN dataset |-> Improved(dataset[i])]]

-----------------------------------------------------------------------------
(* Properties.                                                             *)

\* The metrics, read from the worker's copy, say of a finished run what happened
\* in the graph: the LLM's empty plan costs it that stage, the empty text of the
\* last draft that one, a web search that found nothing in any pass exactly two,
\* and nothing else is ever missing, whatever was reviewed and approved; and a
\* report that cites only sources its writer was shown, all of them with a URL,
\* has precision one, so no agent after the writer moved an entry of the list.
MetricsTellTheRun ==
  next = "END" =>
    /\ \A stage \in Stages :
         stage \in MissingStages(merged) <=>
           CASE stage = "plan"         -> channels["plan"] = ""
             [] stage = "draft_report" -> channels["draft_report"].text = ""
             [] stage \in {"research_findings", "citations"} -> Findings(channels) = <<>>
             [] OTHER                  -> FALSE
    /\ \A text \in BoundedSeq(TextWords, MaxWords) :
         LET shown == channels["draft_report"].sources IN
           Cited(text) # {} =>
             (CitationPrecision(text, channels["citations"], {}) = Whole
                <=> Cited(text) \subseteq {i \in 1..Len(shown) : shown[i] \in Linked})

\* What the comparison is worth: "Improved agent must outperform naive baseline"
\* on the dataset, score by score.  For any other item it has no lower recall
\* and no higher hallucination rate, and a lower precision only if a source it
\* cites is no reference; an item without findings scores nothing for either
\* agent, though the improved one still writes a marker.
ComparisonIsSound ==
  next = "planner" /\ steps = 0 =>
    /\ \A f \in Linked :
         LET run == ComparativeExperiment(BenchmarkDataset(f)) IN
           /\ \A key \in {"precision", "recall", "relevance", "completion"} :
                Average(run.baseline, key) <= Average(run.improved, key)
           /\ Average(run.baseline, "hallucination") >= Average(run.improved, "hallucination")
    /\ \A item \in Items :
         LET base == Baseline(item)
             impr == Improved(item) IN
           /\ item.mock_findings = <<>> =>
                /\ {base.precision, base.recall, base.relevance} = {0}
                /\ {impr.precision, impr.recall, impr.relevance} = {0}
           /\ base.recall <= impr.recall
           /\ base.hallucination >= impr.hallucination
           /\ base.completion = impr.completion
           /\ impr.precision < base.precision =>
                \E i \in 2..Len(item.mock_findings) :
                  \/ item.mock_findings[i] \notin Linked
                  \/ item.references # {} /\ item.mock_findings[i] \notin item.references

-----------------------------------------------------------------------------
(* The inductive invariant of the proofs.                                  *)

\* Which of the stages a run has left behind at which node.
StageInv ==
  /\ next \in (Agents \ {"planner"}) \cup {"END"} => Has("plan")
  /\ next \in {"evaluation", "memory", "END"} => Has("citations")
  /\ next \in {"memory", "END"} => Has("quality_score")
=============================================================================
