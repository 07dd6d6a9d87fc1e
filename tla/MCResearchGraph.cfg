\* LangGraph's limit of 25 and a cap whose longest run needs one node more.
SPECIFICATION Spec
CONSTANTS
  f1 = f1
  f2 = f2
  Finding = {f1, f2}
  Chunk = {c1}
  MaxFindings = 1
  MaxChunks = 1
  ScoreReplies <- MCScoreReplies
  StartCounts <- MCStartCounts
  MaxRevisionLoops = 5
  RecursionLimit = 25
  Linked = {f1}
  TextWords <- MCTextWords
  MaxWords = 2
  MaxItemFindings = 3
  MaxAssertions = 3
INVARIANTS
  TypeOK
  MergedStateMatchesGraph
  CitationsMatchDraft
  DraftRestsOnCheckedEvidence
  PublishedDraftWasReviewed
  GatesOverruledOnlyAtCap
  RevisionCountBound
  RunLengthBound
  OutOfStepsOnlyOverBudget
  MetricsTellTheRun
  ComparisonIsSound
PROPERTIES
  EventuallyReported
