\* Two documents and two workers: every failure for the one, two deliveries of
\* the other.
SPECIFICATION Spec
CONSTANTS
  d1 = d1
  d2 = d2
  Document = {d1, d2}
  Worker = {w1, w2}
  ChunkCounts <- MCChunkCounts
  MaxDuplicates = 1
  Faults <- MCMixedFaults
INVARIANTS
  BatchesMatchEvents
  ShownIsFinal
PROPERTIES
  RefinesDocumentLifecycle
  DocumentsSettle
  PageSettles
