\* The promise of a comment in tasks.py, with a database that may fail.
SPECIFICATION Spec
CONSTANTS
  d1 = d1
  d2 = d2
  Document = {d1, d2}
  Worker = {w1, w2}
  ChunkCounts <- MCChunkCounts
  MaxDuplicates = 0
  Faults <- MCDatabaseError
INVARIANTS
  NoDocumentStuck
