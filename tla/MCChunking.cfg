\* Every text of up to four paragraphs of these lengths.
SPECIFICATION Spec
CONSTANTS
  ChunkSize = 7
  ChunkOverlap = 3
  Lengths <- MCLengths
  MaxParagraphs = 4
INVARIANTS
  ChunksFit
  ChunksCover
  FactsStayWhole
  ChunksOverlap
