\* One session whose task is delivered up to three times to two workers, with
\* every failure.
SPECIFICATION Spec
CONSTANTS
  Session = {s1}
  Worker = {w1, w2}
  RunLengths <- MCRunLengths
  Revisions <- MCRevisions
  Repeated = {s1}
  MaxDuplicates = 2
  Faults <- MCFaults
INVARIANTS
  FeedFollowsDatabase
