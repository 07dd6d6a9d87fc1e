\* One page that looks at two sessions, one worker.
SPECIFICATION LiveSpec
CONSTANTS
  Session = {s1, s2}
  Worker = {w1}
  Page = {p1}
  RunLengths <- MCRunLengths
  Revisions <- MCRevisions
  Repeated = {}
  MaxDuplicates = 0
  Faults <- MCSettlingFaults
INVARIANTS
  ShownFollowsRow
  LiveTraceComplete
  NoSessionStuck
PROPERTIES
  SubscriberLearns
  SessionsSettle
