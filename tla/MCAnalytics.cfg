\* Two sessions on two workers, one of them with a task the broker may deliver
\* twice; publishes, processes and nodes fail and rows are removed; one overview
\* read meanwhile.
SPECIFICATION DashboardSpec
CONSTANTS
  Session = {s1, s2}
  Worker = {w1, w2}
  RunLengths <- MCShortRuns
  Revisions <- MCOneRevision
  Repeated = {s2}
  MaxDuplicates = 1
  ActivityLimit = 4
  Faults <- MCMixedFaults
SYMMETRY MCWorkers
INVARIANTS
  SingleDeliveryInv
  FeedTellsTheRun
  ReportMatchesRow
  OverviewAgrees
PROPERTIES
  RefinesLifecycle
