\* Nothing fails: the page subscribes after the terminal event was published.
SPECIFICATION LiveSpec
CONSTANTS
  Session = {s1}
  Worker = {w1}
  Page = {p1}
  RunLengths <- MCRunLengths
  Revisions <- MCRevisions
  Repeated = {}
  MaxDuplicates = 0
  Faults <- MCNoFaults
PROPERTIES
  SocketClosesItself
