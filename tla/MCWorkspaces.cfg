\* Two users with a tab each; requests end when ids are used up.
SPECIFICATION Spec
CONSTANTS
  ann = ann
  ben = ben
  annsTab = annsTab
  bensTab = bensTab
  User = {ann, ben}
  Project = {p1, p2}
  Document = {d1, d2}
  Session = {s1}
  Client = {annsTab, bensTab}
  account <- MCAccount
  TopK = 1
SYMMETRY Symmetry
INVARIANTS
  AnswersAreOwn
PROPERTIES
  DeletedStaysAway
CHECK_DEADLOCK FALSE
