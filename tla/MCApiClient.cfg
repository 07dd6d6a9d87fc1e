\* Two tabs of one browser, every failure.
SPECIFICATION Spec
CONSTANTS
  t1 = t1
  t2 = t2
  c1 = c1
  c2 = c2
  c3 = c3
  Existing = Existing
  Stranger = Stranger
  Tab = {t1, t2}
  Call = {c1, c2, c3}
  TabOf <- MCTabOf
  Purpose <- MCPurpose
  Closing = {t2}
  Request <- MCRequest
  Ageing = {1}
  Faults <- MCFaults
INVARIANTS
  OnePersonOneAccount
  RefusalsHaveAReason
  StoredTokenIsLive
PROPERTIES
  CallsSettle
