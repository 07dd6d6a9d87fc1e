\* The promise of a comment in auth_service.py, with two tabs that find their
\* access token expired.
SPECIFICATION Spec
CONSTANTS
  t1 = t1
  t2 = t2
  c1 = c1
  c2 = c2
  c3 = c3
  Existing = Existing
  Stranger = Stranger
  Tab = {t1, t2}
  Call = {c1, c2, c3}
  TabOf <- MCTabOf
  Purpose <- MCApiOnly
  Closing = {}
  Request <- MCRequest
  Ageing = {}
  Faults <- MCNoFaults
INVARIANTS
  TokensSingleUse
