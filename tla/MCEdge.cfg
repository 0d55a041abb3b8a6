\* Three limited clients and a table for two; readings late by one tick.
CONSTANTS
  a1 = a1  a2 = a2  ip1 = ip1  ip2 = ip2  u1 = u1  s1 = s1  s2 = s2
  Null = Null
  Slot = {s1, s2}
  Request <- Traffic
  TrustProxyHeaders = TRUE
  LimitOf <- Budgets
  Window = 4
  MaxKeys = 2
  Second = 2
  Delay = 1
  MaxBody = 1
  MaxUpload = 2
  TTL = 3
  Leeway = 2
  Skew = 1
  MaxTime = 8
  MaxRequests = 4
SPECIFICATION Spec
SYMMETRY EdgeSymmetry
INVARIANTS
  TwoWindowsAtMost
  FullTableIsRecent
  RetryAfterIsKept
  SessionsLastAsTold
\* The clock stops at MaxTime and clients after MaxRequests requests.
CHECK_DEADLOCK FALSE
