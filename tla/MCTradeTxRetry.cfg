\* Two workers, each keyed request sent twice, at once or after a failure.
CONSTANTS
  s1 = s1  b1 = b1  b2 = b2  p1 = p1  t1 = t1  t2 = t2  low = low  high = high  k1 = k1  w1 = w1  w2 = w2
  User = {s1, b1}
  Product = {p1}
  Trade = {t1}
  Price = {low, high}
  Key = {k1}
  NoKey = NoKey
  Worker = {w1, w2}
  Request <- Deal
  MaxSends <- CreationTwice
  LockId <- LockOf
SPECIFICATION FairSpec
INVARIANTS
  LocksSuffice
  RepliesAreDurable
PROPERTIES
  ImplementsMarketplace
  RequestsEnd
\* Clients stop after MaxSends requests.
CHECK_DEADLOCK FALSE
