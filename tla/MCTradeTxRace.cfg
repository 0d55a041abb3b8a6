\* Two workers, each request sent once: commands on one product race.
CONSTANTS
  s1 = s1  b1 = b1  b2 = b2  p1 = p1  t1 = t1  t2 = t2  low = low  high = high  k1 = k1  w1 = w1  w2 = w2
  User = {s1, b1, b2}
  Product = {p1}
  Trade = {t1, t2}
  Price = {low, high}
  Key = {}
  NoKey = NoKey
  Worker = {w1, w2}
  Request <- Race
  MaxSends <- Once
  LockId <- LockOf
SPECIFICATION Spec
SYMMETRY Symmetry
PROPERTY
  ImplementsMarketplace
\* Clients stop after MaxSends requests.
CHECK_DEADLOCK FALSE
