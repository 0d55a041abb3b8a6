\* Two requests at a time on one product; every message may be sent again.
CONSTANTS
  b1 = b1  s1 = s1  p1 = p1  k1 = k1  c1 = c1  c2 = c2  w1 = w1  w2 = w2
  User = {b1, s1}
  Product = {p1}
  SellerOf <- SoldBy
  Conv = {c1, c2}
  Key = {k1}
  NoKey = NoKey
  LockId <- LockOf
  Worker = {w1, w2}
  Request <- Chat
  MaxSends = 5
  MaxTime = 2
  Random <- Drawn
  Bytes = 2
  MaxByte = 3
  Limit = 1
SPECIFICATION Spec
SYMMETRY Symmetry
INVARIANTS
  WalksAreSnapshots
  AnswersAreTrue
  SentOnce
  EventsTellMessages
PROPERTY
  ImplementsLog
\* Clients stop after MaxSends requests.
CHECK_DEADLOCK FALSE
