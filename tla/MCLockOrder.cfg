\* Three transactions of every kind, with PostgreSQL's deadlock detector.
CONSTANTS
  x1 = x1  x2 = x2  x3 = x3  p1 = p1  p2 = p2  k1 = k1 
  Tx = {x1, x2, x3}
  Product = {p1, p2}
  Trade = {1, 2, 3}
  ProductOf <- ProductOfTrade
  LockNumber = {k1}
  Kind = {"act", "accept", "create", "mutate", "comment", "review"}
SPECIFICATION DetectorSpec
INVARIANT
  OnlyReviewsDeadlock
PROPERTY
  EveryoneFinishes
