\* Commands without Idempotency-Key: three users, two products, three intents.
CONSTANTS
  User = {u1, u2, u3}
  Product = {p1, p2}
  Trade = {t1, t2, t3}
  Price = {low}
  Key = {}
  NoKey = NoKey
SPECIFICATION Spec
SYMMETRY Symmetry
INVARIANTS
  TypeOK
  ReservationMatchesTrade
  OneDealPerProduct
  OneActiveIntent
  TradeEventsTellStatus
  ProductEventsTellDeal
  OneReviewPerProduct
PROPERTIES
  HistoryIsFinal
