\* One key reused across operations and trades, two competing buyers.
CONSTANTS
  User = {u1, u2, u3}
  Product = {p1}
  Trade = {t1, t2}
  Price = {low}
  Key = {k1}
  NoKey = NoKey
SPECIFICATION Spec
SYMMETRY Symmetry
INVARIANTS
  LedgerTellsTruth
  OneRecordedEffect
