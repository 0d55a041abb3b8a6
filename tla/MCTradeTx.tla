------------------------------- MODULE MCTradeTx -------------------------------
(* Requests for checking TradeTx: see MCTradeTx*.cfg. *)
EXTENDS TradeTx, TLC

CONSTANTS s1, b1, b2, p1, t1, t2, low, high, k1, w1, w2

Publishing == [op |-> "product.create", actor |-> s1, price |-> low]
Creating(a, conv, k) ==
  [op |-> "trade.create", actor |-> a, product |-> p1, conv |-> conv, key |-> k]
Acting(op, a, t, k) == [op |-> op, actor |-> a, trade |-> t, key |-> k]
Changing(op) == [op |-> op, actor |-> s1, product |-> p1, price |-> high]

(* Two buyers compete, one of them asks twice, while the seller edits, takes
   off the shelf, relists and accepts. *)
Race ==
  {Publishing, Creating(b1, "absent", NoKey), Creating(b1, "null", NoKey),
   Creating(b2, "own", NoKey), Acting("trade.accept", s1, t1, NoKey),
   Changing("product.update"), Changing("product.off_shelf"), Changing("product.relist")}

(* One deal and everything that can end it. *)
Deal ==
  {Publishing, Creating(b1, "absent", k1), Acting("trade.accept", s1, t1, k1),
   Acting("trade.confirm", s1, t1, k1), Acting("trade.confirm", b1, t1, NoKey),
   Acting("trade.cancel", b1, t1, NoKey), Acting("trade.reject", s1, t1, NoKey),
   [op |-> "review.create", actor |-> b1, trade |-> t1]}

Once(r) == 1
CreationTwice(r) == IF r.op = "trade.create" THEN 2 ELSE 1

(* Two commands of the seller hash to the same lock number. *)
LockOf(id) == IF id.actor = s1 THEN s1 ELSE id

Symmetry == Permutations(Worker)
=============================================================================
