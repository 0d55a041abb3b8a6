------------------------------ MODULE MCLockOrder ------------------------------
(* Instances of LockOrder: see MCLockOrder*.cfg. *)
EXTENDS LockOrder
CONSTANTS x1, x2, x3, p1, p2, k1

(* Two intents on the first product, one on the second. *)
ProductOfTrade == [t \in Trade |-> IF t = 3 THEN p2 ELSE p1]
=============================================================================
