---------------------------- MODULE LockOrderProofs ----------------------------
(***************************************************************************)
(* Proofs about LockOrder, for any number of transactions, products,       *)
(* trades and keys.                                                        *)
(***************************************************************************)
EXTENDS LockOrder, WellFoundedInduction, TLAPS

(* What a transaction is doing, by kind. *)
ActState ==
  {r \in [pc : {"key", "product", "trade", "commit"}, kind : {"act", "accept"},
          key : LockNumber, product : Product, trade : Trade] :
     r.product = ProductOf[r.trade]}
CreateState ==
  [pc : {"key", "product", "commit"}, kind : {"create"}, key : LockNumber, product : Product]
CreateTradeState ==
  {r \in [pc : {"trade", "commit"}, kind : {"create"}, product : Product, trade : Trade] :
     r.product = ProductOf[r.trade]}
ProductState ==
  [pc : {"product", "commit"}, kind : {"mutate", "comment"}, product : Product]
ReviewState ==
  [pc : {"trade", "product", "commit"}, kind : {"review"}, product : Product, trade : Trade]
RivalsState ==
  {r \in [pc : {"rivals"}, kind : {"accept"}, product : Product, rivals : SUBSET Trade] :
     r.rivals # {} /\ r.rivals \subseteq TradesOf(r.product)}
AcceptedState == [pc : {"commit"}, kind : {"accept"}]
TxState ==
  {Idle} \cup ActState \cup CreateState \cup CreateTradeState \cup ProductState
    \cup ReviewState \cup RivalsState \cup AcceptedState

TypeInv ==
  /\ tx \in [Tx -> TxState]
  /\ held \subseteq [tx : Tx, row : Row, mode : Mode]

Update(x, row) == [tx |-> x, row |-> row, mode |-> "update"]

(* Locks in conflicting modes have one owner. *)
Exclusive ==
  \A g, h \in held : g.row = h.row /\ "update" \in {g.mode, h.mode} => g.tx = h.tx

(* Who holds a trade, unless it is a review, holds its product for update. *)
TradesUnderProduct ==
  \A h \in held :
    h.row \in Trade /\ tx[h.tx].kind # "review" => Update(h.tx, ProductOf[h.row]) \in held

(* A transaction holds what its progress says, and nothing before that.    *)
Progress ==
  \A x \in Tx :
    /\ tx[x].pc \in {"idle", "key"} => \A h \in held : h.tx # x
    /\ tx[x].pc = "product" /\ tx[x].kind # "review" =>
         \A h \in held : h.tx = x => h.row \in LockNumber
    /\ tx[x].pc \in {"trade", "rivals"} /\ tx[x].kind # "review" =>
         Update(x, tx[x].product) \in held

IInv == TypeInv /\ Exclusive /\ TradesUnderProduct /\ Progress

-----------------------------------------------------------------------------
(* A nonempty set of trades has a lowest one. *)
LEMMA LowestIsMember ==
  ASSUME NEW S \in SUBSET Trade, S # {}
  PROVE  Lowest(S) \in S
  <1>1. S \subseteq Nat
    BY LockOrderAssumption
  <1>2. PICK t \in S : \A u \in S : ~(<<u, t>> \in OpToRel(<, Nat))
    BY <1>1, NatLessThanWellFounded, WFMin
  <1>3. \A u \in S : ~(u < t)
    BY <1>1, <1>2 DEF OpToRel
  <1>4. \A u \in S : t <= u
    BY <1>1, <1>3
  <1> QED
    BY <1>4 DEF Lowest

(* What a waiting transaction wants, by the step it is at. *)
LEMMA WantedRow ==
  ASSUME TypeInv, NEW x \in Tx, Waiting(x)
  PROVE  /\ Wanted(x) \in Row
         /\ ModeOf(tx[x].kind) \in Mode
         /\ tx[x].pc = "key" => Wanted(x) \in LockNumber
         /\ tx[x].pc = "product" => Wanted(x) \in Product
         /\ tx[x].pc \in {"trade", "rivals"} => Wanted(x) \in Trade
         /\ tx[x].pc \in {"trade", "rivals"} /\ tx[x].kind # "review" =>
              /\ tx[x].product = ProductOf[Wanted(x)]
              /\ ModeOf(tx[x].kind) = "update"
  <1>1. tx[x] \in TxState \ {Idle}
    BY DEF TypeInv, Waiting, Idle
  <1>2. ModeOf(tx[x].kind) \in Mode
    BY DEF ModeOf, Mode
  <1>3. CASE tx[x] \in ActState
    BY <1>2, <1>3 DEF Waiting, ActState, Wanted, ModeOf, Row
  <1>4. CASE tx[x] \in CreateState
    BY <1>2, <1>4 DEF Waiting, CreateState, Wanted, ModeOf, Row
  <1>5. CASE tx[x] \in CreateTradeState
    BY <1>2, <1>5 DEF Waiting, CreateTradeState, Wanted, ModeOf, Row
  <1>6. CASE tx[x] \in ProductState
    BY <1>2, <1>6 DEF Waiting, ProductState, Wanted, ModeOf, Row
  <1>7. CASE tx[x] \in ReviewState
    BY <1>2, <1>7 DEF Waiting, ReviewState, Wanted, ModeOf, Row
  <1>8. CASE tx[x] \in RivalsState
    <2>1. /\ tx[x].pc = "rivals" /\ tx[x].kind = "accept"
          /\ tx[x].rivals \in SUBSET Trade /\ tx[x].rivals # {}
          /\ tx[x].rivals \subseteq TradesOf(tx[x].product)
      BY <1>8 DEF RivalsState
    <2>2. Wanted(x) = Lowest(tx[x].rivals)
      BY <2>1 DEF Wanted
    <2>3. Wanted(x) \in TradesOf(tx[x].product)
      BY <2>1, <2>2, LowestIsMember
    <2> QED
      BY <1>2, <2>1, <2>3 DEF TradesOf, ModeOf, Row
  <1>9. CASE tx[x] \in AcceptedState
    BY <1>9 DEF Waiting, AcceptedState
  <1> QED
    BY <1>1, <1>3, <1>4, <1>5, <1>6, <1>7, <1>8, <1>9 DEF TxState

-----------------------------------------------------------------------------
(* Taking the wanted lock and going on to state r keeps the invariant, if  *)
(* r comes next in the lock order.                                         *)
LEMMA TakeKeepsInv ==
  ASSUME IInv, NEW x \in Tx, Waiting(x), Take(x),
         NEW r \in TxState, tx' = [tx EXCEPT ![x] = r],
         r.kind = tx[x].kind,
         r.pc \notin {"idle", "key"},
         r.pc = "product" /\ r.kind # "review" => tx[x].pc = "key",
         r.pc \in {"trade", "rivals"} /\ r.kind # "review" =>
           /\ r.product = tx[x].product
           /\ tx[x].pc = "product" => r.kind \in {"act", "accept", "create"}
           /\ tx[x].pc # "key"
  PROVE  IInv'
  <1> DEFINE new == [tx |-> x, row |-> Wanted(x), mode |-> ModeOf(tx[x].kind)]
  <1>1. /\ held' = held \cup {new}
        /\ \A h \in held : h.row = new.row /\ "update" \in {h.mode, new.mode} => h.tx = x
    BY DEF Take, Holders
  <1>2. /\ tx \in [Tx -> TxState] /\ tx'[x] = r
        /\ \A y \in Tx \ {x} : tx'[y] = tx[y]
        /\ \A y \in Tx : tx'[y].kind = tx[y].kind
    BY DEF IInv, TypeInv
  <1>3. held \subseteq [tx : Tx, row : Row, mode : Mode]
    BY DEF IInv, TypeInv
  <1>4. new \in [tx : Tx, row : Row, mode : Mode]
    BY WantedRow DEF IInv
  <1>5. TypeInv'
    BY <1>1, <1>2, <1>3, <1>4 DEF TypeInv, TxState, ActState, CreateState, CreateTradeState,
      ProductState, ReviewState, RivalsState, AcceptedState, Idle, Row, Mode, TradesOf
  <1>6. Exclusive'
    BY <1>1 DEF IInv, Exclusive
  <1>7. TradesUnderProduct'
    <2> SUFFICES ASSUME NEW h \in held', h.row \in Trade, tx'[h.tx].kind # "review"
                 PROVE  Update(h.tx, ProductOf[h.row]) \in held'
      BY DEF TradesUnderProduct, Update
    <2>1. CASE h \in held
      BY <1>1, <1>2, <1>3, <2>1 DEF IInv, TradesUnderProduct
    <2>2. CASE h = new
      <3>1. tx[x].pc \in {"trade", "rivals"} /\ tx[x].kind # "review"
        BY <1>2, <2>2, WantedRow, LockOrderAssumption DEF IInv, Waiting
      <3>2. tx[x].product = ProductOf[h.row]
        BY <2>2, <3>1, WantedRow DEF IInv
      <3>3. Update(x, tx[x].product) \in held
        BY <3>1 DEF IInv, Progress
      <3> QED
        BY <1>1, <2>2, <3>2, <3>3
    <2> QED
      BY <1>1, <2>1, <2>2
  <1>8. Progress'
    <2> SUFFICES ASSUME NEW y \in Tx
                 PROVE  /\ tx'[y].pc \in {"idle", "key"} => \A h \in held' : h.tx # y
                        /\ tx'[y].pc = "product" /\ tx'[y].kind # "review" =>
                             \A h \in held' : h.tx = y => h.row \in LockNumber
                        /\ tx'[y].pc \in {"trade", "rivals"} /\ tx'[y].kind # "review" =>
                             Update(y, tx'[y].product) \in held'
      BY DEF Progress, Update
    <2>1. CASE y # x
      BY <1>1, <1>2, <2>1 DEF IInv, Progress
    <2>2. CASE y = x
      <3>1. tx'[x].pc \notin {"idle", "key"}
        BY <1>2
      <3>2. ASSUME tx'[x].pc = "product", tx'[x].kind # "review", NEW h \in held', h.tx = x
            PROVE  h.row \in LockNumber
        <4>1. tx[x].pc = "key" /\ \A g \in held : g.tx # x
          BY <1>2, <3>2 DEF IInv, Progress
        <4>2. h = new
          BY <1>1, <3>2, <4>1
        <4> QED
          BY <4>1, <4>2, WantedRow DEF IInv
      <3>3. ASSUME tx'[x].pc \in {"trade", "rivals"}, tx'[x].kind # "review"
            PROVE  Update(x, tx'[x].product) \in held'
        <4>1. /\ r.product = tx[x].product /\ tx[x].kind # "review"
              /\ tx[x].pc \in {"product", "trade", "rivals"}
          BY <1>2, <3>3 DEF Waiting
        <4>2. CASE tx[x].pc = "product"
          <5>1. ModeOf(tx[x].kind) = "update"
            BY <1>2, <3>3, <4>2 DEF ModeOf
          <5>2. Wanted(x) = tx[x].product
            BY <4>2 DEF Wanted
          <5> QED
            BY <1>1, <1>2, <4>1, <5>1, <5>2 DEF Update
        <4>3. CASE tx[x].pc \in {"trade", "rivals"}
          BY <1>1, <1>2, <4>1, <4>3 DEF IInv, Progress
        <4> QED
          BY <4>1, <4>2, <4>3
      <3> QED
        BY <2>2, <3>1, <3>2, <3>3
    <2> QED
      BY <2>1, <2>2
  <1> QED
    BY <1>5, <1>6, <1>7, <1>8 DEF IInv

(* A transaction that begins holds nothing yet. *)
LEMMA BeginKeepsInv ==
  ASSUME IInv, NEW x \in Tx, tx[x] = Idle, UNCHANGED held,
         NEW r \in TxState, tx' = [tx EXCEPT ![x] = r],
         r.pc \in {"trade", "rivals"} => r.kind = "review"
  PROVE  IInv'
  <1>1. \A h \in held : h.tx # x
    BY DEF IInv, Progress, Idle
  <1>2. /\ tx \in [Tx -> TxState] /\ tx'[x] = r
        /\ \A y \in Tx \ {x} : tx'[y] = tx[y]
        /\ held \subseteq [tx : Tx, row : Row, mode : Mode]
    BY DEF IInv, TypeInv
  <1>3. TypeInv'
    BY <1>2 DEF TypeInv, TxState, ActState, CreateState, CreateTradeState,
      ProductState, ReviewState, RivalsState, AcceptedState, Idle, Row, Mode, TradesOf
  <1>4. Exclusive'
    BY DEF IInv, Exclusive
  <1>5. TradesUnderProduct'
    BY <1>1, <1>2 DEF IInv, TradesUnderProduct, Update
  <1>6. Progress'
    BY <1>1, <1>2 DEF IInv, Progress, Update
  <1> QED
    BY <1>3, <1>4, <1>5, <1>6 DEF IInv

LEMMA EndKeepsInv ==
  ASSUME IInv, NEW x \in Tx, End(x)
  PROVE  IInv'
  <1>1. /\ tx \in [Tx -> TxState] /\ tx'[x] = Idle
        /\ \A y \in Tx \ {x} : tx'[y] = tx[y]
        /\ held' = {h \in held : h.tx # x}
        /\ held \subseteq [tx : Tx, row : Row, mode : Mode]
    BY DEF End, IInv, TypeInv
  <1>2. TypeInv'
    BY <1>1 DEF End, TypeInv, TxState, ActState, CreateState, CreateTradeState,
      ProductState, ReviewState, RivalsState, AcceptedState, Idle, Row, Mode, TradesOf
  <1>3. Exclusive'
    BY <1>1 DEF IInv, Exclusive
  <1>4. TradesUnderProduct'
    <2> SUFFICES ASSUME NEW h \in held', h.row \in Trade, tx'[h.tx].kind # "review"
                 PROVE  Update(h.tx, ProductOf[h.row]) \in held'
      BY DEF TradesUnderProduct, Update
    <2>1. h \in held /\ h.tx \in Tx \ {x}
      BY <1>1
    <2>2. Update(h.tx, ProductOf[h.row]) \in held
      BY <1>1, <2>1 DEF IInv, TradesUnderProduct
    <2> QED
      BY <1>1, <2>1, <2>2 DEF Update
  <1>5. Progress'
    <2> SUFFICES ASSUME NEW y \in Tx
                 PROVE  /\ tx'[y].pc \in {"idle", "key"} => \A h \in held' : h.tx # y
                        /\ tx'[y].pc = "product" /\ tx'[y].kind # "review" =>
                             \A h \in held' : h.tx = y => h.row \in LockNumber
                        /\ tx'[y].pc \in {"trade", "rivals"} /\ tx'[y].kind # "review" =>
                             Update(y, tx'[y].product) \in held'
      BY DEF Progress, Update
    <2>1. CASE y = x
      BY <1>1, <2>1 DEF Idle
    <2>2. CASE y # x
      BY <1>1, <2>2 DEF IInv, Progress, Update
    <2> QED
      BY <2>1, <2>2
  <1> QED
    BY <1>2, <1>3, <1>4, <1>5 DEF IInv

LEMMA BeginsKeepInv ==
  ASSUME IInv, NEW x \in Tx, Begin(x)
  PROVE  IInv'
  <1>1. ASSUME NEW kind \in {"act", "accept"}, NEW t \in Trade, NEW k \in LockNumber,
               NEW pc \in {"key", "product"}, tx[x] = Idle, UNCHANGED held,
               tx' = [tx EXCEPT ![x] = [pc |-> pc, kind |-> kind, key |-> k,
                                        product |-> ProductOf[t], trade |-> t]]
        PROVE  IInv'
    <2>1. [pc |-> pc, kind |-> kind, key |-> k, product |-> ProductOf[t], trade |-> t] \in TxState
      BY LockOrderAssumption DEF TxState, ActState
    <2> QED
      BY <1>1, <2>1, BeginKeepsInv
  <1>2. ASSUME NEW p \in Product, NEW k \in LockNumber, NEW pc \in {"key", "product"},
               tx[x] = Idle, UNCHANGED held,
               tx' = [tx EXCEPT ![x] = [pc |-> pc, kind |-> "create", key |-> k, product |-> p]]
        PROVE  IInv'
    <2>1. [pc |-> pc, kind |-> "create", key |-> k, product |-> p] \in TxState
      BY DEF TxState, CreateState
    <2> QED
      BY <1>2, <2>1, BeginKeepsInv
  <1>3. ASSUME NEW kind \in {"mutate", "comment"}, NEW p \in Product,
               tx[x] = Idle, UNCHANGED held,
               tx' = [tx EXCEPT ![x] = [pc |-> "product", kind |-> kind, product |-> p]]
        PROVE  IInv'
    <2>1. [pc |-> "product", kind |-> kind, product |-> p] \in TxState
      BY DEF TxState, ProductState
    <2> QED
      BY <1>3, <2>1, BeginKeepsInv
  <1>4. ASSUME NEW t \in Trade, tx[x] = Idle, UNCHANGED held,
               tx' = [tx EXCEPT ![x] = [pc |-> "trade", kind |-> "review",
                                        product |-> ProductOf[t], trade |-> t]]
        PROVE  IInv'
    <2>1. [pc |-> "trade", kind |-> "review", product |-> ProductOf[t], trade |-> t] \in TxState
      BY LockOrderAssumption DEF TxState, ReviewState
    <2> QED
      BY <1>4, <2>1, BeginKeepsInv
  <1> QED
    BY <1>1, <1>2, <1>3, <1>4 DEF Begin, BeginAct, BeginCreate, BeginProduct, BeginReview

LEMMA LockKeyKeepsInv ==
  ASSUME IInv, NEW x \in Tx, LockKey(x)
  PROVE  IInv'
  <1> DEFINE r == [tx[x] EXCEPT !.pc = "product"]
  <1>1. tx' = [tx EXCEPT ![x] = r] /\ Waiting(x) /\ tx[x].pc = "key" /\ Take(x)
    BY DEF LockKey, Go, Waiting
  <1>2. tx[x] \in ActState \cup CreateState
    BY <1>1 DEF IInv, TypeInv, TxState, Idle, CreateTradeState, ProductState, ReviewState,
      RivalsState, AcceptedState
  <1>3. r \in TxState /\ r.kind = tx[x].kind /\ r.pc = "product"
    <2>1. CASE tx[x] \in ActState
      BY <2>1 DEF TxState, ActState
    <2>2. CASE tx[x] \in CreateState
      BY <2>2 DEF TxState, CreateState
    <2> QED
      BY <1>2, <2>1, <2>2
  <1> HIDE DEF r
  <1> QED
    BY <1>1, <1>3, TakeKeepsInv

LEMMA LockProductKeepsInv ==
  ASSUME IInv, NEW x \in Tx, LockProduct(x)
  PROVE  IInv'
  <1>1. Waiting(x) /\ tx[x].pc = "product" /\ Take(x)
    BY DEF LockProduct, Waiting
  <1>2. tx[x] \in ActState \cup CreateState \cup ProductState \cup ReviewState
    BY <1>1 DEF IInv, TypeInv, TxState, Idle, CreateTradeState, RivalsState, AcceptedState
  <1>3. CASE tx[x].kind \in {"act", "accept"} /\ Go(x, "trade")
    <2> DEFINE r == [tx[x] EXCEPT !.pc = "trade"]
    <2>1. tx[x] \in ActState
      BY <1>2, <1>3 DEF CreateState, ProductState, ReviewState
    <2>2. /\ r \in TxState /\ r.kind = tx[x].kind /\ r.pc = "trade"
          /\ r.product = tx[x].product
      BY <2>1 DEF TxState, ActState
    <2>3. tx' = [tx EXCEPT ![x] = r]
      BY <1>3 DEF Go
    <2> HIDE DEF r
    <2> QED
      BY <1>1, <1>3, <2>2, <2>3, TakeKeepsInv
  <1>4. CASE tx[x].kind \in {"create", "mutate", "comment", "review"} /\ Go(x, "commit")
    <2> DEFINE r == [tx[x] EXCEPT !.pc = "commit"]
    <2>1. tx[x] \in CreateState \cup ProductState \cup ReviewState
      BY <1>2, <1>4 DEF ActState
    <2>2. r \in TxState /\ r.kind = tx[x].kind /\ r.pc = "commit"
      BY <2>1 DEF TxState, CreateState, ProductState, ReviewState
    <2>3. tx' = [tx EXCEPT ![x] = r]
      BY <1>4 DEF Go
    <2> HIDE DEF r
    <2> QED
      BY <1>1, <2>2, <2>3, TakeKeepsInv
  <1>5. ASSUME tx[x].kind = "create", NEW t \in TradesOf(tx[x].product),
               tx' = [tx EXCEPT ![x] = [pc |-> "trade", kind |-> "create",
                                        product |-> tx[x].product, trade |-> t]]
        PROVE  IInv'
    <2> DEFINE r == [pc |-> "trade", kind |-> "create", product |-> tx[x].product, trade |-> t]
    <2>1. tx[x].product \in Product
      BY <1>2 DEF ActState, CreateState, ProductState, ReviewState
    <2>2. r \in TxState
      BY <2>1 DEF TxState, CreateTradeState, TradesOf
    <2>3. /\ r.kind = tx[x].kind /\ r.pc = "trade" /\ r.product = tx[x].product
          /\ r.kind = "create"
      BY <1>5
    <2>4. tx' = [tx EXCEPT ![x] = r]
      BY <1>5
    <2> HIDE DEF r
    <2> QED
      BY <1>1, <2>2, <2>3, <2>4, TakeKeepsInv
  <1> QED
    BY <1>3, <1>4, <1>5 DEF LockProduct

(* Accepting ends with the trade it accepts, or goes on to its rivals.     *)
LEMMA LockTradeKeepsInv ==
  ASSUME IInv, NEW x \in Tx, LockTrade(x)
  PROVE  IInv'
  <1>1. Waiting(x) /\ tx[x].pc = "trade" /\ Take(x)
    BY DEF LockTrade, Waiting
  <1>2. tx[x] \in ActState \cup CreateTradeState \cup ReviewState
    BY <1>1 DEF IInv, TypeInv, TxState, Idle, CreateState, ProductState, RivalsState, AcceptedState
  <1>3. CASE tx[x].kind \in {"act", "create"} /\ Go(x, "commit")
    <2> DEFINE r == [tx[x] EXCEPT !.pc = "commit"]
    <2>1. r \in TxState /\ r.kind = tx[x].kind /\ r.pc = "commit"
      BY <1>2 DEF TxState, ActState, CreateTradeState, ReviewState
    <2>2. tx' = [tx EXCEPT ![x] = r]
      BY <1>3 DEF Go
    <2> HIDE DEF r
    <2> QED
      BY <1>1, <2>1, <2>2, TakeKeepsInv
  <1>4. CASE tx[x].kind = "review" /\ Go(x, "product")
    <2> DEFINE r == [tx[x] EXCEPT !.pc = "product"]
    <2>1. tx[x] \in ReviewState
      BY <1>2, <1>4 DEF ActState, CreateTradeState
    <2>2. r \in TxState /\ r.kind = tx[x].kind /\ r.pc = "product" /\ r.kind = "review"
      BY <2>1 DEF TxState, ReviewState
    <2>3. tx' = [tx EXCEPT ![x] = r]
      BY <1>4 DEF Go
    <2> HIDE DEF r
    <2> QED
      BY <1>1, <2>2, <2>3, TakeKeepsInv
  <1>5. ASSUME tx[x].kind = "accept", NEW R \in SUBSET (TradesOf(tx[x].product) \ {tx[x].trade}),
               tx' = [tx EXCEPT ![x] =
                 IF R = {} THEN [pc |-> "commit", kind |-> "accept"]
                 ELSE [pc |-> "rivals", kind |-> "accept", product |-> tx[x].product, rivals |-> R]]
        PROVE  IInv'
    <2>1. tx[x].product \in Product
      BY <1>2 DEF ActState, CreateTradeState, ReviewState
    <2>2. CASE R = {}
      <3> DEFINE r == [pc |-> "commit", kind |-> "accept"]
      <3>1. r \in TxState /\ r.kind = tx[x].kind /\ r.pc = "commit"
        BY <1>5 DEF TxState, AcceptedState
      <3>2. tx' = [tx EXCEPT ![x] = r]
        BY <1>5, <2>2
      <3> HIDE DEF r
      <3> QED
        BY <1>1, <3>1, <3>2, TakeKeepsInv
    <2>3. CASE R # {}
      <3> DEFINE r == [pc |-> "rivals", kind |-> "accept", product |-> tx[x].product, rivals |-> R]
      <3>1. r \in RivalsState
        BY <2>1, <2>3 DEF RivalsState, TradesOf
      <3>2. /\ r \in TxState /\ r.kind = tx[x].kind /\ r.pc = "rivals"
            /\ r.product = tx[x].product
        BY <1>5, <3>1 DEF TxState
      <3>3. tx' = [tx EXCEPT ![x] = r]
        BY <1>5, <2>3
      <3> HIDE DEF r
      <3> QED
        BY <1>1, <3>2, <3>3, TakeKeepsInv
    <2> QED
      BY <2>2, <2>3
  <1> QED
    BY <1>3, <1>4, <1>5 DEF LockTrade

LEMMA LockRivalKeepsInv ==
  ASSUME IInv, NEW x \in Tx, LockRival(x)
  PROVE  IInv'
  <1> DEFINE rest == tx[x].rivals \ {Wanted(x)}
  <1>1. Waiting(x) /\ tx[x].pc = "rivals" /\ Take(x)
    BY DEF LockRival, Waiting
  <1>2. tx[x] \in RivalsState
    BY <1>1 DEF IInv, TypeInv, TxState, Idle, ActState, CreateState, CreateTradeState,
      ProductState, ReviewState, AcceptedState
  <1>3. tx[x].kind = "accept"
    BY <1>2 DEF RivalsState
  <1>4. CASE rest = {}
    <2> DEFINE r == [pc |-> "commit", kind |-> "accept"]
    <2>1. r \in TxState /\ r.kind = tx[x].kind /\ r.pc = "commit"
      BY <1>3 DEF TxState, AcceptedState
    <2>2. tx' = [tx EXCEPT ![x] = r]
      BY <1>4 DEF LockRival
    <2> HIDE DEF r
    <2> QED
      BY <1>1, <2>1, <2>2, TakeKeepsInv
  <1>5. CASE rest # {}
    <2> DEFINE r == [tx[x] EXCEPT !.rivals = rest]
    <2>1. tx' = [tx EXCEPT ![x] = r]
      BY <1>5 DEF LockRival
    <2>2. r \in RivalsState /\ r.pc = "rivals" /\ r.kind = tx[x].kind /\ r.product = tx[x].product
      <3> HIDE DEF rest
      <3>1. rest \subseteq tx[x].rivals
        BY DEF rest
      <3> QED
        BY <1>2, <1>5, <3>1 DEF RivalsState
    <2>3. r \in TxState
      BY <2>2 DEF TxState
    <2> HIDE DEF r
    <2> QED
      BY <1>1, <2>1, <2>2, <2>3, TakeKeepsInv
  <1> QED
    BY <1>4, <1>5

LEMMA Inductive ==
  ASSUME IInv, [Next]_vars
  PROVE  IInv'
  <1>1. CASE UNCHANGED vars
    BY <1>1 DEF vars, IInv, TypeInv, Exclusive, TradesUnderProduct, Progress, TxState, ActState,
      CreateState, CreateTradeState, ProductState, ReviewState, RivalsState, AcceptedState,
      Idle, Row, Mode, TradesOf, Update
  <1>2. ASSUME NEW x \in Tx, Begin(x) \/ Lock(x) \/ Commit(x) \/ Abort(x)
        PROVE  IInv'
    <2>1. CASE Begin(x)
      BY <2>1, BeginsKeepInv
    <2>2. CASE Lock(x)
      BY <2>2, LockKeyKeepsInv, LockProductKeepsInv, LockTradeKeepsInv, LockRivalKeepsInv DEF Lock
    <2>3. CASE Commit(x) \/ Abort(x)
      BY <2>3, EndKeepsInv DEF Commit, Abort
    <2> QED
      BY <1>2, <2>1, <2>2, <2>3
  <1> QED
    BY <1>1, <1>2 DEF Next

-----------------------------------------------------------------------------
(* Without reviews there is an order: key waiters wait for those past the  *)
(* key, product waiters for those past the product, and those for nobody.  *)
LEMMA NoReviewNoCircle ==
  ASSUME IInv, NEW S \in SUBSET Tx, \A x \in S : tx[x].kind # "review"
  PROVE  ~Stuck(S)
  <1> SUFFICES ASSUME Stuck(S)
               PROVE  FALSE
    OBVIOUS
  <1>1. ASSUME NEW x \in S, NEW y \in S, WaitsFor(x, y)
        PROVE  /\ Waiting(x) /\ Waiting(y) /\ x # y
               /\ \E h \in held : h.tx = y /\ h.row = Wanted(x)
                                  /\ "update" \in {h.mode, ModeOf(tx[x].kind)}
    BY <1>1 DEF Stuck, WaitsFor, Holders
  <1>2. ASSUME NEW x \in S, tx[x].pc \in {"trade", "rivals"}
        PROVE  FALSE
    <2>1. PICK y \in S : WaitsFor(x, y)
      BY DEF Stuck
    <2>2. PICK h \in held : h.tx = y /\ h.row = Wanted(x)
      BY <1>1, <2>1
    <2>3. Waiting(x) /\ x # y
      BY <1>1, <2>1
    <2>4. h.row \in Trade /\ tx[x].product = ProductOf[h.row]
      BY <1>2, <2>2, <2>3, WantedRow DEF IInv
    <2>5. Update(y, tx[x].product) \in held
      BY <2>2, <2>4 DEF IInv, TradesUnderProduct
    <2>6. Update(x, tx[x].product) \in held
      BY <1>2 DEF IInv, Progress
    <2> QED
      BY <2>3, <2>5, <2>6 DEF IInv, Exclusive, Update
  <1>3. ASSUME NEW x \in S, tx[x].pc = "product"
        PROVE  FALSE
    <2>1. PICK y \in S : WaitsFor(x, y)
      BY DEF Stuck
    <2>2. PICK h \in held : h.tx = y /\ h.row = Wanted(x)
      BY <1>1, <2>1
    <2>3. Waiting(x) /\ Waiting(y)
      BY <1>1, <2>1
    <2>4. h.row \notin LockNumber
      BY <1>3, <2>2, <2>3, WantedRow, LockOrderAssumption DEF IInv
    <2>5. tx[y].pc \in {"key", "product"}
      BY <1>2, <2>3 DEF Waiting
    <2> QED
      BY <2>2, <2>4, <2>5 DEF IInv, Progress
  <1>4. ASSUME NEW x \in S
        PROVE  FALSE
    <2>1. PICK y \in S : WaitsFor(x, y)
      BY DEF Stuck
    <2>2. PICK h \in held : h.tx = y
      BY <1>1, <2>1
    <2>3. tx[y].pc = "key"
      BY <1>1, <1>2, <1>3, <2>1 DEF Waiting
    <2> QED
      BY <2>2, <2>3 DEF IInv, Progress
  <1> QED
    BY <1>4 DEF Stuck

(* The strengthened invariant: who holds what, and in which order.         *)
THEOREM LocksOrdered == Spec => []IInv
  <1>1. Init => IInv
    BY DEF Init, IInv, TypeInv, Exclusive, TradesUnderProduct, Progress, TxState, Idle
  <1> QED
    BY <1>1, Inductive, PTL DEF Spec

(* Commands, product changes and comments never wait for each other in a   *)
(* circle, for any number of them on any products, trades and keys: the    *)
(* lock order of TradeTx, and the Product lock above every trade lock,     *)
(* leave no circle without a review in it.                                 *)
THEOREM CirclesNeedReviews == Spec => []OnlyReviewsDeadlock
  <1>1. IInv => OnlyReviewsDeadlock
    BY NoReviewNoCircle DEF OnlyReviewsDeadlock, Circle
  <1> QED
    BY <1>1, LocksOrdered, PTL
=============================================================================
