--------------------------- MODULE MarketplaceProofs ---------------------------
(***************************************************************************)
(* TLAPS proofs about Marketplace, for any sets of users, products, trade  *)
(* identifiers, prices and idempotency keys: first the tables (DealCorrect *)
(* and what follows from it), then what is written down for others - the   *)
(* events, the reviews and the stored results.  For the second part every  *)
(* command is shown to move each trade along one edge of its life or to    *)
(* leave it alone; the theorems follow from the edges.                     *)
(***************************************************************************)
EXTENDS Marketplace, SequenceTheorems, TLAPS

(* A row that has a status other than "NONE" is a row of its table. *)
LEMMA TradeIsRow ==
  ASSUME TypeOK, NEW t \in Trade, trades[t].status # "NONE"
  PROVE  trades[t] \in TradeRow
  BY DEF TypeOK, NoTrade

LEMMA ProductIsRow ==
  ASSUME TypeOK, NEW p \in Product, products[p].status # "NONE"
  PROVE  products[p] \in ProductRow
  BY DEF TypeOK, NoProduct

LEMMA TradeRowStatus ==
  ASSUME NEW row \in TradeRow, NEW s \in TradeStatus
  PROVE  [row EXCEPT !.status = s] \in TradeRow
  BY DEF TradeRow

LEMMA ProductRowStatus ==
  ASSUME NEW row \in ProductRow, NEW s \in ProductStatus
  PROVE  [row EXCEPT !.status = s] \in ProductRow
  BY DEF ProductRow

(* The buffered writes of a command keep the shape of the tables. *)
LEMMA MovedType ==
  ASSUME TypeOK, NEW S \in SUBSET Trade, NEW s \in TradeStatus,
         \A t \in S : trades[t].status # "NONE"
  PROVE  Moved(S, s) \in [Trade -> TradeRow \cup {NoTrade}]
  <1>1. ASSUME NEW x \in Trade
        PROVE  (IF x \in S THEN [trades[x] EXCEPT !.status = s] ELSE trades[x])
                 \in TradeRow \cup {NoTrade}
    <2>1. CASE x \in S
      <3>1. trades[x] \in TradeRow
        BY <2>1, TradeIsRow
      <3> QED
        BY <2>1, <3>1, TradeRowStatus
    <2>2. CASE x \notin S
      BY <2>2 DEF TypeOK
    <2> QED
      BY <2>1, <2>2
  <1> QED
    BY <1>1 DEF Moved

LEMMA LoggedType ==
  ASSUME TypeOK, NEW S \in SUBSET Trade, NEW e \in TradeEvent
  PROVE  Logged(S, e) \in [Trade -> Seq(TradeEvent)]
  BY DEF TypeOK, Logged

LEMMA RecordType ==
  ASSUME TypeOK, NEW a \in User, NEW op \in Operation, NEW k \in RequestKey,
         NEW code \in ResultCode, NEW t \in Trade, NEW s \in TradeStatus,
         Record(a, op, k, code, t, s)
  PROVE  ledger' \in [CommandId -> Result \cup {NoResult}]
  <1> DEFINE c == [actor |-> a, op |-> op, key |-> k]
             r == [code |-> code, trade |-> t, status |-> s]
  <1>1. CASE k = NoKey
    BY <1>1 DEF Record, TypeOK
  <1>2. CASE k # NoKey
    <2>1. k \in Key
      BY <1>2 DEF RequestKey
    <2>2. r \in Result
      BY DEF Result
    <2>3. ledger' = [ledger EXCEPT ![c] = r]
      BY <1>2 DEF Record
    <2> QED
      BY <2>2, <2>3 DEF TypeOK
  <1> QED
    BY <1>1, <1>2

LEMMA MoveProductType ==
  ASSUME TypeOK, NEW p \in Product, NEW s \in ProductStatus, NEW t \in Trade,
         products[p].status # "NONE", MoveProduct(p, s, t)
  PROVE  /\ products' \in [Product -> ProductRow \cup {NoProduct}]
         /\ productEvents' \in [Product -> Seq(StatusEvent)]
  <1> DEFINE moved == [products[p] EXCEPT !.status = s]
  <1>1. moved \in ProductRow
    BY ProductIsRow, ProductRowStatus
  <1>2. products' = [products EXCEPT ![p] = moved]
    BY DEF MoveProduct
  <1>3. products' \in [Product -> ProductRow \cup {NoProduct}]
    <2> HIDE DEF moved
    <2> QED
      BY <1>1, <1>2 DEF TypeOK
  <1>4. [status |-> s, trade |-> t] \in StatusEvent
    BY DEF StatusEvent
  <1>5. productEvents' \in [Product -> Seq(StatusEvent)]
    BY <1>4 DEF TypeOK, MoveProduct
  <1> QED
    BY <1>3, <1>5

(* The conjunct of TypeOK about each table, one action at a time. *)
LEMMA ProductCommandType ==
  ASSUME TypeOK, NEW a \in User, NEW p \in Product, ProductCommand(a, p)
  PROVE  TypeOK'
  <1>1. ASSUME NEW price \in Price, Publish(a, p, price)
        PROVE  TypeOK'
    <2>1. [seller |-> a, price |-> price, status |-> "ON_SALE"] \in ProductRow
      BY DEF ProductRow, ProductStatus
    <2> QED
      BY <1>1, <2>1 DEF Publish, TypeOK
  <1>2. ASSUME NEW price \in Price, Update(a, p, price)
        PROVE  TypeOK'
    <2> DEFINE row == [products[p] EXCEPT !.price = price]
    <2>1. products[p] \in ProductRow
      BY <1>2, ProductIsRow DEF Update, Mutable, SoldBy
    <2>2. row \in ProductRow
      BY <2>1 DEF ProductRow
    <2>3. products' = [products EXCEPT ![p] = row]
      BY <1>2 DEF Update
    <2> HIDE DEF row
    <2> QED
      BY <1>2, <2>2, <2>3 DEF Update, TypeOK
  <1>3. CASE OffShelf(a, p)
    <2> DEFINE row == [products[p] EXCEPT !.status = "OFF_SHELF"]
    <2>1. row \in ProductRow
      BY <1>3, ProductIsRow, ProductRowStatus DEF OffShelf, SoldBy, ProductStatus
    <2>2. products' = [products EXCEPT ![p] = row]
      BY <1>3 DEF OffShelf
    <2> HIDE DEF row
    <2> QED
      BY <1>3, <2>1, <2>2 DEF OffShelf, TypeOK
  <1>4. CASE Relist(a, p)
    <2> DEFINE row == [products[p] EXCEPT !.status = "ON_SALE"]
    <2>1. row \in ProductRow
      BY <1>4, ProductIsRow, ProductRowStatus DEF Relist, SoldBy, ProductStatus
    <2>2. products' = [products EXCEPT ![p] = row]
      BY <1>4 DEF Relist
    <2> HIDE DEF row
    <2> QED
      BY <1>4, <2>1, <2>2 DEF Relist, TypeOK
  <1> QED
    BY <1>1, <1>2, <1>3, <1>4 DEF ProductCommand

LEMMA CreateTradeType ==
  ASSUME TypeOK, NEW a \in User, NEW p \in Product, NEW t \in Trade,
         NEW k \in RequestKey, NEW conv \in ConversationField,
         CreateTrade(a, p, t, k, conv)
  PROVE  TypeOK'
  <1> DEFINE row == [product |-> p, buyer |-> a, seller |-> products[p].seller,
                     price |-> products[p].price,
                     conversation |-> IF conv = "own" THEN "own" ELSE "null",
                     status |-> "PENDING", confirmed |-> {}]
  <1>1. products[p] \in ProductRow
    BY ProductIsRow DEF CreateTrade
  <1>2. row \in TradeRow
    BY <1>1 DEF TradeRow, ProductRow, TradeStatus
  <1>3. trades' = [trades EXCEPT ![t] = row]
    BY DEF CreateTrade
  <1>4. tradeEvents' \in [Trade -> Seq(TradeEvent)]
    BY LoggedType DEF CreateTrade, TradeEvent
  <1>5. ledger' \in [CommandId -> Result \cup {NoResult}]
    BY RecordType DEF CreateTrade, Operation, ResultCode, TradeStatus
  <1> HIDE DEF row
  <1> QED
    BY <1>2, <1>3, <1>4, <1>5, ZenonT(40) DEF CreateTrade, TypeOK

LEMMA AcceptType ==
  ASSUME TypeOK, NEW a \in User, NEW t \in Trade, NEW k \in RequestKey,
         Accept(a, t, k)
  PROVE  TypeOK'
  <1> DEFINE p == trades[t].product
             rivals == Rivals(p, t)
  <1>1. trades[t] \in TradeRow /\ p \in Product
    BY TradeIsRow DEF Accept, TradeRow
  <1>2. rivals \in SUBSET Trade /\ \A x \in rivals : trades[x].status = "PENDING"
    BY DEF Rivals, TradesOf
  <1>3. Moved(rivals, "CANCELLED") \in [Trade -> TradeRow \cup {NoTrade}]
    BY <1>2, MovedType DEF TradeStatus
  <1>4. [trades[t] EXCEPT !.status = "ACCEPTED"] \in TradeRow
    BY <1>1, TradeRowStatus DEF TradeStatus
  <1>5. trades' \in [Trade -> TradeRow \cup {NoTrade}]
    <2> DEFINE row == [trades[t] EXCEPT !.status = "ACCEPTED"]
               rest == Moved(rivals, "CANCELLED")
    <2>1. trades' = [x \in Trade |-> IF x = t THEN row ELSE rest[x]]
      BY DEF Accept
    <2> HIDE DEF row, rest
    <2> QED
      BY <1>3, <1>4, <2>1 DEF row, rest
  <1>6. tradeEvents' \in [Trade -> Seq(TradeEvent)]
    <2> DEFINE rest == Logged(rivals, "cancelled")
    <2>1. tradeEvents' = [x \in Trade |-> IF x = t THEN Append(tradeEvents[t], "accepted")
                                         ELSE rest[x]]
      BY DEF Accept
    <2>2. rest \in [Trade -> Seq(TradeEvent)]
      BY <1>2, LoggedType DEF TradeEvent
    <2> HIDE DEF rest
    <2> QED
      BY <2>1, <2>2 DEF TypeOK, TradeEvent
  <1>7. /\ products' \in [Product -> ProductRow \cup {NoProduct}]
        /\ productEvents' \in [Product -> Seq(StatusEvent)]
    BY <1>1, MoveProductType DEF Accept, Tradable, ProductStatus
  <1>8. ledger' \in [CommandId -> Result \cup {NoResult}]
    BY RecordType DEF Accept, Operation, ResultCode, TradeStatus
  <1> QED
    BY <1>5, <1>6, <1>7, <1>8 DEF Accept, TypeOK

(* The commands that move one trade, and with it at most its product. *)
LEMMA OneTradeType ==
  ASSUME TypeOK, NEW t \in Trade, NEW s \in TradeStatus, NEW e \in TradeEvent,
         trades[t].status # "NONE",
         trades' = Moved({t}, s),
         tradeEvents' = Logged({t}, e)
  PROVE  /\ trades' \in [Trade -> TradeRow \cup {NoTrade}]
         /\ tradeEvents' \in [Trade -> Seq(TradeEvent)]
  BY MovedType, LoggedType

LEMMA ConfirmType ==
  ASSUME TypeOK, NEW a \in User, NEW t \in Trade, NEW k \in RequestKey,
         \/ ConfirmOneSide(a, t, k)
         \/ ConfirmAndComplete(a, t, k)
         \/ ConfirmCompleted(a, t, k)
  PROVE  TypeOK'
  <1>0. trades[t] \in TradeRow /\ trades[t].product \in Product
    BY TradeIsRow DEF TradeRow, ConfirmOneSide, ConfirmAndComplete, ConfirmCompleted
  <1>1. CASE ConfirmOneSide(a, t, k)
    <2> DEFINE sides == trades[t].confirmed \cup {RoleOf(t, a)}
               row == [trades[t] EXCEPT !.confirmed = sides]
    <2>1. sides \in SUBSET Role
      BY <1>0 DEF TradeRow, RoleOf, Role
    <2>2. row \in TradeRow
      BY <1>0, <2>1 DEF TradeRow
    <2>3. trades' = [trades EXCEPT ![t] = row]
      BY <1>1 DEF ConfirmOneSide
    <2>4. ledger' \in [CommandId -> Result \cup {NoResult}]
      BY <1>1, RecordType DEF ConfirmOneSide, Operation, ResultCode, TradeStatus
    <2> HIDE DEF row
    <2> QED
      BY <1>1, <2>2, <2>3, <2>4 DEF ConfirmOneSide, TypeOK
  <1>2. CASE ConfirmAndComplete(a, t, k)
    <2> DEFINE moved == Moved({t}, "COMPLETED")
               row == [moved[t] EXCEPT !.confirmed = Role]
    <2>1. moved \in [Trade -> TradeRow \cup {NoTrade}] /\ row \in TradeRow
      <3>1. moved \in [Trade -> TradeRow \cup {NoTrade}]
        BY <1>2, MovedType DEF ConfirmAndComplete, TradeStatus
      <3>2. moved[t] \in TradeRow
        BY <1>0, TradeRowStatus DEF Moved, TradeStatus
      <3> HIDE DEF moved
      <3> QED
        BY <3>1, <3>2 DEF TradeRow
    <2>2. trades' = [moved EXCEPT ![t] = row]
      BY <1>2 DEF ConfirmAndComplete
    <2>3. tradeEvents' \in [Trade -> Seq(TradeEvent)]
      BY <1>2, LoggedType DEF ConfirmAndComplete, TradeEvent
    <2>4. /\ products' \in [Product -> ProductRow \cup {NoProduct}]
          /\ productEvents' \in [Product -> Seq(StatusEvent)]
      BY <1>0, <1>2, MoveProductType DEF ConfirmAndComplete, ProductStatus
    <2>5. ledger' \in [CommandId -> Result \cup {NoResult}]
      BY <1>2, RecordType DEF ConfirmAndComplete, Operation, ResultCode, TradeStatus
    <2>6. trades' \in [Trade -> TradeRow \cup {NoTrade}]
      <3> HIDE DEF row, moved
      <3> QED
        BY <2>1, <2>2
    <2>7. reviews' \subseteq Trade
      BY <1>2 DEF ConfirmAndComplete, TypeOK
    <2> QED
      BY <2>3, <2>4, <2>5, <2>6, <2>7 DEF TypeOK
  <1>3. CASE ConfirmCompleted(a, t, k)
    <2>1. ledger' \in [CommandId -> Result \cup {NoResult}]
      BY <1>3, RecordType DEF ConfirmCompleted, Operation, ResultCode, TradeStatus
    <2> QED
      BY <1>3, <2>1 DEF ConfirmCompleted, TypeOK
  <1> QED
    BY <1>1, <1>2, <1>3

LEMMA CancelType ==
  ASSUME TypeOK, NEW a \in User, NEW t \in Trade, NEW k \in RequestKey,
         \/ Reject(a, t, k)
         \/ CancelPending(a, t, k)
         \/ CancelAccepted(a, t, k)
  PROVE  TypeOK'
  <1>1. CASE Reject(a, t, k)
    BY <1>1, OneTradeType, RecordType
    DEF Reject, TypeOK, TradeStatus, TradeEvent, Operation, ResultCode
  <1>2. CASE CancelPending(a, t, k)
    BY <1>2, OneTradeType, RecordType
    DEF CancelPending, TypeOK, TradeStatus, TradeEvent, Operation, ResultCode
  <1>3. CASE CancelAccepted(a, t, k)
    <2>1. trades[t].product \in Product
      BY <1>3, TradeIsRow DEF CancelAccepted, TradeRow
    <2>2. /\ products' \in [Product -> ProductRow \cup {NoProduct}]
          /\ productEvents' \in [Product -> Seq(StatusEvent)]
      BY <1>3, <2>1, MoveProductType DEF CancelAccepted, ProductStatus
    <2>3. /\ trades' \in [Trade -> TradeRow \cup {NoTrade}]
          /\ tradeEvents' \in [Trade -> Seq(TradeEvent)]
      BY <1>3, OneTradeType DEF CancelAccepted, TradeStatus, TradeEvent
    <2>4. ledger' \in [CommandId -> Result \cup {NoResult}]
      BY <1>3, RecordType DEF CancelAccepted, Operation, ResultCode, TradeStatus
    <2> QED
      BY <1>3, <2>2, <2>3, <2>4 DEF CancelAccepted, TypeOK
  <1> QED
    BY <1>1, <1>2, <1>3

(* Every row, result and event keeps the shape of its table. *)
THEOREM TypeCorrect == Spec => []TypeOK
  <1>1. Init => TypeOK
    BY DEF Init, TypeOK
  <1>2. TypeOK /\ [Next]_vars => TypeOK'
    <2> SUFFICES ASSUME TypeOK, [Next]_vars
                 PROVE  TypeOK'
      OBVIOUS
    <2>1. ASSUME NEW a \in User, NEW p \in Product, ProductCommand(a, p)
          PROVE  TypeOK'
      BY <2>1, ProductCommandType
    <2>2. ASSUME NEW a \in User, NEW t \in Trade, NEW k \in RequestKey,
                 TradeCommand(a, t, k)
          PROVE  TypeOK'
      <3>1. ASSUME NEW p \in Product, NEW conv \in ConversationField,
                   CreateTrade(a, p, t, k, conv)
            PROVE  TypeOK'
        BY <3>1, CreateTradeType
      <3>2. ASSUME NEW p \in Product, NEW conv \in ConversationField,
                   ReadIntent(a, p, t, k, conv)
            PROVE  TypeOK'
        <4>1. trades[t].status \in TradeStatus
          BY <3>2 DEF ReadIntent, ActiveIntent, TradesOf, TradeStatus
        <4>2. ledger' \in [CommandId -> Result \cup {NoResult}]
          BY <3>2, <4>1, RecordType DEF ReadIntent, Operation, ResultCode
        <4> QED
          BY <3>2, <4>2 DEF ReadIntent, TypeOK
      <3> QED
        BY <2>2, <3>1, <3>2, AcceptType, CancelType, ConfirmType DEF TradeCommand
    <2>3. ASSUME NEW a \in User, NEW t \in Trade, Review(a, t)
          PROVE  TypeOK'
      BY <2>3 DEF Review, TypeOK
    <2>4. CASE UNCHANGED vars
      BY <2>4 DEF vars, TypeOK
    <2> QED
      BY <2>1, <2>2, <2>3, <2>4 DEF Next
  <1> QED
    BY <1>1, <1>2, PTL DEF Spec

-----------------------------------------------------------------------------
(* The deal invariant: products and trades agree, one deal per product, one *)
(* active intent per buyer, current prices.  The four need each other: a    *)
(* product can be edited or taken off the shelf only because an intent in   *)
(* progress keeps it ON_SALE, and accepting is safe only because ON_SALE    *)
(* excludes an earlier deal.                                                *)
DealInv ==
  /\ TypeOK
  /\ ReservationMatchesTrade
  /\ OneDealPerProduct
  /\ OneActiveIntent
  /\ LivePriceIsCurrent

(* What a command did to the statuses: trades S moved to s, the terms of    *)
(* the existing trades are unchanged; likewise for products P.              *)
TradesMove(S, s) ==
  \A x \in Trade :
    /\ x \in S => trades'[x].status = s
    /\ x \notin S => trades'[x].status = trades[x].status
    /\ trades[x].status # "NONE" =>
         /\ trades'[x].product = trades[x].product
         /\ trades'[x].buyer = trades[x].buyer
         /\ trades'[x].seller = trades[x].seller
         /\ trades'[x].price = trades[x].price

ProductsMove(P, s) ==
  \A q \in Product :
    /\ q \in P => products'[q].status = s
    /\ q \notin P => products'[q].status = products[q].status
    /\ products[q].status # "NONE" =>
         /\ products'[q].seller = products[q].seller
         /\ products'[q].price = products[q].price

LEMMA MovedMoves ==
  ASSUME TypeOK, NEW S \in SUBSET Trade, NEW s \in TradeStatus,
         \A t \in S : trades[t].status # "NONE",
         trades' = Moved(S, s)
  PROVE  TradesMove(S, s)
  <1> SUFFICES ASSUME NEW x \in Trade
               PROVE  /\ x \in S => trades'[x].status = s
                      /\ x \notin S => trades'[x] = trades[x]
                      /\ trades[x].status # "NONE" =>
                           /\ trades'[x].product = trades[x].product
                           /\ trades'[x].buyer = trades[x].buyer
                           /\ trades'[x].seller = trades[x].seller
                           /\ trades'[x].price = trades[x].price
    BY DEF TradesMove
  <1>1. CASE x \in S
    <2>1. trades[x] \in TradeRow
      BY <1>1, TradeIsRow
    <2>2. trades'[x] = [trades[x] EXCEPT !.status = s]
      BY <1>1 DEF Moved
    <2> QED
      BY <1>1, <2>1, <2>2 DEF TradeRow
  <1>2. CASE x \notin S
    BY <1>2 DEF Moved
  <1> QED
    BY <1>1, <1>2

LEMMA MoveProductMoves ==
  ASSUME TypeOK, NEW p \in Product, NEW s \in ProductStatus, NEW t \in Trade,
         products[p].status # "NONE", MoveProduct(p, s, t)
  PROVE  ProductsMove({p}, s)
  <1>1. products[p] \in ProductRow
    BY ProductIsRow
  <1>2. products'[p] = [products[p] EXCEPT !.status = s]
    BY DEF MoveProduct, TypeOK
  <1>3. \A q \in Product : q # p => products'[q] = products[q]
    BY DEF MoveProduct, TypeOK
  <1>4. /\ products'[p].status = s
        /\ products'[p].seller = products[p].seller
        /\ products'[p].price = products[p].price
    BY <1>1, <1>2 DEF ProductRow
  <1> QED
    BY <1>3, <1>4 DEF ProductsMove

(* Which trades of a product have a status after the move. *)
LEMMA MovedTrades ==
  ASSUME TypeOK, NEW S \in SUBSET Trade, NEW s \in TradeStatus, TradesMove(S, s),
         \A x \in S : trades[x].status # "NONE",
         NEW p \in Product, NEW r \in TradeStatus
  PROVE  /\ r = s => TradesOf(p, r)' = TradesOf(p, r) \cup {x \in S : trades[x].product = p}
         /\ r # s => TradesOf(p, r)' = TradesOf(p, r) \ S
  <1>1. ASSUME NEW x \in Trade
        PROVE  /\ trades[x].status # "NONE" => trades'[x].product = trades[x].product
               /\ x \in S => trades'[x].status = s /\ trades[x].status # "NONE"
               /\ x \notin S => trades'[x].status = trades[x].status
    BY DEF TradesMove
  <1>2. r # "NONE"
    BY DEF TradeStatus
  <1> QED
    BY <1>1, <1>2 DEF TradesOf

LEMMA CancelPendingKeepsDeal ==
  ASSUME DealInv, TypeOK', NEW t \in Trade,
         trades[t].status = "PENDING", TradesMove({t}, "CANCELLED"),
         UNCHANGED products
  PROVE  DealInv'
  <1>1. ReservationMatchesTrade'
    <2>1. ASSUME NEW p \in Product
          PROVE  /\ TradesOf(p, "PENDING")' = TradesOf(p, "PENDING") \ {t}
                 /\ TradesOf(p, "ACCEPTED")' = TradesOf(p, "ACCEPTED") \ {t}
                 /\ TradesOf(p, "COMPLETED")' = TradesOf(p, "COMPLETED") \ {t}
                 /\ t \notin TradesOf(p, "ACCEPTED") \cup TradesOf(p, "COMPLETED")
      <3>1. t \notin TradesOf(p, "ACCEPTED") \cup TradesOf(p, "COMPLETED")
        BY DEF TradesOf
      <3> QED
        BY <3>1, MovedTrades DEF TradeStatus, DealInv
    <2> QED
      BY <2>1 DEF DealInv, ReservationMatchesTrade, HasPending
  <1>2. OneDealPerProduct'
    BY DEF DealInv, OneDealPerProduct, TradesMove, TradesOf
  <1>3. OneActiveIntent'
    BY DEF DealInv, OneActiveIntent, TradesMove
  <1>4. LivePriceIsCurrent'
    BY DEF DealInv, LivePriceIsCurrent, TradesMove
  <1> QED
    BY <1>1, <1>2, <1>3, <1>4 DEF DealInv

(* The product of an intent in progress, or of a deal, is in the status     *)
(* that goes with it.                                                       *)
LEMMA LiveProduct ==
  ASSUME DealInv, NEW t \in Trade, trades[t].status # "NONE"
  PROVE  /\ trades[t].product \in Product
         /\ trades[t].status = "PENDING" => products[trades[t].product].status = "ON_SALE"
         /\ trades[t].status = "ACCEPTED" => products[trades[t].product].status = "RESERVED"
         /\ trades[t].status = "COMPLETED" => products[trades[t].product].status = "SOLD"
  <1>1. trades[t].product \in Product
    BY TradeIsRow DEF DealInv, TradeRow
  <1>2. t \in TradesOf(trades[t].product, trades[t].status)
    BY DEF TradesOf
  <1> QED
    BY <1>1, <1>2 DEF DealInv, ReservationMatchesTrade, HasPending

(* A product without an intent in progress and outside a deal: nothing in   *)
(* the invariant depends on its row.                                        *)
LEMMA IdleProductKeepsDeal ==
  ASSUME DealInv, TypeOK', UNCHANGED trades, NEW p \in Product,
         products[p].status \in {"NONE", "ON_SALE", "OFF_SHELF"}, ~HasPending(p),
         products'[p].status \in {"ON_SALE", "OFF_SHELF"},
         \A q \in Product \ {p} : products'[q] = products[q]
  PROVE  DealInv'
  <1>1. \A q \in Product, r \in TradeStatus : TradesOf(q, r)' = TradesOf(q, r)
    BY DEF TradesOf
  <1>2. ReservationMatchesTrade'
    <2>1. ASSUME NEW q \in Product
          PROVE  /\ TradesOf(q, "PENDING")' = TradesOf(q, "PENDING")
                 /\ TradesOf(q, "ACCEPTED")' = TradesOf(q, "ACCEPTED")
                 /\ TradesOf(q, "COMPLETED")' = TradesOf(q, "COMPLETED")
      BY <1>1 DEF TradeStatus
    <2> QED
      BY <2>1 DEF DealInv, ReservationMatchesTrade, HasPending
  <1>3. OneDealPerProduct'
    BY DEF DealInv, OneDealPerProduct, TradesOf
  <1>4. OneActiveIntent'
    BY DEF DealInv, OneActiveIntent
  <1>5. LivePriceIsCurrent'
    <2>1. ASSUME NEW t \in Trade, trades[t].status \in {"PENDING", "ACCEPTED", "COMPLETED"}
          PROVE  trades[t].product \in Product \ {p}
      BY <2>1, LiveProduct DEF HasPending, TradesOf
    <2> QED
      BY <2>1 DEF DealInv, LivePriceIsCurrent
  <1> QED
    BY <1>2, <1>3, <1>4, <1>5 DEF DealInv

LEMMA ProductCommandKeepsDeal ==
  ASSUME DealInv, TypeOK', NEW a \in User, NEW p \in Product, ProductCommand(a, p)
  PROVE  DealInv'
  <1> USE DEF DealInv
  <1>1. ASSUME NEW price \in Price, Publish(a, p, price)
        PROVE  DealInv'
    <2>1. products[p].status = "NONE" /\ ~HasPending(p)
      BY <1>1 DEF Publish, NoProduct, ReservationMatchesTrade, HasPending
    <2>2. products'[p].status = "ON_SALE" /\ \A q \in Product \ {p} : products'[q] = products[q]
      BY <1>1 DEF Publish, TypeOK
    <2> QED
      BY <1>1, <2>1, <2>2, IdleProductKeepsDeal DEF Publish
  <1>2. ASSUME NEW price \in Price, Update(a, p, price)
        PROVE  DealInv'
    <2>1. products[p] \in ProductRow
      BY <1>2, ProductIsRow DEF Update, Mutable, SoldBy
    <2>2. products'[p] = [products[p] EXCEPT !.price = price]
      BY <1>2 DEF Update, TypeOK
    <2>3. products'[p].status = products[p].status
      BY <2>1, <2>2 DEF ProductRow
    <2>4. \A q \in Product \ {p} : products'[q] = products[q]
      BY <1>2 DEF Update, TypeOK
    <2> QED
      BY <1>2, <2>3, <2>4, IdleProductKeepsDeal DEF Update, Mutable
  <1>3. CASE OffShelf(a, p)
    <2>1. products'[p].status = "OFF_SHELF" /\ \A q \in Product \ {p} : products'[q] = products[q]
      BY <1>3, ProductIsRow DEF OffShelf, TypeOK, SoldBy, ProductRow
    <2> QED
      BY <1>3, <2>1, IdleProductKeepsDeal DEF OffShelf
  <1>4. CASE Relist(a, p)
    <2>1. products'[p].status = "ON_SALE" /\ \A q \in Product \ {p} : products'[q] = products[q]
      BY <1>4, ProductIsRow DEF Relist, TypeOK, SoldBy, ProductRow
    <2>2. ~HasPending(p)
      BY <1>4 DEF Relist, ReservationMatchesTrade, HasPending
    <2> QED
      BY <1>4, <2>1, <2>2, IdleProductKeepsDeal DEF Relist
  <1> QED
    BY <1>1, <1>2, <1>3, <1>4 DEF ProductCommand

LEMMA CreateTradeKeepsDeal ==
  ASSUME DealInv, TypeOK', NEW a \in User, NEW p \in Product, NEW t \in Trade,
         NEW k \in RequestKey, NEW conv \in ConversationField,
         CreateTrade(a, p, t, k, conv)
  PROVE  DealInv'
  <1>1. /\ trades[t].status = "NONE"
        /\ trades'[t].status = "PENDING"
        /\ trades'[t].product = p
        /\ trades'[t].buyer = a
        /\ trades'[t].seller = products[p].seller
        /\ trades'[t].price = products[p].price
        /\ \A x \in Trade \ {t} : trades'[x] = trades[x]
    BY DEF CreateTrade, DealInv, TypeOK, NoTrade
  <1>2. ASSUME NEW q \in Product
        PROVE  /\ TradesOf(q, "PENDING")' \subseteq TradesOf(q, "PENDING") \cup {t}
               /\ q # p => TradesOf(q, "PENDING")' = TradesOf(q, "PENDING")
               /\ TradesOf(q, "ACCEPTED")' = TradesOf(q, "ACCEPTED")
               /\ TradesOf(q, "COMPLETED")' = TradesOf(q, "COMPLETED")
    BY <1>1 DEF TradesOf
  <1>3. ReservationMatchesTrade'
    BY <1>2 DEF CreateTrade, Tradable, DealInv, ReservationMatchesTrade, HasPending
  <1>4. OneDealPerProduct'
    BY <1>2 DEF DealInv, OneDealPerProduct
  <1>5. OneActiveIntent'
    <2>1. \A x \in Trade : /\ trades[x].status \in {"PENDING", "ACCEPTED"}
                           /\ trades[x].product = p
                           => trades[x].buyer # a
      BY DEF CreateTrade, ActiveIntent, TradesOf
    <2> QED
      BY <1>1, <2>1 DEF DealInv, OneActiveIntent
  <1>6. LivePriceIsCurrent'
    BY <1>1 DEF CreateTrade, DealInv, LivePriceIsCurrent
  <1> QED
    BY <1>3, <1>4, <1>5, <1>6 DEF DealInv

(* Accepting t on product p, as the moves of the statuses.                  *)
LEMMA AcceptMoves ==
  ASSUME TypeOK, NEW a \in User, NEW t \in Trade, NEW k \in RequestKey,
         Accept(a, t, k)
  PROVE  /\ trades[t].product \in Product
         /\ ProductsMove({trades[t].product}, "RESERVED")
         /\ trades'[t].status = "ACCEPTED"
         /\ \A x \in Rivals(trades[t].product, t) : trades'[x].status = "CANCELLED"
         /\ \A x \in Trade \ (Rivals(trades[t].product, t) \cup {t}) :
              trades'[x].status = trades[x].status
         /\ \A x \in Trade : trades[x].status # "NONE" =>
              /\ trades'[x].product = trades[x].product
              /\ trades'[x].buyer = trades[x].buyer
              /\ trades'[x].seller = trades[x].seller
              /\ trades'[x].price = trades[x].price
  <1> DEFINE p == trades[t].product
             rivals == Rivals(p, t)
  <1>1. trades[t] \in TradeRow /\ p \in Product
    BY TradeIsRow DEF Accept, TradeRow
  <1>2. ProductsMove({p}, "RESERVED")
    BY <1>1, MoveProductMoves DEF Accept, Tradable, ProductStatus
  <1>3. trades'[t] = [trades[t] EXCEPT !.status = "ACCEPTED"]
    BY DEF Accept
  <1>4. ASSUME NEW x \in Trade \ {t}
        PROVE  /\ x \in rivals => trades'[x] = [trades[x] EXCEPT !.status = "CANCELLED"]
               /\ x \notin rivals => trades'[x] = trades[x]
    <2>1. trades'[x] = Moved(rivals, "CANCELLED")[x]
      BY DEF Accept
    <2> QED
      BY <2>1 DEF Moved
  <1>5. \A x \in rivals : x \in Trade \ {t} /\ trades[x] \in TradeRow
    BY TradeIsRow DEF Rivals, TradesOf
  <1>6. ASSUME NEW x \in Trade
        PROVE  /\ x = t => trades'[x].status = "ACCEPTED"
               /\ x \in rivals => trades'[x].status = "CANCELLED"
               /\ x \notin rivals \cup {t} => trades'[x] = trades[x]
               /\ trades[x].status # "NONE" =>
                    /\ trades'[x].product = trades[x].product
                    /\ trades'[x].buyer = trades[x].buyer
                    /\ trades'[x].seller = trades[x].seller
                    /\ trades'[x].price = trades[x].price
    <2> HIDE DEF rivals
    <2>1. CASE x = t
      BY <1>1, <1>3, <1>5, <2>1 DEF TradeRow
    <2>2. CASE x \in rivals
      BY <1>4, <1>5, <2>2, ZenonT(40) DEF TradeRow
    <2>3. CASE x \notin rivals \cup {t}
      BY <1>4, <2>3
    <2> QED
      BY <2>1, <2>2, <2>3
  <1>7. rivals \subseteq Trade
    BY <1>5
  <1> HIDE DEF rivals
  <1>8. \A x \in rivals : trades'[x].status = "CANCELLED"
    BY <1>6, <1>7
  <1>9. \A x \in Trade \ (rivals \cup {t}) : trades'[x].status = trades[x].status
    BY <1>6
  <1> QED
    BY <1>1, <1>2, <1>6, <1>8, <1>9 DEF rivals

LEMMA AcceptKeepsDeal ==
  ASSUME DealInv, TypeOK', NEW a \in User, NEW t \in Trade, NEW k \in RequestKey,
         Accept(a, t, k)
  PROVE  DealInv'
  <1> DEFINE p == trades[t].product
             rivals == Rivals(p, t)
  <1>1. /\ p \in Product
        /\ ProductsMove({p}, "RESERVED")
        /\ trades'[t].status = "ACCEPTED"
        /\ \A x \in rivals : trades'[x].status = "CANCELLED"
        /\ \A x \in Trade \ (rivals \cup {t}) : trades'[x].status = trades[x].status
        /\ \A x \in Trade : trades[x].status # "NONE" =>
             /\ trades'[x].product = trades[x].product
             /\ trades'[x].buyer = trades[x].buyer
             /\ trades'[x].seller = trades[x].seller
             /\ trades'[x].price = trades[x].price
    BY AcceptMoves DEF DealInv
  <1>2. trades[t].status = "PENDING" /\ products[p].status = "ON_SALE"
    BY DEF Accept, Tradable
  <1>3. \A x \in Trade : x \in rivals <=> x # t /\ trades[x].status = "PENDING"
                                       /\ trades[x].product = p
    BY DEF Rivals, TradesOf
  <1> HIDE DEF rivals
  <1>4. ASSUME NEW q \in Product
        PROVE  /\ TradesOf(q, "PENDING")' = IF q = p THEN {} ELSE TradesOf(q, "PENDING")
               /\ TradesOf(q, "ACCEPTED")' = TradesOf(q, "ACCEPTED")
                                              \cup (IF q = p THEN {t} ELSE {})
               /\ TradesOf(q, "COMPLETED")' = TradesOf(q, "COMPLETED")
    BY <1>1, <1>2, <1>3 DEF TradesOf
  <1>5. TradesOf(p, "ACCEPTED") = {} /\ TradesOf(p, "COMPLETED") = {}
    BY <1>1, <1>2 DEF DealInv, ReservationMatchesTrade
  <1>6. ReservationMatchesTrade'
    BY <1>1, <1>4, <1>5 DEF DealInv, ReservationMatchesTrade, HasPending, ProductsMove
  <1>7. OneDealPerProduct'
    BY <1>4, <1>5 DEF DealInv, OneDealPerProduct
  <1>8. OneActiveIntent'
    BY <1>1, <1>2 DEF DealInv, OneActiveIntent
  <1>9. LivePriceIsCurrent'
    <2>1. ASSUME NEW x \in Trade, trades'[x].status \in {"PENDING", "ACCEPTED", "COMPLETED"}
          PROVE  /\ trades[x].status \in {"PENDING", "ACCEPTED", "COMPLETED"}
                 /\ products[trades[x].product].status # "NONE"
                 /\ trades[x].product \in Product
      <3>1. trades[x].status \in {"PENDING", "ACCEPTED", "COMPLETED"}
        BY <1>1, <1>2, <2>1
      <3> QED
        BY <3>1, LiveProduct
    <2> QED
      BY <1>1, <2>1 DEF DealInv, LivePriceIsCurrent, ProductsMove
  <1> QED
    BY <1>6, <1>7, <1>8, <1>9 DEF DealInv

LEMMA CancelAcceptedKeepsDeal ==
  ASSUME DealInv, TypeOK', NEW a \in User, NEW t \in Trade, NEW k \in RequestKey,
         CancelAccepted(a, t, k)
  PROVE  DealInv'
  <1> DEFINE p == trades[t].product
  <1>1. p \in Product /\ trades[t].status = "ACCEPTED"
    BY LiveProduct DEF CancelAccepted
  <1>2. TradesMove({t}, "CANCELLED")
    BY <1>1, MovedMoves DEF CancelAccepted, DealInv, TradeStatus
  <1>3. ProductsMove({p}, "ON_SALE")
    BY <1>1, MoveProductMoves DEF CancelAccepted, DealInv, ProductStatus
  <1>4. ASSUME NEW q \in Product
        PROVE  /\ TradesOf(q, "PENDING")' = TradesOf(q, "PENDING") \ {t}
               /\ TradesOf(q, "ACCEPTED")' = TradesOf(q, "ACCEPTED") \ {t}
               /\ TradesOf(q, "COMPLETED")' = TradesOf(q, "COMPLETED") \ {t}
               /\ t \notin TradesOf(q, "PENDING") \cup TradesOf(q, "COMPLETED")
               /\ t \in TradesOf(q, "ACCEPTED") <=> q = p
    <2>1. /\ t \notin TradesOf(q, "PENDING") \cup TradesOf(q, "COMPLETED")
          /\ t \in TradesOf(q, "ACCEPTED") <=> q = p
      BY <1>1 DEF TradesOf
    <2> QED
      BY <1>1, <1>2, <2>1, MovedTrades DEF TradeStatus, DealInv
  <1>5. TradesOf(p, "ACCEPTED") = {t}
    BY <1>1, <1>4 DEF DealInv, OneDealPerProduct
  <1>6. products[p].status = "RESERVED"
    BY DEF CancelAccepted
  <1>7. ReservationMatchesTrade'
    BY <1>1, <1>3, <1>4, <1>5, <1>6
    DEF DealInv, ReservationMatchesTrade, HasPending, ProductsMove
  <1>8. OneDealPerProduct'
    BY <1>4 DEF DealInv, OneDealPerProduct
  <1>9. OneActiveIntent'
    BY <1>2 DEF DealInv, OneActiveIntent, TradesMove
  <1>10. LivePriceIsCurrent'
    <2>1. ASSUME NEW x \in Trade, trades'[x].status \in {"PENDING", "ACCEPTED", "COMPLETED"}
          PROVE  /\ trades[x].status \in {"PENDING", "ACCEPTED", "COMPLETED"}
                 /\ products[trades[x].product].status # "NONE"
                 /\ trades[x].product \in Product
      <3>1. trades[x].status \in {"PENDING", "ACCEPTED", "COMPLETED"}
        BY <1>2, <2>1 DEF TradesMove
      <3> QED
        BY <3>1, LiveProduct
    <2> QED
      BY <1>2, <1>3, <2>1 DEF DealInv, LivePriceIsCurrent, ProductsMove, TradesMove
  <1> QED
    BY <1>7, <1>8, <1>9, <1>10 DEF DealInv

LEMMA CompleteKeepsDeal ==
  ASSUME DealInv, TypeOK', NEW a \in User, NEW t \in Trade, NEW k \in RequestKey,
         ConfirmAndComplete(a, t, k)
  PROVE  DealInv'
  <1> DEFINE p == trades[t].product
  <1>1. p \in Product /\ trades[t].status = "ACCEPTED"
    BY LiveProduct DEF ConfirmAndComplete
  <1>2. TradesMove({t}, "COMPLETED")
    <2> DEFINE moved == Moved({t}, "COMPLETED")
    <2>1. moved \in [Trade -> TradeRow \cup {NoTrade}] /\ moved[t] \in TradeRow
      <3>1. moved \in [Trade -> TradeRow \cup {NoTrade}]
        BY <1>1, MovedType DEF DealInv, TradeStatus
      <3>2. moved[t] \in TradeRow
        BY <1>1, TradeIsRow, TradeRowStatus DEF Moved, TradeStatus, DealInv
      <3> QED
        BY <3>1, <3>2
    <2>2. trades' = [moved EXCEPT ![t] = [moved[t] EXCEPT !.confirmed = Role]]
      BY DEF ConfirmAndComplete
    <2>3. /\ moved[t].status = "COMPLETED"
          /\ moved[t].product = trades[t].product
          /\ moved[t].buyer = trades[t].buyer
          /\ moved[t].seller = trades[t].seller
          /\ moved[t].price = trades[t].price
      BY <1>1, TradeIsRow DEF Moved, TradeRow, DealInv
    <2>4. \A x \in Trade \ {t} : moved[x] = trades[x]
      BY DEF Moved
    <2> HIDE DEF moved
    <2>5. /\ trades'[t].status = moved[t].status
          /\ trades'[t].product = moved[t].product
          /\ trades'[t].buyer = moved[t].buyer
          /\ trades'[t].seller = moved[t].seller
          /\ trades'[t].price = moved[t].price
          /\ \A x \in Trade \ {t} : trades'[x] = moved[x]
      BY <2>1, <2>2 DEF TradeRow
    <2> QED
      BY <2>3, <2>4, <2>5 DEF TradesMove
  <1>3. ProductsMove({p}, "SOLD")
    BY <1>1, MoveProductMoves DEF ConfirmAndComplete, DealInv, ProductStatus
  <1>4. ASSUME NEW q \in Product
        PROVE  /\ TradesOf(q, "PENDING")' = TradesOf(q, "PENDING")
               /\ TradesOf(q, "ACCEPTED")' = TradesOf(q, "ACCEPTED") \ {t}
               /\ TradesOf(q, "COMPLETED")' =
                    TradesOf(q, "COMPLETED") \cup (IF q = p THEN {t} ELSE {})
               /\ t \in TradesOf(q, "ACCEPTED") <=> q = p
    <2>1. /\ t \notin TradesOf(q, "PENDING")
          /\ t \in TradesOf(q, "ACCEPTED") <=> q = p
      BY <1>1 DEF TradesOf
    <2>2. /\ TradesOf(q, "PENDING")' = TradesOf(q, "PENDING") \ {t}
          /\ TradesOf(q, "ACCEPTED")' = TradesOf(q, "ACCEPTED") \ {t}
          /\ TradesOf(q, "COMPLETED")' =
               TradesOf(q, "COMPLETED") \cup {x \in {t} : trades[x].product = q}
      BY <1>1, <1>2, MovedTrades DEF TradeStatus, DealInv
    <2>3. {x \in {t} : trades[x].product = q} = IF q = p THEN {t} ELSE {}
      OBVIOUS
    <2> QED
      BY <2>1, <2>2, <2>3
  <1>5. products[p].status = "RESERVED"
    BY DEF ConfirmAndComplete
  <1>6. TradesOf(p, "ACCEPTED") = {t} /\ TradesOf(p, "COMPLETED") = {}
    BY <1>1, <1>4, <1>5 DEF DealInv, OneDealPerProduct, ReservationMatchesTrade
  <1>7. ReservationMatchesTrade'
    BY <1>1, <1>3, <1>4, <1>5, <1>6
    DEF DealInv, ReservationMatchesTrade, HasPending, ProductsMove
  <1>8. OneDealPerProduct'
    BY <1>4, <1>6 DEF DealInv, OneDealPerProduct
  <1>9. OneActiveIntent'
    BY <1>2 DEF DealInv, OneActiveIntent, TradesMove
  <1>10. LivePriceIsCurrent'
    <2>1. ASSUME NEW x \in Trade, trades'[x].status \in {"PENDING", "ACCEPTED", "COMPLETED"}
          PROVE  /\ trades[x].status \in {"PENDING", "ACCEPTED", "COMPLETED"}
                 /\ products[trades[x].product].status # "NONE"
                 /\ trades[x].product \in Product
      <3>1. trades[x].status \in {"PENDING", "ACCEPTED", "COMPLETED"}
        BY <1>1, <1>2, <2>1 DEF TradesMove
      <3> QED
        BY <3>1, LiveProduct
    <2> QED
      BY <1>2, <1>3, <2>1 DEF DealInv, LivePriceIsCurrent, ProductsMove, TradesMove
  <1> QED
    BY <1>7, <1>8, <1>9, <1>10 DEF DealInv

(* Steps that change neither a status nor the terms of a trade.             *)
LEMMA SameStatusKeepsDeal ==
  ASSUME DealInv, TypeOK', UNCHANGED products,
         \A x \in Trade : trades'[x].status = trades[x].status,
         \A x \in Trade : trades[x].status # "NONE" =>
           /\ trades'[x].product = trades[x].product
           /\ trades'[x].buyer = trades[x].buyer
           /\ trades'[x].seller = trades[x].seller
           /\ trades'[x].price = trades[x].price
  PROVE  DealInv'
  <1>1. ASSUME NEW q \in Product
        PROVE  /\ TradesOf(q, "PENDING")' = TradesOf(q, "PENDING")
               /\ TradesOf(q, "ACCEPTED")' = TradesOf(q, "ACCEPTED")
               /\ TradesOf(q, "COMPLETED")' = TradesOf(q, "COMPLETED")
    BY DEF TradesOf
  <1>2. ReservationMatchesTrade'
    BY <1>1 DEF DealInv, ReservationMatchesTrade, HasPending
  <1>3. OneDealPerProduct'
    BY <1>1 DEF DealInv, OneDealPerProduct
  <1>4. OneActiveIntent'
    BY DEF DealInv, OneActiveIntent
  <1>5. LivePriceIsCurrent'
    BY DEF DealInv, LivePriceIsCurrent
  <1> QED
    BY <1>2, <1>3, <1>4, <1>5 DEF DealInv

LEMMA TradeCommandKeepsDeal ==
  ASSUME DealInv, TypeOK', NEW a \in User, NEW t \in Trade, NEW k \in RequestKey,
         TradeCommand(a, t, k)
  PROVE  DealInv'
  <1>1. ASSUME NEW p \in Product, NEW conv \in ConversationField,
               CreateTrade(a, p, t, k, conv) \/ ReadIntent(a, p, t, k, conv)
        PROVE  DealInv'
    <2>1. CASE CreateTrade(a, p, t, k, conv)
      BY <2>1, CreateTradeKeepsDeal
    <2>2. CASE ReadIntent(a, p, t, k, conv)
      BY <2>2, SameStatusKeepsDeal DEF ReadIntent
    <2> QED
      BY <1>1, <2>1, <2>2
  <1>2. CASE Accept(a, t, k)
    BY <1>2, AcceptKeepsDeal
  <1>3. CASE Reject(a, t, k)
    BY <1>3, MovedMoves, CancelPendingKeepsDeal DEF Reject, TradeStatus, DealInv
  <1>4. CASE CancelPending(a, t, k)
    BY <1>4, MovedMoves, CancelPendingKeepsDeal DEF CancelPending, TradeStatus, DealInv
  <1>5. CASE CancelAccepted(a, t, k)
    BY <1>5, CancelAcceptedKeepsDeal
  <1>6. CASE ConfirmOneSide(a, t, k)
    <2>1. trades[t] \in TradeRow
      BY <1>6, TradeIsRow DEF ConfirmOneSide, DealInv
    <2>2. trades' = [trades EXCEPT ![t] =
                       [trades[t] EXCEPT !.confirmed = trades[t].confirmed \cup {RoleOf(t, a)}]]
      BY <1>6 DEF ConfirmOneSide
    <2>3. /\ trades'[t].status = trades[t].status
          /\ trades'[t].product = trades[t].product
          /\ trades'[t].buyer = trades[t].buyer
          /\ trades'[t].seller = trades[t].seller
          /\ trades'[t].price = trades[t].price
          /\ \A x \in Trade \ {t} : trades'[x] = trades[x]
      BY <2>1, <2>2 DEF TradeRow, DealInv, TypeOK
    <2> QED
      BY <1>6, <2>3, SameStatusKeepsDeal DEF ConfirmOneSide
  <1>7. CASE ConfirmAndComplete(a, t, k)
    BY <1>7, CompleteKeepsDeal
  <1>8. CASE ConfirmCompleted(a, t, k)
    BY <1>8, SameStatusKeepsDeal DEF ConfirmCompleted
  <1> QED
    BY <1>1, <1>2, <1>3, <1>4, <1>5, <1>6, <1>7, <1>8 DEF TradeCommand

(* The tables never contradict each other, for any number of users,         *)
(* products, trades and keys.                                               *)
THEOREM DealCorrect ==
  Spec => [](ReservationMatchesTrade /\ OneDealPerProduct
             /\ OneActiveIntent /\ LivePriceIsCurrent)
  <1>1. Init => DealInv
    BY DEF Init, DealInv, TypeOK, ReservationMatchesTrade, OneDealPerProduct,
           OneActiveIntent, LivePriceIsCurrent, HasPending, TradesOf, NoTrade, NoProduct
  <1>2. DealInv /\ TypeOK' /\ [Next]_vars => DealInv'
    <2> SUFFICES ASSUME DealInv, TypeOK', [Next]_vars
                 PROVE  DealInv'
      OBVIOUS
    <2>1. ASSUME NEW a \in User, NEW p \in Product, ProductCommand(a, p)
          PROVE  DealInv'
      BY <2>1, ProductCommandKeepsDeal
    <2>2. ASSUME NEW a \in User, NEW t \in Trade, NEW k \in RequestKey,
                 TradeCommand(a, t, k)
          PROVE  DealInv'
      BY <2>2, TradeCommandKeepsDeal
    <2>3. ASSUME NEW a \in User, NEW t \in Trade, Review(a, t)
          PROVE  DealInv'
      BY <2>3, SameStatusKeepsDeal DEF Review
    <2>4. CASE UNCHANGED vars
      BY <2>4, SameStatusKeepsDeal DEF vars
    <2> QED
      BY <2>1, <2>2, <2>3, <2>4 DEF Next
  <1>3. DealInv => ReservationMatchesTrade /\ OneDealPerProduct
                   /\ OneActiveIntent /\ LivePriceIsCurrent
    BY DEF DealInv
  <1> QED
    BY <1>1, <1>2, <1>3, TypeCorrect, PTL DEF Spec

(* A product is never promised to two buyers, whatever commands race for   *)
(* it: the index on accepted trades has nothing to refuse.                 *)
THEOREM OneDeal == Spec => []OneDealPerProduct
  BY DealCorrect, PTL

(* A buyer never has two intents in progress on one product: the index on  *)
(* active intents has nothing to refuse either.                            *)
THEOREM OneIntent == Spec => []OneActiveIntent
  BY DealCorrect, PTL

-----------------------------------------------------------------------------
(* The life of one trade. *)

SameTerms(x) ==
  /\ trades'[x].product = trades[x].product
  /\ trades'[x].buyer = trades[x].buyer
  /\ trades'[x].seller = trades[x].seller
  /\ trades'[x].price = trades[x].price
  /\ trades'[x].conversation = trades[x].conversation

Still(x) == trades'[x] = trades[x] /\ tradeEvents'[x] = tradeEvents[x]

Begins(x) ==
  /\ trades[x] = NoTrade
  /\ trades'[x].status = "PENDING"
  /\ tradeEvents'[x] = Append(tradeEvents[x], "created")

(* A live trade keeps its terms and what was confirmed. *)
Moves(x, from, to) ==
  /\ trades[x].status = from /\ trades'[x].status = to
  /\ SameTerms(x)
  /\ trades[x].confirmed \subseteq trades'[x].confirmed

Tells(x, e) == tradeEvents'[x] = Append(tradeEvents[x], e)

TradeStep(x) ==
  \/ Still(x)
  \/ Begins(x)
  \/ Moves(x, "PENDING", "ACCEPTED") /\ Tells(x, "accepted")
  \/ Moves(x, "PENDING", "CANCELLED") /\ Tells(x, "cancelled")
  \/ Moves(x, "ACCEPTED", "CANCELLED") /\ Tells(x, "cancelled")
  \/ Moves(x, "ACCEPTED", "ACCEPTED") /\ tradeEvents'[x] = tradeEvents[x]
  \/ /\ Moves(x, "ACCEPTED", "COMPLETED") /\ Tells(x, "completed")
     /\ trades'[x].confirmed = Role

LEMMA RowMoves ==
  ASSUME NEW x, NEW s \in TradeStatus, trades[x] \in TradeRow,
         trades'[x] = [trades[x] EXCEPT !.status = s]
  PROVE  Moves(x, trades[x].status, s)
  BY DEF Moves, SameTerms, TradeRow

(* Rejecting and cancelling one trade. *)
LEMMA CancelSteps ==
  ASSUME TypeOK, NEW t \in Trade, trades[t].status \in {"PENDING", "ACCEPTED"},
         trades' = Moved({t}, "CANCELLED"), tradeEvents' = Logged({t}, "cancelled")
  PROVE  \A x \in Trade : TradeStep(x)
  <1>1. ASSUME NEW x \in Trade \ {t}
        PROVE  Still(x)
    BY DEF Still, Moved, Logged
  <1>2. trades'[t] = [trades[t] EXCEPT !.status = "CANCELLED"]
    BY DEF Moved
  <1>3. Moves(t, trades[t].status, "CANCELLED")
    BY <1>2, RowMoves, TradeIsRow DEF TradeStatus
  <1>4. Tells(t, "cancelled")
    BY DEF Tells, Logged
  <1>5. TradeStep(t)
    BY <1>3, <1>4 DEF TradeStep
  <1> QED
    BY <1>1, <1>5 DEF TradeStep

(* Accepting a trade cancels its rivals with it. *)
LEMMA AcceptSteps ==
  ASSUME TypeOK, NEW a \in User, NEW t \in Trade, NEW k \in RequestKey, Accept(a, t, k)
  PROVE  \A x \in Trade : TradeStep(x)
  <1> DEFINE rivals == Rivals(trades[t].product, t)
  <1>1. \A x \in rivals : x \in Trade /\ x # t /\ trades[x].status = "PENDING"
    BY DEF Rivals, TradesOf
  <1>2. /\ trades' = [x \in Trade |->
                        IF x = t THEN [trades[t] EXCEPT !.status = "ACCEPTED"]
                        ELSE Moved(rivals, "CANCELLED")[x]]
        /\ tradeEvents' = [x \in Trade |->
                             IF x = t THEN Append(tradeEvents[t], "accepted")
                             ELSE Logged(rivals, "cancelled")[x]]
        /\ trades[t].status = "PENDING"
    BY DEF Accept
  <1> HIDE DEF rivals
  <1>3. TradeStep(t)
    <2>1. Moves(t, "PENDING", "ACCEPTED")
      BY <1>2, RowMoves, TradeIsRow DEF TradeStatus
    <2> QED
      BY <1>2, <2>1 DEF TradeStep, Tells
  <1>4. ASSUME NEW x \in rivals
        PROVE  TradeStep(x)
    <2>1. trades'[x] = [trades[x] EXCEPT !.status = "CANCELLED"]
      BY <1>1, <1>2 DEF Moved
    <2>2. Moves(x, "PENDING", "CANCELLED")
      BY <1>1, <2>1, RowMoves, TradeIsRow DEF TradeStatus
    <2>3. Tells(x, "cancelled")
      BY <1>1, <1>2 DEF Tells, Logged
    <2> QED
      BY <2>2, <2>3 DEF TradeStep
  <1>5. ASSUME NEW x \in Trade, x # t, x \notin rivals
        PROVE  TradeStep(x)
    BY <1>2, <1>5 DEF TradeStep, Still, Moved, Logged
  <1> QED
    BY <1>3, <1>4, <1>5

(* The second confirmation. *)
LEMMA Completes ==
  ASSUME TypeOK, NEW a \in User, NEW t \in Trade, NEW k \in RequestKey,
         ConfirmAndComplete(a, t, k)
  PROVE  /\ Moves(t, "ACCEPTED", "COMPLETED") /\ Tells(t, "completed")
         /\ trades'[t].confirmed = Role
         /\ \A x \in Trade \ {t} : Still(x)
  <1> DEFINE done == [trades[t] EXCEPT !.status = "COMPLETED"]
  <1>1. /\ trades' = [Moved({t}, "COMPLETED") EXCEPT ![t].confirmed = Role]
        /\ tradeEvents' = Logged({t}, "completed")
        /\ trades[t].status = "ACCEPTED"
    BY DEF ConfirmAndComplete
  <1>2. /\ Moved({t}, "COMPLETED")[t] = done
        /\ \A x \in Trade \ {t} : Moved({t}, "COMPLETED")[x] = trades[x]
        /\ DOMAIN Moved({t}, "COMPLETED") = Trade
    BY DEF Moved
  <1>3. /\ trades'[t] = [done EXCEPT !.confirmed = Role]
        /\ \A x \in Trade \ {t} : trades'[x] = trades[x]
    BY <1>1, <1>2
  <1>4. trades[t] \in TradeRow /\ trades[t].confirmed \subseteq Role
    BY <1>1, TradeIsRow DEF TradeRow
  <1>5. /\ done.status = "COMPLETED"
        /\ done.product = trades[t].product /\ done.buyer = trades[t].buyer
        /\ done.seller = trades[t].seller /\ done.price = trades[t].price
        /\ done.conversation = trades[t].conversation
        /\ done \in TradeRow
    BY <1>4, TradeRowStatus DEF TradeRow, TradeStatus
  <1> HIDE DEF done
  <1>6. /\ trades'[t].status = done.status
        /\ trades'[t].product = done.product /\ trades'[t].buyer = done.buyer
        /\ trades'[t].seller = done.seller /\ trades'[t].price = done.price
        /\ trades'[t].conversation = done.conversation
        /\ trades'[t].confirmed = Role
    BY <1>3, <1>5 DEF TradeRow
  <1>7. Moves(t, "ACCEPTED", "COMPLETED")
    BY <1>1, <1>4, <1>5, <1>6 DEF Moves, SameTerms
  <1>8. Tells(t, "completed") /\ \A x \in Trade \ {t} : tradeEvents'[x] = tradeEvents[x]
    BY <1>1 DEF Tells, Logged
  <1> QED
    BY <1>3, <1>6, <1>7, <1>8 DEF Still

LEMMA ConfirmSteps ==
  ASSUME TypeOK, NEW a \in User, NEW t \in Trade, NEW k \in RequestKey,
         ConfirmOneSide(a, t, k) \/ ConfirmAndComplete(a, t, k)
  PROVE  \A x \in Trade : TradeStep(x)
  <1>1. CASE ConfirmOneSide(a, t, k)
    <2> DEFINE all == trades[t].confirmed \cup {RoleOf(t, a)}
    <2>1. trades[t] \in TradeRow
      BY <1>1, TradeIsRow DEF ConfirmOneSide
    <2>2. /\ trades'[t] = [trades[t] EXCEPT !.confirmed = all]
          /\ \A x \in Trade \ {t} : trades'[x] = trades[x]
          /\ tradeEvents' = tradeEvents
          /\ trades[t].status = "ACCEPTED"
          /\ trades[t].confirmed \subseteq all
      BY <1>1, <2>1 DEF ConfirmOneSide, TypeOK
    <2> HIDE DEF all
    <2>3. Moves(t, "ACCEPTED", "ACCEPTED")
      BY <2>1, <2>2 DEF Moves, SameTerms, TradeRow
    <2>4. TradeStep(t)
      BY <2>2, <2>3 DEF TradeStep
    <2> QED
      BY <2>2, <2>4 DEF TradeStep, Still
  <1>2. CASE ConfirmAndComplete(a, t, k)
    BY <1>2, Completes DEF TradeStep
  <1> QED
    BY <1>1, <1>2

LEMMA CreateSteps ==
  ASSUME TypeOK, NEW a \in User, NEW p \in Product, NEW t \in Trade,
         NEW k \in RequestKey, NEW conv \in ConversationField,
         CreateTrade(a, p, t, k, conv)
  PROVE  \A x \in Trade : TradeStep(x)
  <1>1. /\ trades[t] = NoTrade
        /\ trades'[t].status = "PENDING"
        /\ \A x \in Trade \ {t} : trades'[x] = trades[x]
    BY DEF CreateTrade, TypeOK
  <1>2. /\ tradeEvents'[t] = Append(tradeEvents[t], "created")
        /\ \A x \in Trade \ {t} : tradeEvents'[x] = tradeEvents[x]
    BY DEF CreateTrade, Logged
  <1> QED
    BY <1>1, <1>2 DEF TradeStep, Begins, Still

LEMMA EveryTradeSteps ==
  ASSUME TypeOK, [Next]_vars
  PROVE  \A x \in Trade : TradeStep(x)
  <1>1. ASSUME UNCHANGED <<trades, tradeEvents>>
        PROVE  \A x \in Trade : TradeStep(x)
    BY <1>1 DEF TradeStep, Still
  <1>2. ASSUME NEW a \in User, NEW p \in Product, ProductCommand(a, p)
        PROVE  \A x \in Trade : TradeStep(x)
    BY <1>1, <1>2 DEF ProductCommand, Publish, Update, OffShelf, Relist
  <1>3. ASSUME NEW a \in User, NEW t \in Trade, NEW k \in RequestKey,
               TradeCommand(a, t, k)
        PROVE  \A x \in Trade : TradeStep(x)
    <2>1. ASSUME NEW p \in Product, NEW conv \in ConversationField,
                 CreateTrade(a, p, t, k, conv) \/ ReadIntent(a, p, t, k, conv)
          PROVE  \A x \in Trade : TradeStep(x)
      BY <1>1, <2>1, CreateSteps DEF ReadIntent
    <2>2. CASE Accept(a, t, k)
      BY <2>2, AcceptSteps
    <2>3. CASE Reject(a, t, k) \/ CancelPending(a, t, k) \/ CancelAccepted(a, t, k)
      BY <2>3, CancelSteps DEF Reject, CancelPending, CancelAccepted
    <2>4. CASE ConfirmOneSide(a, t, k) \/ ConfirmAndComplete(a, t, k)
      BY <2>4, ConfirmSteps
    <2>5. CASE ConfirmCompleted(a, t, k)
      BY <1>1, <2>5 DEF ConfirmCompleted
    <2> QED
      BY <1>3, <2>1, <2>2, <2>3, <2>4, <2>5 DEF TradeCommand
  <1>4. ASSUME NEW a \in User, NEW t \in Trade, Review(a, t)
        PROVE  \A x \in Trade : TradeStep(x)
    BY <1>1, <1>4 DEF Review
  <1>5. CASE UNCHANGED vars
    BY <1>1, <1>5 DEF vars
  <1> QED
    BY <1>2, <1>3, <1>4, <1>5 DEF Next

-----------------------------------------------------------------------------
(* The events of a trade. *)

(* The events h of a trade that is in status s. *)
PathOf(h, s) ==
  /\ s = "NONE" => h = << >>
  /\ s = "PENDING" => h = <<"created">>
  /\ s = "ACCEPTED" => h = <<"created", "accepted">>
  /\ s = "COMPLETED" => h = <<"created", "accepted", "completed">>
  /\ s = "CANCELLED" => h \in {<<"created", "cancelled">>,
                               <<"created", "accepted", "cancelled">>}

LEMMA PathInvariant ==
  /\ TradeEventsTellStatus <=> \A t \in Trade : PathOf(tradeEvents[t], trades[t].status)
  /\ TradeEventsTellStatus' <=> \A t \in Trade : PathOf(tradeEvents'[t], trades'[t].status)
  BY DEF TradeEventsTellStatus, PathOf

LEMMA AppendToNone ==
  ASSUME NEW S, NEW e \in S
  PROVE  Append(<< >>, e) = <<e>>
  <1>1. << >> \in Seq(S) /\ <<e>> \in Seq(S)
    OBVIOUS
  <1>2. Append(<< >>, e) \in Seq(S) /\ Len(Append(<< >>, e)) = 1
    BY <1>1
  <1>3. Append(<< >>, e)[1] = e
    BY <1>1, EmptySeq, AppendProperties
  <1>4. Len(<<e>>) = 1 /\ <<e>>[1] = e
    OBVIOUS
  <1>5. \A i \in 1..1 : i = 1
    OBVIOUS
  <1> QED
    BY <1>1, <1>2, <1>3, <1>4, <1>5, SeqEqual

LEMMA AppendToOne ==
  ASSUME NEW S, NEW d \in S, NEW e \in S
  PROVE  Append(<<d>>, e) = <<d, e>>
  <1>1. <<d>> \in Seq(S) /\ <<d, e>> \in Seq(S)
    OBVIOUS
  <1>2. Len(<<d>>) = 1 /\ <<d>>[1] = d
    OBVIOUS
  <1>3. /\ Append(<<d>>, e) \in Seq(S) /\ Len(Append(<<d>>, e)) = 2
        /\ Append(<<d>>, e)[1] = d /\ Append(<<d>>, e)[2] = e
    BY <1>1, <1>2, AppendProperties
  <1>4. Len(<<d, e>>) = 2 /\ <<d, e>>[1] = d /\ <<d, e>>[2] = e
    OBVIOUS
  <1>5. \A i \in 1..2 : i = 1 \/ i = 2
    OBVIOUS
  <1>6. \A i \in 1..2 : Append(<<d>>, e)[i] = <<d, e>>[i]
    BY <1>3, <1>4, <1>5
  <1> QED
    BY <1>1, <1>3, <1>4, <1>6, SeqEqual

LEMMA AppendToTwo ==
  ASSUME NEW S, NEW c \in S, NEW d \in S, NEW e \in S
  PROVE  Append(<<c, d>>, e) = <<c, d, e>>
  <1>1. <<c, d>> \in Seq(S) /\ <<c, d, e>> \in Seq(S)
    OBVIOUS
  <1>2. Len(<<c, d>>) = 2 /\ <<c, d>>[1] = c /\ <<c, d>>[2] = d
    OBVIOUS
  <1>3. /\ Append(<<c, d>>, e) \in Seq(S) /\ Len(Append(<<c, d>>, e)) = 3
        /\ Append(<<c, d>>, e)[1] = c /\ Append(<<c, d>>, e)[2] = d
        /\ Append(<<c, d>>, e)[3] = e
    BY <1>1, <1>2, AppendProperties
  <1>4. /\ Len(<<c, d, e>>) = 3
        /\ <<c, d, e>>[1] = c /\ <<c, d, e>>[2] = d /\ <<c, d, e>>[3] = e
    OBVIOUS
  <1>5. \A i \in 1..3 : i = 1 \/ i = 2 \/ i = 3
    OBVIOUS
  <1>6. \A i \in 1..3 : Append(<<c, d>>, e)[i] = <<c, d, e>>[i]
    BY <1>3, <1>4, <1>5
  <1> QED
    BY <1>1, <1>3, <1>4, <1>6, SeqEqual

LEMMA Paths ==
  /\ Append(<< >>, "created") = <<"created">>
  /\ Append(<<"created">>, "accepted") = <<"created", "accepted">>
  /\ Append(<<"created">>, "cancelled") = <<"created", "cancelled">>
  /\ Append(<<"created", "accepted">>, "cancelled") = <<"created", "accepted", "cancelled">>
  /\ Append(<<"created", "accepted">>, "completed") = <<"created", "accepted", "completed">>
  <1>1. {"created", "accepted", "cancelled", "completed"} \subseteq TradeEvent
    BY DEF TradeEvent
  <1> HIDE DEF TradeEvent
  <1>2. Append(<< >>, "created") = <<"created">>
    BY <1>1, AppendToNone
  <1>3. /\ Append(<<"created">>, "accepted") = <<"created", "accepted">>
        /\ Append(<<"created">>, "cancelled") = <<"created", "cancelled">>
    BY <1>1, AppendToOne
  <1>4. /\ Append(<<"created", "accepted">>, "cancelled")
             = <<"created", "accepted", "cancelled">>
        /\ Append(<<"created", "accepted">>, "completed")
             = <<"created", "accepted", "completed">>
    BY <1>1, AppendToTwo
  <1> QED
    BY <1>2, <1>3, <1>4

(* The outbox of a trade is the path its row has taken: no event is        *)
(* missing, doubled or out of order, in any number of commands.            *)
THEOREM EventsTellStatus == Spec => []TradeEventsTellStatus
  <1>1. Init => TradeEventsTellStatus
    BY DEF Init, TradeEventsTellStatus, NoTrade
  <1>2. TypeOK /\ TypeOK' /\ TradeEventsTellStatus /\ [Next]_vars => TradeEventsTellStatus'
    <2> SUFFICES ASSUME TypeOK, TypeOK', TradeEventsTellStatus, [Next]_vars,
                        NEW t \in Trade
                 PROVE  PathOf(tradeEvents'[t], trades'[t].status)
      BY PathInvariant
    <2>0. PathOf(tradeEvents[t], trades[t].status)
      BY PathInvariant
    <2>1. TradeStep(t)
      BY EveryTradeSteps
    <2>2. CASE Still(t)
      BY <2>0, <2>2 DEF Still
    <2>3. CASE Begins(t)
      <3>1. trades[t].status = "NONE" /\ trades'[t].status = "PENDING"
        BY <2>3 DEF Begins, NoTrade
      <3>2. tradeEvents[t] = << >>
        BY <2>0, <3>1 DEF PathOf
      <3>3. tradeEvents'[t] = <<"created">>
        BY <2>3, <3>2, Paths DEF Begins
      <3> QED
        BY <3>1, <3>3 DEF PathOf
    <2>4. CASE Moves(t, "PENDING", "ACCEPTED") /\ Tells(t, "accepted")
      BY <2>0, <2>4, Paths DEF Moves, Tells, PathOf
    <2>5. CASE Moves(t, "PENDING", "CANCELLED") /\ Tells(t, "cancelled")
      BY <2>0, <2>5, Paths DEF Moves, Tells, PathOf
    <2>6. CASE Moves(t, "ACCEPTED", "CANCELLED") /\ Tells(t, "cancelled")
      BY <2>0, <2>6, Paths DEF Moves, Tells, PathOf
    <2>7. CASE Moves(t, "ACCEPTED", "ACCEPTED") /\ tradeEvents'[t] = tradeEvents[t]
      BY <2>0, <2>7 DEF Moves
    <2>8. CASE Moves(t, "ACCEPTED", "COMPLETED") /\ Tells(t, "completed")
      BY <2>0, <2>8, Paths DEF Moves, Tells, PathOf
    <2> QED
      BY <2>1, <2>2, <2>3, <2>4, <2>5, <2>6, <2>7, <2>8 DEF TradeStep
  <1> QED
    BY <1>1, <1>2, TypeCorrect, PTL DEF Spec

-----------------------------------------------------------------------------
(* The stored results. *)

ConfirmedBy(row, a) ==
  \/ a = row.buyer /\ "buyer" \in row.confirmed
  \/ a = row.seller /\ "seller" \in row.confirmed

(* What is true of the trade when a command of a stores the result r. *)
Reports(a, r) ==
  LET old == trades[r.trade]
      new == trades'[r.trade]
  IN
  \/ r.code = "TRADE_CREATED" /\ old = NoTrade /\ new.status = "PENDING" /\ new.buyer = a
  \/ r.code = "TRADE_EXISTS" /\ new.status # "NONE" /\ new.buyer = a
  \/ /\ r.code = "TRADE_ACCEPTED" /\ old.status = "PENDING"
     /\ new.status = "ACCEPTED" /\ new.seller = a
  \/ /\ r.code = "TRADE_REJECTED" /\ old.status = "PENDING"
     /\ new.status = "CANCELLED" /\ new.seller = a
  \/ /\ r.code = "TRADE_CANCELLED" /\ old.status \in {"PENDING", "ACCEPTED"}
     /\ new.status = "CANCELLED"
  \/ r.code = "TRADE_CONFIRMED" /\ new.status # "NONE" /\ ConfirmedBy(new, a)
  \/ /\ r.code = "TRADE_COMPLETED" /\ old.status = "ACCEPTED"
     /\ new.status = "COMPLETED" /\ ConfirmedBy(new, a)

(* A step stores no result, or one true result under a fresh command id.   *)
StoresTruth ==
  \/ ledger' = ledger
  \/ \E c \in CommandId, r \in Result :
       /\ ledger[c] = NoResult
       /\ ledger' = [ledger EXCEPT ![c] = r]
       /\ Reports(c.actor, r)

LEMMA RecordStores ==
  ASSUME NEW a \in User, NEW op \in Operation, NEW k \in RequestKey,
         NEW code \in ResultCode, NEW t \in Trade, NEW s \in TradeStatus,
         Fresh(a, op, k), Record(a, op, k, code, t, s),
         Reports(a, [code |-> code, trade |-> t, status |-> s])
  PROVE  StoresTruth
  <1> DEFINE c == [actor |-> a, op |-> op, key |-> k]
             r == [code |-> code, trade |-> t, status |-> s]
  <1>1. CASE k = NoKey
    BY <1>1 DEF Record, StoresTruth
  <1>2. CASE k # NoKey
    <2>1. c \in CommandId /\ c.actor = a
      BY <1>2 DEF RequestKey, CommandId
    <2>2. r \in Result
      BY DEF Result
    <2>3. ledger[c] = NoResult /\ ledger' = [ledger EXCEPT ![c] = r]
      BY <1>2 DEF Fresh, Record
    <2>4. Reports(c.actor, r)
      BY <2>1
    <2> HIDE DEF c, r
    <2> QED
      BY <2>1, <2>2, <2>3, <2>4 DEF StoresTruth
  <1> QED
    BY <1>1, <1>2

(* Both sides have confirmed a completed trade. *)
CompletedIsConfirmed ==
  \A t \in Trade : trades[t].status = "COMPLETED" => trades[t].confirmed = Role

LEMMA CompletedStaysConfirmed ==
  ASSUME TypeOK, CompletedIsConfirmed, [Next]_vars
  PROVE  CompletedIsConfirmed'
  <1> SUFFICES ASSUME NEW t \in Trade, trades'[t].status = "COMPLETED"
               PROVE  trades'[t].confirmed = Role
    BY DEF CompletedIsConfirmed
  <1>1. TradeStep(t)
    BY EveryTradeSteps
  <1> QED
    BY <1>1 DEF TradeStep, Still, Begins, Moves, CompletedIsConfirmed

LEMMA PartyConfirms ==
  ASSUME NEW row, NEW a, NEW role, a \in {row.buyer, row.seller},
         role = (IF row.buyer = a THEN "buyer" ELSE "seller"), role \in row.confirmed
  PROVE  ConfirmedBy(row, a)
  BY DEF ConfirmedBy

(* One lemma for each way a command may end. *)
LEMMA IntentStores ==
  ASSUME TypeOK, NEW a \in User, NEW p \in Product, NEW t \in Trade,
         NEW k \in RequestKey, NEW conv \in ConversationField,
         CreateTrade(a, p, t, k, conv) \/ ReadIntent(a, p, t, k, conv)
  PROVE  StoresTruth
  <1>1. CASE CreateTrade(a, p, t, k, conv)
    <2> DEFINE r == [code |-> "TRADE_CREATED", trade |-> t, status |-> "PENDING"]
    <2>1. trades[t] = NoTrade /\ trades'[t].status = "PENDING" /\ trades'[t].buyer = a
      BY <1>1 DEF CreateTrade, TypeOK
    <2>2. Reports(a, r)
      BY <2>1 DEF Reports
    <2> QED
      BY <1>1, <2>2, RecordStores DEF CreateTrade, Operation, ResultCode, TradeStatus
  <1>2. CASE ReadIntent(a, p, t, k, conv)
    <2> DEFINE s == trades[t].status
               r == [code |-> "TRADE_EXISTS", trade |-> t, status |-> s]
    <2>1. /\ s \in {"PENDING", "ACCEPTED"} /\ trades[t].buyer = a
          /\ trades' = trades
      BY <1>2 DEF ReadIntent, ActiveIntent, TradesOf
    <2>2. Reports(a, r)
      BY <2>1 DEF Reports
    <2>3. s \in TradeStatus
      BY <2>1 DEF TradeStatus
    <2>4. Fresh(a, "trade.create", k) /\ Record(a, "trade.create", k, "TRADE_EXISTS", t, s)
      BY <1>2 DEF ReadIntent
    <2> HIDE DEF s
    <2> QED
      BY <2>2, <2>3, <2>4, RecordStores DEF Operation, ResultCode
  <1> QED
    BY <1>1, <1>2

LEMMA AcceptStores ==
  ASSUME TypeOK, NEW a \in User, NEW t \in Trade, NEW k \in RequestKey,
         Accept(a, t, k)
  PROVE  StoresTruth
  <1> DEFINE r == [code |-> "TRADE_ACCEPTED", trade |-> t, status |-> "ACCEPTED"]
  <1>1. trades'[t].status = "ACCEPTED" /\ trades'[t].seller = trades[t].seller
    BY AcceptMoves DEF Accept
  <1>2. Reports(a, r)
    BY <1>1 DEF Reports, Accept
  <1> QED
    BY <1>2, RecordStores DEF Accept, Operation, ResultCode, TradeStatus

LEMMA CancelStores ==
  ASSUME TypeOK, NEW a \in User, NEW t \in Trade, NEW k \in RequestKey,
         Reject(a, t, k) \/ CancelPending(a, t, k) \/ CancelAccepted(a, t, k)
  PROVE  StoresTruth
  <1>1. trades[t].status \in {"PENDING", "ACCEPTED"} /\ trades' = Moved({t}, "CANCELLED")
    BY DEF Reject, CancelPending, CancelAccepted
  <1>2. TradesMove({t}, "CANCELLED")
    BY <1>1, MovedMoves DEF TradeStatus
  <1>3. trades'[t].status = "CANCELLED" /\ trades'[t].seller = trades[t].seller
    BY <1>1, <1>2 DEF TradesMove
  <1>4. CASE Reject(a, t, k)
    <2> DEFINE r == [code |-> "TRADE_REJECTED", trade |-> t, status |-> "CANCELLED"]
    <2>1. Reports(a, r)
      BY <1>3, <1>4 DEF Reports, Reject
    <2> QED
      BY <1>4, <2>1, RecordStores DEF Reject, Operation, ResultCode, TradeStatus
  <1>5. CASE CancelPending(a, t, k) \/ CancelAccepted(a, t, k)
    <2> DEFINE r == [code |-> "TRADE_CANCELLED", trade |-> t, status |-> "CANCELLED"]
    <2>1. Reports(a, r)
      BY <1>1, <1>3 DEF Reports
    <2> QED
      BY <1>5, <2>1, RecordStores
         DEF CancelPending, CancelAccepted, Operation, ResultCode, TradeStatus
  <1> QED
    BY <1>4, <1>5

LEMMA ConfirmStores ==
  ASSUME TypeOK, CompletedIsConfirmed, NEW a \in User, NEW t \in Trade, NEW k \in RequestKey,
         ConfirmOneSide(a, t, k) \/ ConfirmAndComplete(a, t, k) \/ ConfirmCompleted(a, t, k)
  PROVE  StoresTruth
  <1>1. /\ trades[t] \in TradeRow
        /\ a \in {trades[t].buyer, trades[t].seller}
    BY TradeIsRow DEF ConfirmOneSide, ConfirmAndComplete, ConfirmCompleted, Party
  <1>2. RoleOf(t, a) = (IF trades[t].buyer = a THEN "buyer" ELSE "seller")
    BY DEF RoleOf
  <1>3. CASE ConfirmOneSide(a, t, k)
    <2> DEFINE r == [code |-> "TRADE_CONFIRMED", trade |-> t, status |-> "ACCEPTED"]
               all == trades[t].confirmed \cup {RoleOf(t, a)}
    <2>1. trades'[t] = [trades[t] EXCEPT !.confirmed = all]
      BY <1>3 DEF ConfirmOneSide, TypeOK
    <2>2. /\ trades'[t].status = "ACCEPTED" /\ trades'[t].confirmed = all
          /\ trades'[t].buyer = trades[t].buyer /\ trades'[t].seller = trades[t].seller
      BY <1>1, <1>3, <2>1 DEF TradeRow, ConfirmOneSide
    <2>3. ConfirmedBy(trades'[t], a)
      BY <1>1, <1>2, <2>2, PartyConfirms
    <2>4. Reports(a, r)
      BY <2>2, <2>3 DEF Reports
    <2> QED
      BY <1>3, <2>4, RecordStores DEF ConfirmOneSide, Operation, ResultCode, TradeStatus
  <1>4. CASE ConfirmAndComplete(a, t, k)
    <2> DEFINE r == [code |-> "TRADE_COMPLETED", trade |-> t, status |-> "COMPLETED"]
    <2>1. Moves(t, "ACCEPTED", "COMPLETED") /\ trades'[t].confirmed = Role
      BY <1>4, Completes
    <2>2. /\ trades[t].status = "ACCEPTED" /\ trades'[t].status = "COMPLETED"
          /\ trades'[t].buyer = trades[t].buyer /\ trades'[t].seller = trades[t].seller
      BY <2>1 DEF Moves, SameTerms
    <2>3. ConfirmedBy(trades'[t], a)
      BY <1>1, <2>1, <2>2, PartyConfirms DEF Role
    <2>4. Reports(a, r)
      BY <2>2, <2>3 DEF Reports
    <2> QED
      BY <1>4, <2>4, RecordStores DEF ConfirmAndComplete, Operation, ResultCode, TradeStatus
  <1>5. CASE ConfirmCompleted(a, t, k)
    <2> DEFINE r == [code |-> "TRADE_CONFIRMED", trade |-> t, status |-> "COMPLETED"]
    <2>1. trades' = trades /\ trades[t].status = "COMPLETED" /\ trades[t].confirmed = Role
      BY <1>5 DEF ConfirmCompleted, CompletedIsConfirmed
    <2>2. ConfirmedBy(trades[t], a)
      BY <1>1, <2>1, PartyConfirms DEF Role
    <2>3. Reports(a, r)
      BY <2>1, <2>2 DEF Reports
    <2> QED
      BY <1>5, <2>3, RecordStores DEF ConfirmCompleted, Operation, ResultCode, TradeStatus
  <1> QED
    BY <1>3, <1>4, <1>5

LEMMA EveryStepStoresTruth ==
  ASSUME TypeOK, CompletedIsConfirmed, [Next]_vars
  PROVE  StoresTruth
  <1>1. ASSUME ledger' = ledger
        PROVE  StoresTruth
    BY <1>1 DEF StoresTruth
  <1>2. ASSUME NEW a \in User, NEW p \in Product, ProductCommand(a, p)
        PROVE  StoresTruth
    BY <1>1, <1>2 DEF ProductCommand, Publish, Update, OffShelf, Relist
  <1>3. ASSUME NEW a \in User, NEW t \in Trade, NEW k \in RequestKey,
               TradeCommand(a, t, k)
        PROVE  StoresTruth
    BY <1>3, IntentStores, AcceptStores, CancelStores, ConfirmStores DEF TradeCommand
  <1>4. ASSUME NEW a \in User, NEW t \in Trade, Review(a, t)
        PROVE  StoresTruth
    BY <1>1, <1>4 DEF Review
  <1>5. CASE UNCHANGED vars
    BY <1>1, <1>5 DEF vars
  <1> QED
    BY <1>2, <1>3, <1>4, <1>5 DEF Next

(* What LedgerTellsTruth says of the result r given to a about a trade in  *)
(* the state row.                                                          *)
HoldsOf(a, r, row) ==
  /\ row # NoTrade
  /\ r.code \in {"TRADE_CREATED", "TRADE_EXISTS"} => a = row.buyer
  /\ r.code \in {"TRADE_ACCEPTED", "TRADE_REJECTED"} => a = row.seller
  /\ r.code = "TRADE_ACCEPTED" => row.status \in {"ACCEPTED", "COMPLETED", "CANCELLED"}
  /\ r.code \in {"TRADE_REJECTED", "TRADE_CANCELLED"} => row.status = "CANCELLED"
  /\ r.code = "TRADE_COMPLETED" => row.status = "COMPLETED"
  /\ r.code \in {"TRADE_CONFIRMED", "TRADE_COMPLETED"} => ConfirmedBy(row, a)

LEMMA TruthOfLedger ==
  /\ LedgerTellsTruth <=> \A c \in CommandId :
       ledger[c] # NoResult => HoldsOf(c.actor, ledger[c], trades[ledger[c].trade])
  /\ LedgerTellsTruth' <=> \A c \in CommandId :
       ledger'[c] # NoResult => HoldsOf(c.actor, ledger'[c], trades'[ledger'[c].trade])
  BY DEF LedgerTellsTruth, HoldsOf, ConfirmedBy

(* What was true of a trade stays true as it moves on. *)
LEMMA TruthStays ==
  ASSUME TypeOK, TypeOK', [Next]_vars, NEW a, NEW r \in Result, HoldsOf(a, r, trades[r.trade])
  PROVE  HoldsOf(a, r, trades'[r.trade])
  <1> DEFINE t == r.trade
  <1>1. t \in Trade
    BY DEF Result
  <1>2. trades[t] \in TradeRow /\ trades[t].status # "NONE"
    BY <1>1 DEF HoldsOf, TypeOK, TradeRow, TradeStatus
  <1>3. TradeStep(t)
    BY <1>1, EveryTradeSteps
  <1>4. CASE Still(t)
    BY <1>4 DEF Still
  <1>5. ASSUME NEW from, NEW to, Moves(t, from, to)
        PROVE  /\ trades[t].status = from /\ trades'[t].status = to
               /\ trades'[t].buyer = trades[t].buyer /\ trades'[t].seller = trades[t].seller
               /\ ConfirmedBy(trades[t], a) => ConfirmedBy(trades'[t], a)
    BY <1>5 DEF Moves, SameTerms, ConfirmedBy
  <1>6. ~Begins(t)
    BY <1>2 DEF Begins, NoTrade
  <1>7. CASE \E to \in {"ACCEPTED", "CANCELLED"} : Moves(t, "PENDING", to)
    <2> PICK to \in {"ACCEPTED", "CANCELLED"} : Moves(t, "PENDING", to)
      BY <1>7
    <2> QED
      BY <1>5 DEF HoldsOf, NoTrade
  <1>8. CASE \E to \in {"ACCEPTED", "CANCELLED", "COMPLETED"} : Moves(t, "ACCEPTED", to)
    <2> PICK to \in {"ACCEPTED", "CANCELLED", "COMPLETED"} : Moves(t, "ACCEPTED", to)
      BY <1>8
    <2> QED
      BY <1>5 DEF HoldsOf, NoTrade
  <1> QED
    BY <1>3, <1>4, <1>6, <1>7, <1>8 DEF TradeStep

LEMMA ReportIsTrue ==
  ASSUME NEW a, NEW r, Reports(a, r)
  PROVE  HoldsOf(a, r, trades'[r.trade])
  BY DEF Reports, HoldsOf, ConfirmedBy, NoTrade

(* Nothing that a result reports can be reported again. *)
LEMMA ReportIsNew ==
  ASSUME NEW a, NEW b, NEW r, NEW q, Reports(a, r), HoldsOf(b, q, trades[q.trade]),
         q.trade = r.trade
  PROVE  /\ r.code \in {"TRADE_CREATED", "TRADE_ACCEPTED"} => q.code # r.code
         /\ r.code \in {"TRADE_REJECTED", "TRADE_CANCELLED", "TRADE_COMPLETED"} =>
              q.code \notin {"TRADE_REJECTED", "TRADE_CANCELLED", "TRADE_COMPLETED"}
  BY DEF Reports, HoldsOf

LedgerInv ==
  /\ CompletedIsConfirmed
  /\ LedgerTellsTruth
  /\ OneRecordedEffect

LEMMA LedgerKept ==
  ASSUME TypeOK, TypeOK', LedgerInv, [Next]_vars
  PROVE  LedgerInv'
  <1>1. CompletedIsConfirmed' /\ StoresTruth
    BY CompletedStaysConfirmed, EveryStepStoresTruth DEF LedgerInv
  <1>2. ASSUME NEW c \in CommandId, ledger[c] # NoResult
        PROVE  /\ HoldsOf(c.actor, ledger[c], trades[ledger[c].trade])
               /\ HoldsOf(c.actor, ledger[c], trades'[ledger[c].trade])
    <2>1. HoldsOf(c.actor, ledger[c], trades[ledger[c].trade])
      BY <1>2, TruthOfLedger DEF LedgerInv
    <2>2. ledger[c] \in Result
      BY <1>2 DEF TypeOK
    <2> QED
      BY <2>1, <2>2, TruthStays
  <1>3. CASE ledger' = ledger
    <2>1. LedgerTellsTruth'
      BY <1>2, <1>3, TruthOfLedger
    <2>2. OneRecordedEffect'
      BY <1>3 DEF LedgerInv, OneRecordedEffect
    <2> QED
      BY <1>1, <2>1, <2>2 DEF LedgerInv
  <1>4. CASE \E c \in CommandId, r \in Result :
               /\ ledger[c] = NoResult
               /\ ledger' = [ledger EXCEPT ![c] = r]
               /\ Reports(c.actor, r)
    <2> PICK n \in CommandId, r \in Result :
               /\ ledger[n] = NoResult
               /\ ledger' = [ledger EXCEPT ![n] = r]
               /\ Reports(n.actor, r)
      BY <1>4
    <2>1. ledger'[n] = r /\ \A c \in CommandId \ {n} : ledger'[c] = ledger[c]
      BY DEF TypeOK
    <2>2. LedgerTellsTruth'
      <3>1. HoldsOf(n.actor, r, trades'[r.trade])
        BY ReportIsTrue
      <3> QED
        BY <1>2, <2>1, <3>1, TruthOfLedger
    <2>3. OneRecordedEffect'
      <3> DEFINE ending == {"TRADE_REJECTED", "TRADE_CANCELLED", "TRADE_COMPLETED"}
                 Same(q, o) == /\ NoResult \notin {q, o}
                               /\ q.trade = o.trade
                               /\ \/ q.code = o.code
                                     /\ q.code \in {"TRADE_CREATED", "TRADE_ACCEPTED"}
                                  \/ {q.code, o.code} \subseteq ending
      <3>1. ASSUME NEW c \in CommandId \ {n}, Same(ledger[c], r) \/ Same(r, ledger[c])
            PROVE  FALSE
        <4>1. ledger[c] # NoResult /\ ledger[c].trade = r.trade
          BY <3>1
        <4>2. HoldsOf(c.actor, ledger[c], trades[ledger[c].trade])
          BY <1>2, <4>1
        <4> QED
          BY <3>1, <4>1, <4>2, ReportIsNew
      <3>2. \A c, d \in CommandId : Same(ledger[c], ledger[d]) => c = d
        BY DEF LedgerInv, OneRecordedEffect
      <3>3. \A c, d \in CommandId : Same(ledger'[c], ledger'[d]) => c = d
        <4> HIDE DEF Same
        <4> QED
          BY <2>1, <3>1, <3>2
      <3> QED
        BY <3>3 DEF OneRecordedEffect
    <2> QED
      BY <1>1, <2>2, <2>3 DEF LedgerInv
  <1> QED
    BY <1>1, <1>3, <1>4 DEF StoresTruth

(* A replayed result is never a lie, however long the trade has moved on,  *)
(* and no effect on a trade is reported under two command ids.             *)
THEOREM LedgerCorrect == Spec => [](LedgerTellsTruth /\ OneRecordedEffect)
  <1>1. Init => LedgerInv
    <2> SUFFICES ASSUME Init PROVE LedgerInv
      OBVIOUS
    <2>1. \A c \in CommandId : ledger[c] = NoResult
      BY DEF Init
    <2>2. CompletedIsConfirmed
      BY DEF Init, CompletedIsConfirmed, NoTrade
    <2> QED
      BY <2>1, <2>2 DEF LedgerInv, LedgerTellsTruth, OneRecordedEffect
  <1>2. TypeOK /\ TypeOK' /\ LedgerInv /\ [Next]_vars => LedgerInv'
    BY LedgerKept
  <1>3. LedgerInv => LedgerTellsTruth /\ OneRecordedEffect
    BY DEF LedgerInv
  <1> QED
    BY <1>1, <1>2, <1>3, TypeCorrect, PTL DEF Spec

(* However many keys a client uses for one and the same command, at most   *)
(* one of them is answered as the one that created, accepted or ended the  *)
(* trade.                                                                  *)
THEOREM OneEffect == Spec => []OneRecordedEffect
  BY LedgerCorrect, PTL

-----------------------------------------------------------------------------
(* Reviews. *)

ReviewInv == \A t \in reviews : t \in Trade /\ trades[t].status = "COMPLETED"

LEMMA ReviewsGrow ==
  ASSUME [Next]_vars
  PROVE  \/ reviews' = reviews
         \/ \E t \in Trade : trades[t].status = "COMPLETED" /\ reviews' = reviews \cup {t}
  <1>1. ASSUME NEW a \in User, NEW p \in Product, ProductCommand(a, p)
        PROVE  reviews' = reviews
    BY <1>1 DEF ProductCommand, Publish, Update, OffShelf, Relist
  <1>2. ASSUME NEW a \in User, NEW t \in Trade, NEW k \in RequestKey,
               TradeCommand(a, t, k)
        PROVE  reviews' = reviews
    BY <1>2 DEF TradeCommand, CreateTrade, ReadIntent, Accept, Reject, CancelPending,
                CancelAccepted, ConfirmOneSide, ConfirmAndComplete, ConfirmCompleted
  <1>3. ASSUME NEW a \in User, NEW t \in Trade, Review(a, t)
        PROVE  trades[t].status = "COMPLETED" /\ reviews' = reviews \cup {t}
    BY <1>3 DEF Review
  <1>4. CASE UNCHANGED vars
    BY <1>4 DEF vars
  <1> QED
    BY <1>1, <1>2, <1>3, <1>4 DEF Next

LEMMA CompletedStays ==
  ASSUME TypeOK, [Next]_vars, NEW t \in Trade, trades[t].status = "COMPLETED"
  PROVE  trades'[t] = trades[t] /\ tradeEvents'[t] = tradeEvents[t]
  BY EveryTradeSteps DEF TradeStep, Still, Begins, Moves, NoTrade

(* The product pages show one review: a product that was sold once was     *)
(* reviewed once, although the index is on the trade.                      *)
THEOREM ReviewsCorrect == Spec => []OneReviewPerProduct
  <1>1. Init => ReviewInv
    BY DEF Init, ReviewInv
  <1>2. TypeOK /\ ReviewInv /\ [Next]_vars => ReviewInv'
    BY ReviewsGrow, CompletedStays DEF ReviewInv
  <1>3. TypeOK /\ ReviewInv /\ OneDealPerProduct => OneReviewPerProduct
    <2> SUFFICES ASSUME TypeOK, ReviewInv, OneDealPerProduct,
                        NEW t \in reviews, NEW u \in reviews,
                        trades[t].product = trades[u].product
                 PROVE  t = u
      BY DEF OneReviewPerProduct
    <2> DEFINE p == trades[t].product
    <2>1. p \in Product
      BY TradeIsRow DEF ReviewInv, TradeRow
    <2>2. {t, u} \subseteq TradesOf(p, "COMPLETED")
      BY DEF ReviewInv, TradesOf
    <2> QED
      BY <2>1, <2>2 DEF OneDealPerProduct
  <1> QED
    BY <1>1, <1>2, <1>3, TypeCorrect, DealCorrect, PTL DEF Spec

-----------------------------------------------------------------------------
(* History. *)

LEMMA SameRow ==
  ASSUME NEW r \in TradeRow, NEW q \in TradeRow,
         q.product = r.product, q.buyer = r.buyer, q.seller = r.seller,
         q.price = r.price, q.conversation = r.conversation
  PROVE  [q EXCEPT !.status = r.status, !.confirmed = r.confirmed] = r
  BY DEF TradeRow

LEMMA HistoryStep ==
  ASSUME TypeOK, TypeOK', CompletedIsConfirmed, [Next]_vars
  PROVE  HistoryKept
  <1>1. ASSUME NEW t \in Trade, trades[t].status \in {"COMPLETED", "CANCELLED"}
        PROVE  trades'[t] = trades[t] /\ tradeEvents'[t] = tradeEvents[t]
    BY <1>1, EveryTradeSteps DEF TradeStep, Still, Begins, Moves, NoTrade
  <1>2. ASSUME NEW t \in Trade, trades[t] # NoTrade
        PROVE  [trades'[t] EXCEPT !.status = trades[t].status,
                                  !.confirmed = trades[t].confirmed] = trades[t]
    <2>1. trades[t] \in TradeRow
      BY <1>2 DEF TypeOK
    <2>2. TradeStep(t)
      BY EveryTradeSteps
    <2>3. CASE Still(t)
      BY <2>1, <2>3, SameRow DEF Still
    <2>4. CASE ~Still(t)
      <3>1. SameTerms(t) /\ trades'[t].status # "NONE"
        BY <1>2, <2>2, <2>4 DEF TradeStep, Begins, Moves
      <3>2. trades'[t] \in TradeRow
        BY <3>1 DEF TypeOK, NoTrade
      <3> QED
        BY <2>1, <3>1, <3>2, SameRow DEF SameTerms
    <2> QED
      BY <2>3, <2>4
  <1>3. ASSUME NEW c \in CommandId, ledger[c] # NoResult
        PROVE  ledger'[c] = ledger[c]
    BY <1>3, EveryStepStoresTruth DEF StoresTruth, TypeOK
  <1>4. reviews \subseteq reviews'
    BY ReviewsGrow
  <1> QED
    BY <1>1, <1>2, <1>3, <1>4 DEF HistoryKept

(* No command rewrites a finished trade, the terms of a trade, its events, *)
(* a stored result or a review.                                            *)
THEOREM HistoryFinal == Spec => HistoryIsFinal
  <1>1. Init => CompletedIsConfirmed
    BY DEF Init, CompletedIsConfirmed, NoTrade
  <1>2. TypeOK /\ CompletedIsConfirmed /\ [Next]_vars => CompletedIsConfirmed'
    BY CompletedStaysConfirmed
  <1>3. TypeOK /\ TypeOK' /\ CompletedIsConfirmed /\ [Next]_vars => [HistoryKept]_vars
    BY HistoryStep
  <1> QED
    BY <1>1, <1>2, <1>3, TypeCorrect, PTL DEF Spec, HistoryIsFinal

-----------------------------------------------------------------------------
(* The events of a product. *)

Free == {"NONE", "ON_SALE", "OFF_SHELF"}

(* No deal on p is made, broken or completed. *)
Quiet(p) ==
  /\ productEvents'[p] = productEvents[p]
  /\ \/ products'[p].status = products[p].status
     \/ {products[p].status, products'[p].status} \subseteq Free
  /\ \A t \in Trade :
       trades[t].status = "ACCEPTED" /\ trades'[t].status = "CANCELLED" => trades[t].product # p

(* One is, in trade t, and the event tells it. *)
Told(p, s, t) ==
  /\ products'[p].status = s
  /\ productEvents'[p] = Append(productEvents[p], [status |-> s, trade |-> t])
  /\ trades'[t].product = p
  /\ s = "ON_SALE" => trades'[t].status = "CANCELLED"
  /\ s # "ON_SALE" => trades'[t].status \in {"ACCEPTED", "COMPLETED"}

ProductStep(p) ==
  \/ Quiet(p)
  \/ \E s \in {"ON_SALE", "RESERVED", "SOLD"}, t \in Trade : Told(p, s, t)

LEMMA MoveTells ==
  ASSUME TypeOK, NEW p \in Product, NEW s \in {"ON_SALE", "RESERVED", "SOLD"}, NEW t \in Trade,
         products[p].status # "NONE", MoveProduct(p, s, t)
  PROVE  /\ products'[p].status = s
         /\ productEvents'[p] = Append(productEvents[p], [status |-> s, trade |-> t])
         /\ \A q \in Product \ {p} :
              /\ productEvents'[q] = productEvents[q]
              /\ products'[q].status = products[q].status
  <1>1. s \in ProductStatus
    BY DEF ProductStatus
  <1>2. /\ products'[p].status = s
        /\ \A q \in Product \ {p} : products'[q].status = products[q].status
    <2>1. ProductsMove({p}, s)
      BY <1>1, MoveProductMoves
    <2> QED
      BY <2>1 DEF ProductsMove
  <1>3. /\ productEvents'[p] = Append(productEvents[p], [status |-> s, trade |-> t])
        /\ \A q \in Product \ {p} : productEvents'[q] = productEvents[q]
    BY DEF MoveProduct, TypeOK
  <1> QED
    BY <1>2, <1>3

(* A command that leaves products alone and breaks no deal is quiet.       *)
LEMMA OtherStepsQuiet ==
  ASSUME UNCHANGED <<products, productEvents>>,
         \A t \in Trade : trades[t].status = "ACCEPTED" => trades'[t].status # "CANCELLED",
         NEW p \in Product
  PROVE  ProductStep(p)
  BY DEF ProductStep, Quiet

LEMMA DealSteps ==
  ASSUME TypeOK, NEW a \in User, NEW t \in Trade, NEW k \in RequestKey,
         Accept(a, t, k) \/ CancelAccepted(a, t, k) \/ ConfirmAndComplete(a, t, k),
         NEW q \in Product
  PROVE  ProductStep(q)
  <1> DEFINE p == trades[t].product
  <1>1. trades[t] \in TradeRow /\ p \in Product
    BY TradeIsRow DEF Accept, CancelAccepted, ConfirmAndComplete, TradeRow
  <1>2. CASE Accept(a, t, k)
    <2>1. /\ trades'[t].status = "ACCEPTED" /\ trades'[t].product = p
          /\ \A x \in Trade : trades[x].status = "ACCEPTED" => trades'[x].status # "CANCELLED"
      <3>1. trades[t].status = "PENDING"
        BY <1>2 DEF Accept
      <3>2. \A x \in Trade : trades[x].status = "ACCEPTED" => x \notin Rivals(p, t)
        BY DEF Rivals, TradesOf
      <3>3. /\ trades'[t].status = "ACCEPTED"
            /\ trades'[t].product = p
            /\ \A x \in Trade \ (Rivals(p, t) \cup {t}) : trades'[x].status = trades[x].status
        BY <1>2, <3>1, AcceptMoves
      <3> QED
        BY <3>1, <3>2, <3>3
    <2>2. MoveProduct(p, "RESERVED", t) /\ products[p].status # "NONE"
      BY <1>2 DEF Accept, Tradable
    <2>3. CASE q = p
      <3>1. Told(p, "RESERVED", t)
        BY <1>1, <2>1, <2>2, MoveTells DEF Told
      <3> QED
        BY <2>3, <3>1 DEF ProductStep
    <2>4. CASE q # p
      <3>1. productEvents'[q] = productEvents[q] /\ products'[q].status = products[q].status
        BY <1>1, <2>2, <2>4, MoveTells, ZenonT(40)
      <3> QED
        BY <2>1, <3>1 DEF ProductStep, Quiet
    <2> QED
      BY <2>3, <2>4
  <1>3. CASE CancelAccepted(a, t, k)
    <2>1. /\ trades[t].status = "ACCEPTED" /\ trades' = Moved({t}, "CANCELLED")
      BY <1>3 DEF CancelAccepted
    <2>2. /\ trades'[t].status = "CANCELLED" /\ trades'[t].product = p
          /\ \A x \in Trade \ {t} : trades'[x].status = trades[x].status
      <3>1. TradesMove({t}, "CANCELLED")
        BY <2>1, MovedMoves DEF TradeStatus
      <3> QED
        BY <2>1, <3>1 DEF TradesMove
    <2>3. MoveProduct(p, "ON_SALE", t) /\ products[p].status # "NONE"
      BY <1>3 DEF CancelAccepted
    <2>4. CASE q = p
      <3>1. Told(p, "ON_SALE", t)
        BY <1>1, <2>2, <2>3, MoveTells DEF Told
      <3> QED
        BY <2>4, <3>1 DEF ProductStep
    <2>5. CASE q # p
      <3>1. productEvents'[q] = productEvents[q] /\ products'[q].status = products[q].status
        BY <1>1, <2>3, <2>5, MoveTells, ZenonT(40)
      <3> QED
        BY <2>2, <2>5, <3>1 DEF ProductStep, Quiet
    <2> QED
      BY <2>4, <2>5
  <1>4. CASE ConfirmAndComplete(a, t, k)
    <2>1. /\ Moves(t, "ACCEPTED", "COMPLETED")
          /\ \A x \in Trade \ {t} : Still(x)
      BY <1>4, Completes
    <2>2. MoveProduct(p, "SOLD", t) /\ products[p].status # "NONE"
      BY <1>4 DEF ConfirmAndComplete
    <2>3. /\ trades'[t].status = "COMPLETED" /\ trades'[t].product = p
          /\ \A x \in Trade \ {t} : trades'[x] = trades[x]
      BY <2>1 DEF Moves, SameTerms, Still
    <2>5. CASE q = p
      <3>1. Told(p, "SOLD", t)
        BY <1>1, <2>2, <2>3, MoveTells DEF Told
      <3> QED
        BY <2>5, <3>1 DEF ProductStep
    <2>6. CASE q # p
      <3>1. productEvents'[q] = productEvents[q] /\ products'[q].status = products[q].status
        BY <1>1, <2>2, <2>6, MoveTells
      <3> QED
        BY <2>3, <3>1 DEF ProductStep, Quiet
    <2> QED
      BY <2>5, <2>6
  <1> QED
    BY <1>2, <1>3, <1>4

LEMMA ProductCommandSteps ==
  ASSUME TypeOK, NEW a \in User, NEW p \in Product, ProductCommand(a, p), NEW q \in Product
  PROVE  ProductStep(q)
  <1>1. trades' = trades /\ productEvents' = productEvents
    BY DEF ProductCommand, Publish, Update, OffShelf, Relist
  <1>2. \A x \in Product \ {p} : products'[x] = products[x]
    BY DEF ProductCommand, Publish, Update, OffShelf, Relist, TypeOK
  <1>3. \/ products'[p].status = products[p].status
        \/ {products[p].status, products'[p].status} \subseteq Free
    <2>1. ASSUME NEW price \in Price, Publish(a, p, price)
          PROVE  {products[p].status, products'[p].status} \subseteq Free
      BY <2>1 DEF Publish, TypeOK, NoProduct, Free
    <2>2. ASSUME NEW price \in Price, Update(a, p, price)
          PROVE  products'[p].status = products[p].status
      <3>1. products[p] \in ProductRow
        BY <2>2, ProductIsRow DEF Update, Mutable, SoldBy
      <3>2. products'[p] = [products[p] EXCEPT !.price = price]
        BY <2>2 DEF Update, TypeOK
      <3> QED
        BY <3>1, <3>2 DEF ProductRow
    <2>3. ASSUME NEW s \in {"ON_SALE", "OFF_SHELF"}, products' = [products EXCEPT ![p].status = s],
                 products[p].status \in {"ON_SALE", "OFF_SHELF"}
          PROVE  {products[p].status, products'[p].status} \subseteq Free
      <3>1. products[p] \in ProductRow
        BY <2>3, ProductIsRow
      <3>2. products'[p] = [products[p] EXCEPT !.status = s]
        BY <2>3 DEF TypeOK
      <3> QED
        BY <2>3, <3>1, <3>2 DEF ProductRow, Free
    <2> QED
      BY <2>1, <2>2, <2>3 DEF ProductCommand, OffShelf, Relist
  <1>4. \A t \in Trade : trades[t].status = "ACCEPTED" => trades'[t].status # "CANCELLED"
    BY <1>1
  <1> QED
    BY <1>1, <1>2, <1>3, <1>4 DEF ProductStep, Quiet

LEMMA EveryProductSteps ==
  ASSUME TypeOK, [Next]_vars, NEW q \in Product
  PROVE  ProductStep(q)
  <1>1. \A x \in Trade : TradeStep(x)
    BY EveryTradeSteps
  <1>2. ASSUME UNCHANGED <<products, trades, productEvents>>
        PROVE  ProductStep(q)
    BY <1>2, OtherStepsQuiet
  <1>3. ASSUME NEW a \in User, NEW t \in Trade, NEW k \in RequestKey,
               TradeCommand(a, t, k)
        PROVE  ProductStep(q)
    <2>1. ASSUME NEW p \in Product, NEW conv \in ConversationField,
                 CreateTrade(a, p, t, k, conv) \/ ReadIntent(a, p, t, k, conv)
          PROVE  ProductStep(q)
      <3>1. CASE CreateTrade(a, p, t, k, conv)
        <4>1. \A x \in Trade : trades[x].status = "ACCEPTED" => trades'[x].status # "CANCELLED"
          BY <3>1 DEF CreateTrade, TypeOK, NoTrade
        <4> QED
          BY <3>1, <4>1, OtherStepsQuiet DEF CreateTrade
      <3>2. CASE ReadIntent(a, p, t, k, conv)
        BY <1>2, <3>2 DEF ReadIntent
      <3> QED
        BY <2>1, <3>1, <3>2
    <2>2. CASE Reject(a, t, k) \/ CancelPending(a, t, k)
      <3>1. \A x \in Trade : trades[x].status = "ACCEPTED" => trades'[x] = trades[x]
        BY <2>2 DEF Reject, CancelPending, Moved
      <3> QED
        BY <2>2, <3>1, OtherStepsQuiet DEF Reject, CancelPending
    <2>3. CASE ConfirmOneSide(a, t, k)
      <3>1. \A x \in Trade : tradeEvents'[x] = tradeEvents[x]
        BY <2>3 DEF ConfirmOneSide
      <3>2. trades[t] \in TradeRow /\ trades[t].status = "ACCEPTED"
        BY <2>3, TradeIsRow DEF ConfirmOneSide
      <3>3. trades'[t].status = "ACCEPTED" /\ \A x \in Trade \ {t} : trades'[x] = trades[x]
        BY <2>3, <3>2 DEF ConfirmOneSide, TypeOK, TradeRow
      <3> QED
        BY <2>3, <3>3, OtherStepsQuiet DEF ConfirmOneSide
    <2>4. CASE Accept(a, t, k) \/ CancelAccepted(a, t, k) \/ ConfirmAndComplete(a, t, k)
      BY <2>4, DealSteps
    <2>5. CASE ConfirmCompleted(a, t, k)
      BY <1>2, <2>5 DEF ConfirmCompleted
    <2> QED
      BY <1>3, <2>1, <2>2, <2>3, <2>4, <2>5 DEF TradeCommand
  <1>4. ASSUME NEW a \in User, NEW t \in Trade, Review(a, t)
        PROVE  ProductStep(q)
    BY <1>2, <1>4 DEF Review
  <1>5. CASE UNCHANGED vars
    BY <1>2, <1>5 DEF vars
  <1> QED
    BY <1>3, <1>4, <1>5, ProductCommandSteps DEF Next

LEMMA LastOfAppend ==
  ASSUME NEW S, NEW h \in Seq(S), NEW e \in S
  PROVE  Append(h, e) # << >> /\ Append(h, e)[Len(Append(h, e))] = e
  BY AppendProperties

(* A consumer of product.status_changed is never misled by the last event  *)
(* of a product, in any number of commands on any number of products.      *)
THEOREM ProductEventsCorrect == Spec => []ProductEventsTellDeal
  <1>1. Init => ProductEventsTellDeal
    BY DEF Init, ProductEventsTellDeal, NoProduct
  <1>2. TypeOK /\ TypeOK' /\ ProductEventsTellDeal /\ [Next]_vars => ProductEventsTellDeal'
    <2> SUFFICES ASSUME TypeOK, TypeOK', ProductEventsTellDeal, [Next]_vars,
                        NEW p \in Product
                 PROVE  LET h == productEvents'[p]
                            dealt == products'[p].status \in {"RESERVED", "SOLD"}
                        IN  /\ dealt => h # << >> /\ h[Len(h)].status = products'[p].status
                            /\ h # << >> =>
                                 /\ h[Len(h)].status \in {"RESERVED", "SOLD"} =>
                                      /\ h[Len(h)].status = products'[p].status
                                      /\ h[Len(h)].trade \in
                                           TradesOf(p, "ACCEPTED")' \cup TradesOf(p, "COMPLETED")'
                                 /\ h[Len(h)].status = "ON_SALE" =>
                                      h[Len(h)].trade \in TradesOf(p, "CANCELLED")'
      BY DEF ProductEventsTellDeal
    <2> DEFINE h == productEvents[p]
               last == h[Len(h)]
    <2>1. /\ products[p].status \in {"RESERVED", "SOLD"} =>
               h # << >> /\ last.status = products[p].status
          /\ h # << >> /\ last.status \in {"RESERVED", "SOLD"} =>
               /\ last.status = products[p].status
               /\ last.trade \in TradesOf(p, "ACCEPTED") \cup TradesOf(p, "COMPLETED")
          /\ h # << >> /\ last.status = "ON_SALE" => last.trade \in TradesOf(p, "CANCELLED")
      BY DEF ProductEventsTellDeal
    <2>2. CASE Quiet(p)
      <3>1. productEvents'[p] = h
        BY <2>2 DEF Quiet
      <3>2. products'[p].status = products[p].status
            \/ {products[p].status, products'[p].status} \subseteq Free
        BY <2>2 DEF Quiet
      <3>3. \A t \in TradesOf(p, "ACCEPTED") \cup TradesOf(p, "COMPLETED") :
              t \in TradesOf(p, "ACCEPTED")' \cup TradesOf(p, "COMPLETED")'
        BY <2>2, EveryTradeSteps
           DEF Quiet, TradesOf, TradeStep, Still, Begins, Moves, SameTerms, NoTrade
      <3>4. \A t \in TradesOf(p, "CANCELLED") : t \in TradesOf(p, "CANCELLED")'
        BY EveryTradeSteps DEF TradesOf, TradeStep, Still, Begins, Moves, NoTrade
      <3> HIDE DEF h, last
      <3>5. /\ products'[p].status \in {"RESERVED", "SOLD"} =>
                 h # << >> /\ last.status = products'[p].status
            /\ h # << >> /\ last.status \in {"RESERVED", "SOLD"} =>
                 /\ last.status = products'[p].status
                 /\ last.trade \in TradesOf(p, "ACCEPTED")' \cup TradesOf(p, "COMPLETED")'
            /\ h # << >> /\ last.status = "ON_SALE" => last.trade \in TradesOf(p, "CANCELLED")'
        BY <2>1, <3>2, <3>3, <3>4 DEF Free
      <3> QED
        BY <3>1, <3>5 DEF last
    <2>3. CASE \E s \in {"ON_SALE", "RESERVED", "SOLD"}, t \in Trade : Told(p, s, t)
      <3> PICK s \in {"ON_SALE", "RESERVED", "SOLD"}, t \in Trade : Told(p, s, t)
        BY <2>3
      <3> DEFINE e == [status |-> s, trade |-> t]
                 g == productEvents'[p]
      <3>1. e \in StatusEvent /\ h \in Seq(StatusEvent)
        BY DEF StatusEvent, ProductStatus, TypeOK
      <3>2. g = Append(h, e)
        BY DEF Told
      <3>3. g # << >> /\ g[Len(g)] = e
        BY <3>1, <3>2, LastOfAppend
      <3>4. /\ products'[p].status = s
            /\ s # "ON_SALE" => t \in TradesOf(p, "ACCEPTED")' \cup TradesOf(p, "COMPLETED")'
            /\ s = "ON_SALE" => t \in TradesOf(p, "CANCELLED")'
        BY DEF Told, TradesOf
      <3>5. g[Len(g)].status = s /\ g[Len(g)].trade = t
        BY <3>3
      <3> HIDE DEF g, e
      <3> QED
        BY <3>3, <3>4, <3>5 DEF g
    <2> QED
      BY <2>2, <2>3, EveryProductSteps DEF ProductStep
  <1> QED
    BY <1>1, <1>2, TypeCorrect, PTL DEF Spec
=============================================================================
