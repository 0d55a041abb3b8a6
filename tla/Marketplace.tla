------------------------------ MODULE Marketplace ------------------------------
(***************************************************************************)
(* The Marketplace service at the level of its commands: what one          *)
(* committed command does to the product, trade, review, idempotency and   *)
(* outbox tables.  Every command of the trade and product services runs in *)
(* one database transaction under the Product row lock, so here it is one  *)
(* atomic step; TradeTx models the transactions themselves and is checked  *)
(* to implement this module.                                               *)
(*                                                                         *)
(* A refused command changes nothing (its transaction rolls back), so only *)
(* successful commands appear.  A replay of a recorded command changes     *)
(* nothing either: it is a stuttering step.  The unique indexes and CHECKs *)
(* of the schema are not guards here: the invariants below say they never  *)
(* have to refuse a write.                                                 *)
(***************************************************************************)
EXTENDS Sequences

CONSTANTS
  User,      \* account identifiers
  Product,   \* product identifiers the id generator may hand out
  Trade,     \* trade identifiers the id generator may hand out
  Price,     \* prices in minor units
  Key,       \* client-supplied Idempotency-Key values
  NoKey      \* a request without Idempotency-Key

ASSUME NoKeyAssumption == NoKey \notin Key

VARIABLES
  products,       \* products: row of each product, or NoProduct
  trades,         \* trades: row of each trade, or NoTrade
  reviews,        \* trade_reviews: the trades that have a buyer review
  ledger,         \* idempotency_records: stored result of each command id
  tradeEvents,    \* outbox_events of each trade aggregate, in commit order
  productEvents   \* outbox_events of each product aggregate, in commit order

vars == <<products, trades, reviews, ledger, tradeEvents, productEvents>>

-----------------------------------------------------------------------------
(* Rows, results and events. *)

ProductStatus == {"ON_SALE", "RESERVED", "SOLD", "OFF_SHELF"}
ProductRow == [seller : User, price : Price, status : ProductStatus]
NoProduct == [status |-> "NONE"]

TradeStatus == {"PENDING", "ACCEPTED", "COMPLETED", "CANCELLED"}
Role == {"buyer", "seller"}
(* conversation: "own" is the one conversation of this product, buyer and  *)
(* seller (Messaging keeps at most one), "null" is no binding.             *)
TradeRow == [product : Product, buyer : User, seller : User, price : Price,
             conversation : {"null", "own"}, status : TradeStatus,
             confirmed : SUBSET Role]
NoTrade == [status |-> "NONE"]

Operation == {"trade.create", "trade.accept", "trade.reject",
              "trade.cancel", "trade.confirm"}
CommandId == [actor : User, op : Operation, key : Key]
ResultCode == {"TRADE_CREATED", "TRADE_EXISTS", "TRADE_ACCEPTED",
               "TRADE_REJECTED", "TRADE_CANCELLED", "TRADE_CONFIRMED",
               "TRADE_COMPLETED"}
(* The snapshot is abstracted to the trade it shows and that trade's state. *)
Result == [code : ResultCode, trade : Trade, status : TradeStatus]
NoResult == [code |-> "NONE"]

TradeEvent == {"created", "accepted", "cancelled", "completed"}
StatusEvent == [status : ProductStatus, trade : Trade]

-----------------------------------------------------------------------------
(* What a command reads under the Product lock. *)

TradesOf(p, s) ==
  {t \in Trade : trades[t].status = s /\ trades[t].product = p}

(* Mutant: the pending-intent check is forgotten. *)
HasPendingForgotten(p) == FALSE

HasPending(p) == TradesOf(p, "PENDING") # {}

(* Mutant: only an accepted intent counts as active. *)
ActiveIntentAcceptedOnly(p, b) ==
  {t \in TradesOf(p, "ACCEPTED") : trades[t].buyer = b}

ActiveIntent(p, b) ==
  {t \in TradesOf(p, "PENDING") \cup TradesOf(p, "ACCEPTED") :
     trades[t].buyer = b}

(* Mutant: competing intents are looked up without their status. *)
RivalsOfAnyStatus(p, t) ==
  {u \in Trade : trades[u].status # "NONE" /\ trades[u].product = p} \ {t}

(* LockPendingTrades: what accepting t cancels along with it. *)
Rivals(p, t) == TradesOf(p, "PENDING") \ {t}

(* Mutant: a reserved product can still be dealt. *)
TradableWhileReserved(p) == products[p].status \in {"ON_SALE", "RESERVED"}

Tradable(p) == products[p].status = "ON_SALE"

SoldBy(p, a) == products[p].status # "NONE" /\ products[p].seller = a

Party(t, a) == trades[t].status # "NONE" /\ a \in {trades[t].buyer, trades[t].seller}

(* Mutant: the two sides are swapped. *)
RoleSwapped(t, a) == IF trades[t].seller = a THEN "buyer" ELSE "seller"

RoleOf(t, a) == IF trades[t].buyer = a THEN "buyer" ELSE "seller"

(* The content of a product may be edited by its seller outside a deal.    *)
Mutable(p, a) ==
  /\ SoldBy(p, a)
  /\ products[p].status \in {"ON_SALE", "OFF_SHELF"}
  /\ ~HasPending(p)

(* Execute: a keyed command runs only when the ledger holds no result for   *)
(* its id, and stores its own in the same transaction.                      *)
Fresh(a, op, k) ==
  k # NoKey => ledger[[actor |-> a, op |-> op, key |-> k]] = NoResult

Record(a, op, k, code, t, status) ==
  ledger' = IF k = NoKey THEN ledger
            ELSE [ledger EXCEPT ![[actor |-> a, op |-> op, key |-> k]] =
                    [code |-> code, trade |-> t, status |-> status]]

(* Mutant: the trade writes are not flushed. *)
MovedNotFlushed(S, s) == trades

(* Buffered writes of one command: trades S move to status s, with one     *)
(* trade event e each; product p moves to status s on behalf of trade t.   *)
Moved(S, s) ==
  [x \in Trade |-> IF x \in S THEN [trades[x] EXCEPT !.status = s] ELSE trades[x]]

Logged(S, e) ==
  [x \in Trade |-> IF x \in S THEN Append(tradeEvents[x], e) ELSE tradeEvents[x]]

(* Mutant: releasing a product writes no status event. *)
MoveProductSilentRelease(p, s, t) ==
  /\ products' = [products EXCEPT ![p].status = s]
  /\ productEvents' =
       IF s = "ON_SALE" THEN productEvents
       ELSE [productEvents EXCEPT ![p] = Append(@, [status |-> s, trade |-> t])]

MoveProduct(p, s, t) ==
  /\ products' = [products EXCEPT ![p].status = s]
  /\ productEvents' =
       [productEvents EXCEPT ![p] = Append(@, [status |-> s, trade |-> t])]

-----------------------------------------------------------------------------
Init ==
  /\ products = [p \in Product |-> NoProduct]
  /\ trades = [t \in Trade |-> NoTrade]
  /\ reviews = {}
  /\ ledger = [c \in CommandId |-> NoResult]
  /\ tradeEvents = [t \in Trade |-> << >>]
  /\ productEvents = [p \in Product |-> << >>]

-----------------------------------------------------------------------------
(* Product commands.  None of them is keyed and none writes an event. *)

Publish(a, p, price) ==
  /\ products[p] = NoProduct
  /\ products' = [products EXCEPT ![p] =
                    [seller |-> a, price |-> price, status |-> "ON_SALE"]]
  /\ UNCHANGED <<trades, reviews, ledger, tradeEvents, productEvents>>

Update(a, p, price) ==
  /\ Mutable(p, a)
  /\ products' = [products EXCEPT ![p].price = price]
  /\ UNCHANGED <<trades, reviews, ledger, tradeEvents, productEvents>>

(* Mutant: the status column is written with a misspelt constant. *)
OffShelfMisspelt(a, p) ==
  /\ SoldBy(p, a)
  /\ products[p].status = "ON_SALE"
  /\ ~HasPending(p)
  /\ products' = [products EXCEPT ![p].status = "OFFSHELF"]
  /\ UNCHANGED <<trades, reviews, ledger, tradeEvents, productEvents>>

OffShelf(a, p) ==
  /\ SoldBy(p, a)
  /\ products[p].status = "ON_SALE"
  /\ ~HasPending(p)
  /\ products' = [products EXCEPT ![p].status = "OFF_SHELF"]
  /\ UNCHANGED <<trades, reviews, ledger, tradeEvents, productEvents>>

(* Mutant: anything not on sale can be put back on sale. *)
RelistSold(a, p) ==
  /\ SoldBy(p, a)
  /\ products[p].status \in {"OFF_SHELF", "SOLD"}
  /\ products' = [products EXCEPT ![p].status = "ON_SALE"]
  /\ UNCHANGED <<trades, reviews, ledger, tradeEvents, productEvents>>

Relist(a, p) ==
  /\ SoldBy(p, a)
  /\ products[p].status = "OFF_SHELF"
  /\ products' = [products EXCEPT ![p].status = "ON_SALE"]
  /\ UNCHANGED <<trades, reviews, ledger, tradeEvents, productEvents>>

-----------------------------------------------------------------------------
(* Trade commands. *)

(* conv is the conversation field of the request: "absent", an explicit    *)
(* "null", the "own" conversation, or an "other" one the actor can see.    *)
CreateTrade(a, p, t, k, conv) ==
  /\ Fresh(a, "trade.create", k)
  /\ products[p].status # "NONE"
  /\ ActiveIntent(p, a) = {}
  /\ conv # "other"
  /\ ~SoldBy(p, a)
  /\ Tradable(p)
  /\ trades[t] = NoTrade
  /\ trades' = [trades EXCEPT ![t] =
       [product |-> p, buyer |-> a, seller |-> products[p].seller,
        price |-> products[p].price,
        conversation |-> IF conv = "own" THEN "own" ELSE "null",
        status |-> "PENDING", confirmed |-> {}]]
  /\ tradeEvents' = Logged({t}, "created")
  /\ Record(a, "trade.create", k, "TRADE_CREATED", t, "PENDING")
  /\ UNCHANGED <<products, reviews, productEvents>>

(* An intent in progress is returned as it is. *)
ReadIntent(a, p, t, k, conv) ==
  /\ Fresh(a, "trade.create", k)
  /\ t \in ActiveIntent(p, a)
  /\ conv # "absent" => conv = trades[t].conversation
  /\ Record(a, "trade.create", k, "TRADE_EXISTS", t, trades[t].status)
  /\ UNCHANGED <<products, trades, reviews, tradeEvents, productEvents>>

Accept(a, t, k) ==
  LET p == trades[t].product
      rivals == Rivals(p, t)
  IN
  /\ Fresh(a, "trade.accept", k)
  /\ trades[t].status = "PENDING"
  /\ trades[t].seller = a
  /\ Tradable(p)
  /\ trades' = [x \in Trade |->
                  IF x = t THEN [trades[t] EXCEPT !.status = "ACCEPTED"]
                  ELSE Moved(rivals, "CANCELLED")[x]]
  /\ tradeEvents' = [x \in Trade |->
                       IF x = t THEN Append(tradeEvents[t], "accepted")
                       ELSE Logged(rivals, "cancelled")[x]]
  /\ MoveProduct(p, "RESERVED", t)
  /\ Record(a, "trade.accept", k, "TRADE_ACCEPTED", t, "ACCEPTED")
  /\ UNCHANGED reviews

Reject(a, t, k) ==
  /\ Fresh(a, "trade.reject", k)
  /\ trades[t].status = "PENDING"
  /\ trades[t].seller = a
  /\ trades' = Moved({t}, "CANCELLED")
  /\ tradeEvents' = Logged({t}, "cancelled")
  /\ Record(a, "trade.reject", k, "TRADE_REJECTED", t, "CANCELLED")
  /\ UNCHANGED <<products, reviews, productEvents>>

CancelPending(a, t, k) ==
  /\ Fresh(a, "trade.cancel", k)
  /\ trades[t].status = "PENDING"
  /\ trades[t].buyer = a
  /\ trades' = Moved({t}, "CANCELLED")
  /\ tradeEvents' = Logged({t}, "cancelled")
  /\ Record(a, "trade.cancel", k, "TRADE_CANCELLED", t, "CANCELLED")
  /\ UNCHANGED <<products, reviews, productEvents>>

(* Cancelling an accepted trade also releases the product it reserved. *)
CancelAccepted(a, t, k) ==
  /\ Fresh(a, "trade.cancel", k)
  /\ trades[t].status = "ACCEPTED"
  /\ Party(t, a)
  /\ products[trades[t].product].status = "RESERVED"
  /\ trades' = Moved({t}, "CANCELLED")
  /\ tradeEvents' = Logged({t}, "cancelled")
  /\ MoveProduct(trades[t].product, "ON_SALE", t)
  /\ Record(a, "trade.cancel", k, "TRADE_CANCELLED", t, "CANCELLED")
  /\ UNCHANGED reviews

(* The first confirmation, and a repeated one by the same side. *)
ConfirmOneSide(a, t, k) ==
  /\ Fresh(a, "trade.confirm", k)
  /\ trades[t].status = "ACCEPTED"
  /\ Party(t, a)
  /\ trades[t].confirmed \cup {RoleOf(t, a)} # Role
  /\ trades' = [trades EXCEPT ![t].confirmed = @ \cup {RoleOf(t, a)}]
  /\ Record(a, "trade.confirm", k, "TRADE_CONFIRMED", t, "ACCEPTED")
  /\ UNCHANGED <<products, reviews, tradeEvents, productEvents>>

(* The second confirmation completes the trade and sells the product. *)
ConfirmAndComplete(a, t, k) ==
  /\ Fresh(a, "trade.confirm", k)
  /\ trades[t].status = "ACCEPTED"
  /\ Party(t, a)
  /\ trades[t].confirmed \cup {RoleOf(t, a)} = Role
  /\ products[trades[t].product].status = "RESERVED"
  /\ trades' = [Moved({t}, "COMPLETED") EXCEPT ![t].confirmed = Role]
  /\ tradeEvents' = Logged({t}, "completed")
  /\ MoveProduct(trades[t].product, "SOLD", t)
  /\ Record(a, "trade.confirm", k, "TRADE_COMPLETED", t, "COMPLETED")
  /\ UNCHANGED reviews

(* Confirming a completed trade returns it without another domain write. *)
ConfirmCompleted(a, t, k) ==
  /\ Fresh(a, "trade.confirm", k)
  /\ trades[t].status = "COMPLETED"
  /\ Party(t, a)
  /\ Record(a, "trade.confirm", k, "TRADE_CONFIRMED", t, "COMPLETED")
  /\ UNCHANGED <<products, trades, reviews, tradeEvents, productEvents>>

(* The buyer of a completed trade publishes its one review. *)
Review(a, t) ==
  /\ trades[t].status = "COMPLETED"
  /\ trades[t].buyer = a
  /\ t \notin reviews
  /\ reviews' = reviews \cup {t}
  /\ UNCHANGED <<products, trades, ledger, tradeEvents, productEvents>>

-----------------------------------------------------------------------------
RequestKey == Key \cup {NoKey}
ConversationField == {"absent", "null", "own", "other"}

ProductCommand(a, p) ==
  \/ \E price \in Price : Publish(a, p, price) \/ Update(a, p, price)
  \/ OffShelf(a, p)
  \/ Relist(a, p)

TradeCommand(a, t, k) ==
  \/ \E p \in Product, conv \in ConversationField :
       CreateTrade(a, p, t, k, conv) \/ ReadIntent(a, p, t, k, conv)
  \/ Accept(a, t, k)
  \/ Reject(a, t, k)
  \/ CancelPending(a, t, k)
  \/ CancelAccepted(a, t, k)
  \/ ConfirmOneSide(a, t, k)
  \/ ConfirmAndComplete(a, t, k)
  \/ ConfirmCompleted(a, t, k)

Next ==
  \E a \in User :
    \/ \E p \in Product : ProductCommand(a, p)
    \/ \E t \in Trade, k \in RequestKey : TradeCommand(a, t, k)
    \/ \E t \in Trade : Review(a, t)

Spec == Init /\ [][Next]_vars

-----------------------------------------------------------------------------
(* Properties. *)

(* Every row, result and event has the shape of its table. *)
TypeOK ==
  /\ products \in [Product -> ProductRow \cup {NoProduct}]
  /\ trades \in [Trade -> TradeRow \cup {NoTrade}]
  /\ reviews \subseteq Trade
  /\ ledger \in [CommandId -> Result \cup {NoResult}]
  /\ tradeEvents \in [Trade -> Seq(TradeEvent)]
  /\ productEvents \in [Product -> Seq(StatusEvent)]

(* Product and trades never disagree: a product is RESERVED exactly while  *)
(* one of its trades is ACCEPTED, SOLD exactly when one is COMPLETED, and  *)
(* a PENDING intent only exists on a product on sale -- whatever order     *)
(* accept, cancel, confirm, off-shelf and relist commands come in.         *)
ReservationMatchesTrade ==
  \A p \in Product :
    /\ (products[p].status = "RESERVED") <=> (TradesOf(p, "ACCEPTED") # {})
    /\ (products[p].status = "SOLD") <=> (TradesOf(p, "COMPLETED") # {})
    /\ (TradesOf(p, "PENDING") # {}) => products[p].status = "ON_SALE"

(* A product is promised or sold to one buyer at most: no two of its       *)
(* trades are ACCEPTED or COMPLETED (the accepted-trade unique index never *)
(* has to refuse a write).                                                 *)
OneDealPerProduct ==
  \A p \in Product :
    \A t, u \in TradesOf(p, "ACCEPTED") \cup TradesOf(p, "COMPLETED") : t = u

(* A buyer has at most one intent in progress on a product (the            *)
(* active-intent unique index never has to refuse a write).                *)
OneActiveIntent ==
  \A t, u \in Trade :
    /\ {trades[t].status, trades[u].status} \subseteq {"PENDING", "ACCEPTED"}
    /\ trades[t].product = trades[u].product
    /\ trades[t].buyer = trades[u].buyer
    => t = u

(* While an intent is live, and once it is completed, the price it was     *)
(* made at is the price the product shows: the seller cannot edit the      *)
(* price under a waiting or accepted buyer.                                *)
LivePriceIsCurrent ==
  \A t \in Trade :
    trades[t].status \in {"PENDING", "ACCEPTED", "COMPLETED"} =>
      /\ products[trades[t].product].price = trades[t].price
      /\ products[trades[t].product].seller = trades[t].seller

(* The outbox of a trade is its exact history: a consumer that reads the   *)
(* events in commit order follows a legal path of the trade state machine  *)
(* that ends in the state the row is in, with no event missing or doubled. *)
TradeEventsTellStatus ==
  \A t \in Trade :
    LET h == tradeEvents[t]
        s == trades[t].status
    IN  /\ s = "NONE" => h = << >>
        /\ s = "PENDING" => h = <<"created">>
        /\ s = "ACCEPTED" => h = <<"created", "accepted">>
        /\ s = "COMPLETED" => h = <<"created", "accepted", "completed">>
        /\ s = "CANCELLED" => h \in {<<"created", "cancelled">>,
                                     <<"created", "accepted", "cancelled">>}

(* A consumer of product.status_changed knows from the last event alone    *)
(* whether a product is reserved or sold, and in which trade, although     *)
(* publishing, taking off the shelf and relisting write no event.          *)
ProductEventsTellDeal ==
  \A p \in Product :
    LET h == productEvents[p]
        dealt == products[p].status \in {"RESERVED", "SOLD"}
    IN  /\ dealt => h # << >> /\ h[Len(h)].status = products[p].status
        /\ h # << >> =>
             /\ h[Len(h)].status \in {"RESERVED", "SOLD"} =>
                  /\ h[Len(h)].status = products[p].status
                  /\ h[Len(h)].trade \in
                       TradesOf(p, "ACCEPTED") \cup TradesOf(p, "COMPLETED")
             /\ h[Len(h)].status = "ON_SALE" =>
                  h[Len(h)].trade \in TradesOf(p, "CANCELLED")

(* A stored result can be replayed long after the trade moved on, so it    *)
(* must stay true of it: the actor it answers is the side that may do it,  *)
(* and what it reports did happen to that trade.                           *)
LedgerTellsTruth ==
  \A c \in CommandId :
    LET r == ledger[c]
        row == trades[r.trade]
    IN  r # NoResult =>
          /\ row # NoTrade
          /\ r.code \in {"TRADE_CREATED", "TRADE_EXISTS"} => c.actor = row.buyer
          /\ r.code \in {"TRADE_ACCEPTED", "TRADE_REJECTED"} => c.actor = row.seller
          /\ r.code = "TRADE_ACCEPTED" => row.status \in {"ACCEPTED", "COMPLETED", "CANCELLED"}
          /\ r.code \in {"TRADE_REJECTED", "TRADE_CANCELLED"} => row.status = "CANCELLED"
          /\ r.code = "TRADE_COMPLETED" => row.status = "COMPLETED"
          /\ r.code \in {"TRADE_CONFIRMED", "TRADE_COMPLETED"} =>
               \/ c.actor = row.buyer /\ "buyer" \in row.confirmed
               \/ c.actor = row.seller /\ "seller" \in row.confirmed

(* An effect happens once: at most one command id ever reports having      *)
(* created, accepted, rejected, cancelled or completed a given trade, no   *)
(* matter how many keys are used, and never both cancelled and completed.  *)
OneRecordedEffect ==
  \A c, d \in CommandId :
    LET ending == {"TRADE_REJECTED", "TRADE_CANCELLED", "TRADE_COMPLETED"}
    IN  /\ NoResult \notin {ledger[c], ledger[d]}
        /\ ledger[c].trade = ledger[d].trade
        /\ \/ ledger[c].code = ledger[d].code
              /\ ledger[c].code \in {"TRADE_CREATED", "TRADE_ACCEPTED"}
           \/ {ledger[c].code, ledger[d].code} \subseteq ending
        => c = d

(* At most one buyer review per product, as the product pages assume,      *)
(* although the schema only makes it unique per trade.                     *)
OneReviewPerProduct ==
  \A t, u \in reviews : trades[t].product = trades[u].product => t = u

(* A step that rewrites none of what is history. *)
HistoryKept ==
  /\ \A t \in Trade :
       /\ trades[t].status \in {"COMPLETED", "CANCELLED"} =>
            trades'[t] = trades[t] /\ tradeEvents'[t] = tradeEvents[t]
       /\ trades[t] # NoTrade =>
            [trades'[t] EXCEPT !.status = trades[t].status,
                               !.confirmed = trades[t].confirmed] = trades[t]
  /\ \A c \in CommandId : ledger[c] # NoResult => ledger'[c] = ledger[c]
  /\ reviews \subseteq reviews'

(* History is final: a finished trade, its outbox rows, a stored result,   *)
(* a review and the terms of a trade are never changed by a later command. *)
HistoryIsFinal == [][HistoryKept]_vars
=============================================================================
